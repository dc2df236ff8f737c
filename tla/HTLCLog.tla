------------------------------ MODULE HTLCLog ------------------------------
(***************************************************************************)
(* The update log one party keeps of a Lightning channel: HTLCManager of   *)
(* electrum_grs/lnhtlc.py.  A log is a record and every method of the      *)
(* class that changes it is an operator from logs to logs, so that a       *)
(* message handler of the channel layer is a composition of them.          *)
(*                                                                         *)
(* The source writes each method twice, for LOCAL and for REMOTE.  Here a  *)
(* log is indexed by Owner and an operator takes the owner it acts for, so *)
(* send_x and recv_x are the same operator with its owner exchanged.       *)
(*                                                                         *)
(* A commitment transaction (ctx) of an owner has a number, its ctn.  Each *)
(* update carries, per owner, the first ctn it is in, or None while that   *)
(* is not known yet.                                                       *)
(***************************************************************************)
EXTENDS Integers, Sequences, FiniteSetsExt, Functions

CONSTANTS
    Owner,      \* the two parties of the channel (HTLCOwner)
    None        \* Python's None, where a ctn is expected

ASSUME OwnerAssumption == \E a, b \in Owner : a # b /\ Owner = {a, b}
ASSUME NoneAssumption  == None \notin Int

(* HTLCOwner.inverted() *)
Other(o) == CHOOSE x \in Owner : x # o

(* The two ways to remove an HTLC, which are also the keys of the log. *)
RemovalKind == {"settles", "fails"}

(* d[key] = value *)
With(d, key, value) ==
    [k \in DOMAIN d \cup {key} |-> IF k = key THEN value ELSE d[k]]

(* "c is not None and c <= n": an update is in a ctx from its ctn on. *)
Reached(c, n) == c # None /\ c <= n

(* A new update: it enters the ctx of `owner' at ctn n, the other's later. *)
EntersFirst(owner, n) == [o \in Owner |-> IF o = owner THEN n ELSE None]

-----------------------------------------------------------------------------
(* The initial log, after channel_open_finished. *)
NewLog(initiator, feerate) ==
    [ ctn              |-> [o \in Owner |-> 0],
      revack_pending   |-> [o \in Owner |-> FALSE],
      next_htlc_id     |-> [o \in Owner |-> 0],
      adds             |-> [o \in Owner |-> << >>],
      locked_in        |-> [o \in Owner |-> << >>],
      removes          |-> [k \in RemovalKind |-> [o \in Owner |-> << >>]],
      fee_updates      |-> [o \in Owner |->
                              IF o = initiator
                                THEN <<[rate |-> feerate,
                                        ctn  |-> [x \in Owner |-> 0]]>>
                                ELSE << >>],
      unacked_updates  |-> << >>,
      was_revoke_last  |-> FALSE,
      maybe_active     |-> [o \in Owner |-> {}],
      balance_delta    |-> 0 ]

(* The ctn of the newest signed ctx of `o'. *)
CtnLatest(l, o) == l.ctn[o] + (IF l.revack_pending[o] THEN 1 ELSE 0)
CtnNext(l, o)   == CtnLatest(l, o) + 1

-----------------------------------------------------------------------------
(*                               Queries                                   *)

IsActiveAt(l, owner, n, proposer, id) ==
    /\ id < l.next_htlc_id[proposer]
    /\ Reached(l.locked_in[proposer][id][owner], n)
    /\ \A k \in RemovalKind : id \in DOMAIN l.removes[k][proposer] =>
           ~ Reached(l.removes[k][proposer][id][owner], n)

IsAddedToOwnCtx(l, proposer, id) ==         \* mutant: in one ctx is enough
    /\ id < l.next_htlc_id[proposer]
    /\ LET me == Other(proposer) IN Reached(l.locked_in[proposer][id][me], l.ctn[me])

IsIrrevocablyAdded(l, proposer, id) ==
    /\ id < l.next_htlc_id[proposer]
    /\ \A o \in Owner : Reached(l.locked_in[proposer][id][o], l.ctn[o])

(* ctn_of_settle or ctn_of_fail: the settle wins when both are there. *)
CtnOfRemoval(l, owner, proposer, id) ==
    LET Of(k) == IF id \in DOMAIN l.removes[k][proposer]
                   THEN l.removes[k][proposer][id][owner] ELSE None
    IN  IF Of("settles") \in {None, 0} THEN Of("fails") ELSE Of("settles")

IsIrrevocablyRemoved(l, proposer, id) ==
    /\ id < l.next_htlc_id[proposer]
    /\ \A o \in Owner : Reached(CtnOfRemoval(l, o, proposer, id), l.ctn[o])

(* For ctns that are not revoked yet only the ids of the cache are looked   *)
(* at; older ones need the whole log.                                       *)
ConsideredIds(l, owner, n, proposer) ==
    IF n >= l.ctn[owner] THEN l.maybe_active[proposer]
                         ELSE DOMAIN l.locked_in[proposer]

HtlcsByProposer(l, owner, n, proposer) ==
    {id \in ConsideredIds(l, owner, n, proposer) :
        IsActiveAt(l, owner, n, proposer, id)}

(* The HTLCs in the ctx of `owner' at ctn n. *)
Htlcs(l, owner, n) ==
    UNION {{<<p, id>> : id \in HtlcsByProposer(l, owner, n, p)} : p \in Owner}

WasPreimageReleased(l, proposer, id) ==
    /\ id \in DOMAIN l.removes["settles"][proposer]
    /\ l.removes["settles"][proposer][id][proposer] # None

WasFailed(l, proposer, id) ==
    /\ id \in DOMAIN l.removes["fails"][proposer]
    /\ l.removes["fails"][proposer][id][proposer] # None

(* The HTLCs of `proposer' whose removal enters the ctx of `owner' at n. *)
RemovedExactlyAfter(l, kind, owner, n, proposer) ==     \* mutant: off by one
    {id \in DOMAIN l.removes[kind][proposer] :
        l.removes[kind][proposer][id][owner] = n + 1}

RemovedFromTheirs(l, kind, owner, n, proposer) ==   \* mutant: of any ctn by n
    {id \in DOMAIN l.removes[kind][proposer] :
        Reached(l.removes[kind][proposer][id][proposer], n)}

RemovedExactlyAt(l, kind, owner, n, proposer) ==
    {id \in (IF n >= l.ctn[owner] THEN l.maybe_active[proposer]
                                  ELSE DOMAIN l.removes[kind][proposer]) :
        /\ id \in DOMAIN l.removes[kind][proposer]
        /\ l.removes[kind][proposer][id][owner] = n}

(* The sum of the HTLCs of `proposer' settled in the ctx of `owner' by n.   *)
SettledAmount(l, owner, n, proposer, considered) ==
    MapThenSumSet(LAMBDA id : l.adds[proposer][id],
                  {id \in considered :
                     /\ id \in DOMAIN l.removes["settles"][proposer]
                     /\ Reached(l.removes["settles"][proposer][id][owner], n)})

(* get_balance_msat of `whose', relative to the balance at the opening, in  *)
(* the log of `me': balance_delta is the part of the HTLCs that have left   *)
(* the cache, counted for `me' (LOCAL is 1 and REMOTE is -1 in the source). *)
BalanceDelta(l, me, whose, owner, n) ==
    LET cached == n >= l.ctn[owner]
        Considered(p) == IF cached THEN l.maybe_active[p]
                                   ELSE DOMAIN l.removes["settles"][p]
        forgotten == IF ~cached THEN 0
                     ELSE IF whose = me THEN l.balance_delta
                                        ELSE -l.balance_delta
    IN  forgotten
          - SettledAmount(l, owner, n, whose, Considered(whose))
          + SettledAmount(l, owner, n, Other(whose), Considered(Other(whose)))

(* The only non-empty fee log is that of the funder of the channel. *)
FeeLog(l) == LET o == CHOOSE o \in Owner : l.fee_updates[o] # << >>
             IN  l.fee_updates[o]

(* get_feerate: a binary search for the last update in force at n.  The     *)
(* interval is [left, right), 0-based as in the source.                     *)
Feerate(l, owner, n) ==
    LET log == FeeLog(l)
        at(i) == log[i + 1].ctn[owner]
        search[interval \in (0 .. Len(log)) \X (0 .. Len(log))] ==
            LET left  == interval[1]
                right == interval[2]
                i     == (left + right) \div 2
            IN  IF right - left <= 1 THEN i
                ELSE IF at(i) = None THEN search[<<left, i>>]
                ELSE IF at(i) <= n   THEN search[<<i, right>>]
                ELSE search[<<left, i>>]
    IN  log[search[<<0, Len(log)>>] + 1].rate

(* has_pending_changes *)
HasPendingChanges(l, owner) ==
    \/ Htlcs(l, owner, CtnNext(l, owner)) # Htlcs(l, owner, CtnLatest(l, owner))
    \/ Feerate(l, owner, CtnNext(l, owner))
         # Feerate(l, owner, CtnLatest(l, owner))

-----------------------------------------------------------------------------
(*                               Updates                                   *)

(* send_htlc, recv_htlc: the new HTLC is first in the ctx of the other. *)
AddHtlc(l, proposer, amount) ==
    LET id    == l.next_htlc_id[proposer]
        other == Other(proposer)
    IN  [l EXCEPT
          !.adds[proposer]         = With(@, id, amount),
          !.locked_in[proposer]    = With(@, id, EntersFirst(other, CtnNext(l, other))),
          !.next_htlc_id[proposer] = @ + 1,
          !.maybe_active[proposer] = @ \cup {id}]

(* send_settle, recv_settle, send_fail, recv_fail: the guard and the effect. *)
(* The removal is first in the ctx of the one who proposed the HTLC.         *)
CanRemoveAtLatest(l, proposer, id) ==       \* mutant: the latest ctx, not the next
    IsActiveAt(l, proposer, CtnLatest(l, proposer), proposer, id)

CanRemoveHtlc(l, proposer, id) ==
    IsActiveAt(l, proposer, CtnNext(l, proposer), proposer, id)

RemoveHtlc(l, kind, proposer, id) ==
    [l EXCEPT !.removes[kind][proposer] =
                With(@, id, EntersFirst(proposer, CtnNext(l, proposer)))]

(* send_update_fee, recv_update_fee: an update that nobody has committed to  *)
(* is overwritten.                                                           *)
UpdateFeeOverwrites(l, sender, rate) ==     \* mutant: always overwrites the last
    [l EXCEPT !.fee_updates[sender][Len(l.fee_updates[sender])] =
        [rate |-> rate,
         ctn  |-> EntersFirst(Other(sender), CtnNext(l, Other(sender)))]]

UpdateFee(l, sender, rate) ==
    LET new  == [rate |-> rate,
                 ctn  |-> EntersFirst(Other(sender), CtnNext(l, Other(sender)))]
        log  == l.fee_updates[sender]
        last == log[Len(log)]
        uncommitted == \A o \in Owner : ~ Reached(last.ctn[o], CtnLatest(l, o))
    IN  [l EXCEPT !.fee_updates[sender] =
                    IF uncommitted THEN [log EXCEPT ![Len(log)] = new]
                                   ELSE Append(log, new)]

-----------------------------------------------------------------------------
(*                    Commitments and revocations                          *)

SendCtx(l, me) ==
    [l EXCEPT !.revack_pending[Other(me)] = TRUE,
              !.was_revoke_last = FALSE]

RecvCtx(l, me) == [l EXCEPT !.revack_pending[me] = TRUE]

(* Removed from both ctxs, with the sanity margin of one ctn. *)
SanityMargin == 1

ForgettableEarly(l, kind, proposer) ==      \* mutant: removed from one ctx
    {id \in l.maybe_active[proposer] :
        /\ id \in DOMAIN l.removes[kind][proposer]
        /\ \E o \in Owner : Reached(l.removes[kind][proposer][id][o],
                                    l.ctn[o] - SanityMargin)}

Forgettable(l, kind, proposer) ==
    {id \in l.maybe_active[proposer] :
        /\ id \in DOMAIN l.removes[kind][proposer]
        /\ \A o \in Owner : Reached(l.removes[kind][proposer][id][o],
                                    l.ctn[o] - SanityMargin)}

(* _update_maybe_active_htlc_ids: drop those from the cache, and count the   *)
(* settled ones in balance_delta.                                            *)
BalanceOfAllForgotten(l, me) ==             \* mutant: counts the failed ones too
    LET Sum(p) == MapThenSumSet(LAMBDA id : l.adds[p][id],
                      UNION {Forgettable(l, k, p) : k \in RemovalKind})
    IN  Sum(Other(me)) - Sum(me)

BalanceOfForgotten(l, me) ==
    LET Sum(p) == MapThenSumSet(LAMBDA id : l.adds[p][id],
                                Forgettable(l, "settles", p))
    IN  Sum(Other(me)) - Sum(me)

UpdateMaybeActive(l, me) ==
    [l EXCEPT
       !.maybe_active  = [p \in Owner |->
                            @[p] \ UNION {Forgettable(l, k, p) : k \in RemovalKind}],
       !.balance_delta = @ + BalanceOfForgotten(l, me)]

(* What send_rev and recv_rev share.  With its old ctx revoked, `revoker' is *)
(* bound to the updates in its new one, so that they go into the next ctx of *)
(* the other.                                                                *)
AcknowledgeAll(c, revoker, n, next) ==      \* mutant: also of ctxs still to come
    IF c[Other(revoker)] = None /\ c[revoker] # None
      THEN [c EXCEPT ![Other(revoker)] = next] ELSE c

Acknowledge(c, revoker, n, next) ==
    IF c[Other(revoker)] = None /\ Reached(c[revoker], n)
      THEN [c EXCEPT ![Other(revoker)] = next] ELSE c

Revoke(l, revoker) ==
    LET other == Other(revoker)
        n     == l.ctn[revoker] + 1
        next  == CtnNext(l, other)
        Ack(f, ids) == [id \in DOMAIN f |->
                          IF id \in ids THEN Acknowledge(f[id], revoker, n, next)
                                        ELSE f[id]]
        AckFees(s) == [i \in DOMAIN s |->
                         [s[i] EXCEPT !.ctn = Acknowledge(s[i].ctn, revoker, n, next)]]
    IN  [l EXCEPT
          !.ctn[revoker]            = n,
          !.revack_pending[revoker] = FALSE,
          !.locked_in[other]        = Ack(@, l.maybe_active[other]),
          !.removes = [k \in RemovalKind |->
              [l.removes[k] EXCEPT ![revoker] = Ack(@, l.maybe_active[revoker])]],
          !.fee_updates[other]      = AckFees(@)]

SendRev(l, me) ==
    [UpdateMaybeActive(Revoke(l, me), me) EXCEPT !.was_revoke_last = TRUE]

(* The raw messages kept for replay have just been acknowledged. *)
RecvRev(l, me) ==
    LET other == Other(me)
    IN  [UpdateMaybeActive(Revoke(l, other), me) EXCEPT
           !.unacked_updates = Restrict(@, DOMAIN @ \ {l.ctn[other] + 1})]

-----------------------------------------------------------------------------
(*                 Disconnections, restarts and replay                     *)

(* discard_unsigned_remote_updates *)
DiscardTooMuch(l, me) ==                    \* mutant: < for <=
    LET remote == Other(me)
        kept   == {id \in DOMAIN l.locked_in[remote] :
                     l.locked_in[remote][id][me] < CtnLatest(l, me)}
    IN  [l EXCEPT
          !.locked_in[remote]    = Restrict(@, kept),
          !.adds[remote]         = Restrict(@, kept),
          !.maybe_active[remote] = @ \cap kept,
          !.next_htlc_id[remote] = IF kept = {} THEN 0 ELSE Max(kept) + 1,
          !.removes = [k \in RemovalKind |->
                         [l.removes[k] EXCEPT ![remote] = Restrict(@, DOMAIN @ \cap kept)]]]

DiscardUnsignedRemoteUpdates(l, me) ==
    LET remote == Other(me)
        latest == CtnLatest(l, me)
        kept   == {id \in DOMAIN l.locked_in[remote] :
                     l.locked_in[remote][id][me] <= latest}
        Signed(f) == Restrict(f, {id \in DOMAIN f : f[id][me] <= latest})
    IN  [l EXCEPT
          !.locked_in[remote]    = Restrict(@, kept),
          !.adds[remote]         = Restrict(@, kept),
          !.maybe_active[remote] = @ \cap kept,
          !.next_htlc_id[remote] = IF kept = {} THEN 0 ELSE Max(kept) + 1,
          !.removes = [k \in RemovalKind |-> [l.removes[k] EXCEPT ![me] = Signed(@)]],
          !.fee_updates[remote]  = Restrict(@, {i \in DOMAIN @ : @[i].ctn[me] <= latest})]

(* store_local_update_raw_msg: a commitment_signed belongs to the ctn that   *)
(* it has just signed, an update to the one after the latest.                *)
StoreRawMsgNext(l, me, msg, isCommitmentSigned) ==  \* mutant: always the next ctn
    LET c   == CtnNext(l, Other(me))
        old == IF c \in DOMAIN l.unacked_updates
                 THEN l.unacked_updates[c] ELSE << >>
    IN  [l EXCEPT !.unacked_updates = With(@, c, Append(old, msg))]

StoreRawMsg(l, me, msg, isCommitmentSigned) ==
    LET c   == IF isCommitmentSigned THEN CtnLatest(l, Other(me))
                                     ELSE CtnNext(l, Other(me))
        old == IF c \in DOMAIN l.unacked_updates
                 THEN l.unacked_updates[c] ELSE << >>
    IN  [l EXCEPT !.unacked_updates = With(@, c, Append(old, msg))]

(* The cache and the balance are not stored; _init_maybe_active_htlc_ids     *)
(* rebuilds them when the log is read back.                                  *)
Stored(l) == [l EXCEPT !.maybe_active = [o \in Owner |-> {}],
                       !.balance_delta = 0]

Load(l, me) ==
    UpdateMaybeActive([l EXCEPT
                         !.maybe_active  = [o \in Owner |-> DOMAIN l.adds[o]],
                         !.balance_delta = 0], me)

-----------------------------------------------------------------------------
(*                      What is true of every log                          *)
(* These are the named parts of the invariants of HTLCManager, which is the *)
(* class on its own; LNChannel has two such logs.                           *)

(* The ctns of one update. *)
Ctns == [Owner -> Nat \cup {None}]

(* The shape of a log. *)
LogField == {"ctn", "revack_pending", "next_htlc_id", "adds", "locked_in",
             "removes", "fee_updates", "unacked_updates", "was_revoke_last",
             "maybe_active", "balance_delta"}

LogFrame(l) ==
    /\ l = [f \in LogField |-> l[f]]
    /\ l.adds = [p \in Owner |-> l.adds[p]]
    /\ l.locked_in = [p \in Owner |-> l.locked_in[p]]
    /\ l.removes = [k \in RemovalKind |-> [p \in Owner |-> l.removes[k][p]]]

CounterTypes(l) ==
    /\ l.ctn \in [Owner -> Nat]
    /\ l.revack_pending \in [Owner -> BOOLEAN]
    /\ l.next_htlc_id \in [Owner -> Nat]
    /\ l.maybe_active \in [Owner -> SUBSET Nat]

UpdateTypes(l) ==
    \A p \in Owner :
        /\ DOMAIN l.adds[p] = DOMAIN l.locked_in[p]
        /\ DOMAIN l.locked_in[p] \subseteq Nat
        /\ l.locked_in[p] \in [DOMAIN l.locked_in[p] -> Ctns]
        /\ \A k \in RemovalKind :
             /\ l.removes[k][p] \in [DOMAIN l.removes[k][p] -> Ctns]
             /\ DOMAIN l.removes[k][p] \subseteq DOMAIN l.locked_in[p]

LogShape(l) == LogFrame(l) /\ CounterTypes(l) /\ UpdateTypes(l)

(* An update whose first ctx is that of `first' is in it by the next ctn at  *)
(* the latest, and in the other's only once it is in a ctx that `first' is   *)
(* bound to, the older one being revoked.  The ctxs of the channel opening,   *)
(* at ctn 0, have none.                                                       *)
InOrder(l, c, first) ==
    /\ \A o \in Owner : c[o] # 0
    /\ Reached(c[first], CtnNext(l, first))
    /\ c[Other(first)] # None => c[first] <= l.ctn[first]

UpdatesInOrder(l) ==
    \A p \in Owner :
        /\ \A id \in DOMAIN l.locked_in[p] :
              InOrder(l, l.locked_in[p][id], Other(p))
        /\ \A k \in RemovalKind : \A id \in DOMAIN l.removes[k][p] :
              InOrder(l, l.removes[k][p][id], p)

(* Next ids are fresh: an id is not given to a second HTLC. *)
IdsAreFresh(l) ==
    \A p \in Owner : \A id \in DOMAIN l.locked_in[p] : id < l.next_htlc_id[p]

(* An HTLC is removed from a ctx it was in, ... *)
RemovedAfterAdded(l) ==
    \A p, o \in Owner : \A k \in RemovalKind : \A id \in DOMAIN l.removes[k][p] :
        LET r == l.removes[k][p][id][o]
        IN  r # None => Reached(l.locked_in[p][id][o], r)

(* ... and in one way. *)
RemovedOneWay(l) ==
    \A p \in Owner :
        DOMAIN l.removes["settles"][p] \cap DOMAIN l.removes["fails"][p] = {}

(* The cache holds ids of the log, and lacks only those whose removal both   *)
(* are bound to since an earlier ctx.                                        *)
CacheIsSound(l) ==
    \A p \in Owner :
        /\ l.maybe_active[p] \subseteq DOMAIN l.locked_in[p]
        /\ \A id \in DOMAIN l.locked_in[p] \ l.maybe_active[p] :
             \E k \in RemovalKind :
                /\ id \in DOMAIN l.removes[k][p]
                /\ \A o \in Owner : Reached(l.removes[k][p][id][o],
                                            l.ctn[o] - SanityMargin)

(* What is true of a log in the wallet file, and, with the cache, in memory.  *)
StoredLogInv(l) ==
    /\ LogShape(l)
    /\ UpdatesInOrder(l)
    /\ IdsAreFresh(l)
    /\ RemovedAfterAdded(l)
    /\ RemovedOneWay(l)

LogInv(l) == StoredLogInv(l) /\ CacheIsSound(l)
=============================================================================

---------------------------- MODULE HTLCManager ----------------------------
(***************************************************************************)
(* The class HTLCManager of electrum_grs/lnhtlc.py on its own: the log of  *)
(* one party, and every order in which its methods may be called.  There   *)
(* is no other party here: the guards are those of the methods themselves  *)
(* and of the checks of lnchannel.py in front of them, so what holds here  *)
(* holds whatever the other party sends.                                   *)
(***************************************************************************)
EXTENDS HTLCLog

CONSTANTS
    Local,          \* the party whose log it is
    Amounts,        \* the amounts of HTLCs
    Feerates,       \* the feerates
    MaxHtlcs,       \* bound: HTLCs that a party offers
    MaxCtn,         \* bound: ctns
    MaxFeeUpdates   \* bound: length of the fee log

ASSUME LocalAssumption == Local \in Owner
ASSUME ValuesAssumption == Amounts \subseteq Nat /\ Feerates \subseteq Nat
ASSUME BoundsAssumption == {MaxHtlcs, MaxCtn, MaxFeeUpdates} \subseteq Nat

VARIABLE log

Remote == Other(Local)

Init == \E funder \in Owner, rate \in Feerates : log = NewLog(funder, rate)

-----------------------------------------------------------------------------
(* send_htlc when Local offers the HTLC, recv_htlc when Remote does. *)
Add(proposer) ==
    /\ log.next_htlc_id[proposer] < MaxHtlcs
    /\ \E amount \in Amounts : log' = AddHtlc(log, proposer, amount)

(* recv_settle and recv_fail for an HTLC of Local, send_settle and send_fail *)
(* for one of Remote.                                                        *)
SettleOrFail(kind, proposer) ==
    \E id \in DOMAIN log.locked_in[proposer] :
        /\ CanRemoveHtlc(log, proposer, id)
        /\ log' = RemoveHtlc(log, kind, proposer, id)

(* send_update_fee, recv_update_fee: by the funder, who set the first one. *)
ChangeFeerate ==
    \E funder \in Owner, rate \in Feerates :
        LET l == UpdateFee(log, funder, rate)
        IN  /\ log.fee_updates[funder] # << >>
            /\ Len(l.fee_updates[funder]) <= MaxFeeUpdates
            /\ log' = l

(* send_ctx: its assertion allows one ctx of Remote that is not revoked. *)
SendCommitment ==
    /\ ~ log.revack_pending[Remote]
    /\ log.ctn[Remote] < MaxCtn
    /\ log' = SendCtx(log, Local)

(* recv_ctx, with the same assertion for Local, ... *)
RecvCommitment ==
    /\ ~ log.revack_pending[Local]
    /\ log.ctn[Local] < MaxCtn
    /\ log' = RecvCtx(log, Local)

(* ... and send_rev, which is only called after it. *)
SendRevocation ==
    /\ log.revack_pending[Local]
    /\ log' = SendRev(log, Local)

(* recv_rev: receive_revocation looks at the secret, and not at whether a    *)
(* revocation is due.                                                        *)
RecvRevocation ==
    /\ log.ctn[Remote] < MaxCtn
    /\ log' = RecvRev(log, Local)

(* discard_unsigned_remote_updates, when a connection is reestablished. *)
Discard == log' = DiscardUnsignedRemoteUpdates(log, Local)

(* The log is saved, and read back into a new object. *)
Reload == log' = Load(Stored(log), Local)

Next ==
    \/ \E proposer \in Owner :
          \/ Add(proposer)
          \/ \E kind \in RemovalKind : SettleOrFail(kind, proposer)
    \/ ChangeFeerate
    \/ SendCommitment
    \/ RecvCommitment
    \/ SendRevocation
    \/ RecvRevocation
    \/ Discard
    \/ Reload

Spec == Init /\ [][Next]_log

-----------------------------------------------------------------------------
(*                               Properties                                *)

(* The types, as far as the methods rely on them: no ctn that is compared is *)
(* None, no id looked up is missing.                                         *)
TypeOK == LogShape(log) /\ UpdatesInOrder(log)

(* sent_in_ctn and failed_in_ctn look only at the ctx of Remote, "because     *)
(* they are committed in the local ctx first", and so does received_in_ctn    *)
(* the other way round: once an update is in a ctx that the second party is   *)
(* bound to, both are bound to it.                                            *)
SecondImpliesBoth ==
    \A p \in Owner : \A id \in DOMAIN log.locked_in[p] :
        /\ Reached(log.locked_in[p][id][p], log.ctn[p]) =>
             IsIrrevocablyAdded(log, p, id)
        /\ \A k \in RemovalKind :
             /\ id \in DOMAIN log.removes[k][p]
             /\ Reached(log.removes[k][p][id][Other(p)], log.ctn[Other(p)])
             => IsIrrevocablyRemoved(log, p, id)

(* An HTLC is never both settled and failed, and never removed from a ctx it  *)
(* was not in, whatever is discarded and whichever ids are given again.       *)
RemovedOnce == RemovedAfterAdded(log) /\ RemovedOneWay(log)

(* For the ctxs that are not revoked, the HTLCs that htlcs_by_direction finds *)
(* among the cached ids are those of the whole log: no HTLC that still counts *)
(* is ever dropped from the cache.                                            *)
CacheHidesNothing ==
    \A owner, p \in Owner : \A n \in log.ctn[owner] .. MaxCtn + 2 :
        HtlcsByProposer(log, owner, n, p) =
            {id \in DOMAIN log.locked_in[p] : IsActiveAt(log, owner, n, p, id)}

(* Nor is a settlement lost or counted twice: the balances that are computed  *)
(* from balance_delta and the cached ids are those of the whole log.          *)
CacheKeepsBalances ==
    \A whose, owner \in Owner : \A n \in log.ctn[owner] .. CtnNext(log, owner) :
        BalanceDelta(log, Local, whose, owner, n) =
          SettledAmount(log, owner, n, Other(whose), DOMAIN log.adds[Other(whose)])
            - SettledAmount(log, owner, n, whose, DOMAIN log.adds[whose])

(* For every ctn a feerate is in force, and the binary search of get_feerate  *)
(* finds the last one: the fee log stays sorted by the ctns of either owner,  *)
(* those not known yet last.                                                  *)
FeerateIsLastInForce ==
    \A owner \in Owner : \A n \in 0 .. CtnNext(log, owner) :
        LET updates == FeeLog(log)
            inForce == {i \in DOMAIN updates : Reached(updates[i].ctn[owner], n)}
        IN  /\ inForce # {}
            /\ Feerate(log, owner, n) = updates[Max(inForce)].rate

(* Updates that both are bound to stay: a discard, a restart or a reused id   *)
(* never takes an HTLC back that was irrevocably added, nor a removal.        *)
IrrevocableIsForGood ==
    [][\A p \in Owner : \A id \in DOMAIN log.locked_in[p] :
         /\ IsIrrevocablyAdded(log, p, id) =>
              /\ IsIrrevocablyAdded(log', p, id)
              /\ log'.locked_in[p][id] = log.locked_in[p][id]
         /\ IsIrrevocablyRemoved(log, p, id) => IsIrrevocablyRemoved(log', p, id)]_log

(* The inductive invariant behind the theorems. *)
Inv == LogInv(log)
=============================================================================

-------------------------- MODULE LNChannelProofs --------------------------
(***************************************************************************)
(* What the handlers of a channel make of the log, the wallet file and the *)
(* signatures of a party, for any number of HTLCs, messages,               *)
(* disconnections, crashes and restored backups.  PartyInv is what a party *)
(* keeps, whatever the other sends: a handler is a step, a step goes from  *)
(* one state of the party to the next (the first parts), and every action  *)
(* performs a step or starts from a wallet file.  LinkKept is what the     *)
(* two know of each other's ctxs, with what is on its way between them,    *)
(* and that what one takes for irrevocable the other has or is about to    *)
(* have; HInv adds how far a reestablishment has come, and NInv what each  *)
(* still remembers of its own ctxs after one restored backup.              *)
(***************************************************************************)
EXTENDS LNChannel, HTLCLogProofs, Recursion, FiniteSetTheorems

-----------------------------------------------------------------------------
(*                      What a party keeps, by itself                      *)

(* The raw messages kept for replay are sequences of updates and signatures, *)
(* each for a ctn up to the next one.                                        *)
KeptType ==
    {"update_add_htlc", "update_remove_htlc", "update_fee", "commitment_signed"}

MessagesKept(l, q) ==
    /\ DOMAIN l.unacked_updates \subseteq 1 .. CtnNext(l, q)
    /\ \A c \in DOMAIN l.unacked_updates :
          /\ IsSequence(l.unacked_updates[c])
          /\ \A i \in DOMAIN l.unacked_updates[c] :
                l.unacked_updates[c][i].type \in KeptType

(* The part of CommitmentCanBeReplayed that is about one log. *)
Replayable(l, q) ==
    l.revack_pending[q] =>
        /\ CtnLatest(l, q) \in DOMAIN l.unacked_updates
        /\ Last(l.unacked_updates[CtnLatest(l, q)]).type = "commitment_signed"

(* No ctx of q was signed beyond the latest that the log knows of, and what  *)
(* is kept for replay was signed before.                                     *)
SignedBy(l, q, S) ==
    /\ \A c \in S : c.ctn \in Nat /\ c.ctn <= CtnLatest(l, q)
    /\ \A c \in DOMAIN l.unacked_updates : \A i \in DOMAIN l.unacked_updates[c] :
          l.unacked_updates[c][i].type = "commitment_signed" =>
            l.unacked_updates[c][i].ctx \in S

OneEach(S) == \A c, d \in S : c.ctn = d.ctn => c = d

(* The payments of p whose HTLC is gone from a ctx of q that q is bound to.  *)
Gone(l, p) ==
    UNION {{<<id, k>> : id \in {id \in DOMAIN l.removes[k][p] :
              Reached(l.removes[k][p][id][Other(p)], l.ctn[Other(p)])}} :
           k \in RemovalKind}

(* The HTLC `id' of q is in the ctx that q is bound to.                      *)
Committed(l, q, id) ==
    /\ id \in DOMAIN l.locked_in[q]
    /\ Reached(l.locked_in[q][id][q], l.ctn[q])

(* In the log of the other of q: an HTLC of q is removed only once q is bound *)
(* to it, and a ctx of q was signed with all HTLCs that enter at its ctn.     *)
Covered(l, q, S) ==
    /\ \A k \in RemovalKind : \A id \in DOMAIN l.removes[k][q] : Committed(l, q, id)
    /\ \A d \in S : \A id \in DOMAIN l.locked_in[q] :
          l.locked_in[q][id][q] = d.ctn => <<q, id>> \in d.htlcs

(* The log and the file of p; S: the ctxs of the other that it signed; R:    *)
(* what its wallet was told; u: the faults so far.                           *)
LogKept(p, l, S, R, u) ==
    /\ LogInv(l)
    /\ MessagesKept(l, Other(p))
    /\ u.midSaves = 0 => Replayable(l, Other(p))
    /\ u.restores = 0 => /\ SignedBy(l, Other(p), S) /\ OneEach(S)
                         /\ Covered(l, Other(p), S)
    /\ u.restores = 0 /\ u.midSaves = 0 => R = Gone(l, p)

FileKept(p, f, S, u) ==
    /\ StoredLogInv(f)
    /\ MessagesKept(f, Other(p))
    /\ u.midSaves = 0 => Replayable(f, Other(p))
    /\ u.restores = 0 => SignedBy(f, Other(p), S) /\ Covered(f, Other(p), S)

(* The file has what is irrevocable in the log, no more, and the same ctns.  *)
InFile(l, f) == SameIrrevocable(l, f) /\ f.revack_pending = l.revack_pending

PartyInv(p, l, f, S, R, u) ==
    /\ LogKept(p, l, S, R, u)
    /\ FileKept(p, f, S, u)
    /\ InFile(l, f)

-----------------------------------------------------------------------------
(*                          From log to log                                *)

(* Logs that differ in nothing that the above is about. *)
Alike(l, m) ==
    /\ m.ctn = l.ctn /\ m.revack_pending = l.revack_pending
    /\ m.locked_in = l.locked_in /\ m.removes = l.removes
    /\ m.unacked_updates = l.unacked_updates

LEMMA CtnsOf ==
    ASSUME NEW l, CounterTypes(l), NEW m, m.ctn = l.ctn, NEW q \in Owner,
           m.revack_pending[q] = l.revack_pending[q]
    PROVE  CtnLatest(m, q) = CtnLatest(l, q) /\ CtnNext(m, q) = CtnNext(l, q)
BY DEF CtnLatest, CtnNext

LEMMA AlikeKeeps ==
    ASSUME NEW l, CounterTypes(l), NEW m, Alike(l, m), NEW p \in Owner, NEW S
    PROVE  /\ SameIrrevocable(l, m)
           /\ MessagesKept(l, Other(p)) => MessagesKept(m, Other(p))
           /\ Replayable(l, Other(p)) => Replayable(m, Other(p))
           /\ SignedBy(l, Other(p), S) => SignedBy(m, Other(p), S)
           /\ Covered(l, Other(p), S) => Covered(m, Other(p), S)
           /\ Gone(m, p) = Gone(l, p)
<1>1. SameIrrevocable(l, m)
  BY DEF Alike, SameIrrevocable, Later, Keeps, CounterTypes
<1>2. CtnLatest(m, Other(p)) = CtnLatest(l, Other(p)) /\ CtnNext(m, Other(p)) = CtnNext(l, Other(p))
  BY CtnsOf, OtherOwner DEF Alike
<1>3. MessagesKept(l, Other(p)) => MessagesKept(m, Other(p))
  BY <1>2 DEF Alike, MessagesKept
<1>4. Replayable(l, Other(p)) => Replayable(m, Other(p))
  BY <1>2 DEF Alike, Replayable
<1>5. SignedBy(l, Other(p), S) => SignedBy(m, Other(p), S)
  BY <1>2 DEF Alike, SignedBy
<1>6. Gone(m, p) = Gone(l, p)
  BY DEF Alike, Gone
<1>7. Covered(l, Other(p), S) => Covered(m, Other(p), S)
  BY DEF Alike, Covered, Committed
<1> QED
  BY <1>1, <1>3, <1>4, <1>5, <1>6, <1>7

LEMMA SameCtn ==
    ASSUME NEW l, CounterTypes(l), NEW m, CounterTypes(m), SameIrrevocable(l, m)
    PROVE  m.ctn = l.ctn
<1>1. \A o \in Owner : m.ctn[o] = l.ctn[o]
  BY DEF SameIrrevocable, Later, CounterTypes
<1> QED
  BY <1>1 DEF CounterTypes

LEMMA SameRemovals ==
    ASSUME NEW l, NEW m, m.ctn = l.ctn, m.removes = l.removes, NEW p
    PROVE  Gone(m, p) = Gone(l, p)
BY DEF Gone

(* A removal that is in a ctx of the other is irrevocable. *)
LEMMA SameGone ==
    ASSUME NEW l, StoredLogInv(l), NEW m, StoredLogInv(m), SameIrrevocable(l, m),
           NEW p \in Owner
    PROVE  Gone(m, p) = Gone(l, p)
<1>1. ASSUME NEW x, StoredLogInv(x), NEW y, Later(x, y), y.ctn = x.ctn,
             NEW k \in RemovalKind, NEW id \in DOMAIN x.removes[k][p],
             Reached(x.removes[k][p][id][Other(p)], x.ctn[Other(p)])
      PROVE  /\ id \in DOMAIN y.removes[k][p]
             /\ Reached(y.removes[k][p][id][Other(p)], y.ctn[Other(p)])
  <2>1. InOrder(x, x.removes[k][p][id], p)
    BY <1>1 DEF StoredLogInv, UpdatesInOrder
  <2>2. Reached(x.removes[k][p][id][p], x.ctn[p])
    BY <1>1, <2>1, OtherOwner DEF InOrder, Reached
  <2>3. \A o \in Owner : Reached(x.removes[k][p][id][o], x.ctn[o])
    BY <1>1, <2>2, OtherOwner
  <2> QED
    BY <1>1, <2>3 DEF Later, Keeps
<1>2. m.ctn = l.ctn
  BY SameCtn DEF StoredLogInv, LogShape
<1>3. Gone(l, p) \subseteq Gone(m, p)
  BY <1>1, <1>2 DEF Gone, SameIrrevocable
<1>4. Gone(m, p) \subseteq Gone(l, p)
  BY <1>1, <1>2 DEF Gone, SameIrrevocable
<1> QED
  BY <1>3, <1>4

(* The methods give an HTLC of q no ctn in a ctx of q that is signed already, *)
(* and remove one only once q is bound to it.                                 *)
Steady(l, m, q) ==
    /\ \A id \in DOMAIN m.locked_in[q] :
          \/ /\ id \in DOMAIN l.locked_in[q]
             /\ m.locked_in[q][id][q] = l.locked_in[q][id][q]
          \/ ~ Reached(m.locked_in[q][id][q], CtnLatest(l, q))
    /\ \A k \in RemovalKind : \A id \in DOMAIN m.removes[k][q] :
          id \in DOMAIN l.removes[k][q] \/ Committed(l, q, id)

LEMMA SameSteady ==
    ASSUME NEW l, NEW m, m.locked_in = l.locked_in, m.removes = l.removes, NEW q
    PROVE  Steady(l, m, q)
BY DEF Steady

(* An HTLC that its proposer is bound to is irrevocable, and stays so.        *)
LEMMA CommittedStill ==
    ASSUME NEW l, StoredLogInv(l), NEW m, CounterTypes(m), Later(l, m),
           NEW q \in Owner, NEW id, Committed(l, q, id)
    PROVE  Committed(m, q, id)
<1>1. id \in DOMAIN l.locked_in[q] /\ Reached(l.locked_in[q][id][q], l.ctn[q])
  BY DEF Committed
<1>2. InOrder(l, l.locked_in[q][id], Other(q))
  BY <1>1 DEF StoredLogInv, UpdatesInOrder
<1>3. Other(q) \in Owner /\ Other(Other(q)) = q /\ \A o \in Owner : o = q \/ o = Other(q)
  BY OtherOwner
<1>4. \A o \in Owner : Reached(l.locked_in[q][id][o], l.ctn[o])
  BY <1>1, <1>2, <1>3 DEF InOrder, Reached
<1>5. id \in DOMAIN m.locked_in[q] /\ m.locked_in[q][id] = l.locked_in[q][id]
  BY <1>1, <1>4 DEF Later, Keeps
<1>6. /\ l.locked_in[q][id][q] \in Nat \cup {None} /\ l.ctn[q] \in Nat /\ m.ctn[q] \in Nat
      /\ l.ctn[q] <= m.ctn[q]
  BY <1>1 DEF StoredLogInv, LogShape, UpdateTypes, CounterTypes, Ctns, Later
<1> QED
  BY <1>1, <1>5, <1>6 DEF Committed, Reached

LEMMA CoveredStill ==
    ASSUME NEW q \in Owner, NEW l, StoredLogInv(l), NEW m, StoredLogInv(m),
           Later(l, m), Steady(l, m, q), NEW S,
           \A d \in S : d.ctn \in Nat /\ d.ctn <= CtnLatest(l, q), Covered(l, q, S)
    PROVE  Covered(m, q, S)
<1>1. CounterTypes(m)
  BY DEF StoredLogInv, LogShape
<1>2. ASSUME NEW k \in RemovalKind, NEW id \in DOMAIN m.removes[k][q]
      PROVE  Committed(m, q, id)
  <2>1. Committed(l, q, id)
    BY DEF Steady, Covered
  <2> QED
    BY <1>1, <2>1, CommittedStill
<1>3. ASSUME NEW d \in S, NEW id \in DOMAIN m.locked_in[q], m.locked_in[q][id][q] = d.ctn
      PROVE  <<q, id>> \in d.htlcs
  <2>1. Reached(m.locked_in[q][id][q], CtnLatest(l, q))
    BY <1>3, NoneAssumption DEF Reached
  <2>2. id \in DOMAIN l.locked_in[q] /\ m.locked_in[q][id][q] = l.locked_in[q][id][q]
    BY <2>1 DEF Steady
  <2> QED
    BY <1>3, <2>2 DEF Covered
<1> QED
  BY <1>2, <1>3 DEF Covered

(* The next ctx of q, when it is signed, has every HTLC that enters at its    *)
(* ctn: q is not bound to them yet, so that none is removed.                  *)
LEMMA NextHtlcs ==
    ASSUME NEW q \in Owner, NEW l, LogInv(l), NEW S, Covered(l, q, S),
           NEW n, n = CtnNext(l, q),
           NEW id \in DOMAIN l.locked_in[q], l.locked_in[q][id][q] = n
    PROVE  <<q, id>> \in Htlcs(l, q, n)
<1>1. /\ CounterTypes(l) /\ IdsAreFresh(l) /\ CacheIsSound(l)
  BY LogInvParts
<1>2. n \in Nat /\ l.ctn[q] \in Nat /\ l.ctn[q] < n
  BY <1>1, CtnType DEF CounterTypes
<1>3. ~ Committed(l, q, id)
  BY <1>2 DEF Committed, Reached
<1>4. \A k \in RemovalKind : id \notin DOMAIN l.removes[k][q]
  BY <1>3 DEF Covered
<1>5. id \in l.maybe_active[q]
  BY <1>1, <1>4 DEF CacheIsSound
<1>6. id < l.next_htlc_id[q]
  BY <1>1 DEF IdsAreFresh
<1>7. Reached(l.locked_in[q][id][q], n)
  BY <1>2, NoneAssumption DEF Reached
<1>8. id \in HtlcsByProposer(l, q, n, q)
  BY <1>2, <1>4, <1>5, <1>6, <1>7 DEF HtlcsByProposer, ConsideredIds, IsActiveAt
<1> QED
  BY <1>8 DEF Htlcs

(* The methods that make nothing irrevocable; the ctx of the other may be     *)
(* signed by them, without its message where a fault allows it.               *)
LEMMA AdvanceKeeps ==
    ASSUME NEW p \in Owner, NEW S, NEW R, NEW u, NEW l, LogKept(p, l, S, R, u),
           NEW m, LogInv(m), SameIrrevocable(l, m),
           Steady(l, m, Other(p)),
           m.unacked_updates = l.unacked_updates,
           CtnLatest(l, Other(p)) <= CtnLatest(m, Other(p)),
           u.midSaves = 0 => m.revack_pending[Other(p)] = l.revack_pending[Other(p)]
    PROVE  LogKept(p, m, S, R, u)
<1> DEFINE q == Other(p)
<1>1. q \in Owner
  BY OtherOwner
<1>2. LogInv(l) /\ StoredLogInv(l) /\ StoredLogInv(m) /\ CounterTypes(l) /\ CounterTypes(m)
  BY LogInvParts DEF LogKept
<1>3. m.ctn = l.ctn
  BY <1>2, SameCtn
<1>4. /\ CtnLatest(l, q) \in Nat /\ CtnLatest(m, q) \in Nat
      /\ CtnNext(l, q) \in Nat /\ CtnNext(m, q) \in Nat /\ CtnNext(l, q) <= CtnNext(m, q)
  BY <1>1, <1>2, CtnType
<1>5. MessagesKept(m, q)
  BY <1>4 DEF LogKept, MessagesKept
<1>6. u.midSaves = 0 => Replayable(m, q)
  <2> SUFFICES ASSUME u.midSaves = 0
               PROVE  Replayable(m, q)
    OBVIOUS
  <2>1. CtnLatest(m, q) = CtnLatest(l, q)
    BY <1>1, <1>2, <1>3, CtnsOf
  <2> QED
    BY <2>1 DEF LogKept, Replayable
<1>7. SignedBy(l, q, S) => SignedBy(m, q, S)
  BY <1>4 DEF SignedBy
<1>8. Gone(m, p) = Gone(l, p)
  BY <1>2, SameGone
<1>9. SignedBy(l, q, S) /\ Covered(l, q, S) => Covered(m, q, S)
  BY <1>1, <1>2, CoveredStill DEF SignedBy, SameIrrevocable
<1> QED
  BY <1>5, <1>6, <1>7, <1>8, <1>9 DEF LogKept

(* To the wallet file and back. *)
LEMMA StoredKept ==
    ASSUME NEW p \in Owner, NEW S, NEW R, NEW u, NEW l, LogKept(p, l, S, R, u),
           NEW f, f = Stored(l)
    PROVE  FileKept(p, f, S, u) /\ InFile(l, f)
<1>1. LogInv(l) /\ LogFrame(l) /\ CounterTypes(l)
  BY LogInvParts DEF LogKept
<1>2. Alike(l, f)
  BY <1>1 DEF Alike, Stored, LogFrame, LogField
<1>3. StoredLogInv(f)
  BY <1>1, StoredInv
<1> QED
  BY <1>1, <1>2, <1>3, AlikeKeeps DEF LogKept, FileKept, InFile, Alike

LEMMA LoadKept ==
    ASSUME NEW p \in Owner, NEW S, NEW u, u.restores = 0 => OneEach(S),
           NEW f, FileKept(p, f, S, u),
           NEW l, l = Load(f, p)
    PROVE  LogKept(p, l, S, Gone(f, p), u) /\ InFile(l, f)
<1>1. StoredLogInv(f) /\ LogFrame(f) /\ CounterTypes(f)
  BY DEF FileKept, StoredLogInv, LogShape
<1>2. Alike(f, l)
  BY <1>1 DEF Alike, Load, UpdateMaybeActive, LogFrame, LogField
<1>3. LogInv(l)
  BY <1>1, LoadInv
<1>4. SameIrrevocable(f, l) /\ f.revack_pending = l.revack_pending
  BY <1>1, <1>2, AlikeKeeps DEF Alike
<1> QED
  BY <1>1, <1>2, <1>3, <1>4, AlikeKeeps DEF LogKept, FileKept, InFile, SameIrrevocable

(* A file that has what the log has tells it the same removals. *)
LEMMA FileGone ==
    ASSUME NEW p \in Owner, NEW S, NEW R, NEW u, NEW l, NEW f, PartyInv(p, l, f, S, R, u)
    PROVE  Gone(f, p) = Gone(l, p) /\ Later(l, f) /\ Later(f, l)
<1>1. StoredLogInv(l) /\ StoredLogInv(f)
  BY LogInvParts DEF PartyInv, LogKept, FileKept
<1> QED
  BY <1>1, SameGone DEF PartyInv, InFile, SameIrrevocable

(* A fault counter that is 0 was so before. *)
LEMMA FewerFaults ==
    ASSUME NEW p \in Owner, NEW S, NEW R, NEW u, NEW l, NEW f, PartyInv(p, l, f, S, R, u),
           NEW v, v.midSaves = 0 => u.midSaves = 0, v.restores = 0 => u.restores = 0
    PROVE  PartyInv(p, l, f, S, R, v)
BY DEF PartyInv, LogKept, FileKept

(* What the methods do to a log that make nothing irrevocable. *)
Quiet(p, l, m) ==
    /\ LogInv(m)
    /\ SameIrrevocable(l, m)
    /\ Steady(l, m, Other(p))
    /\ m.revack_pending = l.revack_pending
    /\ m.unacked_updates = l.unacked_updates

LEMMA AddHtlcQuiet ==
    ASSUME NEW p \in Owner, NEW l, LogInv(l), NEW x \in Owner, NEW amount
    PROVE  Quiet(p, l, AddHtlc(l, x, amount))
<1> DEFINE m   == AddHtlc(l, x, amount)
           q   == Other(p)
           new == l.next_htlc_id[x]
           c   == EntersFirst(Other(x), CtnNext(l, Other(x)))
<1>1. LogFrame(l) /\ CounterTypes(l)
  BY LogInvParts
<1>2. /\ m.revack_pending = l.revack_pending
      /\ m.unacked_updates = l.unacked_updates
      /\ m.removes = l.removes
      /\ m.locked_in = [l.locked_in EXCEPT ![x] = With(@, new, c)]
  BY <1>1 DEF AddHtlc, LogFrame, LogField
<1>3. c[x] = None
  BY <1>1, OtherOwner, CtnType, EntersFirstType
<1>4. q \in Owner
  BY OtherOwner
<1> HIDE DEF c, new, m, q
<1>5. m.locked_in[x] = With(l.locked_in[x], new, c)
  BY <1>1, <1>2 DEF LogFrame
<1>6. \A y \in Owner : y # x => m.locked_in[y] = l.locked_in[y]
  BY <1>1, <1>2 DEF LogFrame
<1>7. ASSUME NEW id \in DOMAIN m.locked_in[q]
      PROVE  \/ /\ id \in DOMAIN l.locked_in[q]
                /\ m.locked_in[q][id][q] = l.locked_in[q][id][q]
             \/ ~ Reached(m.locked_in[q][id][q], CtnLatest(l, q))
  <2>1. CASE q = x
    <3>1. \/ id \in DOMAIN l.locked_in[q] /\ m.locked_in[q][id] = l.locked_in[q][id]
          \/ m.locked_in[q][id] = c
      BY <1>5, <2>1 DEF With
    <3> QED
      BY <1>3, <2>1, <3>1 DEF Reached
  <2>2. CASE q # x
    BY <1>4, <1>6, <2>2
  <2> QED
    BY <2>1, <2>2
<1>8. Steady(l, m, q)
  BY <1>2, <1>7 DEF Steady
<1>9. LogInv(m) /\ SameIrrevocable(l, m)
  BY AddHtlcInv, AddHtlcIsLater DEF m
<1> QED
  BY <1>2, <1>8, <1>9 DEF Quiet, m, q

(* A party removes an HTLC of the other only when it is irrevocable. *)
LEMMA RemoveHtlcQuiet ==
    ASSUME NEW p \in Owner, NEW l, LogInv(l), NEW kind \in RemovalKind, NEW x \in Owner,
           NEW id \in DOMAIN l.locked_in[x], CanRemoveHtlc(l, x, id),
           x = p \/ IsIrrevocablyAdded(l, x, id)
    PROVE  Quiet(p, l, RemoveHtlc(l, kind, x, id))
<1> DEFINE m == RemoveHtlc(l, kind, x, id)
           q == Other(p)
           c == EntersFirst(x, CtnNext(l, x))
<1>1. LogFrame(l)
  BY LogInvParts
<1>2. /\ m.revack_pending = l.revack_pending
      /\ m.unacked_updates = l.unacked_updates
      /\ m.locked_in = l.locked_in
      /\ m.removes = [l.removes EXCEPT ![kind][x] = With(@, id, c)]
  BY <1>1 DEF RemoveHtlc, LogFrame, LogField
<1>3. q \in Owner /\ q # p
  BY OtherOwner
<1> HIDE DEF c, m, q
<1>4. ASSUME NEW k \in RemovalKind, NEW i \in DOMAIN m.removes[k][q]
      PROVE  i \in DOMAIN l.removes[k][q] \/ Committed(l, q, i)
  <2>1. CASE k = kind /\ q = x
    <3>1. m.removes[k][q] = With(l.removes[k][q], id, c)
      BY <1>1, <1>2, <2>1 DEF LogFrame
    <3>2. i \in DOMAIN l.removes[k][q] \/ i = id
      BY <3>1 DEF With
    <3>3. Committed(l, q, id)
      BY <1>3, <2>1 DEF Committed, IsIrrevocablyAdded
    <3> QED
      BY <3>2, <3>3
  <2>2. CASE ~ (k = kind /\ q = x)
    <3>1. m.removes[k][q] = l.removes[k][q]
      <4>1. CASE k # kind
        BY <1>1, <1>2, <4>1 DEF LogFrame
      <4>2. CASE k = kind /\ q # x
        <5>1. /\ m.removes[kind] = [l.removes[kind] EXCEPT ![x] = With(@, id, c)]
              /\ DOMAIN l.removes[kind] = Owner
          BY <1>1, <1>2 DEF LogFrame
        <5> QED
          BY <1>3, <4>2, <5>1
      <4> QED
        BY <2>2, <4>1, <4>2
    <3> QED
      BY <3>1
  <2> QED
    BY <2>1, <2>2
<1>5. Steady(l, m, q)
  BY <1>2, <1>4 DEF Steady
<1>6. LogInv(m) /\ SameIrrevocable(l, m)
  BY RemoveHtlcInv, RemoveHtlcIsLater DEF m
<1> QED
  BY <1>2, <1>5, <1>6 DEF Quiet, m, q

LEMMA UpdateFeeQuiet ==
    ASSUME NEW p \in Owner, NEW l, LogInv(l), NEW x \in Owner, NEW rate
    PROVE  Quiet(p, l, UpdateFee(l, x, rate))
<1>1. LogFrame(l)
  BY LogInvParts
<1>2. /\ UpdateFee(l, x, rate).revack_pending = l.revack_pending
      /\ UpdateFee(l, x, rate).unacked_updates = l.unacked_updates
      /\ UpdateFee(l, x, rate).locked_in = l.locked_in
      /\ UpdateFee(l, x, rate).removes = l.removes
  BY <1>1 DEF UpdateFee, LogFrame, LogField
<1>3. SameIrrevocable(l, UpdateFee(l, x, rate))
  BY RecordOnlyIsLater
<1>4. Steady(l, UpdateFee(l, x, rate), Other(p))
  BY <1>2, SameSteady
<1> QED
  BY <1>2, <1>3, <1>4, UpdateFeeInv DEF Quiet

LEMMA DiscardQuiet ==
    ASSUME NEW l, LogInv(l), NEW p \in Owner
    PROVE  Quiet(p, l, DiscardUnsignedRemoteUpdates(l, p))
<1> DEFINE m == DiscardUnsignedRemoteUpdates(l, p)
           q == Other(p)
           kept == {id \in DOMAIN l.locked_in[q] : l.locked_in[q][id][p] <= CtnLatest(l, p)}
           Signed(f) == Restrict(f, {id \in DOMAIN f : f[id][p] <= CtnLatest(l, p)})
<1>1. LogFrame(l) /\ l = [f \in LogField |-> l[f]]
  BY LogInvParts DEF LogFrame
<1>2. /\ m.revack_pending = l.revack_pending /\ m.unacked_updates = l.unacked_updates
      /\ m.locked_in = [l.locked_in EXCEPT ![q] = Restrict(@, kept)]
      /\ m.removes = [k \in RemovalKind |-> [l.removes[k] EXCEPT ![p] = Signed(@)]]
  <2>1. PICK fees, adds, active, next : m = [l EXCEPT
           !.locked_in[q]    = Restrict(@, kept),
           !.adds[q]         = adds,
           !.maybe_active[q] = active,
           !.next_htlc_id[q] = next,
           !.removes = [k \in RemovalKind |-> [l.removes[k] EXCEPT ![p] = Signed(@)]],
           !.fee_updates[q] = fees]
    BY DEF DiscardUnsignedRemoteUpdates
  <2> HIDE DEF kept, Signed, q
  <2> QED
    BY <1>1, <2>1 DEF LogField
<1>3. q \in Owner /\ q # p
  BY OtherOwner
<1> HIDE DEF kept, Signed, m, q
<1>4. m.locked_in[q] = Restrict(l.locked_in[q], kept)
  BY <1>1, <1>2, <1>3 DEF LogFrame
<1>5. \A k \in RemovalKind : m.removes[k][q] = l.removes[k][q]
  BY <1>1, <1>2, <1>3 DEF LogFrame
<1>6. \A id \in DOMAIN m.locked_in[q] :
        id \in DOMAIN l.locked_in[q] /\ m.locked_in[q][id] = l.locked_in[q][id]
  BY <1>4 DEF Restrict, kept
<1>7. Steady(l, m, q)
  BY <1>5, <1>6 DEF Steady
<1>8. LogInv(m) /\ SameIrrevocable(l, m)
  BY DiscardInv, DiscardIsLater DEF m
<1> QED
  BY <1>2, <1>7, <1>8 DEF Quiet, m, q

LEMMA QuietKeeps ==
    ASSUME NEW p \in Owner, NEW S, NEW R, NEW u, NEW l, NEW f, PartyInv(p, l, f, S, R, u),
           NEW m, Quiet(p, l, m)
    PROVE  PartyInv(p, m, f, S, R, u)
<1>1. /\ LogInv(l) /\ LogShape(l) /\ CounterTypes(l)
      /\ LogShape(m) /\ CounterTypes(m)
      /\ LogShape(f) /\ CounterTypes(f)
  BY LogInvParts DEF PartyInv, LogKept, FileKept, StoredLogInv, LogShape, Quiet
<1>2. m.ctn = l.ctn
  BY <1>1, SameCtn DEF Quiet
<1>3. CtnLatest(l, Other(p)) <= CtnLatest(m, Other(p))
  <2>1. CtnLatest(m, Other(p)) = CtnLatest(l, Other(p)) /\ CtnLatest(l, Other(p)) \in Nat
    BY <1>1, <1>2, OtherOwner, CtnsOf, CtnType DEF Quiet
  <2> QED
    BY <2>1
<1>4. LogKept(p, m, S, R, u)
  BY <1>3, AdvanceKeeps DEF PartyInv, Quiet
<1>5. InFile(m, f)
  BY <1>1, LaterTransitive DEF PartyInv, InFile, Quiet, SameIrrevocable
<1> QED
  BY <1>4, <1>5 DEF PartyInv

-----------------------------------------------------------------------------
(*                    Signatures, revocations, messages                    *)

(* Keeping an update for replay, with no signature. *)
LEMMA StoreUpdateKeeps ==
    ASSUME NEW p \in Owner, NEW S, NEW R, NEW u, NEW l, NEW f, PartyInv(p, l, f, S, R, u),
           NEW msg, msg.type \in KeptType \ {"commitment_signed"},
           NEW m, m = StoreRawMsg(l, p, msg, FALSE)
    PROVE  PartyInv(p, m, f, S, R, u)
<1> DEFINE q   == Other(p)
           c   == CtnNext(l, q)
           old == IF c \in DOMAIN l.unacked_updates THEN l.unacked_updates[c] ELSE << >>
<1>1. LogInv(l) /\ LogFrame(l) /\ CounterTypes(l) /\ StoredLogInv(f)
  BY LogInvParts DEF PartyInv, LogKept, FileKept
<1>2. q \in Owner
  BY OtherOwner
<1>3. LogInv(m)
  BY <1>1, StoreRawMsgInv
<1>4. m = [l EXCEPT !.unacked_updates = With(l.unacked_updates, c, Append(old, msg))]
  BY DEF StoreRawMsg
<1>5. /\ m.ctn = l.ctn /\ m.revack_pending = l.revack_pending
      /\ m.locked_in = l.locked_in /\ m.removes = l.removes
      /\ m.unacked_updates = With(l.unacked_updates, c, Append(old, msg))
  BY <1>1, <1>4 DEF LogFrame, LogField
<1>6. CtnLatest(m, q) = CtnLatest(l, q) /\ CtnNext(m, q) = c
  BY <1>1, <1>2, <1>5, CtnsOf
<1>7. c = CtnLatest(l, q) + 1 /\ CtnLatest(l, q) \in Nat /\ c \in 1 .. c
  BY <1>1, <1>2, CtnType
<1>8. IsSequence(old)
  <2>1. IsSequence(<< >>)
    <3>1. << >> \in Seq({})
      OBVIOUS
    <3> QED
      BY <3>1, SequenceOf
  <2> QED
    BY <2>1 DEF PartyInv, LogKept, MessagesKept
<1>9. /\ DOMAIN m.unacked_updates = DOMAIN l.unacked_updates \cup {c}
      /\ m.unacked_updates[c] = Append(old, msg)
      /\ \A n \in DOMAIN l.unacked_updates : n # c => m.unacked_updates[n] = l.unacked_updates[n]
  BY <1>5 DEF With
<1>10. /\ IsSequence(Append(old, msg))
       /\ \A i \in DOMAIN Append(old, msg) :
            Append(old, msg)[i] = msg \/ (i \in DOMAIN old /\ Append(old, msg)[i] = old[i])
  <2> DEFINE new == Append(old, msg)
  <2>1. new = Append(old, msg)
    OBVIOUS
  <2> HIDE DEF old, new
  <2>2. IsSequence(new)
    BY <1>8, <2>1, AppendSequence
  <2>3. \A i \in DOMAIN new : new[i] = msg \/ (i \in DOMAIN old /\ new[i] = old[i])
    BY <1>8, <2>1, AppendSequence
  <2> QED
    BY <2>1, <2>2, <2>3
<1> HIDE DEF c, q
<1>11. MessagesKept(m, q)
  <2>1. MessagesKept(l, q)
    BY DEF PartyInv, LogKept, q
  <2>2. DOMAIN m.unacked_updates \subseteq 1 .. c
    BY <1>7, <1>9, <2>1 DEF MessagesKept, c
  <2>3. ASSUME NEW n \in DOMAIN m.unacked_updates
        PROVE  /\ IsSequence(m.unacked_updates[n])
               /\ \A i \in DOMAIN m.unacked_updates[n] : m.unacked_updates[n][i].type \in KeptType
    <3>1. CASE n = c
      <4>1. \A i \in DOMAIN old : old[i].type \in KeptType
        BY <2>1 DEF MessagesKept
      <4> HIDE DEF old
      <4> QED
        BY <1>9, <1>10, <3>1, <4>1
    <3>2. CASE n # c
      BY <1>9, <2>1, <3>2 DEF MessagesKept
    <3> QED
      BY <3>1, <3>2
  <2> QED
    BY <1>6, <2>2, <2>3 DEF MessagesKept
<1>12. Replayable(l, q) => Replayable(m, q)
  <2> DEFINE latest == CtnLatest(l, q)
  <2>1. latest \in Nat /\ latest # c
    BY <1>7
  <2>2. latest \in DOMAIN l.unacked_updates =>
          latest \in DOMAIN m.unacked_updates /\ m.unacked_updates[latest] = l.unacked_updates[latest]
    BY <1>9, <2>1
  <2> QED
    BY <1>5, <1>6, <2>2 DEF Replayable
<1>13. SignedBy(l, q, S) => SignedBy(m, q, S)
  <2> SUFFICES ASSUME SignedBy(l, q, S), NEW n \in DOMAIN m.unacked_updates,
                      NEW i \in DOMAIN m.unacked_updates[n],
                      m.unacked_updates[n][i].type = "commitment_signed"
               PROVE  m.unacked_updates[n][i].ctx \in S
    BY <1>6 DEF SignedBy
  <2>1. CASE n = c
    <3>1. /\ i \in DOMAIN old /\ m.unacked_updates[n][i] = old[i]
      BY <1>9, <1>10, <2>1
    <3>2. c \in DOMAIN l.unacked_updates /\ old = l.unacked_updates[c]
      BY <3>1
    <3> HIDE DEF old
    <3> QED
      BY <3>1, <3>2 DEF SignedBy
  <2>2. CASE n # c
    BY <1>9, <2>2 DEF SignedBy
  <2> QED
    BY <2>1, <2>2
<1>14. SameIrrevocable(l, m)
  BY <1>1, <1>5, SameIsLater
<1>15. Gone(m, p) = Gone(l, p)
  BY <1>5, SameRemovals
<1>16. InFile(m, f)
  BY <1>5 DEF PartyInv, InFile, SameIrrevocable, Later
<1>17. Covered(l, q, S) => Covered(m, q, S)
  BY <1>5 DEF Covered, Committed
<1> QED
  BY <1>3, <1>11, <1>12, <1>13, <1>15, <1>16, <1>17 DEF PartyInv, LogKept, q

(* Signing the next ctx of the other, keeping the message, and saving.  The  *)
(* signed ctx is a new one: all before were for ctns up to the latest.       *)
LEMMA SigningKeeps ==
    ASSUME NEW p \in Owner, NEW S, NEW R, NEW u, NEW l, NEW f, PartyInv(p, l, f, S, R, u),
           ~ l.revack_pending[Other(p)],
           NEW msg, msg.type = "commitment_signed", msg.ctx.ctn = CtnNext(l, Other(p)),
           msg.ctx.htlcs = Htlcs(l, Other(p), CtnNext(l, Other(p))),
           NEW m, m = StoreRawMsg(SendCtx(l, p), p, msg, TRUE)
    PROVE  PartyInv(p, m, Stored(m), S \cup {msg.ctx}, R, u) /\ SameIrrevocable(l, m)
<1> DEFINE q   == Other(p)
           x   == SendCtx(l, p)
           c   == CtnNext(l, q)
           old == IF c \in DOMAIN l.unacked_updates THEN l.unacked_updates[c] ELSE << >>
           T   == S \cup {msg.ctx}
<1>1. LogInv(l) /\ LogFrame(l) /\ CounterTypes(l)
  BY LogInvParts DEF PartyInv, LogKept
<1>2. q \in Owner
  BY OtherOwner
<1>3. LogInv(x) /\ LogInv(m)
  BY <1>1, SendCtxInv, StoreRawMsgInv
<1>4. /\ x.ctn = l.ctn /\ x.revack_pending = [l.revack_pending EXCEPT ![q] = TRUE]
      /\ x.locked_in = l.locked_in /\ x.removes = l.removes
      /\ x.unacked_updates = l.unacked_updates
  BY <1>1 DEF SendCtx, LogFrame, LogField
<1>5. /\ c = l.ctn[q] + 1 /\ CtnLatest(x, q) = c /\ c \in Nat /\ c \in 1 .. c + 1
      /\ CtnLatest(l, q) = l.ctn[q]
  BY <1>1, <1>2, <1>4 DEF CtnLatest, CtnNext, CounterTypes
<1>6. m = [x EXCEPT !.unacked_updates =
             With(x.unacked_updates, c, Append(IF c \in DOMAIN x.unacked_updates
                                                 THEN x.unacked_updates[c] ELSE << >>, msg))]
  BY <1>5 DEF StoreRawMsg
<1>7. x = [g \in LogField |-> x[g]]
  BY <1>3, LogInvParts DEF LogFrame
<1> HIDE DEF x
<1>8. /\ m.ctn = l.ctn /\ m.revack_pending = x.revack_pending
      /\ m.locked_in = l.locked_in /\ m.removes = l.removes
      /\ m.unacked_updates = With(l.unacked_updates, c, Append(old, msg))
  BY <1>4, <1>6, <1>7 DEF LogField
<1>9. /\ CtnLatest(m, q) = c /\ CtnNext(m, q) = c + 1
  <2>1. CounterTypes(x)
    BY <1>3, LogInvParts
  <2>2. m.ctn = x.ctn /\ m.revack_pending[q] = x.revack_pending[q]
    BY <1>4, <1>8
  <2>3. CtnLatest(m, q) = CtnLatest(x, q) /\ CtnNext(m, q) = CtnNext(x, q)
    <3> HIDE DEF q
    <3> QED
      BY <1>2, <2>1, <2>2, CtnsOf
  <2> QED
    BY <1>5, <2>3 DEF CtnNext
<1>10. IsSequence(old)
  <2>1. IsSequence(<< >>)
    <3>1. << >> \in Seq({})
      OBVIOUS
    <3> QED
      BY <3>1, SequenceOf
  <2> QED
    BY <2>1 DEF PartyInv, LogKept, MessagesKept
<1>11. /\ DOMAIN m.unacked_updates = DOMAIN l.unacked_updates \cup {c}
       /\ m.unacked_updates[c] = Append(old, msg)
       /\ \A n \in DOMAIN l.unacked_updates : n # c => m.unacked_updates[n] = l.unacked_updates[n]
  BY <1>8 DEF With
<1>12. /\ IsSequence(Append(old, msg)) /\ Last(Append(old, msg)) = msg
       /\ \A i \in DOMAIN Append(old, msg) :
            Append(old, msg)[i] = msg \/ (i \in DOMAIN old /\ Append(old, msg)[i] = old[i])
  <2> DEFINE new == Append(old, msg)
  <2>1. new = Append(old, msg)
    OBVIOUS
  <2> HIDE DEF old, new
  <2>2. IsSequence(new)
    BY <1>10, <2>1, AppendSequence
  <2>3. Last(new) = msg
    BY <1>10, <2>1, LastAppended
  <2>4. \A i \in DOMAIN new : new[i] = msg \/ (i \in DOMAIN old /\ new[i] = old[i])
    BY <1>10, <2>1, AppendSequence
  <2> QED
    BY <2>1, <2>2, <2>3, <2>4
<1>13. DOMAIN l.unacked_updates \subseteq 1 .. c
  BY DEF PartyInv, LogKept, MessagesKept
<1> HIDE DEF c, q
<1>14. MessagesKept(m, q)
  <2>1. MessagesKept(l, q)
    BY DEF PartyInv, LogKept, q
  <2>2. DOMAIN m.unacked_updates \subseteq 1 .. CtnNext(m, q)
    <3>1. c \in 1 .. c + 1 /\ 1 .. c \subseteq 1 .. c + 1
      BY <1>5
    <3> QED
      BY <1>9, <1>11, <1>13, <3>1
  <2>3. ASSUME NEW n \in DOMAIN m.unacked_updates
        PROVE  /\ IsSequence(m.unacked_updates[n])
               /\ \A i \in DOMAIN m.unacked_updates[n] : m.unacked_updates[n][i].type \in KeptType
    <3>1. CASE n = c
      <4>1. \A i \in DOMAIN old : old[i].type \in KeptType
        BY <2>1 DEF MessagesKept
      <4>2. msg.type \in KeptType
        BY DEF KeptType
      <4> HIDE DEF old
      <4> QED
        BY <1>11, <1>12, <3>1, <4>1, <4>2
    <3>2. CASE n # c
      BY <1>11, <2>1, <3>2 DEF MessagesKept
    <3> QED
      BY <3>1, <3>2
  <2> QED
    BY <2>2, <2>3 DEF MessagesKept
<1>15. Replayable(m, q)
  BY <1>9, <1>11, <1>12 DEF Replayable
<1>16. u.restores = 0 => SignedBy(m, q, T) /\ OneEach(T)
  <2> SUFFICES ASSUME SignedBy(l, q, S), OneEach(S)
               PROVE  SignedBy(m, q, T) /\ OneEach(T)
    BY DEF PartyInv, LogKept, q
  <2>1. msg.ctx.ctn = c
    BY DEF c, q
  <2>2. \A d \in S : d.ctn \in Nat /\ d.ctn < c
    <3>1. CtnLatest(l, q) \in Nat /\ CtnLatest(l, q) + 1 = c
      BY <1>1, <1>2, CtnType DEF c
    <3> QED
      BY <3>1 DEF SignedBy
  <2>3. OneEach(T)
    BY <1>5, <2>1, <2>2 DEF OneEach
  <2>4. ASSUME NEW n \in DOMAIN m.unacked_updates, NEW i \in DOMAIN m.unacked_updates[n],
               m.unacked_updates[n][i].type = "commitment_signed"
        PROVE  m.unacked_updates[n][i].ctx \in T
    <3>1. CASE n = c
      <4>1. \/ m.unacked_updates[n][i] = msg
            \/ i \in DOMAIN old /\ m.unacked_updates[n][i] = old[i]
        BY <1>11, <1>12, <2>4, <3>1
      <4>2. i \in DOMAIN old => c \in DOMAIN l.unacked_updates /\ old = l.unacked_updates[c]
        OBVIOUS
      <4> HIDE DEF old
      <4> QED
        BY <2>4, <4>1, <4>2 DEF SignedBy
    <3>2. CASE n # c
      BY <1>11, <2>4, <3>2 DEF SignedBy
    <3> QED
      BY <3>1, <3>2
  <2>5. \A d \in T : d.ctn \in Nat /\ d.ctn <= c
    BY <1>5, <2>1, <2>2
  <2> HIDE DEF T
  <2> QED
    BY <1>9, <2>3, <2>4, <2>5 DEF SignedBy
<1>17. SameIrrevocable(l, m)
  BY <1>1, <1>8, SameIsLater
<1>18. Gone(m, p) = Gone(l, p)
  BY <1>8, SameRemovals
<1>19. Covered(l, q, S) => Covered(m, q, T)
  <2> SUFFICES ASSUME Covered(l, q, S)
               PROVE  Covered(m, q, T)
    OBVIOUS
  <2>1. \A k \in RemovalKind : \A id \in DOMAIN m.removes[k][q] : Committed(m, q, id)
    BY <1>8 DEF Covered, Committed
  <2>2. ASSUME NEW id \in DOMAIN l.locked_in[q], l.locked_in[q][id][q] = msg.ctx.ctn
        PROVE  <<q, id>> \in msg.ctx.htlcs
    <3>1. msg.ctx.ctn = c /\ msg.ctx.htlcs = Htlcs(l, q, c)
      BY DEF c, q
    <3> QED
      BY <1>1, <1>2, <2>2, <3>1, NextHtlcs DEF c
  <2>3. \A d \in T : \A id \in DOMAIN l.locked_in[q] :
          l.locked_in[q][id][q] = d.ctn => <<q, id>> \in d.htlcs
    BY <2>2 DEF Covered
  <2> HIDE DEF T
  <2> QED
    BY <1>8, <2>1, <2>3 DEF Covered
<1>20. LogKept(p, m, T, R, u)
  BY <1>3, <1>14, <1>15, <1>16, <1>18, <1>19 DEF PartyInv, LogKept, q
<1> QED
  BY <1>17, <1>20, StoredKept DEF PartyInv

(* Receiving a signature: the log before the revocation that follows. *)
LEMMA RecvCtxKeeps ==
    ASSUME NEW p \in Owner, NEW S, NEW R, NEW u, NEW l, LogKept(p, l, S, R, u),
           NEW m, m = RecvCtx(l, p)
    PROVE  LogKept(p, m, S, R, u) /\ Later(l, m) /\ SameIrrevocable(l, m)
<1>1. LogInv(l) /\ LogFrame(l) /\ CounterTypes(l)
  BY LogInvParts DEF LogKept
<1>2. LogInv(m) /\ SameIrrevocable(l, m)
  BY <1>1, RecvCtxInv, RecordOnlyIsLater
<1>3. /\ m.ctn = l.ctn /\ m.revack_pending = [l.revack_pending EXCEPT ![p] = TRUE]
      /\ m.unacked_updates = l.unacked_updates
      /\ m.locked_in = l.locked_in /\ m.removes = l.removes
  BY <1>1 DEF RecvCtx, LogFrame, LogField
<1>4. m.revack_pending[Other(p)] = l.revack_pending[Other(p)]
  BY <1>1, <1>3, OtherOwner DEF CounterTypes
<1>5. CtnLatest(l, Other(p)) <= CtnLatest(m, Other(p))
  <2>1. CtnLatest(m, Other(p)) = CtnLatest(l, Other(p))
    BY <1>3, <1>4 DEF CtnLatest
  <2>2. CtnLatest(l, Other(p)) \in Nat
    BY <1>1, OtherOwner, CtnType
  <2> QED
    BY <2>1, <2>2
<1>6. Steady(l, m, Other(p))
  BY <1>3, SameSteady
<1> QED
  BY <1>2, <1>3, <1>4, <1>5, <1>6, AdvanceKeeps DEF SameIrrevocable

(* What a revocation of r leaves of the HTLCs: those of the other that are in *)
(* the new ctx of r go into the next ctx of the other.                        *)
Acknowledged(l, m, r) ==
    LET other == Other(r) IN
    /\ m.locked_in[r] = l.locked_in[r]
    /\ DOMAIN m.locked_in[other] = DOMAIN l.locked_in[other]
    /\ \A id \in DOMAIN l.locked_in[other] :
          \/ m.locked_in[other][id] = l.locked_in[other][id]
          \/ /\ m.locked_in[other][id][other] = CtnNext(l, other)
             /\ Reached(l.locked_in[other][id][r], l.ctn[r] + 1)
    /\ \A k \in RemovalKind, x \in Owner : DOMAIN m.removes[k][x] = DOMAIN l.removes[k][x]

LEMMA RevokeAcknowledges ==
    ASSUME NEW l, LogInv(l), NEW r \in Owner, NEW x, x = Revoke(l, r),
           NEW m, m.locked_in = x.locked_in, m.removes = x.removes
    PROVE  Acknowledged(l, m, r)
<1> DEFINE other == Other(r)
           n     == l.ctn[r] + 1
           next  == CtnNext(l, other)
           Ack(f, ids) == [id \in DOMAIN f |->
                             IF id \in ids THEN Acknowledge(f[id], r, n, next) ELSE f[id]]
<1>1. LogFrame(l) /\ CounterTypes(l) /\ UpdateTypes(l)
  BY LogInvParts
<1>2. other \in Owner /\ other # r
  BY OtherOwner
<1>3. n \in Nat /\ next \in Nat
  BY <1>1, <1>2, CtnType
<1>4. /\ m.locked_in = [l.locked_in EXCEPT ![other] = Ack(@, l.maybe_active[other])]
      /\ m.removes = [k \in RemovalKind |->
                        [l.removes[k] EXCEPT ![r] = Ack(@, l.maybe_active[r])]]
  <2>1. l = [f \in LogField |-> l[f]]
    BY <1>1 DEF LogFrame
  <2>2. PICK fees : x = [l EXCEPT
           !.ctn[r]            = n,
           !.revack_pending[r] = FALSE,
           !.locked_in[other]  = Ack(@, l.maybe_active[other]),
           !.removes = [k \in RemovalKind |->
                          [l.removes[k] EXCEPT ![r] = Ack(@, l.maybe_active[r])]],
           !.fee_updates[other] = fees]
    BY DEF Revoke
  <2> HIDE DEF Ack, n, other
  <2> QED
    BY <2>1, <2>2 DEF LogField
<1>5. /\ m.locked_in[other] = Ack(l.locked_in[other], l.maybe_active[other])
      /\ m.locked_in[r] = l.locked_in[r]
  BY <1>1, <1>2, <1>4 DEF LogFrame
<1>6. DOMAIN m.locked_in[other] = DOMAIN l.locked_in[other]
  BY <1>5
<1>7. ASSUME NEW id \in DOMAIN l.locked_in[other]
      PROVE  \/ m.locked_in[other][id] = l.locked_in[other][id]
             \/ /\ m.locked_in[other][id][other] = next
                /\ Reached(l.locked_in[other][id][r], n)
  <2>1. l.locked_in[other][id] \in Ctns
    BY <1>1, <1>2 DEF UpdateTypes
  <2>2. m.locked_in[other][id] \in {l.locked_in[other][id],
                                    Acknowledge(l.locked_in[other][id], r, n, next)}
    BY <1>5
  <2> QED
    BY <1>2, <2>1, <2>2 DEF Acknowledge, Ctns
<1>8. ASSUME NEW k \in RemovalKind, NEW y \in Owner
      PROVE  DOMAIN m.removes[k][y] = DOMAIN l.removes[k][y]
  <2>1. m.removes[k] = [l.removes[k] EXCEPT ![r] = Ack(@, l.maybe_active[r])]
    BY <1>4
  <2>2. DOMAIN l.removes[k] = Owner
    BY <1>1 DEF LogFrame
  <2> QED
    BY <2>1, <2>2
<1> QED
  BY <1>5, <1>6, <1>7, <1>8 DEF Acknowledged

LEMMA SendRevEffect ==
    ASSUME NEW l, LogInv(l), NEW p \in Owner, NEW m, m = SendRev(l, p)
    PROVE  /\ m.ctn = [l.ctn EXCEPT ![p] = l.ctn[p] + 1]
           /\ m.revack_pending = [l.revack_pending EXCEPT ![p] = FALSE]
           /\ Acknowledged(l, m, p)
<1> DEFINE x == Revoke(l, p)
<1>1. LogFrame(l)
  BY LogInvParts
<1>2. /\ x.ctn = [l.ctn EXCEPT ![p] = l.ctn[p] + 1]
      /\ x.revack_pending = [l.revack_pending EXCEPT ![p] = FALSE]
  BY <1>1 DEF Revoke, LogFrame, LogField
<1>3. x = [g \in LogField |-> x[g]]
  BY RevokeInv, LogInvParts DEF LogFrame
<1>4. m = [UpdateMaybeActive(x, p) EXCEPT !.was_revoke_last = TRUE]
  BY DEF SendRev
<1>5. x = Revoke(l, p)
  OBVIOUS
<1> HIDE DEF x
<1>6. /\ m.ctn = x.ctn /\ m.revack_pending = x.revack_pending
      /\ m.locked_in = x.locked_in /\ m.removes = x.removes
  BY <1>3, <1>4 DEF UpdateMaybeActive, LogField
<1>7. Acknowledged(l, m, p)
  BY <1>5, <1>6, RevokeAcknowledges
<1> QED
  BY <1>2, <1>6, <1>7

LEMMA RecvRevEffect ==
    ASSUME NEW l, LogInv(l), NEW p \in Owner, NEW m, m = RecvRev(l, p)
    PROVE  /\ m.ctn = [l.ctn EXCEPT ![Other(p)] = l.ctn[Other(p)] + 1]
           /\ m.revack_pending = [l.revack_pending EXCEPT ![Other(p)] = FALSE]
           /\ Acknowledged(l, m, Other(p))
<1> DEFINE q == Other(p)
           x == Revoke(l, q)
<1>1. LogFrame(l) /\ q \in Owner
  BY LogInvParts, OtherOwner
<1>2. /\ x.ctn = [l.ctn EXCEPT ![q] = l.ctn[q] + 1]
      /\ x.revack_pending = [l.revack_pending EXCEPT ![q] = FALSE]
  BY <1>1 DEF Revoke, LogFrame, LogField
<1>3. x = [g \in LogField |-> x[g]]
  BY <1>1, RevokeInv, LogInvParts DEF LogFrame
<1>4. PICK raw : m = [UpdateMaybeActive(x, p) EXCEPT !.unacked_updates = raw]
  BY DEF RecvRev
<1>5. x = Revoke(l, q)
  OBVIOUS
<1> HIDE DEF x
<1>6. /\ m.ctn = x.ctn /\ m.revack_pending = x.revack_pending
      /\ m.locked_in = x.locked_in /\ m.removes = x.removes
  BY <1>3, <1>4 DEF UpdateMaybeActive, LogField
<1> HIDE DEF q
<1>7. Acknowledged(l, m, q)
  BY <1>1, <1>5, <1>6, RevokeAcknowledges
<1> QED
  BY <1>2, <1>6, <1>7 DEF q

(* Neither gives an HTLC of the other a ctn that is signed already. *)
LEMMA RevocationSteady ==
    ASSUME NEW l, LogInv(l), NEW r \in Owner, NEW m, Acknowledged(l, m, r),
           NEW q \in Owner
    PROVE  Steady(l, m, q)
<1>1. /\ CtnLatest(l, q) \in Nat /\ CtnNext(l, q) \in Nat /\ CtnLatest(l, q) < CtnNext(l, q)
  BY LogInvParts, CtnType DEF CtnNext
<1>2. q = r \/ q = Other(r)
  BY OtherOwner
<1>3. ~ Reached(CtnNext(l, q), CtnLatest(l, q))
  BY <1>1 DEF Reached
<1>4. ASSUME NEW id \in DOMAIN m.locked_in[q]
      PROVE  \/ /\ id \in DOMAIN l.locked_in[q]
                /\ m.locked_in[q][id][q] = l.locked_in[q][id][q]
             \/ ~ Reached(m.locked_in[q][id][q], CtnLatest(l, q))
  BY <1>2, <1>3 DEF Acknowledged
<1> QED
  BY <1>4 DEF Steady, Acknowledged

(* Revoking our own ctx: what the other is bound to is as it was. *)
LEMMA SendRevKeeps ==
    ASSUME NEW p \in Owner, NEW S, NEW R, NEW u, NEW l, LogKept(p, l, S, R, u),
           NEW m, m = SendRev(l, p)
    PROVE  LogKept(p, m, S, R, u) /\ Later(l, m)
<1> DEFINE q       == Other(p)
           n       == l.ctn[p] + 1
           next    == CtnNext(l, q)
           x       == Revoke(l, p)
           Ack(g, ids) == [id \in DOMAIN g |->
                             IF id \in ids THEN Acknowledge(g[id], p, n, next) ELSE g[id]]
<1>1. LogInv(l) /\ LogFrame(l) /\ CounterTypes(l) /\ UpdateTypes(l)
  BY LogInvParts DEF LogKept
<1>2. q \in Owner /\ q # p
  BY OtherOwner
<1>3. LogInv(m) /\ Later(l, m)
  BY <1>1, SendRevInv, SendRevIsLater
<1>4. /\ x.ctn = [l.ctn EXCEPT ![p] = n]
      /\ x.revack_pending = [l.revack_pending EXCEPT ![p] = FALSE]
      /\ x.unacked_updates = l.unacked_updates
      /\ x.removes = [k \in RemovalKind |->
                        [l.removes[k] EXCEPT ![p] = Ack(@, l.maybe_active[p])]]
  BY <1>1 DEF Revoke, LogFrame, LogField
<1>5. x = [g \in LogField |-> x[g]]
  BY <1>1, RevokeInv, LogInvParts DEF LogFrame
<1>6. /\ m.ctn = x.ctn /\ m.revack_pending = x.revack_pending
      /\ m.unacked_updates = x.unacked_updates /\ m.removes = x.removes
  <2> HIDE DEF x
  <2>1. m = [UpdateMaybeActive(x, p) EXCEPT !.was_revoke_last = TRUE]
    BY DEF SendRev, x
  <2> QED
    BY <1>5, <2>1 DEF UpdateMaybeActive, LogField
<1> HIDE DEF x, Ack, n
<1>7. m.ctn[q] = l.ctn[q] /\ m.revack_pending[q] = l.revack_pending[q]
  BY <1>1, <1>2, <1>4, <1>6 DEF CounterTypes
<1>8. CtnLatest(m, q) = CtnLatest(l, q) /\ CtnNext(m, q) = CtnNext(l, q)
  BY <1>7 DEF CtnLatest, CtnNext
<1>9. MessagesKept(m, q) /\ (Replayable(l, q) => Replayable(m, q))
  BY <1>4, <1>6, <1>7, <1>8 DEF LogKept, MessagesKept, Replayable
<1>10. SignedBy(l, q, S) => SignedBy(m, q, S)
  BY <1>4, <1>6, <1>8 DEF SignedBy
<1>11. Gone(m, p) = Gone(l, p)
  <2>1. ASSUME NEW k \in RemovalKind
        PROVE  /\ DOMAIN m.removes[k][p] = DOMAIN l.removes[k][p]
               /\ \A id \in DOMAIN l.removes[k][p] :
                    Reached(m.removes[k][p][id][q], m.ctn[q])
                      <=> Reached(l.removes[k][p][id][q], l.ctn[q])
    <3>1. m.removes[k][p] = Ack(l.removes[k][p], l.maybe_active[p])
      <4>1. m.removes[k] = [l.removes[k] EXCEPT ![p] = Ack(l.removes[k][p], l.maybe_active[p])]
        BY <1>4, <1>6
      <4>2. DOMAIN l.removes[k] = Owner
        BY <1>1 DEF LogFrame
      <4> QED
        BY <4>1, <4>2
    <3>2. ASSUME NEW id \in DOMAIN l.removes[k][p]
          PROVE  Reached(m.removes[k][p][id][q], m.ctn[q])
                   <=> Reached(l.removes[k][p][id][q], l.ctn[q])
      <4>1. m.removes[k][p][id] \in {l.removes[k][p][id],
                                     Acknowledge(l.removes[k][p][id], p, n, next)}
        BY <3>1 DEF Ack
      <4>2. l.removes[k][p][id] \in Ctns
        BY <1>1 DEF UpdateTypes
      <4>3. n \in Nat /\ next \in Nat /\ next > l.ctn[q] /\ l.ctn[q] \in Nat
        BY <1>1, <1>2, CtnType DEF n, CounterTypes
      <4>4. m.removes[k][p][id][q] # l.removes[k][p][id][q] =>
              l.removes[k][p][id][q] = None /\ m.removes[k][p][id][q] = next
        BY <1>2, <4>1, <4>2 DEF Acknowledge, Ctns
      <4> HIDE DEF next
      <4> QED
        BY <1>7, <4>3, <4>4 DEF Reached
    <3> QED
      BY <3>1, <3>2 DEF Ack
  <2> QED
    BY <2>1 DEF Gone
<1>12. SignedBy(l, q, S) /\ Covered(l, q, S) => Covered(m, q, S)
  BY <1>1, <1>2, <1>3, SendRevEffect, RevocationSteady, LogInvParts, CoveredStill DEF SignedBy
<1> QED
  BY <1>3, <1>9, <1>10, <1>11, <1>12 DEF LogKept

(* Receiving a revocation: the removals that it makes final are those that    *)
(* are reported in this very step.  None hides behind the cache: what that    *)
(* has forgotten was final one ctn earlier.                                   *)
LEMMA RecvRevKeeps ==
    ASSUME NEW p \in Owner, NEW S, NEW R, NEW u, NEW l, LogKept(p, l, S, R, u),
           NEW m, m = RecvRev(l, p)
    PROVE  /\ Later(l, m)
           /\ LogKept(p, m, S, R \cup RemovalReports(p, m, CtnLatest(m, Other(p))), u)
<1> DEFINE q == Other(p)
           x == Revoke(l, q)
           gone == l.ctn[q] + 1
<1>1. LogInv(l) /\ LogFrame(l) /\ CounterTypes(l) /\ UpdateTypes(l)
  BY LogInvParts DEF LogKept
<1>2. q \in Owner /\ q # p /\ Other(q) = p
  BY OtherOwner
<1>3. LogInv(m) /\ Later(l, m)
  BY <1>1, RecvRevInv, RecvRevIsLater
<1>4. /\ x.ctn = [l.ctn EXCEPT ![q] = gone]
      /\ x.revack_pending = [l.revack_pending EXCEPT ![q] = FALSE]
      /\ x.unacked_updates = l.unacked_updates
      /\ \A k \in RemovalKind : x.removes[k][p] = l.removes[k][p]
  BY <1>1, <1>2 DEF Revoke, LogFrame, LogField
<1>5. x = [g \in LogField |-> x[g]]
  BY <1>1, <1>2, RevokeInv, LogInvParts DEF LogFrame
<1>6. /\ m.ctn = x.ctn /\ m.revack_pending = x.revack_pending
      /\ m.unacked_updates = Restrict(l.unacked_updates, DOMAIN l.unacked_updates \ {gone})
      /\ m.removes = x.removes
  <2>1. m = [UpdateMaybeActive(x, p) EXCEPT !.unacked_updates =
               Restrict(@, DOMAIN @ \ {gone})]
    BY DEF RecvRev
  <2> HIDE DEF x, gone
  <2> QED
    BY <1>4, <1>5, <2>1 DEF UpdateMaybeActive, LogField
<1> HIDE DEF x
<1>7. /\ m.ctn[q] = gone /\ m.revack_pending[q] = FALSE
      /\ CtnLatest(m, q) = gone /\ CtnNext(m, q) = gone + 1
      /\ l.ctn[q] \in Nat /\ gone \in Nat
      /\ CtnLatest(l, q) <= gone /\ CtnNext(l, q) \in Nat /\ CtnNext(l, q) <= gone + 1
  BY <1>1, <1>2, <1>4, <1>6 DEF CounterTypes, CtnLatest, CtnNext
<1>8. MessagesKept(m, q)
  <2>1. MessagesKept(l, q)
    BY DEF LogKept
  <2> HIDE DEF gone, q
  <2> QED
    BY <1>6, <1>7, <2>1 DEF MessagesKept, Restrict
<1>9. Replayable(m, q)
  BY <1>7 DEF Replayable
<1>10. SignedBy(l, q, S) => SignedBy(m, q, S)
  <2>1. CtnLatest(l, q) \in Nat
    BY <1>1, <1>2, CtnType
  <2> HIDE DEF gone, q
  <2> QED
    BY <1>6, <1>7, <2>1 DEF SignedBy, Restrict
<1>11. Gone(m, p) = Gone(l, p) \cup RemovalReports(p, m, CtnLatest(m, q))
  <2>1. ASSUME NEW k \in RemovalKind, NEW id \in DOMAIN l.removes[k][p]
        PROVE  Reached(m.removes[k][p][id][q], m.ctn[q]) <=>
                 \/ Reached(l.removes[k][p][id][q], l.ctn[q])
                 \/ m.removes[k][p][id][q] = gone
    <3>1. m.removes[k][p] = l.removes[k][p] /\ l.removes[k][p][id] \in Ctns
      BY <1>1, <1>4, <1>6 DEF UpdateTypes
    <3>2. l.removes[k][p][id][q] \in Nat \cup {None}
      BY <1>2, <3>1 DEF Ctns
    <3> QED
      BY <1>7, <3>1, <3>2, NoneAssumption DEF Reached, gone
  <2>2. ASSUME NEW k \in RemovalKind, NEW id \in DOMAIN l.removes[k][p],
               m.removes[k][p][id][q] = gone
        PROVE  id \in m.maybe_active[p]
    <3>1. CacheIsSound(m) /\ RemovedOneWay(m) /\ UpdateTypes(m)
      BY <1>3, LogInvParts
    <3>2. id \in DOMAIN m.removes[k][p]
      BY <1>4, <1>6, <2>2
    <3>3. id \in DOMAIN m.locked_in[p]
      BY <3>1, <3>2 DEF UpdateTypes
    <3> SUFFICES ASSUME id \notin m.maybe_active[p]
                 PROVE  FALSE
      OBVIOUS
    <3>4. PICK j \in RemovalKind :
            /\ id \in DOMAIN m.removes[j][p]
            /\ \A o \in Owner : Reached(m.removes[j][p][id][o], m.ctn[o] - SanityMargin)
      BY <3>1, <3>3 DEF CacheIsSound
    <3>5. j = k
      BY <3>1, <3>2, <3>4 DEF RemovedOneWay, RemovalKind
    <3>6. Reached(gone, gone - 1)
      BY <1>2, <1>7, <2>2, <3>4, <3>5 DEF SanityMargin
    <3> QED
      BY <1>7, <3>6 DEF Reached
  <2>3. \A k \in RemovalKind : m.removes[k][p] = l.removes[k][p]
    BY <1>4, <1>6
  <2>4. ASSUME NEW k \in RemovalKind
        PROVE  RemovedExactlyAt(m, k, q, gone, p) =
                 {id \in DOMAIN l.removes[k][p] : m.removes[k][p][id][q] = gone}
    <3>1. gone >= m.ctn[q]
      BY <1>7
    <3> QED
      BY <2>2, <2>3, <3>1 DEF RemovedExactlyAt
  <2>5. RemovalReports(p, m, gone) =
          UNION {{<<id, k>> : id \in {id \in DOMAIN l.removes[k][p] :
                                        m.removes[k][p][id][q] = gone}} : k \in RemovalKind}
    BY <2>4 DEF RemovalReports
  <2> DEFINE Old(k) == {id \in DOMAIN l.removes[k][p] : Reached(l.removes[k][p][id][q], l.ctn[q])}
             New(k) == {id \in DOMAIN l.removes[k][p] : m.removes[k][p][id][q] = gone}
             All(k) == {id \in DOMAIN m.removes[k][p] : Reached(m.removes[k][p][id][q], m.ctn[q])}
  <2>6. \A k \in RemovalKind : All(k) = Old(k) \cup New(k)
    BY <2>1, <2>3
  <2>7. /\ Gone(l, p) = UNION {{<<id, k>> : id \in Old(k)} : k \in RemovalKind}
        /\ Gone(m, p) = UNION {{<<id, k>> : id \in All(k)} : k \in RemovalKind}
        /\ RemovalReports(p, m, gone) = UNION {{<<id, k>> : id \in New(k)} : k \in RemovalKind}
    BY <2>5 DEF Gone
  <2> HIDE DEF Old, New, All
  <2> QED
    BY <1>7, <2>6, <2>7
<1>12. SignedBy(l, q, S) /\ Covered(l, q, S) => Covered(m, q, S)
  <2>1. Steady(l, m, q)
    BY <1>1, <1>2, RecvRevEffect, RevocationSteady
  <2> HIDE DEF q
  <2> QED
    BY <1>1, <1>2, <1>3, <2>1, LogInvParts, CoveredStill DEF SignedBy
<1> QED
  BY <1>3, <1>8, <1>9, <1>10, <1>11, <1>12 DEF LogKept

-----------------------------------------------------------------------------
(*                       Between the two parties                           *)

(* The messages of a type. *)
Sent(x, type) == {x[i] : i \in {i \in DOMAIN x : x[i].type = type}}

(* The ctxs whose signatures a step sends. *)
Signatures(out) ==
    {out[i].ctx : i \in {i \in DOMAIN out : out[i].type = "commitment_signed"}}

(* The ctxs of q, in the log a of the other and in q's own log b: q has       *)
(* revoked what the other has revocations for, and has no signature that the  *)
(* other did not make.                                                        *)
Between(a, b, q) ==
    /\ a.ctn[q] <= b.ctn[q]
    /\ CtnLatest(b, q) <= CtnLatest(a, q)

(* A channel_reestablish of p that still says what p would say now. *)
Announces(m, l, p) ==
    /\ m.nextLocal = CtnNext(l, p)
    /\ m.oldestRemote = l.ctn[Other(p)]

Revoked(m, n) == m.revoked \in Int /\ m.revoked < n

LEMMA BetweenGrows ==
    ASSUME NEW q \in Owner, NEW a, CounterTypes(a), NEW b, CounterTypes(b), Between(a, b, q),
           NEW c, CounterTypes(c), c.ctn[q] = a.ctn[q], CtnLatest(a, q) <= CtnLatest(c, q)
    PROVE  Between(c, b, q)
<1>1. CtnLatest(a, q) \in Nat /\ CtnLatest(b, q) \in Nat /\ CtnLatest(c, q) \in Nat
  BY CtnType
<1> QED
  BY <1>1 DEF Between

(* An HTLC of q that q is bound to by the log a, it is bound to by b.         *)
Credited(a, b, q) ==
    \A id \in DOMAIN a.locked_in[q] : Committed(a, q, id) => Committed(b, q, id)

(* In the log of q: every ctx that q is or was bound to was signed, and q is  *)
(* bound to those of its HTLCs that are in it.                                *)
Accepted(b, q, S) ==
    /\ \A d \in S : d.ctn <= b.ctn[q] =>
          \A h \in d.htlcs : h[1] = q => Committed(b, q, h[2])
    /\ \A n \in 1 .. b.ctn[q] : \E d \in S : d.ctn = n

(* The logs a of p and b of its peer agree on what is irrevocable; S: the     *)
(* ctxs of p that were signed.                                                *)
Agreed(p, a, b, S) ==
    Credited(a, b, Other(p)) /\ Credited(b, a, p) /\ Accepted(a, p, S)

LEMMA SameCommitted ==
    ASSUME NEW a, StoredLogInv(a), NEW c, StoredLogInv(c), SameIrrevocable(a, c),
           NEW q \in Owner, NEW id
    PROVE  Committed(a, q, id) <=> Committed(c, q, id)
BY CommittedStill DEF SameIrrevocable, StoredLogInv, LogShape

LEMMA AgreedSame ==
    ASSUME NEW p \in Owner, NEW a, StoredLogInv(a), NEW c, StoredLogInv(c),
           SameIrrevocable(a, c), NEW b, NEW S, Agreed(p, a, b, S)
    PROVE  Agreed(p, c, b, S)
<1>1. c.ctn = a.ctn
  BY SameCtn DEF StoredLogInv, LogShape
<1>2. Credited(c, b, Other(p))
  <2>1. \A id : Committed(c, Other(p), id) => Committed(a, Other(p), id)
    BY OtherOwner, SameCommitted
  <2>2. \A id : Committed(a, Other(p), id) => Committed(b, Other(p), id)
    BY DEF Agreed, Credited, Committed
  <2> QED
    BY <2>1, <2>2 DEF Credited
<1>3. Credited(b, c, p)
  BY SameCommitted DEF Agreed, Credited
<1>4. Accepted(c, p, S)
  <2>1. \A id : Committed(a, p, id) => Committed(c, p, id)
    BY SameCommitted
  <2> QED
    BY <1>1, <2>1 DEF Agreed, Accepted
<1> QED
  BY <1>2, <1>3, <1>4 DEF Agreed

(* The step of p that makes a its log. *)
Linked(p, a) ==
    /\ Between(a, log[Other(p)], Other(p))
    /\ Between(log[Other(p)], a, p)
    /\ \A m \in Sent(net[Other(p)], "channel_reestablish") : Announces(m, a, p)
    /\ Agreed(p, a, log[Other(p)], signed[p])

(* ... and sends these messages: what p learns of the ctns of the other is    *)
(* so, it has made the revocations that it sends, and what it signs is new.   *)
Truthful(p, a, out) ==
    /\ \/ a.ctn[Other(p)] = log[p].ctn[Other(p)]
       \/ a.ctn[Other(p)] <= log[Other(p)].ctn[Other(p)]
    /\ \A m \in Sent(out, "revoke_and_ack") : Revoked(m, a.ctn[p])
    /\ used.restores = 0 =>
         \A c \in Signatures(out) :
            c \in signed[Other(p)] \/ log[Other(p)].ctn[Other(p)] < c.ctn

LEMMA LinkedStill ==
    ASSUME NEW p \in Owner, NEW a, StoredLogInv(a), CounterTypes(log[Other(p)]),
           Linked(p, a), NEW c, StoredLogInv(c), SameIrrevocable(a, c), c.ctn = a.ctn,
           c.revack_pending[p] = a.revack_pending[p],
           CtnLatest(a, Other(p)) <= CtnLatest(c, Other(p))
    PROVE  Linked(p, c)
<1>0. CounterTypes(a) /\ CounterTypes(c)
  BY DEF StoredLogInv, LogShape
<1>1. Other(p) \in Owner
  BY OtherOwner
<1>2. CtnLatest(c, p) = CtnLatest(a, p) /\ CtnNext(c, p) = CtnNext(a, p)
  BY DEF CtnLatest, CtnNext
<1>3. Between(c, log[Other(p)], Other(p))
  BY <1>0, <1>1, BetweenGrows DEF Linked
<1>4. Between(log[Other(p)], c, p)
  BY <1>2 DEF Linked, Between
<1>5. \A m \in Sent(net[Other(p)], "channel_reestablish") : Announces(m, c, p)
  BY <1>2 DEF Linked, Announces
<1>6. Agreed(p, c, log[Other(p)], signed[p])
  BY AgreedSame DEF Linked
<1> QED
  BY <1>3, <1>4, <1>5, <1>6 DEF Linked

(* t is what has been sent once msg is, too. *)
AfterSending(out, msg, t) ==
    /\ IsSequence(t)
    /\ msg.type = "commitment_signed" => Signatures(t) = Signatures(out) \cup {msg.ctx}
    /\ msg.type # "commitment_signed" => Signatures(t) = Signatures(out)
    /\ msg.type # "revoke_and_ack" => Sent(t, "revoke_and_ack") = Sent(out, "revoke_and_ack")
    /\ Sent(t, "revoke_and_ack") \subseteq Sent(out, "revoke_and_ack") \cup {msg}
    /\ msg.type # "channel_reestablish" =>
         Sent(t, "channel_reestablish") = Sent(out, "channel_reestablish")

LEMMA SentAppended ==
    ASSUME NEW out, IsSequence(out), NEW msg, NEW t, t = Append(out, msg)
    PROVE  AfterSending(out, msg, t)
<1>1. t = Append(out, msg)
  OBVIOUS
<1>2. IsSequence(t)
  BY <1>1, AppendSequence
<1>3. \A i \in DOMAIN t : t[i] = msg \/ (i \in DOMAIN out /\ t[i] = out[i])
  BY <1>1, AppendSequence
<1>4. \A i \in DOMAIN out : i \in DOMAIN t /\ t[i] = out[i]
  BY <1>1, AppendSequence
<1>5. \E i \in DOMAIN t : t[i] = msg
  BY <1>1, AppendSequence
<1>6. msg.type = "commitment_signed" => Signatures(t) = Signatures(out) \cup {msg.ctx}
  BY <1>3, <1>4, <1>5 DEF Signatures
<1>7. msg.type # "commitment_signed" => Signatures(t) = Signatures(out)
  BY <1>3, <1>4 DEF Signatures
<1>8. msg.type # "revoke_and_ack" => Sent(t, "revoke_and_ack") = Sent(out, "revoke_and_ack")
  BY <1>3, <1>4 DEF Sent
<1>9. Sent(t, "revoke_and_ack") \subseteq Sent(out, "revoke_and_ack") \cup {msg}
  BY <1>3 DEF Sent
<1>10. msg.type # "channel_reestablish" =>
         Sent(t, "channel_reestablish") = Sent(out, "channel_reestablish")
  BY <1>3, <1>4 DEF Sent
<1> QED
  BY <1>2, <1>6, <1>7, <1>8, <1>9, <1>10 DEF AfterSending

-----------------------------------------------------------------------------
(*                                 Steps                                   *)

StepField == {"log", "disk", "out", "reports"}

(* What a step must have to be performed. *)
Sound(p, s) ==
    /\ s = [f \in StepField |-> s[f]]
    /\ IsSequence(s.out)
    /\ Sent(s.out, "channel_reestablish") = {}
    /\ LogShape(log[p]) /\ CounterTypes(log[Other(p)])
    /\ Later(log[p], s.log)
    /\ PartyInv(p, s.log, s.disk, signed[Other(p)] \cup Signatures(s.out),
                reported[p] \cup s.reports, used)
    /\ Truthful(p, s.log, s.out)
    /\ used.restores = 0 => Linked(p, s.log)

LEMMA SoundLog ==
    ASSUME NEW p \in Owner, NEW s, Sound(p, s)
    PROVE  LogInv(s.log) /\ CounterTypes(s.log)
BY LogInvParts DEF Sound, PartyInv, LogKept

LEMMA LaterStill ==
    ASSUME NEW p \in Owner, NEW s, Sound(p, s), NEW l, CounterTypes(l), Later(s.log, l)
    PROVE  Later(log[p], l)
BY SoundLog, LaterTransitive DEF Sound

(* A statement of a handler that only applies a quiet method to the log. *)
LEMMA WithLogSound ==
    ASSUME NEW p \in Owner, NEW s, Sound(p, s), NEW l, Quiet(p, s.log, l),
           NEW t, t = [s EXCEPT !.log = l]
    PROVE  Sound(p, t)
<1>1. /\ CounterTypes(s.log) /\ CounterTypes(l) /\ Later(s.log, l)
      /\ StoredLogInv(s.log) /\ StoredLogInv(l) /\ LogInv(s.log) /\ LogInv(l)
  BY SoundLog, LogInvParts DEF Quiet, SameIrrevocable
<1>2. Later(log[p], l)
  BY <1>1, LaterStill
<1>3. /\ t = [f \in StepField |-> t[f]] /\ t.log = l /\ t.disk = s.disk
      /\ t.out = s.out /\ t.reports = s.reports
  BY DEF Sound, StepField
<1>4. PartyInv(p, l, s.disk, signed[Other(p)] \cup Signatures(s.out),
               reported[p] \cup s.reports, used)
  BY QuietKeeps DEF Sound
<1>5. /\ Truthful(p, l, s.out)
      /\ used.restores = 0 => Linked(p, l)
  <2>1. l.ctn = s.log.ctn /\ l.revack_pending = s.log.revack_pending
    BY <1>1, SameCtn DEF Quiet
  <2>2. CtnLatest(s.log, Other(p)) <= CtnLatest(l, Other(p))
    <3>1. CtnLatest(l, Other(p)) = CtnLatest(s.log, Other(p)) /\ CtnLatest(l, Other(p)) \in Nat
      BY <1>1, <2>1, OtherOwner, CtnsOf, CtnType
    <3> QED
      BY <3>1
  <2> QED
    BY <1>1, <2>1, <2>2, LinkedStill DEF Sound, Truthful, Quiet
<1> QED
  BY <1>2, <1>3, <1>4, <1>5 DEF Sound

LEMMA SendSound ==
    ASSUME NEW p \in Owner, NEW s, Sound(p, s),
           NEW msg, msg.type \notin {"commitment_signed", "revoke_and_ack", "channel_reestablish"},
           NEW t, t = Send(s, msg)
    PROVE  Sound(p, t)
<1>1. /\ t = [f \in StepField |-> t[f]] /\ t.log = s.log /\ t.disk = s.disk
      /\ t.out = Append(s.out, msg) /\ t.reports = s.reports
  BY DEF Sound, StepField, Send
<1>2. IsSequence(s.out)
  BY DEF Sound
<1>3. /\ Signatures(t.out) = Signatures(s.out)
      /\ Sent(t.out, "revoke_and_ack") = Sent(s.out, "revoke_and_ack")
      /\ Sent(t.out, "channel_reestablish") = Sent(s.out, "channel_reestablish")
      /\ IsSequence(t.out)
  <2>1. AfterSending(s.out, msg, t.out)
    BY <1>1, <1>2, SentAppended
  <2> QED
    BY <2>1 DEF AfterSending
<1> QED
  BY <1>1, <1>3 DEF Sound, Truthful

LEMMA SaveSound ==
    ASSUME NEW p \in Owner, NEW s, Sound(p, s), NEW t, t = Save(s)
    PROVE  Sound(p, t)
<1>1. /\ t = [f \in StepField |-> t[f]] /\ t.log = s.log /\ t.disk = Stored(s.log)
      /\ t.out = s.out /\ t.reports = s.reports
  BY DEF Sound, StepField, Save
<1> DEFINE S == signed[Other(p)] \cup Signatures(s.out)
           R == reported[p] \cup s.reports
<1>2. LogKept(p, s.log, S, R, used)
  BY DEF Sound, PartyInv
<1> HIDE DEF S, R
<1>3. PartyInv(p, s.log, Stored(s.log), S, R, used)
  BY <1>2, StoredKept DEF PartyInv
<1> QED
  BY <1>1, <1>3 DEF Sound, S, R

LEMMA SendUpdateSound ==
    ASSUME NEW p \in Owner, NEW s, Sound(p, s),
           NEW msg, msg.type \in KeptType \ {"commitment_signed"},
           NEW t, t = SendUpdate(s, p, msg)
    PROVE  Sound(p, t)
<1> DEFINE l == StoreRawMsg(s.log, p, msg, FALSE)
           x == [s EXCEPT !.log = l]
           S == signed[Other(p)] \cup Signatures(s.out)
           R == reported[p] \cup s.reports
<1>1. LogInv(s.log) /\ CounterTypes(s.log)
  BY SoundLog
<1>2. LogInv(l) /\ SameIrrevocable(s.log, l)
  BY <1>1, StoreRawMsgInv, RecordOnlyIsLater
<1>3. PartyInv(p, s.log, s.disk, S, R, used)
  BY DEF Sound
<1>4. PartyInv(p, l, s.disk, S, R, used)
  <2> HIDE DEF S, R
  <2> QED
    BY <1>3, StoreUpdateKeeps
<1>5. Later(log[p], l) /\ CounterTypes(l)
  <2>1. CounterTypes(l) /\ Later(s.log, l)
    BY <1>2, LogInvParts DEF SameIrrevocable
  <2> HIDE DEF l
  <2> QED
    BY <2>1, LaterStill
<1>6. t = Send(x, msg)
  BY DEF SendUpdate
<1>7. /\ x = [f \in StepField |-> x[f]] /\ x.log = l /\ x.disk = s.disk
      /\ x.out = s.out /\ x.reports = s.reports
  BY DEF Sound, StepField
<1>8. l.ctn = s.log.ctn /\ l.revack_pending = s.log.revack_pending
  <2>1. LogFrame(s.log)
    BY <1>1, LogInvParts
  <2> QED
    BY <2>1 DEF StoreRawMsg, LogFrame, LogField
<1> HIDE DEF l
<1>9. /\ Truthful(p, l, s.out)
      /\ used.restores = 0 => Linked(p, l)
  <2>1. CtnLatest(s.log, Other(p)) <= CtnLatest(l, Other(p))
    <3>1. CtnLatest(l, Other(p)) = CtnLatest(s.log, Other(p)) /\ CtnLatest(l, Other(p)) \in Nat
      BY <1>1, <1>5, <1>8, OtherOwner, CtnsOf, CtnType
    <3> QED
      BY <3>1
  <2>2. StoredLogInv(s.log) /\ StoredLogInv(l)
    BY <1>1, <1>2, LogInvParts
  <2> QED
    BY <1>1, <1>2, <1>5, <1>8, <2>1, <2>2, LinkedStill DEF Sound, Truthful
<1>10. Sound(p, x)
  <2> HIDE DEF x
  <2> QED
    BY <1>4, <1>5, <1>7, <1>9 DEF Sound, S, R
<1>11. msg.type \notin {"commitment_signed", "revoke_and_ack", "channel_reestablish"}
  BY DEF KeptType
<1> HIDE DEF x
<1> QED
  BY <1>6, <1>10, <1>11, SendSound

LEMMA SignCommitmentSound ==
    ASSUME NEW p \in Owner, NEW s, Sound(p, s), CanSign(p, s.log),
           NEW t, t = SignCommitment(p, s)
    PROVE  Sound(p, t)
<1> DEFINE q   == Other(p)
           ctx == MakeCommitment(s.log, p, q, CtnNext(s.log, q))
           msg == CommitMsg(ctx)
           x   == SendCtx(s.log, p)
           l   == StoreRawMsg(x, p, msg, TRUE)
           S   == signed[Other(p)] \cup Signatures(s.out)
           R   == reported[p] \cup s.reports
<1>1. LogInv(s.log) /\ LogInv(x) /\ LogInv(l) /\ CounterTypes(s.log) /\ CounterTypes(l)
  BY SoundLog, SendCtxInv, StoreRawMsgInv, LogInvParts
<1>2. /\ msg.type = "commitment_signed" /\ msg.ctx = ctx
      /\ ctx.ctn = CtnNext(s.log, q) /\ ctx.htlcs = Htlcs(s.log, q, CtnNext(s.log, q))
  BY DEF CommitMsg, MakeCommitment
<1>3. PartyInv(p, s.log, s.disk, S, R, used) /\ ~ s.log.revack_pending[q]
  BY DEF Sound, CanSign
<1>4. t = Send(Save([s EXCEPT !.log = l]), msg)
  BY DEF SignCommitment
<1>5. /\ t = [f \in StepField |-> t[f]] /\ t.log = l /\ t.disk = Stored(l)
      /\ t.out = Append(s.out, msg) /\ t.reports = s.reports
  <2> HIDE DEF l, msg
  <2> QED
    BY <1>4 DEF Sound, StepField, Send, Save
<1> HIDE DEF ctx, msg
<1>6. PartyInv(p, l, Stored(l), S \cup {ctx}, R, used) /\ SameIrrevocable(s.log, l)
  <2> HIDE DEF S, R
  <2> QED
    BY <1>2, <1>3, SigningKeeps
<1>7. l.ctn = s.log.ctn /\ l.revack_pending = [s.log.revack_pending EXCEPT ![q] = TRUE]
  <2>1. x.ctn = s.log.ctn /\ x.revack_pending = [s.log.revack_pending EXCEPT ![q] = TRUE]
    <3>1. LogFrame(s.log)
      BY <1>1, LogInvParts
    <3> QED
      BY <3>1 DEF SendCtx, LogFrame, LogField
  <2>2. l.ctn = x.ctn /\ l.revack_pending = x.revack_pending
    <3>1. LogFrame(x)
      BY <1>1, LogInvParts
    <3> HIDE DEF x
    <3> QED
      BY <3>1 DEF StoreRawMsg, LogFrame, LogField
  <2> QED
    BY <2>1, <2>2
<1> HIDE DEF l
<1>8. Later(log[p], l)
  BY <1>1, <1>6, LaterStill DEF SameIrrevocable
<1>9. IsSequence(s.out)
  BY DEF Sound
<1>10. /\ Signatures(t.out) = Signatures(s.out) \cup {ctx}
       /\ Sent(t.out, "revoke_and_ack") = Sent(s.out, "revoke_and_ack")
       /\ Sent(t.out, "channel_reestablish") = Sent(s.out, "channel_reestablish")
       /\ IsSequence(t.out)
  <2>1. AfterSending(s.out, msg, t.out)
    BY <1>5, <1>9, SentAppended
  <2> QED
    BY <1>2, <2>1 DEF AfterSending
<1>12. signed[Other(p)] \cup Signatures(t.out) = S \cup {ctx}
  BY <1>10
<1>13. /\ Truthful(p, l, t.out)
       /\ used.restores = 0 => Linked(p, l)
  <2>1. q \in Owner /\ q # p
    BY OtherOwner
  <2>2. l.revack_pending[p] = s.log.revack_pending[p] /\ l.revack_pending[q] = TRUE
    BY <1>1, <1>7, <2>1 DEF CounterTypes
  <2>3. CtnLatest(s.log, q) <= CtnLatest(l, q)
    BY <1>1, <1>3, <1>7, <2>1, <2>2 DEF CtnLatest, CounterTypes
  <2>4. used.restores = 0 => Linked(p, l)
    <3>1. StoredLogInv(s.log) /\ StoredLogInv(l)
      BY <1>1, LogInvParts
    <3> QED
      BY <1>1, <1>6, <1>7, <2>2, <2>3, <3>1, LinkedStill DEF Sound
  <2>5. used.restores = 0 => log[q].ctn[q] < ctx.ctn
    <3>1. used.restores = 0 => CtnLatest(log[q], q) <= CtnLatest(s.log, q)
      BY DEF Sound, Linked, Between
    <3>2. /\ CtnLatest(s.log, q) \in Nat /\ CtnNext(s.log, q) = CtnLatest(s.log, q) + 1
          /\ CtnLatest(log[q], q) \in Nat /\ log[q].ctn[q] \in Nat
          /\ log[q].ctn[q] <= CtnLatest(log[q], q)
      BY <1>1, <2>1, CtnType DEF Sound
    <3> HIDE DEF q
    <3> QED
      BY <1>2, <3>1, <3>2
  <2>6. \A c \in Signatures(t.out) : c \in Signatures(s.out) \/ c = ctx
    BY <1>10
  <2>7. Truthful(p, l, t.out)
    BY <1>7, <1>10, <2>5, <2>6 DEF Sound, Truthful
  <2> QED
    BY <2>4, <2>7
<1> HIDE DEF S
<1> QED
  BY <1>5, <1>6, <1>8, <1>10, <1>12, <1>13 DEF Sound

(* A signature received, and answered by a revocation. *)
LEMMA RevokeAndAckSound ==
    ASSUME NEW p \in Owner, NEW s, Sound(p, s),
           used.restores = 0 => /\ ~ s.log.revack_pending[p]
                                /\ CtnNext(s.log, p) <= CtnLatest(log[Other(p)], p)
                                /\ Sent(net[Other(p)], "channel_reestablish") = {}
                                /\ OneEach(signed[p]) /\ \A d \in signed[p] : d.ctn \in Nat
                                /\ MakeCommitment(s.log, p, p, CtnNext(s.log, p)) \in signed[p],
           NEW t, t = RevokeAndAck(p, [s EXCEPT !.log = RecvCtx(s.log, p)])
    PROVE  Sound(p, t)
<1> DEFINE q   == Other(p)
           x   == RecvCtx(s.log, p)
           l   == SendRev(x, p)
           msg == RevokeMsg(x.ctn[p])
           y   == [s EXCEPT !.log = x]
           S   == signed[Other(p)] \cup Signatures(s.out)
           R   == reported[p] \cup s.reports
<1>1. LogInv(s.log) /\ LogInv(x) /\ LogInv(l) /\ CounterTypes(s.log)
  BY SoundLog, RecvCtxInv, SendRevInv
<1>2. LogKept(p, s.log, S, R, used)
  BY DEF Sound, PartyInv
<1>3. LogKept(p, l, S, R, used) /\ Later(s.log, x) /\ Later(x, l)
  <2> HIDE DEF S, R
  <2>1. LogKept(p, x, S, R, used) /\ Later(s.log, x)
    BY <1>2, RecvCtxKeeps
  <2> HIDE DEF x
  <2>2. LogKept(p, l, S, R, used) /\ Later(x, l)
    BY <2>1, SendRevKeeps
  <2> QED
    BY <2>1, <2>2
<1>4. /\ x.ctn = s.log.ctn /\ x.revack_pending = [s.log.revack_pending EXCEPT ![p] = TRUE]
      /\ x.locked_in = s.log.locked_in
  <2>1. LogFrame(s.log)
    BY <1>1, LogInvParts
  <2> QED
    BY <2>1 DEF RecvCtx, LogFrame, LogField
<1> HIDE DEF x
<1>5. /\ l.ctn = [s.log.ctn EXCEPT ![p] = s.log.ctn[p] + 1]
      /\ l.revack_pending = [s.log.revack_pending EXCEPT ![p] = FALSE]
  <2>1. /\ l.ctn = [x.ctn EXCEPT ![p] = x.ctn[p] + 1]
        /\ l.revack_pending = [x.revack_pending EXCEPT ![p] = FALSE]
    BY <1>1, SendRevEffect
  <2> HIDE DEF l
  <2> QED
    BY <1>1, <1>4, <2>1 DEF CounterTypes
<1>ack. Acknowledged(x, l, p)
  BY <1>1, SendRevEffect
<1> HIDE DEF l
<1>6. Later(log[p], l) /\ Later(s.log, l) /\ CounterTypes(l)
  <2>1. CounterTypes(x) /\ CounterTypes(l) /\ LogShape(s.log)
    BY <1>1, LogInvParts DEF LogInv, StoredLogInv
  <2>2. Later(s.log, l)
    BY <1>3, <2>1, LaterTransitive
  <2> QED
    BY <2>1, <2>2, LaterStill
<1>7. PartyInv(p, l, Stored(l), S, R, used)
  <2> HIDE DEF S, R
  <2> QED
    BY <1>3, StoredKept DEF PartyInv
<1>8. y.log = x
  BY DEF Sound, StepField
<1>9. /\ t = [f \in StepField |-> t[f]] /\ t.log = l /\ t.disk = Stored(l)
      /\ t.out = Append(s.out, msg) /\ t.reports = s.reports
  <2>1. t = Send(Save([y EXCEPT !.log = SendRev(y.log, p)]), RevokeMsg(y.log.ctn[p]))
    BY DEF RevokeAndAck, x
  <2>2. t = Send(Save([y EXCEPT !.log = l]), msg)
    BY <1>8, <2>1 DEF l
  <2> HIDE DEF msg
  <2> QED
    BY <2>2 DEF Sound, StepField, Send, Save
<1>10. msg.type = "revoke_and_ack" /\ msg.revoked = s.log.ctn[p]
  BY <1>4 DEF RevokeMsg
<1> HIDE DEF msg
<1>11. IsSequence(s.out)
  BY DEF Sound
<1>12. /\ Signatures(t.out) = Signatures(s.out)
       /\ Sent(t.out, "channel_reestablish") = Sent(s.out, "channel_reestablish")
       /\ Sent(t.out, "revoke_and_ack") \subseteq Sent(s.out, "revoke_and_ack") \cup {msg}
       /\ IsSequence(t.out)
  <2>1. AfterSending(s.out, msg, t.out)
    BY <1>9, <1>11, SentAppended
  <2> QED
    BY <1>10, <2>1 DEF AfterSending
<1>14. used.restores = 0 => Linked(p, l)
  <2> SUFFICES ASSUME used.restores = 0
               PROVE  Linked(p, l)
    OBVIOUS
  <2>1. q \in Owner /\ q # p
    BY OtherOwner
  <2>2. /\ l.ctn[q] = s.log.ctn[q] /\ l.revack_pending[q] = s.log.revack_pending[q]
        /\ l.ctn[p] = s.log.ctn[p] + 1 /\ l.revack_pending[p] = FALSE
        /\ s.log.ctn[p] \in Nat
    BY <1>1, <1>5, <2>1 DEF CounterTypes
  <2>3. Between(l, log[q], q)
    <3>1. CtnLatest(l, q) = CtnLatest(s.log, q)
      BY <2>2 DEF CtnLatest
    <3> QED
      BY <2>2, <3>1 DEF Sound, Linked, Between
  <2>4. Between(log[q], l, p)
    <3>1. CtnLatest(l, p) = CtnNext(s.log, p) /\ CtnLatest(l, p) = s.log.ctn[p] + 1
      BY <2>2 DEF CtnLatest, CtnNext
    <3>2. log[q].ctn[p] \in Nat /\ log[q].ctn[p] <= s.log.ctn[p]
      BY DEF Sound, Linked, Between, CounterTypes
    <3> QED
      BY <2>2, <3>1, <3>2 DEF Between
  <2>5. StoredLogInv(s.log) /\ Agreed(p, s.log, log[q], signed[p])
    BY <1>1, LogInvParts DEF Sound, Linked
  <2>6. \A o \in Owner : \A id : Committed(s.log, o, id) => Committed(l, o, id)
    BY <1>6, <2>5, CommittedStill
  <2>7. Credited(l, log[q], q)
    <3>1. ASSUME NEW id, Committed(l, q, id)
          PROVE  Committed(s.log, q, id)
      <4>1. Steady(x, l, q)
        BY <1>1, <1>ack, <2>1, RevocationSteady
      <4>2. /\ l.ctn[q] = x.ctn[q] /\ x.ctn[q] = s.log.ctn[q]
            /\ x.ctn[q] \in Nat /\ CtnLatest(x, q) \in Nat /\ x.ctn[q] <= CtnLatest(x, q)
        BY <1>1, <1>4, <2>1, <2>2, LogInvParts, CtnType
      <4>3. UpdateTypes(l)
        BY <1>1, LogInvParts
      <4>4. /\ id \in DOMAIN l.locked_in[q] /\ Reached(l.locked_in[q][id][q], l.ctn[q])
            /\ l.locked_in[q][id][q] \in Nat \cup {None}
        BY <2>1, <3>1, <4>3 DEF Committed, UpdateTypes, Ctns
      <4> HIDE DEF q
      <4>5. Reached(l.locked_in[q][id][q], CtnLatest(x, q))
        BY <4>2, <4>4 DEF Reached
      <4>6. id \in DOMAIN x.locked_in[q] /\ l.locked_in[q][id][q] = x.locked_in[q][id][q]
        BY <4>1, <4>4, <4>5 DEF Steady
      <4> QED
        BY <1>4, <4>2, <4>4, <4>6 DEF Committed
    <3>2. \A id : Committed(s.log, q, id) => Committed(log[q], q, id)
      BY <2>5 DEF Agreed, Credited, Committed
    <3> QED
      BY <3>1, <3>2 DEF Credited
  <2>8. Credited(log[q], l, p)
    BY <2>5, <2>6 DEF Agreed, Credited
  <2>9. Accepted(l, p, signed[p])
    <3> DEFINE next == CtnNext(s.log, p)
               ctx  == MakeCommitment(s.log, p, p, next)
    <3>1. ctx \in signed[p] /\ OneEach(signed[p]) /\ next = l.ctn[p]
      BY <2>2 DEF CtnNext, CtnLatest
    <3>2. ctx.ctn = next /\ ctx.htlcs = Htlcs(s.log, p, next)
      BY DEF MakeCommitment
    <3>3. ASSUME NEW h \in Htlcs(s.log, p, next), h[1] = p
          PROVE  Committed(l, p, h[2])
      <4>1. PICK o \in Owner : \E id \in HtlcsByProposer(s.log, p, next, o) : h = <<o, id>>
        BY DEF Htlcs
      <4>2. h[2] \in HtlcsByProposer(s.log, p, next, p)
        BY <3>3, <4>1
      <4>3. /\ h[2] \in ConsideredIds(s.log, p, next, p)
            /\ Reached(s.log.locked_in[p][h[2]][p], next)
        BY <4>2 DEF HtlcsByProposer, IsActiveAt
      <4>4. h[2] \in DOMAIN s.log.locked_in[p]
        BY <1>1, <4>3, LogInvParts DEF ConsideredIds, CacheIsSound
      <4>5. l.locked_in[p] = s.log.locked_in[p]
        BY <1>4, <1>ack DEF Acknowledged
      <4> QED
        BY <3>1, <4>3, <4>4, <4>5 DEF Committed
    <3> HIDE DEF ctx, next
    <3>4. Accepted(s.log, p, signed[p])
      BY <2>5 DEF Agreed
    <3>5. \A d \in signed[p] : d.ctn = next => d = ctx
      BY <3>1, <3>2 DEF OneEach
    <3>6. \A d \in signed[p] : d.ctn \in Nat
      OBVIOUS
    <3>7. ASSUME NEW d \in signed[p], d.ctn <= l.ctn[p], NEW h \in d.htlcs, h[1] = p
          PROVE  Committed(l, p, h[2])
      <4>1. CASE d.ctn <= s.log.ctn[p]
        BY <2>6, <3>4, <3>7, <4>1 DEF Accepted
      <4>2. CASE d.ctn = next
        BY <3>2, <3>3, <3>5, <3>7, <4>2
      <4> QED
        BY <2>2, <3>1, <3>6, <3>7, <4>1, <4>2
    <3>8. \A n \in 1 .. l.ctn[p] : \E d \in signed[p] : d.ctn = n
      <4>1. \A n \in 1 .. l.ctn[p] : n \in 1 .. s.log.ctn[p] \/ n = next
        BY <2>2, <3>1
      <4> QED
        BY <3>1, <3>2, <3>4, <4>1 DEF Accepted
    <3> QED
      BY <3>7, <3>8 DEF Accepted
  <2>10. Agreed(p, l, log[q], signed[p])
    BY <2>7, <2>8, <2>9 DEF Agreed
  <2> QED
    BY <2>3, <2>4, <2>10 DEF Sound, Linked
<1>15. Truthful(p, l, t.out)
  <2>1. l.ctn[q] = s.log.ctn[q] /\ l.ctn[p] = s.log.ctn[p] + 1 /\ s.log.ctn[p] \in Nat
    BY <1>1, <1>5, OtherOwner DEF CounterTypes
  <2>2. \A m \in Sent(s.out, "revoke_and_ack") : Revoked(m, s.log.ctn[p])
    BY DEF Sound, Truthful
  <2>3. Revoked(msg, l.ctn[p])
    BY <1>10, <2>1 DEF Revoked
  <2>4. \A m : Revoked(m, s.log.ctn[p]) => Revoked(m, l.ctn[p])
    BY <2>1 DEF Revoked
  <2> QED
    BY <1>12, <2>1, <2>2, <2>3, <2>4 DEF Sound, Truthful
<1> QED
  BY <1>6, <1>7, <1>9, <1>12, <1>14, <1>15 DEF Sound

(* A revocation received, and the removals that it makes final reported. *)
LEMMA ReceiveRevocationSound ==
    ASSUME NEW p \in Owner, NEW s, Sound(p, s), s.reports = {},
           s.log.ctn[Other(p)] < log[Other(p)].ctn[Other(p)],
           used.restores = 0 =>
             /\ Sent(net[Other(p)], "channel_reestablish") = {}
             /\ Accepted(log[Other(p)], Other(p), signed[Other(p)]),
           NEW t, t = ReceiveRevocation(p, s)
    PROVE  Sound(p, t)
<1> DEFINE q == Other(p)
           l == RecvRev(s.log, p)
           n == CtnLatest(s.log, q)
           S == signed[Other(p)] \cup Signatures(s.out)
           R == reported[p]
           told == RemovalReports(p, l, n)
<1>1. LogInv(s.log) /\ CounterTypes(s.log) /\ LogInv(l) /\ CounterTypes(l) /\ q \in Owner /\ q # p
  BY SoundLog, RecvRevInv, LogInvParts, OtherOwner
<1>2. reported[p] \cup s.reports = reported[p]
  OBVIOUS
<1>3. LogKept(p, s.log, S, R, used)
  BY <1>2 DEF Sound, PartyInv
<1>4. /\ l.ctn = [s.log.ctn EXCEPT ![q] = s.log.ctn[q] + 1]
      /\ l.revack_pending = [s.log.revack_pending EXCEPT ![q] = FALSE]
      /\ Acknowledged(s.log, l, q)
  BY <1>1, RecvRevEffect
<1>5. /\ Later(s.log, l)
      /\ LogKept(p, l, S, R \cup RemovalReports(p, l, CtnLatest(l, q)), used)
  <2> HIDE DEF S, R
  <2> QED
    BY <1>3, RecvRevKeeps
<1> HIDE DEF l
<1>6. /\ l.ctn[q] = s.log.ctn[q] + 1 /\ l.revack_pending[q] = FALSE
      /\ l.ctn[p] = s.log.ctn[p] /\ l.revack_pending[p] = s.log.revack_pending[p]
      /\ CtnLatest(l, q) = s.log.ctn[q] + 1
      /\ CtnLatest(l, p) = CtnLatest(s.log, p)
  <2>1. /\ l.ctn[q] = s.log.ctn[q] + 1 /\ l.revack_pending[q] = FALSE
        /\ l.ctn[p] = s.log.ctn[p] /\ l.revack_pending[p] = s.log.revack_pending[p]
        /\ s.log.ctn[q] \in Nat
    BY <1>1, <1>4 DEF CounterTypes
  <2> QED
    BY <2>1 DEF CtnLatest
<1>7. used.restores = 0 => CtnLatest(l, q) = n /\ log[q].ctn[q] = n
  <2> SUFFICES ASSUME used.restores = 0
               PROVE  CtnLatest(l, q) = n /\ log[q].ctn[q] = n
    OBVIOUS
  <2>1. /\ log[q].ctn[q] \in Nat /\ CtnLatest(log[q], q) \in {log[q].ctn[q], log[q].ctn[q] + 1}
        /\ s.log.ctn[q] \in Nat /\ n \in {s.log.ctn[q], s.log.ctn[q] + 1}
    BY <1>1, CtnType DEF Sound
  <2>2. CtnLatest(log[q], q) <= n /\ s.log.ctn[q] < log[q].ctn[q]
    BY DEF Sound, Linked, Between
  <2> HIDE DEF n
  <2> QED
    BY <1>6, <2>1, <2>2
<1>8. LogKept(p, l, S, R \cup told, used)
  <2>1. CASE used.restores = 0
    BY <1>5, <1>7, <2>1
  <2>2. CASE used.restores # 0
    BY <1>5, <2>2 DEF LogKept
  <2> QED
    BY <2>1, <2>2
<1>9. /\ t = [f \in StepField |-> t[f]] /\ t.log = l /\ t.disk = Stored(l)
      /\ t.out = s.out /\ t.reports = told
  <2>1. t = Save([s EXCEPT !.log = l, !.reports = told])
    BY DEF ReceiveRevocation, l
  <2> HIDE DEF told, n
  <2> QED
    BY <2>1 DEF Sound, StepField, Save
<1> HIDE DEF told, n
<1>10. Later(log[p], l)
  BY <1>1, <1>5, LaterStill
<1>11. PartyInv(p, l, Stored(l), S, R \cup told, used)
  <2> HIDE DEF S, R
  <2> QED
    BY <1>8, StoredKept DEF PartyInv
<1>12. used.restores = 0 => Linked(p, l)
  <2> SUFFICES ASSUME used.restores = 0
               PROVE  Linked(p, l)
    OBVIOUS
  <2>1. Between(l, log[q], q)
    <3>1. /\ log[q].ctn[q] = n /\ CtnLatest(l, q) = n /\ l.ctn[q] = n
          /\ CtnLatest(log[q], q) <= n /\ n \in Nat
      BY <1>1, <1>6, <1>7, CtnType DEF Sound, Linked, Between, n
    <3> QED
      BY <3>1 DEF Between
  <2>2. Between(log[q], l, p)
    BY <1>6 DEF Sound, Linked, Between
  <2>3. StoredLogInv(s.log) /\ Agreed(p, s.log, log[q], signed[p])
    BY <1>1, LogInvParts DEF Sound, Linked
  <2>4. \A o \in Owner : \A id : Committed(s.log, o, id) => Committed(l, o, id)
    BY <1>1, <1>5, <2>3, CommittedStill
  <2>5. Credited(l, log[q], q)
    <3> SUFFICES ASSUME NEW id, Committed(l, q, id)
                 PROVE  Committed(log[q], q, id)
      BY DEF Credited
    <3>1. /\ l.ctn[q] = n /\ log[q].ctn[q] = n /\ n = s.log.ctn[q] + 1
          /\ s.log.ctn[q] \in Nat /\ n \in 1 .. n
      <4>1. s.log.ctn[q] \in Nat
        BY <1>1 DEF CounterTypes
      <4> HIDE DEF n, q
      <4> QED
        BY <1>6, <1>7, <4>1
    <3>2. /\ id \in DOMAIN s.log.locked_in[q] /\ Reached(s.log.locked_in[q][id][q], n)
          /\ s.log.locked_in[q][id][q] \in Nat \cup {None}
      BY <1>1, <1>4, <3>1, LogInvParts DEF Committed, Acknowledged, UpdateTypes, Ctns
    <3> HIDE DEF n, q
    <3>3. CASE s.log.locked_in[q][id][q] = n
      <4>1. Accepted(log[q], q, signed[q])
        BY DEF q
      <4>2. PICK d \in signed[q] : d.ctn = n
        BY <3>1, <4>1 DEF Accepted
      <4>3. Covered(s.log, q, S)
        BY <1>3 DEF LogKept, q
      <4>4. <<q, id>> \in d.htlcs
        BY <3>2, <3>3, <4>2, <4>3 DEF Covered, q
      <4> QED
        BY <3>1, <4>1, <4>2, <4>4 DEF Accepted
    <3>4. CASE s.log.locked_in[q][id][q] # n
      <4>1. Committed(s.log, q, id)
        BY <3>1, <3>2, <3>4 DEF Committed, Reached
      <4> QED
        BY <2>3, <4>1 DEF Agreed, Credited, Committed, q
    <3> QED
      BY <3>3, <3>4
  <2>6. Credited(log[q], l, p)
    BY <2>3, <2>4 DEF Agreed, Credited
  <2>7. Accepted(l, p, signed[p])
    BY <1>6, <2>3, <2>4 DEF Agreed, Accepted
  <2>8. Agreed(p, l, log[q], signed[p])
    BY <2>5, <2>6, <2>7 DEF Agreed
  <2> QED
    BY <2>1, <2>2, <2>8 DEF Linked
<1>13. Truthful(p, l, s.out)
  <2>1. s.log.ctn[q] \in Nat /\ log[q].ctn[q] \in Nat
    BY <1>1 DEF Sound, CounterTypes
  <2>2. l.ctn[q] <= log[q].ctn[q]
    BY <1>6, <2>1
  <2> QED
    BY <1>6, <2>2 DEF Sound, Truthful
<1> QED
  BY <1>9, <1>10, <1>11, <1>12, <1>13 DEF Sound

LEMMA MaybeSendCommitmentSound ==
    ASSUME NEW p \in Owner, NEW S, \A s \in S : Sound(p, s),
           NEW t \in MaybeSendCommitment(p, S)
    PROVE  Sound(p, t)
BY SignCommitmentSound DEF MaybeSendCommitment

LEMMA MaybeUpdateFeeSound ==
    ASSUME NEW p \in Owner, NEW S, \A s \in S : Sound(p, s),
           NEW t \in MaybeUpdateFee(p, S)
    PROVE  Sound(p, t)
<1> DEFINE Changed(s, rate) ==
             SendUpdate([s EXCEPT !.log = UpdateFee(@, p, rate)], p, FeeMsg(rate))
<1>1. ASSUME NEW s \in S, NEW rate
      PROVE  Sound(p, Changed(s, rate))
  <2> DEFINE x == [s EXCEPT !.log = UpdateFee(s.log, p, rate)]
  <2>1. Quiet(p, s.log, UpdateFee(s.log, p, rate))
    BY <1>1, UpdateFeeQuiet, SoundLog
  <2>2. Sound(p, x)
    BY <1>1, <2>1, WithLogSound
  <2>3. FeeMsg(rate).type \in KeptType \ {"commitment_signed"}
    BY DEF FeeMsg, KeptType
  <2>4. Changed(s, rate) = SendUpdate(x, p, FeeMsg(rate))
    OBVIOUS
  <2> HIDE DEF x, Changed
  <2> QED
    BY <2>2, <2>3, <2>4, SendUpdateSound
<1>2. t \in S \/ \E s \in S : \E rates :
        t \in MaybeSendCommitment(p, {Changed(s, rate) : rate \in rates})
  BY DEF MaybeUpdateFee
<1> HIDE DEF Changed
<1>3. CASE t \in S
  BY <1>3
<1>4. CASE \E s \in S : \E rates :
             t \in MaybeSendCommitment(p, {Changed(s, rate) : rate \in rates})
  <2> PICK s \in S : \E rates :
             t \in MaybeSendCommitment(p, {Changed(s, rate) : rate \in rates})
    BY <1>4
  <2> PICK rates :
             t \in MaybeSendCommitment(p, {Changed(s, rate) : rate \in rates})
    OBVIOUS
  <2>1. \A u \in {Changed(s, rate) : rate \in rates} : Sound(p, u)
    BY <1>1
  <2> QED
    BY <2>1, MaybeSendCommitmentSound
<1> QED
  BY <1>2, <1>3, <1>4

(* What is replayed are messages that were kept. *)
KeptIn(l) == UNION {Range(l.unacked_updates[c]) : c \in DOMAIN l.unacked_updates}

LEMMA ReplayKept ==
    ASSUME NEW q \in Owner, NEW l, CounterTypes(l), MessagesKept(l, q), NEW next
    PROVE  Replay(l, next) \in Seq(KeptIn(l))
<1> DEFINE M == KeptIn(l)
           KeptFor(c) == IF c \in DOMAIN l.unacked_updates /\ c >= next
                           THEN l.unacked_updates[c] ELSE << >>
           n == Max({0} \cup DOMAIN l.unacked_updates)
           seqs == [c \in 1 .. n |-> KeptFor(c)]
<1>1. ASSUME NEW c \in DOMAIN l.unacked_updates
      PROVE  l.unacked_updates[c] \in Seq(M)
  <2> DEFINE x == l.unacked_updates[c]
             R == Range(x)
  <2>1. x \in Seq(R) /\ R \subseteq M
    BY DEF MessagesKept, IsSequence, KeptIn
  <2> HIDE DEF x, R, M
  <2>2. x \in Seq(M)
    BY <2>1
  <2> QED
    BY <2>2 DEF x
<1>2. << >> \in Seq(M)
  <2> HIDE DEF M
  <2> QED
    OBVIOUS
<1>3. \A c : KeptFor(c) \in Seq(M)
  BY <1>1, <1>2
<1>4. n \in Nat
  <2> DEFINE D == {0} \cup DOMAIN l.unacked_updates
  <2>1. CtnNext(l, q) + 1 \in Nat /\ CtnNext(l, q) \in Nat
    BY CtnType
  <2>2. D \subseteq Nat /\ D # {} /\ \A x \in D : x < CtnNext(l, q) + 1
    BY <2>1 DEF MessagesKept
  <2> HIDE DEF D
  <2>3. Max(D) \in D
    BY <2>1, <2>2, MaxOfBounded
  <2> QED
    BY <2>2, <2>3 DEF D
<1>5. Replay(l, next) = FlattenSeq(seqs)
  BY DEF Replay
<1> HIDE DEF n, KeptFor, M
<1>6. seqs \in [1 .. n -> Seq(M)]
  BY <1>3
<1> HIDE DEF seqs
<1>7. FlattenSeq(seqs) \in Seq(M)
  BY <1>4, <1>6, FlattenSeqType
<1> QED
  BY <1>5, <1>7 DEF M

LEMMA EmptySent ==
    /\ IsSequence(<< >>) /\ Signatures(<< >>) = {}
    /\ \A type : Sent(<< >>, type) = {}
<1>1. IsSequence(<< >>)
  <2>1. << >> \in Seq({})
    OBVIOUS
  <2> QED
    BY <2>1, SequenceOf
<1> QED
  BY <1>1 DEF Signatures, Sent

(* What is sent again: messages that were kept, and a revocation made before. *)
LEMMA SentAgainKept ==
    ASSUME NEW p \in Owner, NEW l, CounterTypes(l), MessagesKept(l, Other(p)), NEW r,
           NEW out, out = SentAgain(l, p, r)
    PROVE  /\ IsSequence(out)
           /\ Sent(out, "channel_reestablish") = {}
           /\ \A m \in Sent(out, "revoke_and_ack") : Revoked(m, l.ctn[p])
           /\ \A S : SignedBy(l, Other(p), S) => Signatures(out) \subseteq S
<1> DEFINE q == Other(p)
           replay == Replay(l, r.nextLocal)
           revoke == RevokeMsg(l.ctn[p] - 1)
           revack == RevAck(l, p, r.resend)
<1>1. replay \in Seq(KeptIn(l))
  BY OtherOwner, ReplayKept
<1>2. IsSequence(replay) /\ \A i \in DOMAIN replay : replay[i] \in KeptIn(l)
  <2> HIDE DEF replay
  <2> QED
    BY <1>1, SequenceOf
<1>3. revack \in Seq({revoke})
  <2> HIDE DEF revoke
  <2>1. revack = <<revoke>> \/ revack = << >>
    BY DEF RevAck, revoke
  <2> HIDE DEF revack
  <2>2. <<revoke>> \in Seq({revoke}) /\ << >> \in Seq({revoke})
    OBVIOUS
  <2>3. CASE revack = <<revoke>>
    BY <2>2, <2>3, Zenon
  <2>4. CASE revack = << >>
    BY <2>2, <2>4, Zenon
  <2> QED
    BY <2>1, <2>3, <2>4
<1>4. IsSequence(revack) /\ \A i \in DOMAIN revack : revack[i] \in {revoke}
  <2> HIDE DEF revack, revoke
  <2> QED
    BY <1>3, SequenceOf
<1>5. out = replay \o revack \/ out = revack \o replay
  BY DEF SentAgain
<1> HIDE DEF replay, revack, revoke
<1>6. IsSequence(out)
  BY <1>2, <1>4, <1>5, ConcatSequence
<1>7. \A i \in DOMAIN out : \/ \E j \in DOMAIN replay : out[i] = replay[j]
                            \/ \E j \in DOMAIN revack : out[i] = revack[j]
  <2>1. IsSequence(replay)
    BY <1>2
  <2>2. IsSequence(revack)
    BY <1>4
  <2>3. CASE out = replay \o revack
    <3>1. \A i \in DOMAIN out : \/ i \in DOMAIN replay /\ out[i] = replay[i]
                                \/ \E j \in DOMAIN revack : out[i] = revack[j]
      BY <2>1, <2>2, <2>3, ConcatSequence
    <3> QED
      BY <3>1
  <2>4. CASE out = revack \o replay
    <3>1. \A i \in DOMAIN out : \/ i \in DOMAIN revack /\ out[i] = revack[i]
                                \/ \E j \in DOMAIN replay : out[i] = replay[j]
      BY <2>1, <2>2, <2>4, ConcatSequence
    <3> QED
      BY <3>1
  <2> QED
    BY <1>5, <2>3, <2>4
<1>8. \A i \in DOMAIN out : out[i] \in KeptIn(l) \/ out[i] = revoke
  BY <1>2, <1>4, <1>7
<1>9. ASSUME NEW m \in KeptIn(l)
      PROVE  /\ m.type \in KeptType
             /\ \A S : SignedBy(l, q, S) => (m.type = "commitment_signed" => m.ctx \in S)
  <2>1. PICK c \in DOMAIN l.unacked_updates : m \in Range(l.unacked_updates[c])
    BY <1>9 DEF KeptIn
  <2>2. PICK i \in DOMAIN l.unacked_updates[c] : m = l.unacked_updates[c][i]
    BY <2>1 DEF Range
  <2> QED
    BY <2>2 DEF MessagesKept, SignedBy
<1>10. /\ revoke.type = "revoke_and_ack" /\ Revoked(revoke, l.ctn[p])
  <2>1. l.ctn[p] \in Nat
    BY DEF CounterTypes
  <2> QED
    BY <2>1 DEF RevokeMsg, Revoked, revoke
<1>11. Sent(out, "channel_reestablish") = {}
  BY <1>8, <1>9, <1>10 DEF Sent, KeptType
<1>12. \A m \in Sent(out, "revoke_and_ack") : Revoked(m, l.ctn[p])
  BY <1>8, <1>9, <1>10 DEF Sent, KeptType
<1>13. \A S : SignedBy(l, q, S) => Signatures(out) \subseteq S
  BY <1>8, <1>9, <1>10 DEF Signatures
<1> QED
  BY <1>6, <1>11, <1>12, <1>13

-----------------------------------------------------------------------------
(*                     The invariant of the two parties                    *)

(* An old copy of a wallet file is a file like any other, but for what was    *)
(* signed since.                                                              *)
BackupKept(p, b) ==
    /\ StoredLogInv(b)
    /\ MessagesKept(b, Other(p))
    /\ used.midSaves = 0 => Replayable(b, Other(p))

(* What p has of the ctxs of q, and what is on its way to p. *)
LinkKept(p, q) ==
    /\ Between(log[p], log[q], q)
    /\ Credited(log[p], log[q], q) /\ Accepted(log[q], q, signed[q])
    /\ \A m \in Sent(net[p], "commitment_signed") : m.ctx \in signed[p]
    /\ \A m \in Sent(net[q], "channel_reestablish") : Announces(m, log[p], p)

UsedField == {"disconnects", "crashes", "midSaves", "restores"}

Frames ==
    /\ log = [x \in Owner |-> log[x]] /\ disk = [x \in Owner |-> disk[x]]
    /\ backup = [x \in Owner |-> backup[x]] /\ net = [x \in Owner |-> net[x]]
    /\ signed = [x \in Owner |-> signed[x]] /\ reported = [x \in Owner |-> reported[x]]
    /\ used \in [UsedField -> Nat]

PartiesKept ==
    \A p \in Owner : PartyInv(p, log[p], disk[p], signed[Other(p)], reported[p], used)

InboxesKept == \A p \in Owner : IsSequence(net[p])

BackupsKept == \A p \in Owner : backup[p] = None \/ BackupKept(p, backup[p])

LinksKept == used.restores = 0 => \A p \in Owner : LinkKept(p, Other(p))

RevocationsKept ==
    \A p \in Owner : \A m \in Sent(net[p], "revoke_and_ack") :
        Revoked(m, log[Other(p)].ctn[Other(p)])

IInv ==
    /\ Frames /\ PartiesKept /\ InboxesKept /\ BackupsKept /\ LinksKept
    /\ RevocationsKept

(* A later value of the log of a party. *)
Grows == \A x \in Owner : Later(log[x], log'[x])

MessageType == {"commitment_signed", "revoke_and_ack", "channel_reestablish"}

OneReest(x) ==
    \A i, j \in DOMAIN x :
        x[i].type = "channel_reestablish" /\ x[j].type = "channel_reestablish" => i = j

(* What may be left of the messages to p. *)
Inbox(p, inbox) ==
    /\ IsSequence(inbox)
    /\ \A type \in MessageType : Sent(inbox, type) \subseteq Sent(net[p], type)
    /\ OneReest(net[p]) => OneReest(inbox)

LEMMA SentConcat ==
    ASSUME NEW x, IsSequence(x), NEW y, IsSequence(y), NEW z, z = x \o y, NEW type
    PROVE  Sent(z, type) \subseteq Sent(x, type) \cup Sent(y, type)
<1>1. \A i \in DOMAIN z : \/ i \in DOMAIN x /\ z[i] = x[i]
                          \/ \E j \in DOMAIN y : z[i] = y[j]
  BY ConcatSequence
<1> QED
  BY <1>1 DEF Sent

LEMMA PartyLog ==
    ASSUME PartiesKept, NEW p \in Owner
    PROVE  /\ LogInv(log[p]) /\ LogShape(log[p]) /\ CounterTypes(log[p])
           /\ StoredLogInv(disk[p]) /\ CounterTypes(disk[p])
BY LogInvParts DEF PartiesKept, PartyInv, LogKept, FileKept, StoredLogInv, LogShape

(* What is enough to perform a step. *)
Performed(p, s) ==
    /\ IsSequence(s.out)
    /\ Later(log[p], s.log)
    /\ PartyInv(p, s.log, s.disk, signed[Other(p)] \cup Signatures(s.out),
                reported[p] \cup s.reports, used)
    /\ Truthful(p, s.log, s.out)
    /\ used.restores = 0 =>
         /\ Linked(p, s.log)
         /\ \A m \in Sent(s.out, "channel_reestablish") : Announces(m, s.log, p)

(* What performing it does. *)
Effect(p, s, inbox) ==
    /\ log' = [x \in Owner |-> log'[x]] /\ disk' = [x \in Owner |-> disk'[x]]
    /\ net' = [x \in Owner |-> net'[x]] /\ signed' = [x \in Owner |-> signed'[x]]
    /\ reported' = [x \in Owner |-> reported'[x]]
    /\ log'[p] = s.log /\ log'[Other(p)] = log[Other(p)]
    /\ disk'[p] = s.disk /\ disk'[Other(p)] = disk[Other(p)]
    /\ net'[p] = inbox /\ net'[Other(p)] = net[Other(p)] \o s.out
    /\ signed'[p] = signed[p]
    /\ signed'[Other(p)] = signed[Other(p)] \cup Signatures(s.out)
    /\ reported'[p] = reported[p] \cup s.reports
    /\ reported'[Other(p)] = reported[Other(p)]

LEMMA PerformEffect ==
    ASSUME Frames, NEW p \in Owner, NEW s, NEW inbox, Perform(p, s, inbox)
    PROVE  Effect(p, s, inbox)
<1>1. Other(p) \in Owner /\ Other(p) # p
  BY OtherOwner
<1>2. /\ log' = [log EXCEPT ![p] = s.log] /\ disk' = [disk EXCEPT ![p] = s.disk]
      /\ net' = [net EXCEPT ![p] = inbox, ![Other(p)] = net[Other(p)] \o s.out]
      /\ signed' = [signed EXCEPT ![Other(p)] = signed[Other(p)] \cup Signatures(s.out)]
      /\ reported' = [reported EXCEPT ![p] = reported[p] \cup s.reports]
  BY <1>1 DEF Perform, Signatures, Frames
<1> QED
  BY <1>1, <1>2 DEF Frames, Effect

LEMMA PerformKeeps ==
    ASSUME IInv, NEW p \in Owner, NEW s, Performed(p, s),
           NEW inbox, Inbox(p, inbox), Perform(p, s, inbox), UNCHANGED <<backup, used>>
    PROVE  IInv' /\ Grows
<1> DEFINE q == Other(p)
           new == net[q] \o s.out
<1>1. q \in Owner /\ q # p /\ Other(q) = p /\ \A x \in Owner : x = p \/ x = q
  BY OtherOwner
<1>2. /\ log' = [x \in Owner |-> log'[x]] /\ disk' = [x \in Owner |-> disk'[x]]
      /\ net' = [x \in Owner |-> net'[x]] /\ signed' = [x \in Owner |-> signed'[x]]
      /\ reported' = [x \in Owner |-> reported'[x]]
      /\ log'[p] = s.log /\ log'[q] = log[q]
      /\ disk'[p] = s.disk /\ disk'[q] = disk[q]
      /\ net'[p] = inbox /\ net'[q] = new
      /\ signed'[p] = signed[p] /\ signed'[q] = signed[q] \cup Signatures(s.out)
      /\ reported'[p] = reported[p] \cup s.reports /\ reported'[q] = reported[q]
  <2>1. Effect(p, s, inbox)
    BY PerformEffect DEF IInv
  <2> QED
    BY <2>1 DEF Effect
<1> HIDE DEF q
<1>3. Frames'
  BY <1>2 DEF IInv, Frames
<1>4. PartiesKept'
  <2>1. PartyInv(p, log'[p], disk'[p], signed'[q], reported'[p], used')
    BY <1>2 DEF Performed, q
  <2>2. PartyInv(q, log'[q], disk'[q], signed'[p], reported'[q], used')
    BY <1>1, <1>2 DEF IInv, PartiesKept
  <2> QED
    BY <1>1, <2>1, <2>2 DEF PartiesKept, q
<1>5. IsSequence(net[q]) /\ IsSequence(s.out)
  BY <1>1 DEF IInv, InboxesKept, Performed
<1>6. IsSequence(new)
  BY <1>5, ConcatSequence
<1>7. \A type : Sent(new, type) \subseteq Sent(net[q], type) \cup Sent(s.out, type)
  BY <1>5, SentConcat
<1> HIDE DEF new
<1>8. InboxesKept'
  BY <1>1, <1>2, <1>6 DEF InboxesKept, Inbox
<1>9. BackupsKept'
  BY DEF IInv, BackupsKept, BackupKept
<1>10. Grows
  <2>1. Later(log[q], log[q])
    BY <1>1, PartyLog, SameIsLater DEF IInv, SameIrrevocable
  <2> QED
    BY <1>1, <1>2, <2>1 DEF Grows, Performed
<1>11. LinksKept'
  <2> SUFFICES ASSUME used.restores = 0
               PROVE  LinkKept(p, q)' /\ LinkKept(q, p)'
    BY <1>1 DEF LinksKept, q
  <2>1. LinkKept(p, q) /\ LinkKept(q, p)
    BY <1>1 DEF IInv, LinksKept, q
  <2>2. /\ Between(s.log, log[q], q) /\ Between(log[q], s.log, p)
        /\ \A m \in Sent(net[q], "channel_reestablish") : Announces(m, s.log, p)
        /\ \A m \in Sent(s.out, "channel_reestablish") : Announces(m, s.log, p)
        /\ Agreed(p, s.log, log[q], signed[p])
    BY DEF Performed, Linked, q
  <2>3. LinkKept(p, q)'
    <3>1. \A m \in Sent(inbox, "commitment_signed") : m.ctx \in signed[p]
      BY <2>1 DEF LinkKept, Inbox, MessageType
    <3>2. \A m \in Sent(new, "channel_reestablish") : Announces(m, s.log, p)
      BY <1>7, <2>2
    <3>3. Accepted(log[q], q, signed[q] \cup Signatures(s.out))
      <4>1. \A c \in Signatures(s.out) : c \in signed[q] \/ log[q].ctn[q] < c.ctn
        BY DEF Performed, Truthful, q
      <4>2. \A c \in signed[q] \cup Signatures(s.out) : c.ctn \in Nat
        BY DEF Performed, PartyInv, LogKept, SignedBy, q
      <4>3. log[q].ctn[q] \in Nat
        BY <1>1, PartyLog DEF IInv, CounterTypes
      <4> QED
        BY <2>1, <4>1, <4>2, <4>3 DEF LinkKept, Accepted
    <3> QED
      BY <1>2, <2>2, <3>1, <3>2, <3>3 DEF LinkKept, Agreed, q
  <2>4. LinkKept(q, p)'
    <3>1. \A m \in Sent(new, "commitment_signed") : m.ctx \in signed[q] \cup Signatures(s.out)
      <4>1. \A m \in Sent(s.out, "commitment_signed") : m.ctx \in Signatures(s.out)
        BY DEF Sent, Signatures
      <4> QED
        BY <1>7, <2>1, <4>1 DEF LinkKept
    <3>2. \A m \in Sent(inbox, "channel_reestablish") : Announces(m, log[q], q)
      BY <2>1 DEF LinkKept, Inbox, MessageType
    <3> QED
      BY <1>2, <2>2, <3>1, <3>2 DEF LinkKept, Agreed
  <2> QED
    BY <2>3, <2>4
<1>12. RevocationsKept'
  <2>1. \A m \in Sent(inbox, "revoke_and_ack") : Revoked(m, log[q].ctn[q])
    BY DEF IInv, RevocationsKept, Inbox, MessageType, q
  <2>2. log[p].ctn[p] \in Nat /\ s.log.ctn[p] \in Nat /\ log[p].ctn[p] <= s.log.ctn[p]
    <3>1. CounterTypes(s.log)
      BY LogInvParts DEF Performed, PartyInv, LogKept
    <3> QED
      BY <3>1, PartyLog DEF IInv, Performed, Later, CounterTypes
  <2>3. \A m : Revoked(m, log[p].ctn[p]) => Revoked(m, s.log.ctn[p])
    BY <2>2 DEF Revoked
  <2>4. \A m \in Sent(net[q], "revoke_and_ack") : Revoked(m, log[p].ctn[p])
    BY <1>1 DEF IInv, RevocationsKept
  <2>5. \A m \in Sent(new, "revoke_and_ack") : Revoked(m, s.log.ctn[p])
    BY <1>7, <2>3, <2>4 DEF Performed, Truthful
  <2> QED
    BY <1>1, <1>2, <2>1, <2>5 DEF RevocationsKept, q
<1> QED
  BY <1>3, <1>4, <1>8, <1>9, <1>10, <1>11, <1>12 DEF IInv

(* A step begins with the state of its party. *)
LEMMA BeginSound ==
    ASSUME IInv, NEW p \in Owner
    PROVE  /\ Sound(p, Begin(p))
           /\ Begin(p).log = log[p] /\ Begin(p).disk = disk[p]
           /\ Begin(p).out = << >> /\ Begin(p).reports = {}
<1> DEFINE s == Begin(p)
<1>1. /\ s = [f \in StepField |-> s[f]] /\ s.log = log[p] /\ s.disk = disk[p]
      /\ s.out = << >> /\ s.reports = {}
  BY DEF Begin, StepField
<1> HIDE DEF s
<1>2. IsSequence(s.out) /\ Signatures(s.out) = {} /\ \A type : Sent(s.out, type) = {}
  BY <1>1, EmptySent
<1>3. /\ LogInv(log[p]) /\ LogShape(log[p]) /\ CounterTypes(log[Other(p)])
      /\ Later(log[p], log[p])
  BY PartyLog, OtherOwner, SameIsLater DEF IInv, SameIrrevocable
<1>4. PartyInv(p, s.log, s.disk, signed[Other(p)] \cup Signatures(s.out),
               reported[p] \cup s.reports, used)
  <2>1. /\ signed[Other(p)] \cup Signatures(s.out) = signed[Other(p)]
        /\ reported[p] \cup s.reports = reported[p]
    BY <1>1, <1>2
  <2> QED
    BY <1>1, <2>1 DEF IInv, PartiesKept
<1>5. /\ Truthful(p, s.log, s.out)
      /\ used.restores = 0 => Linked(p, s.log)
  <2>1. ASSUME used.restores = 0
        PROVE  LinkKept(p, Other(p)) /\ LinkKept(Other(p), p)
    BY <2>1, OtherOwner DEF IInv, LinksKept
  <2> QED
    BY <1>1, <1>2, <2>1, OtherOwner DEF LinkKept, Linked, Agreed, Truthful
<1>6. Sound(p, s)
  BY <1>1, <1>2, <1>3, <1>4, <1>5 DEF Sound
<1> QED
  BY <1>1, <1>6 DEF s

LEMMA SoundPerformed ==
    ASSUME NEW p \in Owner, NEW s, Sound(p, s)
    PROVE  Performed(p, s)
BY DEF Sound, Performed

(* The messages to p may lose the first, or all. *)
LEMMA Inboxes ==
    ASSUME InboxesKept, NEW p \in Owner
    PROVE  /\ Inbox(p, net[p]) /\ Inbox(p, << >>)
           /\ net[p] # << >> => Inbox(p, Tail(net[p]))
<1>1. IsSequence(net[p])
  BY DEF InboxesKept
<1>2. Inbox(p, net[p])
  BY <1>1 DEF Inbox
<1>3. Inbox(p, << >>)
  <2>1. OneReest(<< >>)
    BY DEF OneReest
  <2> QED
    BY <2>1, EmptySent DEF Inbox
<1>4. ASSUME net[p] # << >>
      PROVE  Inbox(p, Tail(net[p]))
  <2> DEFINE x == net[p]
             y == Tail(net[p])
  <2>1. IsSequence(x) /\ x # << >> /\ y = Tail(x)
    BY <1>1, <1>4
  <2> HIDE DEF x, y
  <2>2. IsSequence(y)
    BY <2>1, TailSequence
  <2>3. \A i \in DOMAIN y : i \in Nat /\ i + 1 \in DOMAIN x /\ y[i] = x[i + 1]
    BY <2>1, TailSequence
  <2>4. \A type : Sent(y, type) \subseteq Sent(x, type)
    BY <2>3 DEF Sent
  <2>5. OneReest(x) => OneReest(y)
    <3> SUFFICES ASSUME OneReest(x), NEW i \in DOMAIN y, NEW j \in DOMAIN y,
                        y[i].type = "channel_reestablish", y[j].type = "channel_reestablish"
                 PROVE  i = j
      BY DEF OneReest
    <3>1. i + 1 = j + 1
      BY <2>3 DEF OneReest
    <3> QED
      BY <2>3, <3>1
  <2> QED
    BY <2>2, <2>4, <2>5 DEF Inbox, x, y
<1> QED
  BY <1>2, <1>3, <1>4

(* One more of the bounded events. *)
FaultsKept ==
    /\ used' \in [UsedField -> Nat]
    /\ used'.midSaves = 0 => used.midSaves = 0
    /\ used'.restores = 0 => used.restores = 0

LEMMA UseCounts ==
    ASSUME Frames, NEW event \in UsedField, NEW max, Use(event, max)
    PROVE  FaultsKept /\ used'[event] # 0
<1>1. used \in [UsedField -> Nat]
  BY DEF Frames
<1>2. used' = [used EXCEPT ![event] = used[event] + 1]
  BY DEF Use
<1>3. used' \in [UsedField -> Nat] /\ used'[event] = used[event] + 1
  BY <1>1, <1>2
<1>4. \A f \in UsedField : used'[f] = 0 => used[f] = 0
  BY <1>1, <1>2
<1>5. "midSaves" \in UsedField /\ "restores" \in UsedField
  BY DEF UsedField
<1> QED
  BY <1>1, <1>3, <1>4, <1>5 DEF FaultsKept

(* What only takes messages away, or breaks the transport. *)
LEMMA NetKeeps ==
    ASSUME IInv, UNCHANGED <<log, disk, backup, signed, reported>>, FaultsKept,
           net' = [x \in Owner |-> net'[x]], \A x \in Owner : Inbox(x, net'[x])
    PROVE  IInv' /\ Grows
<1>1. Frames'
  BY DEF IInv, Frames, FaultsKept
<1>2. PartiesKept'
  <2> SUFFICES ASSUME NEW p \in Owner
               PROVE  PartyInv(p, log[p], disk[p], signed[Other(p)], reported[p], used')
    BY DEF PartiesKept
  <2>1. PartyInv(p, log[p], disk[p], signed[Other(p)], reported[p], used)
    BY DEF IInv, PartiesKept
  <2> QED
    BY <2>1, FewerFaults DEF FaultsKept
<1>3. InboxesKept'
  BY DEF InboxesKept, Inbox
<1>4. BackupsKept'
  BY DEF IInv, BackupsKept, BackupKept, FaultsKept
<1>5. LinksKept'
  <2> SUFFICES ASSUME used'.restores = 0, NEW p \in Owner
               PROVE  LinkKept(p, Other(p))'
    BY DEF LinksKept
  <2> DEFINE q == Other(p)
  <2>1. LinkKept(p, q) /\ q \in Owner
    BY OtherOwner DEF IInv, LinksKept, FaultsKept
  <2>2. Inbox(p, net'[p]) /\ Inbox(q, net'[q])
    BY <2>1
  <2>3. /\ \A m \in Sent(net'[p], "commitment_signed") : m.ctx \in signed[p]
        /\ \A m \in Sent(net'[q], "channel_reestablish") : Announces(m, log[p], p)
    BY <2>1, <2>2 DEF LinkKept, Inbox, MessageType
  <2> QED
    BY <2>1, <2>3 DEF LinkKept
<1>6. Grows
  BY PartyLog, SameIsLater DEF IInv, Grows, SameIrrevocable
<1>7. RevocationsKept'
  BY DEF IInv, RevocationsKept, Inbox, MessageType
<1> QED
  BY <1>1, <1>2, <1>3, <1>4, <1>5, <1>6, <1>7 DEF IInv

LEMMA DropKeeps ==
    ASSUME IInv, DropTransport, UNCHANGED <<log, disk, backup, signed, reported>>, FaultsKept
    PROVE  IInv' /\ Grows
<1>1. net' = [x \in Owner |-> net'[x]] /\ \A x \in Owner : Inbox(x, net'[x])
  BY Inboxes DEF IInv, DropTransport
<1> QED
  BY <1>1, NetKeeps

LEMMA LinksAgree ==
    ASSUME LinksKept, used.restores = 0, NEW p \in Owner
    PROVE  Agreed(p, log[p], log[Other(p)], signed[p])
BY OtherOwner DEF LinksKept, LinkKept, Agreed

(* A process that ends and starts again from a file. *)
LEMMA RestartKeeps ==
    ASSUME IInv, NEW p \in Owner, NEW f, Restart(p, f), FaultsKept,
           FileKept(p, f, signed[Other(p)], used'),
           reported' = [x \in Owner |-> reported'[x]], reported'[Other(p)] = reported[Other(p)],
           used'.restores = 0 /\ used'.midSaves = 0 => Gone(f, p) = reported'[p],
           used'.restores = 0 => /\ Between(f, log[Other(p)], Other(p))
                                 /\ Between(log[Other(p)], f, p)
                                 /\ Agreed(p, f, log[Other(p)], signed[p])
    PROVE  IInv' /\ (Later(log[p], f) => Grows)
<1> DEFINE q == Other(p)
           l == Load(f, p)
           S == signed[q]
<1>1. q \in Owner /\ q # p /\ Other(q) = p /\ \A x \in Owner : x = p \/ x = q
  BY OtherOwner
<1>2. /\ log' = [log EXCEPT ![p] = l] /\ disk' = [disk EXCEPT ![p] = f]
      /\ UNCHANGED <<backup, signed>>
      /\ net' = [x \in Owner |-> << >>]
  BY DEF Restart, DropTransport
<1>3. LogKept(p, l, S, Gone(f, p), used') /\ InFile(l, f)
  <2>1. used'.restores = 0 => OneEach(S)
    BY DEF IInv, PartiesKept, PartyInv, LogKept, FaultsKept
  <2> HIDE DEF S, l
  <2> QED
    BY <2>1, LoadKept DEF S, l
<1> HIDE DEF l
<1>4. /\ log' = [x \in Owner |-> log'[x]] /\ disk' = [x \in Owner |-> disk'[x]]
      /\ log'[p] = l /\ log'[q] = log[q] /\ disk'[p] = f /\ disk'[q] = disk[q]
  BY <1>1, <1>2 DEF IInv, Frames
<1>5. Frames'
  BY <1>2, <1>4 DEF IInv, Frames, FaultsKept
<1>6. PartiesKept'
  <2>1. PartyInv(p, l, f, S, reported'[p], used')
    <3>1. LogKept(p, l, S, reported'[p], used')
      BY <1>3 DEF LogKept
    <3> QED
      BY <1>3, <3>1 DEF PartyInv
  <2>2. PartyInv(q, log[q], disk[q], signed[p], reported[q], used')
    <3>1. PartyInv(q, log[q], disk[q], signed[p], reported[q], used)
      BY <1>1 DEF IInv, PartiesKept
    <3> HIDE DEF q
    <3> QED
      BY <1>1, <3>1, FewerFaults DEF FaultsKept
  <2> QED
    BY <1>1, <1>2, <1>4, <2>1, <2>2 DEF PartiesKept
<1>7. InboxesKept'
  BY <1>2, EmptySent DEF InboxesKept
<1>8. BackupsKept'
  BY <1>2 DEF IInv, BackupsKept, BackupKept, FaultsKept
<1>9. /\ l.ctn = f.ctn /\ l.revack_pending = f.revack_pending
      /\ CounterTypes(l) /\ CounterTypes(f) /\ LogShape(f)
  <2>1. CounterTypes(l) /\ CounterTypes(f) /\ LogShape(f)
    BY <1>3, LogInvParts DEF LogKept, FileKept, StoredLogInv, LogShape
  <2> QED
    BY <1>3, <2>1, SameCtn DEF InFile
<1>10. LinksKept'
  <2> SUFFICES ASSUME used'.restores = 0
               PROVE  LinkKept(p, q)' /\ LinkKept(q, p)'
    BY <1>1 DEF LinksKept
  <2>1. Between(l, log[q], q) /\ Between(log[q], l, p)
    BY <1>9 DEF Between, CtnLatest
  <2>2. \A type : Sent(net'[p], type) = {} /\ Sent(net'[q], type) = {}
    BY <1>1, <1>2, EmptySent
  <2>3. Agreed(p, l, log[q], signed[p])
    <3>1. StoredLogInv(f) /\ StoredLogInv(l) /\ SameIrrevocable(f, l)
      BY <1>3, LogInvParts DEF LogKept, FileKept, InFile, SameIrrevocable
    <3> QED
      BY <3>1, AgreedSame
  <2>4. LinkKept(q, p)
    BY <1>1 DEF IInv, LinksKept, FaultsKept
  <2>5. Accepted(log[q], q, signed[q])
    BY <1>1 DEF IInv, LinksKept, LinkKept, FaultsKept
  <2> QED
    BY <1>1, <1>2, <1>4, <2>1, <2>2, <2>3, <2>5 DEF LinkKept, Agreed
<1>11. RevocationsKept'
  BY <1>2, EmptySent DEF RevocationsKept
<1>12. ASSUME Later(log[p], f)
       PROVE  Grows
  <2>1. Later(f, l) /\ LogShape(log[p])
    BY <1>3, PartyLog DEF IInv, InFile, SameIrrevocable
  <2>2. Later(log[p], l)
    BY <1>9, <1>12, <2>1, LaterTransitive
  <2>3. Later(log[q], log[q])
    BY <1>1, PartyLog, SameIsLater DEF IInv, SameIrrevocable
  <2> QED
    BY <1>1, <1>4, <2>2, <2>3 DEF Grows
<1> QED
  BY <1>5, <1>6, <1>7, <1>8, <1>10, <1>11, <1>12 DEF IInv

-----------------------------------------------------------------------------
(*                            Reestablishment                              *)

(* Where p is with its channel_reestablish, and q with reading it.  Signatures *)
(* and revocations are sent by a party that is GOOD, and read by one that has  *)
(* read the channel_reestablish before them.                                   *)
Handshake(p, q) ==
    /\ chanState[p] = "OPEN" /\ reest[p].state \in {"pending", "done"}
    /\ OneReest(net[q])
    /\ Sent(net[q], "channel_reestablish") # {} =>
         /\ sentReest[p]
         /\ peerState[q] # "GOOD" /\ reest[q].state = "pending"
    /\ Sent(net[q], "commitment_signed") # {} => peerState[p] = "GOOD"
    /\ Sent(net[q], "revoke_and_ack") # {} => peerState[p] = "GOOD"
    /\ reest[q].state = "done" => sentReest[p]
    /\ sentReest[p] => peerState[p] # "DISCONNECTED"
    /\ peerState[q] = "GOOD" => peerState[p] # "DISCONNECTED"

HInv ==
    used.restores = 0 =>
      /\ peerState = [x \in Owner |-> peerState[x]] /\ chanState = [x \in Owner |-> chanState[x]]
      /\ sentReest = [x \in Owner |-> sentReest[x]] /\ reest = [x \in Owner |-> reest[x]]
      /\ \A p \in Owner : Handshake(p, Other(p))

LEMMA DropHandshake ==
    ASSUME HInv, DropTransport, used'.restores = 0 => used.restores = 0 /\ UNCHANGED chanState
    PROVE  HInv'
<1> SUFFICES ASSUME used'.restores = 0
             PROVE  /\ peerState' = [x \in Owner |-> peerState'[x]]
                    /\ chanState' = [x \in Owner |-> chanState'[x]]
                    /\ sentReest' = [x \in Owner |-> sentReest'[x]]
                    /\ reest' = [x \in Owner |-> reest'[x]]
                    /\ \A p \in Owner : Handshake(p, Other(p))'
  BY DEF HInv
<1>1. \A x \in Owner : /\ net'[x] = << >> /\ peerState'[x] = "DISCONNECTED"
                       /\ sentReest'[x] = FALSE /\ reest'[x] = NoReest
  BY DEF DropTransport
<1>2. ASSUME NEW p \in Owner
      PROVE  Handshake(p, Other(p))'
  <2> DEFINE q == Other(p)
  <2>1. q \in Owner
    BY OtherOwner
  <2> HIDE DEF q
  <2>2. OneReest(net'[q]) /\ \A type : Sent(net'[q], type) = {}
    <3>1. OneReest(<< >>)
      BY DEF OneReest
    <3> QED
      BY <1>1, <2>1, <3>1, EmptySent
  <2>3. chanState'[p] = "OPEN"
    BY DEF HInv, Handshake
  <2>4. /\ reest'[p].state = "pending" /\ reest'[q].state = "pending"
        /\ sentReest'[p] = FALSE /\ peerState'[q] = "DISCONNECTED"
    BY <1>1, <2>1 DEF NoReest, Reest
  <2> QED
    BY <2>2, <2>3, <2>4 DEF Handshake, q
<1>3. /\ peerState' = [x \in Owner |-> peerState'[x]]
      /\ sentReest' = [x \in Owner |-> sentReest'[x]]
      /\ reest' = [x \in Owner |-> reest'[x]]
  BY DEF DropTransport
<1> QED
  BY <1>2, <1>3 DEF HInv

(* Messages that are dropped. *)
LEMMA TakenHandshake ==
    ASSUME HInv, \A x \in Owner : Inbox(x, net'[x]),
           UNCHANGED <<chanState, peerState, sentReest, reest, used>>
    PROVE  HInv'
<1> SUFFICES ASSUME used.restores = 0, NEW p \in Owner
             PROVE  Handshake(p, Other(p))'
  BY DEF HInv
<1> DEFINE q == Other(p)
<1>1. Handshake(p, q) /\ Inbox(q, net'[q])
  BY OtherOwner DEF HInv
<1>2. /\ OneReest(net'[q])
      /\ Sent(net'[q], "channel_reestablish") \subseteq Sent(net[q], "channel_reestablish")
      /\ Sent(net'[q], "commitment_signed") \subseteq Sent(net[q], "commitment_signed")
      /\ Sent(net'[q], "revoke_and_ack") \subseteq Sent(net[q], "revoke_and_ack")
  BY <1>1 DEF Inbox, MessageType, Handshake
<1> HIDE DEF q
<1> QED
  BY <1>1, <1>2 DEF Handshake, q

LEMMA OneReestConcat ==
    ASSUME NEW x, IsSequence(x), OneReest(x), NEW y, IsSequence(y),
           Sent(y, "channel_reestablish") = {}, NEW z, z = x \o y
    PROVE  OneReest(z)
<1>1. \A i \in DOMAIN z : \/ i \in DOMAIN x /\ z[i] = x[i]
                          \/ \E j \in DOMAIN y : z[i] = y[j]
  BY ConcatSequence
<1>2. \A j \in DOMAIN y : y[j].type # "channel_reestablish"
  BY DEF Sent
<1> QED
  BY <1>1, <1>2 DEF OneReest

(* A step of a party that is, or becomes, GOOD. *)
LEMMA PerformHandshake ==
    ASSUME Frames, InboxesKept, HInv, NEW p \in Owner, NEW s, IsSequence(s.out),
           Sent(s.out, "channel_reestablish") = {},
           NEW inbox, Inbox(p, inbox), Perform(p, s, inbox),
           UNCHANGED <<chanState, sentReest, reest, used>>,
           \/ UNCHANGED peerState /\ (peerState[p] = "GOOD" \/ s.out = << >>)
           \/ peerState' = [peerState EXCEPT ![p] = "GOOD"] /\ reest[p].state = "done"
    PROVE  HInv'
<1> DEFINE q   == Other(p)
           new == net[q] \o s.out
<1>1. q \in Owner /\ q # p /\ Other(q) = p /\ \A x \in Owner : x = p \/ x = q
  BY OtherOwner
<1>2. net'[p] = inbox /\ net'[q] = new
  <2>1. Effect(p, s, inbox)
    BY PerformEffect
  <2> QED
    BY <2>1 DEF Effect
<1> SUFFICES ASSUME used.restores = 0
             PROVE  peerState' = [x \in Owner |-> peerState'[x]] /\ \A x \in Owner : Handshake(x, Other(x))'
  BY DEF HInv
<1>3. Handshake(p, q) /\ Handshake(q, p)
  BY <1>1 DEF HInv
<1>4. IsSequence(net[q]) /\ IsSequence(s.out)
  BY <1>1 DEF InboxesKept
<1> HIDE DEF q
<1>5. \A type : Sent(new, type) \subseteq Sent(net[q], type) \cup Sent(s.out, type)
  <2> DEFINE x == net[q]
             y == s.out
  <2>1. IsSequence(x) /\ IsSequence(y) /\ new = x \o y
    BY <1>4
  <2> HIDE DEF x, y, new
  <2>2. ASSUME NEW type
        PROVE  Sent(new, type) \subseteq Sent(x, type) \cup Sent(y, type)
    BY <2>1, SentConcat
  <2> QED
    BY <2>2 DEF x, y
<1>6. OneReest(new)
  BY <1>3, <1>4, OneReestConcat DEF Handshake
<1>7. /\ OneReest(inbox)
      /\ Sent(inbox, "channel_reestablish") \subseteq Sent(net[p], "channel_reestablish")
      /\ Sent(inbox, "commitment_signed") \subseteq Sent(net[p], "commitment_signed")
      /\ Sent(inbox, "revoke_and_ack") \subseteq Sent(net[p], "revoke_and_ack")
  BY <1>3 DEF Inbox, MessageType, Handshake
<1> HIDE DEF new
<1>8. /\ peerState' = [x \in Owner |-> peerState'[x]]
      /\ peerState'[q] = peerState[q]
      /\ peerState'[p] = peerState[p] \/ (peerState'[p] = "GOOD" /\ reest[p].state = "done")
      /\ peerState'[p] = "GOOD" \/ s.out = << >>
  BY <1>1 DEF HInv
<1>9. s.out = << >> => \A type : Sent(s.out, type) = {}
  BY EmptySent
<1>10. Handshake(p, q)'
  <2>1. Sent(new, "commitment_signed") # {} => peerState'[p] = "GOOD"
    BY <1>3, <1>5, <1>8, <1>9 DEF Handshake
  <2>2. Sent(new, "revoke_and_ack") # {} => peerState'[p] = "GOOD"
    BY <1>3, <1>5, <1>8, <1>9 DEF Handshake
  <2>3. Sent(new, "channel_reestablish") \subseteq Sent(net[q], "channel_reestablish")
    BY <1>5
  <2>4. peerState'[p] # "DISCONNECTED" \/ peerState'[p] = peerState[p]
    BY <1>8
  <2> QED
    BY <1>2, <1>3, <1>6, <1>8, <2>1, <2>2, <2>3, <2>4 DEF Handshake
<1>11. Handshake(q, p)'
  <2>1. peerState'[p] = "GOOD" => peerState[q] # "DISCONNECTED"
    BY <1>3, <1>8 DEF Handshake
  <2>2. Sent(inbox, "channel_reestablish") # {} => peerState'[p] # "GOOD"
    BY <1>3, <1>7, <1>8 DEF Handshake
  <2> QED
    BY <1>2, <1>3, <1>7, <1>8, <2>1, <2>2 DEF Handshake
<1> QED
  BY <1>1, <1>8, <1>10, <1>11 DEF q

-----------------------------------------------------------------------------
(*                      One restored backup                                *)

(* The other has no revocation of p that p does not remember. *)
Remembers(p) == log[Other(p)].ctn[p] <= log[p].ctn[p]

(* What a channel_reestablish says of the ctn that its sender has of p: what  *)
(* was so, and what still is so if that is more than p remembers.             *)
Reports(m, n, remembered) ==
    /\ m.oldestRemote \in Int /\ m.oldestRemote <= n
    /\ m.oldestRemote = n \/ remembered

Numbers(p, q) ==
    /\ chanState[p] = "FORCE_CLOSING" \/ chanState[q] = "WE_ARE_TOXIC" => Remembers(p)
    /\ \A m \in Sent(net[p], "channel_reestablish") :
          Reports(m, log[q].ctn[p], Remembers(p))

(* As long as at most one old copy of a file was put to use, at most one of   *)
(* the two has forgotten anything.                                            *)
OneForgets ==
    /\ \A p \in Owner : Numbers(p, Other(p))
    /\ \E p \in Owner : Remembers(p)
    /\ used.restores = 0 =>
         \A p \in Owner : backup[p] = None \/ \A x \in Owner : backup[p].ctn[x] <= log[p].ctn[x]

NInv ==
    /\ chanState = [x \in Owner |-> chanState[x]]
    /\ used.restores <= 1 => OneForgets

LEMMA CtnIsNat ==
    ASSUME IInv, NEW x \in Owner, NEW o \in Owner
    PROVE  log[x].ctn[o] \in Nat
BY PartyLog DEF IInv, CounterTypes

(* A step of p. *)
LEMMA PerformNumbers ==
    ASSUME IInv, NInv, NEW p \in Owner, NEW s, Performed(p, s), CounterTypes(s.log),
           NEW inbox, Inbox(p, inbox), Perform(p, s, inbox),
           UNCHANGED <<backup, chanState, used>>,
           used.restores <= 1 =>
             \A m \in Sent(s.out, "channel_reestablish") :
               Reports(m, s.log.ctn[Other(p)], Remembers(Other(p)))
    PROVE  NInv'
<1> DEFINE q   == Other(p)
           new == net[q] \o s.out
<1>1. q \in Owner /\ q # p /\ Other(q) = p /\ \A x \in Owner : x = p \/ x = q
  BY OtherOwner
<1>2. /\ log'[p] = s.log /\ log'[q] = log[q]
      /\ net'[p] = inbox /\ net'[q] = new
  <2>1. Effect(p, s, inbox)
    BY PerformEffect DEF IInv
  <2> QED
    BY <2>1 DEF Effect
<1> SUFFICES ASSUME used.restores <= 1, OneForgets
             PROVE  OneForgets'
  BY DEF NInv
<1> HIDE DEF q
<1>3. \A x \in Owner : log[p].ctn[x] \in Nat /\ s.log.ctn[x] \in Nat
                       /\ log[p].ctn[x] <= s.log.ctn[x]
  BY CtnIsNat DEF Performed, Later, CounterTypes
<1>4. \A x \in Owner : log[q].ctn[x] \in Nat
  BY <1>1, CtnIsNat
<1>5. s.log.ctn[q] = log[p].ctn[q] \/ s.log.ctn[q] <= log[q].ctn[q]
  BY DEF Performed, Truthful, q
<1>6. Remembers(p) => Remembers(p)'
  BY <1>1, <1>2, <1>3, <1>4 DEF Remembers, q
<1>7. Remembers(q) => Remembers(q)'
  BY <1>1, <1>2, <1>3, <1>4, <1>5 DEF Remembers
<1>8. Numbers(p, q)'
  <2>1. \A m \in Sent(inbox, "channel_reestablish") : m \in Sent(net[p], "channel_reestablish")
    BY DEF Inbox, MessageType
  <2>2. Numbers(p, q)
    BY DEF OneForgets, q
  <2>3. \A m \in Sent(inbox, "channel_reestablish") : Reports(m, log[q].ctn[p], Remembers(p)')
    BY <1>6, <2>1, <2>2 DEF Numbers, Reports
  <2> QED
    BY <1>2, <1>6, <2>2, <2>3 DEF Numbers
<1>9. Numbers(q, p)'
  <2>1. Numbers(q, p)
    BY <1>1 DEF OneForgets
  <2>2. IsSequence(net[q]) /\ IsSequence(s.out)
    BY <1>1 DEF IInv, InboxesKept, Performed
  <2>3. Sent(new, "channel_reestablish")
          \subseteq Sent(net[q], "channel_reestablish") \cup Sent(s.out, "channel_reestablish")
    <3> DEFINE x == net[q]
               y == s.out
    <3>1. IsSequence(x) /\ IsSequence(y) /\ new = x \o y
      BY <2>2
    <3> HIDE DEF x, y, new
    <3>2. ASSUME NEW type
          PROVE  Sent(new, type) \subseteq Sent(x, type) \cup Sent(y, type)
      BY <3>1, SentConcat
    <3> QED
      BY <3>2 DEF x, y
  <2>4. ASSUME NEW m \in Sent(net[q], "channel_reestablish")
        PROVE  Reports(m, s.log.ctn[q], Remembers(q)')
    <3>1. Reports(m, log[p].ctn[q], Remembers(q))
      BY <2>1 DEF Numbers
    <3>2. CASE s.log.ctn[q] = log[p].ctn[q]
      BY <1>7, <3>1, <3>2 DEF Reports
    <3>3. CASE s.log.ctn[q] <= log[q].ctn[q]
      <4>1. Remembers(q)'
        BY <1>1, <1>2, <3>3 DEF Remembers
      <4>2. log[p].ctn[q] \in Nat /\ s.log.ctn[q] \in Nat /\ log[p].ctn[q] <= s.log.ctn[q]
        BY <1>1, <1>3
      <4> QED
        BY <3>1, <4>1, <4>2 DEF Reports
    <3> QED
      BY <1>5, <3>2, <3>3
  <2>5. \A m \in Sent(s.out, "channel_reestablish") : Reports(m, s.log.ctn[q], Remembers(q)')
    BY <1>7 DEF Reports, q
  <2> HIDE DEF new
  <2> QED
    BY <1>2, <1>7, <2>1, <2>3, <2>4, <2>5 DEF Numbers
<1>10. \E x \in Owner : Remembers(x)'
  BY <1>1, <1>6, <1>7 DEF OneForgets
<1>11. ASSUME used.restores = 0, NEW x \in Owner, backup[x] # None, NEW o \in Owner
       PROVE  backup[x].ctn[o] <= log'[x].ctn[o]
  <2>1. backup[x].ctn[o] <= log[x].ctn[o]
    BY <1>11 DEF OneForgets
  <2>2. backup[x].ctn[o] \in Nat
    <3>1. BackupKept(x, backup[x])
      BY <1>11 DEF IInv, BackupsKept
    <3>2. CounterTypes(backup[x])
      BY <3>1 DEF BackupKept, StoredLogInv, LogShape
    <3> QED
      BY <3>2 DEF CounterTypes
  <2>3. CASE x = p
    BY <1>2, <1>3, <2>1, <2>2, <2>3
  <2>4. CASE x = q
    BY <1>2, <2>1, <2>4
  <2> QED
    BY <1>1, <2>3, <2>4
<1> QED
  BY <1>1, <1>8, <1>9, <1>10, <1>11 DEF OneForgets, q

(* Messages are lost or dropped, or a process starts again from its own file. *)
LEMMA SameNumbers ==
    ASSUME NInv, UNCHANGED <<backup, chanState>>, used'.restores = used.restores,
           \A x \in Owner : /\ log'[x].ctn = log[x].ctn
                            /\ Sent(net'[x], "channel_reestablish")
                                 \subseteq Sent(net[x], "channel_reestablish")
    PROVE  NInv'
<1>1. \A x \in Owner : Remembers(x)' <=> Remembers(x)
  BY OtherOwner DEF Remembers
<1>2. ASSUME NEW x \in Owner, Numbers(x, Other(x))
      PROVE  Numbers(x, Other(x))'
  <2>1. Other(x) \in Owner
    BY OtherOwner
  <2> QED
    BY <1>1, <1>2, <2>1 DEF Numbers, Reports
<1>3. OneForgets => OneForgets'
  BY <1>1, <1>2 DEF OneForgets
<1> QED
  BY <1>3 DEF NInv

LEMMA TakenNumbers ==
    ASSUME NInv, \A x \in Owner : Inbox(x, net'[x]), UNCHANGED <<log, backup, chanState, used>>
    PROVE  NInv'
<1>1. \A x \in Owner : Sent(net'[x], "channel_reestablish") \subseteq Sent(net[x], "channel_reestablish")
  BY DEF Inbox, MessageType
<1> QED
  BY <1>1, SameNumbers

LEMMA OtherUse ==
    ASSUME Frames, NEW event \in UsedField \ {"restores"}, NEW max, Use(event, max)
    PROVE  used'.restores = used.restores
<1>1. used' = [used EXCEPT ![event] = used[event] + 1] /\ used \in [UsedField -> Nat]
  BY DEF Use, Frames
<1>2. used'["restores"] = used["restores"]
  BY <1>1 DEF UsedField
<1> QED
  BY <1>2

LEMMA DropNumbers ==
    ASSUME NInv, DropTransport, UNCHANGED <<log, backup, chanState>>,
           used'.restores = used.restores
    PROVE  NInv'
<1>1. \A x \in Owner : Sent(net'[x], "channel_reestablish") = {}
  BY EmptySent DEF DropTransport
<1> QED
  BY <1>1, SameNumbers

(* A process starts again from a file that has what the log has, and perhaps  *)
(* one revocation more.                                                       *)
LEMMA RestartNumbers ==
    ASSUME IInv, NInv, NEW p \in Owner, NEW f, Restart(p, f), StoredLogInv(f), Later(log[p], f),
           \/ f.ctn[Other(p)] = log[p].ctn[Other(p)]
           \/ f.ctn[Other(p)] <= log[Other(p)].ctn[Other(p)],
           UNCHANGED chanState, used'.restores = used.restores
    PROVE  NInv'
<1> DEFINE q == Other(p)
<1>1. q \in Owner /\ q # p /\ Other(q) = p /\ \A x \in Owner : x = p \/ x = q
  BY OtherOwner
<1>2. /\ log' = [log EXCEPT ![p] = Load(f, p)] /\ UNCHANGED backup
      /\ net' = [x \in Owner |-> << >>]
  BY DEF Restart, DropTransport
<1>3. log'[p].ctn = f.ctn /\ log'[q] = log[q]
  <2>1. LogFrame(f)
    BY DEF StoredLogInv, LogShape
  <2>2. Load(f, p).ctn = f.ctn
    BY <2>1 DEF Load, UpdateMaybeActive, LogFrame, LogField
  <2> HIDE DEF q
  <2> QED
    BY <1>1, <1>2, <2>2 DEF IInv, Frames
<1>4. \A x \in Owner : log[p].ctn[x] \in Nat /\ f.ctn[x] \in Nat /\ log[p].ctn[x] <= f.ctn[x]
  <2>1. CounterTypes(f)
    BY DEF StoredLogInv, LogShape
  <2> QED
    BY <2>1, CtnIsNat DEF Later, CounterTypes
<1>5. \A x \in Owner : log[q].ctn[x] \in Nat
  BY <1>1, CtnIsNat
<1> SUFFICES ASSUME used.restores <= 1, OneForgets
             PROVE  OneForgets'
  BY DEF NInv
<1>6. f.ctn[q] = log[p].ctn[q] \/ f.ctn[q] <= log[q].ctn[q]
  OBVIOUS
<1> HIDE DEF q
<1>7. Remembers(p) => Remembers(p)'
  BY <1>1, <1>3, <1>4, <1>5 DEF Remembers, q
<1>8. Remembers(q) => Remembers(q)'
  BY <1>1, <1>3, <1>4, <1>5, <1>6 DEF Remembers
<1>9. \A x \in Owner : Sent(net'[x], "channel_reestablish") = {}
  BY <1>2, EmptySent
<1>10. \A x \in Owner : Numbers(x, Other(x))'
  BY <1>1, <1>7, <1>8, <1>9 DEF OneForgets, Numbers
<1>11. \E x \in Owner : Remembers(x)'
  BY <1>1, <1>7, <1>8 DEF OneForgets
<1>12. ASSUME used.restores = 0, NEW x \in Owner, backup[x] # None, NEW o \in Owner
       PROVE  backup[x].ctn[o] <= log'[x].ctn[o]
  <2>1. backup[x].ctn[o] <= log[x].ctn[o]
    BY <1>12 DEF OneForgets
  <2>2. backup[x].ctn[o] \in Nat
    <3>1. BackupKept(x, backup[x])
      BY <1>12 DEF IInv, BackupsKept
    <3>2. CounterTypes(backup[x])
      BY <3>1 DEF BackupKept, StoredLogInv, LogShape
    <3> QED
      BY <3>2 DEF CounterTypes
  <2>3. CASE x = p
    BY <1>3, <1>4, <2>1, <2>2, <2>3
  <2>4. CASE x = q
    BY <1>3, <2>1, <2>4
  <2> QED
    BY <1>1, <2>3, <2>4
<1> QED
  BY <1>2, <1>10, <1>11, <1>12 DEF OneForgets

(* The first old copy that is put to use: until then both remember. *)
LEMMA RestoreNumbers ==
    ASSUME IInv, HInv, NInv, NEW p \in Owner, RestoreBackup(p)
    PROVE  NInv'
<1> DEFINE q == Other(p)
           f == backup[p]
<1>1. q \in Owner /\ q # p /\ Other(q) = p /\ \A x \in Owner : x = p \/ x = q
  BY OtherOwner
<1>2. /\ Use("restores", MaxRestores) /\ f # None
      /\ log' = [log EXCEPT ![p] = Load(f, p)] /\ UNCHANGED backup
      /\ net' = [x \in Owner |-> << >>]
      /\ chanState' = [chanState EXCEPT ![p] = "OPEN"]
  BY DEF RestoreBackup, Restart, DropTransport
<1>3. chanState' = [x \in Owner |-> chanState'[x]]
  BY <1>2 DEF NInv
<1>4. used.restores \in Nat /\ used'.restores = used.restores + 1
  <2>1. used' = [used EXCEPT !["restores"] = used["restores"] + 1] /\ used \in [UsedField -> Nat]
    BY <1>2 DEF Use, IInv, Frames
  <2>2. used["restores"] \in Nat /\ used'["restores"] = used["restores"] + 1
    BY <2>1 DEF UsedField
  <2> QED
    BY <2>2
<1> SUFFICES ASSUME used'.restores <= 1
             PROVE  OneForgets'
  BY <1>3 DEF NInv
<1>5. used.restores = 0 /\ used'.restores # 0
  BY <1>4
<1>6. \A x \in Owner : chanState'[x] = "OPEN"
  BY <1>2, <1>5 DEF HInv, Handshake
<1>7. log'[p].ctn = f.ctn /\ log'[q] = log[q]
  <2>1. LogFrame(f)
    BY <1>2 DEF IInv, BackupsKept, BackupKept, StoredLogInv, LogShape
  <2>2. Load(f, p).ctn = f.ctn
    BY <2>1 DEF Load, UpdateMaybeActive, LogFrame, LogField
  <2> HIDE DEF q, f
  <2> QED
    BY <1>1, <1>2, <2>2 DEF IInv, Frames
<1>8. Remembers(q)'
  <2>1. f.ctn[q] <= log[p].ctn[q]
    BY <1>1, <1>2, <1>5 DEF NInv, OneForgets
  <2>2. log[p].ctn[q] <= log[q].ctn[q]
    BY <1>5 DEF IInv, LinksKept, LinkKept, Between
  <2>3. f.ctn[q] \in Nat /\ log[p].ctn[q] \in Nat /\ log[q].ctn[q] \in Nat
    <3>1. CounterTypes(f)
      BY <1>2 DEF IInv, BackupsKept, BackupKept, StoredLogInv, LogShape
    <3> QED
      BY <1>1, <3>1, CtnIsNat DEF CounterTypes
  <2> QED
    BY <1>1, <1>7, <2>1, <2>2, <2>3 DEF Remembers
<1>9. \A x \in Owner : Numbers(x, Other(x))'
  <2>1. \A x \in Owner : Sent(net'[x], "channel_reestablish") = {}
    BY <1>2, EmptySent
  <2> QED
    BY <1>6, <2>1, OtherOwner DEF Numbers
<1> QED
  BY <1>1, <1>5, <1>8, <1>9 DEF OneForgets

-----------------------------------------------------------------------------
(*                                The actions                              *)

Kept == IInv' /\ HInv' /\ NInv' /\ Grows

LEMMA OwnKeeps ==
    ASSUME IInv, HInv, NInv, NEW p \in Owner, NEW S, \A s \in S : Sound(p, s), Own(p, S),
           peerState[p] = "GOOD" \/ \A s \in S : s.out = << >>
    PROVE  Kept
<1>1. PICK s \in S : Perform(p, s, net[p])
  BY DEF Own
<1>2. UNCHANGED <<backup, up, peerState, chanState, sentReest, reest, refused, used>>
  BY DEF Own
<1>3. Inbox(p, net[p])
  BY Inboxes DEF IInv
<1>4. Performed(p, s) /\ IsSequence(s.out) /\ Sent(s.out, "channel_reestablish") = {}
  BY <1>1, SoundPerformed DEF Sound
<1>5. IInv' /\ Grows
  BY <1>1, <1>2, <1>3, <1>4, PerformKeeps
<1>6. HInv'
  BY <1>1, <1>2, <1>3, <1>4, PerformHandshake DEF IInv
<1>7. NInv'
  BY <1>1, <1>2, <1>3, <1>4, SoundLog, PerformNumbers
<1> QED
  BY <1>5, <1>6, <1>7 DEF Kept

LEMMA SameFaults ==
    ASSUME Frames, UNCHANGED used
    PROVE  FaultsKept
BY DEF Frames, FaultsKept

LEMMA RespondKeeps ==
    ASSUME IInv, HInv, NInv, NEW p \in Owner, net[p] # << >>, NEW reason, NEW S,
           reason = "none" => peerState[p] = "GOOD" /\ \A s \in S : Sound(p, s),
           Respond(p, reason, S)
    PROVE  Kept
<1>1. Inbox(p, Tail(net[p]))
  BY Inboxes DEF IInv
<1>2. CASE reason = "none"
  <2>1. /\ \E s \in S : Perform(p, s, Tail(net[p]))
        /\ UNCHANGED <<backup, up, peerState, chanState, sentReest, reest, refused, used>>
    BY <1>2 DEF Respond
  <2>2. PICK s \in S : Perform(p, s, Tail(net[p]))
    BY <2>1
  <2>3. Performed(p, s) /\ IsSequence(s.out) /\ Sent(s.out, "channel_reestablish") = {}
    BY <1>2, SoundPerformed DEF Sound
  <2>4. IInv' /\ Grows
    BY <1>1, <2>1, <2>2, <2>3, PerformKeeps
  <2>5. HInv'
    BY <1>1, <1>2, <2>1, <2>2, <2>3, PerformHandshake DEF IInv
  <2>6. NInv'
    BY <1>1, <1>2, <2>1, <2>2, <2>3, SoundLog, PerformNumbers
  <2> QED
    BY <2>4, <2>5, <2>6 DEF Kept
<1>3. CASE reason = "dropped"
  <2>1. /\ net' = [net EXCEPT ![p] = Tail(net[p])]
        /\ UNCHANGED <<log, disk, backup, up, peerState, chanState, sentReest,
                       reest, signed, reported, used>>
    BY <1>3 DEF Respond, IInv, Frames
  <2>2. net' = [x \in Owner |-> net'[x]] /\ \A x \in Owner : Inbox(x, net'[x])
    BY <1>1, <2>1, Inboxes DEF IInv, Frames
  <2>3. FaultsKept
    BY <2>1, SameFaults DEF IInv
  <2>4. IInv' /\ Grows
    BY <2>1, <2>2, <2>3, NetKeeps
  <2>5. HInv'
    BY <2>1, <2>2, TakenHandshake
  <2>6. NInv'
    BY <2>1, <2>2, TakenNumbers
  <2> QED
    BY <2>4, <2>5, <2>6 DEF Kept
<1>4. CASE reason # "none" /\ reason # "dropped"
  <2>1. /\ DropTransport
        /\ UNCHANGED <<log, disk, backup, chanState, signed, reported, used>>
    BY <1>4 DEF Respond
  <2>2. FaultsKept
    BY <2>1, SameFaults DEF IInv
  <2>3. IInv' /\ Grows
    BY <2>1, <2>2, DropKeeps
  <2>4. HInv'
    BY <2>1, DropHandshake
  <2>5. NInv'
    BY <2>1, DropNumbers
  <2> QED
    BY <2>3, <2>4, <2>5 DEF Kept
<1> QED
  BY <1>2, <1>3, <1>4

LEMMA SendHtlcKeeps ==
    ASSUME IInv, HInv, NInv, NEW p \in Owner, SendHtlc(p)
    PROVE  Kept
<1> DEFINE s   == [Begin(p) EXCEPT !.log = AddHtlc(Begin(p).log, p, Amount[p])]
           msg == AddMsg(log[p].next_htlc_id[p], Amount[p])
           t   == SendUpdate(s, p, msg)
<1>1. Quiet(p, Begin(p).log, AddHtlc(Begin(p).log, p, Amount[p]))
  BY BeginSound, SoundLog, AddHtlcQuiet
<1>2. Sound(p, s)
  BY <1>1, BeginSound, WithLogSound
<1>3. msg.type \in KeptType \ {"commitment_signed"}
  BY DEF AddMsg, KeptType
<1>4. Own(p, MaybeSendCommitment(p, {t})) /\ peerState[p] = "GOOD"
  BY DEF SendHtlc, CanUpdateCtx
<1> HIDE DEF s, msg
<1>5. Sound(p, t)
  BY <1>2, <1>3, SendUpdateSound
<1> HIDE DEF t
<1>6. \A x \in MaybeSendCommitment(p, {t}) : Sound(p, x)
  BY <1>5, MaybeSendCommitmentSound
<1> QED
  BY <1>4, <1>6, OwnKeeps

LEMMA RemovedSound ==
    ASSUME IInv, NEW p \in Owner, NEW kind \in RemovalKind, NEW x \in Owner,
           NEW id \in DOMAIN log[p].locked_in[x], CanRemoveHtlc(log[p], x, id),
           x = p \/ IsIrrevocablyAdded(log[p], x, id)
    PROVE  Sound(p, Removed(p, kind, x, id))
<1> DEFINE l == RemoveHtlc(log[p], kind, x, id)
<1>1. Quiet(p, log[p], l)
  BY RemoveHtlcQuiet, OtherOwner, PartyLog DEF IInv
<1>2. Sound(p, Begin(p)) /\ Begin(p).log = log[p]
  BY BeginSound
<1>3. Removed(p, kind, x, id) = [Begin(p) EXCEPT !.log = l]
  BY <1>2 DEF Removed
<1> HIDE DEF l
<1> QED
  BY <1>1, <1>2, <1>3, WithLogSound

(* Saved or not. *)
LEMMA SavePreimageSound ==
    ASSUME NEW p \in Owner, NEW s, Sound(p, s), NEW t \in SavePreimage({s})
    PROVE  Sound(p, t)
<1>1. t = s \/ t = Save(s)
  BY DEF SavePreimage
<1> QED
  BY <1>1, SaveSound

(* The message of a removal. *)
LEMMA RemovalSent ==
    ASSUME NEW p \in Owner, NEW s, Sound(p, s), NEW kind, NEW id
    PROVE  Sound(p, SendUpdate(s, p, RemoveMsg(kind, id)))
<1>1. RemoveMsg(kind, id).type \in KeptType \ {"commitment_signed"}
  BY DEF RemoveMsg, KeptType
<1> QED
  BY <1>1, SendUpdateSound

LEMMA FulfillHtlcKeeps ==
    ASSUME IInv, HInv, NInv, NEW p \in Owner, FulfillHtlc(p)
    PROVE  Kept
<1>1. PICK id \in DOMAIN log[p].locked_in[Other(p)] :
        /\ IsIrrevocablyAdded(log[p], Other(p), id) /\ CanRemoveHtlc(log[p], Other(p), id)
        /\ Own(p, {SendUpdate(s, p, RemoveMsg("settles", id)) :
                     s \in SavePreimage({Removed(p, "settles", Other(p), id)})})
  BY DEF FulfillHtlc
<1> DEFINE r == Removed(p, "settles", Other(p), id)
           S == {SendUpdate(s, p, RemoveMsg("settles", id)) : s \in SavePreimage({r})}
<1>2. Sound(p, r)
  BY <1>1, OtherOwner, RemovedSound, KindOfRemoval
<1> HIDE DEF r
<1>3. \A s \in SavePreimage({r}) : Sound(p, s)
  BY <1>2, SavePreimageSound
<1>4. \A t \in S : Sound(p, t)
  BY <1>3, RemovalSent
<1>5. peerState[p] = "GOOD"
  BY DEF FulfillHtlc, CanUpdateCtx
<1>6. Own(p, S)
  BY <1>1 DEF r
<1> HIDE DEF S
<1> QED
  BY <1>4, <1>5, <1>6, OwnKeeps

LEMMA FailHtlcKeeps ==
    ASSUME IInv, HInv, NInv, NEW p \in Owner, FailHtlc(p)
    PROVE  Kept
<1>1. PICK id \in DOMAIN log[p].locked_in[Other(p)] :
        /\ IsIrrevocablyAdded(log[p], Other(p), id) /\ CanRemoveHtlc(log[p], Other(p), id)
        /\ Own(p, MaybeSendCommitment(p,
             {SendUpdate(Removed(p, "fails", Other(p), id), p, RemoveMsg("fails", id))}))
  BY DEF FailHtlc
<1> DEFINE r == Removed(p, "fails", Other(p), id)
           s == SendUpdate(r, p, RemoveMsg("fails", id))
<1>2. Sound(p, r)
  BY <1>1, OtherOwner, RemovedSound, KindOfRemoval
<1>3. Own(p, MaybeSendCommitment(p, {s}))
  BY <1>1
<1> HIDE DEF r
<1>4. Sound(p, s)
  BY <1>2, RemovalSent
<1> HIDE DEF s
<1>5. \A t \in MaybeSendCommitment(p, {s}) : Sound(p, t)
  BY <1>4, MaybeSendCommitmentSound
<1>6. peerState[p] = "GOOD"
  BY DEF FailHtlc, CanUpdateCtx
<1> QED
  BY <1>3, <1>5, <1>6, OwnKeeps

LEMMA UpdateFeerateKeeps ==
    ASSUME IInv, HInv, NInv, NEW p \in Owner, UpdateFeerate(p)
    PROVE  Kept
<1>1. \A t \in MaybeUpdateFee(p, {Begin(p)}) : Sound(p, t)
  BY BeginSound, MaybeUpdateFeeSound
<1>2. Own(p, MaybeUpdateFee(p, {Begin(p)}) \ {Begin(p)}) /\ peerState[p] = "GOOD"
  BY DEF UpdateFeerate, CanUpdateCtx
<1> QED
  BY <1>1, <1>2, OwnKeeps

LEMMA SendCommitmentKeeps ==
    ASSUME IInv, HInv, NInv, NEW p \in Owner, SendCommitment(p)
    PROVE  Kept
<1>1. Sound(p, Begin(p)) /\ Begin(p).log = log[p]
  BY BeginSound
<1>2. /\ Own(p, {SignCommitment(p, Begin(p))}) /\ peerState[p] = "GOOD"
      /\ CanSign(p, log[p])
  BY DEF SendCommitment, CanUpdateCtx
<1>3. Sound(p, SignCommitment(p, Begin(p)))
  BY <1>1, <1>2, SignCommitmentSound
<1> QED
  BY <1>2, <1>3, OwnKeeps

LEMMA SaveDbKeeps ==
    ASSUME IInv, HInv, NInv, NEW p \in Owner, SaveDb(p)
    PROVE  Kept
<1>1. Sound(p, Save(Begin(p)))
  BY BeginSound, SaveSound
<1>2. Save(Begin(p)).out = << >>
  BY DEF Save, Begin
<1>3. Own(p, {Save(Begin(p))})
  BY DEF SaveDb
<1> QED
  BY <1>1, <1>2, <1>3, OwnKeeps

LEMMA OnUpdateAddHtlcKeeps ==
    ASSUME IInv, HInv, NInv, NEW p \in Owner, OnUpdateAddHtlc(p)
    PROVE  Kept
<1> DEFINE m == Head(net[p])
           q == Other(p)
           s == [Begin(p) EXCEPT !.log = AddHtlc(Begin(p).log, q, m.amount)]
           reason == CASE chanState[p] # "OPEN" -> "channel is not open"
                       [] ~ CanUpdateCtx(p) -> "dropped"
                       [] SlotsLeft(log[p], p, q) = 0 -> "too many HTLCs"
                       [] m.id # log[p].next_htlc_id[q] -> "unexpected htlc_id"
                       [] OTHER -> "none"
<1>1. Respond(p, reason, {s}) /\ net[p] # << >>
  BY DEF OnUpdateAddHtlc, Incoming
<1>2. reason = "none" => peerState[p] = "GOOD"
  BY DEF CanUpdateCtx
<1>3. Quiet(p, Begin(p).log, AddHtlc(Begin(p).log, q, m.amount))
  BY BeginSound, SoundLog, AddHtlcQuiet, OtherOwner
<1>4. Sound(p, s)
  BY <1>3, BeginSound, WithLogSound
<1> HIDE DEF s, reason
<1> QED
  BY <1>1, <1>2, <1>4, RespondKeeps

LEMMA OnUpdateRemoveHtlcKeeps ==
    ASSUME IInv, HInv, NInv, NEW p \in Owner, NEW kind \in RemovalKind, OnUpdateRemoveHtlc(p, kind)
    PROVE  Kept
<1> DEFINE m == Head(net[p])
           s == Removed(p, kind, p, m.id)
           S == IF kind = "settles" THEN SavePreimage({s}) ELSE {s}
           reason == CASE ~ CanUpdateCtx(p) -> "dropped"
                       [] m.id \notin DOMAIN log[p].adds[p] -> "unknown htlc_id"
                       [] ~ CanRemoveHtlc(log[p], p, m.id) -> "htlc is not there"
                       [] OTHER -> "none"
<1>1. Respond(p, reason, S) /\ net[p] # << >>
  BY DEF OnUpdateRemoveHtlc, Incoming
<1>2. reason = "none" => /\ peerState[p] = "GOOD"
                         /\ m.id \in DOMAIN log[p].adds[p] /\ CanRemoveHtlc(log[p], p, m.id)
  BY DEF CanUpdateCtx
<1>3. DOMAIN log[p].adds[p] = DOMAIN log[p].locked_in[p]
  BY PartyLog, LogInvParts DEF IInv, UpdateTypes
<1> HIDE DEF reason, m
<1>4. ASSUME reason = "none"
      PROVE  Sound(p, s)
  BY <1>2, <1>3, <1>4, RemovedSound
<1> HIDE DEF s
<1>5. ASSUME reason = "none", NEW t \in S
      PROVE  Sound(p, t)
  BY <1>4, <1>5, SavePreimageSound
<1> HIDE DEF S
<1> QED
  BY <1>1, <1>2, <1>5, RespondKeeps

LEMMA OnUpdateFeeKeeps ==
    ASSUME IInv, HInv, NInv, NEW p \in Owner, OnUpdateFee(p)
    PROVE  Kept
<1> DEFINE m == Head(net[p])
           s == [Begin(p) EXCEPT !.log = UpdateFee(Begin(p).log, Other(p), m.rate)]
           reason == CASE ~ CanUpdateCtx(p) -> "dropped"
                       [] p = Initiator -> "wrong initiator"
                       [] OTHER -> "none"
<1>1. Respond(p, reason, {s}) /\ net[p] # << >>
  BY DEF OnUpdateFee, Incoming
<1>2. reason = "none" => peerState[p] = "GOOD"
  BY DEF CanUpdateCtx
<1>3. Quiet(p, Begin(p).log, UpdateFee(Begin(p).log, Other(p), m.rate))
  BY BeginSound, SoundLog, UpdateFeeQuiet, OtherOwner
<1>4. Sound(p, s)
  BY <1>3, BeginSound, WithLogSound
<1> HIDE DEF s, reason
<1> QED
  BY <1>1, <1>2, <1>4, RespondKeeps

(* A signature that p accepts is for its next ctx: so the other has made one *)
(* for it.                                                                   *)
LEMMA CommitmentAccepted ==
    ASSUME IInv, used.restores = 0, NEW p \in Owner,
           NEW m \in Sent(net[p], "commitment_signed"), CommitmentRefusal(p, m.ctx) = "none"
    PROVE  /\ ~ log[p].revack_pending[p] /\ CtnNext(log[p], p) <= CtnLatest(log[Other(p)], p)
           /\ OneEach(signed[p]) /\ \A d \in signed[p] : d.ctn \in Nat
           /\ MakeCommitment(log[p], p, p, CtnNext(log[p], p)) \in signed[p]
<1> DEFINE q == Other(p)
<1>1. q \in Owner /\ Other(q) = p
  BY OtherOwner
<1>2. ~ log[p].revack_pending[p] /\ m.ctx = MakeCommitment(log[p], p, p, CtnNext(log[p], p))
  BY DEF CommitmentRefusal
<1>3. m.ctx.ctn = CtnNext(log[p], p)
  BY <1>2 DEF MakeCommitment
<1>4. m.ctx \in signed[p]
  BY DEF IInv, LinksKept, LinkKept
<1>5. SignedBy(log[q], p, signed[p]) /\ OneEach(signed[p])
  BY <1>1 DEF IInv, PartiesKept, PartyInv, LogKept
<1> QED
  BY <1>2, <1>3, <1>4, <1>5 DEF SignedBy

LEMMA HeadSent ==
    ASSUME InboxesKept, NEW p \in Owner, net[p] # << >>
    PROVE  Head(net[p]) \in Sent(net[p], Head(net[p]).type)
<1> DEFINE x == net[p]
           y == Tail(net[p])
<1>1. IsSequence(x) /\ x # << >> /\ y = Tail(x)
  BY DEF InboxesKept
<1> HIDE DEF x, y
<1>2. 1 \in DOMAIN x /\ Head(x) = x[1]
  BY <1>1, TailSequence
<1>3. Head(x) \in Sent(x, Head(x).type)
  BY <1>2 DEF Sent
<1> QED
  BY <1>3 DEF x

(* A party that still sends signatures has no channel_reestablish on its way. *)
LEMMA PeerIsGood ==
    ASSUME HInv, used.restores = 0, NEW p \in Owner, NEW type \in {"commitment_signed", "revoke_and_ack"},
           NEW m \in Sent(net[p], type), peerState[p] = "GOOD"
    PROVE  /\ Sent(net[Other(p)], "channel_reestablish") = {}
           /\ peerState[Other(p)] = "GOOD"
<1>1. Other(p) \in Owner /\ Other(Other(p)) = p
  BY OtherOwner
<1>2. Handshake(Other(p), p) /\ Handshake(p, Other(p))
  BY <1>1 DEF HInv
<1>3. peerState[Other(p)] = "GOOD"
  BY <1>2 DEF Handshake
<1> QED
  BY <1>2, <1>3 DEF Handshake

LEMMA OnCommitmentSignedKeeps ==
    ASSUME IInv, HInv, NInv, NEW p \in Owner, OnCommitmentSigned(p)
    PROVE  Kept
<1> DEFINE m == Head(net[p])
           s == Begin(p)
           t == RevokeAndAck(p, [s EXCEPT !.log = RecvCtx(s.log, p)])
           reason == CommitmentRefusal(p, m.ctx)
<1>1. Respond(p, reason, MaybeSendCommitment(p, {t})) /\ net[p] # << >>
      /\ m.type = "commitment_signed"
  BY DEF OnCommitmentSigned, Incoming
<1>2. Sound(p, s) /\ s.log = log[p]
  BY BeginSound
<1>3. m \in Sent(net[p], "commitment_signed")
  BY <1>1, HeadSent DEF IInv
<1>4. reason = "none" => peerState[p] = "GOOD"
  BY DEF CommitmentRefusal, CanUpdateCtx
<1> HIDE DEF m
<1>5. ASSUME reason = "none"
      PROVE  Sound(p, t)
  <2>1. used.restores = 0 => /\ ~ s.log.revack_pending[p]
                             /\ CtnNext(s.log, p) <= CtnLatest(log[Other(p)], p)
                             /\ Sent(net[Other(p)], "channel_reestablish") = {}
                             /\ OneEach(signed[p]) /\ \A d \in signed[p] : d.ctn \in Nat
                             /\ MakeCommitment(s.log, p, p, CtnNext(s.log, p)) \in signed[p]
    BY <1>2, <1>3, <1>4, <1>5, CommitmentAccepted, PeerIsGood
  <2> HIDE DEF s
  <2> QED
    BY <1>2, <2>1, RevokeAndAckSound
<1> HIDE DEF s, t, reason
<1>6. reason = "none" => \A x \in MaybeSendCommitment(p, {t}) : Sound(p, x)
  BY <1>5, MaybeSendCommitmentSound
<1> QED
  BY <1>1, <1>4, <1>6, RespondKeeps

(* The revocation that comes first in the inbox of p is one that q has made.  *)
LEMMA RevocationAccepted ==
    ASSUME IInv, HInv, NEW p \in Owner, net[p] # << >>, Head(net[p]).type = "revoke_and_ack",
           Head(net[p]).revoked = log[p].ctn[Other(p)], peerState[p] = "GOOD"
    PROVE  Sound(p, ReceiveRevocation(p, Begin(p)))
<1> DEFINE m == Head(net[p])
           q == Other(p)
           s == Begin(p)
<1>1. Sound(p, s) /\ s.log = log[p] /\ s.reports = {}
  BY BeginSound
<1>2. m \in Sent(net[p], "revoke_and_ack") /\ m.revoked = log[p].ctn[q]
  BY HeadSent DEF IInv
<1> HIDE DEF m
<1>3. Revoked(m, log[q].ctn[q])
  BY <1>2 DEF IInv, RevocationsKept
<1>4. used.restores = 0 => /\ Sent(net[q], "channel_reestablish") = {}
                           /\ Accepted(log[q], q, signed[q])
  BY <1>2, PeerIsGood DEF IInv, LinksKept, LinkKept
<1>5. s.log.ctn[q] < log[q].ctn[q]
  BY <1>1, <1>2, <1>3 DEF Revoked
<1> QED
  BY <1>1, <1>4, <1>5, ReceiveRevocationSound

LEMMA OnRevokeAndAckKeeps ==
    ASSUME IInv, HInv, NInv, NEW p \in Owner, OnRevokeAndAck(p)
    PROVE  Kept
<1> DEFINE m == Head(net[p])
           q == Other(p)
           t == ReceiveRevocation(p, Begin(p))
           reason == CASE ~ CanUpdateCtx(p) -> "dropped"
                       [] m.revoked # log[p].ctn[q] -> "wrong secret"
                       [] OTHER -> "none"
<1>1. Respond(p, reason, {t}) /\ net[p] # << >> /\ m.type = "revoke_and_ack"
  BY DEF OnRevokeAndAck, Incoming
<1>2. reason = "none" => peerState[p] = "GOOD" /\ m.revoked = log[p].ctn[q]
  BY DEF CanUpdateCtx
<1>3. ASSUME reason = "none"
      PROVE  Sound(p, t)
  BY <1>1, <1>2, <1>3, RevocationAccepted
<1> HIDE DEF t, reason
<1> QED
  BY <1>1, <1>2, <1>3, RespondKeeps

(* The verdict on a channel_reestablish that still says what the other has. *)
LEMMA VerdictIsOpen ==
    ASSUME NEW p \in Owner, NEW l, CounterTypes(l), NEW k, CounterTypes(k),
           Between(l, k, Other(p)), Between(k, l, p),
           NEW m, Announces(m, k, Other(p))
    PROVE  Verdict(l, p, m) = "OPEN"
<1> DEFINE q == Other(p)
<1>1. q \in Owner /\ q # p /\ Other(q) = p
  BY OtherOwner
<1>2. m.nextLocal = CtnNext(k, q) /\ m.oldestRemote = k.ctn[p]
  BY <1>1 DEF Announces
<1>3. /\ l.ctn[q] \in Nat /\ k.ctn[q] \in Nat /\ l.ctn[p] \in Nat /\ k.ctn[p] \in Nat
      /\ CtnLatest(l, q) \in {l.ctn[q], l.ctn[q] + 1} /\ CtnNext(l, q) = CtnLatest(l, q) + 1
      /\ CtnLatest(k, q) \in {k.ctn[q], k.ctn[q] + 1} /\ CtnNext(k, q) = CtnLatest(k, q) + 1
      /\ CtnLatest(l, p) \in {l.ctn[p], l.ctn[p] + 1}
      /\ CtnLatest(k, p) \in {k.ctn[p], k.ctn[p] + 1}
  BY <1>1, CtnType
<1>4. /\ l.ctn[q] <= k.ctn[q] /\ CtnLatest(k, q) <= CtnLatest(l, q)
      /\ k.ctn[p] <= l.ctn[p] /\ CtnLatest(l, p) <= CtnLatest(k, p)
  BY DEF Between
<1>5. ~ RemoteDiffers(l, p, m)
  BY <1>2, <1>3, <1>4 DEF RemoteDiffers, MustResend
<1>6. ~ LocalDiffers(l, p, m)
  <2>1. l.revack_pending[q] \in BOOLEAN
    BY <1>1 DEF CounterTypes
  <2>2. ~ l.revack_pending[q] => CtnLatest(l, q) = l.ctn[q]
    BY <1>3 DEF CtnLatest
  <2> HIDE DEF q
  <2> QED
    BY <1>2, <1>3, <1>4, <2>1, <2>2 DEF LocalDiffers, q
<1> QED
  BY <1>5, <1>6 DEF Verdict

LEMMA OnChannelReestablishKeeps ==
    ASSUME IInv, HInv, NInv, NEW p \in Owner, OnChannelReestablish(p)
    PROVE  Kept
<1> DEFINE m == Head(net[p])
           q == Other(p)
           y == Tail(net[p])
           l == log[p]
           state  == Verdict(l, p, m)
           result == IF state = "OPEN" THEN Reest("done", m.nextLocal, MustResend(l, p, m))
                                       ELSE BadReest
<1>1. q \in Owner /\ q # p /\ Other(q) = p /\ \A x \in Owner : x = p \/ x = q
  BY OtherOwner
<1>2. /\ net[p] # << >> /\ m.type = "channel_reestablish"
      /\ net' = [net EXCEPT ![p] = y]
      /\ UNCHANGED <<log, backup, up, sentReest, signed, reported, refused, used>>
  BY DEF OnChannelReestablish, Incoming, IInv, Frames
<1>3. IF chanState[p] # "OPEN"
        THEN UNCHANGED <<chanState, reest, disk, peerState>>
        ELSE /\ chanState' = [chanState EXCEPT ![p] = state]
             /\ reest' = [reest EXCEPT ![p] = result]
             /\ disk' = IF state = "OPEN" THEN disk ELSE [disk EXCEPT ![p] = Stored(l)]
             /\ peerState' = IF state = "WE_ARE_TOXIC" THEN [peerState EXCEPT ![p] = "BAD"]
                                                       ELSE peerState
  BY DEF OnChannelReestablish
<1>4. m \in Sent(net[p], "channel_reestablish")
  BY <1>2, HeadSent DEF IInv
<1> HIDE DEF m, state, result, y
<1>5. Inbox(p, y) /\ net'[p] = y /\ net'[q] = net[q] /\ net' = [x \in Owner |-> net'[x]]
  BY <1>1, <1>2, Inboxes DEF IInv, Frames, y
<1>6. \A x \in Owner : Inbox(x, net'[x])
  BY <1>1, <1>5, Inboxes DEF IInv
<1>7. FaultsKept
  BY <1>2, SameFaults DEF IInv
<1>8. ASSUME used.restores = 0
      PROVE  state = "OPEN" /\ chanState[p] = "OPEN"
  <2>1. LinkKept(p, q) /\ LinkKept(q, p)
    BY <1>1, <1>8 DEF IInv, LinksKept
  <2>2. Announces(m, log[q], q)
    BY <1>4, <2>1 DEF LinkKept
  <2>3. CounterTypes(log[p]) /\ CounterTypes(log[q])
    BY <1>1, PartyLog DEF IInv
  <2>4. Verdict(l, p, m) = "OPEN"
    BY <2>1, <2>2, <2>3, VerdictIsOpen DEF LinkKept
  <2> QED
    BY <1>8, <2>4 DEF HInv, Handshake, state
<1>9. IInv' /\ Grows
  <2>1. CASE UNCHANGED disk
    BY <1>2, <1>5, <1>6, <1>7, <2>1, NetKeeps
  <2>2. CASE disk' = [disk EXCEPT ![p] = Stored(l)] /\ ~ UNCHANGED disk
    <3> DEFINE s == Save(Begin(p))
    <3>1. Sound(p, s)
      BY BeginSound, SaveSound
    <3>2. /\ s.log = log[p] /\ s.disk = Stored(log[p]) /\ s.out = << >> /\ s.reports = {}
      BY DEF Save, Begin
    <3>3. Performed(p, s)
      BY <3>1, SoundPerformed
    <3> HIDE DEF s
    <3>4. Perform(p, s, y)
      <4>1. log' = [log EXCEPT ![p] = s.log]
        BY <1>2, <3>2 DEF IInv, Frames
      <4>2. disk' = [disk EXCEPT ![p] = s.disk]
        BY <2>2, <3>2
      <4>3. net' = [net EXCEPT ![p] = y, ![q] = net[q] \o s.out]
        <5>1. net[q] \o << >> = net[q]
          <6> DEFINE z == net[q]
                     R == Range(z)
          <6>1. z \in Seq(R)
            BY <1>1 DEF IInv, InboxesKept, IsSequence
          <6> HIDE DEF z, R
          <6>2. z \o << >> = z
            BY <6>1
          <6> QED
            BY <6>2 DEF z
        <5> QED
          BY <1>1, <1>2, <3>2, <5>1 DEF IInv, Frames
      <4>4. signed' = [signed EXCEPT ![q] = signed[q] \cup Signatures(s.out)]
        BY <1>1, <1>2, <3>2, EmptySent DEF IInv, Frames
      <4>5. reported' = [reported EXCEPT ![p] = reported[p] \cup s.reports]
        BY <1>2, <3>2 DEF IInv, Frames
      <4> HIDE DEF q
      <4> QED
        BY <1>1, <4>1, <4>2, <4>3, <4>4, <4>5 DEF Perform, Signatures, IInv, Frames, q
    <3> QED
      BY <1>2, <1>5, <3>3, <3>4, PerformKeeps
  <2> QED
    BY <1>3, <2>1, <2>2
<1>10. HInv'
  <2> SUFFICES ASSUME used.restores = 0
               PROVE  HInv'
    BY <1>2 DEF HInv
  <2>1. /\ reest' = [reest EXCEPT ![p] = result] /\ result.state = "done"
        /\ UNCHANGED <<chanState, peerState>>
    <3>1. state = "OPEN" /\ chanState[p] = "OPEN"
      BY <1>8
    <3>2. result.state = "done"
      BY <3>1 DEF result, Reest
    <3>3. chanState' = chanState
      BY <1>3, <3>1 DEF HInv
    <3> QED
      BY <1>3, <3>1, <3>2, <3>3
  <2>2. Handshake(p, q) /\ Handshake(q, p)
    BY <1>1 DEF HInv
  <2>3. /\ reest'[p].state = "done" /\ reest'[q] = reest[q]
        /\ reest' = [x \in Owner |-> reest'[x]]
    BY <1>1, <2>1 DEF HInv
  <2>4. Sent(y, "channel_reestablish") = {}
    <3> DEFINE x == net[p]
    <3>1. IsSequence(x) /\ x # << >> /\ y = Tail(x) /\ x[1].type = "channel_reestablish"
      <4>1. IsSequence(x) /\ x # << >> /\ y = Tail(x)
        BY <1>2 DEF IInv, InboxesKept, y
      <4> HIDE DEF x
      <4>2. Head(x) = x[1]
        BY <4>1, TailSequence
      <4> QED
        BY <1>2, <4>1, <4>2 DEF x, m
    <3>2. OneReest(x)
      BY <2>2 DEF Handshake
    <3> HIDE DEF x, y
    <3>3. 1 \in DOMAIN x
      BY <3>1, TailSequence
    <3>4. \A i \in DOMAIN y : i + 1 # 1 /\ i + 1 \in DOMAIN x /\ y[i] = x[i + 1]
      BY <3>1, TailSequence
    <3>5. \A i \in DOMAIN y : y[i].type # "channel_reestablish"
      BY <3>1, <3>2, <3>3, <3>4 DEF OneReest
    <3> QED
      BY <3>5 DEF Sent
  <2>5. /\ OneReest(y)
        /\ Sent(y, "commitment_signed") \subseteq Sent(net[p], "commitment_signed")
        /\ Sent(y, "revoke_and_ack") \subseteq Sent(net[p], "revoke_and_ack")
    BY <1>5, <2>2 DEF Inbox, MessageType, Handshake
  <2>6. Handshake(p, q)'
    BY <1>2, <1>5, <2>1, <2>2, <2>3 DEF Handshake
  <2>7. Handshake(q, p)'
    <3>1. sentReest[q]
      BY <1>4, <2>2 DEF Handshake
    <3> QED
      BY <1>2, <1>5, <2>1, <2>2, <2>3, <2>4, <2>5, <3>1 DEF Handshake
  <2> QED
    BY <1>1, <1>2, <2>1, <2>3, <2>6, <2>7 DEF HInv
<1>11. NInv'
  <2>1. CASE chanState[p] # "OPEN"
    BY <1>2, <1>3, <1>6, <2>1, TakenNumbers
  <2>2. CASE chanState[p] = "OPEN"
    <3>1. chanState' = [chanState EXCEPT ![p] = state]
      BY <1>3, <2>2
    <3>2. /\ chanState' = [x \in Owner |-> chanState'[x]]
          /\ chanState'[p] = state /\ chanState'[q] = chanState[q]
      BY <1>1, <3>1 DEF NInv
    <3> SUFFICES ASSUME used.restores <= 1, OneForgets
                 PROVE  OneForgets'
      BY <1>2, <3>2 DEF NInv
    <3>3. Numbers(p, q) /\ Numbers(q, p)
      BY <1>1 DEF OneForgets
    <3>4. /\ state = "FORCE_CLOSING" => Remembers(p)
          /\ state = "WE_ARE_TOXIC" => Remembers(q)
      <4>1. Reports(m, log[q].ctn[p], Remembers(p))
        BY <1>4, <3>3 DEF Numbers
      <4>2. l.ctn[p] \in Nat /\ log[q].ctn[p] \in Nat /\ m.oldestRemote \in Int
        BY <1>1, <4>1, CtnIsNat DEF Reports
      <4>3. ASSUME state = "FORCE_CLOSING"
            PROVE  m.oldestRemote <= l.ctn[p]
        BY <4>2, <4>3 DEF state, Verdict, RemoteDiffers, MustResend
      <4>4. ASSUME state = "WE_ARE_TOXIC"
            PROVE  m.oldestRemote > l.ctn[p]
        BY <4>2, <4>4 DEF state, Verdict
      <4>5. state = "FORCE_CLOSING" => Remembers(p)
        BY <4>1, <4>3 DEF Reports, Remembers
      <4>6. state = "WE_ARE_TOXIC" => ~ Remembers(p)
        BY <4>1, <4>2, <4>4 DEF Reports, Remembers
      <4> QED
        BY <1>1, <4>5, <4>6 DEF OneForgets
    <3>5. \A x \in Owner : Remembers(x)' <=> Remembers(x)
      BY <1>2 DEF Remembers
    <3>6. \A x \in Owner : Sent(net'[x], "channel_reestablish") \subseteq Sent(net[x], "channel_reestablish")
      BY <1>6 DEF Inbox, MessageType
    <3>7. Numbers(p, q)'
      BY <1>1, <1>2, <3>2, <3>3, <3>4, <3>5, <3>6 DEF Numbers, Reports
    <3>8. Numbers(q, p)'
      BY <1>1, <1>2, <3>2, <3>3, <3>4, <3>5, <3>6 DEF Numbers, Reports
    <3> QED
      BY <1>1, <1>2, <3>5, <3>7, <3>8 DEF OneForgets
  <2> QED
    BY <2>1, <2>2
<1> QED
  BY <1>9, <1>10, <1>11 DEF Kept

(* What was signed before may be said to be signed now. *)
LEMMA SignedAgain ==
    ASSUME NEW p \in Owner, NEW S, NEW R, NEW u, NEW l, NEW f, PartyInv(p, l, f, S, R, u),
           NEW T, u.restores = 0 => T = S
    PROVE  PartyInv(p, l, f, T, R, u)
BY DEF PartyInv, LogKept, FileKept

LEMMA OneMessage ==
    ASSUME NEW x, IsSequence(x), Sent(x, "channel_reestablish") = {}, NEW msg,
           NEW z, z = x \o Append(<< >>, msg)
    PROVE  OneReest(z)
<1> DEFINE M == Range(x) \cup {msg}
<1>1. x \in Seq(M) /\ msg \in M
  <2> DEFINE R == Range(x)
  <2>1. x \in Seq(R)
    BY DEF IsSequence
  <2> HIDE DEF R
  <2>2. x \in Seq(R \cup {msg})
    BY <2>1
  <2> QED
    BY <2>2 DEF R
<1> HIDE DEF M
<1>2. /\ Append(<< >>, msg) \in Seq(M) /\ Len(Append(<< >>, msg)) = 1
  BY <1>1
<1>3. /\ z \in Seq(M) /\ Len(z) = Len(x) + 1 /\ Len(x) \in Nat
      /\ DOMAIN z = 1 .. Len(z) /\ DOMAIN x = 1 .. Len(x)
  BY <1>1, <1>2
<1>4. \A i \in 1 .. Len(x) : z[i] = x[i]
  BY <1>1, <1>2
<1>5. \A i \in 1 .. Len(x) : z[i].type # "channel_reestablish"
  BY <1>3, <1>4 DEF Sent
<1>6. \A i \in DOMAIN z : z[i].type = "channel_reestablish" => i = Len(x) + 1
  BY <1>3, <1>5
<1> QED
  BY <1>6 DEF OneReest

LEMMA OnlyMessage ==
    ASSUME NEW msg, NEW type, NEW out, out = Append(<< >>, msg)
    PROVE  \A m \in Sent(out, type) : m = msg
<1>1. DOMAIN out = {1} /\ out[1] = msg
  OBVIOUS
<1> QED
  BY <1>1 DEF Sent

(* The step of reestablish_channel that sends the numbers. *)
LEMMA AnnouncePerformed ==
    ASSUME IInv, NEW p \in Owner, NEW l, Quiet(p, log[p], l), NEW msg,
           msg.type = "channel_reestablish",
           used.restores = 0 => Announces(msg, l, p),
           NEW t, t = Send([Begin(p) EXCEPT !.log = l], msg)
    PROVE  /\ Performed(p, t)
           /\ t.out = Append(<< >>, msg) /\ IsSequence(t.out)
           /\ \A type \in {"commitment_signed", "revoke_and_ack"} : Sent(t.out, type) = {}
<1> DEFINE s == [Begin(p) EXCEPT !.log = l]
<1>1. Sound(p, s)
  BY BeginSound, WithLogSound
<1>2. s.out = << >> /\ s.log = l /\ s.disk = disk[p] /\ s.reports = {}
  BY DEF Begin
<1>3. /\ t.log = l /\ t.disk = disk[p] /\ t.out = Append(s.out, msg) /\ t.reports = {}
  BY <1>2 DEF Send, Begin
<1> HIDE DEF s
<1>4. IsSequence(s.out) /\ \A type : Sent(s.out, type) = {}
  BY <1>2, EmptySent
<1>5. /\ IsSequence(t.out) /\ Signatures(t.out) = Signatures(s.out)
      /\ Sent(t.out, "revoke_and_ack") = Sent(s.out, "revoke_and_ack")
  <2>1. AfterSending(s.out, msg, t.out)
    BY <1>3, <1>4, SentAppended
  <2> QED
    BY <2>1 DEF AfterSending
<1>6. \A i \in DOMAIN t.out : t.out[i] = msg
  <2> DEFINE x == s.out
             y == t.out
  <2>1. IsSequence(x) /\ y = Append(x, msg)
    BY <1>3, <1>4
  <2>2. x = << >>
    BY <1>2
  <2> HIDE DEF x, y
  <2>3. \A i \in DOMAIN y : y[i] = msg \/ (i \in DOMAIN x /\ y[i] = x[i])
    BY <2>1, AppendSequence
  <2>4. \A i \in DOMAIN y : y[i] = msg
    BY <2>2, <2>3
  <2> QED
    BY <2>4 DEF y
<1>7. \A m \in Sent(t.out, "channel_reestablish") : m = msg
  BY <1>6 DEF Sent
<1>8. \A type \in {"commitment_signed", "revoke_and_ack"} : Sent(t.out, type) = {}
  BY <1>6 DEF Sent
<1>9. Performed(p, t)
  <2>1. used.restores = 0 => /\ Linked(p, t.log)
                             /\ \A m \in Sent(t.out, "channel_reestablish") : Announces(m, t.log, p)
    BY <1>1, <1>2, <1>3, <1>5, <1>7 DEF Sound
  <2>2. Truthful(p, t.log, t.out)
    BY <1>1, <1>2, <1>3, <1>5 DEF Sound, Truthful
  <2> QED
    BY <1>1, <1>2, <1>3, <1>5, <2>1, <2>2 DEF Sound, Performed
<1> QED
  BY <1>2, <1>3, <1>5, <1>8, <1>9

LEMMA StartReestablishKeeps ==
    ASSUME IInv, HInv, NInv, NEW p \in Owner, StartReestablish(p)
    PROVE  Kept
<1> DEFINE q      == Other(p)
           proper == chanState[p] = "OPEN"
           l      == IF proper THEN DiscardUnsignedRemoteUpdates(log[p], p) ELSE log[p]
           msg    == OurReest(p)
           t      == Send([Begin(p) EXCEPT !.log = l], msg)
<1>1. q \in Owner /\ q # p /\ Other(q) = p /\ \A x \in Owner : x = p \/ x = q
  BY OtherOwner
<1>2. /\ peerState[p] = "DISCONNECTED" \/ chanState[p] # "OPEN"
      /\ Perform(p, t, net[p])
      /\ sentReest' = [sentReest EXCEPT ![p] = TRUE]
      /\ peerState' = IF proper THEN [peerState EXCEPT ![p] = "REESTABLISHING"] ELSE peerState
      /\ UNCHANGED <<backup, up, chanState, reest, refused, used>>
  BY DEF StartReestablish
<1>3. ~ sentReest[p]
  BY DEF StartReestablish
<1>4. LogInv(log[p]) /\ CounterTypes(log[p])
  BY PartyLog DEF IInv
<1>5. Quiet(p, log[p], l)
  <2>1. Quiet(p, log[p], log[p])
    BY <1>4, SameIsLater, SameSteady DEF Quiet
  <2> QED
    BY <1>4, <2>1, DiscardQuiet
<1>6. msg.type = "channel_reestablish"
  BY DEF OurReest, ReestMsg
<1>7. used.restores = 0 => proper
  BY DEF HInv, Handshake
<1> HIDE DEF l
<1>8. used.restores = 0 => Announces(msg, l, p)
  <2> SUFFICES ASSUME used.restores = 0
               PROVE  Announces(msg, l, p)
    OBVIOUS
  <2>1. msg.nextLocal = CtnNext(log[p], p) /\ msg.oldestRemote = log[p].ctn[q]
    BY <1>7 DEF OurReest, ReestMsg
  <2>2. l.ctn = log[p].ctn /\ l.revack_pending = log[p].revack_pending
    <3>1. CounterTypes(l)
      BY <1>5, LogInvParts DEF Quiet
    <3> QED
      BY <1>4, <1>5, <3>1, SameCtn DEF Quiet
  <2>3. CtnNext(l, p) = CtnNext(log[p], p)
    BY <2>2 DEF CtnNext, CtnLatest
  <2> HIDE DEF msg
  <2> QED
    BY <2>1, <2>2, <2>3 DEF Announces
<1> HIDE DEF msg
<1>9. /\ Performed(p, t) /\ t.out = Append(<< >>, msg) /\ IsSequence(t.out)
      /\ \A type \in {"commitment_signed", "revoke_and_ack"} : Sent(t.out, type) = {}
  BY <1>5, <1>6, <1>8, AnnouncePerformed
<1> HIDE DEF t
<1>10. Inbox(p, net[p])
  BY Inboxes DEF IInv
<1>11. IInv' /\ Grows
  BY <1>2, <1>9, <1>10, PerformKeeps
<1>12. HInv'
  <2> SUFFICES ASSUME used.restores = 0
               PROVE  HInv'
    BY <1>2 DEF HInv
  <2> DEFINE new == net[q] \o t.out
  <2>1. net'[p] = net[p] /\ net'[q] = new
    <3>1. Effect(p, t, net[p])
      BY <1>2, PerformEffect DEF IInv
    <3> QED
      BY <3>1 DEF Effect
  <2>2. Handshake(p, q) /\ Handshake(q, p)
    BY <1>1 DEF HInv
  <2>3. /\ peerState[p] = "DISCONNECTED"
        /\ peerState' = [peerState EXCEPT ![p] = "REESTABLISHING"]
    BY <1>2, <1>7
  <2>4. /\ peerState'[p] = "REESTABLISHING" /\ peerState'[q] = peerState[q]
        /\ sentReest'[p] = TRUE /\ sentReest'[q] = sentReest[q]
        /\ peerState' = [x \in Owner |-> peerState'[x]]
        /\ sentReest' = [x \in Owner |-> sentReest'[x]]
    BY <1>1, <1>2, <2>3 DEF HInv
  <2>5. Sent(net[q], "channel_reestablish") = {}
    BY <1>3, <2>2 DEF Handshake
  <2>6. /\ Sent(net[q], "commitment_signed") = {} /\ Sent(net[q], "revoke_and_ack") = {}
    BY <2>2, <2>3 DEF Handshake
  <2>7. IsSequence(net[q])
    BY <1>1 DEF IInv, InboxesKept
  <2>8. Sent(new, "commitment_signed") = {} /\ Sent(new, "revoke_and_ack") = {}
    <3> DEFINE x == net[q]
               y == t.out
    <3>1. IsSequence(x) /\ IsSequence(y) /\ new = x \o y
      BY <1>9, <2>7
    <3> HIDE DEF x, y, new
    <3>2. ASSUME NEW type
          PROVE  Sent(new, type) \subseteq Sent(x, type) \cup Sent(y, type)
      BY <3>1, SentConcat
    <3> QED
      BY <1>9, <2>6, <3>2 DEF x, y
  <2>9. OneReest(new)
    <3> DEFINE x == net[q]
    <3>1. IsSequence(x) /\ Sent(x, "channel_reestablish") = {} /\ new = x \o Append(<< >>, msg)
      BY <1>9, <2>5, <2>7
    <3> HIDE DEF x, new
    <3> QED
      BY <3>1, OneMessage
  <2> HIDE DEF new
  <2>10. peerState[q] # "GOOD" /\ reest[q].state = "pending"
    BY <1>1, <1>3, <2>2, <2>3 DEF Handshake
  <2>11. Handshake(p, q)'
    BY <1>2, <2>1, <2>2, <2>4, <2>8, <2>9, <2>10 DEF Handshake
  <2>12. Handshake(q, p)'
    BY <1>2, <2>1, <2>2, <2>4 DEF Handshake
  <2> QED
    BY <1>1, <1>2, <2>4, <2>11, <2>12 DEF HInv
<1>13. l.ctn = log[p].ctn /\ CounterTypes(l)
  <2>1. CounterTypes(l)
    BY <1>5, LogInvParts DEF Quiet
  <2> QED
    BY <1>4, <1>5, <2>1, SameCtn DEF Quiet
<1>14. used.restores <= 1 => Reports(msg, l.ctn[q], Remembers(q))
  <2> SUFFICES ASSUME used.restores <= 1
               PROVE  Reports(msg, l.ctn[q], Remembers(q))
    OBVIOUS
  <2>1. log[p].ctn[q] \in Nat
    BY <1>1, CtnIsNat
  <2>2. CASE chanState[p] = "WE_ARE_TOXIC"
    <3>1. Numbers(q, p)
      BY <1>1 DEF NInv, OneForgets
    <3>2. Remembers(q)
      BY <2>2, <3>1 DEF Numbers
    <3>3. msg.oldestRemote = 0
      BY <2>2 DEF msg, OurReest, ReestMsg
    <3> QED
      BY <1>13, <2>1, <3>2, <3>3 DEF Reports
  <2>3. CASE chanState[p] # "WE_ARE_TOXIC"
    <3>1. msg.oldestRemote = log[p].ctn[q]
      BY <2>3 DEF msg, OurReest, ReestMsg
    <3> QED
      BY <1>13, <2>1, <3>1 DEF Reports
  <2> QED
    BY <2>2, <2>3
<1>15. NInv'
  <2>1. \A m \in Sent(t.out, "channel_reestablish") : m = msg
    <3> HIDE DEF msg
    <3> QED
      BY <1>9, OnlyMessage
  <2>2. t.log = l
    BY DEF t, Send
  <2> HIDE DEF q
  <2> QED
    BY <1>2, <1>9, <1>10, <1>13, <1>14, <2>1, <2>2, PerformNumbers DEF q
<1> QED
  BY <1>11, <1>12, <1>15 DEF Kept

LEMMA FinishReestablishKeeps ==
    ASSUME IInv, HInv, NInv, NEW p \in Owner, FinishReestablish(p)
    PROVE  Kept
<1> DEFINE q   == Other(p)
           out == SentAgain(log[p], p, reest[p])
           s   == [Begin(p) EXCEPT !.out = out]
<1>1. /\ reest[p].state = "done"
      /\ \E t \in MaybeUpdateFee(p, {s}) : Perform(p, t, net[p])
      /\ peerState' = [peerState EXCEPT ![p] = "GOOD"]
      /\ UNCHANGED <<backup, up, chanState, sentReest, reest, refused, used>>
  BY DEF FinishReestablish
<1>2. CounterTypes(log[p]) /\ MessagesKept(log[p], q)
  BY PartyLog DEF IInv, PartiesKept, PartyInv, LogKept
<1>3. /\ IsSequence(out) /\ Sent(out, "channel_reestablish") = {}
      /\ \A m \in Sent(out, "revoke_and_ack") : Revoked(m, log[p].ctn[p])
      /\ \A S : SignedBy(log[p], q, S) => Signatures(out) \subseteq S
  BY <1>2, SentAgainKept
<1> HIDE DEF out
<1>4. Sound(p, Begin(p)) /\ Begin(p).log = log[p] /\ Begin(p).out = << >>
  BY BeginSound
<1>5. /\ s = [f \in StepField |-> s[f]] /\ s.log = log[p] /\ s.disk = Begin(p).disk
      /\ s.out = out /\ s.reports = Begin(p).reports
  BY <1>4 DEF Sound, StepField
<1>6. Sound(p, s)
  <2>1. Signatures(Begin(p).out) = {}
    BY <1>4, EmptySent
  <2>2. PartyInv(p, log[p], Begin(p).disk, signed[q], reported[p] \cup Begin(p).reports, used)
    <3>1. signed[q] \cup Signatures(Begin(p).out) = signed[q]
      BY <2>1
    <3> QED
      BY <1>4, <3>1 DEF Sound
  <2>3. used.restores = 0 => signed[q] \cup Signatures(out) = signed[q]
    BY <1>3, <2>2 DEF PartyInv, LogKept
  <2>4. PartyInv(p, log[p], Begin(p).disk, signed[q] \cup Signatures(out),
                 reported[p] \cup Begin(p).reports, used)
    BY <2>2, <2>3, SignedAgain
  <2>5. /\ Truthful(p, log[p], out)
        /\ used.restores = 0 => Linked(p, log[p])
    BY <1>3, <1>4, <2>3 DEF Sound, Truthful
  <2> HIDE DEF s
  <2> QED
    BY <1>3, <1>4, <1>5, <2>4, <2>5 DEF Sound
<1>7. PICK t \in MaybeUpdateFee(p, {s}) : Perform(p, t, net[p])
  BY <1>1
<1> HIDE DEF s
<1>8. Sound(p, t)
  BY <1>6, <1>7, MaybeUpdateFeeSound
<1>9. Inbox(p, net[p])
  BY Inboxes DEF IInv
<1>10. Performed(p, t) /\ IsSequence(t.out) /\ Sent(t.out, "channel_reestablish") = {}
  BY <1>8, SoundPerformed DEF Sound
<1>11. IInv' /\ Grows
  BY <1>1, <1>7, <1>9, <1>10, PerformKeeps
<1>12. HInv'
  BY <1>1, <1>7, <1>9, <1>10, PerformHandshake DEF IInv
<1>13. NInv'
  BY <1>1, <1>7, <1>8, <1>9, <1>10, SoundLog, PerformNumbers
<1> QED
  BY <1>11, <1>12, <1>13 DEF Kept

LEMMA AbortReestablishKeeps ==
    ASSUME IInv, HInv, NInv, NEW p \in Owner, AbortReestablish(p)
    PROVE  Kept
<1>1. DropTransport /\ UNCHANGED <<log, disk, backup, chanState, signed, reported, used>>
  BY DEF AbortReestablish
<1>2. FaultsKept
  BY <1>1, SameFaults DEF IInv
<1>3. IInv' /\ Grows
  BY <1>1, <1>2, DropKeeps
<1>4. HInv'
  BY <1>1, DropHandshake
<1>5. NInv'
  BY <1>1, DropNumbers
<1> QED
  BY <1>3, <1>4, <1>5 DEF Kept

LEMMA DisconnectKeeps ==
    ASSUME IInv, HInv, NInv, Disconnect
    PROVE  Kept
<1>1. /\ DropTransport /\ UNCHANGED <<log, disk, backup, chanState, signed, reported>>
      /\ Use("disconnects", MaxDisconnects)
  BY DEF Disconnect
<1>2. FaultsKept
  BY <1>1, UseCounts DEF UsedField, IInv
<1>3. IInv' /\ Grows
  BY <1>1, <1>2, DropKeeps
<1>4. HInv'
  BY <1>1, <1>2, DropHandshake DEF FaultsKept
<1>5. NInv'
  BY <1>1, OtherUse, DropNumbers DEF UsedField, IInv
<1> QED
  BY <1>3, <1>4, <1>5 DEF Kept

LEMMA IdleKeeps ==
    ASSUME IInv, HInv, NInv,
           UNCHANGED <<log, disk, backup, net, peerState, chanState, sentReest, reest,
                       signed, reported, used>>
    PROVE  Kept
<1>1. FaultsKept
  BY SameFaults DEF IInv
<1>2. net' = [x \in Owner |-> net'[x]] /\ \A x \in Owner : Inbox(x, net'[x])
  BY Inboxes DEF IInv, Frames
<1>3. IInv' /\ Grows
  BY <1>1, <1>2, NetKeeps
<1>4. HInv'
  BY <1>2, TakenHandshake
<1>5. NInv'
  BY <1>2, TakenNumbers
<1> QED
  BY <1>3, <1>4, <1>5 DEF Kept

LEMMA CrashKeeps ==
    ASSUME IInv, HInv, NInv, NEW p \in Owner, Crash(p)
    PROVE  Kept
<1> DEFINE q == Other(p)
           f == disk[p]
<1>1. /\ Use("crashes", MaxCrashes) /\ Restart(p, f) /\ DropTransport
      /\ UNCHANGED <<chanState, reported>>
  BY DEF Crash, Restart
<1>2. FaultsKept
  BY <1>1, UseCounts DEF UsedField, IInv
<1>3. PartyInv(p, log[p], f, signed[q], reported[p], used)
  BY DEF IInv, PartiesKept
<1> HIDE DEF f
<1>4. FileKept(p, f, signed[q], used')
  BY <1>2, <1>3 DEF PartyInv, FileKept, FaultsKept
<1>5. Gone(f, p) = Gone(log[p], p) /\ Later(log[p], f)
  BY <1>3, FileGone
<1>6. f.ctn = log[p].ctn /\ f.revack_pending = log[p].revack_pending
  <2>1. CounterTypes(log[p]) /\ CounterTypes(f)
    BY PartyLog DEF IInv, f
  <2> QED
    BY <1>3, <2>1, SameCtn DEF PartyInv, InFile
<1>7. used'.restores = 0 => /\ Between(f, log[q], q) /\ Between(log[q], f, p)
                            /\ Agreed(p, f, log[q], signed[p])
  <2> SUFFICES ASSUME used'.restores = 0
               PROVE  /\ Between(f, log[q], q) /\ Between(log[q], f, p)
                      /\ Agreed(p, f, log[q], signed[p])
    OBVIOUS
  <2>2. Between(log[p], log[q], q) /\ Between(log[q], log[p], p)
    BY <1>2, OtherOwner DEF IInv, LinksKept, LinkKept, FaultsKept
  <2>3. Between(f, log[q], q) /\ Between(log[q], f, p)
    BY <1>6, <2>2 DEF Between, CtnLatest
  <2>4. Agreed(p, f, log[q], signed[p])
    <3>1. Agreed(p, log[p], log[q], signed[p])
      BY <1>2, LinksAgree DEF IInv, FaultsKept
    <3>2. StoredLogInv(log[p]) /\ StoredLogInv(f) /\ SameIrrevocable(log[p], f)
      BY <1>3, LogInvParts DEF PartyInv, LogKept, FileKept, InFile
    <3> QED
      BY <3>1, <3>2, AgreedSame
  <2> QED
    BY <2>3, <2>4
<1>8. IInv' /\ Grows
  <2>1. used'.restores = 0 /\ used'.midSaves = 0 => Gone(f, p) = reported[p]
    BY <1>2, <1>3, <1>5 DEF PartyInv, LogKept, FaultsKept
  <2>2. reported' = reported /\ reported = [x \in Owner |-> reported[x]]
    BY <1>1 DEF IInv, Frames
  <2> QED
    BY <1>1, <1>2, <1>4, <1>5, <1>7, <2>1, <2>2, RestartKeeps
<1>9. HInv'
  BY <1>1, <1>2, DropHandshake DEF FaultsKept
<1>10. NInv'
  <2>1. used'.restores = used.restores
    BY <1>1, OtherUse DEF UsedField, IInv
  <2> QED
    BY <1>1, <1>4, <1>5, <1>6, <2>1, RestartNumbers DEF FileKept
<1> QED
  BY <1>8, <1>9, <1>10 DEF Kept

(* The log in the middle of a handler: nothing irrevocable has changed, and a *)
(* signature of the other is there only if it has been made.                  *)
LEMMA HalfDoneLog ==
    ASSUME IInv, FaultsKept, used'.midSaves # 0, NEW p \in Owner, NEW l \in HalfDone(p)
    PROVE  /\ LogKept(p, l, signed[Other(p)], reported[p], used')
           /\ SameIrrevocable(log[p], l)
           /\ used'.restores = 0 =>
                Between(l, log[Other(p)], Other(p)) /\ Between(log[Other(p)], l, p)
<1> DEFINE q == Other(p)
           k == log[p]
           S == signed[q]
           R == reported[p]
<1>1. q \in Owner /\ q # p /\ Other(q) = p
  BY OtherOwner
<1>2. LogKept(p, k, S, R, used') /\ LogInv(k) /\ CounterTypes(k) /\ LogFrame(k)
  BY PartyLog, LogInvParts DEF IInv, PartiesKept, PartyInv, LogKept, FaultsKept
<1>3. used'.restores = 0 => Between(k, log[q], q) /\ Between(log[q], k, p)
  BY <1>1 DEF IInv, LinksKept, LinkKept, FaultsKept
<1>4. CounterTypes(log[q])
  BY <1>1, PartyLog DEF IInv
<1> HIDE DEF S, R
<1>5. ASSUME Quiet(p, k, l)
      PROVE  /\ LogKept(p, l, S, R, used') /\ SameIrrevocable(k, l)
             /\ used'.restores = 0 => Between(l, log[q], q) /\ Between(log[q], l, p)
  <2>1. LogInv(l) /\ CounterTypes(l) /\ SameIrrevocable(k, l)
    BY <1>5, LogInvParts DEF Quiet
  <2>2. l.ctn = k.ctn /\ l.revack_pending = k.revack_pending
    BY <1>2, <1>5, <2>1, SameCtn DEF Quiet
  <2>3. CtnLatest(k, q) <= CtnLatest(l, q)
    <3>1. CtnLatest(l, q) = CtnLatest(k, q) /\ CtnLatest(k, q) \in Nat
      BY <1>1, <1>2, <2>1, <2>2, CtnsOf, CtnType
    <3> QED
      BY <3>1
  <2>4. LogKept(p, l, S, R, used')
    <3>1. l.unacked_updates = k.unacked_updates /\ Steady(k, l, q)
      BY <1>5 DEF Quiet
    <3> HIDE DEF k, q
    <3> QED
      BY <1>2, <2>1, <2>2, <2>3, <3>1, AdvanceKeeps DEF q
  <2>5. used'.restores = 0 => Between(l, log[q], q) /\ Between(log[q], l, p)
    BY <1>3, <2>2 DEF Between, CtnLatest
  <2> QED
    BY <2>1, <2>4, <2>5
<1>6. CASE l = SendCtx(k, p) /\ CanSign(p, k)
  <2>1. LogInv(l) /\ SameIrrevocable(k, l)
    BY <1>2, <1>6, SendCtxInv, RecordOnlyIsLater
  <2>2. /\ l.ctn = k.ctn /\ l.revack_pending = [k.revack_pending EXCEPT ![q] = TRUE]
        /\ l.unacked_updates = k.unacked_updates
        /\ l.locked_in = k.locked_in /\ l.removes = k.removes
    BY <1>2, <1>6 DEF SendCtx, LogFrame, LogField
  <2>3. l.revack_pending[p] = k.revack_pending[p] /\ l.revack_pending[q] = TRUE
    BY <1>1, <1>2, <2>2 DEF CounterTypes
  <2>4. CtnLatest(k, q) <= CtnLatest(l, q) /\ CtnLatest(k, q) \in Nat /\ CtnLatest(l, q) \in Nat
    BY <1>1, <1>2, <1>6, <2>2, <2>3 DEF CanSign, CtnLatest, CounterTypes
  <2>5. LogKept(p, l, S, R, used')
    <3>1. Steady(k, l, q)
      BY <2>2, SameSteady
    <3> HIDE DEF k, q
    <3> QED
      BY <1>2, <2>1, <2>2, <2>4, <3>1, AdvanceKeeps DEF q
  <2>6. used'.restores = 0 => Between(l, log[q], q) /\ Between(log[q], l, p)
    <3>1. CtnLatest(l, p) = CtnLatest(k, p)
      BY <2>2, <2>3 DEF CtnLatest
    <3>2. CtnLatest(log[q], q) \in Nat
      BY <1>1, <1>4, CtnType
    <3> QED
      BY <1>3, <2>2, <2>4, <3>1, <3>2 DEF Between
  <2> QED
    BY <2>1, <2>5, <2>6 DEF S, R
<1>7. CASE l = AddHtlc(k, p, Amount[p])
  <2>1. Quiet(p, k, l)
    BY <1>2, <1>7, AddHtlcQuiet
  <2> QED
    BY <1>5, <2>1 DEF S, R
<1>8. CASE \E kind \in RemovalKind : \E id \in DOMAIN k.locked_in[q] :
             /\ IsIrrevocablyAdded(k, q, id) /\ CanRemoveHtlc(k, q, id)
             /\ l = RemoveHtlc(k, kind, q, id)
  <2>1. Quiet(p, k, l)
    BY <1>1, <1>2, <1>8, RemoveHtlcQuiet
  <2> QED
    BY <1>5, <2>1 DEF S, R
<1>9. CASE \E rate \in Feerates : l = UpdateFee(k, p, rate)
  <2>1. Quiet(p, k, l)
    BY <1>2, <1>9, UpdateFeeQuiet
  <2> QED
    BY <1>5, <2>1 DEF S, R
<1>10. CASE /\ l = RecvCtx(k, p) /\ net[p] # << >>
           /\ Head(net[p]).type = "commitment_signed"
           /\ CommitmentRefusal(p, Head(net[p]).ctx) = "none"
  <2>1. LogKept(p, l, S, R, used') /\ SameIrrevocable(k, l)
    <3> HIDE DEF k
    <3> QED
      BY <1>2, <1>10, RecvCtxKeeps
  <2>2. l.ctn = k.ctn /\ l.revack_pending = [k.revack_pending EXCEPT ![p] = TRUE]
    BY <1>2, <1>10 DEF RecvCtx, LogFrame, LogField
  <2>3. l.revack_pending[q] = k.revack_pending[q] /\ l.revack_pending[p] = TRUE
    BY <1>1, <1>2, <2>2 DEF CounterTypes
  <2>4. CtnLatest(l, q) = CtnLatest(k, q)
    BY <2>2, <2>3 DEF CtnLatest
  <2>5. used'.restores = 0 => ~ k.revack_pending[p] /\ CtnNext(k, p) <= CtnLatest(log[q], p)
    <3>1. Head(net[p]) \in Sent(net[p], "commitment_signed")
      BY <1>10, HeadSent DEF IInv
    <3> QED
      BY <1>10, <3>1, CommitmentAccepted DEF FaultsKept
  <2>6. used'.restores = 0 => CtnLatest(l, p) = CtnNext(k, p)
    BY <1>2, <2>2, <2>3, <2>5 DEF CtnLatest, CtnNext, CounterTypes
  <2>7. used'.restores = 0 => Between(l, log[q], q) /\ Between(log[q], l, p)
    BY <1>3, <2>2, <2>4, <2>5, <2>6 DEF Between
  <2> QED
    BY <2>1, <2>7 DEF S, R
<1>11. \/ l = SendCtx(k, p) /\ CanSign(p, k)
       \/ l = AddHtlc(k, p, Amount[p])
       \/ \E kind \in RemovalKind : \E id \in DOMAIN k.locked_in[q] :
             /\ IsIrrevocablyAdded(k, q, id) /\ CanRemoveHtlc(k, q, id)
             /\ l = RemoveHtlc(k, kind, q, id)
       \/ \E rate \in Feerates : l = UpdateFee(k, p, rate)
       \/ /\ l = RecvCtx(k, p) /\ net[p] # << >>
          /\ Head(net[p]).type = "commitment_signed"
          /\ CommitmentRefusal(p, Head(net[p]).ctx) = "none"
  <2>1. net[p] = << >> => 1 .. Len(net[p]) = {}
    OBVIOUS
  <2> QED
    BY <2>1 DEF HalfDone
<1> QED
  BY <1>6, <1>7, <1>8, <1>9, <1>10, <1>11

LEMMA CrashInHandlerKeeps ==
    ASSUME IInv, HInv, NInv, NEW p \in Owner, CrashInHandler(p)
    PROVE  Kept
<1> DEFINE q == Other(p)
<1>1. Use("midSaves", MaxMidSaves) /\ UNCHANGED <<chanState, reported>>
  BY DEF CrashInHandler
<1>2. PICK l \in HalfDone(p) : Restart(p, Stored(l))
  BY DEF CrashInHandler
<1> DEFINE f == Stored(l)
<1>3. FaultsKept /\ used'.midSaves # 0
  <2>1. "midSaves" \in UsedField
    BY DEF UsedField
  <2>2. FaultsKept /\ used'["midSaves"] # 0
    BY <1>1, <2>1, UseCounts DEF IInv
  <2> QED
    BY <2>2
<1>4. /\ LogKept(p, l, signed[q], reported[p], used')
      /\ SameIrrevocable(log[p], l)
  BY <1>3, HalfDoneLog
<1>5. used'.restores = 0 => Between(l, log[q], q) /\ Between(log[q], l, p)
  BY <1>3, HalfDoneLog
<1>6. FileKept(p, f, signed[q], used') /\ InFile(l, f)
  <2> HIDE DEF q
  <2> QED
    BY <1>4, StoredKept DEF q
<1> HIDE DEF f
<1>7. Later(l, f)
  BY <1>4, <1>6, FileGone DEF PartyInv
<1>8. /\ CounterTypes(l) /\ CounterTypes(f)
      /\ f.ctn = l.ctn /\ f.revack_pending = l.revack_pending
  <2>1. CounterTypes(l) /\ CounterTypes(f)
    BY <1>4, <1>6, LogInvParts DEF LogKept, FileKept, StoredLogInv, LogShape
  <2> QED
    BY <1>6, <2>1, SameCtn DEF InFile
<1>9. Later(log[p], f)
  <2>1. LogShape(log[p])
    BY PartyLog DEF IInv
  <2> QED
    BY <1>4, <1>7, <1>8, <2>1, LaterTransitive DEF SameIrrevocable
<1>10. used'.restores = 0 => /\ Between(f, log[q], q) /\ Between(log[q], f, p)
                             /\ Agreed(p, f, log[q], signed[p])
  <2>1. used'.restores = 0 => Between(f, log[q], q) /\ Between(log[q], f, p)
    BY <1>5, <1>8 DEF Between, CtnLatest
  <2>2. ASSUME used'.restores = 0
        PROVE  Agreed(p, f, log[q], signed[p])
    <3>1. Agreed(p, log[p], log[q], signed[p])
      BY <1>3, <2>2, LinksAgree DEF IInv, FaultsKept
    <3>2. /\ StoredLogInv(log[p]) /\ StoredLogInv(l) /\ StoredLogInv(f)
          /\ SameIrrevocable(log[p], l) /\ SameIrrevocable(l, f)
      BY <1>4, <1>6, PartyLog, LogInvParts DEF IInv, LogKept, FileKept, InFile
    <3>3. Agreed(p, l, log[q], signed[p])
      BY <3>1, <3>2, AgreedSame
    <3> QED
      BY <3>2, <3>3, AgreedSame
  <2> QED
    BY <2>1, <2>2
<1>11. IInv' /\ Grows
  <2>1. reported' = reported /\ reported = [x \in Owner |-> reported[x]]
    BY <1>1 DEF IInv, Frames
  <2> QED
    BY <1>2, <1>3, <1>6, <1>9, <1>10, <2>1, RestartKeeps DEF f
<1>12. HInv'
  BY <1>1, <1>2, <1>3, DropHandshake DEF FaultsKept, Restart
<1>13. NInv'
  <2>1. used'.restores = used.restores
    BY <1>1, OtherUse DEF UsedField, IInv
  <2>2. f.ctn = log[p].ctn
    BY <1>4, <1>8, PartyLog, SameCtn DEF IInv
  <2>3. Restart(p, f)
    BY <1>2 DEF f
  <2> QED
    BY <1>1, <1>6, <1>9, <2>1, <2>2, <2>3, RestartNumbers DEF FileKept
<1> QED
  BY <1>11, <1>12, <1>13 DEF Kept

(* The file that a revocation is saved to has what the step has. *)
LEMMA CrashInReportsKeeps ==
    ASSUME IInv, HInv, NInv, NEW p \in Owner, CrashInReports(p)
    PROVE  Kept
<1> DEFINE q == Other(p)
           t == ReceiveRevocation(p, Begin(p))
           l == t.log
           f == t.disk
<1>1. /\ Use("midSaves", MaxMidSaves) /\ Restart(p, f) /\ DropTransport /\ UNCHANGED chanState
      /\ net[p] # << >> /\ Head(net[p]) = RevokeMsg(log[p].ctn[q]) /\ peerState[p] = "GOOD"
      /\ \E told : reported' = [reported EXCEPT ![p] = reported[p] \cup told]
  BY DEF CrashInReports, Restart, CanUpdateCtx
<1>2. Head(net[p]).type = "revoke_and_ack" /\ Head(net[p]).revoked = log[p].ctn[q]
  BY <1>1 DEF RevokeMsg
<1>3. Sound(p, t)
  BY <1>1, <1>2, RevocationAccepted
<1>4. t.out = << >>
  BY DEF ReceiveRevocation, Save, Begin
<1> HIDE DEF t
<1>5. FaultsKept /\ used'.midSaves # 0 /\ used'.restores = used.restores
  <2>1. "midSaves" \in UsedField \ {"restores"}
    BY DEF UsedField
  <2>2. FaultsKept /\ used'["midSaves"] # 0 /\ used'.restores = used.restores
    BY <1>1, <2>1, UseCounts, OtherUse DEF IInv
  <2> QED
    BY <2>2
<1>6. reported' = [x \in Owner |-> reported'[x]] /\ reported'[q] = reported[q]
  BY <1>1, OtherOwner DEF IInv, Frames
<1>7. PartyInv(p, l, f, signed[q], reported[p] \cup t.reports, used)
  <2>1. signed[q] \cup Signatures(t.out) = signed[q]
    BY <1>4 DEF Signatures
  <2> QED
    BY <1>3, <2>1 DEF Sound
<1>8. /\ LogInv(l) /\ StoredLogInv(l) /\ StoredLogInv(f) /\ CounterTypes(l) /\ CounterTypes(f)
      /\ SameIrrevocable(l, f) /\ f.revack_pending = l.revack_pending
  BY <1>7, LogInvParts DEF PartyInv, LogKept, FileKept, InFile, StoredLogInv, LogShape
<1>9. f.ctn = l.ctn
  BY <1>8, SameCtn
<1>10. FileKept(p, f, signed[q], used')
  BY <1>5, <1>7 DEF PartyInv, FileKept, FaultsKept
<1> HIDE DEF l, f
<1>11. Later(log[p], f)
  <2>1. Later(log[p], l) /\ LogShape(log[p])
    BY <1>3 DEF Sound, l
  <2> QED
    BY <1>8, <2>1, LaterTransitive DEF SameIrrevocable
<1>12. used'.restores = 0 => /\ Between(f, log[q], q) /\ Between(log[q], f, p)
                             /\ Agreed(p, f, log[q], signed[p])
  <2> SUFFICES ASSUME used.restores = 0
               PROVE  /\ Between(f, log[q], q) /\ Between(log[q], f, p)
                      /\ Agreed(p, f, log[q], signed[p])
    BY <1>5
  <2>1. /\ Between(l, log[q], q) /\ Between(log[q], l, p)
        /\ Agreed(p, l, log[q], signed[p])
    BY <1>3 DEF Sound, Linked, l
  <2>2. Between(f, log[q], q) /\ Between(log[q], f, p)
    BY <1>8, <1>9, <2>1 DEF Between, CtnLatest
  <2> QED
    BY <1>8, <2>1, <2>2, AgreedSame
<1>13. IInv' /\ Grows
  BY <1>1, <1>5, <1>6, <1>10, <1>11, <1>12, RestartKeeps
<1>14. HInv'
  BY <1>1, <1>5, DropHandshake
<1>15. NInv'
  <2>1. f.ctn[q] = log[p].ctn[q] \/ f.ctn[q] <= log[q].ctn[q]
    BY <1>3, <1>9 DEF Sound, Truthful, l
  <2> QED
    BY <1>1, <1>5, <1>8, <1>11, <2>1, RestartNumbers
<1> QED
  BY <1>13, <1>14, <1>15 DEF Kept

LEMMA TakeBackupKeeps ==
    ASSUME IInv, HInv, NInv, NEW p \in Owner, TakeBackup(p)
    PROVE  Kept
<1>1. /\ backup' = [backup EXCEPT ![p] = disk[p]]
      /\ UNCHANGED <<log, disk, net, up, peerState, chanState, sentReest, reest,
                     signed, reported, refused, used>>
  BY DEF TakeBackup
<1>2. BackupKept(p, disk[p])
  BY DEF IInv, PartiesKept, PartyInv, FileKept, BackupKept
<1>3. BackupsKept'
  BY <1>1, <1>2 DEF IInv, Frames, BackupsKept, BackupKept
<1>4. Frames' /\ PartiesKept' /\ InboxesKept' /\ LinksKept' /\ RevocationsKept'
  BY <1>1 DEF IInv, Frames, PartiesKept, InboxesKept, LinksKept, LinkKept, RevocationsKept
<1>5. HInv'
  BY <1>1 DEF HInv, Handshake
<1>6. Grows
  BY <1>1, PartyLog, SameIsLater DEF IInv, Grows, SameIrrevocable
<1>7. NInv'
  <2>1. PartyInv(p, log[p], disk[p], signed[Other(p)], reported[p], used)
    BY DEF IInv, PartiesKept
  <2>2. disk[p].ctn = log[p].ctn
    BY <2>1, PartyLog, SameCtn DEF IInv, PartyInv, InFile
  <2>3. \A x \in Owner : log[p].ctn[x] \in Nat
    BY CtnIsNat
  <2>4. ASSUME NEW x \in Owner
        PROVE  (Remembers(x)' <=> Remembers(x)) /\ (Numbers(x, Other(x))' <=> Numbers(x, Other(x)))
    BY <1>1 DEF Remembers, Numbers, Reports
  <2>5. /\ \A x \in Owner : x # p => backup'[x] = backup[x]
        /\ \A o \in Owner : backup'[p].ctn[o] <= log[p].ctn[o]
    BY <1>1, <2>2, <2>3 DEF IInv, Frames
  <2>6. OneForgets => OneForgets'
    BY <1>1, <2>4, <2>5 DEF OneForgets
  <2> QED
    BY <1>1, <2>6 DEF NInv
<1> QED
  BY <1>3, <1>4, <1>5, <1>6, <1>7 DEF IInv, Kept

LEMMA RestoreBackupKeeps ==
    ASSUME IInv, HInv, NInv, NEW p \in Owner, RestoreBackup(p)
    PROVE  IInv' /\ HInv' /\ NInv' /\ used'.restores # used.restores
<1> DEFINE f == backup[p]
<1>1. Use("restores", MaxRestores) /\ Restart(p, f) /\ f # None /\ UNCHANGED reported
  BY DEF RestoreBackup
<1>2. FaultsKept /\ used'.restores # 0 /\ used'.restores # used.restores
  <2>1. "restores" \in UsedField
    BY DEF UsedField
  <2>2. FaultsKept /\ used'["restores"] # 0
    BY <1>1, <2>1, UseCounts DEF IInv
  <2>3. used' = [used EXCEPT !["restores"] = used["restores"] + 1] /\ used \in [UsedField -> Nat]
    BY <1>1 DEF Use, IInv, Frames
  <2> QED
    BY <2>1, <2>2, <2>3
<1>3. FileKept(p, f, signed[Other(p)], used')
  BY <1>1, <1>2 DEF IInv, BackupsKept, BackupKept, FileKept, FaultsKept
<1> HIDE DEF f
<1>4. IInv'
  <2>1. reported' = [x \in Owner |-> reported'[x]]
    BY <1>1 DEF IInv, Frames
  <2> QED
    BY <1>1, <1>2, <1>3, <2>1, RestartKeeps
<1>5. HInv'
  BY <1>2 DEF HInv
<1>6. NInv'
  BY <1>1, RestoreNumbers DEF f
<1> QED
  BY <1>2, <1>4, <1>5, <1>6

LEMMA StepKeeps ==
    ASSUME IInv, HInv, NInv, [Next]_vars
    PROVE  IInv' /\ HInv' /\ NInv' /\ (used'.restores = used.restores => Grows)
<1>1. ASSUME NEW p \in Owner, Protocol(p)
      PROVE  Kept
  <2>1. CASE \E kind \in RemovalKind : OnUpdateRemoveHtlc(p, kind)
    BY <2>1, OnUpdateRemoveHtlcKeeps
  <2>2. CASE Receive(p) /\ ~ \E kind \in RemovalKind : OnUpdateRemoveHtlc(p, kind)
    BY <2>2, OnUpdateAddHtlcKeeps, OnUpdateFeeKeeps, OnCommitmentSignedKeeps,
       OnRevokeAndAckKeeps, OnChannelReestablishKeeps DEF Receive
  <2> QED
    BY <1>1, <2>1, <2>2, SendCommitmentKeeps, StartReestablishKeeps,
       FinishReestablishKeeps, AbortReestablishKeeps DEF Protocol, Receive
<1>2. ASSUME NEW p \in Owner, Wallet(p)
      PROVE  Kept
  BY <1>2, SendHtlcKeeps, FulfillHtlcKeeps, FailHtlcKeeps, UpdateFeerateKeeps, SaveDbKeeps
  DEF Wallet
<1>3. ASSUME NEW p \in Owner, Fault(p)
      PROVE  Kept \/ (IInv' /\ HInv' /\ NInv' /\ used'.restores # used.restores)
  BY <1>3, CrashKeeps, CrashInHandlerKeeps, CrashInReportsKeeps, TakeBackupKeeps,
     RestoreBackupKeeps
  DEF Fault
<1>4. CASE Connect
  <2>1. UNCHANGED <<log, disk, backup, net, peerState, chanState, sentReest, reest,
                    signed, reported, used>>
    BY <1>4 DEF Connect
  <2> QED
    BY <2>1, IdleKeeps DEF Kept
<1>5. CASE UNCHANGED vars
  <2>1. UNCHANGED <<log, disk, backup, net, peerState, chanState, sentReest, reest,
                    signed, reported, used>>
    BY <1>5 DEF vars
  <2> QED
    BY <2>1, IdleKeeps DEF Kept
<1> QED
  BY <1>1, <1>2, <1>3, <1>4, <1>5, DisconnectKeeps DEF Next, Kept

LEMMA InitKept ==
    ASSUME Init
    PROVE  IInv /\ HInv /\ NInv
<1> DEFINE l == NewLog(Initiator, Min(Feerates))
           f == Stored(l)
<1>1. /\ LogInv(l) /\ l.ctn = [o \in Owner |-> 0] /\ l.unacked_updates = << >>
      /\ l.revack_pending = [o \in Owner |-> FALSE]
      /\ l.removes = [k \in RemovalKind |-> [o \in Owner |-> << >>]]
      /\ l.locked_in = [o \in Owner |-> << >>]
  BY InitiatorAssumption, NewLogInv DEF NewLog
<1>2. \A p \in Owner : /\ log[p] = l /\ disk[p] = f /\ backup[p] = None /\ net[p] = << >>
                       /\ signed[p] = {} /\ reported[p] = {}
                       /\ peerState[p] = "GOOD" /\ chanState[p] = "OPEN"
                       /\ sentReest[p] = FALSE /\ reest[p] = NoReest
  BY DEF Init
<1> HIDE DEF l
<1>3. Frames
  <2>1. used \in [UsedField -> Nat]
    BY DEF Init, UsedField
  <2> QED
    BY <2>1 DEF Init, Frames
<1>4. ASSUME NEW p \in Owner
      PROVE  PartyInv(p, l, f, {}, {}, used)
  <2>1. Other(p) \in Owner
    BY OtherOwner
  <2>2. DOMAIN l.unacked_updates = {}
    BY <1>1
  <2>3. MessagesKept(l, Other(p)) /\ SignedBy(l, Other(p), {}) /\ OneEach({})
    BY <2>2 DEF MessagesKept, SignedBy, OneEach
  <2>4. Replayable(l, Other(p))
    BY <1>1, <2>1 DEF Replayable
  <2>5. Gone(l, p) = {}
    <3>1. \A k \in RemovalKind : DOMAIN l.removes[k][p] = {}
      BY <1>1
    <3> QED
      BY <3>1 DEF Gone
  <2>6. Covered(l, Other(p), {})
    <3>1. \A k \in RemovalKind : DOMAIN l.removes[k][Other(p)] = {}
      BY <1>1, <2>1
    <3> QED
      BY <3>1 DEF Covered
  <2>7. LogKept(p, l, {}, {}, used)
    BY <1>1, <2>3, <2>4, <2>5, <2>6 DEF LogKept
  <2> QED
    BY <2>7, StoredKept DEF PartyInv
<1> HIDE DEF f
<1>5. PartiesKept
  BY <1>2, <1>4, OtherOwner DEF PartiesKept
<1>6. InboxesKept /\ BackupsKept
  BY <1>2, EmptySent DEF InboxesKept, BackupsKept
<1>7. LinksKept
  <2>1. ASSUME NEW p \in Owner
        PROVE  LinkKept(p, Other(p))
    <3>1. Between(l, l, Other(p))
      BY <1>1, OtherOwner DEF Between, CtnLatest
    <3>2. Credited(l, l, Other(p))
      BY DEF Credited
    <3>3. Accepted(l, Other(p), {})
      <4>1. l.ctn[Other(p)] = 0
        BY <1>1, OtherOwner
      <4>2. 1 .. 0 = {}
        OBVIOUS
      <4> QED
        BY <4>1, <4>2 DEF Accepted
    <3> QED
      BY <1>2, <3>1, <3>2, <3>3, OtherOwner, EmptySent DEF LinkKept
  <2> QED
    BY <2>1 DEF LinksKept
<1>8. RevocationsKept
  BY <1>2, EmptySent DEF RevocationsKept
<1>9. HInv
  <2>1. OneReest(<< >>)
    BY DEF OneReest
  <2>2. \A p \in Owner : Handshake(p, Other(p))
    BY <1>2, <2>1, OtherOwner, EmptySent DEF Handshake, NoReest, Reest
  <2> QED
    BY <2>2 DEF HInv, Init
<1>10. NInv
  <2>1. \A p \in Owner : Remembers(p)
    BY <1>1, <1>2, OtherOwner DEF Remembers
  <2>2. \A p \in Owner : Numbers(p, Other(p))
    BY <1>2, <2>1, EmptySent DEF Numbers
  <2> QED
    BY <1>2, <2>1, <2>2, InitiatorAssumption DEF NInv, OneForgets, Init
<1> QED
  BY <1>3, <1>5, <1>6, <1>7, <1>8, <1>9, <1>10 DEF IInv

(* The invariant of both. *)

LEMMA Inductive == Spec => [](IInv /\ HInv /\ NInv)
<1>1. Init => IInv /\ HInv /\ NInv
  BY InitKept
<1>2. IInv /\ HInv /\ NInv /\ [Next]_vars => (IInv /\ HInv /\ NInv)'
  BY StepKeeps
<1> QED
  BY <1>1, <1>2, PTL DEF Spec

-----------------------------------------------------------------------------
(*                               Theorems                                  *)

(* Whatever the two do and whatever happens to them, the log of each, its     *)
(* wallet file and every old copy of it keep the invariant of HTLCManager: in *)
(* the order in which the handlers call its methods, and from every file that *)
(* a restart may find, no ctn that is compared is None, no id is given twice, *)
(* an HTLC is removed once, and the cache hides none that still counts.       *)
THEOREM LogsStaySound == Spec => []LogsAreSound
<1>1. IInv => LogsAreSound
  BY PartyLog DEF IInv, LogsAreSound, BackupsKept, BackupKept
<1> QED
  BY <1>1, Inductive, PTL

(* While a party waits for a revocation, the commitment_signed that it waits  *)
(* for it to answer is there to be replayed after any disconnection, crash or *)
(* restored backup, unless the process died in the middle of a handler just   *)
(* after the wallet file had been written there.                              *)
THEOREM CommitmentStaysReplayable == Spec => []CommitmentCanBeReplayed
<1>1. IInv => CommitmentCanBeReplayed
  <2> SUFFICES ASSUME IInv, used.midSaves = 0, NEW p \in Owner
               PROVE  Replayable(log[p], Other(p))
    BY DEF CommitmentCanBeReplayed, Replayable
  <2> QED
    BY DEF IInv, PartiesKept, PartyInv, LogKept
<1> QED
  BY <1>1, Inductive, PTL

(* Nobody ever signs two ctxs for one ctn of the other, whatever is           *)
(* disconnected, crashes or is replayed, as long as no old copy of a wallet   *)
(* file is put to use ("they could end up with two (or more) signed valid     *)
(* commitment transactions at the same ctn", replay_updates_and_commitsig).   *)
THEOREM OneCtxIsSigned == Spec => [](used.restores = 0 => OneSignedCtxPerCtn)
<1>1. IInv => (used.restores = 0 => OneSignedCtxPerCtn)
  <2> SUFFICES ASSUME IInv, used.restores = 0, NEW p \in Owner
               PROVE  OneEach(signed[p])
    BY DEF OneSignedCtxPerCtn, OneEach
  <2>1. Other(p) \in Owner /\ Other(Other(p)) = p
    BY OtherOwner
  <2>2. OneEach(signed[Other(Other(p))])
    BY <2>1 DEF IInv, PartiesKept, PartyInv, LogKept
  <2> QED
    BY <2>1, <2>2
<1> QED
  BY <1>1, Inductive, PTL

(* A wallet is told of every payment whose HTLC is gone for good, once and    *)
(* with one outcome, across crashes between any two handlers: the revocation  *)
(* that makes a removal final is saved by the handler that reports it.        *)
THEOREM RemovalsAreReported ==
    Spec => [](used.restores = 0 /\ used.midSaves = 0 => EveryRemovalReported)
<1>1. IInv => (used.restores = 0 /\ used.midSaves = 0 => EveryRemovalReported)
  <2> SUFFICES ASSUME IInv, used.restores = 0, used.midSaves = 0, NEW p \in Owner,
                      NEW id \in DOMAIN log[p].adds[p], IsIrrevocablyRemoved(log[p], p, id)
               PROVE  Cardinality({r \in reported[p] : r[1] = id}) = 1
    BY DEF EveryRemovalReported
  <2>1. LogInv(log[p]) /\ UpdateTypes(log[p]) /\ RemovedOneWay(log[p])
    BY PartyLog, LogInvParts DEF IInv
  <2>2. id \in DOMAIN log[p].locked_in[p]
    BY <2>1 DEF UpdateTypes
  <2>3. PICK k \in RemovalKind : /\ id \in DOMAIN log[p].removes[k][p]
                                 /\ \A o \in Owner : Reached(log[p].removes[k][p][id][o], log[p].ctn[o])
    BY <2>1, <2>2, IrrevocablyRemovedIff
  <2>4. reported[p] = Gone(log[p], p)
    BY DEF IInv, PartiesKept, PartyInv, LogKept
  <2>5. <<id, k>> \in reported[p]
    BY <2>3, <2>4, OtherOwner DEF Gone
  <2>6. ASSUME NEW r \in reported[p], r[1] = id
        PROVE  r = <<id, k>>
    <3>0. PICK j \in RemovalKind : \E d \in DOMAIN log[p].removes[j][p] : r = <<d, j>>
      BY <2>4, <2>6 DEF Gone
    <3>1. PICK d \in DOMAIN log[p].removes[j][p] : r = <<d, j>>
      BY <3>0
    <3>2. d = id
      BY <2>6, <3>1
    <3>3. j = k
      BY <2>1, <2>3, <3>1, <3>2 DEF RemovedOneWay, RemovalKind
    <3> QED
      BY <3>1, <3>2, <3>3
  <2>7. {r \in reported[p] : r[1] = id} = {<<id, k>>}
    BY <2>5, <2>6
  <2> QED
    BY <2>7, FS_Singleton
<1> QED
  BY <1>1, Inductive, PTL

(* What the two have of each other's ctxs never differs by more than one      *)
(* signature and one revocation.                                              *)
THEOREM CtnsStayAligned == Spec => [](used.restores = 0 => CtnsAligned)
<1>1. IInv => (used.restores = 0 => CtnsAligned)
  <2> SUFFICES ASSUME IInv, used.restores = 0, NEW p \in Owner, NEW q, q = Other(p)
               PROVE  /\ CtnLatest(log[q], q) \in {CtnLatest(log[p], q), CtnLatest(log[p], q) - 1}
                      /\ log[p].ctn[q] \in {log[q].ctn[q], log[q].ctn[q] - 1}
    BY DEF CtnsAligned
  <2>1. Between(log[p], log[q], q) /\ q \in Owner
    BY OtherOwner DEF IInv, LinksKept, LinkKept
  <2>2. CounterTypes(log[p]) /\ CounterTypes(log[q])
    BY <2>1, PartyLog DEF IInv
  <2>3. /\ log[p].ctn[q] \in Nat /\ CtnLatest(log[p], q) \in {log[p].ctn[q], log[p].ctn[q] + 1}
        /\ log[q].ctn[q] \in Nat /\ CtnLatest(log[q], q) \in {log[q].ctn[q], log[q].ctn[q] + 1}
    BY <2>1, <2>2, CtnType
  <2> QED
    BY <2>1, <2>3 DEF Between
<1> QED
  BY <1>1, Inductive, PTL

(* An HTLC whose preimage a party reveals, or that it fails, is in every ctx  *)
(* that either could still publish or be held to: what this party knows to be *)
(* irrevocable is so for the other, although the two have seen different      *)
(* messages, and have lost some to disconnections and crashes.                *)
THEOREM FulfilledStaysCommitted == Spec => [](used.restores = 0 => FulfilledOnlyIfCommitted)
<1>1. IInv => (used.restores = 0 => FulfilledOnlyIfCommitted)
  <2> SUFFICES ASSUME IInv, used.restores = 0, NEW p \in Owner, NEW q, q = Other(p),
                      NEW id \in DOMAIN log[p].removes["settles"][q]
               PROVE  /\ id \in DOMAIN log[q].locked_in[q]
                      /\ \A o \in Owner : Reached(log[q].locked_in[q][id][o], CtnLatest(log[q], o))
    BY DEF FulfilledOnlyIfCommitted
  <2>1. q \in Owner /\ Other(q) = p /\ \A o \in Owner : o = p \/ o = q
    BY OtherOwner
  <2>2. Committed(log[p], q, id)
    BY KindOfRemoval DEF IInv, PartiesKept, PartyInv, LogKept, Covered
  <2>3. Committed(log[q], q, id)
    BY <2>2 DEF IInv, LinksKept, LinkKept, Credited, Committed
  <2>4. UpdatesInOrder(log[q]) /\ UpdateTypes(log[q]) /\ CounterTypes(log[q])
    BY <2>1, PartyLog, LogInvParts DEF IInv
  <2>5. InOrder(log[q], log[q].locked_in[q][id], p)
    BY <2>1, <2>3, <2>4 DEF UpdatesInOrder, Committed
  <2>6. \A o \in Owner : Reached(log[q].locked_in[q][id][o], log[q].ctn[o])
    BY <2>1, <2>3, <2>5 DEF InOrder, Reached, Committed
  <2>7. \A o \in Owner : /\ log[q].locked_in[q][id][o] \in Nat \cup {None}
                         /\ log[q].ctn[o] \in Nat /\ CtnLatest(log[q], o) \in Nat
                         /\ log[q].ctn[o] <= CtnLatest(log[q], o)
    <3>1. log[q].locked_in[q][id] \in Ctns
      BY <2>1, <2>3, <2>4 DEF UpdateTypes, Committed
    <3>2. \A o \in Owner : /\ log[q].ctn[o] \in Nat /\ CtnLatest(log[q], o) \in Nat
                           /\ log[q].ctn[o] <= CtnLatest(log[q], o)
      BY <2>4, CtnType DEF CounterTypes
    <3> QED
      BY <3>1, <3>2 DEF Ctns
  <2> QED
    BY <2>3, <2>6, <2>7 DEF Reached, Committed
<1> QED
  BY <1>1, Inductive, PTL

(* The numbers of a channel_reestablish never make a party close the channel, *)
(* however often and wherever the two were disconnected or crashed, as long   *)
(* as no old copy of a wallet file is put to use.                             *)
THEOREM ChannelStaysOpen == Spec => [](used.restores = 0 => NeverClosed)
<1>1. HInv => (used.restores = 0 => NeverClosed)
  BY DEF HInv, Handshake, NeverClosed
<1> QED
  BY <1>1, Inductive, PTL

(* A party that came back with an old copy of its wallet file, once, never    *)
(* publishes a ctx whose revocation secret the other has, whatever else is    *)
(* disconnected or crashes: the two compare their numbers first, and one that *)
(* has forgotten asks the other to close.                                     *)
THEOREM RevokedStaysUnpublished == Spec => [](used.restores <= 1 => NeverPublishesRevoked)
<1>1. IInv /\ NInv => (used.restores <= 1 => NeverPublishesRevoked)
  <2> SUFFICES ASSUME IInv, NInv, used.restores <= 1, NEW p \in Owner,
                      chanState[p] = "FORCE_CLOSING"
               PROVE  log[Other(p)].ctn[p] <= CtnLatest(log[p], p)
    BY DEF NeverPublishesRevoked
  <2>1. log[Other(p)].ctn[p] <= log[p].ctn[p]
    BY DEF NInv, OneForgets, Numbers, Remembers
  <2>2. /\ log[Other(p)].ctn[p] \in Nat /\ log[p].ctn[p] \in Nat
        /\ CtnLatest(log[p], p) \in {log[p].ctn[p], log[p].ctn[p] + 1}
    BY OtherOwner, CtnIsNat, PartyLog, CtnType DEF IInv
  <2> QED
    BY <2>1, <2>2
<1> QED
  BY <1>1, Inductive, PTL

(* An HTLC that is locked in stays so, over crashes and restarts too, but for *)
(* the steps that put an old copy of a wallet file to use.                    *)
THEOREM LockedInStays == Spec /\ [][used'.restores = used.restores]_vars => LockedInIsForGood
<1> DEFINE Stays == \A p \in Owner : \A id \in DOMAIN log[p].locked_in[Other(p)] :
                      IsIrrevocablyAdded(log[p], Other(p), id) =>
                        /\ id \in DOMAIN log'[p].locked_in[Other(p)]
                        /\ IsIrrevocablyAdded(log'[p], Other(p), id)
<1>1. ASSUME IInv, HInv, NInv, [Next]_vars, [used'.restores = used.restores]_vars
      PROVE  [Stays]_log
  <2> SUFFICES ASSUME used'.restores = used.restores
               PROVE  Stays
    BY <1>1 DEF vars
  <2>1. IInv' /\ Grows
    BY <1>1, StepKeeps
  <2>2. ASSUME NEW p \in Owner, NEW id \in DOMAIN log[p].locked_in[Other(p)],
               IsIrrevocablyAdded(log[p], Other(p), id)
        PROVE  /\ id \in DOMAIN log'[p].locked_in[Other(p)]
               /\ IsIrrevocablyAdded(log'[p], Other(p), id)
    <3>1. LogInv(log[p]) /\ LogInv(log'[p]) /\ Later(log[p], log'[p])
      BY <1>1, <2>1 DEF Grows, IInv, PartiesKept, PartyInv, LogKept
    <3>2. IsIrrevocablyAdded(log'[p], Other(p), id)
      BY <2>2, <3>1, LaterIsForGood, OtherOwner
    <3>3. id \in DOMAIN log'[p].locked_in[Other(p)]
      BY <2>2, <3>1, OtherOwner DEF IsIrrevocablyAdded, Later, Keeps
    <3> QED
      BY <3>2, <3>3
  <2> QED
    BY <2>2
<1>2. LockedInIsForGood <=> [][Stays]_log
  BY DEF LockedInIsForGood
<1> HIDE DEF Stays
<1> QED
  BY <1>1, <1>2, Inductive, PTL DEF Spec
=============================================================================

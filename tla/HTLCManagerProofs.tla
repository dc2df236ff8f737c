------------------------- MODULE HTLCManagerProofs -------------------------
(***************************************************************************)
(* What holds of every log that the methods of HTLCManager can produce, in *)
(* any order, for all ids, ctns and numbers of HTLCs.  LogInv is inductive *)
(* (HTLCLogProofs has a lemma for each method); the first properties       *)
(* follow.  Then two invariants more: BalanceKept for the balances that    *)
(* are computed from the cache, and FeesInOrder for the binary search      *)
(* through the feerates.                                                   *)
(***************************************************************************)
EXTENDS HTLCManager, HTLCLogProofs, Recursion

(* The inductive invariant: every method preserves LogInv. *)
THEOREM Invariance == Spec => []Inv
<1>1. Init => Inv
  BY NewLogInv DEF Init, Inv
<1>2. Inv /\ [Next]_log => Inv'
  <2> SUFFICES ASSUME Inv, [Next]_log
               PROVE  Inv'
    OBVIOUS
  <2> USE LocalAssumption DEF Inv
  <2>1. ASSUME NEW proposer \in Owner, Add(proposer)
        PROVE  Inv'
    BY <2>1, AddHtlcInv DEF Add
  <2>2. ASSUME NEW proposer \in Owner, NEW kind \in RemovalKind, SettleOrFail(kind, proposer)
        PROVE  Inv'
    BY <2>2, RemoveHtlcInv DEF SettleOrFail
  <2>3. CASE ChangeFeerate
    BY <2>3, UpdateFeeInv DEF ChangeFeerate
  <2>4. CASE SendCommitment
    BY <2>4, SendCtxInv DEF SendCommitment
  <2>5. CASE RecvCommitment
    BY <2>5, RecvCtxInv DEF RecvCommitment
  <2>6. CASE SendRevocation
    BY <2>6, SendRevInv DEF SendRevocation
  <2>7. CASE RecvRevocation
    BY <2>7, RecvRevInv DEF RecvRevocation
  <2>8. CASE Discard
    BY <2>8, DiscardInv DEF Discard
  <2>9. CASE Reload
    BY <2>9, StoredInv, LoadInv DEF Reload
  <2>10. CASE UNCHANGED log
    BY <2>10
  <2> QED
    BY <2>1, <2>2, <2>3, <2>4, <2>5, <2>6, <2>7, <2>8, <2>9, <2>10 DEF Next
<1> QED
  BY <1>1, <1>2, PTL DEF Spec

(* No ctn that the methods compare is None, no id that they look up is       *)
(* missing, and updates enter the two ctxs in order.                         *)
THEOREM TypeCorrect == Spec => []TypeOK
<1>1. Inv => TypeOK
  BY DEF Inv, LogInv, StoredLogInv, TypeOK
<1> QED
  BY <1>1, Invariance, PTL

(* An HTLC is removed in one way, and from ctxs that it was in. *)
THEOREM RemovalsAreSound == Spec => []RemovedOnce
<1>1. Inv => RemovedOnce
  BY DEF Inv, LogInv, StoredLogInv, RemovedOnce
<1> QED
  BY <1>1, Invariance, PTL

(* For the ctxs that are not revoked, looking at the cached ids only gives    *)
(* the HTLCs of the whole log.                                                *)
THEOREM CacheIsCorrect == Spec => []CacheHidesNothing
<1>1. Inv => CacheHidesNothing
  <2> SUFFICES ASSUME Inv,
                      NEW owner \in Owner, NEW p \in Owner, NEW n \in Int,
                      n >= log.ctn[owner],
                      NEW id \in DOMAIN log.locked_in[p],
                      IsActiveAt(log, owner, n, p, id)
               PROVE  id \in log.maybe_active[p]
    <3>1. Inv => \A p \in Owner : log.maybe_active[p] \subseteq DOMAIN log.locked_in[p]
      BY DEF Inv, LogInv, CacheIsSound
    <3>2. Inv => \A o \in Owner : log.ctn[o] \in Nat
      BY DEF Inv, LogInv, StoredLogInv, LogShape, CounterTypes
    <3> QED
      BY <3>1, <3>2, BoundsAssumption DEF CacheHidesNothing, HtlcsByProposer, ConsideredIds
  <2>1. /\ CounterTypes(log) /\ UpdateTypes(log) /\ CacheIsSound(log)
    BY LogInvParts DEF Inv
  <2>2. SUFFICES ASSUME id \notin log.maybe_active[p]
                 PROVE  FALSE
    OBVIOUS
  <2>3. PICK k \in RemovalKind :
           /\ id \in DOMAIN log.removes[k][p]
           /\ \A o \in Owner : Reached(log.removes[k][p][id][o], log.ctn[o] - SanityMargin)
    BY <2>1, <2>2 DEF CacheIsSound
  <2>4. log.ctn[owner] \in Nat /\ log.removes[k][p][id][owner] \in Nat \cup {None}
    BY <2>1, <2>3 DEF CounterTypes, UpdateTypes, Ctns
  <2>5. Reached(log.removes[k][p][id][owner], n)
    BY <2>3, <2>4 DEF Reached, SanityMargin
  <2> QED
    BY <2>3, <2>5 DEF IsActiveAt
<1> QED
  BY <1>1, Invariance, PTL

(* sent_in_ctn, failed_in_ctn and received_in_ctn are right to look at one    *)
(* ctx only: an update that the second party is bound to binds both.          *)
THEOREM OneCtxIsEnough == Spec => []SecondImpliesBoth
<1>1. Inv => SecondImpliesBoth
  <2> SUFFICES ASSUME Inv, NEW p \in Owner, NEW id \in DOMAIN log.locked_in[p]
               PROVE  /\ Reached(log.locked_in[p][id][p], log.ctn[p]) =>
                           IsIrrevocablyAdded(log, p, id)
                      /\ \A k \in RemovalKind :
                           /\ id \in DOMAIN log.removes[k][p]
                           /\ Reached(log.removes[k][p][id][Other(p)], log.ctn[Other(p)])
                           => IsIrrevocablyRemoved(log, p, id)
    BY DEF SecondImpliesBoth
  <2>1. /\ UpdatesInOrder(log) /\ IdsAreFresh(log) /\ LogInv(log)
    BY LogInvParts DEF Inv
  <2>2. /\ Other(p) \in Owner /\ Other(Other(p)) = p
        /\ \A o \in Owner : o = p \/ o = Other(p)
    BY OtherOwner
  <2>3. ASSUME Reached(log.locked_in[p][id][p], log.ctn[p])
        PROVE  IsIrrevocablyAdded(log, p, id)
    <3>1. InOrder(log, log.locked_in[p][id], Other(p))
      BY <2>1 DEF UpdatesInOrder
    <3>2. Reached(log.locked_in[p][id][Other(p)], log.ctn[Other(p)])
      BY <2>2, <2>3, <3>1 DEF InOrder, Reached
    <3>3. id < log.next_htlc_id[p]
      BY <2>1 DEF IdsAreFresh
    <3> QED
      BY <2>2, <2>3, <3>2, <3>3 DEF IsIrrevocablyAdded
  <2>4. ASSUME NEW k \in RemovalKind, id \in DOMAIN log.removes[k][p],
               Reached(log.removes[k][p][id][Other(p)], log.ctn[Other(p)])
        PROVE  IsIrrevocablyRemoved(log, p, id)
    <3>1. InOrder(log, log.removes[k][p][id], p)
      BY <2>1, <2>4 DEF UpdatesInOrder
    <3>2. Reached(log.removes[k][p][id][p], log.ctn[p])
      BY <2>4, <3>1 DEF InOrder, Reached
    <3>3. \A o \in Owner : Reached(log.removes[k][p][id][o], log.ctn[o])
      BY <2>2, <2>4, <3>2
    <3> QED
      BY <2>1, <2>4, <3>3, IrrevocablyRemovedIff
  <2> QED
    BY <2>3, <2>4
<1> QED
  BY <1>1, Invariance, PTL

(* No method ever undoes what both parties are bound to: an HTLC or a removal *)
(* that is irrevocable stays, with its ctns, through every revocation, every  *)
(* discard of unsigned updates and every restart.                             *)
THEOREM NothingIrrevocableIsUndone == Spec => IrrevocableIsForGood
<1> DEFINE ForGood ==
      \A p \in Owner : \A id \in DOMAIN log.locked_in[p] :
         /\ IsIrrevocablyAdded(log, p, id) =>
              /\ IsIrrevocablyAdded(log', p, id)
              /\ log'.locked_in[p][id] = log.locked_in[p][id]
         /\ IsIrrevocablyRemoved(log, p, id) => IsIrrevocablyRemoved(log', p, id)
<1>1. Inv /\ Inv' /\ [Next]_log => [ForGood]_log
  <2> SUFFICES ASSUME Inv, Inv', Next
               PROVE  ForGood
    OBVIOUS
  <2>1. LogInv(log) /\ LogInv(log')
    BY DEF Inv
  <2>2. Later(log, log')
    <3> USE <2>1, LocalAssumption DEF SameIrrevocable
    <3>1. ASSUME NEW proposer \in Owner, Add(proposer)
          PROVE  Later(log, log')
      BY <3>1, AddHtlcIsLater DEF Add
    <3>2. ASSUME NEW proposer \in Owner, NEW kind \in RemovalKind, SettleOrFail(kind, proposer)
          PROVE  Later(log, log')
      BY <3>2, RemoveHtlcIsLater DEF SettleOrFail
    <3>3. CASE ChangeFeerate
      BY <3>3, RecordOnlyIsLater DEF ChangeFeerate
    <3>4. CASE SendCommitment
      BY <3>4, RecordOnlyIsLater DEF SendCommitment
    <3>5. CASE RecvCommitment
      BY <3>5, RecordOnlyIsLater DEF RecvCommitment
    <3>6. CASE SendRevocation
      BY <3>6, SendRevIsLater DEF SendRevocation
    <3>7. CASE RecvRevocation
      BY <3>7, RecvRevIsLater DEF RecvRevocation
    <3>8. CASE Discard
      BY <3>8, DiscardIsLater DEF Discard
    <3>9. CASE Reload
      BY <3>9, RecordOnlyIsLater DEF Reload
    <3> QED
      BY <3>1, <3>2, <3>3, <3>4, <3>5, <3>6, <3>7, <3>8, <3>9 DEF Next
  <2> QED
    BY <2>1, <2>2, LaterIsForGood
<1> QED
  BY <1>1, Invariance, PTL DEF Spec, IrrevocableIsForGood

-----------------------------------------------------------------------------
(*                                Balances                                 *)

(* The settled HTLCs of p that are not in the cache any more, and what they  *)
(* sum up to.                                                                *)
Left(l, p) == {id \in DOMAIN l.removes["settles"][p] : id \notin l.maybe_active[p]}
PaidByLeft(l, p) == SumOf(l.adds[p], Left(l, p))

(* Amounts are numbers. *)
AmountTypes(l) == \A p \in Owner : \A id \in DOMAIN l.adds[p] : l.adds[p][id] \in Nat

(* balance_delta is what the HTLCs that left the cache have changed. *)
BalanceKept(l, me) ==
    /\ AmountTypes(l)
    /\ l.balance_delta = PaidByLeft(l, Other(me)) - PaidByLeft(l, me)

(* A log has finitely many HTLCs, and removes only those it has. *)
LEMMA AddsAreFinite ==
    ASSUME NEW l, StoredLogInv(l), NEW p \in Owner
    PROVE  /\ IsFiniteSet(DOMAIN l.adds[p])
           /\ \A k \in RemovalKind : DOMAIN l.removes[k][p] \subseteq DOMAIN l.adds[p]
<1>1. /\ l.next_htlc_id[p] \in Nat
      /\ DOMAIN l.adds[p] = DOMAIN l.locked_in[p] /\ DOMAIN l.locked_in[p] \subseteq Nat
      /\ \A k \in RemovalKind : DOMAIN l.removes[k][p] \subseteq DOMAIN l.locked_in[p]
  BY DEF StoredLogInv, LogShape, CounterTypes, UpdateTypes
<1>2. \A id \in DOMAIN l.locked_in[p] : id \in 0 .. (l.next_htlc_id[p] - 1)
  BY <1>1 DEF StoredLogInv, IdsAreFresh
<1>3. DOMAIN l.adds[p] \subseteq 0 .. (l.next_htlc_id[p] - 1)
  BY <1>1, <1>2
<1>4. IsFiniteSet(0 .. (l.next_htlc_id[p] - 1))
  BY <1>1, FS_Interval
<1> QED
  BY <1>1, <1>3, <1>4, FS_Subset

(* What some of them, and those that left the cache, sum up to is a number. *)
LEMMA SumOfIds ==
    ASSUME NEW l, StoredLogInv(l), AmountTypes(l), NEW p \in Owner, NEW S \in SUBSET DOMAIN l.adds[p]
    PROVE  SumOf(l.adds[p], S) \in Nat
BY AddsAreFinite, SumIsNat DEF AmountTypes

LEMMA LeftAreAdded ==
    ASSUME NEW l, StoredLogInv(l), AmountTypes(l), NEW p \in Owner
    PROVE  Left(l, p) \in SUBSET DOMAIN l.adds[p] /\ PaidByLeft(l, p) \in Nat
<1>1. Left(l, p) \in SUBSET DOMAIN l.adds[p]
  BY AddsAreFinite, KindOfRemoval DEF Left
<1> QED
  BY <1>1, SumOfIds DEF PaidByLeft

(* What changes neither the HTLCs that left nor their amounts. *)
LEMMA BalanceSame ==
    ASSUME NEW l, StoredLogInv(l), NEW me \in Owner, BalanceKept(l, me),
           NEW m, AmountTypes(m), m.balance_delta = l.balance_delta,
           \A p \in Owner : /\ Left(m, p) = Left(l, p)
                            /\ \A id \in Left(l, p) : m.adds[p][id] = l.adds[p][id]
    PROVE  BalanceKept(m, me)
<1>1. ASSUME NEW p \in Owner
      PROVE  PaidByLeft(m, p) = PaidByLeft(l, p)
  <2>1. Left(l, p) \in SUBSET DOMAIN l.adds[p]
    BY LeftAreAdded DEF BalanceKept
  <2>2. IsFiniteSet(Left(l, p))
    BY <2>1, AddsAreFinite, FS_Subset
  <2>3. \A id \in Left(l, p) : l.adds[p][id] \in Nat /\ m.adds[p][id] = l.adds[p][id]
    BY <2>1 DEF BalanceKept, AmountTypes
  <2>4. SumOf(m.adds[p], Left(l, p)) = SumOf(l.adds[p], Left(l, p))
    BY <2>2, <2>3, SumSame
  <2> QED
    BY <2>4 DEF PaidByLeft
<1>2. PaidByLeft(m, me) = PaidByLeft(l, me) /\ PaidByLeft(m, Other(me)) = PaidByLeft(l, Other(me))
  BY <1>1, OtherOwner
<1> QED
  BY <1>2 DEF BalanceKept

(* _update_maybe_active_htlc_ids counts what it takes out of the cache. *)
LEMMA ForgetKeepsBalance ==
    ASSUME NEW l, LogInv(l), NEW me \in Owner, BalanceKept(l, me),
           NEW m, m = UpdateMaybeActive(l, me)
    PROVE  BalanceKept(m, me)
<1> DEFINE Out(p) == Forgettable(l, "settles", p)
<1>0. LogFrame(l) /\ CounterTypes(l) /\ StoredLogInv(l) /\ RemovedOneWay(l) /\ CacheIsSound(l)
  BY LogInvParts
<1>1. /\ m.adds = l.adds /\ m.removes = l.removes
      /\ m.maybe_active = [p \in Owner |->
            l.maybe_active[p] \ UNION {Forgettable(l, k, p) : k \in RemovalKind}]
      /\ m.balance_delta = l.balance_delta + BalanceOfForgotten(l, me)
  BY <1>0 DEF UpdateMaybeActive, LogFrame, LogField
<1>2. ASSUME NEW p \in Owner
      PROVE  Left(m, p) = Left(l, p) \cup Out(p) /\ Left(l, p) \cap Out(p) = {}
  <2>1. m.maybe_active[p] = l.maybe_active[p] \ (Out(p) \cup Forgettable(l, "fails", p))
    <3>1. UNION {Forgettable(l, k, p) : k \in RemovalKind} = Out(p) \cup Forgettable(l, "fails", p)
      BY DEF RemovalKind
    <3> QED
      BY <1>1, <3>1
  <2>2. \A id \in Forgettable(l, "fails", p) : id \notin DOMAIN l.removes["settles"][p]
    BY <1>0 DEF Forgettable, RemovedOneWay
  <2>3. Out(p) \subseteq l.maybe_active[p] /\ Out(p) \subseteq DOMAIN l.removes["settles"][p]
    BY DEF Forgettable
  <2> HIDE DEF Out
  <2> QED
    BY <1>1, <2>1, <2>2, <2>3 DEF Left
<1>3. ASSUME NEW p \in Owner
      PROVE  /\ PaidByLeft(m, p) = PaidByLeft(l, p) + SumOf(l.adds[p], Out(p))
             /\ SumOf(l.adds[p], Out(p)) \in Nat /\ PaidByLeft(l, p) \in Nat
  <2>1. Left(l, p) \in SUBSET DOMAIN l.adds[p] /\ PaidByLeft(l, p) \in Nat
    BY <1>0, LeftAreAdded DEF BalanceKept
  <2>2. Out(p) \in SUBSET DOMAIN l.adds[p]
    BY <1>0, AddsAreFinite, KindOfRemoval DEF Forgettable
  <2> HIDE DEF Out
  <2>3. SumOf(l.adds[p], Left(l, p) \cup Out(p)) = PaidByLeft(l, p) + SumOf(l.adds[p], Out(p))
    <3>1. IsFiniteSet(DOMAIN l.adds[p]) /\ \A id \in DOMAIN l.adds[p] : l.adds[p][id] \in Nat
      BY <1>0, AddsAreFinite DEF BalanceKept, AmountTypes
    <3> QED
      BY <1>2, <2>1, <2>2, <3>1, SumOfBoth DEF PaidByLeft
  <2>4. PaidByLeft(m, p) = SumOf(l.adds[p], Left(l, p) \cup Out(p))
    BY <1>1, <1>2 DEF PaidByLeft
  <2> QED
    BY <1>0, <2>1, <2>2, <2>3, <2>4, SumOfIds DEF BalanceKept
<1>4. BalanceOfForgotten(l, me) = SumOf(l.adds[Other(me)], Out(Other(me))) - SumOf(l.adds[me], Out(me))
  BY DEF BalanceOfForgotten, SumOf
<1>5. AmountTypes(m)
  BY <1>1 DEF BalanceKept, AmountTypes
<1> HIDE DEF Out
<1>6. Other(me) \in Owner
  BY OtherOwner
<1>7. /\ PaidByLeft(m, me) = PaidByLeft(l, me) + SumOf(l.adds[me], Out(me))
      /\ SumOf(l.adds[me], Out(me)) \in Nat /\ PaidByLeft(l, me) \in Nat
  BY <1>3
<1>8. /\ PaidByLeft(m, Other(me)) = PaidByLeft(l, Other(me)) + SumOf(l.adds[Other(me)], Out(Other(me)))
      /\ SumOf(l.adds[Other(me)], Out(Other(me))) \in Nat /\ PaidByLeft(l, Other(me)) \in Nat
  BY <1>3, <1>6
<1>9. l.balance_delta = PaidByLeft(l, Other(me)) - PaidByLeft(l, me)
  BY DEF BalanceKept
<1>10. m.balance_delta = PaidByLeft(m, Other(me)) - PaidByLeft(m, me)
  BY <1>1, <1>4, <1>7, <1>8, <1>9
<1> QED
  BY <1>5, <1>10 DEF BalanceKept

(* send_htlc, recv_htlc: the new HTLC is cached, and not settled. *)
LEMMA AddKeepsBalance ==
    ASSUME NEW l, LogInv(l), NEW me \in Owner, BalanceKept(l, me), NEW p \in Owner,
           NEW amount \in Nat, NEW m, m = AddHtlc(l, p, amount)
    PROVE  BalanceKept(m, me)
<1> DEFINE new == l.next_htlc_id[p]
<1>0. LogFrame(l) /\ CounterTypes(l) /\ UpdateTypes(l) /\ StoredLogInv(l) /\ IdsAreFresh(l)
  BY LogInvParts
<1>1. /\ m.removes = l.removes /\ m.balance_delta = l.balance_delta
      /\ m.maybe_active = [l.maybe_active EXCEPT ![p] = @ \cup {new}]
      /\ m.adds = [l.adds EXCEPT ![p] = With(@, new, amount)]
  BY <1>0 DEF AddHtlc, LogFrame, LogField
<1>2. \A q \in Owner : new \notin DOMAIN l.locked_in[q] \/ q # p
  BY <1>0 DEF IdsAreFresh, CounterTypes
<1> HIDE DEF new
<1>3. /\ \A q \in Owner \ {p} : m.adds[q] = l.adds[q] /\ m.maybe_active[q] = l.maybe_active[q]
      /\ m.adds[p] = With(l.adds[p], new, amount)
      /\ m.maybe_active[p] = l.maybe_active[p] \cup {new}
  BY <1>0, <1>1 DEF LogFrame, CounterTypes
<1>4. /\ DOMAIN m.adds[p] = DOMAIN l.adds[p] \cup {new}
      /\ m.adds[p][new] = amount
      /\ \A id \in DOMAIN l.adds[p] : id # new => m.adds[p][id] = l.adds[p][id]
  BY <1>3 DEF With
<1>5. AmountTypes(m)
  <2> SUFFICES ASSUME NEW q \in Owner, NEW id \in DOMAIN m.adds[q]
               PROVE  m.adds[q][id] \in Nat
    BY DEF AmountTypes
  <2>1. \A i \in DOMAIN l.adds[q] : l.adds[q][i] \in Nat
    BY DEF BalanceKept, AmountTypes
  <2>2. CASE q = p
    BY <1>4, <2>1, <2>2
  <2>3. CASE q # p
    BY <1>3, <2>1, <2>3
  <2> QED
    BY <2>2, <2>3
<1>6. ASSUME NEW q \in Owner
      PROVE  Left(m, q) = Left(l, q) /\ \A id \in Left(l, q) : m.adds[q][id] = l.adds[q][id]
  <2>1. Left(l, q) \in SUBSET DOMAIN l.adds[q] /\ DOMAIN l.adds[q] = DOMAIN l.locked_in[q]
        /\ DOMAIN l.removes["settles"][q] \subseteq DOMAIN l.adds[q]
    BY <1>0, LeftAreAdded, AddsAreFinite, KindOfRemoval DEF BalanceKept, UpdateTypes
  <2>2. CASE q = p
    BY <1>1, <1>2, <1>3, <1>4, <2>1, <2>2 DEF Left
  <2>3. CASE q # p
    BY <1>1, <1>3, <2>1, <2>3 DEF Left
  <2> QED
    BY <2>2, <2>3
<1>7. \A q \in Owner : /\ Left(m, q) = Left(l, q)
                      /\ \A id \in Left(l, q) : m.adds[q][id] = l.adds[q][id]
  BY <1>6
<1>8. m.balance_delta = l.balance_delta
  BY <1>1
<1> HIDE DEF new
<1> QED
  BY <1>0, <1>5, <1>7, <1>8, BalanceSame

(* What is removed is in the cache: it is active in a ctx still to come. *)
LEMMA RemoveKeepsBalance ==
    ASSUME NEW l, LogInv(l), NEW me \in Owner, BalanceKept(l, me), NEW kind \in RemovalKind,
           NEW p \in Owner, NEW id \in DOMAIN l.locked_in[p], CanRemoveHtlc(l, p, id),
           NEW m, m = RemoveHtlc(l, kind, p, id)
    PROVE  BalanceKept(m, me)
<1> DEFINE c == EntersFirst(p, CtnNext(l, p))
<1>0. LogFrame(l) /\ CounterTypes(l) /\ UpdateTypes(l) /\ StoredLogInv(l) /\ CacheIsSound(l)
  BY LogInvParts
<1>1. /\ m.adds = l.adds /\ m.maybe_active = l.maybe_active /\ m.balance_delta = l.balance_delta
      /\ m.removes = [l.removes EXCEPT ![kind][p] = With(@, id, c)]
  BY <1>0 DEF RemoveHtlc, LogFrame, LogField
<1> HIDE DEF c
<1>2. ASSUME NEW k \in RemovalKind, NEW q \in Owner
      PROVE  DOMAIN m.removes[k][q] =
                DOMAIN l.removes[k][q] \cup (IF k = kind /\ q = p THEN {id} ELSE {})
  <2>1. DOMAIN l.removes = RemovalKind /\ DOMAIN l.removes[k] = Owner
    BY <1>0 DEF LogFrame
  <2>2. CASE k = kind /\ q = p
    <3>1. m.removes[k][q] = With(l.removes[k][q], id, c)
      BY <1>1, <2>1, <2>2
    <3> QED
      BY <2>2, <3>1 DEF With
  <2>3. CASE ~ (k = kind /\ q = p)
    <3>1. m.removes[k][q] = l.removes[k][q]
      BY <1>1, <2>1, <2>3
    <3> QED
      BY <2>3, <3>1
  <2> QED
    BY <2>2, <2>3
<1>3. id \in l.maybe_active[p]
  <2> SUFFICES ASSUME id \notin l.maybe_active[p] PROVE FALSE
    OBVIOUS
  <2>1. PICK k \in RemovalKind :
            /\ id \in DOMAIN l.removes[k][p]
            /\ \A o \in Owner : Reached(l.removes[k][p][id][o], l.ctn[o] - SanityMargin)
    BY <1>0 DEF CacheIsSound
  <2>2. l.removes[k][p][id][p] \in Nat \cup {None}
    BY <1>0, <2>1 DEF UpdateTypes, Ctns
  <2>3. Reached(l.removes[k][p][id][p], CtnNext(l, p))
    BY <1>0, <2>1, <2>2, CtnType DEF Reached, SanityMargin
  <2> QED
    BY <2>1, <2>3 DEF CanRemoveHtlc, IsActiveAt
<1>4. \A q \in Owner : Left(m, q) = Left(l, q)
  BY <1>1, <1>2, <1>3, KindOfRemoval DEF Left
<1>5. AmountTypes(m)
  BY <1>1 DEF BalanceKept, AmountTypes
<1> QED
  BY <1>0, <1>1, <1>4, <1>5, BalanceSame

(* discard_unsigned_remote_updates: what left the cache is signed. *)
LEMMA DiscardKeepsBalance ==
    ASSUME NEW l, LogInv(l), NEW me \in Owner, BalanceKept(l, me),
           NEW m, m = DiscardUnsignedRemoteUpdates(l, me)
    PROVE  BalanceKept(m, me)
<1> DEFINE remote    == Other(me)
           latest    == CtnLatest(l, me)
           kept      == {id \in DOMAIN l.locked_in[remote] :
                           l.locked_in[remote][id][me] <= latest}
           Signed(f) == Restrict(f, {id \in DOMAIN f : f[id][me] <= latest})
<1>0. LogFrame(l) /\ CounterTypes(l) /\ UpdateTypes(l) /\ StoredLogInv(l) /\ CacheIsSound(l)
      /\ RemovedOneWay(l)
  BY LogInvParts
<1>a. remote \in Owner /\ remote # me /\ \A q \in Owner : q = me \/ q = remote
  BY OtherOwner
<1>1. /\ m.balance_delta = l.balance_delta
      /\ m.adds = [l.adds EXCEPT ![remote] = Restrict(@, kept)]
      /\ m.maybe_active = [l.maybe_active EXCEPT ![remote] = @ \cap kept]
      /\ m.removes = [k \in RemovalKind |-> [l.removes[k] EXCEPT ![me] = Signed(@)]]
  <2>1. l = [f \in LogField |-> l[f]]
    BY <1>0 DEF LogFrame
  <2>2. PICK fees, next, locked : m = [l EXCEPT
           !.locked_in[remote]    = locked,
           !.adds[remote]         = Restrict(@, kept),
           !.maybe_active[remote] = @ \cap kept,
           !.next_htlc_id[remote] = next,
           !.removes = [k \in RemovalKind |-> [l.removes[k] EXCEPT ![me] = Signed(@)]],
           !.fee_updates[remote] = fees]
    BY DEF DiscardUnsignedRemoteUpdates
  <2> HIDE DEF kept, Signed, remote
  <2> QED
    BY <2>1, <2>2 DEF LogField
<1>2. /\ m.adds[remote] = Restrict(l.adds[remote], kept) /\ m.adds[me] = l.adds[me]
      /\ m.maybe_active[remote] = l.maybe_active[remote] \cap kept
      /\ m.maybe_active[me] = l.maybe_active[me]
      /\ m.removes["settles"][remote] = l.removes["settles"][remote]
      /\ m.removes["settles"][me] = Signed(l.removes["settles"][me])
  <2> HIDE DEF kept, Signed, remote
  <2>1. DOMAIN l.adds = Owner /\ DOMAIN l.maybe_active = Owner
    BY <1>0 DEF LogFrame, CounterTypes
  <2>2. m.adds[remote] = Restrict(l.adds[remote], kept) /\ m.adds[me] = l.adds[me]
    BY <1>a, <1>1, <2>1
  <2>3. /\ m.maybe_active[remote] = l.maybe_active[remote] \cap kept
        /\ m.maybe_active[me] = l.maybe_active[me]
    BY <1>a, <1>1, <2>1
  <2>4. DOMAIN l.removes["settles"] = Owner
    BY <1>0, KindOfRemoval DEF LogFrame
  <2>5. m.removes["settles"] = [l.removes["settles"] EXCEPT ![me] = Signed(@)]
    BY <1>1, KindOfRemoval
  <2>6. /\ m.removes["settles"][remote] = l.removes["settles"][remote]
        /\ m.removes["settles"][me] = Signed(l.removes["settles"][me])
    BY <1>a, <2>4, <2>5
  <2> QED
    BY <2>2, <2>3, <2>6
<1>3. kept \subseteq DOMAIN l.adds[remote]
  BY <1>0, <1>a DEF UpdateTypes
<1>4. DOMAIN l.removes["settles"][remote] \subseteq kept
  <2>1. StoredLogInv(m)
    BY DiscardInv, LogInvParts
  <2>2. DOMAIN m.removes["settles"][remote] \subseteq DOMAIN m.adds[remote]
    BY <1>a, <2>1, AddsAreFinite, KindOfRemoval
  <2> HIDE DEF kept, Signed, remote
  <2> QED
    BY <1>2, <2>2 DEF Restrict
<1>5. Left(m, me) = Left(l, me)
  <2>1. DOMAIN Signed(l.removes["settles"][me]) =
           {id \in DOMAIN l.removes["settles"][me] : l.removes["settles"][me][id][me] <= latest}
    BY DEF Restrict
  <2>2. ASSUME NEW id \in Left(l, me)
        PROVE  l.removes["settles"][me][id][me] <= latest
    <3>1. id \in DOMAIN l.removes["settles"][me] /\ id \in DOMAIN l.locked_in[me]
          /\ id \notin l.maybe_active[me]
      BY <1>0, KindOfRemoval DEF Left, UpdateTypes
    <3>2. PICK k \in RemovalKind :
              /\ id \in DOMAIN l.removes[k][me]
              /\ \A o \in Owner : Reached(l.removes[k][me][id][o], l.ctn[o] - SanityMargin)
      BY <1>0, <3>1 DEF CacheIsSound
    <3>3. k = "settles"
      BY <1>0, <3>1, <3>2 DEF RemovedOneWay, RemovalKind
    <3>4. l.removes["settles"][me][id][me] \in Nat \cup {None}
      BY <1>0, <3>1, KindOfRemoval DEF UpdateTypes, Ctns
    <3> QED
      BY <1>0, <3>2, <3>3, <3>4, CtnType DEF Reached, SanityMargin
  <2> HIDE DEF Signed, latest
  <2> QED
    BY <1>2, <2>1, <2>2 DEF Left
<1> HIDE DEF kept, Signed
<1>6. Left(m, remote) = Left(l, remote)
  BY <1>2, <1>4 DEF Left
<1>7. AmountTypes(m)
  <2> SUFFICES ASSUME NEW q \in Owner, NEW id \in DOMAIN m.adds[q]
               PROVE  m.adds[q][id] \in Nat
    BY DEF AmountTypes
  <2>1. \A i \in DOMAIN l.adds[q] : l.adds[q][i] \in Nat
    BY DEF BalanceKept, AmountTypes
  <2>2. CASE q = remote
    BY <1>2, <1>3, <2>1, <2>2 DEF Restrict
  <2>3. CASE q # remote
    BY <1>a, <1>2, <2>1, <2>3
  <2> QED
    BY <2>2, <2>3
<1>8. ASSUME NEW q \in Owner
      PROVE  Left(m, q) = Left(l, q) /\ \A id \in Left(l, q) : m.adds[q][id] = l.adds[q][id]
  <2>1. CASE q = me
    BY <1>2, <1>5, <2>1
  <2>2. CASE q = remote
    <3>1. Left(l, remote) \subseteq kept
      BY <1>4 DEF Left
    <3> QED
      BY <1>2, <1>6, <2>2, <3>1 DEF Restrict
  <2> QED
    BY <1>a, <2>1, <2>2
<1>9. \A q \in Owner : /\ Left(m, q) = Left(l, q)
                      /\ \A id \in Left(l, q) : m.adds[q][id] = l.adds[q][id]
  BY <1>8
<1>10. m.balance_delta = l.balance_delta
  BY <1>1
<1> HIDE DEF remote, latest
<1> QED
  BY <1>0, <1>7, <1>9, <1>10, BalanceSame

(* The first part of send_rev and recv_rev changes ctns only, ... *)
LEMMA RevokeKeepsBalance ==
    ASSUME NEW l, LogInv(l), NEW me \in Owner, BalanceKept(l, me), NEW r \in Owner,
           NEW m, m = Revoke(l, r)
    PROVE  BalanceKept(m, me)
<1> DEFINE other == Other(r)
           n     == l.ctn[r] + 1
           next  == CtnNext(l, other)
           Ack(f, ids) == [id \in DOMAIN f |->
                             IF id \in ids THEN Acknowledge(f[id], r, n, next) ELSE f[id]]
<1>0. LogFrame(l) /\ CounterTypes(l) /\ StoredLogInv(l)
  BY LogInvParts
<1>1. /\ m.adds = l.adds /\ m.maybe_active = l.maybe_active /\ m.balance_delta = l.balance_delta
      /\ m.removes = [k \in RemovalKind |-> [l.removes[k] EXCEPT ![r] = Ack(@, l.maybe_active[r])]]
  <2>1. l = [f \in LogField |-> l[f]]
    BY <1>0 DEF LogFrame
  <2>2. PICK fees, locked : m = [l EXCEPT
           !.ctn[r]            = n,
           !.revack_pending[r] = FALSE,
           !.locked_in[other]  = locked,
           !.removes = [k \in RemovalKind |->
                          [l.removes[k] EXCEPT ![r] = Ack(@, l.maybe_active[r])]],
           !.fee_updates[other] = fees]
    BY DEF Revoke
  <2> HIDE DEF Ack, n, other
  <2> QED
    BY <2>1, <2>2 DEF LogField
<1>2. \A f, ids : DOMAIN Ack(f, ids) = DOMAIN f
  OBVIOUS
<1> HIDE DEF Ack
<1>3. ASSUME NEW q \in Owner
      PROVE  DOMAIN m.removes["settles"][q] = DOMAIN l.removes["settles"][q]
  <2>1. DOMAIN l.removes["settles"] = Owner
    BY <1>0, KindOfRemoval DEF LogFrame
  <2>2. m.removes["settles"] = [l.removes["settles"] EXCEPT ![r] = Ack(@, l.maybe_active[r])]
    BY <1>1, KindOfRemoval
  <2>3. CASE q = r
    BY <1>2, <2>1, <2>2, <2>3
  <2>4. CASE q # r
    BY <2>1, <2>2, <2>4
  <2> QED
    BY <2>3, <2>4
<1>4. \A q \in Owner : Left(m, q) = Left(l, q)
  BY <1>1, <1>3 DEF Left
<1>5. AmountTypes(m)
  BY <1>1 DEF BalanceKept, AmountTypes
<1> QED
  BY <1>0, <1>1, <1>4, <1>5, BalanceSame

(* What the other methods leave alone. *)
LEMMA OthersKeepBalance ==
    ASSUME NEW l, LogInv(l), NEW me \in Owner, BalanceKept(l, me), NEW m,
           m.adds = l.adds, m.removes = l.removes, m.maybe_active = l.maybe_active,
           m.balance_delta = l.balance_delta
    PROVE  BalanceKept(m, me)
<1>1. \A q \in Owner : Left(m, q) = Left(l, q)
  BY DEF Left
<1>2. AmountTypes(m)
  BY DEF BalanceKept, AmountTypes
<1> QED
  BY <1>1, <1>2, BalanceSame, LogInvParts

(* A log that is read back starts with all of it in the cache. *)
LEMMA LoadKeepsBalance ==
    ASSUME NEW l, LogInv(l), AmountTypes(l), NEW me \in Owner, NEW m, m = Load(Stored(l), me)
    PROVE  BalanceKept(m, me)
<1> DEFINE s   == Stored(l)
           all == [s EXCEPT !.maybe_active  = [o \in Owner |-> DOMAIN s.adds[o]],
                            !.balance_delta = 0]
<1>0. LogFrame(l) /\ CounterTypes(l) /\ UpdateTypes(l) /\ StoredLogInv(l)
  BY LogInvParts
<1>1. StoredLogInv(s)
  BY StoredInv
<1>2. s.adds = l.adds /\ s.removes = l.removes /\ LogFrame(s)
  BY <1>0, <1>1 DEF Stored, LogFrame, LogField, StoredLogInv, LogShape
<1>3. m = UpdateMaybeActive(all, me)
  BY DEF Load
<1> HIDE DEF s
<1>4. /\ all = [f \in LogField |-> all[f]]
      /\ all.ctn = s.ctn /\ all.revack_pending = s.revack_pending
      /\ all.next_htlc_id = s.next_htlc_id /\ all.adds = s.adds
      /\ all.locked_in = s.locked_in /\ all.removes = s.removes
      /\ all.maybe_active = [o \in Owner |-> DOMAIN s.adds[o]]
      /\ all.balance_delta = 0
  BY <1>2 DEF LogFrame, LogField
<1> HIDE DEF all
<1>5. \A o \in Owner : /\ DOMAIN s.adds[o] = DOMAIN s.locked_in[o] /\ DOMAIN s.adds[o] \subseteq Nat
                       /\ DOMAIN s.removes["settles"][o] \subseteq DOMAIN s.adds[o]
  BY <1>1, KindOfRemoval DEF StoredLogInv, LogShape, UpdateTypes
<1>6. LogInv(all)
  <2>1. /\ all.maybe_active \in [Owner -> SUBSET Nat]
        /\ all.revack_pending \in [Owner -> BOOLEAN]
    BY <1>1, <1>4, <1>5 DEF StoredLogInv, LogShape, CounterTypes
  <2>2. StoredLogInv(all)
    BY <1>1, <1>4, <2>1, SameUpdatesInv
  <2>3. CacheIsSound(all)
    BY <1>4, <1>5 DEF CacheIsSound
  <2> QED
    BY <2>2, <2>3 DEF LogInv
<1>7. BalanceKept(all, me)
  <2>1. \A q \in Owner : Left(all, q) = {}
    BY <1>4, <1>5 DEF Left
  <2>2. PaidByLeft(all, me) = 0 /\ PaidByLeft(all, Other(me)) = 0
    BY <2>1, OtherOwner, SumEmpty DEF PaidByLeft
  <2>3. AmountTypes(all)
    BY <1>2, <1>4 DEF AmountTypes
  <2> QED
    BY <1>4, <2>2, <2>3 DEF BalanceKept
<1> QED
  BY <1>3, <1>6, <1>7, ForgetKeepsBalance

(* A new log has settled nothing. *)
LEMMA NewBalance ==
    ASSUME NEW initiator \in Owner, NEW rate, NEW me \in Owner, NEW m, m = NewLog(initiator, rate)
    PROVE  BalanceKept(m, me)
<1>1. /\ m.adds = [o \in Owner |-> << >>] /\ m.balance_delta = 0
      /\ m.removes = [k \in RemovalKind |-> [o \in Owner |-> << >>]]
  BY DEF NewLog
<1>2. \A q \in Owner : Left(m, q) = {}
  BY <1>1, KindOfRemoval DEF Left
<1>3. PaidByLeft(m, me) = 0 /\ PaidByLeft(m, Other(me)) = 0
  BY <1>2, OtherOwner, SumEmpty DEF PaidByLeft
<1>4. AmountTypes(m)
  BY <1>1 DEF AmountTypes
<1> QED
  BY <1>1, <1>3, <1>4 DEF BalanceKept

(* ... and the second is the cache's. *)
LEMMA RevKeepsBalance ==
    ASSUME NEW l, LogInv(l), NEW me \in Owner, BalanceKept(l, me), NEW m,
           m = SendRev(l, me) \/ m = RecvRev(l, me)
    PROVE  BalanceKept(m, me)
<1>1. ASSUME NEW r \in Owner, NEW x, x = Revoke(l, r), NEW y, y = UpdateMaybeActive(x, me)
      PROVE  LogInv(y) /\ BalanceKept(y, me)
  <2>1. LogInv(x) /\ BalanceKept(x, me)
    BY <1>1, RevokeInv, RevokeKeepsBalance
  <2> QED
    BY <1>1, <2>1, UpdateMaybeActiveInv, ForgetKeepsBalance
<1>2. ASSUME NEW y, LogInv(y), BalanceKept(y, me), NEW value,
             \/ m = [y EXCEPT !.was_revoke_last = value]
             \/ m = [y EXCEPT !.unacked_updates = value]
      PROVE  BalanceKept(m, me)
  <2>1. y = [f \in LogField |-> y[f]]
    BY <1>2, LogInvParts DEF LogFrame
  <2>2. /\ m.adds = y.adds /\ m.removes = y.removes /\ m.maybe_active = y.maybe_active
        /\ m.balance_delta = y.balance_delta
    BY <1>2, <2>1 DEF LogField
  <2> QED
    BY <1>2, <2>2, OthersKeepBalance
<1>3. CASE m = SendRev(l, me)
  <2> DEFINE y == UpdateMaybeActive(Revoke(l, me), me)
  <2>1. LogInv(y) /\ BalanceKept(y, me)
    BY <1>1
  <2>2. PICK value : m = [y EXCEPT !.was_revoke_last = value]
    BY <1>3 DEF SendRev
  <2> HIDE DEF y
  <2> QED
    BY <1>2, <2>1, <2>2
<1>4. CASE m = RecvRev(l, me)
  <2> DEFINE y == UpdateMaybeActive(Revoke(l, Other(me)), me)
  <2>1. LogInv(y) /\ BalanceKept(y, me)
    BY <1>1, OtherOwner
  <2>2. PICK value : m = [y EXCEPT !.unacked_updates = value]
    BY <1>4 DEF RecvRev
  <2> HIDE DEF y
  <2> QED
    BY <1>2, <2>1, <2>2
<1> QED
  BY <1>3, <1>4

(* What the cached HTLCs and those that left it sum up to. *)
LEMMA SettledIsCounted ==
    ASSUME NEW l, LogInv(l), AmountTypes(l), NEW owner \in Owner, NEW p \in Owner,
           NEW n \in Int, n >= l.ctn[owner]
    PROVE  /\ SettledAmount(l, owner, n, p, DOMAIN l.adds[p]) =
                PaidByLeft(l, p) + SettledAmount(l, owner, n, p, l.maybe_active[p])
           /\ SettledAmount(l, owner, n, p, l.maybe_active[p]) \in Nat
           /\ PaidByLeft(l, p) \in Nat
<1> DEFINE In(ids) == {id \in ids : /\ id \in DOMAIN l.removes["settles"][p]
                                    /\ Reached(l.removes["settles"][p][id][owner], n)}
<1>0. CounterTypes(l) /\ UpdateTypes(l) /\ StoredLogInv(l) /\ RemovedOneWay(l) /\ CacheIsSound(l)
  BY LogInvParts
<1>1. ASSUME NEW ids
      PROVE  SettledAmount(l, owner, n, p, ids) = SumOf(l.adds[p], In(ids))
  BY DEF SettledAmount, SumOf
<1>2. /\ l.maybe_active[p] \subseteq DOMAIN l.adds[p]
      /\ Left(l, p) \in SUBSET DOMAIN l.adds[p] /\ PaidByLeft(l, p) \in Nat
  BY <1>0, LeftAreAdded DEF CacheIsSound, UpdateTypes
<1>3. ASSUME NEW id \in Left(l, p)
      PROVE  Reached(l.removes["settles"][p][id][owner], n)
  <2>1. id \in DOMAIN l.removes["settles"][p] /\ id \in DOMAIN l.locked_in[p]
        /\ id \notin l.maybe_active[p]
    BY <1>0, <1>2 DEF Left, UpdateTypes
  <2>2. PICK k \in RemovalKind :
            /\ id \in DOMAIN l.removes[k][p]
            /\ \A o \in Owner : Reached(l.removes[k][p][id][o], l.ctn[o] - SanityMargin)
    BY <1>0, <2>1 DEF CacheIsSound
  <2>3. k = "settles"
    BY <1>0, <2>1, <2>2 DEF RemovedOneWay, RemovalKind
  <2>4. l.removes["settles"][p][id][owner] \in Nat \cup {None} /\ l.ctn[owner] \in Nat
    BY <1>0, <2>1, KindOfRemoval DEF UpdateTypes, Ctns, CounterTypes
  <2> QED
    BY <2>2, <2>3, <2>4 DEF Reached, SanityMargin
<1>4. /\ In(DOMAIN l.adds[p]) = Left(l, p) \cup In(l.maybe_active[p])
      /\ Left(l, p) \cap In(l.maybe_active[p]) = {}
  BY <1>2, <1>3 DEF Left
<1>5. In(l.maybe_active[p]) \in SUBSET DOMAIN l.adds[p]
  BY <1>2
<1> HIDE DEF In
<1>6. IsFiniteSet(DOMAIN l.adds[p]) /\ \A id \in DOMAIN l.adds[p] : l.adds[p][id] \in Nat
  BY <1>0, AddsAreFinite DEF AmountTypes
<1>7. SumOf(l.adds[p], Left(l, p) \cup In(l.maybe_active[p])) =
        SumOf(l.adds[p], Left(l, p)) + SumOf(l.adds[p], In(l.maybe_active[p]))
  BY <1>2, <1>4, <1>5, <1>6, SumOfBoth
<1>8. SumOf(l.adds[p], In(l.maybe_active[p])) \in Nat
  BY <1>0, <1>5, SumOfIds
<1> QED
  BY <1>1, <1>2, <1>4, <1>7, <1>8 DEF PaidByLeft

(* No method loses a settlement or counts it twice: what left the cache is in *)
(* balance_delta, and is settled in both ctxs.                                *)
THEOREM BalancesAreKept == Spec => []CacheKeepsBalances
<1> DEFINE Kept == Inv /\ BalanceKept(log, Local)
<1>1. Init => Kept
  BY NewLogInv, NewBalance, LocalAssumption DEF Init, Inv
<1>2. Kept /\ Inv' /\ [Next]_log => Kept'
  <2> SUFFICES ASSUME Inv, BalanceKept(log, Local), Inv', [Next]_log
               PROVE  BalanceKept(log', Local)
    OBVIOUS
  <2> USE LocalAssumption
  <2>0. LogInv(log) /\ log = [f \in LogField |-> log[f]]
    BY LogInvParts DEF Inv, LogFrame
  <2>1. ASSUME NEW proposer \in Owner, Add(proposer)
        PROVE  BalanceKept(log', Local)
    BY <2>0, <2>1, AddKeepsBalance, ValuesAssumption DEF Add
  <2>2. ASSUME NEW proposer \in Owner, NEW kind \in RemovalKind, SettleOrFail(kind, proposer)
        PROVE  BalanceKept(log', Local)
    BY <2>0, <2>2, RemoveKeepsBalance DEF SettleOrFail
  <2>3. CASE ChangeFeerate \/ SendCommitment \/ RecvCommitment
    <3>1. /\ log'.adds = log.adds /\ log'.removes = log.removes
          /\ log'.maybe_active = log.maybe_active /\ log'.balance_delta = log.balance_delta
      <4>1. CASE ChangeFeerate
        <5>1. PICK funder \in Owner, rate \in Feerates : log' = UpdateFee(log, funder, rate)
          BY <4>1 DEF ChangeFeerate
        <5> QED
          BY <2>0, <5>1 DEF UpdateFee, LogField
      <4>2. CASE SendCommitment
        BY <2>0, <4>2 DEF SendCommitment, SendCtx, LogField
      <4>3. CASE RecvCommitment
        BY <2>0, <4>3 DEF RecvCommitment, RecvCtx, LogField
      <4> QED
        BY <2>3, <4>1, <4>2, <4>3
    <3> QED
      BY <2>0, <3>1, OthersKeepBalance
  <2>4. CASE SendRevocation \/ RecvRevocation
    BY <2>0, <2>4, RevKeepsBalance DEF SendRevocation, RecvRevocation
  <2>5. CASE Discard
    BY <2>0, <2>5, DiscardKeepsBalance DEF Discard
  <2>6. CASE Reload
    BY <2>0, <2>6, LoadKeepsBalance DEF Reload, BalanceKept
  <2>7. CASE UNCHANGED log
    BY <2>7
  <2> QED
    BY <2>1, <2>2, <2>3, <2>4, <2>5, <2>6, <2>7 DEF Next
<1>3. Kept => CacheKeepsBalances
  <2> SUFFICES ASSUME Inv, BalanceKept(log, Local),
                      NEW whose \in Owner, NEW owner \in Owner,
                      NEW n \in log.ctn[owner] .. CtnNext(log, owner)
               PROVE  BalanceDelta(log, Local, whose, owner, n) =
                        SettledAmount(log, owner, n, Other(whose), DOMAIN log.adds[Other(whose)])
                          - SettledAmount(log, owner, n, whose, DOMAIN log.adds[whose])
    BY DEF CacheKeepsBalances
  <2>0. /\ LogInv(log) /\ AmountTypes(log)
        /\ log.balance_delta = PaidByLeft(log, Other(Local)) - PaidByLeft(log, Local)
    BY DEF Inv, BalanceKept
  <2>1. log.ctn[owner] \in Nat /\ CtnNext(log, owner) \in Nat
    BY <2>0, CtnType, LogInvParts
  <2>2. n \in Int /\ n >= log.ctn[owner]
    BY <2>1
  <2>3. Other(whose) \in Owner
    BY OtherOwner
  <2> DEFINE Here(p) == SettledAmount(log, owner, n, p, log.maybe_active[p])
             All(p)  == SettledAmount(log, owner, n, p, DOMAIN log.adds[p])
  <2>4. /\ All(whose) = PaidByLeft(log, whose) + Here(whose)
        /\ Here(whose) \in Nat /\ PaidByLeft(log, whose) \in Nat
    BY <2>0, <2>2, SettledIsCounted
  <2>5. /\ All(Other(whose)) = PaidByLeft(log, Other(whose)) + Here(Other(whose))
        /\ Here(Other(whose)) \in Nat /\ PaidByLeft(log, Other(whose)) \in Nat
    BY <2>0, <2>2, <2>3, SettledIsCounted
  <2>6. BalanceDelta(log, Local, whose, owner, n) =
          (IF whose = Local THEN log.balance_delta ELSE -log.balance_delta)
            - Here(whose) + Here(Other(whose))
    BY <2>2 DEF BalanceDelta
  <2> HIDE DEF Here, All
  <2>7. CASE whose = Local
    <3>1. BalanceDelta(log, Local, whose, owner, n) =
            log.balance_delta - Here(whose) + Here(Other(whose))
      BY <2>6, <2>7
    <3>2. log.balance_delta = PaidByLeft(log, Other(whose)) - PaidByLeft(log, whose)
      BY <2>0, <2>7
    <3>3. BalanceDelta(log, Local, whose, owner, n) = All(Other(whose)) - All(whose)
      BY <2>4, <2>5, <3>1, <3>2
    <3> QED
      BY <3>3 DEF All
  <2>8. CASE whose # Local
    <3>1. BalanceDelta(log, Local, whose, owner, n) =
            -log.balance_delta - Here(whose) + Here(Other(whose))
      BY <2>6, <2>8
    <3>2. log.balance_delta = PaidByLeft(log, whose) - PaidByLeft(log, Other(whose))
      <4>1. whose = Other(Local) /\ Other(whose) = Local
        BY <2>8, OtherOwner, LocalAssumption
      <4> QED
        BY <2>0, <4>1
    <3>3. BalanceDelta(log, Local, whose, owner, n) = All(Other(whose)) - All(whose)
      BY <2>4, <2>5, <3>1, <3>2
    <3> QED
      BY <3>3 DEF All
  <2> QED
    BY <2>7, <2>8
<1>4. Spec => []Kept
  BY <1>1, <1>2, Invariance, PTL DEF Spec
<1> QED
  BY <1>3, <1>4, PTL

-----------------------------------------------------------------------------
(*                               Feerates                                  *)

(* An entry of the fee log. *)
FeeUpdate == [rate : Nat, ctn : Ctns]

(* A feerate is first in the ctxs of the other party than the funder, by the  *)
(* next ctn, and in those of the funder once it is in a ctx that the other is *)
(* bound to.                                                                  *)
EntersInOrder(l, c, funder) ==
    /\ c[Other(funder)] # None
    /\ \A o \in Owner : c[o] # None => c[o] <= CtnNext(l, o)
    /\ c[funder] # None => c[Other(funder)] <= l.ctn[Other(funder)]

(* An update that is in force no later than another, for both. *)
Before(c, d) == \A o \in Owner : d[o] # None => Reached(c[o], d[o])

(* The fee log starts with the feerate of the opening, and is sorted. *)
FeeUpdatesInOrder(l, updates, funder) ==
    /\ updates \in Seq(FeeUpdate) /\ updates # << >>
    /\ \A o \in Owner : updates[1].ctn[o] = 0
    /\ \A i \in DOMAIN updates : EntersInOrder(l, updates[i].ctn, funder)
    /\ \A i, j \in DOMAIN updates : i < j => Before(updates[i].ctn, updates[j].ctn)

(* Only the funder has one. *)
FeesInOrder(l, funder) ==
    /\ l.fee_updates = [o \in Owner |-> l.fee_updates[o]]
    /\ l.fee_updates[Other(funder)] = << >>
    /\ FeeUpdatesInOrder(l, l.fee_updates[funder], funder)

LEMMA FeeUpdateTypes ==
    ASSUME NEW l, NEW funder \in Owner, NEW updates, FeeUpdatesInOrder(l, updates, funder)
    PROVE  /\ Len(updates) \in Nat /\ Len(updates) > 0
           /\ DOMAIN updates = 1 .. Len(updates)
           /\ \A i \in DOMAIN updates : /\ updates[i] \in FeeUpdate
                                        /\ updates[i].ctn \in Ctns
                                        /\ \A o \in Owner : updates[i].ctn[o] \in Nat \cup {None}
<1>1. updates \in Seq(FeeUpdate) /\ updates # << >>
  BY DEF FeeUpdatesInOrder
<1>2. \A x \in FeeUpdate : x.ctn \in Ctns
  BY DEF FeeUpdate
<1>3. \A c \in Ctns : \A o \in Owner : c[o] \in Nat \cup {None}
  BY DEF Ctns
<1>4. \A i \in DOMAIN updates : updates[i] \in FeeUpdate
  BY <1>1
<1> QED
  BY <1>1, <1>2, <1>3, <1>4

(* A log with the same fees, and later ctns at most. *)
LEMMA SameFees ==
    ASSUME NEW l, CounterTypes(l), NEW m, CounterTypes(m), NEW funder \in Owner,
           FeesInOrder(l, funder), m.fee_updates = l.fee_updates,
           \A o \in Owner : l.ctn[o] <= m.ctn[o] /\ CtnNext(l, o) <= CtnNext(m, o)
    PROVE  FeesInOrder(m, funder)
<1> DEFINE updates == l.fee_updates[funder]
<1>1. FeeUpdatesInOrder(l, updates, funder)
  BY DEF FeesInOrder
<1>2. ASSUME NEW i \in DOMAIN updates
      PROVE  EntersInOrder(m, updates[i].ctn, funder)
  <2>1. EntersInOrder(l, updates[i].ctn, funder)
    BY <1>1 DEF FeeUpdatesInOrder
  <2>2. \A o \in Owner : updates[i].ctn[o] \in Nat \cup {None}
    BY <1>1, FeeUpdateTypes
  <2>3. \A o \in Owner : /\ l.ctn[o] \in Nat /\ m.ctn[o] \in Nat
                         /\ CtnNext(l, o) \in Nat /\ CtnNext(m, o) \in Nat
    BY CtnType
  <2>4. Other(funder) \in Owner
    BY OtherOwner
  <2> HIDE DEF updates
  <2> QED
    BY <2>1, <2>2, <2>3, <2>4 DEF EntersInOrder
<1> HIDE DEF updates
<1>3. FeeUpdatesInOrder(m, updates, funder)
  BY <1>1, <1>2 DEF FeeUpdatesInOrder
<1> QED
  BY <1>3 DEF FeesInOrder, updates

(* The log of a new channel. *)
LEMMA NewLogFees ==
    ASSUME NEW funder \in Owner, NEW rate \in Nat, NEW m, m = NewLog(funder, rate)
    PROVE  FeesInOrder(m, funder)
<1> DEFINE first == [rate |-> rate, ctn |-> [x \in Owner |-> 0]]
<1>0. Other(funder) \in Owner /\ Other(funder) # funder
  BY OtherOwner
<1>1. /\ m.fee_updates = [o \in Owner |-> m.fee_updates[o]]
      /\ m.fee_updates[Other(funder)] = << >>
      /\ m.fee_updates[funder] = << first >>
  BY <1>0 DEF NewLog
<1>2. first \in FeeUpdate
  BY DEF FeeUpdate, Ctns
<1>3. \A o \in Owner : first.ctn[o] = 0 /\ CtnNext(m, o) = 1 /\ m.ctn[o] = 0
  BY DEF NewLog, CtnNext, CtnLatest
<1> HIDE DEF first
<1>4. EntersInOrder(m, first.ctn, funder)
  BY <1>0, <1>3, NoneAssumption DEF EntersInOrder
<1>5. /\ << first >> \in Seq(FeeUpdate) /\ << first >> # << >>
      /\ DOMAIN << first >> = {1} /\ << first >>[1] = first
  BY <1>2
<1>6. FeeUpdatesInOrder(m, << first >>, funder)
  BY <1>3, <1>4, <1>5 DEF FeeUpdatesInOrder
<1> QED
  BY <1>1, <1>6 DEF FeesInOrder

(* send_update_fee, recv_update_fee: the new update enters last. *)
LEMMA UpdateFeeKeepsOrder ==
    ASSUME NEW l, LogInv(l), NEW funder \in Owner, FeesInOrder(l, funder),
           NEW rate \in Nat, NEW m, m = UpdateFee(l, funder, rate)
    PROVE  FeesInOrder(m, funder)
<1> DEFINE first   == Other(funder)
           new     == [rate |-> rate, ctn |-> EntersFirst(first, CtnNext(l, first))]
           updates == l.fee_updates[funder]
           last    == updates[Len(updates)]
           changed == m.fee_updates[funder]
<1>0. CounterTypes(l) /\ LogFrame(l) /\ first \in Owner /\ first # funder
  BY LogInvParts, OtherOwner
<1>1. /\ m.ctn = l.ctn /\ m.revack_pending = l.revack_pending
      /\ m.fee_updates = [l.fee_updates EXCEPT ![funder] =
             IF \A o \in Owner : ~ Reached(last.ctn[o], CtnLatest(l, o))
               THEN [updates EXCEPT ![Len(updates)] = new] ELSE Append(updates, new)]
  BY <1>0 DEF UpdateFee, LogFrame, LogField
<1>2. \A o \in Owner : CtnNext(m, o) = CtnNext(l, o) /\ m.ctn[o] = l.ctn[o]
  BY <1>1 DEF CtnNext, CtnLatest
<1>3. \A o \in Owner : /\ l.ctn[o] \in Nat /\ CtnLatest(l, o) \in Nat
                       /\ CtnNext(l, o) = CtnLatest(l, o) + 1
  BY <1>0, CtnType
<1>4. /\ new \in FeeUpdate /\ new.ctn[first] = CtnNext(l, first) /\ new.ctn[funder] = None
      /\ CtnNext(l, first) # None
  <2>1. CtnNext(l, first) \in Nat
    BY <1>0, <1>3
  <2>2. /\ EntersFirst(first, CtnNext(l, first)) \in Ctns
        /\ EntersFirst(first, CtnNext(l, first))[first] = CtnNext(l, first)
        /\ EntersFirst(first, CtnNext(l, first))[funder] = None
    BY <1>0, <2>1, EntersFirstType, OtherOwner
  <2> HIDE DEF first
  <2> QED
    BY <2>1, <2>2, NoneAssumption DEF FeeUpdate
<1>5. FeeUpdatesInOrder(l, updates, funder)
  BY DEF FeesInOrder
<1>6. /\ Len(updates) \in Nat /\ Len(updates) > 0 /\ DOMAIN updates = 1 .. Len(updates)
      /\ updates \in Seq(FeeUpdate)
      /\ \A i \in DOMAIN updates : \A o \in Owner : updates[i].ctn[o] \in Nat \cup {None}
  BY <1>5, FeeUpdateTypes DEF FeeUpdatesInOrder
<1>7. EntersInOrder(m, new.ctn, funder)
  <2>1. \A o \in Owner : o = first \/ o = funder
    BY OtherOwner
  <2> HIDE DEF new
  <2> QED
    BY <1>0, <1>2, <1>3, <1>4, <2>1 DEF EntersInOrder
<1>8. ASSUME NEW i \in DOMAIN updates
      PROVE  EntersInOrder(m, updates[i].ctn, funder) /\ Before(updates[i].ctn, new.ctn)
  <2>1. EntersInOrder(l, updates[i].ctn, funder)
    BY <1>5 DEF FeeUpdatesInOrder
  <2>2. \A o \in Owner : new.ctn[o] # None => o = first
    BY <1>4, OtherOwner
  <2> HIDE DEF new, updates
  <2>3. EntersInOrder(m, updates[i].ctn, funder)
    BY <1>0, <1>2, <2>1 DEF EntersInOrder
  <2>4. Reached(updates[i].ctn[first], new.ctn[first])
    BY <1>0, <1>4, <2>1 DEF EntersInOrder, Reached
  <2> QED
    BY <2>2, <2>3, <2>4 DEF Before
<1>9. \A o \in Owner : updates[1].ctn[o] = 0
  BY <1>5 DEF FeeUpdatesInOrder
<1>10. \A i, j \in DOMAIN updates : i < j => Before(updates[i].ctn, updates[j].ctn)
  BY <1>5 DEF FeeUpdatesInOrder
<1>11. m.fee_updates = [o \in Owner |-> m.fee_updates[o]] /\ m.fee_updates[first] = << >>
  BY <1>0, <1>1 DEF FeesInOrder
<1>12. CASE \A o \in Owner : ~ Reached(last.ctn[o], CtnLatest(l, o))
  <2>1. changed = [updates EXCEPT ![Len(updates)] = new]
    BY <1>1, <1>12 DEF FeesInOrder
  <2>2. Len(updates) # 1
    <3>1. ASSUME Len(updates) = 1 PROVE FALSE
      <4>1. last.ctn[funder] = 0
        BY <1>9, <3>1
      <4>2. Reached(last.ctn[funder], CtnLatest(l, funder))
        BY <1>3, <4>1, NoneAssumption DEF Reached
      <4> QED
        BY <1>12, <4>2
    <3> QED
      BY <3>1
  <2> HIDE DEF new, updates, last, changed
  <2>3. /\ changed \in Seq(FeeUpdate) /\ DOMAIN changed = 1 .. Len(updates)
        /\ changed[Len(updates)] = new
        /\ \A i \in 1 .. Len(updates) : i # Len(updates) => changed[i] = updates[i]
    <3> DEFINE n == Len(updates)
    <3>1. updates \in [1 .. n -> FeeUpdate] /\ n \in Nat /\ n > 0
      BY <1>6
    <3> HIDE DEF n
    <3>2. changed = [updates EXCEPT ![n] = new]
      BY <2>1 DEF n
    <3>3. /\ changed \in [1 .. n -> FeeUpdate]
          /\ changed[n] = new /\ \A i \in 1 .. n : i # n => changed[i] = updates[i]
      BY <1>4, <3>1, <3>2
    <3>4. changed \in Seq(FeeUpdate) /\ DOMAIN changed = 1 .. n
      BY <3>1, <3>3
    <3> QED
      BY <3>3, <3>4 DEF n
  <2>4. changed # << >> /\ \A o \in Owner : changed[1].ctn[o] = 0
    <3>1. 1 \in 1 .. Len(updates) /\ 1 # Len(updates)
      BY <1>6, <2>2
    <3>2. changed[1] = updates[1] /\ 1 \in DOMAIN changed
      BY <2>3, <3>1
    <3>3. changed # << >>
      BY <3>2
    <3> QED
      BY <1>9, <3>2, <3>3
  <2>5. \A i \in DOMAIN changed : EntersInOrder(m, changed[i].ctn, funder)
    <3> SUFFICES ASSUME NEW i \in DOMAIN changed PROVE EntersInOrder(m, changed[i].ctn, funder)
      OBVIOUS
    <3>1. CASE i = Len(updates)
      BY <1>7, <2>3, <3>1
    <3>2. CASE i # Len(updates)
      BY <1>6, <1>8, <2>3, <3>2
    <3> QED
      BY <3>1, <3>2
  <2>6. \A i, j \in DOMAIN changed : i < j => Before(changed[i].ctn, changed[j].ctn)
    <3> SUFFICES ASSUME NEW i \in DOMAIN changed, NEW j \in DOMAIN changed, i < j
                 PROVE  Before(changed[i].ctn, changed[j].ctn)
      OBVIOUS
    <3>0. DOMAIN updates = 1 .. Len(updates) /\ DOMAIN changed = 1 .. Len(updates)
      BY <1>6, <2>3
    <3>5. Len(updates) \in Nat
      BY <1>6
    <3>1. /\ i \in 1 .. Len(updates) /\ j \in 1 .. Len(updates) /\ i # Len(updates)
          /\ DOMAIN updates = 1 .. Len(updates)
      BY <3>0, <3>5
    <3>4. changed[i] = updates[i]
      BY <2>3, <3>1
    <3>2. CASE j = Len(updates)
      BY <1>8, <2>3, <3>1, <3>2, <3>4
    <3>3. CASE j # Len(updates)
      BY <1>10, <2>3, <3>1, <3>3, <3>4
    <3> QED
      BY <3>2, <3>3
  <2>7. FeeUpdatesInOrder(m, changed, funder)
    BY <2>3, <2>4, <2>5, <2>6 DEF FeeUpdatesInOrder
  <2> QED
    BY <1>11, <2>7 DEF FeesInOrder, changed
<1>13. CASE ~ \A o \in Owner : ~ Reached(last.ctn[o], CtnLatest(l, o))
  <2>1. changed = Append(updates, new)
    BY <1>1, <1>13 DEF FeesInOrder
  <2> HIDE DEF new, updates, last, changed
  <2>2. /\ changed \in Seq(FeeUpdate) /\ DOMAIN changed = 1 .. Len(updates) + 1
        /\ changed[Len(updates) + 1] = new
        /\ \A i \in 1 .. Len(updates) : changed[i] = updates[i]
    BY <1>4, <1>6, <2>1
  <2>3. changed # << >> /\ \A o \in Owner : changed[1].ctn[o] = 0
    BY <1>6, <1>9, <2>2
  <2>4. \A i \in DOMAIN changed : i \in DOMAIN updates \/ i = Len(updates) + 1
    BY <1>6, <2>2
  <2>5. \A i \in DOMAIN changed : EntersInOrder(m, changed[i].ctn, funder)
    BY <1>6, <1>7, <1>8, <2>2, <2>4
  <2>6. \A i, j \in DOMAIN changed : i < j => Before(changed[i].ctn, changed[j].ctn)
    BY <1>6, <1>8, <1>10, <2>2, <2>4
  <2>7. FeeUpdatesInOrder(m, changed, funder)
    BY <2>2, <2>3, <2>5, <2>6 DEF FeeUpdatesInOrder
  <2> QED
    BY <1>11, <2>7 DEF FeesInOrder, changed
<1> QED
  BY <1>12, <1>13

(* send_rev, recv_rev: the revoker is bound to the first updates, which are   *)
(* in the next ctx of the funder then.                                        *)
LEMMA RevokeKeepsOrder ==
    ASSUME NEW l, LogInv(l), NEW funder \in Owner, FeesInOrder(l, funder),
           NEW r \in Owner, NEW m, m = Revoke(l, r)
    PROVE  FeesInOrder(m, funder)
<1> DEFINE other   == Other(r)
           n       == l.ctn[r] + 1
           next    == CtnNext(l, other)
           updates == l.fee_updates[funder]
           Acked(c) == Acknowledge(c, r, n, next)
           AckedAll(s) == [i \in DOMAIN s |-> [s[i] EXCEPT !.ctn = Acked(s[i].ctn)]]
<1>0. CounterTypes(l) /\ LogFrame(l) /\ LogInv(m) /\ other \in Owner /\ other # r
  BY LogInvParts, OtherOwner, RevokeInv
<1>a. CounterTypes(m)
  BY <1>0, LogInvParts
<1>1. /\ m.ctn = [l.ctn EXCEPT ![r] = n]
      /\ m.revack_pending = [l.revack_pending EXCEPT ![r] = FALSE]
      /\ m.fee_updates = [l.fee_updates EXCEPT ![other] = AckedAll(@)]
  <2>1. l = [f \in LogField |-> l[f]]
    BY <1>0 DEF LogFrame
  <2>2. PICK locked, removes : m = [l EXCEPT
           !.ctn[r]            = n,
           !.revack_pending[r] = FALSE,
           !.locked_in[other]  = locked,
           !.removes           = removes,
           !.fee_updates[other] = AckedAll(@)]
    BY DEF Revoke
  <2> HIDE DEF AckedAll, n, other
  <2> QED
    BY <2>1, <2>2 DEF LogField
<1>2. /\ \A o \in Owner : /\ l.ctn[o] \in Nat /\ CtnNext(l, o) \in Nat
                          /\ m.ctn[o] \in Nat /\ CtnNext(m, o) \in Nat
                          /\ CtnLatest(l, o) \in {l.ctn[o], l.ctn[o] + 1}
                          /\ CtnNext(l, o) = CtnLatest(l, o) + 1
                          /\ m.ctn[o] < CtnNext(m, o)
  BY <1>0, <1>a, CtnType
<1>3. /\ m.ctn[r] = n /\ CtnNext(m, r) = n + 1
      /\ m.ctn[other] = l.ctn[other] /\ CtnNext(m, other) = next
  BY <1>0, <1>1 DEF CounterTypes, CtnNext, CtnLatest
<1>4. \A o \in Owner : l.ctn[o] <= m.ctn[o] /\ CtnNext(l, o) <= CtnNext(m, o)
  <2>1. \A o \in Owner : o = r \/ o = other
    BY OtherOwner
  <2> HIDE DEF other
  <2> QED
    BY <1>0, <1>2, <1>3, <2>1
<1>5. l.fee_updates = [o \in Owner |-> l.fee_updates[o]] /\ l.fee_updates[Other(funder)] = << >>
      /\ FeeUpdatesInOrder(l, updates, funder)
  BY DEF FeesInOrder
<1>6. CASE r = funder
  <2>1. AckedAll(<< >>) = << >>
    <3>1. DOMAIN AckedAll(<< >>) = {} /\ AckedAll(<< >>) = [i \in {} |-> AckedAll(<< >>)[i]]
      OBVIOUS
    <3> QED
      BY <3>1
  <2> HIDE DEF AckedAll
  <2>2. m.fee_updates = [l.fee_updates EXCEPT ![other] = << >>]
    BY <1>1, <1>5, <1>6, <2>1
  <2>3. m.fee_updates = l.fee_updates
    BY <1>5, <1>6, <2>2
  <2> QED
    BY <1>0, <1>a, <1>4, <2>3, SameFees
<1>7. CASE r # funder
  <2> DEFINE changed == m.fee_updates[funder]
  <2>1. other = funder /\ Other(funder) = r
    BY <1>7, OtherOwner
  <2>2. m.fee_updates = [o \in Owner |-> m.fee_updates[o]] /\ m.fee_updates[Other(funder)] = << >>
    BY <1>0, <1>1, <1>5, <2>1
  <2>3. changed = AckedAll(updates)
    BY <1>1, <1>5, <2>1
  <2>4. /\ updates \in Seq(FeeUpdate) /\ updates # << >> /\ Len(updates) \in Nat /\ Len(updates) > 0
        /\ DOMAIN updates = 1 .. Len(updates)
        /\ \A i \in DOMAIN updates : updates[i] \in FeeUpdate /\ updates[i].ctn \in Ctns
        /\ \A o \in Owner : updates[1].ctn[o] = 0
        /\ \A i \in DOMAIN updates : EntersInOrder(l, updates[i].ctn, funder)
        /\ \A i, j \in DOMAIN updates : i < j => Before(updates[i].ctn, updates[j].ctn)
    <3> HIDE DEF updates
    <3>1. /\ updates \in Seq(FeeUpdate) /\ updates # << >>
          /\ \A o \in Owner : updates[1].ctn[o] = 0
          /\ \A i \in DOMAIN updates : EntersInOrder(l, updates[i].ctn, funder)
          /\ \A i, j \in DOMAIN updates : i < j => Before(updates[i].ctn, updates[j].ctn)
      BY <1>5 DEF FeeUpdatesInOrder
    <3>2. /\ Len(updates) \in Nat /\ Len(updates) > 0 /\ DOMAIN updates = 1 .. Len(updates)
          /\ \A i \in DOMAIN updates : updates[i] \in FeeUpdate /\ updates[i].ctn \in Ctns
      BY <1>5, FeeUpdateTypes
    <3> QED
      BY <3>1, <3>2
  <2>5. \A o \in Owner : o = r \/ o = funder
    BY <2>1, OtherOwner
  <2> DEFINE c(i) == updates[i].ctn
  <2>6. ASSUME NEW i \in DOMAIN updates
        PROVE  /\ c(i) \in Ctns /\ c(i)[r] \in Nat
               /\ c(i)[funder] \in Nat \cup {None}
               /\ c(i)[r] <= CtnNext(l, r)
               /\ c(i)[funder] # None => c(i)[funder] <= next /\ c(i)[r] <= l.ctn[r]
    BY <1>0, <1>2, <2>1, <2>4 DEF EntersInOrder, Ctns
  <2>7. ASSUME NEW i \in DOMAIN updates
        PROVE  /\ Acked(c(i)) \in Ctns
               /\ Acked(c(i))[r] = c(i)[r]
               /\ Acked(c(i))[funder] = IF c(i)[funder] = None /\ c(i)[r] <= n THEN next ELSE c(i)[funder]
    <3>1. next \in Nat
      BY <1>0, <1>2
    <3>2. c(i) \in Ctns /\ c(i)[r] # None
      BY <2>6, NoneAssumption
    <3> HIDE DEF next, n, c, updates
    <3>3. CASE c(i)[funder] = None /\ c(i)[r] <= n
      <4>1. Acked(c(i)) = [c(i) EXCEPT ![funder] = next]
        BY <2>1, <3>2, <3>3 DEF Acknowledge, Reached
      <4> HIDE DEF Acked
      <4> QED
        BY <1>7, <3>1, <3>2, <3>3, <4>1 DEF Ctns
    <3>4. CASE ~ (c(i)[funder] = None /\ c(i)[r] <= n)
      <4>1. Acked(c(i)) = c(i)
        BY <2>1, <3>2, <3>4 DEF Acknowledge, Reached
      <4> HIDE DEF Acked
      <4> QED
        BY <3>2, <3>4, <4>1
    <3> QED
      BY <3>3, <3>4
  <2>8. /\ DOMAIN changed = DOMAIN updates
        /\ \A i \in DOMAIN updates : changed[i] = [updates[i] EXCEPT !.ctn = Acked(updates[i].ctn)]
    BY <2>3
  <2> HIDE DEF changed
  <2>9. ASSUME NEW i \in DOMAIN updates
        PROVE  changed[i] \in FeeUpdate /\ changed[i].ctn = Acked(c(i))
    BY <2>4, <2>7, <2>8 DEF FeeUpdate
  <2> HIDE DEF c, Acked, AckedAll
  <2>10. changed \in Seq(FeeUpdate) /\ changed # << >>
    <3>1. changed = [i \in 1 .. Len(updates) |-> changed[i]]
      BY <2>3, <2>4 DEF AckedAll
    <3>2. changed \in [1 .. Len(updates) -> FeeUpdate]
      BY <2>4, <2>9, <3>1
    <3>3. changed \in Seq(FeeUpdate)
      BY <2>4, <3>2
    <3>4. 1 \in DOMAIN changed
      BY <2>4, <2>8
    <3> QED
      BY <3>3, <3>4
  <2>11. \A o \in Owner : changed[1].ctn[o] = 0
    <3>1. 1 \in DOMAIN updates /\ c(1)[r] = 0 /\ c(1)[funder] = 0
      BY <2>4 DEF c
    <3>2. changed[1].ctn[r] = 0 /\ changed[1].ctn[funder] = 0
      BY <2>7, <2>9, <3>1, NoneAssumption
    <3> QED
      BY <2>5, <3>2
  <2>12. ASSUME NEW i \in DOMAIN updates
         PROVE  EntersInOrder(m, changed[i].ctn, funder)
    <3>1. n = l.ctn[r] + 1 /\ l.ctn[r] \in Nat /\ next \in Nat /\ CtnNext(l, r) <= n + 1
      BY <1>0, <1>2
    <3> HIDE DEF n, next
    <3>2. Acked(c(i))[r] # None /\ Acked(c(i))[r] <= CtnNext(m, r)
      BY <1>0, <1>3, <2>6, <2>7, <3>1, <1>2, NoneAssumption
    <3>3. Acked(c(i))[funder] # None => /\ Acked(c(i))[funder] <= CtnNext(m, funder)
                                        /\ Acked(c(i))[r] <= m.ctn[r]
      <4>1. CtnNext(m, funder) = next /\ m.ctn[r] = n
        BY <1>3, <2>1
      <4> QED
        BY <2>6, <2>7, <3>1, <4>1
    <3> QED
      BY <2>1, <2>5, <2>9, <3>2, <3>3 DEF EntersInOrder
  <2>13. ASSUME NEW i \in DOMAIN updates, NEW j \in DOMAIN updates, i < j
         PROVE  Before(changed[i].ctn, changed[j].ctn)
    <3>1. Before(c(i), c(j))
      BY <2>4, <2>13 DEF c
    <3>2. Reached(c(i)[r], c(j)[r])
      BY <2>6, <3>1, NoneAssumption DEF Before
    <3>3. c(j)[funder] # None => Reached(c(i)[funder], c(j)[funder])
      BY <3>1 DEF Before
    <3>4. next \in Nat /\ n \in Nat /\ next # None
      BY <1>0, <1>2, NoneAssumption
    <3> HIDE DEF n, next
    <3>5. Reached(Acked(c(i))[r], Acked(c(j))[r])
      BY <2>7, <3>2
    <3>6. Acked(c(j))[funder] # None => Reached(Acked(c(i))[funder], Acked(c(j))[funder])
      <4>1. c(i)[r] <= c(j)[r] /\ c(i)[r] \in Nat /\ c(j)[r] \in Nat
        BY <2>6, <3>2 DEF Reached
      <4>2. CASE c(j)[funder] # None
        <5>1. Acked(c(j))[funder] = c(j)[funder] /\ Acked(c(i))[funder] = c(i)[funder]
          BY <2>7, <3>3, <4>2 DEF Reached
        <5> QED
          BY <3>3, <4>2, <5>1
      <4>3. CASE c(j)[funder] = None /\ c(j)[r] <= n
        <5>1. Acked(c(j))[funder] = next
          BY <2>7, <4>3
        <5>2. c(i)[r] <= n
          BY <3>4, <4>1, <4>3
        <5>3. Acked(c(i))[funder] = IF c(i)[funder] = None THEN next ELSE c(i)[funder]
          BY <2>7, <5>2
        <5>4. c(i)[funder] # None => c(i)[funder] <= next
          BY <2>6
        <5> QED
          BY <3>4, <5>1, <5>3, <5>4 DEF Reached
      <4>4. CASE c(j)[funder] = None /\ ~ (c(j)[r] <= n)
        BY <2>7, <4>4
      <4> QED
        BY <4>2, <4>3, <4>4
    <3> QED
      BY <2>5, <2>9, <3>5, <3>6 DEF Before
  <2>14. FeeUpdatesInOrder(m, changed, funder)
    BY <2>8, <2>10, <2>11, <2>12, <2>13 DEF FeeUpdatesInOrder
  <2> QED
    BY <2>2, <2>14 DEF FeesInOrder, changed
<1> QED
  BY <1>6, <1>7

(* discard_unsigned_remote_updates: what is discarded are the last updates. *)
LEMMA DiscardKeepsOrder ==
    ASSUME NEW l, LogInv(l), NEW me \in Owner, NEW funder \in Owner, FeesInOrder(l, funder),
           NEW m, m = DiscardUnsignedRemoteUpdates(l, me)
    PROVE  FeesInOrder(m, funder)
<1> DEFINE remote  == Other(me)
           latest  == CtnLatest(l, me)
           updates == l.fee_updates[funder]
           Signed(s) == {i \in DOMAIN s : s[i].ctn[me] <= latest}
<1>0. CounterTypes(l) /\ LogFrame(l) /\ LogInv(m) /\ remote \in Owner /\ remote # me
  BY LogInvParts, OtherOwner, DiscardInv
<1>a. CounterTypes(m)
  BY <1>0, LogInvParts
<1>1. /\ m.ctn = l.ctn /\ m.revack_pending = l.revack_pending
      /\ m.fee_updates = [l.fee_updates EXCEPT ![remote] = Restrict(@, Signed(@))]
  <2>1. l = [f \in LogField |-> l[f]]
    BY <1>0 DEF LogFrame
  <2>2. PICK locked, adds, active, next, removes : m = [l EXCEPT
           !.locked_in[remote]    = locked,
           !.adds[remote]         = adds,
           !.maybe_active[remote] = active,
           !.next_htlc_id[remote] = next,
           !.removes = removes,
           !.fee_updates[remote] = Restrict(@, Signed(@))]
    BY DEF DiscardUnsignedRemoteUpdates
  <2> HIDE DEF Signed, remote
  <2> QED
    BY <2>1, <2>2 DEF LogField
<1>2. \A o \in Owner : /\ m.ctn[o] = l.ctn[o] /\ CtnNext(m, o) = CtnNext(l, o)
                       /\ l.ctn[o] \in Nat /\ CtnLatest(l, o) \in Nat /\ CtnNext(l, o) \in Nat
  <2>1. \A o \in Owner : m.ctn[o] = l.ctn[o] /\ CtnNext(m, o) = CtnNext(l, o)
    BY <1>1 DEF CtnNext, CtnLatest
  <2>2. \A o \in Owner : l.ctn[o] \in Nat /\ CtnLatest(l, o) \in Nat /\ CtnNext(l, o) \in Nat
    BY <1>0, CtnType
  <2> QED
    BY <2>1, <2>2
<1>3. l.fee_updates = [o \in Owner |-> l.fee_updates[o]] /\ l.fee_updates[Other(funder)] = << >>
      /\ FeeUpdatesInOrder(l, updates, funder)
  BY DEF FeesInOrder
<1>4. CASE funder = me
  <2>1. Restrict(<< >>, Signed(<< >>)) = << >>
    BY DEF Restrict
  <2> HIDE DEF Signed
  <2>2. m.fee_updates = l.fee_updates
    BY <1>1, <1>3, <1>4, <2>1
  <2> QED
    BY <1>0, <1>a, <1>2, <2>2, SameFees
<1>5. CASE funder # me
  <2> DEFINE changed == m.fee_updates[funder]
             kept    == Signed(updates)
  <2>1. remote = funder /\ Other(funder) = me
    BY <1>5, OtherOwner
  <2>2. m.fee_updates = [o \in Owner |-> m.fee_updates[o]] /\ m.fee_updates[Other(funder)] = << >>
    BY <1>0, <1>1, <1>3, <2>1
  <2>3. changed = Restrict(updates, kept)
    BY <1>1, <1>3, <2>1
  <2>4. /\ updates \in Seq(FeeUpdate) /\ updates # << >> /\ Len(updates) \in Nat /\ Len(updates) > 0
        /\ DOMAIN updates = 1 .. Len(updates)
        /\ \A i \in DOMAIN updates : updates[i] \in FeeUpdate
        /\ \A i \in DOMAIN updates : updates[i].ctn[me] \in Nat \cup {None}
        /\ \A o \in Owner : updates[1].ctn[o] = 0
        /\ \A i \in DOMAIN updates : EntersInOrder(l, updates[i].ctn, funder)
        /\ \A i, j \in DOMAIN updates : i < j => Before(updates[i].ctn, updates[j].ctn)
    <3> HIDE DEF updates
    <3>1. /\ updates \in Seq(FeeUpdate) /\ updates # << >>
          /\ \A o \in Owner : updates[1].ctn[o] = 0
          /\ \A i \in DOMAIN updates : EntersInOrder(l, updates[i].ctn, funder)
          /\ \A i, j \in DOMAIN updates : i < j => Before(updates[i].ctn, updates[j].ctn)
      BY <1>3 DEF FeeUpdatesInOrder
    <3>2. /\ Len(updates) \in Nat /\ Len(updates) > 0 /\ DOMAIN updates = 1 .. Len(updates)
          /\ \A i \in DOMAIN updates : updates[i] \in FeeUpdate
          /\ \A i \in DOMAIN updates : updates[i].ctn[me] \in Nat \cup {None}
      BY <1>3, FeeUpdateTypes
    <3> QED
      BY <3>1, <3>2
  <2> HIDE DEF updates
  <2>5. \A i \in DOMAIN updates : updates[i].ctn[me] \in Nat
    BY <2>1, <2>4 DEF EntersInOrder
  <2>6. kept \subseteq 1 .. Len(updates) /\ 1 \in kept
    BY <1>2, <2>4
  <2>7. \A i, j \in 1 .. Len(updates) : i < j /\ j \in kept => i \in kept
    <3> SUFFICES ASSUME NEW i \in 1 .. Len(updates), NEW j \in kept, i < j
                 PROVE  updates[i].ctn[me] <= latest
      BY <2>4
    <3>1. Before(updates[i].ctn, updates[j].ctn)
      BY <2>4
    <3>2. updates[j].ctn[me] # None
      BY <2>4, <2>5, NoneAssumption
    <3>3. updates[i].ctn[me] <= updates[j].ctn[me]
      BY <3>1, <3>2 DEF Before, Reached
    <3>4. latest \in Nat
      BY <1>2
    <3> HIDE DEF latest
    <3> QED
      BY <2>4, <2>5, <3>3, <3>4
  <2> HIDE DEF kept
  <2>8. PICK n \in kept : \A i \in kept : i <= n
    <3>1. Max(kept) \in kept /\ \A i \in kept : i <= Max(kept)
      <4>1. kept \subseteq Nat /\ kept # {} /\ \A i \in kept : i < Len(updates) + 1
        BY <2>4, <2>6
      <4>2. Len(updates) + 1 \in Nat
        BY <2>4
      <4> QED
        BY <4>1, <4>2, MaxOfBounded
    <3> QED
      BY <3>1
  <2>9. n \in Nat /\ n > 0 /\ kept = 1 .. n /\ n <= Len(updates)
    <3>1. n \in 1 .. Len(updates)
      BY <2>6, <2>8
    <3>2. kept \subseteq 1 .. n
      BY <2>4, <2>6, <2>8, <3>1
    <3>3. \A i \in 1 .. n : i \in kept
      BY <2>4, <2>7, <2>8, <3>1
    <3>4. 1 .. n \subseteq kept
      BY <3>3
    <3>5. kept = 1 .. n
      BY <3>2, <3>4
    <3>6. n \in Nat /\ n > 0 /\ n <= Len(updates)
      BY <2>4, <3>1
    <3> QED
      BY <3>5, <3>6
  <2>10. /\ changed \in [1 .. n -> FeeUpdate]
         /\ \A i \in 1 .. n : i \in DOMAIN updates /\ changed[i] = updates[i]
    BY <2>3, <2>4, <2>9 DEF Restrict
  <2> HIDE DEF changed
  <2>11. changed \in Seq(FeeUpdate) /\ DOMAIN changed = 1 .. n /\ changed # << >>
    BY <2>9, <2>10
  <2>12. \A o \in Owner : changed[1].ctn[o] = 0
    BY <2>4, <2>9, <2>10
  <2>13. ASSUME NEW i \in DOMAIN changed
         PROVE  EntersInOrder(m, changed[i].ctn, funder)
    <3>1. EntersInOrder(l, updates[i].ctn, funder) /\ changed[i] = updates[i]
      BY <2>4, <2>10, <2>11
    <3> QED
      BY <1>2, <3>1, OtherOwner DEF EntersInOrder
  <2>14. \A i, j \in DOMAIN changed : i < j => Before(changed[i].ctn, changed[j].ctn)
    BY <2>4, <2>10, <2>11
  <2>15. FeeUpdatesInOrder(m, changed, funder)
    BY <2>11, <2>12, <2>13, <2>14 DEF FeeUpdatesInOrder
  <2> QED
    BY <2>2, <2>15 DEF FeesInOrder, changed
<1> QED
  BY <1>4, <1>5

(* The recursive function in get_feerate is one of those that satisfy its     *)
(* equation, and the search starts with all of the log.                       *)
SearchEquation(g, fees, owner, n) ==
    g = [interval \in (0 .. Len(fees)) \X (0 .. Len(fees)) |->
            LET left  == interval[1]
                right == interval[2]
                i     == (left + right) \div 2
            IN  IF right - left <= 1 THEN i
                ELSE IF fees[i + 1].ctn[owner] = None THEN g[<<left, i>>]
                ELSE IF fees[i + 1].ctn[owner] <= n   THEN g[<<i, right>>]
                ELSE g[<<left, i>>]]

Search(fees, owner, n) == (CHOOSE g : SearchEquation(g, fees, owner, n))[<<0, Len(fees)>>]

LEMMA FeerateIsChosen ==
    ASSUME NEW l, NEW owner, NEW n
    PROVE  Feerate(l, owner, n) = FeeLog(l)[Search(FeeLog(l), owner, n) + 1].rate
BY DEF Feerate, Search, SearchEquation

(* A binary search over updates of which the first k are in force. *)
LEMMA SearchFinds ==
    ASSUME NEW fees, NEW size \in Nat, size = Len(fees), NEW k \in 1 .. size, NEW owner, NEW n,
           \A i \in 1 .. size : Reached(fees[i].ctn[owner], n) <=> i <= k
    PROVE  Search(fees, owner, n) = k - 1
<1> DEFINE Index == 0 .. size
           Mid(left, right)    == (left + right) \div 2
           Body(g, left, right) ==
              LET i == (left + right) \div 2
              IN  IF right - left <= 1 THEN i
                  ELSE IF fees[i + 1].ctn[owner] = None THEN g[<<left, i>>]
                  ELSE IF fees[i + 1].ctn[owner] <= n   THEN g[<<i, right>>]
                  ELSE g[<<left, i>>]
           Found(left, right) == IF right - left <= 1 THEN Mid(left, right)
                                 ELSE IF k - 1 <= left THEN left
                                 ELSE IF right - 1 <= k - 1 THEN right - 1 ELSE k - 1
           f == [interval \in Index \X Index |-> Found(interval[1], interval[2])]
<1>1. ASSUME NEW left \in Index, NEW right \in Index, right - left > 1
      PROVE  /\ Mid(left, right) \in Index
             /\ left < Mid(left, right) /\ Mid(left, right) < right
             /\ Mid(left, right) + 1 \in 1 .. size
  BY <1>1
<1>2. ASSUME NEW g, NEW left \in Index, NEW right \in Index
      PROVE  Body(g, left, right) =
               IF right - left <= 1 THEN Mid(left, right)
               ELSE IF Mid(left, right) + 1 <= k THEN g[<<Mid(left, right), right>>]
               ELSE g[<<left, Mid(left, right)>>]
  <2>1. CASE right - left <= 1
    BY <2>1
  <2>2. CASE ~ (right - left <= 1)
    <3>1. Mid(left, right) + 1 \in 1 .. size
      BY <1>1, <2>2
    <3>2. Reached(fees[Mid(left, right) + 1].ctn[owner], n) <=> Mid(left, right) + 1 <= k
      BY <3>1
    <3> QED
      BY <2>2, <3>2 DEF Reached
  <2> QED
    BY <2>1, <2>2
<1>3. ASSUME NEW left \in Index, NEW right \in Index
      PROVE  Found(left, right) =
               IF right - left <= 1 THEN Mid(left, right)
               ELSE IF Mid(left, right) + 1 <= k THEN Found(Mid(left, right), right)
               ELSE Found(left, Mid(left, right))
  <2>1. CASE right - left <= 1
    BY <2>1
  <2>2. CASE ~ (right - left <= 1)
    <3>1. PICK i \in Index : i = Mid(left, right) /\ left < i /\ i < right
      BY <1>1, <2>2
    <3>2. i - left <= 1 => Mid(left, i) = left
      BY <3>1
    <3>3. right - i <= 1 => Mid(i, right) = i
      BY <3>1
    <3> HIDE DEF Mid
    <3>4. CASE i + 1 <= k
      <4>1. Found(left, right) = IF right - 1 <= k - 1 THEN right - 1 ELSE k - 1
        BY <2>2, <3>1, <3>4
      <4>2. Found(i, right) = IF right - 1 <= k - 1 THEN right - 1 ELSE k - 1
        <5>1. CASE right - i <= 1
          BY <3>1, <3>3, <3>4, <5>1
        <5>2. CASE ~ (right - i <= 1)
          BY <3>1, <3>4, <5>2
        <5> QED
          BY <5>1, <5>2
      <4> QED
        BY <2>2, <3>1, <3>4, <4>1, <4>2
    <3>5. CASE ~ (i + 1 <= k)
      <4>1. Found(left, right) = IF k - 1 <= left THEN left ELSE k - 1
        BY <2>2, <3>1, <3>5
      <4>2. Found(left, i) = IF k - 1 <= left THEN left ELSE k - 1
        <5>1. CASE i - left <= 1
          BY <3>1, <3>2, <3>5, <5>1
        <5>2. CASE ~ (i - left <= 1)
          BY <3>1, <3>5, <5>2
        <5> QED
          BY <5>1, <5>2
      <4> QED
        BY <2>2, <3>1, <3>5, <4>1, <4>2
    <3> QED
      BY <3>4, <3>5
  <2> QED
    BY <2>1, <2>2
<1>4. \A left, right \in Index : f[<<left, right>>] = Found(left, right)
  OBVIOUS
<1>5. \A g : SearchEquation(g, fees, owner, n) <=>
               g = [interval \in Index \X Index |-> Body(g, interval[1], interval[2])]
  BY DEF SearchEquation
<1> HIDE DEF Body
<1>6. SearchEquation(f, fees, owner, n)
  <2>1. \A left, right \in Index : Body(f, left, right) = Found(left, right)
    <3> SUFFICES ASSUME NEW left \in Index, NEW right \in Index
                 PROVE  Body(f, left, right) = Found(left, right)
      OBVIOUS
    <3> HIDE DEF Found, Mid, f
    <3>1. CASE right - left <= 1
      BY <1>2, <1>3, <3>1
    <3>2. CASE ~ (right - left <= 1)
      <4>1. Mid(left, right) \in Index
        BY <1>1, <3>2
      <4>2. Body(f, left, right) = IF Mid(left, right) + 1 <= k THEN f[<<Mid(left, right), right>>]
                                                               ELSE f[<<left, Mid(left, right)>>]
        BY <1>2, <3>2
      <4>3. Found(left, right) = IF Mid(left, right) + 1 <= k THEN Found(Mid(left, right), right)
                                                              ELSE Found(left, Mid(left, right))
        BY <1>3, <3>2
      <4>4. /\ f[<<Mid(left, right), right>>] = Found(Mid(left, right), right)
            /\ f[<<left, Mid(left, right)>>] = Found(left, Mid(left, right))
        BY <1>4, <4>1
      <4> QED
        BY <4>2, <4>3, <4>4
    <3> QED
      BY <3>1, <3>2
  <2> HIDE DEF Found, Mid
  <2>2. f = [interval \in Index \X Index |-> Body(f, interval[1], interval[2])]
    BY <2>1
  <2> QED
    BY <1>5, <2>2
<1> DEFINE g == CHOOSE h : SearchEquation(h, fees, owner, n)
<1>7. SearchEquation(g, fees, owner, n)
  BY <1>6
<1> HIDE DEF g, f
<1>8. \A left, right \in Index : g[<<left, right>>] = Body(g, left, right)
  <2>1. g = [interval \in Index \X Index |-> Body(g, interval[1], interval[2])]
    BY <1>5, <1>7
  <2> QED
    BY <2>1
<1> DEFINE Same(d) == \A left, right \in Index :
                         right - left <= d => g[<<left, right>>] = Found(left, right)
           A == {d \in Nat : Same(d)}
<1>9. A = Nat
  <2>1. ASSUME NEW left \in Index, NEW right \in Index, right - left <= 1
        PROVE  g[<<left, right>>] = Found(left, right)
    <3>1. g[<<left, right>>] = Body(g, left, right)
      BY <1>8
    <3> HIDE DEF Mid, Found
    <3>2. Body(g, left, right) = Mid(left, right)
      BY <1>2, <2>1
    <3>3. Found(left, right) = Mid(left, right)
      BY <1>3, <2>1
    <3> QED
      BY <3>1, <3>2, <3>3
  <2>2. 0 \in A
    <3> HIDE DEF Found, Mid
    <3> QED
      BY <2>1
  <2>3. ASSUME NEW d \in A PROVE d + 1 \in A
    <3> SUFFICES ASSUME NEW left \in Index, NEW right \in Index, right - left <= d + 1
                 PROVE  g[<<left, right>>] = Found(left, right)
      OBVIOUS
    <3>1. CASE right - left <= 1
      BY <2>1, <3>1
    <3>2. CASE ~ (right - left <= 1)
      <4>1. PICK i \in Index : i = Mid(left, right) /\ left < i /\ i < right
        BY <1>1, <3>2
      <4>2. i - left <= d /\ right - i <= d
        BY <4>1
      <4> HIDE DEF Found, Mid
      <4>3. g[<<left, i>>] = Found(left, i) /\ g[<<i, right>>] = Found(i, right)
        BY <4>2
      <4> QED
        BY <1>2, <1>3, <1>8, <3>2, <4>1, <4>3
    <3> QED
      BY <3>1, <3>2
  <2> HIDE DEF A
  <2>4. A \in SUBSET Nat
    BY DEF A
  <2> QED
    BY <2>2, <2>3, <2>4, SetInduction
<1>10. g[<<0, size>>] = Found(0, size)
  <2>1. size \in A
    BY <1>9
  <2> HIDE DEF Found, Mid
  <2> QED
    BY <2>1
<1>11. Found(0, size) = k - 1
  <2>1. CASE size = 1
    BY <2>1
  <2>2. CASE size # 1
    <3> HIDE DEF Mid
    <3> QED
      BY <2>2
  <2> QED
    BY <2>1, <2>2
<1> QED
  BY <1>10, <1>11 DEF g, Search

(* Signing a ctx moves the next ctn on. *)
LEMMA SameCtns ==
    ASSUME NEW l, CounterTypes(l), NEW m, CounterTypes(m), m.ctn = l.ctn,
           \A o \in Owner : l.revack_pending[o] => m.revack_pending[o]
    PROVE  \A o \in Owner : l.ctn[o] <= m.ctn[o] /\ CtnNext(l, o) <= CtnNext(m, o)
BY DEF CounterTypes, CtnNext, CtnLatest

(* What is in force in the ctx of owner at n are the first updates, and the   *)
(* search finds the last one.                                                 *)
LEMMA FeerateFound ==
    ASSUME NEW l, LogInv(l), NEW funder \in Owner, FeesInOrder(l, funder),
           NEW owner \in Owner, NEW n \in Nat,
           NEW updates, updates = FeeLog(l),
           NEW inForce, inForce = {i \in DOMAIN updates : Reached(updates[i].ctn[owner], n)}
    PROVE  inForce # {} /\ Feerate(l, owner, n) = updates[Max(inForce)].rate
<1>1. updates = l.fee_updates[funder]
  <2>1. \A o \in Owner : o = funder \/ o = Other(funder)
    BY OtherOwner
  <2>2. l.fee_updates[Other(funder)] = << >> /\ l.fee_updates[funder] # << >>
    BY DEF FeesInOrder, FeeUpdatesInOrder
  <2>3. \A o \in Owner : l.fee_updates[o] # << >> <=> o = funder
    BY <2>1, <2>2
  <2>4. (CHOOSE o \in Owner : l.fee_updates[o] # << >>) = funder
    BY <2>3
  <2> QED
    BY <2>4 DEF FeeLog
<1>2. FeeUpdatesInOrder(l, updates, funder)
  BY <1>1 DEF FeesInOrder
<1>3. /\ Len(updates) \in Nat /\ Len(updates) > 0 /\ DOMAIN updates = 1 .. Len(updates)
      /\ \A i \in DOMAIN updates : updates[i].ctn[owner] \in Nat \cup {None}
  BY <1>2, FeeUpdateTypes
<1>4. updates[1].ctn[owner] = 0
      /\ \A i, j \in DOMAIN updates : i < j => Before(updates[i].ctn, updates[j].ctn)
  BY <1>2 DEF FeeUpdatesInOrder
<1>5. 1 \in inForce
  BY <1>3, <1>4, NoneAssumption DEF Reached
<1>6. inForce \subseteq Nat /\ inForce \subseteq 1 .. Len(updates)
  BY <1>3
<1>7. Max(inForce) \in inForce /\ \A i \in inForce : i <= Max(inForce)
  <2>1. Len(updates) + 1 \in Nat /\ \A i \in inForce : i < Len(updates) + 1
    BY <1>3, <1>6
  <2> QED
    BY <1>5, <1>6, <2>1, MaxOfBounded
<1> DEFINE k == Max(inForce)
<1>8. k \in 1 .. Len(updates) /\ k \in inForce /\ \A i \in inForce : i <= k
  BY <1>6, <1>7
<1> HIDE DEF k
<1>9. \A i \in 1 .. Len(updates) : Reached(updates[i].ctn[owner], n) <=> i <= k
  <2> SUFFICES ASSUME NEW i \in 1 .. Len(updates)
               PROVE  Reached(updates[i].ctn[owner], n) <=> i <= k
    OBVIOUS
  <2>1. ASSUME Reached(updates[i].ctn[owner], n) PROVE i <= k
    BY <1>3, <1>8, <2>1
  <2>2. ASSUME i < k PROVE Reached(updates[i].ctn[owner], n)
    <3>1. Before(updates[i].ctn, updates[k].ctn)
      BY <1>3, <1>4, <1>8, <2>2
    <3>2. Reached(updates[k].ctn[owner], n)
      BY <1>8
    <3>3. Reached(updates[i].ctn[owner], updates[k].ctn[owner])
      BY <3>1, <3>2 DEF Before, Reached
    <3> QED
      BY <1>3, <1>8, <3>2, <3>3 DEF Reached
  <2>3. i <= k => i < k \/ i = k
    BY <1>3, <1>8
  <2>4. Reached(updates[k].ctn[owner], n)
    BY <1>8
  <2> QED
    BY <2>1, <2>2, <2>3, <2>4
<1>10. Search(updates, owner, n) = k - 1
  <2>1. PICK size \in Nat : size = Len(updates)
    BY <1>3
  <2>2. k \in 1 .. size /\ \A i \in 1 .. size : Reached(updates[i].ctn[owner], n) <=> i <= k
    BY <1>8, <1>9, <2>1
  <2> QED
    BY <2>1, <2>2, SearchFinds
<1>11. Feerate(l, owner, n) = updates[k - 1 + 1].rate
  BY <1>10, FeerateIsChosen
<1>12. k - 1 + 1 = k
  BY <1>3, <1>8
<1> QED
  BY <1>5, <1>11, <1>12 DEF k

(* The fee log stays sorted for both owners, so that get_feerate's binary     *)
(* search returns the last feerate in force, for every ctn up to the next.    *)
THEOREM FeeratesAreFound == Spec => []FeerateIsLastInForce
<1> DEFINE Sorted == \E funder \in Owner : FeesInOrder(log, funder)
<1>1. Init => Sorted
  BY NewLogFees, ValuesAssumption DEF Init
<1>2. Sorted /\ Inv /\ Inv' /\ [Next]_log => Sorted'
  <2> SUFFICES ASSUME NEW funder \in Owner, FeesInOrder(log, funder), Inv, Inv', [Next]_log
               PROVE  FeesInOrder(log', funder)
    OBVIOUS
  <2> USE LocalAssumption
  <2>0. /\ LogInv(log) /\ log = [f \in LogField |-> log[f]]
        /\ CounterTypes(log) /\ CounterTypes(log') /\ LogInv(log')
    BY LogInvParts DEF Inv, LogFrame
  <2>1. CASE ChangeFeerate
    <3>1. PICK sender \in Owner, rate \in Feerates :
              log' = UpdateFee(log, sender, rate) /\ log.fee_updates[sender] # << >>
      BY <2>1 DEF ChangeFeerate
    <3>2. sender = funder
      BY <3>1, OtherOwner DEF FeesInOrder
    <3>3. rate \in Nat
      BY ValuesAssumption
    <3> QED
      BY <2>0, <3>1, <3>2, <3>3, UpdateFeeKeepsOrder
  <2>2. CASE SendRevocation \/ RecvRevocation
    <3>1. ASSUME NEW r \in Owner, NEW x, x = Revoke(log, r), NEW y, y = UpdateMaybeActive(x, Local)
          PROVE  /\ LogInv(y) /\ FeesInOrder(y, funder) /\ y = [f \in LogField |-> y[f]]
      <4>1. LogInv(x) /\ FeesInOrder(x, funder)
        BY <2>0, <3>1, RevokeInv, RevokeKeepsOrder
      <4>2. LogInv(y)
        BY <3>1, <4>1, UpdateMaybeActiveInv
      <4>3. x = [f \in LogField |-> x[f]] /\ y = [f \in LogField |-> y[f]]
            /\ CounterTypes(x) /\ CounterTypes(y)
        BY <4>1, <4>2, LogInvParts DEF LogFrame
      <4>4. y.ctn = x.ctn /\ y.revack_pending = x.revack_pending /\ y.fee_updates = x.fee_updates
        BY <3>1, <4>3 DEF UpdateMaybeActive, LogField
      <4>5. \A o \in Owner : x.ctn[o] <= y.ctn[o] /\ CtnNext(x, o) <= CtnNext(y, o)
        BY <4>3, <4>4, CtnType DEF CounterTypes, CtnNext, CtnLatest
      <4> QED
        BY <4>1, <4>2, <4>3, <4>4, <4>5, SameFees
    <3>2. ASSUME NEW y, LogInv(y), FeesInOrder(y, funder), y = [f \in LogField |-> y[f]],
                 NEW value, \/ log' = [y EXCEPT !.was_revoke_last = value]
                            \/ log' = [y EXCEPT !.unacked_updates = value]
          PROVE  FeesInOrder(log', funder)
      <4>1. /\ log'.ctn = y.ctn /\ log'.revack_pending = y.revack_pending
            /\ log'.fee_updates = y.fee_updates
        BY <3>2 DEF LogField
      <4>2. CounterTypes(y)
        BY <3>2, LogInvParts
      <4>3. \A o \in Owner : y.ctn[o] <= log'.ctn[o] /\ CtnNext(y, o) <= CtnNext(log', o)
        BY <4>1, <4>2, CtnType DEF CounterTypes, CtnNext, CtnLatest
      <4> QED
        BY <2>0, <3>2, <4>1, <4>2, <4>3, SameFees
    <3>3. CASE SendRevocation
      <4> DEFINE y == UpdateMaybeActive(Revoke(log, Local), Local)
      <4>1. LogInv(y) /\ FeesInOrder(y, funder) /\ y = [f \in LogField |-> y[f]]
        BY <3>1
      <4>2. PICK value : log' = [y EXCEPT !.was_revoke_last = value]
        BY <3>3 DEF SendRevocation, SendRev
      <4> HIDE DEF y
      <4> QED
        BY <3>2, <4>1, <4>2
    <3>4. CASE RecvRevocation
      <4> DEFINE y == UpdateMaybeActive(Revoke(log, Other(Local)), Local)
      <4>1. LogInv(y) /\ FeesInOrder(y, funder) /\ y = [f \in LogField |-> y[f]]
        BY <3>1, OtherOwner
      <4>2. PICK value : log' = [y EXCEPT !.unacked_updates = value]
        BY <3>4 DEF RecvRevocation, RecvRev
      <4> HIDE DEF y
      <4> QED
        BY <3>2, <4>1, <4>2
    <3> QED
      BY <2>2, <3>3, <3>4
  <2>3. CASE Discard
    BY <2>0, <2>3, DiscardKeepsOrder DEF Discard
  <2>4. ASSUME log'.fee_updates = log.fee_updates, log'.ctn = log.ctn,
               \A o \in Owner : log.revack_pending[o] => log'.revack_pending[o]
        PROVE  FeesInOrder(log', funder)
    <3>1. \A o \in Owner : log.ctn[o] <= log'.ctn[o] /\ CtnNext(log, o) <= CtnNext(log', o)
      BY <2>0, <2>4, SameCtns
    <3> QED
      BY <2>0, <2>4, <3>1, SameFees
  <2>5. ASSUME NEW proposer \in Owner, Add(proposer)
        PROVE  FeesInOrder(log', funder)
    BY <2>0, <2>4, <2>5 DEF Add, AddHtlc, LogField
  <2>6. ASSUME NEW proposer \in Owner, NEW kind \in RemovalKind, SettleOrFail(kind, proposer)
        PROVE  FeesInOrder(log', funder)
    BY <2>0, <2>4, <2>6 DEF SettleOrFail, RemoveHtlc, LogField
  <2>7. CASE SendCommitment
    BY <2>0, <2>4, <2>7 DEF SendCommitment, SendCtx, LogField, CounterTypes
  <2>8. CASE RecvCommitment
    BY <2>0, <2>4, <2>8 DEF RecvCommitment, RecvCtx, LogField, CounterTypes
  <2>9. CASE Reload
    BY <2>0, <2>4, <2>9 DEF Reload, Load, Stored, UpdateMaybeActive, LogField
  <2>10. CASE UNCHANGED log
    BY <2>10
  <2> QED
    BY <2>1, <2>2, <2>3, <2>5, <2>6, <2>7, <2>8, <2>9, <2>10 DEF Next
<1>3. Sorted /\ Inv => FeerateIsLastInForce
  <2> SUFFICES ASSUME NEW funder \in Owner, FeesInOrder(log, funder), Inv,
                      NEW owner \in Owner, NEW n \in 0 .. CtnNext(log, owner),
                      NEW updates, updates = FeeLog(log),
                      NEW inForce, inForce = {i \in DOMAIN updates : Reached(updates[i].ctn[owner], n)}
               PROVE  inForce # {} /\ Feerate(log, owner, n) = updates[Max(inForce)].rate
    BY DEF FeerateIsLastInForce
  <2>1. n \in Nat
    <3>1. CtnNext(log, owner) \in Nat
      BY CtnType, LogInvParts DEF Inv
    <3> QED
      BY <3>1
  <2> QED
    BY <2>1, FeerateFound DEF Inv
<1>4. Spec => []Sorted
  BY <1>1, <1>2, Invariance, PTL DEF Spec
<1> QED
  BY <1>3, <1>4, Invariance, PTL
=============================================================================

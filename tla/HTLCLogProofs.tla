--------------------------- MODULE HTLCLogProofs ---------------------------
(***************************************************************************)
(* Every method of HTLCManager that changes the log preserves LogInv: one  *)
(* lemma for each operator of HTLCLog, over any log.  HTLCManagerProofs    *)
(* draws the theorems about the class from them.                           *)
(***************************************************************************)
EXTENDS HTLCLog, TLAPS, WellFoundedInduction

(* There are two owners. *)
LEMMA OtherOwner ==
    ASSUME NEW o \in Owner
    PROVE  /\ Other(o) \in Owner
           /\ Other(o) # o
           /\ Other(Other(o)) = o
           /\ \A x \in Owner : x = o \/ x = Other(o)
<1>1. PICK a, b \in Owner : a # b /\ Owner = {a, b}
  BY OwnerAssumption
<1>2. \A x \in Owner : \E y \in Owner : y # x
  BY <1>1
<1>3. \A x \in Owner : Other(x) \in Owner /\ Other(x) # x
  BY <1>2 DEF Other
<1> QED
  BY <1>1, <1>3

LEMMA KindOfRemoval ==
    "settles" \in RemovalKind /\ "fails" \in RemovalKind /\ "settles" # "fails"
  BY DEF RemovalKind

(* CtnLatest and CtnNext are numbers, next to the oldest ctn not revoked.     *)
LEMMA CtnType ==
    ASSUME NEW l, CounterTypes(l), NEW o \in Owner
    PROVE  /\ l.ctn[o] \in Nat
           /\ CtnLatest(l, o) \in {l.ctn[o], l.ctn[o] + 1}
           /\ CtnNext(l, o) = CtnLatest(l, o) + 1
           /\ CtnNext(l, o) \in Nat /\ CtnNext(l, o) > l.ctn[o]
  BY DEF CounterTypes, CtnLatest, CtnNext

LEMMA EntersFirstType ==
    ASSUME NEW o \in Owner, NEW n \in Nat
    PROVE  /\ EntersFirst(o, n) \in Ctns
           /\ EntersFirst(o, n)[o] = n
           /\ EntersFirst(o, n)[Other(o)] = None
  BY OtherOwner DEF EntersFirst, Ctns

LEMMA LogInvParts ==
    ASSUME NEW l, LogInv(l)
    PROVE  /\ LogFrame(l) /\ CounterTypes(l) /\ UpdateTypes(l)
           /\ UpdatesInOrder(l) /\ IdsAreFresh(l)
           /\ RemovedAfterAdded(l) /\ RemovedOneWay(l)
           /\ StoredLogInv(l) /\ CacheIsSound(l)
  BY DEF LogInv, StoredLogInv, LogShape

(* Later ctns do not disturb the order of an update. *)
LEMMA InOrderLater ==
    ASSUME NEW l, NEW m, CounterTypes(l), CounterTypes(m),
           NEW c \in Ctns, NEW first \in Owner,
           InOrder(l, c, first),
           l.ctn[first] <= m.ctn[first],
           CtnNext(l, first) <= CtnNext(m, first)
    PROVE  InOrder(m, c, first)
<1>1. /\ l.ctn[first] \in Nat /\ m.ctn[first] \in Nat
      /\ CtnNext(l, first) \in Nat /\ CtnNext(m, first) \in Nat
  BY CtnType
<1>2. c[first] \in Nat
  BY DEF InOrder, Reached, Ctns
<1> QED
  BY <1>1, <1>2 DEF InOrder, Reached

-----------------------------------------------------------------------------
(* send_htlc, recv_htlc: the new id is fresh, and nothing else moves. *)
LEMMA AddHtlcInv ==
    ASSUME NEW l, LogInv(l), NEW p \in Owner, NEW amount,
           NEW m, m = AddHtlc(l, p, amount)
    PROVE  LogInv(m)
<1> DEFINE new == l.next_htlc_id[p]
           c   == EntersFirst(Other(p), CtnNext(l, Other(p)))
<1>0. /\ LogFrame(l) /\ CounterTypes(l) /\ UpdateTypes(l)
      /\ UpdatesInOrder(l) /\ IdsAreFresh(l)
      /\ RemovedAfterAdded(l) /\ RemovedOneWay(l) /\ CacheIsSound(l)
  BY LogInvParts
<1>1. new \in Nat
  BY <1>0 DEF CounterTypes
<1>2. /\ m = [f \in LogField |-> m[f]]
      /\ m.ctn = l.ctn
      /\ m.revack_pending = l.revack_pending
      /\ m.removes = l.removes
      /\ m.next_htlc_id = [l.next_htlc_id EXCEPT ![p] = new + 1]
      /\ m.maybe_active = [l.maybe_active EXCEPT ![p] = @ \cup {new}]
      /\ m.adds = [l.adds EXCEPT ![p] = With(@, new, amount)]
      /\ m.locked_in = [l.locked_in EXCEPT ![p] = With(@, new, c)]
  BY <1>0 DEF AddHtlc, LogFrame, LogField
<1>3. /\ c \in Ctns
      /\ c[Other(p)] = CtnNext(l, Other(p))
      /\ c[p] = None
  BY <1>0, CtnType, OtherOwner, EntersFirstType
<1> HIDE DEF c, new
<1>4. /\ m.locked_in[p] = With(l.locked_in[p], new, c)
      /\ m.adds[p] = With(l.adds[p], new, amount)
  BY <1>0, <1>2 DEF LogFrame
<1>5. /\ DOMAIN m.locked_in[p] = DOMAIN l.locked_in[p] \cup {new}
      /\ DOMAIN m.adds[p] = DOMAIN l.adds[p] \cup {new}
      /\ m.locked_in[p][new] = c
      /\ \A id \in DOMAIN l.locked_in[p] :
            id # new => m.locked_in[p][id] = l.locked_in[p][id]
  BY <1>4 DEF With
<1>6. m.locked_in[p] \in [DOMAIN m.locked_in[p] -> Ctns]
  BY <1>0, <1>3, <1>4 DEF With, UpdateTypes
<1>7. \A q \in Owner : q # p => m.locked_in[q] = l.locked_in[q] /\ m.adds[q] = l.adds[q]
  BY <1>0, <1>2 DEF LogFrame
<1>8. LogFrame(m)
  BY <1>0, <1>2 DEF LogFrame
<1>9. CounterTypes(m)
  BY <1>0, <1>1, <1>2 DEF CounterTypes
<1>10. UpdateTypes(m)
  <2>1. ASSUME NEW q \in Owner
        PROVE  /\ DOMAIN m.adds[q] = DOMAIN m.locked_in[q]
               /\ m.locked_in[q] \in [DOMAIN m.locked_in[q] -> Ctns]
               /\ DOMAIN m.locked_in[q] \subseteq Nat
               /\ DOMAIN l.locked_in[q] \subseteq DOMAIN m.locked_in[q]
    <3>1. DOMAIN l.adds[q] = DOMAIN l.locked_in[q] /\ DOMAIN l.locked_in[q] \subseteq Nat
      BY <1>0 DEF UpdateTypes
    <3>2. CASE q = p
      BY <3>1, <3>2, <1>1, <1>5, <1>6
    <3>3. CASE q # p
      BY <3>3, <1>0, <1>7 DEF UpdateTypes
    <3> QED
      BY <3>2, <3>3
  <2> QED
    BY <1>0, <1>2, <2>1 DEF UpdateTypes
<1>11. new \notin DOMAIN l.locked_in[p]
  BY <1>0, <1>1 DEF CounterTypes, IdsAreFresh, new
<1>12. \A q \in Owner : \A id \in DOMAIN l.locked_in[q] :
         id \in DOMAIN m.locked_in[q] /\ m.locked_in[q][id] = l.locked_in[q][id]
  BY <1>5, <1>7, <1>11
<1>13. \A o \in Owner : CtnNext(m, o) = CtnNext(l, o)
  BY <1>2 DEF CtnNext, CtnLatest
<1>14. UpdatesInOrder(m)
  <2>1. InOrder(m, m.locked_in[p][new], Other(p))
    BY <1>0, <1>3, <1>5, <1>13, OtherOwner, CtnType, NoneAssumption
       DEF InOrder, Reached
  <2>2. ASSUME NEW q \in Owner, NEW id \in DOMAIN l.locked_in[q]
        PROVE  InOrder(m, m.locked_in[q][id], Other(q))
    <3>1. InOrder(l, l.locked_in[q][id], Other(q))
      BY <1>0 DEF UpdatesInOrder
    <3>2. m.locked_in[q][id] = l.locked_in[q][id]
      BY <1>12
    <3>3. m.ctn[Other(q)] = l.ctn[Other(q)] /\ CtnNext(m, Other(q)) = CtnNext(l, Other(q))
      BY <1>2, <1>13, OtherOwner
    <3> QED
      BY <3>1, <3>2, <3>3 DEF InOrder
  <2>3. ASSUME NEW q \in Owner, NEW k \in RemovalKind, NEW id \in DOMAIN l.removes[k][q]
        PROVE  InOrder(m, m.removes[k][q][id], q)
    BY <1>0, <1>2, <1>13 DEF UpdatesInOrder, InOrder
  <2> QED
    BY <1>2, <1>5, <1>7, <2>1, <2>2, <2>3 DEF UpdatesInOrder
<1>15. IdsAreFresh(m)
  <2>1. ASSUME NEW q \in Owner, NEW id \in DOMAIN m.locked_in[q]
        PROVE  id < m.next_htlc_id[q]
    <3>1. \A i \in DOMAIN l.locked_in[q] : i \in Nat /\ i < l.next_htlc_id[q]
      BY <1>0 DEF UpdateTypes, IdsAreFresh
    <3>2. l.next_htlc_id \in [Owner -> Nat]
      BY <1>0 DEF CounterTypes
    <3> QED
      BY <1>1, <1>2, <1>5, <1>7, <3>1, <3>2 DEF new
  <2> QED
    BY <2>1 DEF IdsAreFresh
<1>16. RemovedAfterAdded(m)
  <2>1. ASSUME NEW q \in Owner, NEW o \in Owner, NEW k \in RemovalKind,
               NEW id \in DOMAIN l.removes[k][q], l.removes[k][q][id][o] # None
        PROVE  Reached(m.locked_in[q][id][o], l.removes[k][q][id][o])
    <3>1. Reached(l.locked_in[q][id][o], l.removes[k][q][id][o])
      BY <1>0, <2>1 DEF RemovedAfterAdded
    <3>2. id \in DOMAIN l.locked_in[q]
      BY <1>0 DEF UpdateTypes
    <3> QED
      BY <1>12, <3>1, <3>2
  <2> QED
    BY <1>2, <2>1 DEF RemovedAfterAdded
<1>17. RemovedOneWay(m)
  BY <1>0, <1>2 DEF RemovedOneWay
<1>18. CacheIsSound(m)
  <2>1. ASSUME NEW q \in Owner
        PROVE  /\ m.maybe_active[q] \subseteq DOMAIN m.locked_in[q]
               /\ DOMAIN m.locked_in[q] \ m.maybe_active[q]
                    \subseteq DOMAIN l.locked_in[q] \ l.maybe_active[q]
    <3>1. l.maybe_active[q] \subseteq DOMAIN l.locked_in[q]
      BY <1>0 DEF CacheIsSound
    <3>2. l.maybe_active \in [Owner -> SUBSET Nat]
      BY <1>0 DEF CounterTypes
    <3>3. CASE q = p
      <4>1. m.maybe_active[p] = l.maybe_active[p] \cup {new}
        BY <1>2, <3>2
      <4> QED
        BY <1>5, <3>1, <3>3, <4>1
    <3>4. CASE q # p
      BY <1>2, <1>7, <3>1, <3>2, <3>4
    <3> QED
      BY <3>3, <3>4
  <2> QED
    BY <1>0, <1>2, <2>1 DEF CacheIsSound
<1> QED
  BY <1>8, <1>9, <1>10, <1>14, <1>15, <1>16, <1>17, <1>18
     DEF LogInv, StoredLogInv, LogShape

-----------------------------------------------------------------------------
(* A method that leaves the HTLCs alone, and signs at most. *)
LEMMA SameUpdatesInv ==
    ASSUME NEW l, StoredLogInv(l),
           NEW m,
           m = [f \in LogField |-> m[f]],
           m.ctn = l.ctn,
           m.revack_pending \in [Owner -> BOOLEAN],
           \A o \in Owner : l.revack_pending[o] => m.revack_pending[o],
           m.next_htlc_id = l.next_htlc_id,
           m.adds = l.adds,
           m.locked_in = l.locked_in,
           m.removes = l.removes,
           m.maybe_active \in [Owner -> SUBSET Nat]
    PROVE  StoredLogInv(m)
<1>0. /\ LogFrame(l) /\ CounterTypes(l) /\ UpdateTypes(l)
      /\ UpdatesInOrder(l) /\ IdsAreFresh(l)
      /\ RemovedAfterAdded(l) /\ RemovedOneWay(l)
  BY DEF StoredLogInv, LogShape
<1>1. LogFrame(m)
  BY <1>0 DEF LogFrame
<1>2. CounterTypes(m)
  BY <1>0 DEF CounterTypes
<1>3. UpdateTypes(m)
  BY <1>0 DEF UpdateTypes
<1>4. \A o \in Owner : CtnNext(l, o) <= CtnNext(m, o)
  BY <1>0, <1>2 DEF CounterTypes, CtnNext, CtnLatest
<1>5. UpdatesInOrder(m)
  <2>1. ASSUME NEW c \in Ctns, NEW first \in Owner, InOrder(l, c, first)
        PROVE  InOrder(m, c, first)
    <3>1. l.ctn[first] <= m.ctn[first]
      BY <1>2 DEF CounterTypes
    <3> QED
      BY <2>1, <3>1, <1>0, <1>2, <1>4, InOrderLater
  <2>2. ASSUME NEW p \in Owner, NEW id \in DOMAIN m.locked_in[p]
        PROVE  InOrder(m, m.locked_in[p][id], Other(p))
    BY <1>0, <2>1, OtherOwner DEF UpdatesInOrder, UpdateTypes
  <2>3. ASSUME NEW p \in Owner, NEW k \in RemovalKind, NEW id \in DOMAIN m.removes[k][p]
        PROVE  InOrder(m, m.removes[k][p][id], p)
    BY <1>0, <2>1 DEF UpdatesInOrder, UpdateTypes
  <2> QED
    BY <2>2, <2>3 DEF UpdatesInOrder
<1>6. IdsAreFresh(m) /\ RemovedAfterAdded(m) /\ RemovedOneWay(m)
  BY <1>0 DEF IdsAreFresh, RemovedAfterAdded, RemovedOneWay
<1> QED
  BY <1>1, <1>2, <1>3, <1>5, <1>6 DEF StoredLogInv, LogShape

LEMMA SendCtxInv ==
    ASSUME NEW l, LogInv(l), NEW me \in Owner,
           NEW m, m = SendCtx(l, me)
    PROVE  LogInv(m)
<1>0. /\ LogFrame(l) /\ CounterTypes(l) /\ StoredLogInv(l) /\ CacheIsSound(l)
  BY LogInvParts
<1>1. /\ m = [f \in LogField |-> m[f]]
      /\ m.ctn = l.ctn
      /\ m.revack_pending = [l.revack_pending EXCEPT ![Other(me)] = TRUE]
      /\ m.next_htlc_id = l.next_htlc_id
      /\ m.adds = l.adds
      /\ m.locked_in = l.locked_in
      /\ m.removes = l.removes
      /\ m.maybe_active = l.maybe_active
  BY <1>0 DEF SendCtx, LogFrame, LogField
<1>2. /\ m.revack_pending \in [Owner -> BOOLEAN]
      /\ m.maybe_active \in [Owner -> SUBSET Nat]
      /\ \A o \in Owner : l.revack_pending[o] => m.revack_pending[o]
  BY <1>0, <1>1, OtherOwner DEF CounterTypes
<1>3. StoredLogInv(m)
  BY <1>0, <1>1, <1>2, SameUpdatesInv
<1> QED
  BY <1>0, <1>1, <1>3 DEF LogInv, CacheIsSound

LEMMA RecvCtxInv ==
    ASSUME NEW l, LogInv(l), NEW me \in Owner,
           NEW m, m = RecvCtx(l, me)
    PROVE  LogInv(m)
<1>0. /\ LogFrame(l) /\ CounterTypes(l) /\ StoredLogInv(l) /\ CacheIsSound(l)
  BY LogInvParts
<1>1. /\ m = [f \in LogField |-> m[f]]
      /\ m.ctn = l.ctn
      /\ m.revack_pending = [l.revack_pending EXCEPT ![me] = TRUE]
      /\ m.next_htlc_id = l.next_htlc_id
      /\ m.adds = l.adds
      /\ m.locked_in = l.locked_in
      /\ m.removes = l.removes
      /\ m.maybe_active = l.maybe_active
  BY <1>0 DEF RecvCtx, LogFrame, LogField
<1>2. /\ m.revack_pending \in [Owner -> BOOLEAN]
      /\ m.maybe_active \in [Owner -> SUBSET Nat]
      /\ \A o \in Owner : l.revack_pending[o] => m.revack_pending[o]
  BY <1>0, <1>1 DEF CounterTypes
<1>3. StoredLogInv(m)
  BY <1>0, <1>1, <1>2, SameUpdatesInv
<1> QED
  BY <1>0, <1>1, <1>3 DEF LogInv, CacheIsSound

LEMMA UpdateFeeInv ==
    ASSUME NEW l, LogInv(l), NEW sender \in Owner, NEW rate,
           NEW m, m = UpdateFee(l, sender, rate)
    PROVE  LogInv(m)
<1>0. /\ LogFrame(l) /\ CounterTypes(l) /\ StoredLogInv(l) /\ CacheIsSound(l)
  BY LogInvParts
<1>1. /\ m = [f \in LogField |-> m[f]]
      /\ m.ctn = l.ctn
      /\ m.revack_pending = l.revack_pending
      /\ m.next_htlc_id = l.next_htlc_id
      /\ m.adds = l.adds
      /\ m.locked_in = l.locked_in
      /\ m.removes = l.removes
      /\ m.maybe_active = l.maybe_active
  BY <1>0 DEF UpdateFee, LogFrame, LogField
<1>2. /\ m.revack_pending \in [Owner -> BOOLEAN]
      /\ m.maybe_active \in [Owner -> SUBSET Nat]
      /\ \A o \in Owner : l.revack_pending[o] => m.revack_pending[o]
  BY <1>0, <1>1 DEF CounterTypes
<1>3. StoredLogInv(m)
  BY <1>0, <1>1, <1>2, SameUpdatesInv
<1> QED
  BY <1>0, <1>1, <1>3 DEF LogInv, CacheIsSound

LEMMA StoreRawMsgInv ==
    ASSUME NEW l, LogInv(l), NEW me \in Owner, NEW msg, NEW signs \in BOOLEAN,
           NEW m, m = StoreRawMsg(l, me, msg, signs)
    PROVE  LogInv(m)
<1>0. /\ LogFrame(l) /\ CounterTypes(l) /\ StoredLogInv(l) /\ CacheIsSound(l)
  BY LogInvParts
<1>1. /\ m = [f \in LogField |-> m[f]]
      /\ m.ctn = l.ctn
      /\ m.revack_pending = l.revack_pending
      /\ m.next_htlc_id = l.next_htlc_id
      /\ m.adds = l.adds
      /\ m.locked_in = l.locked_in
      /\ m.removes = l.removes
      /\ m.maybe_active = l.maybe_active
  BY <1>0 DEF StoreRawMsg, LogFrame, LogField
<1>2. /\ m.revack_pending \in [Owner -> BOOLEAN]
      /\ m.maybe_active \in [Owner -> SUBSET Nat]
      /\ \A o \in Owner : l.revack_pending[o] => m.revack_pending[o]
  BY <1>0, <1>1 DEF CounterTypes
<1>3. StoredLogInv(m)
  BY <1>0, <1>1, <1>2, SameUpdatesInv
<1> QED
  BY <1>0, <1>1, <1>3 DEF LogInv, CacheIsSound

-----------------------------------------------------------------------------
(* send_settle, recv_settle, send_fail, recv_fail *)
LEMMA RemoveHtlcInv ==
    ASSUME NEW l, LogInv(l), NEW kind \in RemovalKind, NEW p \in Owner,
           NEW id \in DOMAIN l.locked_in[p], CanRemoveHtlc(l, p, id),
           NEW m, m = RemoveHtlc(l, kind, p, id)
    PROVE  LogInv(m)
<1> DEFINE c == EntersFirst(p, CtnNext(l, p))
<1>0. /\ LogFrame(l) /\ CounterTypes(l) /\ UpdateTypes(l)
      /\ UpdatesInOrder(l) /\ IdsAreFresh(l)
      /\ RemovedAfterAdded(l) /\ RemovedOneWay(l) /\ CacheIsSound(l)
  BY LogInvParts
<1>1. /\ m = [f \in LogField |-> m[f]]
      /\ m.ctn = l.ctn
      /\ m.revack_pending = l.revack_pending
      /\ m.next_htlc_id = l.next_htlc_id
      /\ m.adds = l.adds
      /\ m.locked_in = l.locked_in
      /\ m.maybe_active = l.maybe_active
      /\ m.removes = [l.removes EXCEPT ![kind][p] = With(@, id, c)]
  BY <1>0 DEF RemoveHtlc, LogFrame, LogField
<1>2. /\ c \in Ctns
      /\ c[p] = CtnNext(l, p)
      /\ c[Other(p)] = None
      /\ CtnNext(l, p) \in Nat /\ CtnNext(l, p) > 0
  BY <1>0, CtnType, EntersFirstType
<1> HIDE DEF c
<1>3. m.removes[kind][p] = With(l.removes[kind][p], id, c)
  BY <1>0, <1>1 DEF LogFrame
<1>4. /\ DOMAIN m.removes[kind][p] = DOMAIN l.removes[kind][p] \cup {id}
      /\ m.removes[kind][p][id] = c
      /\ \A i \in DOMAIN l.removes[kind][p] :
            i # id => m.removes[kind][p][i] = l.removes[kind][p][i]
  BY <1>3 DEF With
<1>5. m.removes[kind][p] \in [DOMAIN m.removes[kind][p] -> Ctns]
  BY <1>0, <1>2, <1>3 DEF With, UpdateTypes
<1>6. \A k \in RemovalKind, q \in Owner :
         k # kind \/ q # p => m.removes[k][q] = l.removes[k][q]
  <2>1. /\ DOMAIN l.removes = RemovalKind
        /\ \A k \in RemovalKind : DOMAIN l.removes[k] = Owner
    BY <1>0 DEF LogFrame
  <2>2. \A k \in RemovalKind : k # kind => m.removes[k] = l.removes[k]
    BY <1>1, <2>1
  <2>3. m.removes[kind] = [l.removes[kind] EXCEPT ![p] = With(@, id, c)]
    BY <1>1, <2>1
  <2> QED
    BY <2>1, <2>2, <2>3
(* The HTLC is active in the next ctx of its proposer: not removed before. *)
<1>7. \A k \in RemovalKind : id \notin DOMAIN l.removes[k][p]
  <2>1. ASSUME NEW k \in RemovalKind, id \in DOMAIN l.removes[k][p]
        PROVE  FALSE
    <3>1. Reached(l.removes[k][p][id][p], CtnNext(l, p))
      BY <1>0, <2>1 DEF UpdatesInOrder, InOrder
    <3> QED
      BY <2>1, <3>1 DEF CanRemoveHtlc, IsActiveAt
  <2> QED
    BY <2>1
<1>8. Reached(l.locked_in[p][id][p], CtnNext(l, p))
  BY DEF CanRemoveHtlc, IsActiveAt
<1>9. \A k \in RemovalKind, q \in Owner : \A i \in DOMAIN l.removes[k][q] :
         i \in DOMAIN m.removes[k][q] /\ m.removes[k][q][i] = l.removes[k][q][i]
  BY <1>4, <1>6, <1>7
<1>10. \A k \in RemovalKind, q \in Owner : \A i \in DOMAIN m.removes[k][q] :
         \/ i \in DOMAIN l.removes[k][q]
         \/ k = kind /\ q = p /\ i = id
  BY <1>4, <1>6
<1>11. \A o \in Owner : CtnNext(m, o) = CtnNext(l, o)
  BY <1>1 DEF CtnNext, CtnLatest
<1>12. LogFrame(m)
  <2>1. m.removes = [k \in RemovalKind |-> [q \in Owner |-> m.removes[k][q]]]
    <3>1. l.removes = [k \in RemovalKind |-> [q \in Owner |-> l.removes[k][q]]]
      BY <1>0 DEF LogFrame
    <3>2. m.removes = [k \in RemovalKind |-> m.removes[k]]
      BY <1>1, <3>1
    <3>3. \A k \in RemovalKind : l.removes[k] = [q \in Owner |-> l.removes[k][q]]
      BY <3>1
    <3>4. \A k \in RemovalKind : k # kind => m.removes[k] = l.removes[k]
      BY <1>1, <3>1
    <3>5. m.removes[kind] = [l.removes[kind] EXCEPT ![p] = With(@, id, c)]
      BY <1>1, <3>1
    <3>6. \A k \in RemovalKind : m.removes[k] = [q \in Owner |-> m.removes[k][q]]
      BY <3>3, <3>4, <3>5
    <3> QED
      BY <3>2, <3>6
  <2> QED
    BY <1>0, <1>1, <2>1 DEF LogFrame
<1>13. CounterTypes(m)
  BY <1>0, <1>1 DEF CounterTypes
<1>14. UpdateTypes(m)
  <2>1. ASSUME NEW q \in Owner, NEW k \in RemovalKind
        PROVE  /\ m.removes[k][q] \in [DOMAIN m.removes[k][q] -> Ctns]
               /\ DOMAIN m.removes[k][q] \subseteq DOMAIN l.locked_in[q]
    <3>1. /\ l.removes[k][q] \in [DOMAIN l.removes[k][q] -> Ctns]
          /\ DOMAIN l.removes[k][q] \subseteq DOMAIN l.locked_in[q]
      BY <1>0 DEF UpdateTypes
    <3>2. CASE k = kind /\ q = p
      BY <3>1, <3>2, <1>4, <1>5
    <3>3. CASE k # kind \/ q # p
      BY <3>1, <3>3, <1>6
    <3> QED
      BY <3>2, <3>3
  <2> QED
    BY <1>0, <1>1, <2>1 DEF UpdateTypes
<1>15. UpdatesInOrder(m)
  <2>1. InOrder(m, c, p)
    BY <1>2, <1>11, OtherOwner, NoneAssumption DEF InOrder, Reached
  <2>2. ASSUME NEW q \in Owner, NEW k \in RemovalKind, NEW i \in DOMAIN m.removes[k][q]
        PROVE  InOrder(m, m.removes[k][q][i], q)
    <3>1. CASE i \in DOMAIN l.removes[k][q]
      <4>1. InOrder(l, l.removes[k][q][i], q)
        BY <1>0, <3>1 DEF UpdatesInOrder
      <4>2. InOrder(m, l.removes[k][q][i], q)
        BY <4>1, <1>1, <1>11 DEF InOrder
      <4> QED
        BY <3>1, <4>2, <1>9
    <3>2. CASE k = kind /\ q = p /\ i = id
      BY <3>2, <2>1, <1>4
    <3> QED
      BY <3>1, <3>2, <1>10
  <2>3. ASSUME NEW q \in Owner, NEW i \in DOMAIN m.locked_in[q]
        PROVE  InOrder(m, m.locked_in[q][i], Other(q))
    BY <1>0, <1>1, <1>11, OtherOwner DEF UpdatesInOrder, InOrder
  <2> QED
    BY <2>2, <2>3 DEF UpdatesInOrder
<1>16. IdsAreFresh(m)
  BY <1>0, <1>1 DEF IdsAreFresh
<1>17. RemovedAfterAdded(m)
  <2>1. ASSUME NEW q \in Owner, NEW o \in Owner, NEW k \in RemovalKind,
               NEW i \in DOMAIN m.removes[k][q], m.removes[k][q][i][o] # None
        PROVE  Reached(l.locked_in[q][i][o], m.removes[k][q][i][o])
    <3>1. CASE i \in DOMAIN l.removes[k][q]
      BY <1>0, <1>9, <2>1, <3>1 DEF RemovedAfterAdded
    <3>2. CASE k = kind /\ q = p /\ i = id
      BY <3>2, <2>1, <1>2, <1>4, <1>8, OtherOwner
    <3> QED
      BY <3>1, <3>2, <1>10
  <2> QED
    BY <1>1, <2>1 DEF RemovedAfterAdded
<1>18. RemovedOneWay(m)
  BY <1>0, <1>7, <1>10, KindOfRemoval DEF RemovedOneWay
<1>19. CacheIsSound(m)
  <2>1. ASSUME NEW q \in Owner, NEW i \in DOMAIN l.locked_in[q] \ l.maybe_active[q]
        PROVE  \E k \in RemovalKind :
                  /\ i \in DOMAIN m.removes[k][q]
                  /\ \A o \in Owner : Reached(m.removes[k][q][i][o],
                                              l.ctn[o] - SanityMargin)
    <3>1. PICK k \in RemovalKind :
             /\ i \in DOMAIN l.removes[k][q]
             /\ \A o \in Owner : Reached(l.removes[k][q][i][o],
                                         l.ctn[o] - SanityMargin)
      BY <1>0 DEF CacheIsSound
    <3> QED
      BY <1>9, <3>1
  <2> QED
    BY <1>0, <1>1, <2>1 DEF CacheIsSound
<1> QED
  BY <1>12, <1>13, <1>14, <1>15, <1>16, <1>17, <1>18, <1>19
     DEF LogInv, StoredLogInv, LogShape

-----------------------------------------------------------------------------
(* _update_maybe_active_htlc_ids: what is forgotten is removed for both. *)
LEMMA UpdateMaybeActiveInv ==
    ASSUME NEW l, LogInv(l), NEW me \in Owner,
           NEW m, m = UpdateMaybeActive(l, me)
    PROVE  LogInv(m)
<1> DEFINE Kept(p) == l.maybe_active[p] \ UNION {Forgettable(l, k, p) : k \in RemovalKind}
<1>0. LogFrame(l) /\ CounterTypes(l) /\ StoredLogInv(l) /\ CacheIsSound(l)
  BY LogInvParts
<1>1. /\ m = [f \in LogField |-> m[f]]
      /\ m.ctn = l.ctn
      /\ m.revack_pending = l.revack_pending
      /\ m.next_htlc_id = l.next_htlc_id
      /\ m.adds = l.adds
      /\ m.locked_in = l.locked_in
      /\ m.removes = l.removes
      /\ m.maybe_active = [p \in Owner |-> Kept(p)]
  BY <1>0 DEF UpdateMaybeActive, LogFrame, LogField
<1>2. \A p \in Owner : Kept(p) \subseteq l.maybe_active[p] /\ Kept(p) \in SUBSET Nat
  BY <1>0 DEF CounterTypes
<1>3. \A p \in Owner : \A id \in l.maybe_active[p] \ Kept(p) :
         \E k \in RemovalKind : id \in Forgettable(l, k, p)
  OBVIOUS
<1> HIDE DEF Kept
<1>4. StoredLogInv(m)
  <2>1. /\ m.maybe_active \in [Owner -> SUBSET Nat]
        /\ m.revack_pending \in [Owner -> BOOLEAN]
    BY <1>0, <1>1, <1>2 DEF CounterTypes
  <2> QED
    BY <1>0, <1>1, <2>1, SameUpdatesInv
<1>5. CacheIsSound(m)
  <2>1. ASSUME NEW p \in Owner, NEW id \in DOMAIN l.locked_in[p] \ Kept(p)
        PROVE  \E k \in RemovalKind :
                  /\ id \in DOMAIN l.removes[k][p]
                  /\ \A o \in Owner : Reached(l.removes[k][p][id][o],
                                              l.ctn[o] - SanityMargin)
    <3>1. CASE id \in l.maybe_active[p]
      BY <1>3, <3>1 DEF Forgettable
    <3>2. CASE id \notin l.maybe_active[p]
      BY <1>0, <3>2 DEF CacheIsSound
    <3> QED
      BY <3>1, <3>2
  <2>2. \A p \in Owner : m.maybe_active[p] \subseteq DOMAIN l.locked_in[p]
    BY <1>0, <1>1, <1>2 DEF CacheIsSound
  <2> QED
    BY <1>1, <2>1, <2>2 DEF CacheIsSound
<1> QED
  BY <1>4, <1>5 DEF LogInv

(* What is written to the wallet file, ... *)
LEMMA StoredInv ==
    ASSUME NEW l, LogInv(l), NEW m, m = Stored(l)
    PROVE  StoredLogInv(m)
<1>0. LogFrame(l) /\ CounterTypes(l) /\ StoredLogInv(l)
  BY LogInvParts
<1>1. /\ m = [f \in LogField |-> m[f]]
      /\ m.ctn = l.ctn
      /\ m.revack_pending = l.revack_pending
      /\ m.next_htlc_id = l.next_htlc_id
      /\ m.adds = l.adds
      /\ m.locked_in = l.locked_in
      /\ m.removes = l.removes
      /\ m.maybe_active = [o \in Owner |-> {}]
  BY <1>0 DEF Stored, LogFrame, LogField
<1>2. /\ m.maybe_active \in [Owner -> SUBSET Nat]
      /\ m.revack_pending \in [Owner -> BOOLEAN]
  BY <1>0, <1>1 DEF CounterTypes
<1> QED
  BY <1>0, <1>1, <1>2, SameUpdatesInv

(* ... and _init_maybe_active_htlc_ids, when it is read back. *)
LEMMA LoadInv ==
    ASSUME NEW l, StoredLogInv(l), NEW me \in Owner, NEW m, m = Load(l, me)
    PROVE  LogInv(m)
<1> DEFINE all == [l EXCEPT !.maybe_active  = [o \in Owner |-> DOMAIN l.adds[o]],
                            !.balance_delta = 0]
<1>0. LogFrame(l) /\ CounterTypes(l) /\ UpdateTypes(l)
  BY DEF StoredLogInv, LogShape
<1>1. /\ all = [f \in LogField |-> all[f]]
      /\ all.ctn = l.ctn
      /\ all.revack_pending = l.revack_pending
      /\ all.next_htlc_id = l.next_htlc_id
      /\ all.adds = l.adds
      /\ all.locked_in = l.locked_in
      /\ all.removes = l.removes
      /\ all.maybe_active = [o \in Owner |-> DOMAIN l.adds[o]]
  BY <1>0 DEF LogFrame, LogField
<1>2. m = UpdateMaybeActive(all, me)
  BY DEF Load
<1> HIDE DEF all
<1>3. \A o \in Owner : DOMAIN l.adds[o] = DOMAIN l.locked_in[o] /\ DOMAIN l.adds[o] \subseteq Nat
  BY <1>0 DEF UpdateTypes
<1>4. StoredLogInv(all)
  <2>1. /\ all.maybe_active \in [Owner -> SUBSET Nat]
        /\ all.revack_pending \in [Owner -> BOOLEAN]
    BY <1>0, <1>1, <1>3 DEF CounterTypes
  <2> QED
    BY <1>1, <2>1, SameUpdatesInv
<1>5. CacheIsSound(all)
  BY <1>1, <1>3 DEF CacheIsSound
<1> QED
  BY <1>2, <1>4, <1>5, UpdateMaybeActiveInv DEF LogInv

-----------------------------------------------------------------------------
LEMMA AcknowledgeEffect ==
    ASSUME NEW c \in Ctns, NEW r \in Owner, NEW n \in Nat, NEW next \in Nat,
           NEW d, d = Acknowledge(c, r, n, next)
    PROVE  /\ d \in Ctns
           /\ d[r] = c[r]
           /\ \A o \in Owner : c[o] # None => d[o] = c[o]
           /\ d[Other(r)] = c[Other(r)] \/ (d[Other(r)] = next /\ Reached(c[r], n))
  BY OtherOwner DEF Acknowledge, Ctns

(* What send_rev and recv_rev share.  The updates of the revoked side go into *)
(* the next ctx of the other; nothing that has a ctn gets a new one.          *)
LEMMA RevokeInv ==
    ASSUME NEW l, LogInv(l), NEW r \in Owner, NEW m, m = Revoke(l, r)
    PROVE  LogInv(m)
<1> DEFINE other == Other(r)
           n     == l.ctn[r] + 1
           next  == CtnNext(l, other)
           Ack(f, ids) == [id \in DOMAIN f |->
                             IF id \in ids THEN Acknowledge(f[id], r, n, next) ELSE f[id]]
<1>0. /\ LogFrame(l) /\ CounterTypes(l) /\ UpdateTypes(l)
      /\ UpdatesInOrder(l) /\ IdsAreFresh(l)
      /\ RemovedAfterAdded(l) /\ RemovedOneWay(l) /\ CacheIsSound(l)
  BY LogInvParts
<1>1. /\ other \in Owner /\ other # r /\ Other(other) = r
      /\ \A o \in Owner : o = r \/ o = other
  BY OtherOwner
<1>2. n \in Nat /\ l.ctn[r] \in Nat /\ next \in Nat
      /\ l.ctn[other] \in Nat /\ l.ctn[other] < next
  BY <1>0, <1>1, CtnType
<1>3. /\ m = [f \in LogField |-> m[f]]
      /\ m.ctn = [l.ctn EXCEPT ![r] = n]
      /\ m.revack_pending = [l.revack_pending EXCEPT ![r] = FALSE]
      /\ m.next_htlc_id = l.next_htlc_id
      /\ m.adds = l.adds
      /\ m.maybe_active = l.maybe_active
      /\ m.locked_in = [l.locked_in EXCEPT ![other] = Ack(@, l.maybe_active[other])]
      /\ m.removes = [k \in RemovalKind |->
                        [l.removes[k] EXCEPT ![r] = Ack(@, l.maybe_active[r])]]
  <2>1. l = [f \in LogField |-> l[f]]
    BY <1>0 DEF LogFrame
  <2>2. PICK fees : m = [l EXCEPT
           !.ctn[r]            = n,
           !.revack_pending[r] = FALSE,
           !.locked_in[other]  = Ack(@, l.maybe_active[other]),
           !.removes = [k \in RemovalKind |->
                          [l.removes[k] EXCEPT ![r] = Ack(@, l.maybe_active[r])]],
           !.fee_updates[other] = fees]
    BY DEF Revoke
  <2> HIDE DEF Ack, n, other
  <2>3. m = [f \in LogField |-> m[f]]
    BY <2>1, <2>2 DEF LogField
  <2>4. /\ m.ctn = [l.ctn EXCEPT ![r] = n]
        /\ m.revack_pending = [l.revack_pending EXCEPT ![r] = FALSE]
    BY <2>1, <2>2 DEF LogField
  <2>5. /\ m.next_htlc_id = l.next_htlc_id
        /\ m.adds = l.adds
        /\ m.maybe_active = l.maybe_active
    BY <2>1, <2>2 DEF LogField
  <2>6. m.locked_in = [l.locked_in EXCEPT ![other] = Ack(@, l.maybe_active[other])]
    BY <2>1, <2>2 DEF LogField
  <2>7. m.removes = [k \in RemovalKind |->
                       [l.removes[k] EXCEPT ![r] = Ack(@, l.maybe_active[r])]]
    BY <2>1, <2>2 DEF LogField
  <2> QED
    BY <2>3, <2>4, <2>5, <2>6, <2>7
<1>4. /\ m.locked_in[other] = Ack(l.locked_in[other], l.maybe_active[other])
      /\ \A q \in Owner : q # other => m.locked_in[q] = l.locked_in[q]
  BY <1>0, <1>1, <1>3 DEF LogFrame
<1>5. /\ \A k \in RemovalKind : m.removes[k][r] = Ack(l.removes[k][r], l.maybe_active[r])
      /\ \A k \in RemovalKind, q \in Owner : q # r => m.removes[k][q] = l.removes[k][q]
  <2>1. \A k \in RemovalKind : DOMAIN l.removes[k] = Owner
    BY <1>0 DEF LogFrame
  <2> QED
    BY <1>3, <2>1
<1> HIDE DEF n, next, other
(* Grows(c, d): d is c, or c with the ctn that it lacked. *)
<1> DEFINE Grows(c, d) ==
             /\ d \in Ctns
             /\ \A o \in Owner : c[o] # None => d[o] = c[o]
             /\ d[r] = c[r]
             /\ d[other] = c[other] \/ (d[other] = next /\ Reached(c[r], n))
<1>6. ASSUME NEW c \in Ctns
      PROVE  Grows(c, c) /\ Grows(c, Acknowledge(c, r, n, next))
  <2>1. n \in Nat /\ next \in Nat /\ other = Other(r)
    BY <1>2 DEF other
  <2>2. Grows(c, c)
    OBVIOUS
  <2> DEFINE d == Acknowledge(c, r, n, next)
  <2>3. /\ d \in Ctns
        /\ d[r] = c[r]
        /\ \A o \in Owner : c[o] # None => d[o] = c[o]
        /\ d[Other(r)] = c[Other(r)] \/ (d[Other(r)] = next /\ Reached(c[r], n))
    BY <2>1, AcknowledgeEffect
  <2> HIDE DEF d
  <2>4. Grows(c, d)
    BY <2>1, <2>3
  <2> QED
    BY <2>2, <2>4 DEF d
<1>7. ASSUME NEW q \in Owner
      PROVE  /\ DOMAIN m.locked_in[q] = DOMAIN l.locked_in[q]
             /\ \A id \in DOMAIN l.locked_in[q] :
                   /\ m.locked_in[q][id] \in Ctns
                   /\ q # other => m.locked_in[q][id] = l.locked_in[q][id]
                   /\ Grows(l.locked_in[q][id], m.locked_in[q][id])
             /\ m.locked_in[q] \in [DOMAIN m.locked_in[q] -> Ctns]
  <2>1. l.locked_in[q] \in [DOMAIN l.locked_in[q] -> Ctns]
    BY <1>0 DEF UpdateTypes
  <2> HIDE DEF Grows
  <2>2. CASE q = other
    <3>1. /\ DOMAIN m.locked_in[q] = DOMAIN l.locked_in[q]
          /\ \A id \in DOMAIN l.locked_in[q] :
               \/ m.locked_in[q][id] = Acknowledge(l.locked_in[q][id], r, n, next)
               \/ m.locked_in[q][id] = l.locked_in[q][id]
          /\ m.locked_in[q] = [id \in DOMAIN m.locked_in[q] |-> m.locked_in[q][id]]
      BY <1>4, <2>2
    <3>2. \A id \in DOMAIN l.locked_in[q] : Grows(l.locked_in[q][id], m.locked_in[q][id])
      BY <1>6, <2>1, <3>1
    <3>3. \A id \in DOMAIN l.locked_in[q] : m.locked_in[q][id] \in Ctns
      BY <3>2 DEF Grows
    <3> QED
      BY <2>2, <3>1, <3>2, <3>3
  <2>3. CASE q # other
    BY <1>4, <1>6, <2>1, <2>3
  <2> QED
    BY <2>2, <2>3
<1>8. ASSUME NEW q \in Owner, NEW k \in RemovalKind
      PROVE  /\ DOMAIN m.removes[k][q] = DOMAIN l.removes[k][q]
             /\ \A id \in DOMAIN l.removes[k][q] :
                   /\ m.removes[k][q][id] \in Ctns
                   /\ q # r => m.removes[k][q][id] = l.removes[k][q][id]
                   /\ Grows(l.removes[k][q][id], m.removes[k][q][id])
             /\ m.removes[k][q] \in [DOMAIN m.removes[k][q] -> Ctns]
  <2>1. l.removes[k][q] \in [DOMAIN l.removes[k][q] -> Ctns]
    BY <1>0 DEF UpdateTypes
  <2> HIDE DEF Grows
  <2>2. CASE q = r
    <3>1. /\ DOMAIN m.removes[k][q] = DOMAIN l.removes[k][q]
          /\ \A id \in DOMAIN l.removes[k][q] :
               \/ m.removes[k][q][id] = Acknowledge(l.removes[k][q][id], r, n, next)
               \/ m.removes[k][q][id] = l.removes[k][q][id]
          /\ m.removes[k][q] = [id \in DOMAIN m.removes[k][q] |-> m.removes[k][q][id]]
      BY <1>5, <2>2
    <3>2. \A id \in DOMAIN l.removes[k][q] : Grows(l.removes[k][q][id], m.removes[k][q][id])
      BY <1>6, <2>1, <3>1
    <3>3. \A id \in DOMAIN l.removes[k][q] : m.removes[k][q][id] \in Ctns
      BY <3>2 DEF Grows
    <3> QED
      BY <2>2, <3>1, <3>2, <3>3
  <2>3. CASE q # r
    BY <1>5, <1>6, <2>1, <2>3
  <2> QED
    BY <2>2, <2>3
<1>9. LogFrame(m)
  <2>1. /\ l.adds = [q \in Owner |-> l.adds[q]]
        /\ l.locked_in = [q \in Owner |-> l.locked_in[q]]
        /\ \A k \in RemovalKind : l.removes[k] = [q \in Owner |-> l.removes[k][q]]
    BY <1>0 DEF LogFrame
  <2>2. m.adds = [q \in Owner |-> m.adds[q]] /\ m.locked_in = [q \in Owner |-> m.locked_in[q]]
    BY <1>3, <2>1
  <2>3. ASSUME NEW k \in RemovalKind
        PROVE  m.removes[k] = [q \in Owner |-> m.removes[k][q]]
    <3>1. m.removes[k] = [l.removes[k] EXCEPT ![r] = Ack(@, l.maybe_active[r])]
      BY <1>3
    <3> HIDE DEF Ack
    <3> QED
      BY <2>1, <3>1
  <2>4. m.removes = [k \in RemovalKind |-> m.removes[k]]
    BY <1>3
  <2>5. m.removes = [k \in RemovalKind |-> [q \in Owner |-> m.removes[k][q]]]
    BY <2>3, <2>4
  <2> QED
    BY <1>3, <2>2, <2>5 DEF LogFrame
<1> HIDE DEF Ack
<1>10. CounterTypes(m)
  <2>1. /\ l.ctn \in [Owner -> Nat]
        /\ l.revack_pending \in [Owner -> BOOLEAN]
        /\ l.next_htlc_id \in [Owner -> Nat]
        /\ l.maybe_active \in [Owner -> SUBSET Nat]
    BY <1>0 DEF CounterTypes
  <2>2. m.ctn \in [Owner -> Nat]
    BY <1>2, <1>3, <2>1
  <2>3. m.revack_pending \in [Owner -> BOOLEAN]
    <3>1. m.revack_pending = [l.revack_pending EXCEPT ![r] = FALSE]
      BY <1>3
    <3> QED
      BY <2>1, <3>1
  <2> QED
    BY <1>3, <2>1, <2>2, <2>3 DEF CounterTypes
<1>11. UpdateTypes(m)
  <2>1. ASSUME NEW q \in Owner
        PROVE  /\ DOMAIN m.adds[q] = DOMAIN m.locked_in[q]
               /\ DOMAIN m.locked_in[q] \subseteq Nat
    <3>1. /\ DOMAIN l.adds[q] = DOMAIN l.locked_in[q]
          /\ DOMAIN l.locked_in[q] \subseteq Nat
      BY <1>0 DEF UpdateTypes
    <3>2. DOMAIN m.locked_in[q] = DOMAIN l.locked_in[q]
      BY <1>7
    <3> QED
      BY <1>3, <3>1, <3>2
  <2>2. \A q \in Owner, k \in RemovalKind :
           DOMAIN m.removes[k][q] \subseteq DOMAIN m.locked_in[q]
    BY <1>0, <1>7, <1>8 DEF UpdateTypes
  <2> HIDE DEF Grows
  <2> QED
    BY <1>7, <1>8, <2>1, <2>2 DEF UpdateTypes
<1>12. /\ \A o \in Owner : l.ctn[o] <= m.ctn[o] /\ CtnNext(l, o) <= CtnNext(m, o)
       /\ m.ctn[r] = n /\ CtnNext(m, other) = next
  <2>1. l.ctn \in [Owner -> Nat] /\ l.revack_pending \in [Owner -> BOOLEAN]
    BY <1>0 DEF CounterTypes
  <2>2. /\ m.ctn[r] = n /\ ~ m.revack_pending[r]
        /\ m.ctn[other] = l.ctn[other]
        /\ m.revack_pending[other] = l.revack_pending[other]
    BY <1>1, <1>3, <2>1
  <2>3. CtnNext(m, other) = next
    BY <2>2 DEF CtnNext, CtnLatest, next
  <2>4. CtnNext(m, r) = n + 1 /\ CtnNext(l, r) \in {n, n + 1} /\ n = l.ctn[r] + 1
    BY <1>2, <2>2 DEF CtnNext, CtnLatest, n
  <2> QED
    BY <1>1, <1>2, <2>2, <2>3, <2>4 DEF next
<1>13. UpdatesInOrder(m)
  (* Grows(c, d) leaves no ctn 0 in d if there is none in c. *)
  <2>1. ASSUME NEW c \in Ctns, NEW d \in Ctns, Grows(c, d), \A o \in Owner : c[o] # 0
        PROVE  \A o \in Owner : d[o] # 0
    <3>1. \A o \in Owner : d[o] \in {c[o], next}
      BY <2>1, <1>1, OtherOwner DEF other
    <3> QED
      BY <2>1, <3>1, <1>2
  <2>2. ASSUME NEW q \in Owner, NEW id \in DOMAIN l.locked_in[q]
        PROVE  InOrder(m, m.locked_in[q][id], Other(q))
    <3> DEFINE c == l.locked_in[q][id]
               d == m.locked_in[q][id]
    <3>1. c \in Ctns /\ d \in Ctns /\ Grows(c, d) /\ (q # other => d = c)
      BY <1>0, <1>7 DEF UpdateTypes
    <3>2. InOrder(m, c, Other(q)) /\ c[Other(q)] # None
      <4>1. InOrder(l, c, Other(q))
        BY <1>0 DEF UpdatesInOrder
      <4> QED
        BY <4>1, <3>1, <1>0, <1>10, <1>12, OtherOwner, InOrderLater DEF InOrder, Reached
    <3>4. \A o \in Owner : d[o] # 0
      BY <3>1, <3>2, <2>1 DEF InOrder
    <3> HIDE DEF c, d
    <3>3. InOrder(m, d, Other(q))
      <4>1. CASE q = other
        <5>1. /\ d[r] = c[r]
              /\ d[other] = c[other] \/ Reached(c[r], n)
          BY <3>1
        <5>2. Other(q) = r /\ Other(r) = other /\ m.ctn[r] = n
          BY <4>1, <1>1, <1>12 DEF other
        <5> QED
          BY <3>2, <3>4, <5>1, <5>2 DEF InOrder, Reached
      <4>2. CASE q # other
        BY <3>1, <3>2, <4>2
      <4> QED
        BY <4>1, <4>2
    <3> QED
      BY <3>3 DEF d
  <2>3. ASSUME NEW q \in Owner, NEW k \in RemovalKind, NEW id \in DOMAIN l.removes[k][q]
        PROVE  InOrder(m, m.removes[k][q][id], q)
    <3> DEFINE c == l.removes[k][q][id]
               d == m.removes[k][q][id]
    <3>1. c \in Ctns /\ d \in Ctns /\ Grows(c, d) /\ (q # r => d = c)
      BY <1>0, <1>8 DEF UpdateTypes
    <3>2. InOrder(m, c, q)
      <4>1. InOrder(l, c, q)
        BY <1>0 DEF UpdatesInOrder
      <4> QED
        BY <4>1, <3>1, <1>0, <1>10, <1>12, InOrderLater
    <3>4. \A o \in Owner : d[o] # 0
      BY <3>1, <3>2, <2>1 DEF InOrder
    <3> HIDE DEF c, d
    <3>3. InOrder(m, d, q)
      <4>1. CASE q = r
        BY <3>1, <3>2, <3>4, <4>1, <1>1, <1>12 DEF InOrder, Reached, other
      <4>2. CASE q # r
        BY <3>1, <3>2, <4>2
      <4> QED
        BY <4>1, <4>2
    <3> QED
      BY <3>3 DEF d
  <2> QED
    BY <1>7, <1>8, <2>2, <2>3 DEF UpdatesInOrder
<1>14. IdsAreFresh(m)
  BY <1>0, <1>3, <1>7 DEF IdsAreFresh
(* A removal enters the ctx of `other' after the HTLC did. *)
<1>15. RemovedAfterAdded(m)
  <2>1. ASSUME NEW q \in Owner, NEW o \in Owner, NEW k \in RemovalKind,
               NEW id \in DOMAIN l.removes[k][q], m.removes[k][q][id][o] # None
        PROVE  Reached(m.locked_in[q][id][o], m.removes[k][q][id][o])
    <3> DEFINE rem == l.removes[k][q][id]
               add == l.locked_in[q][id]
    <3>1. /\ id \in DOMAIN l.locked_in[q]
          /\ rem \in Ctns /\ add \in Ctns
      BY <1>0 DEF UpdateTypes
    <3>2. /\ Grows(rem, m.removes[k][q][id]) /\ (q # r => m.removes[k][q][id] = rem)
          /\ Grows(add, m.locked_in[q][id]) /\ (q # other => m.locked_in[q][id] = add)
      BY <1>7, <1>8, <3>1
    <3>3. \A x \in Owner : rem[x] # None => Reached(add[x], rem[x])
      BY <1>0 DEF RemovedAfterAdded
    <3>4. InOrder(l, add, Other(q))
      BY <1>0, <3>1 DEF UpdatesInOrder
    <3> HIDE DEF rem, add
    <3>5. CASE m.removes[k][q][id][o] = rem[o]
      BY <2>1, <3>2, <3>3, <3>5 DEF Reached
    <3>6. CASE m.removes[k][q][id][o] # rem[o]
      <4>1. /\ q = r /\ o = other
            /\ m.removes[k][q][id][o] = next
            /\ Reached(rem[r], n)
        BY <1>1, <3>2, <3>6
      <4>2. add[r] # None
        BY <3>3, <4>1 DEF Reached
      <4>3. add[other] # None /\ add[other] <= l.ctn[other]
        BY <1>1, <3>4, <4>1, <4>2 DEF InOrder, Reached, other
      <4>4. Reached(add[other], next)
        BY <1>1, <1>2, <3>1, <4>3 DEF Reached, Ctns
      <4> QED
        BY <1>1, <3>2, <4>1, <4>4
    <3> QED
      BY <3>5, <3>6
  <2> QED
    BY <1>8, <2>1 DEF RemovedAfterAdded
<1>16. RemovedOneWay(m)
  BY <1>0, <1>8, KindOfRemoval DEF RemovedOneWay
<1>17. CacheIsSound(m)
  <2>1. ASSUME NEW q \in Owner, NEW id \in DOMAIN l.locked_in[q] \ l.maybe_active[q]
        PROVE  \E k \in RemovalKind :
                  /\ id \in DOMAIN m.removes[k][q]
                  /\ \A o \in Owner : Reached(m.removes[k][q][id][o],
                                              m.ctn[o] - SanityMargin)
    <3>1. PICK k \in RemovalKind :
             /\ id \in DOMAIN l.removes[k][q]
             /\ \A o \in Owner : Reached(l.removes[k][q][id][o],
                                         l.ctn[o] - SanityMargin)
      BY <1>0 DEF CacheIsSound
    <3>2. /\ id \in DOMAIN m.removes[k][q]
          /\ \A o \in Owner : m.removes[k][q][id][o] = l.removes[k][q][id][o]
      BY <1>8, <3>1 DEF Reached
    <3>3. \A o \in Owner : /\ l.removes[k][q][id][o] \in Nat \cup {None}
                           /\ l.ctn[o] \in Nat /\ m.ctn[o] \in Nat
      BY <1>0, <1>10, <3>1 DEF UpdateTypes, CounterTypes, Ctns
    <3>4. \A o \in Owner : Reached(l.removes[k][q][id][o], m.ctn[o] - SanityMargin)
      BY <1>12, <3>1, <3>3 DEF Reached, SanityMargin
    <3> QED
      BY <3>2, <3>4
  <2> QED
    BY <1>0, <1>3, <1>7, <2>1 DEF CacheIsSound
<1> QED
  BY <1>9, <1>10, <1>11, <1>13, <1>14, <1>15, <1>16, <1>17
     DEF LogInv, StoredLogInv, LogShape

LEMMA SendRevInv ==
    ASSUME NEW l, LogInv(l), NEW me \in Owner, NEW m, m = SendRev(l, me)
    PROVE  LogInv(m)
<1> DEFINE u == UpdateMaybeActive(Revoke(l, me), me)
<1>1. LogInv(u)
  BY RevokeInv, UpdateMaybeActiveInv
<1>2. m = [u EXCEPT !.was_revoke_last = TRUE]
  BY DEF SendRev
<1> HIDE DEF u
<1>3. /\ LogFrame(u) /\ CounterTypes(u) /\ StoredLogInv(u) /\ CacheIsSound(u)
  BY <1>1, LogInvParts
<1>4. /\ m = [f \in LogField |-> m[f]]
      /\ m.ctn = u.ctn
      /\ m.revack_pending = u.revack_pending
      /\ m.next_htlc_id = u.next_htlc_id
      /\ m.adds = u.adds
      /\ m.locked_in = u.locked_in
      /\ m.removes = u.removes
      /\ m.maybe_active = u.maybe_active
  BY <1>2, <1>3 DEF LogFrame, LogField
<1>5. StoredLogInv(m)
  BY <1>3, <1>4, SameUpdatesInv DEF CounterTypes
<1> QED
  BY <1>3, <1>4, <1>5 DEF LogInv, CacheIsSound

LEMMA RecvRevInv ==
    ASSUME NEW l, LogInv(l), NEW me \in Owner, NEW m, m = RecvRev(l, me)
    PROVE  LogInv(m)
<1> DEFINE u == UpdateMaybeActive(Revoke(l, Other(me)), me)
<1>1. LogInv(u)
  BY OtherOwner, RevokeInv, UpdateMaybeActiveInv
<1>2. PICK raw : m = [u EXCEPT !.unacked_updates = raw]
  BY DEF RecvRev
<1> HIDE DEF u
<1>3. /\ LogFrame(u) /\ CounterTypes(u) /\ StoredLogInv(u) /\ CacheIsSound(u)
  BY <1>1, LogInvParts
<1>4. /\ m = [f \in LogField |-> m[f]]
      /\ m.ctn = u.ctn
      /\ m.revack_pending = u.revack_pending
      /\ m.next_htlc_id = u.next_htlc_id
      /\ m.adds = u.adds
      /\ m.locked_in = u.locked_in
      /\ m.removes = u.removes
      /\ m.maybe_active = u.maybe_active
  BY <1>2, <1>3 DEF LogFrame, LogField
<1>5. StoredLogInv(m)
  BY <1>3, <1>4, SameUpdatesInv DEF CounterTypes
<1> QED
  BY <1>3, <1>4, <1>5 DEF LogInv, CacheIsSound

-----------------------------------------------------------------------------
(* A bounded, non-empty set of numbers has a maximum: its distances from the *)
(* bound have a minimum.                                                     *)
LEMMA MaxOfBounded ==
    ASSUME NEW b \in Nat, NEW S, S \subseteq Nat, S # {}, \A x \in S : x < b
    PROVE  Max(S) \in S /\ \A x \in S : x <= Max(S)
<1> DEFINE Less == {pair \in Nat \X Nat : pair[1] < pair[2]}
           Gaps == {b - x : x \in S}
<1>1. IsWellFoundedOn(Less, Nat)
  BY NatLessThanWellFounded DEF OpToRel
<1>2. Gaps \subseteq Nat /\ Gaps # {}
  <2>1. \A x \in S : b - x \in Nat
    OBVIOUS
  <2>2. \A g \in Gaps : g \in Nat
    BY <2>1
  <2>3. PICK x \in S : TRUE
    OBVIOUS
  <2>4. b - x \in Gaps
    OBVIOUS
  <2> QED
    BY <2>2, <2>4
<1>3. \A g, h \in Gaps : g < h => <<g, h>> \in Less
  BY <1>2
<1>4. \E g \in Gaps : \A h \in Gaps : ~ (<<h, g>> \in Less)
  <2> HIDE DEF Less, Gaps
  <2> QED
    BY <1>1, <1>2, WFMin
<1>5. PICK g \in Gaps : \A h \in Gaps : ~ (<<h, g>> \in Less)
  BY <1>4, Zenon
<1>6. \A h \in Gaps : ~ (h < g)
  BY <1>3, <1>5, Zenon
<1>7. PICK max \in S : g = b - max
  OBVIOUS
<1>8. \A x \in S : b - x \in Gaps
  OBVIOUS
<1> HIDE DEF Gaps, Less
<1>9. \A x \in S : max >= x
  BY <1>6, <1>7, <1>8
<1>10. Max(S) \in S /\ \A x \in S : Max(S) >= x
  BY <1>9 DEF Max
<1> QED
  BY <1>10

(* discard_unsigned_remote_updates: only updates that I am not bound to go. *)
LEMMA DiscardInv ==
    ASSUME NEW l, LogInv(l), NEW me \in Owner,
           NEW m, m = DiscardUnsignedRemoteUpdates(l, me)
    PROVE  LogInv(m)
<1> DEFINE remote    == Other(me)
           latest    == CtnLatest(l, me)
           kept      == {id \in DOMAIN l.locked_in[remote] :
                           l.locked_in[remote][id][me] <= latest}
           Signed(f) == Restrict(f, {id \in DOMAIN f : f[id][me] <= latest})
<1>0. /\ LogFrame(l) /\ CounterTypes(l) /\ UpdateTypes(l)
      /\ UpdatesInOrder(l) /\ IdsAreFresh(l)
      /\ RemovedAfterAdded(l) /\ RemovedOneWay(l) /\ CacheIsSound(l)
  BY LogInvParts
<1>1. /\ remote \in Owner /\ remote # me /\ Other(remote) = me
      /\ \A o \in Owner : o = me \/ o = remote
  BY OtherOwner
<1>2. latest \in Nat /\ l.ctn[me] \in Nat /\ l.ctn[me] <= latest
  BY <1>0, CtnType
<1>3. /\ m = [f \in LogField |-> m[f]]
      /\ m.ctn = l.ctn
      /\ m.revack_pending = l.revack_pending
      /\ m.next_htlc_id = [l.next_htlc_id EXCEPT ![remote] =
                             IF kept = {} THEN 0 ELSE Max(kept) + 1]
      /\ m.adds = [l.adds EXCEPT ![remote] = Restrict(@, kept)]
      /\ m.locked_in = [l.locked_in EXCEPT ![remote] = Restrict(@, kept)]
      /\ m.maybe_active = [l.maybe_active EXCEPT ![remote] = @ \cap kept]
      /\ m.removes = [k \in RemovalKind |-> [l.removes[k] EXCEPT ![me] = Signed(@)]]
  <2>1. l = [f \in LogField |-> l[f]]
    BY <1>0 DEF LogFrame
  <2>2. PICK fees : m = [l EXCEPT
           !.locked_in[remote]    = Restrict(@, kept),
           !.adds[remote]         = Restrict(@, kept),
           !.maybe_active[remote] = @ \cap kept,
           !.next_htlc_id[remote] = IF kept = {} THEN 0 ELSE Max(kept) + 1,
           !.removes = [k \in RemovalKind |-> [l.removes[k] EXCEPT ![me] = Signed(@)]],
           !.fee_updates[remote] = fees]
    BY DEF DiscardUnsignedRemoteUpdates
  <2> HIDE DEF kept, Signed, remote
  <2>3. m = [f \in LogField |-> m[f]]
    BY <2>1, <2>2 DEF LogField
  <2>4. /\ m.ctn = l.ctn
        /\ m.revack_pending = l.revack_pending
        /\ m.adds = [l.adds EXCEPT ![remote] = Restrict(@, kept)]
        /\ m.locked_in = [l.locked_in EXCEPT ![remote] = Restrict(@, kept)]
    BY <2>1, <2>2 DEF LogField
  <2>5. m.next_htlc_id = [l.next_htlc_id EXCEPT ![remote] =
                            IF kept = {} THEN 0 ELSE Max(kept) + 1]
    BY <2>1, <2>2 DEF LogField
  <2>6. m.maybe_active = [l.maybe_active EXCEPT ![remote] = @ \cap kept]
    BY <2>1, <2>2 DEF LogField
  <2>7. m.removes = [k \in RemovalKind |-> [l.removes[k] EXCEPT ![me] = Signed(@)]]
    BY <2>1, <2>2 DEF LogField
  <2> QED
    BY <2>3, <2>4, <2>5, <2>6, <2>7
<1>4. /\ m.locked_in[remote] = Restrict(l.locked_in[remote], kept)
      /\ m.adds[remote] = Restrict(l.adds[remote], kept)
      /\ \A q \in Owner : q # remote => /\ m.locked_in[q] = l.locked_in[q]
                                        /\ m.adds[q] = l.adds[q]
  BY <1>0, <1>1, <1>3 DEF LogFrame
<1>5. kept \subseteq DOMAIN l.locked_in[remote]
  OBVIOUS
<1>6. ASSUME NEW q \in Owner
      PROVE  /\ DOMAIN m.locked_in[q] =
                  IF q = remote THEN kept ELSE DOMAIN l.locked_in[q]
             /\ DOMAIN m.adds[q] = DOMAIN m.locked_in[q]
             /\ DOMAIN m.locked_in[q] \subseteq DOMAIN l.locked_in[q]
             /\ \A id \in DOMAIN m.locked_in[q] : m.locked_in[q][id] = l.locked_in[q][id]
             /\ m.locked_in[q] \in [DOMAIN m.locked_in[q] -> Ctns]
  <2>1. /\ l.locked_in[q] \in [DOMAIN l.locked_in[q] -> Ctns]
        /\ DOMAIN l.adds[q] = DOMAIN l.locked_in[q]
    BY <1>0 DEF UpdateTypes
  <2> HIDE DEF kept
  <2>2. CASE q = remote
    BY <1>4, <1>5, <2>1, <2>2 DEF Restrict
  <2>3. CASE q # remote
    BY <1>4, <2>1, <2>3
  <2> QED
    BY <2>2, <2>3
<1>7. ASSUME NEW q \in Owner, NEW k \in RemovalKind
      PROVE  /\ DOMAIN m.removes[k][q] \subseteq DOMAIN l.removes[k][q]
             /\ \A id \in DOMAIN m.removes[k][q] : m.removes[k][q][id] = l.removes[k][q][id]
             /\ \A id \in DOMAIN l.removes[k][q] :
                   Reached(l.removes[k][q][id][me], latest) => id \in DOMAIN m.removes[k][q]
             /\ q # me => m.removes[k][q] = l.removes[k][q]
             /\ m.removes[k][q] \in [DOMAIN m.removes[k][q] -> Ctns]
  <2>1. l.removes[k][q] \in [DOMAIN l.removes[k][q] -> Ctns]
    BY <1>0 DEF UpdateTypes
  <2>2. /\ m.removes[k][me] = Signed(l.removes[k][me])
        /\ q # me => m.removes[k][q] = l.removes[k][q]
    <3>1. DOMAIN l.removes[k] = Owner
      BY <1>0 DEF LogFrame
    <3>2. m.removes[k] = [l.removes[k] EXCEPT ![me] = Signed(@)]
      BY <1>3
    <3> HIDE DEF Signed
    <3> QED
      BY <3>1, <3>2
  <2>3. CASE q = me
    BY <2>1, <2>2, <2>3 DEF Restrict, Reached
  <2>4. CASE q # me
    BY <2>1, <2>2, <2>4
  <2> QED
    BY <2>2, <2>3, <2>4
(* What both are bound to, or has been removed, is kept. *)
<1>8. ASSUME NEW id \in DOMAIN l.locked_in[remote],
             l.locked_in[remote][id][remote] # None
      PROVE  id \in kept
  <2>1. InOrder(l, l.locked_in[remote][id], me)
    BY <1>0, <1>1 DEF UpdatesInOrder
  <2>2. l.locked_in[remote][id][me] <= l.ctn[me] /\ l.locked_in[remote][id][me] \in Nat
    BY <1>0, <1>1, <1>8, <2>1 DEF InOrder, Reached, UpdateTypes, Ctns
  <2> QED
    BY <1>2, <2>2
<1>9. ASSUME NEW k \in RemovalKind, NEW id \in DOMAIN l.removes[k][remote]
      PROVE  id \in kept
  <2>1. InOrder(l, l.removes[k][remote][id], remote)
    BY <1>0, <1>1 DEF UpdatesInOrder
  <2>2. l.removes[k][remote][id][remote] # None
    BY <2>1 DEF InOrder, Reached
  <2>3. Reached(l.locked_in[remote][id][remote], l.removes[k][remote][id][remote])
    BY <1>0, <1>1, <2>2 DEF RemovedAfterAdded
  <2>4. id \in DOMAIN l.locked_in[remote]
    BY <1>0, <1>1 DEF UpdateTypes
  <2> QED
    BY <1>8, <2>3, <2>4 DEF Reached
<1> HIDE DEF Signed, kept, latest, remote
<1>10. LogFrame(m)
  <2>1. /\ l.adds = [q \in Owner |-> l.adds[q]]
        /\ l.locked_in = [q \in Owner |-> l.locked_in[q]]
        /\ \A k \in RemovalKind : l.removes[k] = [q \in Owner |-> l.removes[k][q]]
    BY <1>0 DEF LogFrame
  <2>2. m.adds = [q \in Owner |-> m.adds[q]] /\ m.locked_in = [q \in Owner |-> m.locked_in[q]]
    BY <1>3, <2>1
  <2>3. ASSUME NEW k \in RemovalKind
        PROVE  m.removes[k] = [q \in Owner |-> m.removes[k][q]]
    <3>1. m.removes[k] = [l.removes[k] EXCEPT ![me] = Signed(@)]
      BY <1>3
    <3> QED
      BY <2>1, <3>1
  <2>4. m.removes = [k \in RemovalKind |-> m.removes[k]]
    BY <1>3
  <2>5. m.removes = [k \in RemovalKind |-> [q \in Owner |-> m.removes[k][q]]]
    BY <2>3, <2>4
  <2> QED
    BY <1>3, <2>2, <2>5 DEF LogFrame
<1>11. \A id \in kept : id \in Nat /\ id < l.next_htlc_id[remote]
  BY <1>0, <1>1, <1>5 DEF UpdateTypes, IdsAreFresh
<1>12. m.next_htlc_id[remote] \in Nat /\ \A id \in kept : id < m.next_htlc_id[remote]
  <2>1. m.next_htlc_id[remote] = IF kept = {} THEN 0 ELSE Max(kept) + 1
    BY <1>0, <1>1, <1>3 DEF CounterTypes
  <2>2. l.next_htlc_id[remote] \in Nat
    BY <1>0, <1>1 DEF CounterTypes
  <2>3. CASE kept = {}
    BY <2>1, <2>3
  <2>4. CASE kept # {}
    <3>1. Max(kept) \in kept /\ \A id \in kept : id <= Max(kept)
      BY <1>11, <2>2, <2>4, MaxOfBounded
    <3> QED
      BY <1>11, <2>1, <2>4, <3>1
  <2> QED
    BY <2>3, <2>4
<1>13. CounterTypes(m)
  <2>1. /\ l.ctn \in [Owner -> Nat]
        /\ l.revack_pending \in [Owner -> BOOLEAN]
        /\ l.next_htlc_id \in [Owner -> Nat]
        /\ l.maybe_active \in [Owner -> SUBSET Nat]
    BY <1>0 DEF CounterTypes
  <2>2. m.next_htlc_id \in [Owner -> Nat]
    <3>1. m.next_htlc_id = [l.next_htlc_id EXCEPT ![remote] = m.next_htlc_id[remote]]
      BY <1>1, <1>3, <2>1
    <3> QED
      BY <1>12, <2>1, <3>1
  <2>3. m.maybe_active \in [Owner -> SUBSET Nat]
    BY <1>3, <2>1
  <2> QED
    BY <1>3, <2>1, <2>2, <2>3 DEF CounterTypes
<1>14. \A q \in Owner, k \in RemovalKind : DOMAIN m.removes[k][q] \subseteq DOMAIN m.locked_in[q]
  <2>1. \A q \in Owner, k \in RemovalKind : DOMAIN l.removes[k][q] \subseteq DOMAIN l.locked_in[q]
    BY <1>0 DEF UpdateTypes
  <2>2. \A q \in Owner, k \in RemovalKind : DOMAIN l.removes[k][q] \subseteq DOMAIN m.locked_in[q]
    BY <1>6, <1>9, <2>1
  <2> QED
    BY <1>7, <2>2
<1>15. UpdateTypes(m)
  <2>1. \A q \in Owner : DOMAIN m.locked_in[q] \subseteq Nat
    BY <1>0, <1>6 DEF UpdateTypes
  <2> QED
    BY <1>6, <1>7, <1>14, <2>1 DEF UpdateTypes
<1>16. \A o \in Owner : CtnNext(m, o) = CtnNext(l, o)
  BY <1>3 DEF CtnNext, CtnLatest
<1>17. UpdatesInOrder(m)
  <2>1. ASSUME NEW c, NEW o \in Owner, InOrder(l, c, o)
        PROVE  InOrder(m, c, o)
    BY <2>1, <1>3, <1>16 DEF InOrder
  <2>2. ASSUME NEW q \in Owner, NEW id \in DOMAIN m.locked_in[q]
        PROVE  InOrder(m, m.locked_in[q][id], Other(q))
    <3>1. InOrder(l, l.locked_in[q][id], Other(q)) /\ m.locked_in[q][id] = l.locked_in[q][id]
      BY <1>0, <1>6 DEF UpdatesInOrder
    <3> QED
      BY <2>1, <3>1, OtherOwner
  <2>3. ASSUME NEW q \in Owner, NEW k \in RemovalKind, NEW id \in DOMAIN m.removes[k][q]
        PROVE  InOrder(m, m.removes[k][q][id], q)
    <3>1. InOrder(l, l.removes[k][q][id], q) /\ m.removes[k][q][id] = l.removes[k][q][id]
      BY <1>0, <1>7 DEF UpdatesInOrder
    <3> QED
      BY <2>1, <3>1
  <2> QED
    BY <2>2, <2>3 DEF UpdatesInOrder
<1>18. IdsAreFresh(m)
  <2>1. ASSUME NEW q \in Owner, NEW id \in DOMAIN m.locked_in[q]
        PROVE  id < m.next_htlc_id[q]
    <3>1. CASE q = remote
      BY <1>6, <1>12, <3>1
    <3>2. CASE q # remote
      <4>1. m.next_htlc_id[q] = l.next_htlc_id[q]
        BY <1>0, <1>3, <3>2 DEF CounterTypes
      <4> QED
        BY <1>0, <1>6, <4>1 DEF IdsAreFresh
    <3> QED
      BY <3>1, <3>2
  <2> QED
    BY <2>1 DEF IdsAreFresh
<1>19. RemovedAfterAdded(m)
  <2>1. ASSUME NEW q \in Owner, NEW o \in Owner, NEW k \in RemovalKind,
               NEW id \in DOMAIN m.removes[k][q], m.removes[k][q][id][o] # None
        PROVE  Reached(m.locked_in[q][id][o], m.removes[k][q][id][o])
    <3>1. id \in DOMAIN l.removes[k][q] /\ m.removes[k][q][id] = l.removes[k][q][id]
      BY <1>7
    <3>2. m.locked_in[q][id] = l.locked_in[q][id]
      BY <1>6, <1>14
    <3>3. Reached(l.locked_in[q][id][o], l.removes[k][q][id][o])
      BY <1>0, <2>1, <3>1 DEF RemovedAfterAdded
    <3> QED
      BY <3>1, <3>2, <3>3
  <2> QED
    BY <2>1 DEF RemovedAfterAdded
<1>20. RemovedOneWay(m)
  BY <1>0, <1>7, KindOfRemoval DEF RemovedOneWay
<1>21. CacheIsSound(m)
  <2>1. ASSUME NEW q \in Owner
        PROVE  /\ m.maybe_active[q] \subseteq DOMAIN m.locked_in[q]
               /\ DOMAIN m.locked_in[q] \ m.maybe_active[q]
                    \subseteq DOMAIN l.locked_in[q] \ l.maybe_active[q]
    <3>1. l.maybe_active[q] \subseteq DOMAIN l.locked_in[q] /\ DOMAIN l.maybe_active = Owner
      BY <1>0 DEF CacheIsSound, CounterTypes
    <3>2. CASE q = remote
      <4>1. m.maybe_active[q] = l.maybe_active[q] \cap kept
        BY <1>3, <3>1, <3>2
      <4> QED
        BY <1>5, <1>6, <3>1, <3>2, <4>1
    <3>3. CASE q # remote
      <4>1. m.maybe_active[q] = l.maybe_active[q]
        BY <1>3, <3>1, <3>3
      <4> QED
        BY <1>6, <3>1, <3>3, <4>1
    <3> QED
      BY <3>2, <3>3
  <2>2. ASSUME NEW q \in Owner, NEW id \in DOMAIN m.locked_in[q] \ m.maybe_active[q]
        PROVE  \E k \in RemovalKind :
                  /\ id \in DOMAIN m.removes[k][q]
                  /\ \A o \in Owner : Reached(m.removes[k][q][id][o],
                                              l.ctn[o] - SanityMargin)
    <3>1. PICK k \in RemovalKind :
             /\ id \in DOMAIN l.removes[k][q]
             /\ \A o \in Owner : Reached(l.removes[k][q][id][o],
                                         l.ctn[o] - SanityMargin)
      BY <1>0, <2>1 DEF CacheIsSound
    <3>2. l.removes[k][q][id][me] \in Nat \cup {None}
      BY <1>0, <3>1 DEF UpdateTypes, Ctns
    <3>3. Reached(l.removes[k][q][id][me], latest)
      BY <1>2, <3>1, <3>2 DEF Reached, SanityMargin
    <3> QED
      BY <1>7, <3>1, <3>3
  <2> QED
    BY <1>3, <2>1, <2>2 DEF CacheIsSound
<1> QED
  BY <1>10, <1>13, <1>15, <1>17, <1>18, <1>19, <1>20, <1>21
     DEF LogInv, StoredLogInv, LogShape

-----------------------------------------------------------------------------
(* The log of a new channel. *)
LEMMA NewLogInv ==
    ASSUME NEW initiator \in Owner, NEW rate, NEW m, m = NewLog(initiator, rate)
    PROVE  LogInv(m)
<1>1. /\ m = [f \in LogField |-> m[f]]
      /\ m.ctn = [o \in Owner |-> 0]
      /\ m.revack_pending = [o \in Owner |-> FALSE]
      /\ m.next_htlc_id = [o \in Owner |-> 0]
      /\ m.adds = [o \in Owner |-> << >>]
      /\ m.locked_in = [o \in Owner |-> << >>]
      /\ m.removes = [k \in RemovalKind |-> [o \in Owner |-> << >>]]
      /\ m.maybe_active = [o \in Owner |-> {}]
  BY DEF NewLog, LogField
<1>2. DOMAIN << >> = {} /\ << >> \in [DOMAIN << >> -> Ctns]
  OBVIOUS
<1>3. ASSUME NEW p \in Owner
      PROVE  /\ m.adds[p] = << >> /\ m.locked_in[p] = << >>
             /\ \A k \in RemovalKind : m.removes[k][p] = << >>
             /\ m.maybe_active[p] = {}
  BY <1>1
<1>4. LogFrame(m)
  <2>1. /\ m.adds = [p \in Owner |-> m.adds[p]]
        /\ m.locked_in = [p \in Owner |-> m.locked_in[p]]
    BY <1>1
  <2>2. m.removes = [k \in RemovalKind |-> [p \in Owner |-> m.removes[k][p]]]
    BY <1>1
  <2> QED
    BY <1>1, <2>1, <2>2 DEF LogFrame
<1>5. CounterTypes(m)
  <2>1. /\ [o \in Owner |-> 0] \in [Owner -> Nat]
        /\ [o \in Owner |-> FALSE] \in [Owner -> BOOLEAN]
        /\ [o \in Owner |-> {}] \in [Owner -> SUBSET Nat]
    OBVIOUS
  <2> QED
    BY <1>1, <2>1 DEF CounterTypes
<1>6. UpdateTypes(m)
  BY <1>2, <1>3 DEF UpdateTypes
<1>7. UpdatesInOrder(m) /\ IdsAreFresh(m) /\ RemovedAfterAdded(m)
  BY <1>2, <1>3 DEF UpdatesInOrder, IdsAreFresh, RemovedAfterAdded
<1>8. RemovedOneWay(m) /\ CacheIsSound(m)
  BY <1>2, <1>3, KindOfRemoval DEF RemovedOneWay, CacheIsSound
<1> QED
  BY <1>4, <1>5, <1>6, <1>7, <1>8 DEF LogInv, StoredLogInv, LogShape

-----------------------------------------------------------------------------
(*                    Nothing irrevocable is undone                        *)

(* g has the updates of f that are in both ctxs by the ctns n. *)
Keeps(f, g, n) ==
    \A id \in DOMAIN f :
        (\A o \in Owner : Reached(f[id][o], n[o])) => id \in DOMAIN g /\ g[id] = f[id]

Later(l, m) ==
    /\ \A o \in Owner : l.ctn[o] <= m.ctn[o]
    /\ \A p \in Owner :
         /\ Keeps(l.locked_in[p], m.locked_in[p], l.ctn)
         /\ \A k \in RemovalKind : Keeps(l.removes[k][p], m.removes[k][p], l.ctn)

(* The same irrevocable updates, by the same ctns. *)
SameIrrevocable(l, m) == Later(l, m) /\ Later(m, l)

(* What is irrevocable for l is so for m, and then for k. *)
LEMMA LaterTransitive ==
    ASSUME NEW l, LogShape(l), NEW m, CounterTypes(m), NEW k, CounterTypes(k),
           Later(l, m), Later(m, k)
    PROVE  Later(l, k)
<1>1. \A o \in Owner : /\ l.ctn[o] \in Nat /\ m.ctn[o] \in Nat /\ k.ctn[o] \in Nat
                         /\ l.ctn[o] <= m.ctn[o] /\ m.ctn[o] <= k.ctn[o]
  BY DEF LogShape, CounterTypes, Later
<1>2. ASSUME NEW f, f \in [DOMAIN f -> Ctns], NEW g, NEW h,
             Keeps(f, g, l.ctn), Keeps(g, h, m.ctn)
      PROVE  Keeps(f, h, l.ctn)
  <2> SUFFICES ASSUME NEW id \in DOMAIN f, \A o \in Owner : Reached(f[id][o], l.ctn[o])
               PROVE  id \in DOMAIN h /\ h[id] = f[id]
    BY DEF Keeps
  <2>1. f[id] \in Ctns
    BY <1>2
  <2>2. id \in DOMAIN g /\ g[id] = f[id]
    BY <1>2 DEF Keeps
  <2>3. \A o \in Owner : Reached(g[id][o], m.ctn[o])
    BY <1>1, <2>1, <2>2 DEF Reached, Ctns
  <2> QED
    BY <1>2, <2>2, <2>3 DEF Keeps
<1>3. UpdateTypes(l)
  BY DEF LogShape
<1>4. \A p \in Owner : Keeps(l.locked_in[p], k.locked_in[p], l.ctn)
  BY <1>2, <1>3 DEF Later, UpdateTypes
<1>5. \A p \in Owner : \A x \in RemovalKind : Keeps(l.removes[x][p], k.removes[x][p], l.ctn)
  BY <1>2, <1>3 DEF Later, UpdateTypes
<1> QED
  BY <1>1, <1>4, <1>5 DEF Later

(* Two ways to ask whether a removal is irrevocable: CtnOfRemoval, where a    *)
(* settle hides a fail, and the log of the kind.                              *)
LEMMA IrrevocablyRemovedIff ==
    ASSUME NEW l, LogInv(l), NEW p \in Owner, NEW id \in DOMAIN l.locked_in[p]
    PROVE  IsIrrevocablyRemoved(l, p, id) <=>
             \E k \in RemovalKind :
                /\ id \in DOMAIN l.removes[k][p]
                /\ \A o \in Owner : Reached(l.removes[k][p][id][o], l.ctn[o])
<1>1. /\ UpdateTypes(l) /\ UpdatesInOrder(l) /\ IdsAreFresh(l) /\ RemovedOneWay(l)
  BY LogInvParts
<1>2. id < l.next_htlc_id[p]
  BY <1>1 DEF IdsAreFresh
<1>3. ASSUME NEW k \in RemovalKind, id \in DOMAIN l.removes[k][p], NEW o \in Owner
      PROVE  l.removes[k][p][id][o] # 0
  BY <1>1, <1>3 DEF UpdatesInOrder, InOrder
<1>4. \A k \in RemovalKind : k = "settles" \/ k = "fails"
  BY DEF RemovalKind
<1>5. ~ (id \in DOMAIN l.removes["settles"][p] /\ id \in DOMAIN l.removes["fails"][p])
  BY <1>1 DEF RemovedOneWay
<1>6. CASE id \in DOMAIN l.removes["settles"][p]
  <2>1. ASSUME NEW o \in Owner
        PROVE  Reached(CtnOfRemoval(l, o, p, id), l.ctn[o])
                 <=> Reached(l.removes["settles"][p][id][o], l.ctn[o])
    BY <1>3, <1>5, <1>6, KindOfRemoval DEF CtnOfRemoval, Reached
  <2> QED
    BY <2>1, <1>2, <1>4, <1>5, <1>6, KindOfRemoval DEF IsIrrevocablyRemoved
<1>7. CASE id \notin DOMAIN l.removes["settles"][p]
  <2>1. ASSUME NEW o \in Owner
        PROVE  CtnOfRemoval(l, o, p, id) = IF id \in DOMAIN l.removes["fails"][p]
                                             THEN l.removes["fails"][p][id][o] ELSE None
    BY <1>7 DEF CtnOfRemoval
  <2>2. Owner # {}
    BY OwnerAssumption
  <2> QED
    BY <2>1, <2>2, <1>2, <1>4, <1>7, KindOfRemoval DEF IsIrrevocablyRemoved, Reached
<1> QED
  BY <1>6, <1>7

(* What Later is for. *)
LEMMA LaterIsForGood ==
    ASSUME NEW l, LogInv(l), NEW m, LogInv(m), Later(l, m),
           NEW p \in Owner, NEW id \in DOMAIN l.locked_in[p]
    PROVE  /\ IsIrrevocablyAdded(l, p, id) =>
                /\ IsIrrevocablyAdded(m, p, id)
                /\ m.locked_in[p][id] = l.locked_in[p][id]
           /\ IsIrrevocablyRemoved(l, p, id) => IsIrrevocablyRemoved(m, p, id)
<1>1. /\ CounterTypes(l) /\ CounterTypes(m) /\ UpdateTypes(l) /\ UpdateTypes(m)
      /\ IdsAreFresh(m) /\ RemovedAfterAdded(l)
  BY LogInvParts
<1>2. \A o \in Owner : l.ctn[o] \in Nat /\ m.ctn[o] \in Nat /\ l.ctn[o] <= m.ctn[o]
  BY <1>1 DEF CounterTypes, Later
<1>3. ASSUME NEW c \in Ctns, NEW o \in Owner, Reached(c[o], l.ctn[o])
      PROVE  Reached(c[o], m.ctn[o])
  BY <1>2, <1>3 DEF Reached, Ctns
<1>4. ASSUME \A o \in Owner : Reached(l.locked_in[p][id][o], l.ctn[o])
      PROVE  /\ id \in DOMAIN m.locked_in[p]
             /\ m.locked_in[p][id] = l.locked_in[p][id]
             /\ IsIrrevocablyAdded(m, p, id)
  <2>1. id \in DOMAIN m.locked_in[p] /\ m.locked_in[p][id] = l.locked_in[p][id]
    BY <1>4 DEF Later, Keeps
  <2>2. l.locked_in[p][id] \in Ctns
    BY <1>1 DEF UpdateTypes
  <2>3. id < m.next_htlc_id[p]
    BY <1>1, <2>1 DEF IdsAreFresh
  <2> QED
    BY <1>3, <1>4, <2>1, <2>2, <2>3 DEF IsIrrevocablyAdded
<1>5. ASSUME IsIrrevocablyRemoved(l, p, id)
      PROVE  IsIrrevocablyRemoved(m, p, id)
  <2>1. PICK k \in RemovalKind :
          /\ id \in DOMAIN l.removes[k][p]
          /\ \A o \in Owner : Reached(l.removes[k][p][id][o], l.ctn[o])
    BY <1>5, IrrevocablyRemovedIff
  <2>2. l.removes[k][p][id] \in Ctns
    BY <1>1, <2>1 DEF UpdateTypes
  <2>3. id \in DOMAIN m.removes[k][p] /\ m.removes[k][p][id] = l.removes[k][p][id]
    BY <2>1 DEF Later, Keeps
  <2>4. id \in DOMAIN m.locked_in[p]
    BY <1>1, <2>3 DEF UpdateTypes
  <2>5. \A o \in Owner : Reached(m.removes[k][p][id][o], m.ctn[o])
    BY <1>3, <2>1, <2>2, <2>3
  <2> QED
    BY <2>3, <2>4, <2>5, IrrevocablyRemovedIff
<1> QED
  BY <1>4, <1>5 DEF IsIrrevocablyAdded

(* The methods that leave the ctns of all updates alone. *)
LEMMA SameIsLater ==
    ASSUME NEW l, LogInv(l), NEW m,
           m.ctn = l.ctn, m.locked_in = l.locked_in, m.removes = l.removes
    PROVE  SameIrrevocable(l, m)
<1>1. CounterTypes(l)
  BY LogInvParts
<1> QED
  BY <1>1 DEF SameIrrevocable, Later, Keeps, CounterTypes

LEMMA RecordOnlyIsLater ==
    ASSUME NEW l, LogInv(l), NEW me \in Owner, NEW rate, NEW msg, NEW signs \in BOOLEAN,
           NEW m,
           \/ m = SendCtx(l, me) \/ m = RecvCtx(l, me)
           \/ m = UpdateFee(l, me, rate) \/ m = StoreRawMsg(l, me, msg, signs)
           \/ m = UpdateMaybeActive(l, me) \/ m = Load(Stored(l), me)
           \/ m = Stored(l)
    PROVE  SameIrrevocable(l, m)
<1>1. l = [f \in LogField |-> l[f]]
  BY LogInvParts DEF LogFrame
<1>2. m.ctn = l.ctn /\ m.locked_in = l.locked_in /\ m.removes = l.removes
  <2>1. CASE m = SendCtx(l, me) \/ m = RecvCtx(l, me)
    BY <1>1, <2>1 DEF SendCtx, RecvCtx, LogField
  <2>2. CASE m = UpdateFee(l, me, rate)
    BY <1>1, <2>2 DEF UpdateFee, LogField
  <2>3. CASE m = StoreRawMsg(l, me, msg, signs)
    BY <1>1, <2>3 DEF StoreRawMsg, LogField
  <2>4. CASE m = UpdateMaybeActive(l, me)
    BY <1>1, <2>4 DEF UpdateMaybeActive, LogField
  <2>5. CASE m = Load(Stored(l), me)
    BY <1>1, <2>5 DEF Load, Stored, UpdateMaybeActive, LogField
  <2>6. CASE m = Stored(l)
    BY <1>1, <2>6 DEF Stored, LogField
  <2> QED
    BY <2>1, <2>2, <2>3, <2>4, <2>5, <2>6
<1> QED
  BY <1>2, SameIsLater

LEMMA AddHtlcIsLater ==
    ASSUME NEW l, LogInv(l), NEW p \in Owner, NEW amount, NEW m, m = AddHtlc(l, p, amount)
    PROVE  SameIrrevocable(l, m)
<1> DEFINE new == l.next_htlc_id[p]
           c   == EntersFirst(Other(p), CtnNext(l, Other(p)))
<1>1. /\ LogFrame(l) /\ CounterTypes(l) /\ UpdateTypes(l) /\ IdsAreFresh(l)
  BY LogInvParts
<1>2. m.ctn = l.ctn /\ m.removes = l.removes
  BY <1>1 DEF AddHtlc, LogFrame, LogField
<1>3. m.locked_in = [l.locked_in EXCEPT ![p] = With(@, new, c)]
  BY <1>1 DEF AddHtlc, LogFrame, LogField
<1>4. new \notin DOMAIN l.locked_in[p]
  <2>1. new \in Nat
    BY <1>1 DEF CounterTypes
  <2> QED
    BY <1>1, <2>1 DEF IdsAreFresh
<1> HIDE DEF new, c
<1>5. \A q \in Owner : Keeps(l.locked_in[q], m.locked_in[q], l.ctn)
  <2>1. \A q \in Owner : q # p => m.locked_in[q] = l.locked_in[q]
    BY <1>1, <1>3 DEF LogFrame
  <2>2. m.locked_in[p] = With(l.locked_in[p], new, c)
    BY <1>1, <1>3 DEF LogFrame
  <2>3. Keeps(l.locked_in[p], With(l.locked_in[p], new, c), l.ctn)
    BY <1>4 DEF Keeps, With
  <2> QED
    BY <2>1, <2>2, <2>3 DEF Keeps
<1>6. \A q \in Owner : Keeps(m.locked_in[q], l.locked_in[q], l.ctn)
  <2>1. \A q \in Owner : q # p => m.locked_in[q] = l.locked_in[q]
    BY <1>1, <1>3 DEF LogFrame
  <2>2. m.locked_in[p] = With(l.locked_in[p], new, c)
    BY <1>1, <1>3 DEF LogFrame
  <2>3. c[p] = None
    <3>1. CtnNext(l, Other(p)) \in Nat
      BY <1>1, OtherOwner, CtnType
    <3> QED
      BY <3>1, OtherOwner, EntersFirstType DEF c
  <2>4. Keeps(With(l.locked_in[p], new, c), l.locked_in[p], l.ctn)
    BY <2>3 DEF Keeps, With, Reached
  <2> QED
    BY <2>1, <2>2, <2>4 DEF Keeps
<1> QED
  BY <1>1, <1>2, <1>5, <1>6 DEF SameIrrevocable, Later, Keeps, CounterTypes

LEMMA RemoveHtlcIsLater ==
    ASSUME NEW l, LogInv(l), NEW kind \in RemovalKind, NEW p \in Owner,
           NEW id \in DOMAIN l.locked_in[p], CanRemoveHtlc(l, p, id),
           NEW m, m = RemoveHtlc(l, kind, p, id)
    PROVE  SameIrrevocable(l, m)
<1> DEFINE c == EntersFirst(p, CtnNext(l, p))
<1>1. LogFrame(l) /\ CounterTypes(l) /\ UpdatesInOrder(l)
  BY LogInvParts
<1>2. m.ctn = l.ctn /\ m.locked_in = l.locked_in
  BY <1>1 DEF RemoveHtlc, LogFrame, LogField
<1>3. m.removes = [l.removes EXCEPT ![kind][p] = With(@, id, c)]
  BY <1>1 DEF RemoveHtlc, LogFrame, LogField
<1>4. id \notin DOMAIN l.removes[kind][p]
  <2>1. ASSUME id \in DOMAIN l.removes[kind][p]
        PROVE  FALSE
    <3>1. Reached(l.removes[kind][p][id][p], CtnNext(l, p))
      BY <1>1, <2>1 DEF UpdatesInOrder, InOrder
    <3> QED
      BY <2>1, <3>1 DEF CanRemoveHtlc, IsActiveAt
  <2> QED
    BY <2>1
<1> HIDE DEF c
<1>5. ASSUME NEW k \in RemovalKind, NEW q \in Owner
      PROVE  /\ Keeps(l.removes[k][q], m.removes[k][q], l.ctn)
             /\ Keeps(m.removes[k][q], l.removes[k][q], l.ctn)
  <2>1. /\ DOMAIN l.removes = RemovalKind
        /\ \A x \in RemovalKind : DOMAIN l.removes[x] = Owner
    BY <1>1 DEF LogFrame
  <2>2. CASE k = kind /\ q = p
    <3>1. m.removes[k][q] = With(l.removes[k][q], id, c)
      BY <1>3, <2>1, <2>2
    <3>2. c[Other(p)] = None /\ Other(p) \in Owner
      <4>1. CtnNext(l, p) \in Nat
        BY <1>1, CtnType
      <4> QED
        BY <4>1, OtherOwner, EntersFirstType DEF c
    <3>3. Keeps(l.removes[k][q], m.removes[k][q], l.ctn)
      BY <1>4, <2>2, <3>1 DEF Keeps, With
    <3>4. Keeps(m.removes[k][q], l.removes[k][q], l.ctn)
      BY <3>1, <3>2 DEF Keeps, With, Reached
    <3> QED
      BY <3>3, <3>4
  <2>3. CASE ~ (k = kind /\ q = p)
    <3>1. m.removes[k][q] = l.removes[k][q]
      BY <1>3, <2>1, <2>3
    <3> QED
      BY <3>1 DEF Keeps
  <2> QED
    BY <2>2, <2>3
<1> QED
  BY <1>1, <1>2, <1>5 DEF SameIrrevocable, Later, Keeps, CounterTypes

LEMMA RevokeIsLater ==
    ASSUME NEW l, LogInv(l), NEW r \in Owner, NEW m, m = Revoke(l, r)
    PROVE  Later(l, m)
<1> DEFINE other == Other(r)
           n     == l.ctn[r] + 1
           next  == CtnNext(l, other)
           Ack(f, ids) == [id \in DOMAIN f |->
                             IF id \in ids THEN Acknowledge(f[id], r, n, next) ELSE f[id]]
<1>1. LogFrame(l) /\ CounterTypes(l)
  BY LogInvParts
<1>2. other \in Owner /\ other # r
  BY OtherOwner
<1>3. PICK fees : m = [l EXCEPT
           !.ctn[r]            = n,
           !.revack_pending[r] = FALSE,
           !.locked_in[other]  = Ack(@, l.maybe_active[other]),
           !.removes = [k \in RemovalKind |->
                          [l.removes[k] EXCEPT ![r] = Ack(@, l.maybe_active[r])]],
           !.fee_updates[other] = fees]
  BY DEF Revoke
<1>4. \A f, ids : Keeps(f, Ack(f, ids), l.ctn)
  <2>1. ASSUME NEW c, \A o \in Owner : Reached(c[o], l.ctn[o])
        PROVE  Acknowledge(c, r, n, next) = c
    BY <1>2, <2>1 DEF Acknowledge, Reached, other
  <2> HIDE DEF n, next
  <2> QED
    BY <2>1 DEF Keeps
<1> HIDE DEF Ack, n, other
<1>5. m.ctn = [l.ctn EXCEPT ![r] = n]
  BY <1>1, <1>3 DEF LogFrame, LogField
<1>6. m.locked_in = [l.locked_in EXCEPT ![other] = Ack(@, l.maybe_active[other])]
  BY <1>1, <1>3 DEF LogFrame, LogField
<1>7. m.removes = [k \in RemovalKind |->
                     [l.removes[k] EXCEPT ![r] = Ack(@, l.maybe_active[r])]]
  BY <1>1, <1>3 DEF LogFrame, LogField
<1>8. \A o \in Owner : l.ctn[o] <= m.ctn[o]
  BY <1>1, <1>5 DEF CounterTypes, n
<1>9. \A f : Keeps(f, f, l.ctn)
  BY DEF Keeps
<1>10. \A q \in Owner : Keeps(l.locked_in[q], m.locked_in[q], l.ctn)
  BY <1>1, <1>2, <1>4, <1>6, <1>9 DEF LogFrame
<1>11. ASSUME NEW q \in Owner, NEW k \in RemovalKind
       PROVE  Keeps(l.removes[k][q], m.removes[k][q], l.ctn)
  <2>1. DOMAIN l.removes[k] = Owner
    BY <1>1 DEF LogFrame
  <2>2. m.removes[k] = [l.removes[k] EXCEPT ![r] = Ack(@, l.maybe_active[r])]
    BY <1>7
  <2>3. m.removes[k][q] \in {l.removes[k][q], Ack(l.removes[k][q], l.maybe_active[q])}
    BY <2>1, <2>2
  <2> QED
    BY <1>4, <1>9, <2>3
<1> QED
  BY <1>8, <1>10, <1>11 DEF Later

LEMMA SendRevIsLater ==
    ASSUME NEW l, LogInv(l), NEW me \in Owner, NEW m, m = SendRev(l, me)
    PROVE  Later(l, m)
<1> DEFINE x == Revoke(l, me)
<1>1. LogInv(x) /\ Later(l, x)
  BY OtherOwner, RevokeInv, RevokeIsLater
<1>2. m.ctn = x.ctn /\ m.locked_in = x.locked_in /\ m.removes = x.removes
  <2>1. x = [f \in LogField |-> x[f]]
    BY <1>1, LogInvParts DEF LogFrame
  <2>2. PICK value : m = [UpdateMaybeActive(x, me) EXCEPT !.was_revoke_last = value]
    BY DEF SendRev
  <2> HIDE DEF x
  <2> QED
    BY <2>1, <2>2 DEF UpdateMaybeActive, LogField
<1> QED
  BY <1>1, <1>2 DEF Later

LEMMA RecvRevIsLater ==
    ASSUME NEW l, LogInv(l), NEW me \in Owner, NEW m, m = RecvRev(l, me)
    PROVE  Later(l, m)
<1> DEFINE x == Revoke(l, Other(me))
<1>1. LogInv(x) /\ Later(l, x)
  BY OtherOwner, RevokeInv, RevokeIsLater
<1>2. m.ctn = x.ctn /\ m.locked_in = x.locked_in /\ m.removes = x.removes
  <2>1. x = [f \in LogField |-> x[f]]
    BY <1>1, LogInvParts DEF LogFrame
  <2>2. PICK value : m = [UpdateMaybeActive(x, me) EXCEPT !.unacked_updates = value]
    BY DEF RecvRev
  <2> HIDE DEF x
  <2> QED
    BY <2>1, <2>2 DEF UpdateMaybeActive, LogField
<1> QED
  BY <1>1, <1>2 DEF Later

LEMMA DiscardIsLater ==
    ASSUME NEW l, LogInv(l), NEW me \in Owner,
           NEW m, m = DiscardUnsignedRemoteUpdates(l, me)
    PROVE  SameIrrevocable(l, m)
<1> DEFINE remote    == Other(me)
           latest    == CtnLatest(l, me)
           kept      == {id \in DOMAIN l.locked_in[remote] :
                           l.locked_in[remote][id][me] <= latest}
           Signed(f) == Restrict(f, {id \in DOMAIN f : f[id][me] <= latest})
<1>1. LogFrame(l) /\ CounterTypes(l) /\ UpdateTypes(l)
  BY LogInvParts
<1>2. remote \in Owner
  BY OtherOwner
<1>3. PICK nexts, fees : m = [l EXCEPT
          !.locked_in[remote]    = Restrict(@, kept),
          !.adds[remote]         = Restrict(@, kept),
          !.maybe_active[remote] = @ \cap kept,
          !.next_htlc_id[remote] = nexts,
          !.removes = [k \in RemovalKind |-> [l.removes[k] EXCEPT ![me] = Signed(@)]],
          !.fee_updates[remote]  = fees]
  BY DEF DiscardUnsignedRemoteUpdates
<1>4. \A n \in Ctns : (\A o \in Owner : Reached(n[o], l.ctn[o])) => n[me] <= latest
  <2>1. l.ctn[me] \in Nat /\ latest \in {l.ctn[me], l.ctn[me] + 1}
    BY <1>1, CtnType
  <2> HIDE DEF latest
  <2> QED
    BY <2>1 DEF Reached, Ctns
<1>5. /\ Keeps(l.locked_in[remote], Restrict(l.locked_in[remote], kept), l.ctn)
      /\ Keeps(Restrict(l.locked_in[remote], kept), l.locked_in[remote], l.ctn)
  <2>1. l.locked_in[remote] \in [DOMAIN l.locked_in[remote] -> Ctns]
    BY <1>1, <1>2 DEF UpdateTypes
  <2> HIDE DEF latest, remote
  <2> QED
    BY <1>4, <2>1 DEF Keeps, Restrict
<1>6. ASSUME NEW k \in RemovalKind
      PROVE  /\ Keeps(l.removes[k][me], Signed(l.removes[k][me]), l.ctn)
             /\ Keeps(Signed(l.removes[k][me]), l.removes[k][me], l.ctn)
  <2>1. l.removes[k][me] \in [DOMAIN l.removes[k][me] -> Ctns]
    BY <1>1 DEF UpdateTypes
  <2> HIDE DEF latest
  <2> QED
    BY <1>4, <2>1 DEF Keeps, Restrict
<1> HIDE DEF Signed, kept, remote
<1>7. m.ctn = l.ctn
  BY <1>1, <1>3 DEF LogFrame, LogField
<1>8. m.locked_in = [l.locked_in EXCEPT ![remote] = Restrict(@, kept)]
  BY <1>1, <1>3 DEF LogFrame, LogField
<1>9. m.removes = [k \in RemovalKind |-> [l.removes[k] EXCEPT ![me] = Signed(@)]]
  BY <1>1, <1>3 DEF LogFrame, LogField
<1>10. \A f : Keeps(f, f, l.ctn)
  BY DEF Keeps
<1>11. \A q \in Owner : /\ Keeps(l.locked_in[q], m.locked_in[q], l.ctn)
                         /\ Keeps(m.locked_in[q], l.locked_in[q], l.ctn)
  BY <1>1, <1>2, <1>5, <1>8, <1>10 DEF LogFrame
<1>12. ASSUME NEW q \in Owner, NEW k \in RemovalKind
       PROVE  /\ Keeps(l.removes[k][q], m.removes[k][q], l.ctn)
              /\ Keeps(m.removes[k][q], l.removes[k][q], l.ctn)
  <2>1. DOMAIN l.removes[k] = Owner
    BY <1>1 DEF LogFrame
  <2>2. m.removes[k] = [l.removes[k] EXCEPT ![me] = Signed(@)]
    BY <1>9
  <2>3. CASE q = me
    BY <1>6, <2>1, <2>2, <2>3
  <2>4. CASE q # me
    BY <1>10, <2>1, <2>2, <2>4
  <2> QED
    BY <2>3, <2>4
<1> QED
  BY <1>1, <1>7, <1>11, <1>12 DEF SameIrrevocable, Later, CounterTypes
=============================================================================

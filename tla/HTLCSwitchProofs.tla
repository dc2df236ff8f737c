-------------------------- MODULE HTLCSwitchProofs --------------------------
(***************************************************************************)
(* What holds of received HTLCs for any peers, HTLCs, payments and bounds. *)
(* In the first part, the types of the sets, over restarts too, and, until *)
(* the first restart, that a set marked as failed never settles an HTLC.   *)
(*                                                                         *)
(* In the second, over restarts too: an HTLC for the next hop is offered   *)
(* once, and what is revealed, forwarded or funded is covered by HTLCs     *)
(* that are settled or wait in a SETTLING set; and the payments of a       *)
(* bundle start together.  Its inductive invariant says the same of two    *)
(* stores, the memory and the file, since the second becomes the first     *)
(* when the process restarts.  The proof goes in three layers: how each    *)
(* action changes a store, or leaves another one in the file (the          *)
(* ...Changes lemmas); what such a change keeps of any store (...Legal,    *)
(* ...Sound); and that the memory, the file, the tasks and the chain still *)
(* fit together (...Safe).                                                 *)
(***************************************************************************)
EXTENDS HTLCSwitch, Recursion

-----------------------------------------------------------------------------
(*                                  Types                                  *)

Job == [peer : Peer \cup {None}, unf : SUBSET Htlc, todo : SUBSET Key, snap : [Key -> SetRecord]]

LEMMA NoSetTyped == NoSet \in SetRecord /\ NewSet \in SetRecord
BY DEF NoSet, NewSet, SetRecord, Resolutions

LEMMA SetRecordChanged ==
    ASSUME NEW r \in SetRecord
    PROVE  /\ r.htlcs \in SUBSET Htlc
           /\ r.res # "none" <=> r # NoSet
           /\ \A x \in Resolutions : [r EXCEPT !.res = x] \in SetRecord
           /\ \A x \in Key : r # NoSet => [r EXCEPT !.parent = x] \in SetRecord
           /\ \A hs \in SUBSET Htlc : r # NoSet \/ hs = {} => [r EXCEPT !.htlcs = hs] \in SetRecord
<1>1. CASE r = NoSet
  BY <1>1 DEF SetRecord, Resolutions, NoSet
<1>2. CASE r \in [res : Resolutions, htlcs : SUBSET Htlc, parent : Key \cup {None}]
  BY <1>2 DEF SetRecord, Resolutions, NoSet
<1> QED
  BY <1>1, <1>2 DEF SetRecord

LEMMA ScenarioTyped ==
    ASSUME TypeOK
    PROVE  /\ \A h \in Htlc : sc.key[h] \in Key /\ sc.peer[h] \in Peer
           /\ \A k \in Key : sc.kind[k] = "part" => sc.parent[k] \in Key
           /\ \A k \in Key : HashOf(k) \in Key
BY DEF TypeOK, IsScenario, HashOf

LEMMA StoreChanged ==
    ASSUME NEW s \in Store, NEW hs \in SUBSET Htlc, NEW what \in {"none", "added", "fulfilled", "failed"}
    PROVE  SetLog(s, hs, what) \in Store
BY DEF Store, SetLog

LEMMA MarkedTyped ==
    ASSUME TypeOK, CopiesAreCurrent, NEW k \in job.todo
    PROVE  Marked(k, job.snap[k]) \in Store
<1> DEFINE x == job.snap[k]
<1>1. k \in Key /\ (sc.kind[k] = "part" => sc.parent[k] \in Key)
  BY ScenarioTyped DEF TypeOK
<1>2. /\ store \in Store
      /\ store.sets \in [Key -> SetRecord]
      /\ store.sets[k] \in SetRecord
  BY <1>1 DEF TypeOK, Store
<1>3. x \in SetRecord /\ store.sets[k].res = x.res /\ x # NoSet
  BY <1>1 DEF TypeOK, CopiesAreCurrent
<1>4. store.sets[k] # NoSet
  BY <1>2, <1>3, SetRecordChanged
<1> QED
  <2>1. CASE Marked(k, x) = store
    BY <1>2, <2>1
  <2>2. CASE Marked(k, x) = [store EXCEPT !.sets[k].parent = sc.parent[k]] /\ sc.kind[k] = "part"
    <3>1. [store.sets[k] EXCEPT !.parent = sc.parent[k]] \in SetRecord
      BY <1>1, <1>2, <1>4, <2>2, SetRecordChanged
    <3>2. [store EXCEPT !.sets[k].parent = sc.parent[k]] \in Store
      BY <1>1, <1>2, <3>1 DEF Store
    <3> QED
      BY <2>2, <3>2
  <2>3. CASE Marked(k, x) = [store EXCEPT !.sets[k].res = "complete"]
    <3>1. [store.sets[k] EXCEPT !.res = "complete"] \in SetRecord
      BY <1>2, SetRecordChanged DEF Resolutions
    <3>2. [store EXCEPT !.sets[k].res = "complete"] \in Store
      BY <1>1, <1>2, <3>1 DEF Store
    <3> QED
      BY <2>3, <3>2
  <2> QED
    BY <2>1, <2>2, <2>3 DEF Marked

LEMMA CleanedTyped ==
    ASSUME NEW s \in Store, NEW k \in Key
    PROVE  Cleaned(s, k) \in Store
BY NoSetTyped DEF Store, Cleaned

LEMMA SettlingTyped ==
    ASSUME TypeOK, NEW k \in Key
    PROVE  Settling(k) \in Store
<1>1. /\ HashOf(k) \in Key
      /\ store \in Store
      /\ store.sets \in [Key -> SetRecord]
      /\ store.sets[k] \in SetRecord
  BY ScenarioTyped DEF TypeOK, Store
<1>2. [store.sets[k] EXCEPT !.res = "settling"] \in SetRecord
  BY <1>1, SetRecordChanged DEF Resolutions
<1> QED
  BY <1>1, <1>2 DEF Store, Settling

LEMMA FileTyped ==
    ASSUME TypeOK, store' \in Store, NEW written \in SUBSET Store, File(written)
    PROVE  disk' \in Store
BY DEF TypeOK, File

LEMMA FirstStepTyped ==
    ASSUME NEW p \in Peer \cup {None}, NEW left \in SUBSET Htlc, NEW s \in Store
    PROVE  FirstStep(p, left, s) \in Job
BY NoSetTyped DEF FirstStep, SecondStep, Job, NoJob, Store

(* The first loop *)
LEMMA FirstLoopTyped ==
    ASSUME TypeOK, NEW h \in Htlc, Collect(h) \/ Refuse(h) \/ RefuseRaises(h)
    PROVE  TypeOK'
<1> DEFINE k == sc.key[h]
<1>1. /\ k \in Key /\ store \in Store /\ disk \in Store
      /\ store.sets \in [Key -> SetRecord] /\ store.sets[k] \in SetRecord
      /\ job \in Job /\ job.unf \ {h} \in SUBSET Htlc
  BY ScenarioTyped DEF TypeOK, Store, Job
<1>2. CASE Collect(h)
  <2> DEFINE old == IF store.sets[k] = NoSet THEN NewSet ELSE store.sets[k]
             new == [old EXCEPT !.htlcs = old.htlcs \cup {h}]
  <2>1. old.res = "waiting" /\ store' = [store EXCEPT !.sets[k] = new, !.unf = @ \ {h}]
    BY <1>2 DEF Collect
  <2>2. new \in SetRecord
    BY <1>1, <2>1, NoSetTyped DEF SetRecord, Resolutions, NoSet, NewSet
  <2>3. store' \in Store
    BY <1>1, <2>1, <2>2 DEF Store
  <2>4. disk' \in Store
    BY <1>1, <1>2, <2>3, FileTyped DEF Collect
  <2>5. job' \in Job
    BY <1>1, <1>2, <2>3, FirstStepTyped DEF Collect, Job
  <2> QED
    BY <1>2, <2>3, <2>4, <2>5 DEF Collect, TypeOK, Job
<1>3. CASE Refuse(h)
  <2>1. SetLog(store, {h}, "failed") \in Store
    BY <1>1, StoreChanged
  <2>2. store' \in Store
    BY <1>3, <2>1 DEF Refuse, Store
  <2>3. disk' \in Store
    BY <1>1, <1>3, <2>1, <2>2, FileTyped DEF Refuse
  <2>4. job' \in Job
    BY <1>1, <1>3, <2>2, FirstStepTyped DEF Refuse, Job
  <2> QED
    BY <1>3, <2>2, <2>3, <2>4 DEF Refuse, TypeOK, Job
<1>4. CASE RefuseRaises(h)
  <2>1. store' \in Store
    BY <1>1, <1>4 DEF RefuseRaises, Store
  <2>2. disk' \in Store
    BY <1>1, <1>4, <2>1, FileTyped DEF RefuseRaises
  <2>3. job' \in Job
    BY <1>4, NoSetTyped DEF RefuseRaises, Abort, NoJob, Job
  <2>4. conn' \in [Peer -> {"down", "up", "ready"}]
    BY <1>4 DEF RefuseRaises, Abort, TypeOK
  <2> QED
    BY <1>4, <2>1, <2>2, <2>3, <2>4 DEF RefuseRaises, TypeOK, Job
<1> QED
  BY <1>2, <1>3, <1>4

LEMMA DoneWithTyped ==
    ASSUME TypeOK, NEW k \in Key, DoneWith(k)
    PROVE  job' \in Job
BY NoSetTyped DEF TypeOK, DoneWith, NoJob, Job

(* HTLCs of a set are settled or failed, and leave it. *)
Taken(s, k, hs, what, gone) == [SetLog(s, hs, what) EXCEPT !.sets[k].htlcs = @ \ gone]
IsLeft(left, s, k, hs, what, gone) ==
    /\ left \in Store /\ left.unf = s.unf
    /\ left.down = s.down /\ left.pre = s.pre /\ left.failure = s.failure
    /\ \A h \in Htlc : left.log[h] = IF h \in hs THEN what ELSE s.log[h]
    /\ \A j \in Key \ {k} : left.sets[j] = s.sets[j]
    /\ left.sets[k].res = s.sets[k].res /\ left.sets[k].parent = s.sets[k].parent
    /\ left.sets[k].htlcs = s.sets[k].htlcs \ gone

LEMMA TakenTyped ==
    ASSUME NEW s \in Store, NEW k \in Key, s.sets[k] # NoSet, NEW hs \in SUBSET Htlc,
           NEW gone \in SUBSET Htlc, NEW what, what \in {"fulfilled", "failed"}
    PROVE  IsLeft(Taken(s, k, hs, what, gone), s, k, hs, what, gone)
<1> DEFINE r == [s.sets[k] EXCEPT !.htlcs = @ \ gone]
           left == Taken(s, k, hs, what, gone)
<1>1. s.sets[k] \in SetRecord /\ s.sets[k].htlcs \ gone \in SUBSET Htlc
  <2>1. s.sets[k] \in SetRecord
    BY DEF Store
  <2> QED
    BY <2>1, SetRecordChanged
<1>2. /\ r \in SetRecord /\ r.res = s.sets[k].res /\ r.parent = s.sets[k].parent
      /\ r.htlcs = s.sets[k].htlcs \ gone
  BY <1>1, SetRecordChanged DEF SetRecord, NoSet
<1>3. SetLog(s, hs, what) \in Store
  BY StoreChanged
<1>4. SetLog(s, hs, what).sets = s.sets
  BY DEF SetLog, Store
<1>5. left = [SetLog(s, hs, what) EXCEPT !.sets = [s.sets EXCEPT ![k] = r]]
  BY <1>3, <1>4 DEF Taken, Store
<1>6. [s.sets EXCEPT ![k] = r] \in [Key -> SetRecord]
  BY <1>2 DEF Store
<1>7. /\ left \in Store /\ left.sets = [s.sets EXCEPT ![k] = r]
      /\ left.unf = SetLog(s, hs, what).unf /\ left.log = SetLog(s, hs, what).log
      /\ left.down = SetLog(s, hs, what).down /\ left.pre = SetLog(s, hs, what).pre
      /\ left.failure = SetLog(s, hs, what).failure
  <2> HIDE DEF r, left
  <2> QED
    BY <1>3, <1>5, <1>6 DEF Store
<1>8. /\ SetLog(s, hs, what).unf = s.unf /\ SetLog(s, hs, what).down = s.down
      /\ SetLog(s, hs, what).pre = s.pre /\ SetLog(s, hs, what).failure = s.failure
      /\ \A h \in Htlc : SetLog(s, hs, what).log[h] = IF h \in hs THEN what ELSE s.log[h]
  BY DEF SetLog, Store
<1>9. left.sets[k] = r /\ \A j \in Key \ {k} : left.sets[j] = s.sets[j]
  <2> HIDE DEF r, left
  <2> QED
    BY <1>7 DEF Store
<1> QED
  <2> HIDE DEF r
  <2> QED
    BY <1>2, <1>7, <1>8, <1>9 DEF IsLeft

(* What _fulfill_htlc_set and _fail_htlc_set leave of the set and the log *)
IsTaken(k, what, results) ==
    /\ store' \in Store /\ store'.unf = store.unf
    /\ \A h \in Htlc : store'.log[h] = IF h \in Mine(k) THEN what ELSE store.log[h]
    /\ \A j \in Key \ {k} : store'.sets[j] = store.sets[j]
    /\ IF store.sets[k].htlcs \ Mine(k) = {} THEN store'.sets[k] = NoSet
       ELSE /\ store'.sets[k].res \in results
            /\ store'.sets[k].htlcs = store.sets[k].htlcs \ Mine(k)
            /\ store'.sets[k].parent = store.sets[k].parent

LEMMA FailsEffect ==
    ASSUME TypeOK, NEW k \in Key, SetFails(k)
    PROVE  /\ disk' \in Store
           /\ IsTaken(k, "failed", {"failed", "expired"})
<1> DEFINE res  == IF Verdict(k) = "fail" THEN "failed" ELSE "expired"
           rec  == [store.sets[k] EXCEPT !.res = res]
           base == [store EXCEPT !.sets[k].res = res]
           now  == {h \in Mine(k) : store.log[h] # "failed"}
           left == Taken(base, k, now, "failed", Mine(k))
           written == {SetLog(base, hs, "failed") : hs \in SUBSET now}
                         \cup (IF base = store THEN {disk} ELSE {})
<1>1. /\ store \in Store /\ disk \in Store /\ store.sets \in [Key -> SetRecord]
      /\ store.sets[k] \in SetRecord /\ Mine(k) \in SUBSET Htlc /\ now \in SUBSET Htlc
  <2>1. store \in Store /\ disk \in Store /\ store.sets \in [Key -> SetRecord] /\ store.sets[k] \in SetRecord
    BY DEF TypeOK, Store
  <2> QED
    BY <2>1, SetRecordChanged DEF Mine
<1>2. /\ base \in Store /\ base.log = store.log /\ base.unf = store.unf
      /\ \A j \in Key \ {k} : base.sets[j] = store.sets[j]
      /\ base.sets[k].res \in {"failed", "expired"} /\ base.sets[k] # NoSet
      /\ base.sets[k].htlcs = store.sets[k].htlcs /\ base.sets[k].parent = store.sets[k].parent
  <2>1. /\ rec \in SetRecord /\ rec # NoSet /\ rec.res = res
        /\ rec.htlcs = store.sets[k].htlcs /\ rec.parent = store.sets[k].parent
    BY <1>1, SetRecordChanged DEF Resolutions, SetRecord, NoSet
  <2>2. base = [store EXCEPT !.sets = [store.sets EXCEPT ![k] = rec]]
    BY <1>1 DEF Store
  <2> HIDE DEF rec, base
  <2> QED
    BY <1>1, <2>1, <2>2 DEF Store
<1>3. /\ left \in Store /\ left.unf = store.unf
      /\ \A h \in Htlc : left.log[h] = IF h \in now THEN "failed" ELSE store.log[h]
      /\ \A j \in Key \ {k} : left.sets[j] = store.sets[j]
      /\ left.sets[k].res \in {"failed", "expired"}
      /\ left.sets[k].htlcs = store.sets[k].htlcs \ Mine(k)
      /\ left.sets[k].parent = store.sets[k].parent
  <2> HIDE DEF base, now
  <2>1. "failed" \in {"fulfilled", "failed"}
    OBVIOUS
  <2>2. IsLeft(left, base, k, now, "failed", Mine(k))
    BY <1>1, <1>2, <2>1, TakenTyped
  <2> HIDE DEF left
  <2> QED
    BY <1>2, <2>2 DEF IsLeft
<1>4. store' = Cleaned(left, k) /\ File(written)
  BY DEF SetFails, Taken
<1>5. /\ store' \in Store /\ store'.unf = left.unf /\ store'.log = left.log
      /\ \A j \in Key \ {k} : store'.sets[j] = left.sets[j]
      /\ store'.sets[k] = IF left.sets[k].htlcs = {} THEN NoSet ELSE left.sets[k]
  <2> HIDE DEF left
  <2>1. left.sets \in [Key -> SetRecord]
    BY <1>3 DEF Store
  <2>2. store' \in Store
    BY <1>3, <1>4, CleanedTyped
  <2>3. CASE left.sets[k].htlcs # {}
    BY <1>4, <2>2, <2>3 DEF Cleaned
  <2>4. CASE left.sets[k].htlcs = {}
    BY <1>3, <1>4, <2>1, <2>2, <2>4 DEF Cleaned, Store
  <2> QED
    BY <2>3, <2>4
<1>6. disk' \in Store
  <2>1. \A hs \in SUBSET now : SetLog(base, hs, "failed") \in Store
    BY <1>1, <1>2, StoreChanged
  <2>2. written \in SUBSET Store
    BY <1>1, <2>1
  <2> QED
    BY <1>4, <1>5, <2>2, FileTyped
<1>7. \A h \in Htlc : store'.log[h] = IF h \in Mine(k) THEN "failed" ELSE store.log[h]
  <2>1. /\ \A h \in now : h \in Mine(k)
        /\ \A h \in Htlc : h \in Mine(k) /\ h \notin now => store.log[h] = "failed"
    OBVIOUS
  <2> HIDE DEF left, now
  <2> QED
    BY <1>1, <1>3, <1>5, <2>1
<1> QED
  <2> HIDE DEF left
  <2> QED
    BY <1>3, <1>5, <1>6, <1>7 DEF IsTaken

LEMMA SettlesEffect ==
    ASSUME TypeOK, NEW k \in Key, SetSettles(k)
    PROVE  /\ disk' \in Store
           /\ IsTaken(k, "fulfilled", {"settling"})
<1> DEFINE rec  == [store.sets[k] EXCEPT !.res = "settling"]
           base == Settling(k)
           now  == {h \in Mine(k) : store.log[h] # "fulfilled"}
           left == Taken(base, k, now, "fulfilled", Mine(k))
           written == {SetLog(base, hs, "fulfilled") : hs \in SUBSET now}
                         \cup (IF base = store THEN {disk} ELSE {})
<1>1. /\ store \in Store /\ disk \in Store /\ store.sets \in [Key -> SetRecord]
      /\ store.sets[k] \in SetRecord /\ Mine(k) \in SUBSET Htlc /\ now \in SUBSET Htlc
  <2>1. store \in Store /\ disk \in Store /\ store.sets \in [Key -> SetRecord] /\ store.sets[k] \in SetRecord
    BY DEF TypeOK, Store
  <2> QED
    BY <2>1, SetRecordChanged DEF Mine
<1>2. /\ base \in Store /\ base.log = store.log /\ base.unf = store.unf
      /\ \A j \in Key \ {k} : base.sets[j] = store.sets[j]
      /\ base.sets[k].res \in {"settling"} /\ base.sets[k] # NoSet
      /\ base.sets[k].htlcs = store.sets[k].htlcs /\ base.sets[k].parent = store.sets[k].parent
  <2>1. /\ rec \in SetRecord /\ rec # NoSet /\ rec.res = "settling"
        /\ rec.htlcs = store.sets[k].htlcs /\ rec.parent = store.sets[k].parent
    BY <1>1, SetRecordChanged DEF Resolutions, SetRecord, NoSet
  <2>2. /\ base \in Store /\ base.log = store.log /\ base.unf = store.unf
        /\ base.sets = [store.sets EXCEPT ![k] = rec]
    <3>1. base \in Store
      BY SettlingTyped
    <3> QED
      BY <1>1, <3>1 DEF Settling, Store
  <2> HIDE DEF rec, base
  <2> QED
    BY <1>1, <2>1, <2>2
<1>3. /\ left \in Store /\ left.unf = store.unf
      /\ \A h \in Htlc : left.log[h] = IF h \in now THEN "fulfilled" ELSE store.log[h]
      /\ \A j \in Key \ {k} : left.sets[j] = store.sets[j]
      /\ left.sets[k].res \in {"settling"}
      /\ left.sets[k].htlcs = store.sets[k].htlcs \ Mine(k)
      /\ left.sets[k].parent = store.sets[k].parent
  <2> HIDE DEF base, now
  <2>1. "fulfilled" \in {"fulfilled", "failed"}
    OBVIOUS
  <2>2. IsLeft(left, base, k, now, "fulfilled", Mine(k))
    BY <1>1, <1>2, <2>1, TakenTyped
  <2> HIDE DEF left
  <2> QED
    BY <1>2, <2>2 DEF IsLeft
<1>4. store' = Cleaned(left, k) /\ File(written)
  BY DEF SetSettles, Taken
<1>5. /\ store' \in Store /\ store'.unf = left.unf /\ store'.log = left.log
      /\ \A j \in Key \ {k} : store'.sets[j] = left.sets[j]
      /\ store'.sets[k] = IF left.sets[k].htlcs = {} THEN NoSet ELSE left.sets[k]
  <2> HIDE DEF left
  <2>1. left.sets \in [Key -> SetRecord]
    BY <1>3 DEF Store
  <2>2. store' \in Store
    BY <1>3, <1>4, CleanedTyped
  <2>3. CASE left.sets[k].htlcs # {}
    BY <1>4, <2>2, <2>3 DEF Cleaned
  <2>4. CASE left.sets[k].htlcs = {}
    BY <1>3, <1>4, <2>1, <2>2, <2>4 DEF Cleaned, Store
  <2> QED
    BY <2>3, <2>4
<1>6. disk' \in Store
  <2>1. \A hs \in SUBSET now : SetLog(base, hs, "fulfilled") \in Store
    BY <1>1, <1>2, StoreChanged
  <2>2. written \in SUBSET Store
    BY <1>1, <2>1
  <2> QED
    BY <1>4, <1>5, <2>2, FileTyped
<1>7. \A h \in Htlc : store'.log[h] = IF h \in Mine(k) THEN "fulfilled" ELSE store.log[h]
  <2>1. /\ \A h \in now : h \in Mine(k)
        /\ \A h \in Htlc : h \in Mine(k) /\ h \notin now => store.log[h] = "fulfilled"
    OBVIOUS
  <2> HIDE DEF left, now
  <2> QED
    BY <1>1, <1>3, <1>5, <2>1
<1> QED
  <2> HIDE DEF left
  <2> QED
    BY <1>3, <1>5, <1>6, <1>7 DEF IsTaken

(* The second loop *)
LEMMA SetTyped ==
    ASSUME TypeOK, CopiesAreCurrent, NEW k \in Key, SetNext(k)
    PROVE  TypeOK'
<1>1. /\ store \in Store /\ disk \in Store /\ job \in Job /\ job.snap[k].htlcs \subseteq Htlc
      /\ store.sets \in [Key -> SetRecord] /\ store.sets[k] \in SetRecord
      /\ store.sets[k].htlcs \subseteq Htlc /\ Mine(k) \subseteq Htlc
  <2>1. /\ store \in Store /\ disk \in Store /\ job \in Job /\ job.snap[k] \in SetRecord
        /\ store.sets \in [Key -> SetRecord] /\ store.sets[k] \in SetRecord
    BY DEF TypeOK, Store, Job
  <2> QED
    BY <2>1, SetRecordChanged DEF Mine
<1>2. CASE SetWaits(k)
  <2>1. store' \in Store
    BY <1>2, MarkedTyped, CleanedTyped DEF SetWaits
  <2>2. disk' \in Store
    BY <1>1, <1>2, <2>1, FileTyped DEF SetWaits
  <2> QED
    BY <1>2, <2>1, <2>2, DoneWithTyped DEF SetWaits, TypeOK, Job
<1>3. CASE SetMoves(k)
  <2> DEFINE up  == sc.parent[k]
             old == IF store.sets[up] = NoSet THEN NewSet ELSE store.sets[up]
             new == [old EXCEPT !.htlcs = old.htlcs \cup job.snap[k].htlcs]
             moved == [store EXCEPT !.sets[up] = new, !.sets[k].htlcs = {}]
  <2>1. store' = Cleaned(moved, k)
    BY <1>3 DEF SetMoves
  <2>2. up \in Key => old \in SetRecord /\ old # NoSet
    <3>1. up \in Key => store.sets[up] \in SetRecord
      BY <1>1
    <3>2. NewSet # NoSet
      BY DEF NewSet, NoSet
    <3> QED
      BY <3>1, <3>2, NoSetTyped
  <2>3. up \in Key => new \in SetRecord
    <3>1. up \in Key => old.htlcs \cup job.snap[k].htlcs \in SUBSET Htlc
      BY <1>1, <2>2, SetRecordChanged
    <3> QED
      BY <2>2, <3>1, SetRecordChanged
  <2>4. [store.sets EXCEPT ![up] = new] \in [Key -> SetRecord]
    BY <1>1, <2>3
  <2>5. [[store.sets EXCEPT ![up] = new][k] EXCEPT !.htlcs = {}] \in SetRecord
    BY <2>4, SetRecordChanged
  <2>6. moved \in Store
    BY <1>1, <2>4, <2>5 DEF Store
  <2>7. store' \in Store
    BY <2>1, <2>6, CleanedTyped
  <2>8. disk' \in Store
    BY <1>1, <1>3, <2>7, FileTyped DEF SetMoves
  <2> QED
    BY <1>3, <2>7, <2>8, DoneWithTyped DEF SetMoves, TypeOK, Job
<1>4. CASE SetFails(k)
  <2>1. store' \in Store /\ disk' \in Store
    BY <1>4, FailsEffect DEF IsTaken
  <2>2. doomed' \subseteq Htlc
    BY <1>1, <1>4 DEF SetFails, TypeOK
  <2> QED
    BY <1>4, <2>1, <2>2, DoneWithTyped DEF SetFails, TypeOK, Job
<1>5. CASE SetCalls(k)
  <2>1. [store.sets[k] EXCEPT !.res = "settling"] \in SetRecord
    BY <1>1, SetRecordChanged DEF Resolutions
  <2>2. store' \in Store
    BY <1>1, <1>5, <2>1 DEF SetCalls, Store
  <2>3. disk' \in Store
    BY <1>5, <2>2, FileTyped DEF SetCalls
  <2> QED
    BY <1>5, <2>2, <2>3, DoneWithTyped DEF SetCalls, TypeOK, Job
<1>6. CASE SetSettles(k)
  <2>1. store' \in Store /\ disk' \in Store
    BY <1>6, SettlesEffect DEF IsTaken
  <2>2. revealed' \subseteq Htlc
    BY <1>1, <1>6 DEF SetSettles, TypeOK
  <2> QED
    BY <1>6, <2>1, <2>2, DoneWithTyped DEF SetSettles, TypeOK, Job
<1>7. CASE SettleRaises(k)
  <2>1. PICK hs \in SUBSET {h \in Mine(k) : store.log[h] = "added"} :
            store' = SetLog(Settling(k), hs, "fulfilled") /\ revealed' = revealed \cup hs
    BY <1>7 DEF SettleRaises
  <2>2. store' \in Store
    BY <1>1, <2>1, SettlingTyped, StoreChanged
  <2>3. disk' \in Store
    BY <1>7, <2>2, FileTyped DEF SettleRaises
  <2>4. job' \in Job /\ conn' \in [Peer -> {"down", "up", "ready"}]
    BY <1>7, NoSetTyped DEF SettleRaises, Abort, NoJob, Job, TypeOK
  <2>5. revealed' \subseteq Htlc
    BY <1>1, <2>1 DEF TypeOK
  <2> QED
    BY <1>7, <2>2, <2>3, <2>4, <2>5 DEF SettleRaises, TypeOK, Job
<1> QED
  BY <1>2, <1>3, <1>4, <1>5, <1>6, <1>7 DEF SetNext

LEMMA OfferTyped ==
    ASSUME TypeOK, NEW k \in Key, NEW s \in Store, Offer(k, s)
    PROVE  store' \in Store /\ disk' \in Store
<1> DEFINE d == CHOOSE d \in Unused(k) : TRUE
           sent == [s EXCEPT !.down[k][d] = "offered"]
<1>1. d \in Attempt
  BY DEF Unused, Offer
<1>2. sent \in Store
  BY <1>1 DEF Store
<1>3. store' \in Store
  <2>1. store' = [sent EXCEPT !.active[k] = @ \cup {d}]
    BY DEF Offer
  <2> HIDE DEF d, sent
  <2> QED
    BY <1>1, <1>2, <2>1 DEF Store
<1>4. disk \in Store
  BY DEF TypeOK
<1> QED
  BY <1>2, <1>3, <1>4, FileTyped DEF Offer

(* Forwarding *)
LEMMA ForwardTyped ==
    ASSUME TypeOK, NEW k \in Key, ForwardNext(k)
    PROVE  TypeOK'
<1>1. store \in Store /\ disk \in Store
  BY DEF TypeOK
<1>2. CASE RunForward(k)
  <2> DEFINE entered == [store EXCEPT !.active[k] = {}]
  <2>1. entered \in Store /\ [entered EXCEPT !.failure[k] = "reason"] \in Store
    BY <1>1 DEF Store
  <2>2. store' \in Store /\ disk' \in Store
    BY <1>1, <1>2, <2>1, OfferTyped, FileTyped DEF RunForward
  <2> QED
    BY <1>2, <2>2 DEF RunForward, TypeOK
<1>3. CASE SessionSends(k)
  BY <1>1, <1>3, OfferTyped DEF SessionSends, TypeOK
<1>4. CASE SessionFails(k)
  <2>1. store' \in Store
    BY <1>1, <1>4 DEF SessionFails, Store
  <2>2. disk' \in Store
    BY <1>1, <1>4, <2>1, FileTyped DEF SessionFails
  <2> QED
    BY <1>4, <2>1, <2>2 DEF SessionFails, TypeOK
<1>5. ASSUME NEW d \in Attempt, DownstreamFulfills(k, d)
      PROVE  TypeOK'
  <2>1. store' \in Store
    BY <1>1, <1>5 DEF DownstreamFulfills, Store
  <2>2. disk' \in Store
    BY <1>5, <2>1, FileTyped DEF DownstreamFulfills
  <2> QED
    BY <1>5, <2>1, <2>2 DEF DownstreamFulfills, TypeOK
<1>6. ASSUME NEW d \in Attempt, DownstreamFulfilled(k, d)
      PROVE  TypeOK'
  <2>1. store' \in Store
    BY <1>1, <1>6 DEF DownstreamFulfilled, Store
  <2>2. disk' \in Store
    BY <1>1, <1>6, <2>1, FileTyped DEF DownstreamFulfilled
  <2> QED
    BY <1>6, <2>1, <2>2 DEF DownstreamFulfilled, TypeOK
<1>7. ASSUME NEW d \in Attempt, DownstreamFails(k, d)
      PROVE  TypeOK'
  <2>1. store' \in Store
    BY <1>1, <1>7 DEF DownstreamFails, Store
  <2>2. disk' \in Store
    BY <1>1, <1>7, <2>1, FileTyped DEF DownstreamFails
  <2> QED
    BY <1>7, <2>1, <2>2 DEF DownstreamFails, TypeOK
<1>8. ASSUME NEW d \in Attempt, DownstreamFailed(k, d)
      PROVE  TypeOK'
  <2>1. store' \in Store
    BY <1>1, <1>8 DEF DownstreamFailed, Store
  <2>2. disk' \in Store
    BY <1>1, <1>8, <2>1, FileTyped DEF DownstreamFailed
  <2> QED
    BY <1>8, <2>1, <2>2 DEF DownstreamFailed, TypeOK
<1>9. CASE ForwardRaises(k)
  <2>1. store' \in Store
    BY <1>1, <1>9 DEF ForwardRaises, Store
  <2>2. disk' \in Store
    BY <1>1, <1>9, <2>1, FileTyped DEF ForwardRaises
  <2> QED
    BY <1>9, <2>1, <2>2 DEF ForwardRaises, TypeOK
<1> QED
  BY <1>2, <1>3, <1>4, <1>5, <1>6, <1>7, <1>8, <1>9 DEF ForwardNext

(* Hold invoices and swaps *)
LEMMA HoldTyped ==
    ASSUME TypeOK, NEW k \in Key, HoldNext(k)
    PROVE  TypeOK'
<1>1. /\ store \in Store /\ disk \in Store
      /\ store.sets[k] \in SetRecord /\ store.sets[k].htlcs \subseteq Htlc
  <2>1. store \in Store /\ disk \in Store /\ store.sets[k] \in SetRecord
    BY DEF TypeOK, Store
  <2> QED
    BY <2>1, SetRecordChanged
<1>2. CASE RunHold(k)
  BY <1>2 DEF RunHold, TypeOK
<1>3. CASE Fund(k)
  <2>1. [env.funding EXCEPT ![k] = "unspent"] \in [Key -> {"none", "unspent", "claimed", "refunded"}]
    BY DEF TypeOK
  <2>2. env.late \in SUBSET Key /\ env.late \cup {k} \in SUBSET Key
    BY DEF TypeOK
  <2>3. env' = [env EXCEPT !.funding = [env.funding EXCEPT ![k] = "unspent"], !.late = env'.late]
        /\ env'.late \in {env.late, env.late \cup {k}}
    BY <1>3 DEF Fund, TypeOK
  <2> QED
    BY <1>3, <2>1, <2>2, <2>3 DEF Fund, TypeOK
<1>4. CASE Spend(k)
  BY <1>4 DEF Spend, TypeOK
<1>5. CASE Reveal(k)
  <2>1. store' \in Store
    BY <1>1, <1>5 DEF Reveal, Store
  <2>2. disk' \in Store
    BY <1>5, <2>1, FileTyped DEF Reveal
  <2> QED
    BY <1>5, <2>1, <2>2 DEF Reveal, TypeOK
<1>6. CASE FailSwap(k)
  <2> DEFINE base == IF store.sets[k] # NoSet THEN [store EXCEPT !.sets[k].res = "failed"]
                                              ELSE store
  <2>1. base \in Store
    <3>1. store.sets \in [Key -> SetRecord]
      BY <1>1 DEF Store
    <3>2. [store.sets[k] EXCEPT !.res = "failed"] \in SetRecord
      BY <3>1, SetRecordChanged DEF Resolutions
    <3>3. [store.sets EXCEPT ![k].res = "failed"] \in [Key -> SetRecord]
      BY <3>1, <3>2
    <3>4. PICK f \in [Key -> SetRecord] : f = [store.sets EXCEPT ![k].res = "failed"]
      BY <3>3
    <3>5. PICK failed : failed = [store EXCEPT !.sets = f]
      OBVIOUS
    <3>6. failed \in Store
      BY <1>1, <3>4, <3>5 DEF Store
    <3>7. base = store \/ base = failed
      BY <1>1, <3>4, <3>5 DEF Store
    <3> HIDE DEF base
    <3> QED
      BY <1>1, <3>6, <3>7
  <2>2. store' \in Store
    <3>1. PICK b \in Store : b = base
      BY <2>1
    <3> HIDE DEF base
    <3>2. \E p, r : store' = [b EXCEPT !.info = @ \ p, !.swaps = @ \ r]
      <4>1. CASE ~ IsFunded(k) /\ k \notin mem.batch
        BY <1>6, <3>1, <4>1 DEF FailSwap, base
      <4>2. CASE ~ (~ IsFunded(k) /\ k \notin mem.batch)
        <5>1. b.swaps = b.swaps \ {}
          OBVIOUS
        <5> QED
          BY <1>6, <3>1, <4>2, <5>1 DEF FailSwap, base
      <4> QED
        BY <4>1, <4>2
    <3>3. PICK p, r : store' = [b EXCEPT !.info = @ \ p, !.swaps = @ \ r]
      BY <3>2
    <3>4. b.info \ p \in SUBSET Key /\ b.swaps \ r \in SUBSET Key
      BY <3>1 DEF Store
    <3>5. PICK i \in SUBSET Key, w \in SUBSET Key : i = b.info \ p /\ w = b.swaps \ r
      BY <3>4
    <3>6. store' = [b EXCEPT !.info = i, !.swaps = w]
      BY <3>3, <3>5
    <3> QED
      BY <3>1, <3>6 DEF Store
  <2>3. disk' \in Store
    BY <1>1, <1>6, <2>1, <2>2, FileTyped DEF FailSwap
  <2> QED
    BY <1>1, <1>6, <2>2, <2>3 DEF FailSwap, TypeOK
<1>7. CASE CancelHold(k)
  <2>1. store' \in Store
    BY <1>1, <1>7 DEF CancelHold, Store
  <2>2. disk' \in Store
    BY <1>1, <1>7, <2>1, FileTyped DEF CancelHold
  <2> QED
    BY <1>7, <2>1, <2>2 DEF CancelHold, TypeOK
<1> QED
  BY <1>2, <1>3, <1>4, <1>5, <1>6, <1>7 DEF HoldNext

(* What happens around the switch *)
LEMMA OutsideTyped ==
    ASSUME TypeOK,
           \/ \E p \in Peer : StartIteration(p) \/ Disconnect(p) \/ Connect(p)
           \/ \E h \in Htlc : Arrive(h)
           \/ SaveDb \/ Elapse \/ Expire \/ Blocks \/ LocktimePasses \/ TipChanges \/ Crash
    PROVE  TypeOK'
<1>1. store \in Store /\ disk \in Store
  BY DEF TypeOK
<1>2. ASSUME NEW p \in Peer, StartIteration(p)
      PROVE  TypeOK'
  <2>1. {h \in store.unf : sc.peer[h] = p /\ CanUpdate(p)} \in SUBSET Htlc
    BY <1>1 DEF Store
  <2>2. job' \in Job
    BY <1>1, <1>2, <2>1, FirstStepTyped DEF StartIteration
  <2> QED
    BY <1>2, <2>2 DEF StartIteration, TypeOK, Job
<1>3. ASSUME NEW p \in Peer, Disconnect(p)
      PROVE  TypeOK'
  BY <1>3, BoundsAreNat DEF Disconnect, Fails, CanFail, TypeOK
<1>4. ASSUME NEW p \in Peer, Connect(p)
      PROVE  TypeOK'
  BY <1>4 DEF Connect, TypeOK
<1>5. ASSUME NEW h \in Htlc, Arrive(h)
      PROVE  TypeOK'
  <2>1. store' \in Store
    BY <1>1, <1>5 DEF Arrive, Store
  <2>2. disk' \in Store
    BY <1>5, <2>1, FileTyped DEF Arrive
  <2> QED
    BY <1>5, <2>1, <2>2 DEF Arrive, TypeOK
<1>6. CASE SaveDb
  BY <1>6 DEF SaveDb, TypeOK
<1>7. CASE Elapse
  BY <1>7 DEF Elapse, Pending, TypeOK
<1>8. CASE Expire
  BY <1>8 DEF Expire, TypeOK
<1>9. CASE Blocks
  BY <1>9, BoundsAreNat DEF Blocks, Pending, Fails, CanFail, TypeOK
<1>10. CASE LocktimePasses
  BY <1>10 DEF LocktimePasses, TypeOK
<1>11. CASE TipChanges
  <2>1. used' \in [crashes : 0 .. MaxCrashes, faults : 0 .. MaxFaults]
    BY <1>11, BoundsAreNat DEF TipChanges, Fails, CanFail, TypeOK
  <2>2. \E b \in BOOLEAN : env' = [env EXCEPT !.stale = b]
    BY <1>11 DEF TipChanges
  <2> QED
    BY <1>11, <2>1, <2>2 DEF TipChanges, TypeOK
<1>12. CASE Crash
  <2>1. disk.swaps \ disk.pre \subseteq Key
    BY <1>1 DEF Store
  <2>2. used' \in [crashes : 0 .. MaxCrashes, faults : 0 .. MaxFaults]
    BY <1>12, BoundsAreNat DEF Crash, CanCrash, CanFail, TypeOK
  <2>3. job' \in Job
    BY <1>12, NoSetTyped DEF Crash, NoJob, Job
  <2> QED
    BY <1>1, <1>12, <2>1, <2>2, <2>3 DEF Crash, TypeOK, Job
<1> QED
  BY <1>2, <1>3, <1>4, <1>5, <1>6, <1>7, <1>8, <1>9, <1>10, <1>11, <1>12

-----------------------------------------------------------------------------
(*                     What the steps leave of the sets                     *)

(* Nothing that the second half of Inv speaks of changes. *)
SetsAreLeft ==
    /\ store'.log = store.log /\ store'.unf = store.unf /\ store'.sets = store.sets
    /\ UNCHANGED <<sc, job, doomed, revealed>>

LEMMA OfferLeaves ==
    ASSUME NEW k \in Key, NEW s \in Store, Offer(k, s)
    PROVE  store'.log = s.log /\ store'.unf = s.unf /\ store'.sets = s.sets
BY DEF Offer, Store

LEMMA ForwardLeaves ==
    ASSUME TypeOK, NEW k \in Key, ForwardNext(k)
    PROVE  SetsAreLeft /\ Idle /\ used' = used
<1>1. store \in Store /\ [store EXCEPT !.active[k] = {}] \in Store
  BY DEF TypeOK, Store
<1>2. CASE RunForward(k)
  <2>1. \/ store' = [store EXCEPT !.active[k] = {}]
        \/ store' = [[store EXCEPT !.active[k] = {}] EXCEPT !.failure[k] = "reason"]
        \/ Offer(k, [store EXCEPT !.active[k] = {}])
    BY <1>2 DEF RunForward
  <2>2. store'.log = store.log /\ store'.unf = store.unf /\ store'.sets = store.sets
    <3> DEFINE entered == [store EXCEPT !.active[k] = {}]
    <3>1. entered.log = store.log /\ entered.unf = store.unf /\ entered.sets = store.sets
      BY <1>1 DEF Store
    <3>2. CASE store' = entered
      BY <3>1, <3>2
    <3>3. CASE store' = [entered EXCEPT !.failure[k] = "reason"]
      <4> HIDE DEF entered
      <4>1. store'.log = entered.log /\ store'.unf = entered.unf /\ store'.sets = entered.sets
        BY <1>1, <3>3 DEF Store, entered
      <4> QED
        BY <3>1, <4>1
    <3>4. CASE Offer(k, entered)
      <4> HIDE DEF entered
      <4>1. entered \in Store
        BY <1>1 DEF entered
      <4> QED
        BY <3>1, <3>4, <4>1, OfferLeaves
    <3> QED
      BY <2>1, <3>2, <3>3, <3>4
  <2> QED
    BY <1>2, <2>2 DEF RunForward, SetsAreLeft
<1>3. CASE SessionSends(k)
  BY <1>1, <1>3, OfferLeaves DEF SessionSends, SetsAreLeft
<1>4. CASE SessionFails(k)
  BY <1>1, <1>4 DEF SessionFails, SetsAreLeft, Store
<1>5. ASSUME NEW d \in Attempt,
             \/ DownstreamFulfills(k, d) \/ DownstreamFulfilled(k, d)
             \/ DownstreamFails(k, d) \/ DownstreamFailed(k, d)
      PROVE  SetsAreLeft /\ Idle /\ used' = used
  <2>1. CASE DownstreamFulfills(k, d)
    BY <1>1, <2>1 DEF DownstreamFulfills, SetsAreLeft, Store
  <2>2. CASE DownstreamFulfilled(k, d)
    BY <1>1, <2>2 DEF DownstreamFulfilled, SetsAreLeft, Store
  <2>3. CASE DownstreamFails(k, d)
    BY <1>1, <2>3 DEF DownstreamFails, SetsAreLeft, Store
  <2>4. CASE DownstreamFailed(k, d)
    BY <1>1, <2>4 DEF DownstreamFailed, SetsAreLeft, Store
  <2> QED
    BY <1>5, <2>1, <2>2, <2>3, <2>4
<1>6. CASE ForwardRaises(k)
  BY <1>1, <1>6 DEF ForwardRaises, SetsAreLeft, Store
<1> QED
  BY <1>2, <1>3, <1>4, <1>5, <1>6 DEF ForwardNext, RunForward, SessionSends, SessionFails, ForwardRaises

LEMMA HoldLeaves ==
    ASSUME TypeOK, NEW k \in Key, HoldNext(k), ~ FailSwap(k)
    PROVE  SetsAreLeft /\ Idle /\ used' = used
<1>1. store \in Store
  BY DEF TypeOK
<1> QED
  BY <1>1 DEF HoldNext, RunHold, Fund, Spend, Reveal, CancelHold, SetsAreLeft, Store

LEMMA OutsideLeaves ==
    ASSUME TypeOK,
           \/ \E p \in Peer : Disconnect(p) \/ Connect(p)
           \/ SaveDb \/ Elapse \/ Expire \/ Blocks \/ LocktimePasses \/ TipChanges
    PROVE  SetsAreLeft /\ Idle /\ used'.crashes = used.crashes
BY DEF Disconnect, Connect, SaveDb, Elapse, Expire, Blocks, LocktimePasses, TipChanges, Fails,
       SetsAreLeft, TypeOK

(* A step of the second loop, but for a part that moves, changes one set. *)
LEMMA OneSetChanges ==
    ASSUME TypeOK, CopiesAreCurrent, NEW k \in Key, SetNext(k)
    PROVE  /\ job' = NoJob \/ job' = [job EXCEPT !.todo = @ \ {k}]
           /\ sc' = sc /\ used' = used /\ store'.unf = store.unf
           /\ SetMoves(k) \/ \A j \in Key \ {k} : store'.sets[j] = store.sets[j]
<1>1. store \in Store /\ store.sets \in [Key -> SetRecord]
  BY DEF TypeOK, Store
<1>2. \A s \in Store : /\ Cleaned(s, k).unf = s.unf
                        /\ \A j \in Key \ {k} : Cleaned(s, k).sets[j] = s.sets[j]
  BY DEF Cleaned, Store
<1>3. CASE SetWaits(k)
  <2>1. Marked(k, job.snap[k]) \in Store
    BY <1>3, MarkedTyped DEF SetWaits
  <2>2. /\ Marked(k, job.snap[k]).unf = store.unf
        /\ \A j \in Key \ {k} : Marked(k, job.snap[k]).sets[j] = store.sets[j]
    BY <1>1 DEF Marked, Store
  <2> QED
    BY <1>2, <1>3, <2>1, <2>2 DEF SetWaits, DoneWith
<1>4. CASE SetMoves(k)
  <2> DEFINE up  == sc.parent[k]
             old == IF store.sets[up] = NoSet THEN NewSet ELSE store.sets[up]
             moved == [store EXCEPT !.sets[up] = [old EXCEPT !.htlcs = old.htlcs \cup job.snap[k].htlcs],
                                    !.sets[k].htlcs = {}]
  <2>1. store' = Cleaned(moved, k)
    BY <1>4 DEF SetMoves
  <2>2. moved.unf = store.unf
    BY <1>1 DEF Store
  <2>3. store'.unf = moved.unf
    BY <1>1, <2>1 DEF Cleaned, Store
  <2> QED
    BY <1>4, <2>2, <2>3 DEF SetMoves, DoneWith
<1>5. CASE SetFails(k)
  <2>1. store'.unf = store.unf /\ \A j \in Key \ {k} : store'.sets[j] = store.sets[j]
    BY <1>5, FailsEffect DEF IsTaken
  <2> QED
    BY <1>5, <2>1 DEF SetFails, DoneWith
<1>6. CASE SetCalls(k)
  BY <1>1, <1>6 DEF SetCalls, DoneWith, Store
<1>7. CASE SetSettles(k)
  <2>1. store'.unf = store.unf /\ \A j \in Key \ {k} : store'.sets[j] = store.sets[j]
    BY <1>7, SettlesEffect DEF IsTaken
  <2> QED
    BY <1>7, <2>1 DEF SetSettles, DoneWith
<1>8. CASE SettleRaises(k)
  <2>1. PICK hs \in SUBSET Htlc : store' = SetLog(Settling(k), hs, "fulfilled")
    <3>1. store.sets[k] \in SetRecord
      BY <1>1
    <3> QED
      BY <1>8, <3>1, SetRecordChanged DEF SettleRaises, Mine
  <2>2. store'.unf = Settling(k).unf /\ store'.sets = Settling(k).sets
    BY <2>1, SettlingTyped DEF SetLog, Store
  <2>3. Settling(k).unf = store.unf
        /\ Settling(k).sets = [store.sets EXCEPT ![k].res = "settling"]
    BY <1>1 DEF Settling, Store
  <2> QED
    BY <1>1, <1>8, <2>2, <2>3 DEF SettleRaises, Abort
<1> QED
  BY <1>3, <1>4, <1>5, <1>6, <1>7, <1>8 DEF SetNext

-----------------------------------------------------------------------------
(*                       The copies of the second loop                      *)

LEMMA FirstStepCopies ==
    ASSUME NEW p \in Peer \cup {None}, NEW left \in SUBSET Htlc,
           store' \in Store, job' = FirstStep(p, left, store')
    PROVE  CopiesAreCurrent'
<1>1. /\ store'.sets \in [Key -> SetRecord]
      /\ job'.todo = {} \/ (/\ job'.todo = {k \in Key : store'.sets[k] # NoSet}
                           /\ job'.snap = store'.sets)
  BY DEF FirstStep, SecondStep, NoJob, Store
<1> QED
  BY <1>1 DEF CopiesAreCurrent

LEMMA NoJobCopies ==
    ASSUME job' = NoJob
    PROVE  CopiesAreCurrent'
BY DEF CopiesAreCurrent, NoJob

(* A part that moves: its own set is emptied, the parent's one grows. *)
LEMMA MovesEffect ==
    ASSUME TypeOK, NEW k \in Key, SetMoves(k), sc.parent[k] \in Key, sc.parent[k] # k
    PROVE  LET up == sc.parent[k] IN
           /\ store'.log = store.log /\ store'.unf = store.unf
           /\ store'.sets[k] = NoSet
           /\ store'.sets[up].htlcs = store.sets[up].htlcs \cup job.snap[k].htlcs
           /\ store'.sets[up].parent = store.sets[up].parent
           /\ store'.sets[up].res = IF store.sets[up] = NoSet THEN "waiting" ELSE store.sets[up].res
           /\ store'.down = store.down /\ store'.pre = store.pre /\ store'.failure[k] = "none"
           /\ \A j \in Key \ {k} : store'.failure[j] = store.failure[j]
           /\ \A j \in Key \ {k, up} : store'.sets[j] = store.sets[j]
<1> DEFINE up  == sc.parent[k]
           old == IF store.sets[up] = NoSet THEN NewSet ELSE store.sets[up]
           new == [old EXCEPT !.htlcs = old.htlcs \cup job.snap[k].htlcs]
           moved == [store EXCEPT !.sets[up] = new, !.sets[k].htlcs = {}]
<1>1. /\ store \in Store /\ store.sets \in [Key -> SetRecord]
      /\ store.sets[up] \in SetRecord /\ store.sets[k] \in SetRecord
  BY DEF TypeOK, Store
<1>2. /\ old.parent = store.sets[up].parent /\ old.htlcs = store.sets[up].htlcs
      /\ old.res = IF store.sets[up] = NoSet THEN "waiting" ELSE store.sets[up].res
      /\ old \in SetRecord
  BY <1>1, NoSetTyped DEF NoSet, NewSet
<1>3. /\ new.parent = old.parent /\ new.htlcs = old.htlcs \cup job.snap[k].htlcs
      /\ new.res = old.res
  BY <1>2 DEF SetRecord, NoSet
<1>4. store' = Cleaned(moved, k)
  BY DEF SetMoves
<1>5. /\ moved.log = store.log /\ moved.unf = store.unf
      /\ moved.down = store.down /\ moved.pre = store.pre /\ moved.failure = store.failure
      /\ moved.sets[k].htlcs = {}
      /\ moved.sets[up] = new /\ \A j \in Key \ {k, up} : moved.sets[j] = store.sets[j]
      /\ \E r : moved = [store EXCEPT !.sets = r] /\ r \in [Key -> {r[j] : j \in Key}]
  <2>1. moved = [store EXCEPT !.sets = [store.sets EXCEPT ![up] = new,
                                        ![k] = [store.sets[k] EXCEPT !.htlcs = {}]]]
    BY <1>1
  <2>2. [store.sets[k] EXCEPT !.htlcs = {}].htlcs = {}
    BY <1>1 DEF SetRecord, NoSet
  <2> DEFINE emptied == [store.sets[k] EXCEPT !.htlcs = {}]
             r == [store.sets EXCEPT ![up] = new, ![k] = emptied]
  <2>3. /\ r[k] = emptied /\ r[up] = new /\ \A j \in Key \ {k, up} : r[j] = store.sets[j]
        /\ DOMAIN r = Key /\ r \in [Key -> {r[j] : j \in Key}]
    <3> HIDE DEF emptied, new
    <3> QED
      BY <1>1
  <2>4. moved = [store EXCEPT !.sets = r]
    BY <2>1
  <2> HIDE DEF r, emptied, new, moved
  <2>5. /\ moved.log = store.log /\ moved.unf = store.unf /\ moved.sets = r
        /\ moved.down = store.down /\ moved.pre = store.pre /\ moved.failure = store.failure
    BY <1>1, <2>4 DEF Store
  <2> QED
    BY <2>2, <2>3, <2>4, <2>5 DEF emptied
<1>6. /\ store'.log = moved.log /\ store'.unf = moved.unf /\ store'.sets[k] = NoSet
      /\ store'.down = moved.down /\ store'.pre = moved.pre /\ store'.failure[k] = "none"
      /\ \A j \in Key \ {k} : store'.failure[j] = moved.failure[j]
      /\ \A j \in Key \ {k} : store'.sets[j] = moved.sets[j]
  <2> HIDE DEF moved, new
  <2>1. PICK r : moved = [store EXCEPT !.sets = r] /\ r \in [Key -> {r[j] : j \in Key}]
    BY <1>5
  <2>2. moved.sets = r
    BY <1>1, <2>1 DEF Store
  <2>3. store' = [moved EXCEPT !.sets[k] = NoSet, !.active[k] = {0}, !.failure[k] = "none"]
    BY <1>4, <1>5 DEF Cleaned
  <2>4. /\ store'.log = moved.log /\ store'.unf = moved.unf /\ store'.sets = [r EXCEPT ![k] = NoSet]
        /\ store'.down = moved.down /\ store'.pre = moved.pre
        /\ store'.failure = [moved.failure EXCEPT ![k] = "none"]
    BY <1>1, <2>1, <2>2, <2>3 DEF Store
  <2> QED
    BY <1>1, <1>5, <2>1, <2>2, <2>4 DEF Store
<1>7. store'.sets[up] = new
  BY <1>5, <1>6
<1>8. /\ store'.sets[up].htlcs = store.sets[up].htlcs \cup job.snap[k].htlcs
      /\ store'.sets[up].parent = store.sets[up].parent
      /\ store'.sets[up].res = IF store.sets[up] = NoSet THEN "waiting" ELSE store.sets[up].res
  <2> HIDE DEF new, old
  <2> QED
    BY <1>2, <1>3, <1>7
<1>9. /\ store'.log = store.log /\ store'.unf = store.unf
      /\ store'.down = store.down /\ store'.pre = store.pre /\ store'.failure[k] = "none"
      /\ \A j \in Key \ {k} : store'.failure[j] = store.failure[j]
      /\ \A j \in Key \ {k, up} : store'.sets[j] = store.sets[j]
  <2> HIDE DEF moved
  <2> QED
    BY <1>5, <1>6
<1> QED
  BY <1>6, <1>8, <1>9

LEMMA MovesNowhere ==
    ASSUME TypeOK, NEW k \in Key, SetMoves(k), sc.parent[k] \notin Key \/ sc.parent[k] = k
    PROVE  \A j \in Key \ {k} : store'.sets[j] = store.sets[j]
<1> DEFINE up  == sc.parent[k]
           old == IF store.sets[up] = NoSet THEN NewSet ELSE store.sets[up]
           new == [old EXCEPT !.htlcs = old.htlcs \cup job.snap[k].htlcs]
           moved == [store EXCEPT !.sets[up] = new, !.sets[k].htlcs = {}]
<1>1. store \in Store /\ store.sets \in [Key -> SetRecord]
  BY DEF TypeOK, Store
<1>2. store' = Cleaned(moved, k)
  BY DEF SetMoves
<1>3. \E x : moved = [store EXCEPT !.sets = [store.sets EXCEPT ![k] = x]]
  <2> DEFINE f == [store.sets EXCEPT ![up] = new]
             x == [f[k] EXCEPT !.htlcs = {}]
  <2>1. moved = [store EXCEPT !.sets = [f EXCEPT ![k] = x]]
    <3> HIDE DEF new
    <3> QED
      BY <1>1
  <2>2. [f EXCEPT ![k] = x] = [store.sets EXCEPT ![k] = x]
    <3> HIDE DEF new, x
    <3> QED
      BY <1>1
  <2> HIDE DEF f, x
  <2> QED
    BY <2>1, <2>2
<1>4. \E x : store'.sets = [store.sets EXCEPT ![k] = x]
  <2> HIDE DEF moved
  <2>1. PICK x : moved = [store EXCEPT !.sets = [store.sets EXCEPT ![k] = x]]
    BY <1>3
  <2>2. moved.sets = [store.sets EXCEPT ![k] = x]
    BY <1>1, <2>1 DEF Store
  <2>3. store'.sets = moved.sets \/ store'.sets = [moved.sets EXCEPT ![k] = NoSet]
    BY <1>1, <1>2, <2>1 DEF Cleaned, Store
  <2> QED
    BY <1>1, <2>2, <2>3
<1> QED
  BY <1>1, <1>4

LEMMA SetCopies ==
    ASSUME TypeOK, CopiesAreCurrent, NEW k \in Key, SetNext(k)
    PROVE  CopiesAreCurrent'
<1>1. CASE job' = NoJob
  BY <1>1, NoJobCopies
<1>2. CASE job' = [job EXCEPT !.todo = @ \ {k}]
  <2>1. job'.todo = job.todo \ {k} /\ job'.snap = job.snap /\ job.todo \subseteq Key
    BY <1>2 DEF TypeOK
  <2>2. ASSUME NEW j \in job.todo \ {k}
        PROVE  /\ store'.sets[j].res = store.sets[j].res
               /\ store'.sets[j].parent = store.sets[j].parent
               /\ store.sets[j].htlcs \subseteq store'.sets[j].htlcs
    <3>1. CASE SetMoves(k) /\ sc.parent[k] \in Key /\ sc.parent[k] # k
      <4>1. /\ store.sets[j] \in SetRecord /\ job.snap[j] \in SetRecord
            /\ job.snap[j] # NoSet /\ job.snap[j].res = store.sets[j].res
        BY <2>1 DEF TypeOK, Store, CopiesAreCurrent
      <4>2. store.sets[j] # NoSet
        BY <4>1, SetRecordChanged
      <4> QED
        BY <2>1, <3>1, <4>2, MovesEffect
    <3>2. CASE SetMoves(k) /\ (sc.parent[k] \notin Key \/ sc.parent[k] = k)
      BY <2>1, <3>2, MovesNowhere
    <3>3. CASE ~ SetMoves(k)
      BY <2>1, <3>3, OneSetChanges
    <3> QED
      BY <3>1, <3>2, <3>3
  <2> QED
    BY <2>1, <2>2 DEF CopiesAreCurrent
<1> QED
  BY <1>1, <1>2, OneSetChanges

LEMMA IdleCopies ==
    ASSUME Idle, job' = job
    PROVE  CopiesAreCurrent'
BY NoJobCopies DEF Idle

-----------------------------------------------------------------------------
(*                                  Types                                   *)

LEMMA InitTyped == Init => TypeOK /\ CopiesAreCurrent
<1> SUFFICES ASSUME Init
             PROVE  TypeOK /\ CopiesAreCurrent
  OBVIOUS
<1>1. IsScenario(sc)
  BY ScenariosAreScenarios DEF Init
<1>2. store \in Store
  BY <1>1 DEF Init, Store, IsScenario, SetRecord
<1>3. /\ job \in [peer : Peer \cup {None}, unf : SUBSET Htlc, todo : SUBSET Key,
                  snap : [Key -> SetRecord]]
      /\ job.todo = {}
  BY NoSetTyped DEF Init, NoJob
<1>4. /\ conn \in [Peer -> {"down", "up", "ready"}]
      /\ mem \in [tasks : SUBSET Key, callback : SUBSET Key, bundle : SUBSET Key,
                  session : SUBSET Key, batch : SUBSET Key, reasons : SUBSET (Key \X Attempt),
                  raised : SUBSET Key]
  BY <1>1 DEF Init, IsScenario
<1>5. /\ env \in [close : SUBSET Htlc, old : SUBSET Htlc, stale : BOOLEAN, expired : BOOLEAN,
                  locktime : BOOLEAN,
                  funding : [Key -> {"none", "unspent", "claimed", "refunded"}],
                  late : SUBSET Key]
      /\ used \in [crashes : 0 .. MaxCrashes, faults : 0 .. MaxFaults]
  BY BoundsAreNat DEF Init
<1> QED
  BY <1>1, <1>2, <1>3, <1>4, <1>5 DEF Init, TypeOK, CopiesAreCurrent

LEMMA NextTyped ==
    ASSUME TypeOK, CopiesAreCurrent, [Next]_vars
    PROVE  TypeOK' /\ CopiesAreCurrent'
<1>1. ASSUME NEW h \in Htlc, Collect(h) \/ Refuse(h) \/ RefuseRaises(h)
      PROVE  TypeOK' /\ CopiesAreCurrent'
  <2>1. TypeOK'
    BY <1>1, FirstLoopTyped
  <2>2. store' \in Store /\ job.peer \in Peer \cup {None} /\ job.unf \ {h} \in SUBSET Htlc
    BY <2>1 DEF TypeOK
  <2>3. job' = NoJob \/ job' = FirstStep(job.peer, job.unf \ {h}, store')
    BY <1>1 DEF Collect, Refuse, RefuseRaises, Abort
  <2> QED
    BY <2>1, <2>2, <2>3, FirstStepCopies, NoJobCopies
<1>2. ASSUME NEW k \in Key, SetNext(k)
      PROVE  TypeOK' /\ CopiesAreCurrent'
  BY <1>2, SetTyped, SetCopies
<1>3. ASSUME NEW k \in Key, ForwardNext(k)
      PROVE  TypeOK' /\ CopiesAreCurrent'
  BY <1>3, ForwardTyped, ForwardLeaves, IdleCopies DEF SetsAreLeft
<1>4. ASSUME NEW k \in Key, HoldNext(k)
      PROVE  TypeOK' /\ CopiesAreCurrent'
  <2>1. CASE FailSwap(k)
    BY <1>4, <2>1, HoldTyped, IdleCopies DEF FailSwap
  <2>2. CASE ~ FailSwap(k)
    BY <1>4, <2>2, HoldTyped, HoldLeaves, IdleCopies DEF SetsAreLeft
  <2> QED
    BY <2>1, <2>2
<1>5. ASSUME NEW p \in Peer, StartIteration(p)
      PROVE  TypeOK' /\ CopiesAreCurrent'
  <2>1. TypeOK'
    BY <1>5, OutsideTyped
  <2>2. {h \in store.unf : sc.peer[h] = p /\ CanUpdate(p)} \in SUBSET Htlc /\ store' \in Store
    BY <2>1 DEF TypeOK, Store
  <2>3. job' = FirstStep(p, {h \in store.unf : sc.peer[h] = p /\ CanUpdate(p)}, store')
    BY <1>5 DEF StartIteration
  <2> QED
    BY <2>1, <2>2, <2>3, FirstStepCopies
<1>6. ASSUME \/ \E p \in Peer : Disconnect(p) \/ Connect(p)
             \/ SaveDb \/ Elapse \/ Expire \/ Blocks \/ LocktimePasses \/ TipChanges
      PROVE  TypeOK' /\ CopiesAreCurrent'
  BY <1>6, OutsideTyped, OutsideLeaves, IdleCopies DEF SetsAreLeft
<1>7. ASSUME NEW h \in Htlc, Arrive(h)
      PROVE  TypeOK' /\ CopiesAreCurrent'
  BY <1>7, OutsideTyped, IdleCopies DEF Arrive
<1>8. CASE Crash
  BY <1>8, OutsideTyped, NoJobCopies DEF Crash
<1>9. CASE UNCHANGED vars
  BY <1>9 DEF vars, TypeOK, CopiesAreCurrent
<1> QED
  BY <1>1, <1>2, <1>3, <1>4, <1>5, <1>6, <1>7, <1>8, <1>9 DEF Next, JobNext, FirstStepNext

(* The types of the sets of received HTLCs, of what the wallet file keeps   *)
(* of them, and of a running iteration of htlc_switch, over restarts too.   *)
THEOREM SwitchTypes == Spec => []TypeOK
<1>1. Init => TypeOK /\ CopiesAreCurrent
  BY InitTyped
<1>2. (TypeOK /\ CopiesAreCurrent) /\ [Next]_vars => (TypeOK /\ CopiesAreCurrent)'
  BY NextTyped
<1> QED
  BY <1>1, <1>2, PTL DEF Spec

-----------------------------------------------------------------------------
(*                     A failed set never settles                          *)

Steady == EachInOnePlace /\ OnlyPartsAreTagged /\ DoomedAreLost /\ RevealedAreFulfilled

LEMMA LeftSteady ==
    ASSUME Steady, SetsAreLeft
    PROVE  Steady'
BY DEF Steady, SetsAreLeft, EachInOnePlace, OnlyPartsAreTagged, DoomedAreLost, RevealedAreFulfilled

(* _check_final_mpp_set_state looks at FAILED and EXPIRED sets first. *)
LEMMA VerdictFacts ==
    ASSUME NEW k
    PROVE  /\ Verdict(k) \in {"move", "call", "settle"} => job.snap[k].res \notin {"failed", "expired"}
           /\ Verdict(k) = "move" => job.snap[k].parent # None
<1> DEFINE final == FinalVerdict(k, job.snap[k])
<1>1. /\ final \in {"move", "go on", "settle"} => job.snap[k].res \notin {"failed", "expired"}
      /\ final = "move" => job.snap[k].parent # None
      /\ final # "call"
  BY DEF FinalVerdict
<1>2. OngoingVerdict(k, job.snap[k]) # "move"
  BY DEF OngoingVerdict
<1>3. Verdict(k) = IF final = "go on" THEN OngoingVerdict(k, job.snap[k]) ELSE final
  BY DEF Verdict
<1> HIDE DEF final
<1> QED
  BY <1>1, <1>2, <1>3

LEMMA WaitsEffect ==
    ASSUME TypeOK, CopiesAreCurrent, NEW k \in Key, SetWaits(k)
    PROVE  /\ store'.log = store.log /\ store'.unf = store.unf
           /\ \A j \in Key \ {k} : store'.sets[j] = store.sets[j]
           /\ store'.sets[k].htlcs = store.sets[k].htlcs
           /\ store'.sets[k].parent # None => store.sets[k].parent # None \/ sc.kind[k] = "part"
           /\ store.sets[k].res \in {"failed", "expired"} /\ store.sets[k].htlcs # {}
                 => store'.sets[k] = store.sets[k]
<1> DEFINE m == Marked(k, job.snap[k])
<1>1. /\ store \in Store /\ store.sets \in [Key -> SetRecord] /\ store.sets[k] \in SetRecord
      /\ job.snap[k].res = store.sets[k].res
  BY DEF TypeOK, Store, SetWaits, CopiesAreCurrent
<1>2. m \in Store
  BY MarkedTyped DEF SetWaits
<1>3. /\ m.log = store.log /\ m.unf = store.unf
      /\ \A j \in Key \ {k} : m.sets[j] = store.sets[j]
      /\ m.sets[k].htlcs = store.sets[k].htlcs
      /\ m.sets[k].parent # None => store.sets[k].parent # None \/ sc.kind[k] = "part"
      /\ store.sets[k].res \in {"failed", "expired"} => m.sets[k] = store.sets[k]
  <2>1. CASE m = store
    BY <2>1
  <2>2. CASE /\ m = [store EXCEPT !.sets[k].parent = sc.parent[k]]
             /\ sc.kind[k] = "part" /\ job.snap[k].res = "waiting"
    <3>1. [store.sets[k] EXCEPT !.parent = sc.parent[k]].htlcs = store.sets[k].htlcs
      BY <1>1 DEF SetRecord, NoSet
    <3> QED
      BY <1>1, <2>2, <3>1 DEF Store
  <2>3. CASE m = [store EXCEPT !.sets[k].res = "complete"] /\ job.snap[k].res = "waiting"
    <3>1. /\ [store.sets[k] EXCEPT !.res = "complete"].htlcs = store.sets[k].htlcs
          /\ [store.sets[k] EXCEPT !.res = "complete"].parent = store.sets[k].parent
      BY <1>1 DEF SetRecord, NoSet
    <3> QED
      BY <1>1, <2>3, <3>1 DEF Store
  <2> QED
    BY <2>1, <2>2, <2>3 DEF Marked
<1>4. store' = Cleaned(m, k)
  BY DEF SetWaits
<1> HIDE DEF m
<1>5. CASE m.sets[k].htlcs # {}
  BY <1>3, <1>4, <1>5 DEF Cleaned
<1>6. CASE m.sets[k].htlcs = {}
  <2>1. /\ store'.log = m.log /\ store'.unf = m.unf /\ store'.sets[k] = NoSet
        /\ \A j \in Key \ {k} : store'.sets[j] = m.sets[j]
    BY <1>2, <1>4, <1>6 DEF Cleaned, Store
  <2> QED
    BY <1>3, <1>6, <2>1 DEF NoSet
<1> QED
  BY <1>5, <1>6

LEMMA CallsEffect ==
    ASSUME TypeOK, NEW k \in Key, SetCalls(k)
    PROVE  /\ store'.log = store.log /\ store'.unf = store.unf
           /\ \A j \in Key \ {k} : store'.sets[j] = store.sets[j]
           /\ store'.sets[k].htlcs = store.sets[k].htlcs
           /\ store'.sets[k].parent = store.sets[k].parent
<1>1. store \in Store /\ store.sets \in [Key -> SetRecord] /\ store.sets[k] \in SetRecord
  BY DEF TypeOK, Store
<1>2. /\ [store.sets[k] EXCEPT !.res = "settling"].htlcs = store.sets[k].htlcs
      /\ [store.sets[k] EXCEPT !.res = "settling"].parent = store.sets[k].parent
  BY <1>1 DEF SetRecord, NoSet
<1> QED
  BY <1>1, <1>2 DEF SetCalls, Store

LEMMA CollectEffect ==
    ASSUME TypeOK, NEW h \in Htlc, Collect(h)
    PROVE  LET k == sc.key[h] IN
           /\ k \in Key /\ store'.log = store.log /\ store'.unf = store.unf \ {h}
           /\ \A j \in Key \ {k} : store'.sets[j] = store.sets[j]
           /\ store'.sets[k].htlcs = store.sets[k].htlcs \cup {h}
           /\ store'.sets[k].parent = store.sets[k].parent
           /\ store.sets[k] = NoSet \/ store.sets[k].res = "waiting"
<1> DEFINE k   == sc.key[h]
           old == IF store.sets[k] = NoSet THEN NewSet ELSE store.sets[k]
           new == [old EXCEPT !.htlcs = old.htlcs \cup {h}]
<1>1. k \in Key /\ store \in Store /\ store.sets \in [Key -> SetRecord] /\ store.sets[k] \in SetRecord
  BY ScenarioTyped DEF TypeOK, Store
<1>2. /\ store' = [store EXCEPT !.sets[k] = new, !.unf = @ \ {h}]
      /\ store.sets[k] = NoSet \/ store.sets[k].res = "waiting"
  BY DEF Collect
<1>3. /\ old.htlcs = store.sets[k].htlcs /\ old.parent = store.sets[k].parent /\ old \in SetRecord
  BY <1>1, NoSetTyped DEF NoSet, NewSet
<1>4. new.htlcs = store.sets[k].htlcs \cup {h} /\ new.parent = store.sets[k].parent
  BY <1>3 DEF SetRecord, NoSet
<1>5. /\ store'.log = store.log /\ store'.unf = store.unf \ {h}
      /\ store'.sets = [store.sets EXCEPT ![k] = new]
  <2> HIDE DEF new
  <2> QED
    BY <1>1, <1>2 DEF Store
<1> QED
  <2> HIDE DEF new
  <2> QED
    BY <1>1, <1>2, <1>4, <1>5

LEMMA FirstStepUnf ==
    ASSUME NEW p, NEW left, NEW s
    PROVE  FirstStep(p, left, s).unf \subseteq left
BY DEF FirstStep, SecondStep, NoJob

LEMMA FirstLoopSteady ==
    ASSUME TypeOK, Steady, NEW h \in Htlc, Collect(h) \/ Refuse(h) \/ RefuseRaises(h)
    PROVE  Steady'
<1>1. /\ store.log[h] = "added" /\ h \in store.unf /\ \A j \in Key : h \notin store.sets[j].htlcs
      /\ store \in Store
  BY DEF Collect, Refuse, RefuseRaises, Steady, EachInOnePlace, TypeOK
<1>2. job'.unf \subseteq job.unf \ {h}
  BY <1>1, FirstStepUnf DEF Collect, Refuse, RefuseRaises
<1>3. CASE Collect(h)
  <2> DEFINE k == sc.key[h]
  <2>1. /\ k \in Key /\ store'.log = store.log /\ store'.unf = store.unf \ {h}
        /\ \A j \in Key \ {k} : store'.sets[j] = store.sets[j]
        /\ store'.sets[k].htlcs = store.sets[k].htlcs \cup {h}
        /\ store'.sets[k].parent = store.sets[k].parent
        /\ store.sets[k] = NoSet \/ store.sets[k].res = "waiting"
    BY <1>3, CollectEffect
  <2>2. UNCHANGED <<sc, doomed, revealed>>
    BY <1>3 DEF Collect
  <2>3. store.sets[k].res \notin {"failed", "expired"}
    BY <2>1 DEF NoSet
  <2> HIDE DEF k
  <2>4. EachInOnePlace'
    BY <1>1, <1>2, <2>1 DEF Steady, EachInOnePlace
  <2>5. OnlyPartsAreTagged'
    BY <2>1, <2>2 DEF Steady, OnlyPartsAreTagged
  <2>6. DoomedAreLost'
    BY <2>1, <2>2, <2>3 DEF Steady, DoomedAreLost
  <2>7. RevealedAreFulfilled'
    BY <2>1, <2>2 DEF Steady, RevealedAreFulfilled
  <2> QED
    BY <2>4, <2>5, <2>6, <2>7 DEF Steady
<1>4. CASE Refuse(h)
  <2>1. /\ store'.unf = store.unf \ {h} /\ store'.sets = store.sets
        /\ \A x \in Htlc : store'.log[x] = IF x = h THEN "failed" ELSE store.log[x]
    BY <1>1, <1>4 DEF Refuse, SetLog, Store
  <2>2. UNCHANGED <<sc, doomed, revealed>>
    BY <1>4 DEF Refuse
  <2>3. /\ store.unf \subseteq Htlc /\ doomed \subseteq Htlc /\ revealed \subseteq Htlc
        /\ \A j \in Key : store.sets[j].htlcs \subseteq Htlc
    <3>1. \A j \in Key : store.sets[j] \in SetRecord
      BY <1>1 DEF Store
    <3> QED
      BY <1>1, <3>1, SetRecordChanged DEF TypeOK, Store
  <2>4. EachInOnePlace'
    BY <1>1, <1>2, <2>1, <2>3 DEF Steady, EachInOnePlace
  <2>5. OnlyPartsAreTagged'
    BY <2>1, <2>2 DEF Steady, OnlyPartsAreTagged
  <2>6. DoomedAreLost'
    BY <1>1, <2>1, <2>2, <2>3 DEF Steady, DoomedAreLost
  <2>7. RevealedAreFulfilled'
    BY <1>1, <2>1, <2>2, <2>3 DEF Steady, RevealedAreFulfilled
  <2> QED
    BY <2>4, <2>5, <2>6, <2>7 DEF Steady
<1>5. CASE RefuseRaises(h)
  BY <1>1, <1>5 DEF RefuseRaises
<1> QED
  BY <1>3, <1>4, <1>5

(* A step of the second loop takes no HTLC that waits for the first one. *)
LEMMA SetSteady ==
    ASSUME TypeOK, CopiesAreCurrent, Steady, NEW k \in Key, SetNext(k)
    PROVE  Steady'
<1>1. /\ \A j \in Key : store.sets[j].htlcs \subseteq Htlc
      /\ store.unf \subseteq Htlc /\ doomed \subseteq Htlc /\ revealed \subseteq Htlc
      /\ Mine(k) \subseteq store.sets[k].htlcs
      /\ \A h \in store.sets[k].htlcs : store.log[h] = "added"
  <2>1. \A j \in Key : store.sets[j] \in SetRecord
    BY DEF TypeOK, Store
  <2> QED
    BY <2>1, SetRecordChanged DEF TypeOK, Store, Mine, Steady, EachInOnePlace
<1>2. /\ job'.unf \subseteq store'.unf /\ sc' = sc /\ store'.unf = store.unf
  <2>1. job' = NoJob => job'.unf = {}
    BY DEF NoJob
  <2>2. job' = [job EXCEPT !.todo = @ \ {k}] => job'.unf = job.unf
    BY DEF TypeOK
  <2> QED
    BY <2>1, <2>2, OneSetChanges DEF Steady, EachInOnePlace
<1>3. k \in job.todo /\ job.snap[k].res = store.sets[k].res /\ job.snap[k].parent = store.sets[k].parent
      /\ job.snap[k].htlcs \subseteq store.sets[k].htlcs
  BY DEF SetNext, SetWaits, SetMoves, SetFails, SetCalls, SetSettles, SettleRaises, CopiesAreCurrent
<1>4. CASE SetWaits(k)
  <2>1. UNCHANGED <<doomed, revealed>>
    BY <1>4 DEF SetWaits
  <2>2. EachInOnePlace'
    BY <1>2, <1>4, WaitsEffect DEF Steady, EachInOnePlace
  <2>3. OnlyPartsAreTagged'
    BY <1>2, <1>4, WaitsEffect DEF Steady, OnlyPartsAreTagged
  <2>4. DoomedAreLost'
    BY <1>4, <2>1, WaitsEffect DEF Steady, DoomedAreLost
  <2>5. RevealedAreFulfilled'
    BY <1>4, <2>1, WaitsEffect DEF Steady, RevealedAreFulfilled
  <2> QED
    BY <2>2, <2>3, <2>4, <2>5 DEF Steady
<1>5. CASE SetMoves(k)
  <2> DEFINE up == sc.parent[k]
  <2>1. job.snap[k].res \notin {"failed", "expired"} /\ job.snap[k].parent # None
    BY <1>5, VerdictFacts DEF SetMoves
  <2>2. up \in Key /\ up # k
    <3>1. sc.kind[k] = "part"
      BY <1>3, <2>1 DEF Steady, OnlyPartsAreTagged
    <3> QED
      BY <3>1 DEF TypeOK, IsScenario
  <2>3. /\ store'.log = store.log
        /\ store'.sets[k] = NoSet
        /\ store'.sets[up].htlcs = store.sets[up].htlcs \cup job.snap[k].htlcs
        /\ store'.sets[up].parent = store.sets[up].parent
        /\ store'.sets[up].res = IF store.sets[up] = NoSet THEN "waiting" ELSE store.sets[up].res
        /\ \A j \in Key \ {k, up} : store'.sets[j] = store.sets[j]
    BY <1>5, <2>2, MovesEffect
  <2>4. UNCHANGED <<doomed, revealed>>
    BY <1>5 DEF SetMoves
  <2>5. NoSet.htlcs = {} /\ NoSet.parent = None
    BY DEF NoSet
  <2> HIDE DEF up
  <2>6. EachInOnePlace'
    BY <1>2, <1>3, <2>2, <2>3, <2>5 DEF Steady, EachInOnePlace
  <2>7. OnlyPartsAreTagged'
    BY <1>2, <2>2, <2>3, <2>5 DEF Steady, OnlyPartsAreTagged
  <2>8. DoomedAreLost'
    BY <1>3, <2>1, <2>2, <2>3, <2>4, <2>5 DEF Steady, DoomedAreLost
  <2>9. RevealedAreFulfilled'
    BY <2>3, <2>4 DEF Steady, RevealedAreFulfilled
  <2> QED
    BY <2>6, <2>7, <2>8, <2>9 DEF Steady
<1>6. CASE SetFails(k)
  <2>1. IsTaken(k, "failed", {"failed", "expired"})
    BY <1>6, FailsEffect
  <2>2. doomed' = doomed \cup store.sets[k].htlcs /\ revealed' = revealed
    BY <1>6 DEF SetFails
  <2>3. NoSet.htlcs = {} /\ NoSet.parent = None
    BY DEF NoSet
  <2>4. EachInOnePlace'
    BY <1>1, <1>2, <2>1, <2>3 DEF Steady, EachInOnePlace, IsTaken
  <2>5. OnlyPartsAreTagged'
    BY <1>2, <2>1, <2>3 DEF Steady, OnlyPartsAreTagged, IsTaken
  <2>6. DoomedAreLost'
    BY <1>1, <2>1, <2>2 DEF Steady, DoomedAreLost, IsTaken
  <2>7. RevealedAreFulfilled'
    BY <1>1, <2>1, <2>2 DEF Steady, RevealedAreFulfilled, IsTaken
  <2> QED
    BY <2>4, <2>5, <2>6, <2>7 DEF Steady
<1>7. CASE SetCalls(k)
  <2>1. UNCHANGED <<doomed, revealed>> /\ store.sets[k].res \notin {"failed", "expired"}
    BY <1>3, <1>7, VerdictFacts DEF SetCalls
  <2>2. EachInOnePlace'
    BY <1>2, <1>7, CallsEffect DEF Steady, EachInOnePlace
  <2>3. OnlyPartsAreTagged'
    BY <1>2, <1>7, CallsEffect DEF Steady, OnlyPartsAreTagged
  <2>4. DoomedAreLost'
    BY <1>7, <2>1, CallsEffect DEF Steady, DoomedAreLost
  <2>5. RevealedAreFulfilled'
    BY <1>7, <2>1, CallsEffect DEF Steady, RevealedAreFulfilled
  <2> QED
    BY <2>2, <2>3, <2>4, <2>5 DEF Steady
<1>8. CASE SetSettles(k)
  <2>1. IsTaken(k, "fulfilled", {"settling"})
    BY <1>8, SettlesEffect
  <2>2. doomed' = doomed /\ revealed' \subseteq revealed \cup Mine(k)
    BY <1>8 DEF SetSettles
  <2>3. NoSet.htlcs = {} /\ NoSet.parent = None
    BY DEF NoSet
  <2>4. store.sets[k].res \notin {"failed", "expired"}
    BY <1>3, <1>8, VerdictFacts DEF SetSettles
  <2>5. EachInOnePlace'
    BY <1>1, <1>2, <2>1, <2>3 DEF Steady, EachInOnePlace, IsTaken
  <2>6. OnlyPartsAreTagged'
    BY <1>2, <2>1, <2>3 DEF Steady, OnlyPartsAreTagged, IsTaken
  <2>7. DoomedAreLost'
    BY <1>1, <2>1, <2>2, <2>4 DEF Steady, DoomedAreLost, EachInOnePlace, IsTaken
  <2>8. RevealedAreFulfilled'
    BY <1>1, <2>1, <2>2 DEF Steady, RevealedAreFulfilled, IsTaken
  <2> QED
    BY <2>5, <2>6, <2>7, <2>8 DEF Steady
<1>9. CASE SettleRaises(k)
  BY <1>1, <1>9 DEF SettleRaises
<1> QED
  BY <1>4, <1>5, <1>6, <1>7, <1>8, <1>9 DEF SetNext

LEMMA FailSwapSteady ==
    ASSUME TypeOK, Steady, NEW k \in Key, FailSwap(k)
    PROVE  Steady'
<1>1. store \in Store /\ store.sets \in [Key -> SetRecord] /\ store.sets[k] \in SetRecord
  BY DEF TypeOK, Store
<1>2. /\ store'.log = store.log /\ store'.unf = store.unf
      /\ \A j \in Key \ {k} : store'.sets[j] = store.sets[j]
      /\ IF store.sets[k] # NoSet THEN store'.sets[k] = [store.sets[k] EXCEPT !.res = "failed"]
                                  ELSE store'.sets[k] = store.sets[k]
  BY <1>1 DEF FailSwap, Store
<1>3. /\ store'.sets[k].htlcs = store.sets[k].htlcs /\ store'.sets[k].parent = store.sets[k].parent
      /\ store.sets[k].htlcs # {} => store'.sets[k].res = "failed"
  BY <1>1, <1>2 DEF SetRecord, NoSet
<1>4. UNCHANGED <<sc, job, revealed>> /\ doomed' = doomed \cup store.sets[k].htlcs
  BY DEF FailSwap
<1>5. EachInOnePlace'
  BY <1>2, <1>3, <1>4 DEF Steady, EachInOnePlace
<1>6. OnlyPartsAreTagged'
  BY <1>2, <1>3, <1>4 DEF Steady, OnlyPartsAreTagged
<1>7. DoomedAreLost'
  BY <1>2, <1>3, <1>4 DEF Steady, DoomedAreLost
<1>8. RevealedAreFulfilled'
  BY <1>2, <1>4 DEF Steady, RevealedAreFulfilled
<1> QED
  BY <1>5, <1>6, <1>7, <1>8 DEF Steady

LEMMA ArriveSteady ==
    ASSUME TypeOK, Steady, NEW h \in Htlc, Arrive(h)
    PROVE  Steady'
<1>1. store \in Store /\ doomed \subseteq Htlc /\ revealed \subseteq Htlc
  BY DEF TypeOK
<1>2. /\ store'.unf = store.unf \cup {h} /\ store'.sets = store.sets /\ store.log[h] = "none"
      /\ \A x \in Htlc : store'.log[x] = IF x = h THEN "added" ELSE store.log[x]
  BY <1>1 DEF Arrive, Store
<1>3. /\ store.unf \subseteq Htlc /\ \A j \in Key : store.sets[j].htlcs \subseteq Htlc
  <2>1. \A j \in Key : store.sets[j] \in SetRecord
    BY <1>1 DEF Store
  <2> QED
    BY <1>1, <2>1, SetRecordChanged DEF Store
<1>4. UNCHANGED <<sc, job, doomed, revealed>>
  BY DEF Arrive
<1>5. EachInOnePlace'
  BY <1>2, <1>3, <1>4 DEF Steady, EachInOnePlace
<1>6. OnlyPartsAreTagged'
  BY <1>2, <1>4 DEF Steady, OnlyPartsAreTagged
<1>7. DoomedAreLost' /\ RevealedAreFulfilled'
  BY <1>1, <1>2, <1>4 DEF Steady, DoomedAreLost, RevealedAreFulfilled
<1> QED
  BY <1>5, <1>6, <1>7 DEF Steady

LEMMA StartSteady ==
    ASSUME TypeOK, Steady, NEW p \in Peer, StartIteration(p)
    PROVE  Steady'
<1>1. job'.unf \subseteq store.unf
  BY FirstStepUnf DEF StartIteration
<1>2. UNCHANGED <<sc, store, doomed, revealed>>
  BY DEF StartIteration
<1> QED
  BY <1>1, <1>2 DEF Steady, EachInOnePlace, OnlyPartsAreTagged, DoomedAreLost, RevealedAreFulfilled

LEMMA NextSteady ==
    ASSUME TypeOK, CopiesAreCurrent, used.crashes = 0 => Steady, [Next]_vars
    PROVE  used'.crashes = 0 => Steady'
<1> SUFFICES ASSUME used'.crashes = 0
             PROVE  Steady'
  OBVIOUS
<1>1. CASE Crash
  BY <1>1 DEF Crash, TypeOK
<1>2. ASSUME NEW h \in Htlc, Collect(h) \/ Refuse(h) \/ RefuseRaises(h)
      PROVE  Steady'
  BY <1>2, FirstLoopSteady DEF Collect, Refuse, RefuseRaises
<1>3. ASSUME NEW k \in Key, SetNext(k)
      PROVE  Steady'
  BY <1>3, OneSetChanges, SetSteady
<1>4. ASSUME NEW k \in Key, ForwardNext(k)
      PROVE  Steady'
  BY <1>4, ForwardLeaves, LeftSteady
<1>5. ASSUME NEW k \in Key, HoldNext(k)
      PROVE  Steady'
  <2>1. CASE FailSwap(k)
    BY <2>1, FailSwapSteady DEF FailSwap
  <2>2. CASE ~ FailSwap(k)
    BY <1>5, <2>2, HoldLeaves, LeftSteady
  <2> QED
    BY <2>1, <2>2
<1>6. ASSUME NEW p \in Peer, StartIteration(p)
      PROVE  Steady'
  BY <1>6, StartSteady DEF StartIteration
<1>7. ASSUME \/ \E p \in Peer : Disconnect(p) \/ Connect(p)
             \/ SaveDb \/ Elapse \/ Expire \/ Blocks \/ LocktimePasses \/ TipChanges
      PROVE  Steady'
  BY <1>7, OutsideLeaves, LeftSteady
<1>8. ASSUME NEW h \in Htlc, Arrive(h)
      PROVE  Steady'
  BY <1>8, ArriveSteady DEF Arrive
<1>9. CASE UNCHANGED vars
  BY <1>9, LeftSteady DEF vars, SetsAreLeft
<1> QED
  BY <1>1, <1>2, <1>3, <1>4, <1>5, <1>6, <1>7, <1>8, <1>9 DEF Next, JobNext, FirstStepNext

LEMMA InvIsSteady == Inv <=> TypeOK /\ CopiesAreCurrent /\ (used.crashes = 0 => Steady)
BY DEF Inv, Steady

LEMMA AlwaysSteady == Spec => []Inv
<1>1. Init => Inv
  <2>1. Init => Steady
    BY DEF Init, NoJob, NoSet, Steady, EachInOnePlace, OnlyPartsAreTagged, DoomedAreLost,
           RevealedAreFulfilled
  <2> QED
    BY <2>1, InitTyped, InvIsSteady
<1>2. Inv /\ [Next]_vars => Inv'
  <2> SUFFICES ASSUME Inv, [Next]_vars
               PROVE  Inv'
    OBVIOUS
  <2>1. TypeOK' /\ CopiesAreCurrent'
    BY InvIsSteady, NextTyped
  <2>2. used'.crashes = 0 => Steady'
    BY InvIsSteady, NextSteady
  <2> QED
    BY <2>1, <2>2 DEF Inv, Steady
<1> QED
  BY <1>1, <1>2, PTL DEF Spec

(* A set is failed or expired, or settled, never both: an HTLC of it that a *)
(* switch has left for another peer's is not settled there, until the       *)
(* process is restarted.  It is either still in the failed set, which       *)
(* _check_final_mpp_set_state looks at first, or failed in its channel, and *)
(* can have come into the set of another payment in neither case.           *)
THEOREM FailedIsForGood == Spec => [](used.crashes = 0 => FailedNeverSettles)
<1>1. Inv => (used.crashes = 0 => FailedNeverSettles)
  <2> SUFFICES ASSUME Inv, used.crashes = 0, NEW h \in doomed \cap revealed
               PROVE  FALSE
    BY DEF FailedNeverSettles
  <2>1. store.log[h] = "fulfilled"
    BY DEF Inv, RevealedAreFulfilled
  <2>2. \/ store.log[h] = "failed"
        \/ \E k \in Key : h \in store.sets[k].htlcs
    BY DEF Inv, DoomedAreLost
  <2> QED
    BY <2>1, <2>2 DEF Inv, EachInOnePlace
<1> QED
  BY <1>1, AlwaysSteady, PTL

-----------------------------------------------------------------------------
(*                     Covered, over restarts: two stores                  *)

(* The scenario c and the store s are arguments of what follows.            *)

(* HashOf, IsForward, SecuredIn and Covered, of c and s *)
Hash(c, k) == IF c.kind[k] = "part" THEN c.parent[k] ELSE k
Forwards(c, k) == c.kind[k] \in {"forward", "trampoline"}
Secures(c, s, k) ==
    {h \in Htlc : /\ Hash(c, c.key[h]) = k
                  /\ \/ s.log[h] = "fulfilled"
                     \/ /\ s.log[h] = "added"
                        /\ s.sets[k].res = "settling" /\ h \in s.sets[k].htlcs}
Covers(c, s, k) == SumOf(c.amount, Secures(c, s, k)) >= c.total[k]

(* Downstream HTLCs: those that were ever offered, that are not resolved,   *)
(* and whether one was claimed.                                             *)
Tried(s, k) == {d \in Attempt : s.down[k][d] # "none"}
Out(s, k) == {d \in Attempt : s.down[k][d] \in {"offered", "failing"}}
Fulfilled(s, k) == \E d \in Attempt : s.down[k][d] = "fulfilled"

(* An HTLC waits for the first loop, or is in one set, that of its key or   *)
(* of the invoice it pays a part of, or neither.                            *)
Placed(c, s) ==
    /\ \A h \in Htlc : s.log[h] # "none" => h \in c.sent
    /\ \A h \in s.unf : s.log[h] # "none" /\ \A k \in Key : h \notin s.sets[k].htlcs
    /\ \A k \in Key : \A h \in s.sets[k].htlcs :
          /\ s.log[h] # "none" /\ k \in {c.key[h], Hash(c, c.key[h])}
          /\ \A j \in Key \ {k} : h \notin s.sets[j].htlcs

(* A set is deleted when it is empty; a part is moved, never called.        *)
Formed(c, s, k) ==
    /\ s.sets[k] # NoSet => s.sets[k].htlcs # {}
    /\ s.sets[k].parent # None => c.kind[k] = "part"
    /\ c.kind[k] = "part" => s.sets[k].res \notin {"complete", "settling"}

(* The only HTLC of the key k has left the first loop, and its set is not   *)
(* called again.                                                            *)
Begun(c, s, k) ==
    /\ \A h \in c.sent : c.key[h] = k => s.log[h] # "none" /\ h \notin s.unf
    /\ s.sets[k].res \notin {"waiting", "complete"}
Once(c, s, k) ==
    c.kind[k] = "forward" /\ Tried(s, k) # {}
        => Begun(c, s, k) /\ \A d, e \in Tried(s, k) : d = e

Legal(c, s) == Placed(c, s) /\ \A k \in Key : Formed(c, s, k) /\ Once(c, s, k)

(* What is in a set, and what its resolution says: a complete set has the   *)
(* amount, a settling one is covered, and what is settled had a preimage.   *)
Collected(c, s, k) ==
    /\ \A h \in s.sets[k].htlcs :
          \/ s.log[h] = "added"
          \/ s.log[h] = "fulfilled" /\ s.sets[k].res = "settling"
          \/ s.log[h] = "failed" /\ s.sets[k].res \in {"failed", "expired"}
    /\ s.sets[k].res = "complete" => SumOf(c.amount, s.sets[k].htlcs) >= c.total[k]
    /\ s.sets[k].res = "settling" => Covers(c, s, k)
    /\ \A h \in Htlc : Hash(c, c.key[h]) = k /\ s.log[h] = "fulfilled" => k \in s.pre

(* A forwarding whose preimage is known has been claimed downstream, is     *)
(* covered and has not failed; one that has an HTLC downstream has only     *)
(* that one, is settling and has not failed.                                *)
Downstream(c, s, k) ==
    /\ k \in s.pre => Out(s, k) = {} /\ s.failure[k] # "reason" /\ Fulfilled(s, k)
    /\ Fulfilled(s, k) => k \in s.pre /\ Covers(c, s, k)
    /\ Out(s, k) # {} => /\ s.sets[k].res = "settling" /\ s.failure[k] # "reason"
                         /\ \A d, e \in Out(s, k) : d = e
    /\ s.failure[k] = "reason" => s.sets[k].res \in {"settling", "failed"}

Sound(c, s, k) ==
    /\ Collected(c, s, k)
    /\ Forwards(c, k) => Downstream(c, s, k)
    /\ ~ Forwards(c, k) => s.failure[k] # "reason" /\ Tried(s, k) = {}

(* The memory s and the file d: a preimage, and that a set is settling, are *)
(* saved at once.                                                           *)
Agree(s, d) ==
    /\ s.pre = d.pre
    /\ \A k \in Key : s.sets[k].res = "settling" => d.sets[k].res = "settling"

(* A task that forwards k runs while its set is settling: it has offered    *)
(* nothing yet, or pay_to_node waits for what is noted as active.           *)
Runs(c, s, m, k) ==
    Forwards(c, k) /\ k \in m.tasks \cup m.session /\ k \notin s.pre =>
        /\ s.sets[k].res = "settling" /\ s.failure[k] # "reason"
        /\ k \in m.tasks => k \notin m.session /\ Out(s, k) = {}
        /\ k \in m.session => Out(s, k) \subseteq s.active[k]
OnceRuns(c, s, m, k) ==
    /\ k \in m.session => c.kind[k] = "trampoline"
    /\ c.kind[k] = "forward" /\ k \in m.tasks => Begun(c, s, k) /\ Tried(s, k) = {}

(* The hold invoices that are not the user's are swaps.  One that is to be  *)
(* funded before its locktime has a settling set, and its preimage is only  *)
(* known from the claim of its funding.                                     *)
Swaps(c) == c.hold \ c.dontExpire
SwapFields(c, s) == s.swaps \subseteq Swaps(c) /\ s.dontExpire \subseteq c.dontExpire
SwapRuns(c, s, m, e, k) ==
    /\ k \in m.callback \cup m.batch => k \in Swaps(c)
    /\ k \in m.tasks => Forwards(c, k) \/ k \in Swaps(c)
    /\ k \in m.batch => e.funding[k] = "none"
    /\ k \in Swaps(c) /\ k \in m.tasks \cup m.batch /\ e.funding[k] = "none" /\ ~ e.locktime
          => s.sets[k].res = "settling"
    /\ k \in Swaps(c) /\ k \in s.pre => e.funding[k] = "claimed"
    /\ e.funding[k] # "none" => k \in Swaps(c)

FundedCovers(c, s, e, k) ==
    e.funding[k] \in {"unspent", "claimed"} /\ k \notin e.late => Covers(c, s, k)
RevealedCovers(c, s, r) ==
    \A h \in r : LET k == Hash(c, c.key[h]) IN k \in s.pre /\ Covers(c, s, k)

(* The inductive invariant.  Its second part is about the time in which no  *)
(* HTLC that was failed is put into a set again, as it may be after a       *)
(* restart (see the first loop).                                            *)
PlacedInv ==
    /\ Legal(sc, store) /\ Legal(sc, disk)
    /\ \A k \in Key : OnceRuns(sc, store, mem, k)
    /\ job.unf \subseteq store.unf

Holds(c, s, e, r) ==
    /\ \A k \in Key : Sound(c, s, k) /\ FundedCovers(c, s, e, k)
    /\ RevealedCovers(c, s, r)
    /\ SwapFields(c, s)
Safe ==
    /\ Holds(sc, store, env, revealed) /\ Holds(sc, disk, env, revealed) /\ Agree(store, disk)
    /\ \A k \in Key : Runs(sc, store, mem, k) /\ SwapRuns(sc, store, mem, env, k)
CoverInv == again = {} => Safe
IInv == TypeOK /\ CopiesAreCurrent /\ PlacedInv /\ CoverInv

-----------------------------------------------------------------------------
(*                        Scenarios, stores and amounts                     *)

LEMMA ScenarioFacts ==
    ASSUME NEW c, IsScenario(c)
    PROVE  /\ \A h \in Htlc : c.key[h] \in Key /\ c.amount[h] \in Nat
           /\ \A k \in Key : c.total[k] \in Nat /\ Hash(c, k) \in Key /\ c.kind[Hash(c, k)] # "part"
           /\ \A k \in Key : c.kind[k] # "part" => Hash(c, k) = k
           /\ \A k \in Key : c.kind[k] = "part" =>
                 c.parent[k] \in Key /\ Hash(c, k) = c.parent[k] /\ c.kind[c.parent[k]] = "invoice"
<1>1. c.key \in [Htlc -> Key] /\ c.amount \in [Htlc -> Nat] /\ c.total \in [Key -> Nat]
  BY DEF IsScenario
<1>2. \A k \in Key : c.kind[k] = "part" => c.parent[k] \in Key /\ c.kind[c.parent[k]] = "invoice"
  BY DEF IsScenario
<1> QED
  BY <1>1, <1>2 DEF Hash

LEMMA StoreFacts ==
    ASSUME NEW s \in Store
    PROVE  /\ s.log \in [Htlc -> {"none", "added", "fulfilled", "failed"}] /\ s.unf \subseteq Htlc
           /\ s.sets \in [Key -> SetRecord] /\ s.pre \subseteq Key
           /\ s.failure \in [Key -> {"none", "reason", "empty"}]
           /\ s.down \in [Key -> [Attempt -> {"none", "offered", "fulfilled", "failing", "failed"}]]
           /\ s.active \in [Key -> SUBSET (Attempt \cup {0})]
           /\ \A k \in Key : s.sets[k].htlcs \subseteq Htlc
<1>1. s.sets \in [Key -> SetRecord]
  BY DEF Store
<1>2. \A k \in Key : s.sets[k].htlcs \subseteq Htlc
  BY <1>1, SetRecordChanged
<1> QED
  BY <1>1, <1>2 DEF Store

(* An HTLC is in the set of its key, or of the invoice that its part pays. *)
LEMMA MembersPay ==
    ASSUME NEW c, IsScenario(c), NEW s \in Store, Placed(c, s), NEW k \in Key, c.kind[k] # "part",
           NEW h \in s.sets[k].htlcs
    PROVE  Hash(c, c.key[h]) = k
<1>1. k \in {c.key[h], Hash(c, c.key[h])}
  BY DEF Placed
<1> QED
  BY <1>1, ScenarioFacts

LEMMA AmountsGrow ==
    ASSUME NEW c, IsScenario(c), NEW R \in SUBSET Htlc, NEW S \in SUBSET R, NEW n \in Nat,
           SumOf(c.amount, S) >= n
    PROVE  SumOf(c.amount, R) >= n
<1>1. \A h \in Htlc : c.amount[h] \in Nat
  BY ScenarioFacts
<1>2. SumOf(c.amount, S) \in Nat /\ SumOf(c.amount, R) \in Nat
  BY <1>1, HtlcsAreFinite, SumIsNat
<1>3. SumOf(c.amount, S) <= SumOf(c.amount, R)
  BY <1>1, HtlcsAreFinite, SumGrows
<1> QED
  BY <1>2, <1>3

LEMMA CoversGrows ==
    ASSUME NEW c, IsScenario(c), NEW s, NEW t, NEW k \in Key,
           Secures(c, s, k) \subseteq Secures(c, t, k), Covers(c, s, k)
    PROVE  Covers(c, t, k)
<1>1. Secures(c, t, k) \in SUBSET Htlc /\ Secures(c, s, k) \in SUBSET Secures(c, t, k)
      /\ c.total[k] \in Nat
  BY ScenarioFacts DEF Secures
<1> QED
  BY <1>1, AmountsGrow DEF Covers

LEMMA EnoughCovers ==
    ASSUME NEW c, IsScenario(c), NEW t, NEW k \in Key, NEW S,
           S \subseteq Secures(c, t, k), SumOf(c.amount, S) >= c.total[k]
    PROVE  Covers(c, t, k)
<1>1. Secures(c, t, k) \in SUBSET Htlc /\ S \in SUBSET Secures(c, t, k) /\ c.total[k] \in Nat
  BY ScenarioFacts DEF Secures
<1> QED
  BY <1>1, AmountsGrow DEF Covers

(* Nothing that is said of k reads what is different in t. *)
SameOf(s, t, k) ==
    /\ t.sets[k] = s.sets[k] /\ t.failure[k] = s.failure[k] /\ t.down[k] = s.down[k]
    /\ k \in t.pre <=> k \in s.pre
LogKept(c, s, t, k) ==
    /\ \A h \in s.sets[k].htlcs : t.log[h] = s.log[h]
    /\ \A h \in Htlc : Hash(c, c.key[h]) = k => (t.log[h] = "fulfilled" <=> s.log[h] = "fulfilled")

LEMMA CoversKept ==
    ASSUME NEW c, IsScenario(c), NEW s, NEW t, NEW k \in Key,
           SameOf(s, t, k), LogKept(c, s, t, k), Covers(c, s, k)
    PROVE  Covers(c, t, k)
<1>1. Secures(c, s, k) \subseteq Secures(c, t, k)
  BY DEF Secures, SameOf, LogKept
<1> QED
  BY <1>1, CoversGrows

LEMMA SoundKept ==
    ASSUME NEW c, IsScenario(c), NEW s, NEW t, NEW k \in Key,
           SameOf(s, t, k), LogKept(c, s, t, k), Sound(c, s, k)
    PROVE  Sound(c, t, k)
<1>1. Covers(c, s, k) => Covers(c, t, k)
  BY CoversKept
<1>2. Tried(t, k) = Tried(s, k) /\ Out(t, k) = Out(s, k) /\ (Fulfilled(t, k) <=> Fulfilled(s, k))
  BY DEF Tried, Out, Fulfilled, SameOf
<1>3. Collected(c, s, k)
  BY DEF Sound
<1>4. /\ \A h \in t.sets[k].htlcs :
          \/ t.log[h] = "added"
          \/ t.log[h] = "fulfilled" /\ t.sets[k].res = "settling"
          \/ t.log[h] = "failed" /\ t.sets[k].res \in {"failed", "expired"}
  BY <1>3 DEF Collected, SameOf, LogKept
<1>5. /\ t.sets[k].res = "complete" => SumOf(c.amount, t.sets[k].htlcs) >= c.total[k]
      /\ t.sets[k].res = "settling" => Covers(c, t, k)
  BY <1>1, <1>3 DEF Collected, SameOf
<1>6. \A h \in Htlc : Hash(c, c.key[h]) = k /\ t.log[h] = "fulfilled" => k \in t.pre
  BY <1>3 DEF Collected, SameOf, LogKept
<1>7. Collected(c, t, k)
  BY <1>4, <1>5, <1>6 DEF Collected
<1>8. Forwards(c, k) => Downstream(c, t, k)
  BY <1>1, <1>2 DEF Sound, Downstream, SameOf
<1> QED
  BY <1>2, <1>7, <1>8 DEF Sound, SameOf

-----------------------------------------------------------------------------
(*                     How a step changes a store                           *)

LogSet(s, t, hs, what) == \A h \in Htlc : t.log[h] = IF h \in hs THEN what ELSE s.log[h]
(* The rest is the same for every key but k. *)
OnlyOf(s, t, k) == \A j \in Key \ {k} : SameOf(s, t, j)
(* Sets, log and list are the same. *)
Still(s, t) == t.log = s.log /\ t.unf \subseteq s.unf /\ \A k \in Key : t.sets[k] = s.sets[k]

Rests(s, t) == t.log = s.log /\ t.unf \subseteq s.unf /\ \A k \in Key : SameOf(s, t, k)
Refuses(s, t, h) ==
    /\ h \in s.unf /\ s.log[h] = "added" /\ LogSet(s, t, {h}, "failed")
    /\ t.unf \subseteq s.unf /\ \A k \in Key : SameOf(s, t, k)
Arrives(s, t, h) ==
    /\ s.log[h] = "none" /\ LogSet(s, t, {h}, "added")
    /\ t.unf = s.unf \cup {h} /\ \A k \in Key : SameOf(s, t, k)

(* Of the set of k something is different. *)
OnlySet(s, t, k) ==
    /\ OnlyOf(s, t, k)
    /\ t.down[k] = s.down[k] /\ (k \in t.pre <=> k \in s.pre)
Collects(s, t, h, k) ==
    /\ OnlySet(s, t, k) /\ t.log = s.log /\ h \in s.unf /\ t.unf = s.unf \ {h}
    /\ s.sets[k].res \in {"none", "waiting"} /\ t.sets[k].res = "waiting"
    /\ t.sets[k].htlcs = s.sets[k].htlcs \cup {h} /\ t.sets[k].parent = s.sets[k].parent
    /\ t.failure[k] = s.failure[k]
Marks(c, s, t, k) ==
    /\ OnlySet(s, t, k) /\ t.log = s.log /\ t.unf = s.unf
    /\ s.sets[k] # NoSet
    /\ t.sets[k].htlcs = s.sets[k].htlcs /\ t.failure[k] = s.failure[k]
    /\ \/ c.kind[k] = "part" /\ t.sets[k].res = s.sets[k].res
       \/ /\ c.kind[k] # "part" /\ t.sets[k].parent = s.sets[k].parent
          /\ s.sets[k].res = "waiting" /\ t.sets[k].res = "complete"
Moves(c, s, t, k) ==
    LET up == c.parent[k] IN
    /\ c.kind[k] = "part" /\ t.log = s.log /\ t.unf = s.unf
    /\ \A j \in Key \ {k, up} : SameOf(s, t, j)
    /\ t.down = s.down /\ t.pre = s.pre
    /\ t.sets[k] = NoSet /\ t.failure[k] = "none" /\ t.failure[up] = s.failure[up]
    /\ s.sets[k].res = "waiting"
    /\ s.sets[up].htlcs \subseteq t.sets[up].htlcs /\ t.sets[up].htlcs # {}
    /\ t.sets[up].htlcs \subseteq s.sets[up].htlcs \cup s.sets[k].htlcs
    /\ t.sets[up].parent = s.sets[up].parent
    /\ t.sets[up].res = IF s.sets[up] = NoSet THEN "waiting" ELSE s.sets[up].res
Failing(s, t, k, hs) ==
    /\ OnlySet(s, t, k) /\ t.unf = s.unf
    /\ hs \subseteq s.sets[k].htlcs /\ LogSet(s, t, hs, "failed")
    /\ \/ t.sets[k] = NoSet /\ t.failure[k] = "none"
       \/ /\ t.sets[k].res \in {"failed", "expired"} /\ t.sets[k].parent = s.sets[k].parent
          /\ t.sets[k].htlcs \subseteq s.sets[k].htlcs /\ t.sets[k].htlcs # {}
          /\ t.failure[k] = s.failure[k]
Calls(c, s, t, k) ==
    /\ OnlySet(s, t, k) /\ t.log = s.log /\ t.unf = s.unf /\ c.kind[k] # "part"
    /\ s.sets[k].res \in {"waiting", "complete"} /\ t.sets[k].res = "settling"
    /\ t.sets[k].htlcs = s.sets[k].htlcs /\ t.sets[k].parent = s.sets[k].parent
    /\ t.failure[k] = s.failure[k]
Settles(c, s, t, k, hs) ==
    /\ OnlySet(s, t, k) /\ t.unf = s.unf /\ c.kind[k] # "part" /\ k \in s.pre
    /\ hs \subseteq s.sets[k].htlcs /\ LogSet(s, t, hs, "fulfilled")
    /\ s.sets[k].res \in {"waiting", "complete", "settling"}
    /\ s.sets[k].res = "settling" \/ ~ Forwards(c, k)
    /\ \A h \in s.sets[k].htlcs \ t.sets[k].htlcs : t.log[h] = "fulfilled"
    /\ \/ t.sets[k] = NoSet /\ t.failure[k] = "none"
       \/ /\ t.sets[k].res = "settling" /\ t.sets[k].parent = s.sets[k].parent
          /\ t.sets[k].htlcs \subseteq s.sets[k].htlcs /\ t.sets[k].htlcs # {}
          /\ t.failure[k] = s.failure[k]

(* Of what is downstream of k something is different. *)
Downs(s, t, k, d, from, to) ==
    /\ Still(s, t) /\ OnlyOf(s, t, k)
    /\ s.down[k][d] = from /\ t.down[k] = [s.down[k] EXCEPT ![d] = to]
Offers(s, t, k, d) ==
    Downs(s, t, k, d, "none", "offered") /\ t.failure[k] = s.failure[k] /\ t.pre = s.pre
Fulfills(s, t, k, d) ==
    Downs(s, t, k, d, "offered", "fulfilled") /\ t.failure[k] = s.failure[k] /\ t.pre = s.pre \cup {k}
WillFail(s, t, k, d) ==
    Downs(s, t, k, d, "offered", "failing") /\ t.failure[k] = s.failure[k] /\ t.pre = s.pre
HasFailed(s, t, k, d) ==
    Downs(s, t, k, d, "failing", "failed") /\ t.pre = s.pre
GivesUp(s, t, k) ==
    /\ Still(s, t) /\ OnlyOf(s, t, k) /\ t.down[k] = s.down[k]
    /\ t.failure[k] = "reason" /\ t.pre = s.pre
Reveals(s, t, k) ==
    /\ Still(s, t) /\ OnlyOf(s, t, k) /\ t.down[k] = s.down[k]
    /\ t.failure[k] = s.failure[k] /\ t.pre = s.pre \cup {k}

-----------------------------------------------------------------------------
(*         Where an HTLC is, and that a forwarding is offered once          *)

LEMMA BegunKept ==
    ASSUME NEW c, IsScenario(c), NEW s \in Store, NEW t \in Store, NEW k \in Key,
           \A h \in Htlc : s.log[h] # "none" => t.log[h] # "none",
           \A h \in t.unf : h \in s.unf \/ s.log[h] = "none",
           t.sets[k] = s.sets[k] \/ t.sets[k].res \notin {"waiting", "complete"},
           Begun(c, s, k)
    PROVE  Begun(c, t, k)
<1>1. c.sent \subseteq Htlc
  BY DEF IsScenario
<1> QED
  BY <1>1 DEF Begun

LEMMA OnceKept ==
    ASSUME NEW c, NEW s, NEW t, NEW k \in Key, t.down[k] = s.down[k],
           Begun(c, s, k) => Begun(c, t, k), Once(c, s, k)
    PROVE  Once(c, t, k)
<1>1. Tried(t, k) = Tried(s, k)
  BY DEF Tried
<1> QED
  BY <1>1 DEF Once

LEMMA StillLegal ==
    ASSUME NEW c, IsScenario(c), NEW s \in Store, NEW t \in Store, Legal(c, s), Still(s, t)
    PROVE  /\ Placed(c, t) /\ \A k \in Key : Formed(c, t, k)
           /\ \A k \in Key : Begun(c, s, k) => Begun(c, t, k)
           /\ \A k \in Key : t.down[k] = s.down[k] => Once(c, t, k)
<1>1. Placed(c, t)
  BY DEF Legal, Still, Placed
<1>2. \A k \in Key : Formed(c, t, k)
  BY DEF Legal, Still, Formed
<1>3. \A k \in Key : Begun(c, s, k) => Begun(c, t, k)
  BY BegunKept DEF Still
<1>4. \A k \in Key : t.down[k] = s.down[k] => Once(c, t, k)
  BY <1>3, OnceKept DEF Legal
<1> QED
  BY <1>1, <1>2, <1>3, <1>4

(* Log and list change, the sets do not. *)
LEMMA RefusesLegal ==
    ASSUME NEW c, IsScenario(c), NEW s \in Store, NEW t \in Store, Legal(c, s),
           NEW h \in Htlc, Refuses(s, t, h)
    PROVE  Legal(c, t)
<1>1. /\ \A x \in Htlc : s.log[x] # "none" <=> t.log[x] # "none"
      /\ t.unf \subseteq s.unf /\ s.unf \subseteq Htlc
      /\ \A k \in Key : s.sets[k].htlcs \subseteq Htlc /\ t.sets[k] = s.sets[k] /\ t.down[k] = s.down[k]
  BY StoreFacts DEF Refuses, LogSet, SameOf
<1>2. Placed(c, t)
  BY <1>1 DEF Legal, Placed
<1>3. \A k \in Key : Formed(c, t, k)
  BY <1>1 DEF Legal, Formed
<1>4. \A k \in Key : Once(c, t, k)
  BY <1>1, BegunKept, OnceKept DEF Legal
<1> QED
  BY <1>2, <1>3, <1>4 DEF Legal

LEMMA ArrivesLegal ==
    ASSUME NEW c, IsScenario(c), NEW s \in Store, NEW t \in Store, Legal(c, s),
           NEW h \in c.sent, Arrives(s, t, h)
    PROVE  Legal(c, t)
<1>1. /\ h \in Htlc /\ t.log[h] = "added" /\ s.log[h] = "none"
      /\ \A x \in Htlc : x # h => t.log[x] = s.log[x]
      /\ t.unf = s.unf \cup {h} /\ s.unf \subseteq Htlc
      /\ \A k \in Key : s.sets[k].htlcs \subseteq Htlc /\ t.sets[k] = s.sets[k] /\ t.down[k] = s.down[k]
  BY StoreFacts DEF Arrives, LogSet, SameOf, IsScenario
<1>2. Placed(c, t)
  BY <1>1 DEF Legal, Placed
<1>3. \A k \in Key : Formed(c, t, k)
  BY <1>1 DEF Legal, Formed
<1>4. \A k \in Key : Once(c, t, k)
  <2>1. /\ \A x \in Htlc : s.log[x] # "none" => t.log[x] # "none"
        /\ \A x \in t.unf : x \in s.unf \/ s.log[x] = "none"
    BY <1>1
  <2> QED
    BY <1>1, <2>1, BegunKept, OnceKept DEF Legal
<1> QED
  BY <1>2, <1>3, <1>4 DEF Legal

(* A new HTLC has not been forwarded. *)
LEMMA CollectsLegal ==
    ASSUME NEW c, IsScenario(c), NEW s \in Store, NEW t \in Store, Legal(c, s),
           NEW h \in Htlc, NEW k \in Key, k = c.key[h], Collects(s, t, h, k)
    PROVE  Legal(c, t)
<1>1. /\ t.log = s.log /\ h \in s.unf /\ t.unf = s.unf \ {h}
      /\ t.sets[k].htlcs = s.sets[k].htlcs \cup {h} /\ t.sets[k].parent = s.sets[k].parent
      /\ t.sets[k].res = "waiting" /\ t.down[k] = s.down[k]
      /\ \A j \in Key \ {k} : t.sets[j] = s.sets[j] /\ t.down[j] = s.down[j]
  BY DEF Collects, OnlySet, OnlyOf, SameOf
<1>2. s.log[h] # "none" /\ h \in c.sent /\ \A j \in Key : h \notin s.sets[j].htlcs
  BY <1>1 DEF Legal, Placed
<1>3. Placed(c, t)
  <2>1. ASSUME NEW i \in Key, NEW x \in t.sets[i].htlcs
        PROVE  /\ t.log[x] # "none" /\ i \in {c.key[x], Hash(c, c.key[x])}
               /\ \A j \in Key \ {i} : x \notin t.sets[j].htlcs
    <3>1. CASE x = h
      BY <1>1, <1>2, <2>1, <3>1
    <3>2. CASE x # h
      <4>1. x \in s.sets[i].htlcs
        BY <1>1, <2>1, <3>2
      <4>2. /\ s.log[x] # "none" /\ i \in {c.key[x], Hash(c, c.key[x])}
            /\ \A j \in Key \ {i} : x \notin s.sets[j].htlcs
        BY <4>1 DEF Legal, Placed
      <4> QED
        BY <1>1, <3>2, <4>2
    <3> QED
      BY <3>1, <3>2
  <2>2. \A x \in t.unf : t.log[x] # "none" /\ \A j \in Key : x \notin t.sets[j].htlcs
    BY <1>1 DEF Legal, Placed
  <2>3. \A x \in Htlc : t.log[x] # "none" => x \in c.sent
    BY <1>1 DEF Legal, Placed
  <2> QED
    BY <2>1, <2>2, <2>3 DEF Placed
<1>4. \A j \in Key : Formed(c, t, j)
  BY <1>1 DEF Legal, Formed, NoSet
<1>5. \A j \in Key : Once(c, t, j)
  <2>1. Once(c, t, k)
    <3>1. ~ Begun(c, s, k)
      BY <1>1, <1>2 DEF Begun
    <3> QED
      BY <1>1, <3>1, OnceKept DEF Legal
  <2>2. ASSUME NEW j \in Key \ {k}
        PROVE  Once(c, t, j)
    <3>1. Begun(c, s, j) => Begun(c, t, j)
      BY <1>1, BegunKept
    <3> QED
      BY <1>1, <3>1, OnceKept DEF Legal
  <2> QED
    BY <2>1, <2>2
<1> QED
  BY <1>3, <1>4, <1>5 DEF Legal

LEMMA MarksLegal ==
    ASSUME NEW c, IsScenario(c), NEW s \in Store, NEW t \in Store, Legal(c, s),
           NEW k \in Key, Marks(c, s, t, k)
    PROVE  Legal(c, t)
<1>1. /\ t.log = s.log /\ t.unf = s.unf
      /\ \A j \in Key : t.sets[j].htlcs = s.sets[j].htlcs /\ t.down[j] = s.down[j]
      /\ \A j \in Key \ {k} : t.sets[j] = s.sets[j]
  BY DEF Marks, OnlySet, OnlyOf, SameOf
<1>2. Placed(c, t)
  BY <1>1 DEF Legal, Placed
<1>3. \A j \in Key : Formed(c, t, j)
  <2>1. Formed(c, s, k) /\ \A j \in Key : Formed(c, s, j)
    BY DEF Legal
  <2>2. Formed(c, t, k)
    BY <2>1 DEF Marks, Formed
  <2> QED
    BY <1>1, <2>1, <2>2 DEF Formed
<1>4. \A j \in Key : Once(c, t, j)
  <2>1. c.kind[k] = "forward" => ~ Begun(c, s, k)
    BY DEF Marks, Begun
  <2>2. Once(c, t, k)
    <3>1. Tried(t, k) = Tried(s, k)
      BY <1>1 DEF Tried
    <3> QED
      BY <2>1, <3>1 DEF Legal, Once
  <2>3. ASSUME NEW j \in Key \ {k}
        PROVE  Once(c, t, j)
    <3>1. Begun(c, s, j) => Begun(c, t, j)
      BY <1>1, BegunKept
    <3> QED
      BY <1>1, <3>1, OnceKept DEF Legal
  <2> QED
    BY <2>2, <2>3
<1> QED
  BY <1>2, <1>3, <1>4 DEF Legal

(* A part moves to the set of its invoice. *)
LEMMA MovesLegal ==
    ASSUME NEW c, IsScenario(c), NEW s \in Store, NEW t \in Store, Legal(c, s),
           NEW k \in Key, Moves(c, s, t, k)
    PROVE  Legal(c, t)
<1> DEFINE up == c.parent[k]
<1>1. up \in Key /\ up # k /\ c.kind[up] = "invoice" /\ c.kind[k] = "part" /\ Hash(c, k) = up
  BY ScenarioFacts DEF Moves
<1>2. /\ t.log = s.log /\ t.unf = s.unf /\ t.down = s.down
      /\ t.sets[k].htlcs = {} /\ t.sets[k].parent = None /\ t.sets[k].res = "none"
      /\ \A j \in Key \ {k, up} : t.sets[j] = s.sets[j]
      /\ t.sets[up].htlcs \subseteq s.sets[up].htlcs \cup s.sets[k].htlcs
      /\ t.sets[up].htlcs # {} /\ t.sets[up].parent = s.sets[up].parent
  BY DEF Moves, NoSet, SameOf
<1>3. Placed(c, t)
  <2>1. \A x \in Htlc : t.log[x] # "none" => x \in c.sent
    BY <1>2 DEF Legal, Placed
  <2>2. \A x \in t.unf : t.log[x] # "none" /\ \A j \in Key : x \notin t.sets[j].htlcs
    BY <1>1, <1>2 DEF Legal, Placed
  <2>3. ASSUME NEW i \in Key, NEW x \in t.sets[i].htlcs
        PROVE  /\ t.log[x] # "none" /\ i \in {c.key[x], Hash(c, c.key[x])}
               /\ \A j \in Key \ {i} : x \notin t.sets[j].htlcs
    <3>1. CASE i = up /\ x \in s.sets[k].htlcs
      <4>1. /\ s.log[x] # "none" /\ k \in {c.key[x], Hash(c, c.key[x])}
            /\ \A j \in Key \ {k} : x \notin s.sets[j].htlcs
        BY <3>1 DEF Legal, Placed
      <4>2. c.key[x] = k
        <5>1. x \in Htlc /\ c.key[x] \in Key
          BY <3>1, StoreFacts, ScenarioFacts
        <5>2. Hash(c, c.key[x]) # k
          BY <1>1, <5>1, ScenarioFacts
        <5> QED
          BY <4>1, <5>2
      <4> QED
        BY <1>1, <1>2, <3>1, <4>1, <4>2
    <3>2. CASE ~ (i = up /\ x \in s.sets[k].htlcs)
      <4>1. x \in s.sets[i].htlcs /\ i # k
        BY <1>2, <2>3, <3>2
      <4>2. /\ s.log[x] # "none" /\ i \in {c.key[x], Hash(c, c.key[x])}
            /\ \A j \in Key \ {i} : x \notin s.sets[j].htlcs
        BY <4>1 DEF Legal, Placed
      <4>3. \A j \in Key \ {i} : x \notin t.sets[j].htlcs
        BY <1>1, <1>2, <4>1, <4>2
      <4> QED
        BY <1>2, <4>2, <4>3
    <3> QED
      BY <3>1, <3>2
  <2> QED
    BY <2>1, <2>2, <2>3 DEF Placed
<1>4. \A j \in Key : Formed(c, t, j)
  <2>1. Formed(c, t, k)
    BY <1>2 DEF Formed, Moves
  <2>2. Formed(c, t, up)
    BY <1>1, <1>2 DEF Legal, Formed
  <2>3. \A j \in Key \ {k, up} : Formed(c, t, j)
    BY <1>2 DEF Legal, Formed
  <2> QED
    BY <2>1, <2>2, <2>3
<1>5. \A j \in Key : Once(c, t, j)
  <2> SUFFICES ASSUME NEW j \in Key, c.kind[j] = "forward"
               PROVE  Once(c, t, j)
    BY DEF Once
  <2>1. j # k /\ j # up
    BY <1>1
  <2>2. Begun(c, s, j) => Begun(c, t, j)
    BY <1>2, <2>1, BegunKept
  <2> QED
    BY <1>2, <2>2, OnceKept DEF Legal
<1> QED
  BY <1>3, <1>4, <1>5 DEF Legal

(* A set that is failed, settled or called is not forwarded again. *)
LEMMA EndsLegal ==
    ASSUME NEW c, IsScenario(c), NEW s \in Store, NEW t \in Store, Legal(c, s), NEW k \in Key,
           OnlySet(s, t, k), t.unf = s.unf,
           \A h \in Htlc : s.log[h] # "none" <=> t.log[h] # "none",
           t.sets[k] = NoSet \/ (/\ t.sets[k].res \in {"failed", "expired", "settling"}
                                 /\ t.sets[k].htlcs \subseteq s.sets[k].htlcs
                                 /\ t.sets[k].htlcs # {}
                                 /\ t.sets[k].parent = s.sets[k].parent),
           c.kind[k] = "part" => t.sets[k].res # "settling"
    PROVE  Legal(c, t)
<1>1. /\ \A j \in Key \ {k} : t.sets[j] = s.sets[j] /\ t.down[j] = s.down[j]
      /\ t.down[k] = s.down[k]
      /\ t.sets[k].htlcs \subseteq s.sets[k].htlcs
      /\ t.sets[k].res \notin {"waiting", "complete"}
      /\ t.sets[k].parent = None \/ t.sets[k].parent = s.sets[k].parent
      /\ \A j \in Key : s.sets[j].htlcs \subseteq Htlc
      /\ s.unf \subseteq Htlc
  BY StoreFacts DEF OnlySet, OnlyOf, SameOf, NoSet
<1>2. \A j \in Key : t.sets[j].htlcs \subseteq s.sets[j].htlcs
  BY <1>1
<1>3. Placed(c, t)
  <2>1. \A x \in Htlc : t.log[x] # "none" => x \in c.sent
    BY DEF Legal, Placed
  <2>2. \A x \in t.unf : t.log[x] # "none" /\ \A j \in Key : x \notin t.sets[j].htlcs
    BY <1>1, <1>2 DEF Legal, Placed
  <2>3. ASSUME NEW i \in Key, NEW x \in t.sets[i].htlcs
        PROVE  /\ t.log[x] # "none" /\ i \in {c.key[x], Hash(c, c.key[x])}
               /\ \A j \in Key \ {i} : x \notin t.sets[j].htlcs
    <3>1. x \in s.sets[i].htlcs /\ x \in Htlc
      BY <1>1, <1>2
    <3> QED
      BY <1>2, <3>1 DEF Legal, Placed
  <2> QED
    BY <2>1, <2>2, <2>3 DEF Placed
<1>4. \A j \in Key : Formed(c, t, j)
  <2>1. Formed(c, t, k)
    BY <1>1 DEF Legal, Formed
  <2>2. \A j \in Key \ {k} : Formed(c, t, j)
    BY <1>1 DEF Legal, Formed
  <2> QED
    BY <2>1, <2>2
<1>5. ASSUME NEW j \in Key
      PROVE  Once(c, t, j)
  <2>1. Begun(c, s, j) => Begun(c, t, j)
    BY <1>1, BegunKept
  <2> QED
    BY <1>1, <2>1, OnceKept DEF Legal
<1> QED
  BY <1>3, <1>4, <1>5 DEF Legal

LEMMA FailingLegal ==
    ASSUME NEW c, IsScenario(c), NEW s \in Store, NEW t \in Store, Legal(c, s),
           NEW k \in Key, NEW hs, Failing(s, t, k, hs)
    PROVE  Legal(c, t)
<1>1. \A h \in Htlc : s.log[h] # "none" <=> t.log[h] # "none"
  BY DEF Failing, LogSet, Legal, Placed
<1>2. c.kind[k] = "part" => t.sets[k].res # "settling"
  BY DEF Failing, NoSet
<1> QED
  BY <1>1, <1>2, EndsLegal DEF Failing

LEMMA CallsLegal ==
    ASSUME NEW c, IsScenario(c), NEW s \in Store, NEW t \in Store, Legal(c, s),
           NEW k \in Key, Calls(c, s, t, k)
    PROVE  Legal(c, t)
<1>1. t.sets[k].htlcs # {}
  <2>1. s.sets[k] # NoSet
    BY DEF Calls, NoSet
  <2> QED
    BY <2>1 DEF Calls, Legal, Formed
<1> QED
  BY <1>1, EndsLegal DEF Calls

LEMMA SettlesLegal ==
    ASSUME NEW c, IsScenario(c), NEW s \in Store, NEW t \in Store, Legal(c, s),
           NEW k \in Key, NEW hs, Settles(c, s, t, k, hs)
    PROVE  Legal(c, t)
<1>1. \A h \in Htlc : s.log[h] # "none" <=> t.log[h] # "none"
  BY DEF Settles, LogSet, Legal, Placed
<1> QED
  BY <1>1, EndsLegal DEF Settles

(* A called forwarding that was never offered *)
LEMMA OffersLegal ==
    ASSUME NEW c, IsScenario(c), NEW s \in Store, NEW t \in Store, Legal(c, s),
           NEW k \in Key, NEW d \in Attempt, Offers(s, t, k, d),
           c.kind[k] = "forward" => Begun(c, s, k) /\ Tried(s, k) = {}
    PROVE  Legal(c, t)
<1>1. Still(s, t) /\ \A j \in Key \ {k} : t.down[j] = s.down[j]
  BY DEF Offers, Downs, OnlyOf, SameOf
<1>2. /\ Placed(c, t) /\ \A j \in Key : Formed(c, t, j)
      /\ Begun(c, s, k) => Begun(c, t, k)
      /\ \A j \in Key \ {k} : Once(c, t, j)
  BY <1>1, StillLegal
<1>3. Once(c, t, k)
  <2>1. Tried(t, k) \subseteq Tried(s, k) \cup {d}
    BY StoreFacts DEF Offers, Downs, Tried
  <2> QED
    BY <1>2, <2>1 DEF Once
<1> QED
  BY <1>2, <1>3 DEF Legal

(* What was offered is answered. *)
LEMMA AnswersLegal ==
    ASSUME NEW c, IsScenario(c), NEW s \in Store, NEW t \in Store, Legal(c, s),
           NEW k \in Key, NEW d \in Attempt, NEW from, NEW to, Downs(s, t, k, d, from, to),
           from # "none"
    PROVE  Legal(c, t)
<1>1. Still(s, t) /\ \A j \in Key \ {k} : t.down[j] = s.down[j]
  BY DEF Downs, OnlyOf, SameOf
<1>2. /\ Placed(c, t) /\ \A j \in Key : Formed(c, t, j)
      /\ Begun(c, s, k) => Begun(c, t, k)
      /\ \A j \in Key \ {k} : Once(c, t, j)
  BY <1>1, StillLegal
<1>3. Once(c, t, k)
  <2>1. Tried(t, k) \subseteq Tried(s, k)
    BY StoreFacts DEF Downs, Tried
  <2>2. Once(c, s, k)
    BY DEF Legal
  <2> QED
    BY <1>2, <2>1, <2>2 DEF Once
<1> QED
  BY <1>2, <1>3 DEF Legal

LEMMA OthersLegal ==
    ASSUME NEW c, IsScenario(c), NEW s \in Store, NEW t \in Store, Legal(c, s),
           Still(s, t), \A k \in Key : t.down[k] = s.down[k]
    PROVE  Legal(c, t)
BY StillLegal DEF Legal

-----------------------------------------------------------------------------
(*                  What is received covers what is paid                    *)

AllSound(c, s) == \A k \in Key : Sound(c, s, k)
CoverKept(c, s, t, k) == Covers(c, s, k) => Covers(c, t, k)

LEMMA OthersSound ==
    ASSUME NEW c, IsScenario(c), NEW s, NEW t, AllSound(c, s), NEW K \in SUBSET Key,
           \A j \in K : SameOf(s, t, j) /\ LogKept(c, s, t, j)
    PROVE  \A j \in K : Sound(c, t, j) /\ CoverKept(c, s, t, j)
BY SoundKept, CoversKept DEF AllSound, CoverKept

LEMMA RestsSound ==
    ASSUME NEW c, IsScenario(c), NEW s \in Store, NEW t \in Store, AllSound(c, s),
           Rests(s, t)
    PROVE  AllSound(c, t) /\ \A k \in Key : CoverKept(c, s, t, k)
<1>1. \A k \in Key : SameOf(s, t, k) /\ LogKept(c, s, t, k)
  BY DEF Rests, LogKept
<1>2. \A k \in Key : Sound(c, t, k) /\ CoverKept(c, s, t, k)
  BY <1>1, OthersSound
<1> QED
  BY <1>2 DEF AllSound

LEMMA RefusesSound ==
    ASSUME NEW c, IsScenario(c), NEW s \in Store, NEW t \in Store, Legal(c, s), AllSound(c, s),
           NEW h \in Htlc, Refuses(s, t, h)
    PROVE  AllSound(c, t) /\ \A k \in Key : CoverKept(c, s, t, k)
<1>1. \A k \in Key : s.sets[k].htlcs \subseteq Htlc /\ h \notin s.sets[k].htlcs
  BY StoreFacts DEF Refuses, Legal, Placed
<1>2. \A k \in Key : SameOf(s, t, k) /\ LogKept(c, s, t, k)
  BY <1>1 DEF Refuses, LogKept, LogSet
<1>3. \A k \in Key : Sound(c, t, k) /\ CoverKept(c, s, t, k)
  BY <1>2, OthersSound
<1> QED
  BY <1>3 DEF AllSound

LEMMA ArrivesSound ==
    ASSUME NEW c, IsScenario(c), NEW s \in Store, NEW t \in Store, Legal(c, s), AllSound(c, s),
           NEW h \in Htlc, Arrives(s, t, h)
    PROVE  AllSound(c, t) /\ \A k \in Key : CoverKept(c, s, t, k)
<1>1. \A k \in Key : s.sets[k].htlcs \subseteq Htlc /\ h \notin s.sets[k].htlcs
  BY StoreFacts DEF Arrives, Legal, Placed
<1>2. \A k \in Key : SameOf(s, t, k) /\ LogKept(c, s, t, k)
  BY <1>1 DEF Arrives, LogKept, LogSet
<1>3. \A k \in Key : Sound(c, t, k) /\ CoverKept(c, s, t, k)
  BY <1>2, OthersSound
<1> QED
  BY <1>3 DEF AllSound

(* The rest of what is said of k when only its set has changed *)
LEMMA DownstreamKept ==
    ASSUME NEW c, NEW s, NEW t, NEW k \in Key, OnlySet(s, t, k), Downstream(c, s, k),
           CoverKept(c, s, t, k),
           t.failure[k] \in {s.failure[k], "none"},
           Out(s, k) # {} => t.sets[k].res = "settling",
           t.failure[k] = "reason" => t.sets[k].res \in {"settling", "failed"}
    PROVE  Downstream(c, t, k)
<1>1. Out(t, k) = Out(s, k) /\ (Fulfilled(t, k) <=> Fulfilled(s, k))
  BY DEF Out, Fulfilled, OnlySet
<1>2. t.failure[k] = "reason" => s.failure[k] = "reason"
  OBVIOUS
<1>3. k \in t.pre <=> k \in s.pre
  BY DEF OnlySet
<1> QED
  BY <1>1, <1>2, <1>3 DEF Downstream, CoverKept

LEMMA OnlySetSound ==
    ASSUME NEW c, NEW s, NEW t, NEW k \in Key, OnlySet(s, t, k), Sound(c, s, k),
           Collected(c, t, k), CoverKept(c, s, t, k),
           t.failure[k] \in {s.failure[k], "none"},
           Forwards(c, k) /\ Out(s, k) # {} => t.sets[k].res = "settling",
           Forwards(c, k) /\ t.failure[k] = "reason" => t.sets[k].res \in {"settling", "failed"}
    PROVE  Sound(c, t, k)
<1>1. Tried(t, k) = Tried(s, k)
  BY DEF Tried, OnlySet
<1>2. Forwards(c, k) => Downstream(c, t, k)
  BY DownstreamKept DEF Sound
<1> QED
  BY <1>1, <1>2 DEF Sound

LEMMA CollectsSound ==
    ASSUME NEW c, IsScenario(c), NEW s \in Store, NEW t \in Store, Legal(c, s), AllSound(c, s),
           NEW h \in Htlc, NEW k \in Key, k = c.key[h], Collects(s, t, h, k), s.log[h] = "added"
    PROVE  AllSound(c, t) /\ \A j \in Key : CoverKept(c, s, t, j)
<1>1. \A j \in Key \ {k} : SameOf(s, t, j) /\ LogKept(c, s, t, j)
  BY DEF Collects, OnlySet, OnlyOf, LogKept
<1>2. \A j \in Key \ {k} : Sound(c, t, j) /\ CoverKept(c, s, t, j)
  BY <1>1, OthersSound
<1>3. /\ t.log = s.log /\ t.sets[k].htlcs = s.sets[k].htlcs \cup {h} /\ t.sets[k].res = "waiting"
      /\ s.sets[k].res \in {"none", "waiting"} /\ t.failure[k] = s.failure[k]
      /\ OnlySet(s, t, k) /\ (k \in t.pre <=> k \in s.pre)
  BY DEF Collects, OnlySet
<1>4. Sound(c, s, k) /\ Collected(c, s, k)
  BY DEF AllSound, Sound
<1>5. Secures(c, s, k) \subseteq Secures(c, t, k)
  BY <1>3 DEF Secures
<1>6. CoverKept(c, s, t, k)
  BY <1>5, CoversGrows DEF CoverKept
<1>7. Collected(c, t, k)
  <2>1. \A x \in t.sets[k].htlcs : t.log[x] = "added"
    BY <1>3, <1>4 DEF Collected
  <2>2. \A x \in Htlc : Hash(c, c.key[x]) = k /\ t.log[x] = "fulfilled" => k \in t.pre
    BY <1>3, <1>4 DEF Collected
  <2> QED
    BY <1>3, <2>1, <2>2 DEF Collected
<1>8. Forwards(c, k) => Out(s, k) = {} /\ t.failure[k] # "reason"
  BY <1>3, <1>4 DEF Sound, Downstream
<1>9. Sound(c, t, k)
  BY <1>3, <1>4, <1>6, <1>7, <1>8, OnlySetSound
<1> QED
  BY <1>2, <1>6, <1>9 DEF AllSound

LEMMA MarksSound ==
    ASSUME NEW c, IsScenario(c), NEW s \in Store, NEW t \in Store, Legal(c, s), AllSound(c, s),
           NEW k \in Key, Marks(c, s, t, k),
           c.kind[k] # "part" => SumOf(c.amount, s.sets[k].htlcs) >= c.total[k]
    PROVE  AllSound(c, t) /\ \A j \in Key : CoverKept(c, s, t, j)
<1>1. \A j \in Key \ {k} : SameOf(s, t, j) /\ LogKept(c, s, t, j)
  BY DEF Marks, OnlySet, OnlyOf, LogKept
<1>2. \A j \in Key \ {k} : Sound(c, t, j) /\ CoverKept(c, s, t, j)
  BY <1>1, OthersSound
<1>3. /\ t.log = s.log /\ t.sets[k].htlcs = s.sets[k].htlcs /\ t.failure[k] = s.failure[k]
      /\ OnlySet(s, t, k) /\ (k \in t.pre <=> k \in s.pre)
      /\ \/ c.kind[k] = "part" /\ t.sets[k].res = s.sets[k].res
         \/ c.kind[k] # "part" /\ s.sets[k].res = "waiting" /\ t.sets[k].res = "complete"
  BY DEF Marks, OnlySet
<1>4. Sound(c, s, k) /\ Collected(c, s, k) /\ Formed(c, s, k)
  BY DEF AllSound, Sound, Legal
<1>5. Secures(c, s, k) \subseteq Secures(c, t, k)
  BY <1>3 DEF Secures
<1>6. CoverKept(c, s, t, k)
  BY <1>5, CoversGrows DEF CoverKept
<1>7. Collected(c, t, k)
  <2>1. t.sets[k].res # "settling"
    BY <1>3, <1>4 DEF Formed
  <2>2. t.sets[k].res = "complete" => SumOf(c.amount, t.sets[k].htlcs) >= c.total[k]
    BY <1>3, <1>4 DEF Formed
  <2>3. \A x \in Htlc : Hash(c, c.key[x]) = k /\ t.log[x] = "fulfilled" => k \in t.pre
    BY <1>3, <1>4 DEF Collected
  <2>4. \A x \in t.sets[k].htlcs :
          t.log[x] = "added" \/ (t.log[x] = "failed" /\ t.sets[k].res \in {"failed", "expired"})
    <3>1. CASE t.sets[k].res = s.sets[k].res
      BY <1>3, <1>4, <2>1, <3>1 DEF Collected
    <3>2. CASE s.sets[k].res = "waiting"
      BY <1>3, <1>4, <3>2 DEF Collected
    <3> QED
      BY <1>3, <3>1, <3>2
  <2> QED
    BY <2>1, <2>2, <2>3, <2>4 DEF Collected
<1>8. Forwards(c, k) => Out(s, k) = {} /\ t.failure[k] # "reason"
  BY <1>3, <1>4 DEF Sound, Downstream, Forwards
<1>9. Sound(c, t, k)
  BY <1>3, <1>4, <1>6, <1>7, <1>8, OnlySetSound
<1> QED
  BY <1>2, <1>6, <1>9 DEF AllSound

LEMMA MovesSound ==
    ASSUME NEW c, IsScenario(c), NEW s \in Store, NEW t \in Store, Legal(c, s), AllSound(c, s),
           NEW k \in Key, Moves(c, s, t, k)
    PROVE  AllSound(c, t) /\ \A j \in Key : CoverKept(c, s, t, j)
<1> DEFINE up == c.parent[k]
<1>1. up \in Key /\ up # k /\ c.kind[up] = "invoice" /\ c.kind[k] = "part"
      /\ ~ Forwards(c, up) /\ ~ Forwards(c, k)
  BY ScenarioFacts DEF Moves, Forwards
<1>2. /\ t.log = s.log /\ t.down = s.down /\ t.pre = s.pre
      /\ t.sets[k] = NoSet /\ t.failure[k] = "none" /\ t.failure[up] = s.failure[up]
      /\ s.sets[k].res = "waiting"
      /\ \A j \in Key \ {k, up} : SameOf(s, t, j)
      /\ s.sets[up].htlcs \subseteq t.sets[up].htlcs
      /\ t.sets[up].htlcs \subseteq s.sets[up].htlcs \cup s.sets[k].htlcs
      /\ t.sets[up].res = IF s.sets[up] = NoSet THEN "waiting" ELSE s.sets[up].res
  BY DEF Moves
<1>3. \A j \in Key \ {k, up} : Sound(c, t, j) /\ CoverKept(c, s, t, j)
  <2>1. \A j \in Key \ {k, up} : SameOf(s, t, j) /\ LogKept(c, s, t, j)
    BY <1>2 DEF LogKept
  <2> QED
    BY <2>1, OthersSound
<1>4. /\ Collected(c, s, k) /\ Collected(c, s, up)
      /\ s.failure[up] # "reason" /\ Tried(s, up) = {} /\ Tried(s, k) = {}
  BY <1>1 DEF AllSound, Sound
<1>5. \A x \in Htlc : Hash(c, c.key[x]) # k
  BY <1>1, ScenarioFacts
<1>6. Secures(c, s, k) = {}
  BY <1>5 DEF Secures
<1>7. CoverKept(c, s, t, k)
  BY <1>6, CoversGrows DEF CoverKept
<1>8. CoverKept(c, s, t, up)
  <2>1. s.sets[up].res = "settling" => t.sets[up].res = "settling"
    BY <1>2 DEF NoSet
  <2>2. Secures(c, s, up) \subseteq Secures(c, t, up)
    BY <1>2, <2>1 DEF Secures
  <2> QED
    BY <1>1, <2>2, CoversGrows DEF CoverKept
<1>9. Tried(t, k) = {} /\ Tried(t, up) = {}
  BY <1>2, <1>4 DEF Tried
<1>10. Sound(c, t, k)
  <2>1. Collected(c, t, k)
    BY <1>2, <1>5 DEF Collected, NoSet
  <2> QED
    BY <1>1, <1>2, <1>9, <2>1 DEF Sound
<1>11. Sound(c, t, up)
  <2>1. \A x \in s.sets[k].htlcs : t.log[x] = "added"
    BY <1>2, <1>4 DEF Collected
  <2>2. \A x \in s.sets[up].htlcs :
          \/ t.log[x] = "added"
          \/ t.log[x] = "fulfilled" /\ t.sets[up].res = "settling"
          \/ t.log[x] = "failed" /\ t.sets[up].res \in {"failed", "expired"}
    BY <1>2, <1>4 DEF Collected, NoSet
  <2>3. \A x \in t.sets[up].htlcs :
          \/ t.log[x] = "added"
          \/ t.log[x] = "fulfilled" /\ t.sets[up].res = "settling"
          \/ t.log[x] = "failed" /\ t.sets[up].res \in {"failed", "expired"}
    BY <1>2, <2>1, <2>2
  <2>4. t.sets[up].res = "complete" => SumOf(c.amount, t.sets[up].htlcs) >= c.total[up]
    <3>1. t.sets[up].htlcs \in SUBSET Htlc /\ s.sets[up].htlcs \in SUBSET t.sets[up].htlcs
          /\ c.total[up] \in Nat
      BY <1>1, <1>2, StoreFacts, ScenarioFacts
    <3>2. t.sets[up].res = "complete" => s.sets[up].res = "complete"
      BY <1>2
    <3> QED
      BY <1>4, <3>1, <3>2, AmountsGrow DEF Collected
  <2>5. t.sets[up].res = "settling" => Covers(c, t, up)
    BY <1>2, <1>4, <1>8 DEF Collected, CoverKept
  <2>6. \A x \in Htlc : Hash(c, c.key[x]) = up /\ t.log[x] = "fulfilled" => up \in t.pre
    BY <1>2, <1>4 DEF Collected
  <2>7. Collected(c, t, up)
    BY <2>3, <2>4, <2>5, <2>6 DEF Collected
  <2> QED
    BY <1>1, <1>2, <1>4, <1>9, <2>7 DEF Sound
<1> QED
  BY <1>3, <1>7, <1>8, <1>10, <1>11 DEF AllSound

(* Only a set that nothing was paid for is failed once it is SETTLING. *)
LEMMA FailingSound ==
    ASSUME NEW c, IsScenario(c), NEW s \in Store, NEW t \in Store, Legal(c, s), AllSound(c, s),
           NEW k \in Key, NEW hs, Failing(s, t, k, hs),
           t.failure[k] = "reason" => t.sets[k].res = "failed",
           s.sets[k].res = "settling" => k \notin s.pre /\ Out(s, k) = {}
    PROVE  /\ AllSound(c, t) /\ \A j \in Key \ {k} : CoverKept(c, s, t, j)
           /\ s.sets[k].res # "settling" => CoverKept(c, s, t, k)
<1>1. /\ OnlySet(s, t, k) /\ hs \subseteq s.sets[k].htlcs /\ LogSet(s, t, hs, "failed")
      /\ s.sets[k].htlcs \subseteq Htlc
  BY StoreFacts DEF Failing
<1>2. Sound(c, s, k) /\ Collected(c, s, k) /\ Formed(c, s, k) /\ Placed(c, s)
  BY DEF AllSound, Sound, Legal
<1>3. \A x \in s.sets[k].htlcs : s.log[x] # "fulfilled"
  <2> SUFFICES ASSUME NEW x \in s.sets[k].htlcs, s.log[x] = "fulfilled"
               PROVE  FALSE
    OBVIOUS
  <2>1. s.sets[k].res = "settling"
    BY <1>2 DEF Collected
  <2>2. c.kind[k] # "part"
    BY <1>2, <2>1 DEF Formed
  <2>3. Hash(c, c.key[x]) = k /\ x \in Htlc
    BY <1>1, <1>2, <2>2, MembersPay
  <2> QED
    BY <1>2, <2>1, <2>3 DEF Collected
<1>4. \A x \in Htlc : t.log[x] = "fulfilled" <=> s.log[x] = "fulfilled"
  BY <1>1, <1>3 DEF LogSet
<1>5. \A j \in Key \ {k} : SameOf(s, t, j) /\ LogKept(c, s, t, j)
  <2> SUFFICES ASSUME NEW j \in Key \ {k}
               PROVE  SameOf(s, t, j) /\ LogKept(c, s, t, j)
    OBVIOUS
  <2>1. \A x \in s.sets[j].htlcs : x \in Htlc /\ x \notin hs
    BY <1>1, <1>2, StoreFacts DEF Placed
  <2> QED
    BY <1>1, <1>4, <2>1 DEF LogKept, LogSet, OnlySet, OnlyOf
<1>6. \A j \in Key \ {k} : Sound(c, t, j) /\ CoverKept(c, s, t, j)
  BY <1>5, OthersSound
<1>7. s.sets[k].res # "settling" => CoverKept(c, s, t, k)
  <2>1. s.sets[k].res # "settling" => Secures(c, s, k) \subseteq Secures(c, t, k)
    BY <1>4 DEF Secures
  <2> QED
    BY <2>1, CoversGrows DEF CoverKept
<1>8. Collected(c, t, k)
  <2>1. t.sets[k] = NoSet \/ (/\ t.sets[k].res \in {"failed", "expired"}
                              /\ t.sets[k].htlcs \subseteq s.sets[k].htlcs)
    BY DEF Failing
  <2>2. t.sets[k].res \notin {"complete", "settling"}
    BY <2>1 DEF NoSet
  <2>3. \A x \in s.sets[k].htlcs : s.log[x] \in {"added", "failed"}
    BY <1>2, <1>3 DEF Collected
  <2>4. \A x \in t.sets[k].htlcs : t.log[x] \in {"added", "failed"} /\ t.sets[k].res \in {"failed", "expired"}
    <3>1. CASE t.sets[k] = NoSet
      BY <3>1 DEF NoSet
    <3>2. CASE t.sets[k].res \in {"failed", "expired"} /\ t.sets[k].htlcs \subseteq s.sets[k].htlcs
      BY <1>1, <2>3, <3>2 DEF LogSet
    <3> QED
      BY <2>1, <3>1, <3>2
  <2>5. \A x \in Htlc : Hash(c, c.key[x]) = k /\ t.log[x] = "fulfilled" => k \in t.pre
    BY <1>1, <1>2, <1>4 DEF Collected, OnlySet
  <2> QED
    BY <2>2, <2>4, <2>5 DEF Collected
<1>9. ~ Forwards(c, k) => Sound(c, t, k)
  <2>1. Tried(t, k) = Tried(s, k)
    BY <1>1 DEF Tried, OnlySet
  <2>2. ~ Forwards(c, k) => t.failure[k] # "reason"
    BY <1>2 DEF Failing, Sound
  <2> QED
    BY <1>2, <1>8, <2>1, <2>2 DEF Sound
<1>10. Forwards(c, k) => Sound(c, t, k)
  <2> SUFFICES ASSUME Forwards(c, k)
               PROVE  Sound(c, t, k)
    OBVIOUS
  <2>1. Downstream(c, s, k)
    BY <1>2 DEF Sound
  <2>2. /\ Out(t, k) = Out(s, k) /\ (Fulfilled(t, k) <=> Fulfilled(s, k))
        /\ k \in t.pre <=> k \in s.pre
    BY <1>1 DEF Out, Fulfilled, OnlySet
  <2>3. Out(s, k) = {}
    BY <2>1 DEF Downstream
  <2>4. Fulfilled(s, k) => s.sets[k].res # "settling"
    BY <2>1 DEF Downstream
  <2>5. Fulfilled(s, k) => Covers(c, t, k)
    BY <1>7, <2>1, <2>4 DEF Downstream, CoverKept
  <2>6. t.failure[k] = "reason" => s.failure[k] = "reason" /\ t.sets[k].res = "failed"
    BY DEF Failing
  <2>7. Downstream(c, t, k)
    BY <2>1, <2>2, <2>3, <2>5, <2>6 DEF Downstream
  <2> QED
    BY <1>8, <2>7 DEF Sound
<1> QED
  BY <1>6, <1>7, <1>9, <1>10 DEF AllSound

LEMMA CallsSound ==
    ASSUME NEW c, IsScenario(c), NEW s \in Store, NEW t \in Store, Legal(c, s), AllSound(c, s),
           NEW k \in Key, Calls(c, s, t, k), SumOf(c.amount, s.sets[k].htlcs) >= c.total[k]
    PROVE  AllSound(c, t) /\ \A j \in Key : CoverKept(c, s, t, j)
<1>1. \A j \in Key \ {k} : SameOf(s, t, j) /\ LogKept(c, s, t, j)
  BY DEF Calls, OnlySet, OnlyOf, LogKept
<1>2. \A j \in Key \ {k} : Sound(c, t, j) /\ CoverKept(c, s, t, j)
  BY <1>1, OthersSound
<1>3. /\ t.log = s.log /\ t.sets[k].htlcs = s.sets[k].htlcs /\ t.failure[k] = s.failure[k]
      /\ OnlySet(s, t, k) /\ (k \in t.pre <=> k \in s.pre) /\ c.kind[k] # "part"
      /\ s.sets[k].res \in {"waiting", "complete"} /\ t.sets[k].res = "settling"
      /\ s.sets[k].htlcs \subseteq Htlc
  BY StoreFacts DEF Calls, OnlySet
<1>4. Sound(c, s, k) /\ Collected(c, s, k) /\ Placed(c, s)
  BY DEF AllSound, Sound, Legal
<1>5. Secures(c, s, k) \subseteq Secures(c, t, k)
  BY <1>3 DEF Secures
<1>6. CoverKept(c, s, t, k)
  BY <1>5, CoversGrows DEF CoverKept
<1>7. \A x \in s.sets[k].htlcs : s.log[x] = "added" /\ Hash(c, c.key[x]) = k
  BY <1>3, <1>4, MembersPay DEF Collected
<1>8. Covers(c, t, k)
  <2>1. s.sets[k].htlcs \subseteq Secures(c, t, k)
    BY <1>3, <1>7 DEF Secures
  <2> QED
    BY <2>1, EnoughCovers
<1>9. Collected(c, t, k)
  <2>1. \A x \in t.sets[k].htlcs : t.log[x] = "added"
    BY <1>3, <1>7
  <2>2. \A x \in Htlc : Hash(c, c.key[x]) = k /\ t.log[x] = "fulfilled" => k \in t.pre
    BY <1>3, <1>4 DEF Collected
  <2> QED
    BY <1>3, <1>8, <2>1, <2>2 DEF Collected
<1>10. Sound(c, t, k)
  BY <1>3, <1>4, <1>6, <1>9, OnlySetSound
<1> QED
  BY <1>2, <1>6, <1>10 DEF AllSound

LEMMA SettlesSound ==
    ASSUME NEW c, IsScenario(c), NEW s \in Store, NEW t \in Store, Legal(c, s), AllSound(c, s),
           NEW k \in Key, NEW hs, Settles(c, s, t, k, hs),
           s.sets[k].res # "settling" => SumOf(c.amount, s.sets[k].htlcs) >= c.total[k]
    PROVE  AllSound(c, t) /\ Covers(c, t, k) /\ \A j \in Key : CoverKept(c, s, t, j)
<1>1. /\ OnlySet(s, t, k) /\ c.kind[k] # "part" /\ k \in s.pre /\ k \in t.pre
      /\ hs \subseteq s.sets[k].htlcs /\ LogSet(s, t, hs, "fulfilled")
      /\ s.sets[k].res \in {"waiting", "complete", "settling"}
      /\ s.sets[k].res = "settling" \/ ~ Forwards(c, k)
      /\ \A x \in s.sets[k].htlcs \ t.sets[k].htlcs : t.log[x] = "fulfilled"
      /\ s.sets[k].htlcs \subseteq Htlc
  BY StoreFacts DEF Settles, OnlySet
<1>2. \/ t.sets[k] = NoSet /\ t.failure[k] = "none"
      \/ /\ t.sets[k].res = "settling" /\ t.sets[k].htlcs \subseteq s.sets[k].htlcs
         /\ t.failure[k] = s.failure[k]
  BY DEF Settles
<1>3. Sound(c, s, k) /\ Collected(c, s, k) /\ Placed(c, s)
  BY DEF AllSound, Sound, Legal
<1>4. \A x \in s.sets[k].htlcs : /\ Hash(c, c.key[x]) = k
                                 /\ s.log[x] \in {"added", "fulfilled"}
                                 /\ t.log[x] \in {"added", "fulfilled"}
  <2>1. \A x \in s.sets[k].htlcs : Hash(c, c.key[x]) = k
    BY <1>1, <1>3, MembersPay
  <2>2. \A x \in s.sets[k].htlcs : s.log[x] \in {"added", "fulfilled"}
    BY <1>1, <1>3 DEF Collected
  <2> QED
    BY <1>1, <2>1, <2>2 DEF LogSet
<1>5. \A j \in Key \ {k} : SameOf(s, t, j) /\ LogKept(c, s, t, j)
  <2> SUFFICES ASSUME NEW j \in Key \ {k}
               PROVE  SameOf(s, t, j) /\ LogKept(c, s, t, j)
    OBVIOUS
  <2>1. \A x \in s.sets[j].htlcs : x \in Htlc /\ x \notin hs
    BY <1>1, <1>3, StoreFacts DEF Placed
  <2>2. \A x \in Htlc : Hash(c, c.key[x]) = j => x \notin hs
    BY <1>1, <1>4
  <2> QED
    BY <1>1, <2>1, <2>2 DEF LogKept, LogSet, OnlySet, OnlyOf
<1>6. \A j \in Key \ {k} : Sound(c, t, j) /\ CoverKept(c, s, t, j)
  BY <1>5, OthersSound
<1>7. s.sets[k].htlcs \subseteq Secures(c, t, k)
  <2> SUFFICES ASSUME NEW x \in s.sets[k].htlcs
               PROVE  x \in Secures(c, t, k)
    OBVIOUS
  <2>1. CASE x \notin t.sets[k].htlcs
    BY <1>1, <1>4, <2>1 DEF Secures
  <2>2. CASE x \in t.sets[k].htlcs
    <3>1. t.sets[k].res = "settling"
      BY <1>2, <2>2 DEF NoSet
    <3> QED
      BY <1>1, <1>4, <2>2, <3>1 DEF Secures
  <2> QED
    BY <2>1, <2>2
<1>8. Secures(c, s, k) \subseteq Secures(c, t, k)
  <2> SUFFICES ASSUME NEW x \in Secures(c, s, k), x \notin s.sets[k].htlcs
               PROVE  x \in Secures(c, t, k)
    BY <1>7
  <2>1. x \in Htlc /\ Hash(c, c.key[x]) = k /\ s.log[x] = "fulfilled"
    BY DEF Secures
  <2>2. t.log[x] = "fulfilled"
    BY <1>1, <2>1 DEF LogSet
  <2> QED
    BY <2>1, <2>2 DEF Secures
<1>9. CoverKept(c, s, t, k)
  BY <1>8, CoversGrows DEF CoverKept
<1>10. Covers(c, t, k)
  <2>1. CASE s.sets[k].res = "settling"
    BY <1>3, <1>9, <2>1 DEF Collected, CoverKept
  <2>2. CASE s.sets[k].res # "settling"
    BY <1>7, <2>2, EnoughCovers
  <2> QED
    BY <2>1, <2>2
<1>11. Collected(c, t, k)
  <2>1. \A x \in t.sets[k].htlcs : t.log[x] \in {"added", "fulfilled"} /\ t.sets[k].res = "settling"
    BY <1>2, <1>4 DEF NoSet
  <2>2. t.sets[k].res # "complete"
    BY <1>2 DEF NoSet
  <2> QED
    BY <1>1, <1>10, <2>1, <2>2 DEF Collected
<1>12. Sound(c, t, k)
  <2>1. t.failure[k] \in {s.failure[k], "none"}
    BY <1>2
  <2>2. Forwards(c, k) => Out(s, k) = {} /\ s.failure[k] # "reason"
    BY <1>1, <1>3 DEF Sound, Downstream
  <2> QED
    BY <1>1, <1>3, <1>9, <1>11, <2>1, <2>2, OnlySetSound
<1> QED
  BY <1>6, <1>9, <1>10, <1>12 DEF AllSound

(* What is downstream of k changes, or whether k has failed, or its preimage. *)
LEMMA StillKept ==
    ASSUME NEW c, IsScenario(c), NEW s \in Store, NEW t \in Store, AllSound(c, s), NEW k \in Key,
           Still(s, t), OnlyOf(s, t, k)
    PROVE  /\ \A j \in Key \ {k} : Sound(c, t, j)
           /\ \A j \in Key : Secures(c, t, j) = Secures(c, s, j) /\ (Covers(c, t, j) <=> Covers(c, s, j))
           /\ s.pre \subseteq t.pre => Collected(c, t, k)
<1>1. t.log = s.log /\ \A j \in Key : t.sets[j] = s.sets[j]
  BY DEF Still
<1>2. \A j \in Key \ {k} : Sound(c, t, j)
  <2>1. \A j \in Key \ {k} : SameOf(s, t, j) /\ LogKept(c, s, t, j)
    BY <1>1 DEF OnlyOf, LogKept
  <2> QED
    BY <2>1, OthersSound
<1>3. \A j \in Key : Secures(c, t, j) = Secures(c, s, j)
  BY <1>1 DEF Secures
<1>4. \A j \in Key : Covers(c, t, j) <=> Covers(c, s, j)
  BY <1>3 DEF Covers
<1>5. s.pre \subseteq t.pre => Collected(c, t, k)
  <2>1. Collected(c, s, k)
    BY DEF AllSound, Sound
  <2>2. t.log = s.log /\ t.sets[k] = s.sets[k] /\ (Covers(c, t, k) <=> Covers(c, s, k))
    BY <1>1, <1>4
  <2> QED
    BY <2>1, <2>2 DEF Collected
<1> QED
  BY <1>2, <1>3, <1>4, <1>5

LEMMA OffersSound ==
    ASSUME NEW c, IsScenario(c), NEW s \in Store, NEW t \in Store, AllSound(c, s), NEW k \in Key,
           NEW d \in Attempt, Offers(s, t, k, d), Forwards(c, k),
           k \notin s.pre, s.sets[k].res = "settling", s.failure[k] # "reason", Out(s, k) = {}
    PROVE  AllSound(c, t) /\ \A j \in Key : CoverKept(c, s, t, j)
<1>1. /\ Still(s, t) /\ OnlyOf(s, t, k) /\ t.pre = s.pre /\ t.failure[k] = s.failure[k]
      /\ t.sets[k] = s.sets[k]
      /\ s.down[k] \in [Attempt -> {"none", "offered", "fulfilled", "failing", "failed"}]
      /\ s.down[k][d] = "none" /\ t.down[k] = [s.down[k] EXCEPT ![d] = "offered"]
  BY StoreFacts DEF Offers, Downs, Still
<1>2. Downstream(c, s, k)
  BY DEF AllSound, Sound
<1>3. \A e \in Out(t, k) : e = d
  <2>1. \A e \in Attempt : s.down[k][e] \notin {"offered", "failing"}
    BY DEF Out
  <2> QED
    BY <1>1, <2>1 DEF Out
<1>4. ~ Fulfilled(t, k)
  <2>1. ~ Fulfilled(s, k)
    BY <1>2 DEF Downstream
  <2> QED
    BY <1>1, <2>1 DEF Fulfilled
<1>5. Downstream(c, t, k)
  BY <1>1, <1>3, <1>4 DEF Downstream
<1>6. Sound(c, t, k)
  BY <1>1, <1>5, StillKept DEF Sound
<1> QED
  BY <1>1, <1>6, StillKept DEF AllSound, CoverKept

LEMMA AnsweredForwards ==
    ASSUME NEW c, NEW s, AllSound(c, s), NEW k \in Key, NEW d \in Attempt,
           s.down[k][d] # "none"
    PROVE  Forwards(c, k) /\ Downstream(c, s, k)
<1>1. d \in Tried(s, k)
  BY DEF Tried
<1> QED
  BY <1>1 DEF AllSound, Sound

LEMMA FulfillsSound ==
    ASSUME NEW c, IsScenario(c), NEW s \in Store, NEW t \in Store, AllSound(c, s), NEW k \in Key,
           NEW d \in Attempt, Fulfills(s, t, k, d)
    PROVE  AllSound(c, t) /\ \A j \in Key : CoverKept(c, s, t, j)
<1>1. /\ Still(s, t) /\ OnlyOf(s, t, k) /\ t.pre = s.pre \cup {k} /\ t.failure[k] = s.failure[k]
      /\ t.sets[k] = s.sets[k]
      /\ s.down[k] \in [Attempt -> {"none", "offered", "fulfilled", "failing", "failed"}]
      /\ s.down[k][d] = "offered" /\ t.down[k] = [s.down[k] EXCEPT ![d] = "fulfilled"]
  BY StoreFacts DEF Fulfills, Downs, Still
<1>2. Forwards(c, k) /\ Downstream(c, s, k) /\ Collected(c, s, k)
  BY <1>1, AnsweredForwards DEF AllSound, Sound
<1>3. d \in Out(s, k)
  BY <1>1 DEF Out
<1>4. s.sets[k].res = "settling" /\ s.failure[k] # "reason" /\ \A e \in Out(s, k) : e = d
  BY <1>2, <1>3 DEF Downstream
<1>5. Out(t, k) = {}
  BY <1>1, <1>4 DEF Out
<1>6. Fulfilled(t, k)
  BY <1>1 DEF Fulfilled
<1>7. Covers(c, t, k)
  <2>1. Covers(c, s, k)
    BY <1>2, <1>4 DEF Collected
  <2> QED
    BY <1>1, <2>1, StillKept
<1>8. Downstream(c, t, k)
  BY <1>1, <1>4, <1>5, <1>6, <1>7 DEF Downstream
<1>9. Sound(c, t, k)
  BY <1>1, <1>2, <1>8, StillKept DEF Sound
<1> QED
  BY <1>1, <1>9, StillKept DEF AllSound, CoverKept

LEMMA WillFailSound ==
    ASSUME NEW c, IsScenario(c), NEW s \in Store, NEW t \in Store, AllSound(c, s), NEW k \in Key,
           NEW d \in Attempt, WillFail(s, t, k, d)
    PROVE  AllSound(c, t) /\ \A j \in Key : CoverKept(c, s, t, j)
<1>1. /\ Still(s, t) /\ OnlyOf(s, t, k) /\ t.pre = s.pre /\ t.failure[k] = s.failure[k]
      /\ t.sets[k] = s.sets[k]
      /\ s.down[k] \in [Attempt -> {"none", "offered", "fulfilled", "failing", "failed"}]
      /\ s.down[k][d] = "offered" /\ t.down[k] = [s.down[k] EXCEPT ![d] = "failing"]
  BY StoreFacts DEF WillFail, Downs, Still
<1>2. Forwards(c, k) /\ Downstream(c, s, k)
  BY <1>1, AnsweredForwards
<1>3. Out(t, k) = Out(s, k) /\ (Fulfilled(t, k) <=> Fulfilled(s, k))
  BY <1>1 DEF Out, Fulfilled
<1>4. Covers(c, s, k) <=> Covers(c, t, k)
  BY <1>1, StillKept
<1>5. Downstream(c, t, k)
  BY <1>1, <1>2, <1>3, <1>4 DEF Downstream
<1>6. Sound(c, t, k)
  BY <1>1, <1>2, <1>5, StillKept DEF Sound
<1> QED
  BY <1>1, <1>6, StillKept DEF AllSound, CoverKept

LEMMA FailsSound ==
    ASSUME NEW c, IsScenario(c), NEW s \in Store, NEW t \in Store, AllSound(c, s), NEW k \in Key,
           NEW d \in Attempt, HasFailed(s, t, k, d)
    PROVE  AllSound(c, t) /\ \A j \in Key : CoverKept(c, s, t, j)
<1>1. /\ Still(s, t) /\ OnlyOf(s, t, k) /\ t.pre = s.pre
      /\ t.sets[k] = s.sets[k]
      /\ s.down[k] \in [Attempt -> {"none", "offered", "fulfilled", "failing", "failed"}]
      /\ s.down[k][d] = "failing" /\ t.down[k] = [s.down[k] EXCEPT ![d] = "failed"]
  BY StoreFacts DEF HasFailed, Downs, Still
<1>2. Forwards(c, k) /\ Downstream(c, s, k)
  BY <1>1, AnsweredForwards
<1>3. d \in Out(s, k)
  BY <1>1 DEF Out
<1>4. /\ s.sets[k].res = "settling" /\ k \notin s.pre /\ ~ Fulfilled(s, k)
      /\ \A e \in Out(s, k) : e = d
  BY <1>2, <1>3 DEF Downstream
<1>5. Out(t, k) = {} /\ ~ Fulfilled(t, k)
  BY <1>1, <1>4 DEF Out, Fulfilled
<1>6. Downstream(c, t, k)
  BY <1>1, <1>4, <1>5 DEF Downstream
<1>7. Sound(c, t, k)
  BY <1>1, <1>2, <1>6, StillKept DEF Sound
<1> QED
  BY <1>1, <1>7, StillKept DEF AllSound, CoverKept

LEMMA GivesUpSound ==
    ASSUME NEW c, IsScenario(c), NEW s \in Store, NEW t \in Store, AllSound(c, s), NEW k \in Key,
           GivesUp(s, t, k), Forwards(c, k),
           k \notin s.pre, s.sets[k].res = "settling", Out(s, k) = {}
    PROVE  AllSound(c, t) /\ \A j \in Key : CoverKept(c, s, t, j)
<1>1. /\ Still(s, t) /\ OnlyOf(s, t, k) /\ t.pre = s.pre /\ t.sets[k] = s.sets[k]
      /\ t.down[k] = s.down[k]
  BY DEF GivesUp, Still
<1>2. Downstream(c, s, k)
  BY DEF AllSound, Sound
<1>3. Out(t, k) = {} /\ ~ Fulfilled(t, k)
  <2>1. ~ Fulfilled(s, k)
    BY <1>2 DEF Downstream
  <2> QED
    BY <1>1, <2>1 DEF Out, Fulfilled
<1>4. Downstream(c, t, k)
  BY <1>1, <1>3 DEF Downstream
<1>5. Sound(c, t, k)
  BY <1>1, <1>4, StillKept DEF Sound
<1> QED
  BY <1>1, <1>5, StillKept DEF AllSound, CoverKept

LEMMA RevealsSound ==
    ASSUME NEW c, IsScenario(c), NEW s \in Store, NEW t \in Store, AllSound(c, s), NEW k \in Key,
           Reveals(s, t, k), ~ Forwards(c, k)
    PROVE  AllSound(c, t) /\ \A j \in Key : CoverKept(c, s, t, j)
<1>1. /\ Still(s, t) /\ OnlyOf(s, t, k) /\ t.pre = s.pre \cup {k} /\ t.failure[k] = s.failure[k]
      /\ Tried(t, k) = Tried(s, k)
  BY DEF Reveals, Tried
<1>2. s.failure[k] # "reason" /\ Tried(s, k) = {}
  BY DEF AllSound, Sound
<1>3. Sound(c, t, k)
  BY <1>1, <1>2, StillKept DEF Sound
<1> QED
  BY <1>1, <1>3, StillKept DEF AllSound, CoverKept

-----------------------------------------------------------------------------
(*                    What the second loop leaves of a set                  *)

(* b is s, where the set of k has the resolution x. *)
Base(s, b, k, x) ==
    /\ b \in Store /\ b.log = s.log /\ b.unf = s.unf
    /\ b.down = s.down /\ b.pre = s.pre /\ b.failure = s.failure
    /\ \A j \in Key \ {k} : b.sets[j] = s.sets[j]
    /\ b.sets[k].res = x /\ b.sets[k] # NoSet
    /\ b.sets[k].htlcs = s.sets[k].htlcs /\ b.sets[k].parent = s.sets[k].parent

LEMMA ResBase ==
    ASSUME NEW s \in Store, NEW k \in Key, NEW x \in Resolutions
    PROVE  Base(s, [s EXCEPT !.sets[k].res = x], k, x)
<1> DEFINE rec == [s.sets[k] EXCEPT !.res = x]
           b   == [s EXCEPT !.sets[k].res = x]
<1>1. s.sets \in [Key -> SetRecord] /\ s.sets[k] \in SetRecord
  BY StoreFacts
<1>2. /\ rec \in SetRecord /\ rec # NoSet /\ rec.res = x
      /\ rec.htlcs = s.sets[k].htlcs /\ rec.parent = s.sets[k].parent
  BY <1>1, SetRecordChanged DEF Resolutions, SetRecord, NoSet
<1>3. b = [s EXCEPT !.sets = [s.sets EXCEPT ![k] = rec]]
  BY <1>1 DEF Store
<1> HIDE DEF rec, b
<1>4. /\ b \in Store /\ b.log = s.log /\ b.unf = s.unf
      /\ b.down = s.down /\ b.pre = s.pre /\ b.failure = s.failure
      /\ b.sets = [s.sets EXCEPT ![k] = rec]
  BY <1>1, <1>2, <1>3 DEF Store
<1>5. Base(s, b, k, x)
  BY <1>1, <1>2, <1>4 DEF Base
<1> QED
  BY <1>5 DEF b

LEMMA SettlingBase ==
    ASSUME TypeOK, NEW k \in Key
    PROVE  Base(store, Settling(k), k, "settling")
<1> DEFINE b == [store EXCEPT !.sets[k].res = "settling"]
<1>1. store \in Store /\ store.sets \in [Key -> SetRecord] /\ Settling(k) \in Store
  BY SettlingTyped DEF TypeOK, Store
<1>2. Base(store, b, k, "settling")
  BY <1>1, ResBase DEF Resolutions
<1>3. /\ Settling(k).log = store.log /\ Settling(k).unf = store.unf
      /\ Settling(k).down = store.down /\ Settling(k).pre = store.pre
      /\ Settling(k).failure = store.failure /\ Settling(k).sets = b.sets
  BY <1>1 DEF Settling, Store
<1> HIDE DEF b
<1> QED
  BY <1>1, <1>2, <1>3 DEF Base

(* HTLCs of k are settled or failed, and those of `gone' leave its set. *)
Ended(s, t, k, hs, what, x, gone) ==
    /\ OnlySet(s, t, k) /\ t.unf = s.unf /\ LogSet(s, t, hs, what)
    /\ \/ t.sets[k] = NoSet /\ t.failure[k] = "none" /\ s.sets[k].htlcs \subseteq gone
       \/ /\ t.sets[k].res = x /\ t.sets[k].parent = s.sets[k].parent
          /\ t.sets[k].htlcs = s.sets[k].htlcs \ gone /\ t.sets[k].htlcs # {}
          /\ t.failure[k] = s.failure[k]

LEMMA LoggedEnded ==
    ASSUME NEW s \in Store, NEW b, NEW k \in Key, NEW x, Base(s, b, k, x), s.sets[k].htlcs # {},
           NEW hs \in SUBSET Htlc, NEW what
    PROVE  Ended(s, SetLog(b, hs, what), k, hs, what, x, {})
<1> DEFINE t == SetLog(b, hs, what)
<1>1. /\ t.sets = b.sets /\ t.unf = b.unf /\ t.down = b.down /\ t.pre = b.pre /\ t.failure = b.failure
      /\ \A h \in Htlc : t.log[h] = IF h \in hs THEN what ELSE b.log[h]
  BY DEF Base, SetLog, Store
<1> HIDE DEF t
<1>2. OnlySet(s, t, k)
  BY <1>1 DEF Base, OnlySet, OnlyOf, SameOf
<1>3. LogSet(s, t, hs, what)
  BY <1>1 DEF Base, LogSet
<1>4. Ended(s, t, k, hs, what, x, {})
  BY <1>1, <1>2, <1>3 DEF Base, Ended
<1> QED
  BY <1>4 DEF t

LEMMA CleanedIs ==
    ASSUME NEW s \in Store, NEW k \in Key
    PROVE  LET t == Cleaned(s, k) IN
           /\ t.log = s.log /\ t.unf = s.unf /\ t.down = s.down /\ t.pre = s.pre
           /\ \A j \in Key \ {k} : t.sets[j] = s.sets[j] /\ t.failure[j] = s.failure[j]
           /\ IF s.sets[k].htlcs # {} THEN t.sets[k] = s.sets[k] /\ t.failure[k] = s.failure[k]
                                      ELSE t.sets[k] = NoSet /\ t.failure[k] = "none"
BY DEF Cleaned, Store

LEMMA TakenEnded ==
    ASSUME NEW s \in Store, NEW b, NEW k \in Key, NEW x, Base(s, b, k, x),
           NEW hs \in SUBSET Htlc, NEW what, what \in {"fulfilled", "failed"},
           NEW gone \in SUBSET Htlc
    PROVE  Ended(s, Cleaned(Taken(b, k, hs, what, gone), k), k, hs, what, x, gone)
<1> DEFINE left == Taken(b, k, hs, what, gone)
           t    == Cleaned(left, k)
<1>1. IsLeft(left, b, k, hs, what, gone)
  BY TakenTyped DEF Base
<1> HIDE DEF left
<1>2. left \in Store
  BY <1>1 DEF IsLeft
<1>3. /\ t.log = left.log /\ t.unf = left.unf /\ t.down = left.down /\ t.pre = left.pre
      /\ \A j \in Key \ {k} : t.sets[j] = left.sets[j] /\ t.failure[j] = left.failure[j]
      /\ IF left.sets[k].htlcs # {} THEN t.sets[k] = left.sets[k] /\ t.failure[k] = left.failure[k]
                                    ELSE t.sets[k] = NoSet /\ t.failure[k] = "none"
  BY <1>2, CleanedIs
<1> HIDE DEF t
<1>4. OnlySet(s, t, k)
  BY <1>1, <1>3 DEF Base, IsLeft, OnlySet, OnlyOf, SameOf
<1>5. LogSet(s, t, hs, what)
  BY <1>1, <1>3 DEF Base, IsLeft, LogSet
<1>6. left.sets[k].htlcs = s.sets[k].htlcs \ gone
  BY <1>1 DEF Base, IsLeft
<1>7. CASE left.sets[k].htlcs # {}
  <2>1. /\ t.sets[k].res = x /\ t.sets[k].parent = s.sets[k].parent
        /\ t.sets[k].htlcs = s.sets[k].htlcs \ gone /\ t.sets[k].htlcs # {}
        /\ t.failure[k] = s.failure[k] /\ t.unf = s.unf
    BY <1>1, <1>3, <1>6, <1>7 DEF Base, IsLeft
  <2>2. Ended(s, t, k, hs, what, x, gone)
    BY <1>4, <1>5, <2>1 DEF Ended
  <2> QED
    BY <2>2 DEF t, left
<1>8. CASE left.sets[k].htlcs = {}
  <2>1. t.sets[k] = NoSet /\ t.failure[k] = "none" /\ s.sets[k].htlcs \subseteq gone /\ t.unf = s.unf
    BY <1>1, <1>3, <1>6, <1>8 DEF Base, IsLeft
  <2>2. Ended(s, t, k, hs, what, x, gone)
    BY <1>4, <1>5, <2>1 DEF Ended
  <2> QED
    BY <2>2 DEF t, left
<1> QED
  BY <1>7, <1>8

LEMMA HashIs == \A k : HashOf(k) = Hash(sc, k) /\ (IsForward(k) <=> Forwards(sc, k))
BY DEF HashOf, Hash, IsForward, Forwards

LEMMA AmountIs == \A hs : Amount(hs) = SumOf(sc.amount, hs)
BY DEF Amount, SumOf

Reaches(s, k) == SumOf(sc.amount, s.sets[k].htlcs) >= sc.total[k]

LEMMA CopyFacts ==
    ASSUME TypeOK, CopiesAreCurrent, Legal(sc, store), NEW k \in job.todo
    PROVE  /\ k \in Key /\ store \in Store /\ store.sets \in [Key -> SetRecord]
           /\ IsScenario(sc)
           /\ job.snap[k].res = store.sets[k].res /\ job.snap[k].parent = store.sets[k].parent
           /\ job.snap[k].htlcs \subseteq store.sets[k].htlcs /\ store.sets[k].htlcs \subseteq Htlc
           /\ store.sets[k] # NoSet /\ store.sets[k].htlcs # {} /\ Formed(sc, store, k)
           /\ store.sets[k].res \in Resolutions
           /\ SumOf(sc.amount, job.snap[k].htlcs) >= sc.total[k] => Reaches(store, k)
<1>1. k \in Key /\ store \in Store /\ store.sets \in [Key -> SetRecord] /\ IsScenario(sc)
      /\ job.snap[k] \in SetRecord
  BY DEF TypeOK, Store
<1>2. /\ job.snap[k].res = store.sets[k].res /\ job.snap[k].parent = store.sets[k].parent
      /\ job.snap[k].htlcs \subseteq store.sets[k].htlcs /\ job.snap[k] # NoSet
  BY DEF CopiesAreCurrent
<1>3. store.sets[k] # NoSet /\ store.sets[k].htlcs \subseteq Htlc
  BY <1>1, <1>2, SetRecordChanged
<1>4. Formed(sc, store, k)
  BY <1>1 DEF Legal
<1>5. store.sets[k].htlcs # {}
  BY <1>3, <1>4 DEF Formed
<1>6. store.sets[k].res \in Resolutions
  BY <1>1, <1>3 DEF SetRecord
<1>7. SumOf(sc.amount, job.snap[k].htlcs) >= sc.total[k] => Reaches(store, k)
  <2>1. sc.total[k] \in Nat
    BY <1>1, ScenarioFacts
  <2>2. store.sets[k].htlcs \in SUBSET Htlc /\ job.snap[k].htlcs \in SUBSET store.sets[k].htlcs
    BY <1>2, <1>3
  <2> QED
    BY <1>1, <2>1, <2>2, AmountsGrow DEF Reaches
<1> QED
  BY <1>1, <1>2, <1>3, <1>4, <1>5, <1>6, <1>7

(* The set is left as it is, or a part is tagged, or a set is complete. *)
LEMMA MarkedIs ==
    ASSUME TypeOK, CopiesAreCurrent, Legal(sc, store), NEW k \in job.todo
    PROVE  LET m == Marked(k, job.snap[k]) IN
           \/ m = store
           \/ Marks(sc, store, m, k) /\ (sc.kind[k] # "part" => Reaches(store, k))
<1> DEFINE x == job.snap[k]
           m == Marked(k, job.snap[k])
<1>1. /\ k \in Key /\ store \in Store /\ store.sets \in [Key -> SetRecord]
      /\ x.res = store.sets[k].res /\ x.parent = store.sets[k].parent
      /\ store.sets[k] # NoSet /\ store.sets[k] \in SetRecord
      /\ SumOf(sc.amount, x.htlcs) >= sc.total[k] => Reaches(store, k)
  BY CopyFacts
<1>2. CASE m = store
  BY <1>2
<1>3. CASE m = [store EXCEPT !.sets[k].parent = sc.parent[k]] /\ sc.kind[k] = "part"
  <2> DEFINE rec == [store.sets[k] EXCEPT !.parent = sc.parent[k]]
  <2>1. rec.htlcs = store.sets[k].htlcs /\ rec.res = store.sets[k].res
    BY <1>1 DEF SetRecord, NoSet
  <2>2. m = [store EXCEPT !.sets = [store.sets EXCEPT ![k] = rec]]
    BY <1>1, <1>3 DEF Store
  <2> HIDE DEF rec, m
  <2>3. /\ m.log = store.log /\ m.unf = store.unf
        /\ m.down = store.down /\ m.pre = store.pre /\ m.failure = store.failure
        /\ m.sets = [store.sets EXCEPT ![k] = rec]
    BY <1>1, <2>2 DEF Store
  <2>4. Marks(sc, store, m, k)
    BY <1>1, <1>3, <2>1, <2>3 DEF Marks, OnlySet, OnlyOf, SameOf
  <2> QED
    BY <1>3, <2>4 DEF m
<1>4. CASE /\ m = [store EXCEPT !.sets[k].res = "complete"] /\ sc.kind[k] # "part"
           /\ x.res = "waiting" /\ Enough(k, x)
  <2>1. Base(store, m, k, "complete")
    BY <1>1, <1>4, ResBase DEF Resolutions
  <2> HIDE DEF m
  <2>2. Marks(sc, store, m, k)
    BY <1>1, <1>4, <2>1 DEF Base, Marks, OnlySet, OnlyOf, SameOf
  <2>3. Reaches(store, k)
    BY <1>1, <1>4, AmountIs DEF Enough
  <2> QED
    BY <2>2, <2>3 DEF m
<1> QED
  BY <1>2, <1>3, <1>4 DEF Marked

LEMMA CompleteIs ==
    ASSUME TypeOK, CopiesAreCurrent, Legal(sc, store), NEW k \in job.todo,
           Marked(k, job.snap[k]).sets[k].res = "complete"
    PROVE  /\ sc.kind[k] # "part"
           /\ store.sets[k].res = "complete" \/ Reaches(store, k)
<1> DEFINE m == Marked(k, job.snap[k])
<1>1. k \in Key /\ Formed(sc, store, k)
  BY CopyFacts
<1>2. CASE m = store
  BY <1>1, <1>2 DEF Formed
<1>3. CASE Marks(sc, store, m, k) /\ (sc.kind[k] # "part" => Reaches(store, k))
  <2>1. sc.kind[k] = "part" => store.sets[k].res = "complete"
    BY <1>3 DEF Marks
  <2> QED
    BY <1>1, <1>3, <2>1 DEF Formed
<1> QED
  BY <1>2, <1>3, MarkedIs

(* What a verdict says of the set, its preimage and its failure *)
LEMMA VerdictIs ==
    ASSUME TypeOK, CopiesAreCurrent, Legal(sc, store), NEW k \in job.todo
    PROVE  LET res == store.sets[k].res
               complete == Marked(k, job.snap[k]).sets[k].res = "complete" IN
           /\ Verdict(k) = "call" =>
                 /\ res \in {"waiting", "complete"} /\ job.snap[k].htlcs # {}
                 /\ sc.kind[k] = "forward" \/ complete
                 /\ Forwards(sc, k) \/ (HashOf(k) \in mem.callback \ store.pre)
           /\ Verdict(k) = "settle" =>
                 /\ HashOf(k) \in store.pre
                 /\ \/ res = "settling"
                    \/ res \in {"waiting", "complete"} /\ complete /\ ~ Forwards(sc, k)
           /\ Verdict(k) \in {"fail", "expire"} /\ res = "settling" => store.failure[k] = "reason"
           /\ Verdict(k) = "expire" => res # "failed" /\ (res = "settling" => store.failure[k] # "reason")
           /\ Verdict(k) = "move" =>
                 store.sets[k].parent # None /\ res \notin {"failed", "expired"} /\ job.snap[k].htlcs # {}
           /\ Verdict(k) = "wait" \/ job.snap[k].htlcs # {}
<1> DEFINE x == job.snap[k]
           final == FinalVerdict(k, x)
           ongoing == OngoingVerdict(k, x)
           complete == Marked(k, x).sets[k].res = "complete"
<1>1. /\ x.res = store.sets[k].res /\ x.parent = store.sets[k].parent
      /\ store.sets[k].res \in Resolutions /\ Formed(sc, store, k)
  BY CopyFacts
<1>2. Verdict(k) = IF final = "go on" THEN ongoing ELSE final
  BY DEF Verdict
<1>3. /\ final \in {"wait", "fail", "expire", "move", "settle", "go on"}
      /\ final # "wait" => x.htlcs # {}
      /\ final = "fail" => x.res = "failed" \/ (x.res = "settling" /\ store.failure[k] = "reason")
      /\ final = "expire" => x.res = "expired"
      /\ final = "move" => x.parent # None /\ x.res \notin {"failed", "expired"}
      /\ final = "settle" => x.res = "settling" /\ HashOf(k) \in store.pre
      /\ final = "go on" => x.res \notin {"failed", "expired", "settling"} /\ x.htlcs # {}
  BY DEF FinalVerdict
<1>4. /\ ongoing \in {"wait", "fail", "expire", "settle", "call"}
      /\ ongoing = "call" => /\ sc.kind[k] = "forward" \/ complete
                             /\ IsForward(k) \/ (HashOf(k) \in mem.callback \ store.pre)
      /\ ongoing = "settle" => HashOf(k) \in store.pre /\ complete /\ ~ IsForward(k)
  BY DEF OngoingVerdict, IsForward
<1>5. IsForward(k) <=> Forwards(sc, k)
  BY HashIs
<1> HIDE DEF x, final, ongoing, complete
<1>6. x.res \in {"waiting", "complete", "failed", "expired", "settling"}
  BY <1>1 DEF Resolutions
<1>7. CASE final = "go on"
  BY <1>1, <1>2, <1>3, <1>4, <1>5, <1>6, <1>7 DEF x, complete
<1>8. CASE final # "go on"
  BY <1>1, <1>2, <1>3, <1>4, <1>5, <1>6, <1>8 DEF x, complete
<1> QED
  BY <1>7, <1>8

-----------------------------------------------------------------------------
(*                      The steps of the second loop                        *)

LEMMA FileIs ==
    ASSUME NEW W, File(W)
    PROVE  disk' = store' \/ disk' \in W
BY DEF File

LEMMA WaitsChanges ==
    ASSUME TypeOK, CopiesAreCurrent, Legal(sc, store), NEW k \in Key, SetWaits(k)
    PROVE  /\ \/ store' = store
              \/ Marks(sc, store, store', k) /\ (sc.kind[k] # "part" => Reaches(store, k))
           /\ disk' \in {disk, store'}
<1> DEFINE m == Marked(k, job.snap[k])
<1>1. k \in job.todo /\ store' = Cleaned(m, k)
  BY DEF SetWaits
<1>2. \/ m = store
      \/ Marks(sc, store, m, k) /\ (sc.kind[k] # "part" => Reaches(store, k))
  BY <1>1, MarkedIs
<1> HIDE DEF m
<1>3. m.sets[k].htlcs # {}
  <2>1. store.sets[k].htlcs # {}
    BY <1>1, CopyFacts
  <2> QED
    BY <1>2, <2>1 DEF Marks
<1>4. store' = m
  BY <1>1, <1>3 DEF Cleaned
<1>5. disk' \in {disk, store'}
  <2>1. File({store'}) \/ File({disk})
    BY DEF SetWaits
  <2> QED
    BY <2>1, FileIs
<1> QED
  BY <1>2, <1>4, <1>5

LEMMA MovesChanges ==
    ASSUME TypeOK, CopiesAreCurrent, Legal(sc, store), NEW k \in Key, SetMoves(k)
    PROVE  Moves(sc, store, store', k) /\ disk' \in {disk, store'}
<1> DEFINE up == sc.parent[k]
<1>1. k \in job.todo /\ Verdict(k) = "move"
  BY DEF SetMoves
<1>2. /\ store.sets[k].parent # None /\ store.sets[k].res \notin {"failed", "expired"}
      /\ job.snap[k].htlcs # {}
  BY <1>1, VerdictIs
<1>3. /\ IsScenario(sc) /\ Formed(sc, store, k) /\ store.sets[k].res \in Resolutions
      /\ job.snap[k].htlcs \subseteq store.sets[k].htlcs
  BY <1>1, CopyFacts
<1>4. sc.kind[k] = "part" /\ store.sets[k].res = "waiting"
  BY <1>2, <1>3 DEF Formed, Resolutions
<1>5. up \in Key /\ up # k
  BY <1>3, <1>4, ScenarioFacts
<1>6. /\ store'.log = store.log /\ store'.unf = store.unf
      /\ store'.sets[k] = NoSet
      /\ store'.sets[up].htlcs = store.sets[up].htlcs \cup job.snap[k].htlcs
      /\ store'.sets[up].parent = store.sets[up].parent
      /\ store'.sets[up].res = IF store.sets[up] = NoSet THEN "waiting" ELSE store.sets[up].res
      /\ store'.down = store.down /\ store'.pre = store.pre /\ store'.failure[k] = "none"
      /\ \A j \in Key \ {k} : store'.failure[j] = store.failure[j]
      /\ \A j \in Key \ {k, up} : store'.sets[j] = store.sets[j]
  BY <1>5, MovesEffect
<1>7. \A j \in Key \ {k, up} : SameOf(store, store', j)
  BY <1>6 DEF SameOf
<1>8. disk' \in {disk, store'}
  BY FileIs DEF SetMoves
<1>9. /\ store.sets[up].htlcs \subseteq store'.sets[up].htlcs /\ store'.sets[up].htlcs # {}
      /\ store'.sets[up].htlcs \subseteq store.sets[up].htlcs \cup store.sets[k].htlcs
  BY <1>2, <1>3, <1>6
<1> QED
  BY <1>4, <1>5, <1>6, <1>7, <1>8, <1>9 DEF Moves

(* set_htlc_set_error and _fail_htlc_set, or what was saved of them *)
FailsTo(t, k) ==
    \E hs \in SUBSET Htlc :
        /\ Failing(store, t, k, hs)
        /\ store.failure[k] = "reason" /\ store.sets[k].res \in {"settling", "failed"}
              => t.sets[k] = NoSet \/ t.sets[k].res = "failed"

LEMMA EndedFails ==
    ASSUME NEW k \in Key, NEW t, NEW hs \in SUBSET Htlc, NEW gone,
           NEW x, x = IF Verdict(k) = "fail" THEN "failed" ELSE "expired",
           Ended(store, t, k, hs, "failed", x, gone), hs \subseteq store.sets[k].htlcs,
           store.failure[k] = "reason" /\ store.sets[k].res \in {"settling", "failed"} => Verdict(k) = "fail"
    PROVE  FailsTo(t, k)
<1>1. Failing(store, t, k, hs)
  BY DEF Ended, Failing
<1>2. t.sets[k] = NoSet \/ t.sets[k].res = x
  BY DEF Ended
<1> QED
  BY <1>1, <1>2 DEF FailsTo

LEMMA FailsChanges ==
    ASSUME TypeOK, CopiesAreCurrent, Legal(sc, store), NEW k \in Key, SetFails(k)
    PROVE  /\ store.sets[k].res = "settling" => store.failure[k] = "reason"
           /\ FailsTo(store', k)
           /\ disk' \in {disk, store'} \/ FailsTo(disk', k)
<1> DEFINE res  == IF Verdict(k) = "fail" THEN "failed" ELSE "expired"
           base == [store EXCEPT !.sets[k].res = res]
           now  == {h \in Mine(k) : store.log[h] # "failed"}
           written == {SetLog(base, hs, "failed") : hs \in SUBSET now}
                         \cup (IF base = store THEN {disk} ELSE {})
<1>1. k \in job.todo /\ Verdict(k) \in {"fail", "expire"}
  BY DEF SetFails
<1>2. store \in Store /\ store.sets[k].htlcs # {} /\ store.sets[k].htlcs \subseteq Htlc
  BY <1>1, CopyFacts
<1>3. /\ store.sets[k].res = "settling" => store.failure[k] = "reason"
      /\ store.failure[k] = "reason" /\ store.sets[k].res \in {"settling", "failed"} => Verdict(k) = "fail"
  BY <1>1, VerdictIs
<1>4. Base(store, base, k, res)
  BY <1>2, ResBase DEF Resolutions
<1>5. Mine(k) \subseteq store.sets[k].htlcs /\ now \subseteq Mine(k)
  BY DEF Mine
<1>6. store' = Cleaned(Taken(base, k, now, "failed", Mine(k)), k) /\ File(written)
  BY DEF SetFails, Taken
<1> HIDE DEF base, now, res
<1>7. FailsTo(store', k)
  <2>1. now \in SUBSET Htlc /\ Mine(k) \in SUBSET Htlc
    BY <1>2, <1>5
  <2>2. Ended(store, store', k, now, "failed", res, Mine(k))
    BY <1>2, <1>4, <1>6, <2>1, TakenEnded
  <2> QED
    BY <1>3, <1>5, <2>1, <2>2, EndedFails DEF res
<1>8. ASSUME NEW hs \in SUBSET now
      PROVE  FailsTo(SetLog(base, hs, "failed"), k)
  <2>1. hs \in SUBSET Htlc
    BY <1>2, <1>5
  <2>2. Ended(store, SetLog(base, hs, "failed"), k, hs, "failed", res, {})
    BY <1>2, <1>4, <2>1, LoggedEnded
  <2> QED
    BY <1>3, <1>5, <2>1, <2>2, EndedFails DEF res
<1>9. disk' \in {disk, store'} \/ FailsTo(disk', k)
  <2>1. disk' = store' \/ disk' \in written
    BY <1>6, FileIs
  <2> QED
    BY <1>8, <2>1
<1> QED
  BY <1>3, <1>7, <1>9

LEMMA CallsChanges ==
    ASSUME TypeOK, CopiesAreCurrent, Legal(sc, store), NEW k \in Key, SetCalls(k)
    PROVE  /\ Calls(sc, store, store', k) /\ disk' = store'
           /\ Forwards(sc, k) \/ k \in mem.callback \ store.pre
           /\ store.sets[k].res = "complete" \/ Reaches(store, k)
<1>1. k \in job.todo /\ Verdict(k) = "call"
  BY DEF SetCalls
<1>2. /\ store.sets[k].res \in {"waiting", "complete"}
      /\ sc.kind[k] = "forward" \/ Marked(k, job.snap[k]).sets[k].res = "complete"
      /\ Forwards(sc, k) \/ (HashOf(k) \in mem.callback \ store.pre)
  BY <1>1, VerdictIs
<1>3. /\ store \in Store /\ IsScenario(sc) /\ store.sets[k].htlcs # {}
      /\ store.sets[k].htlcs \subseteq Htlc
  BY <1>1, CopyFacts
<1>4. Base(store, store', k, "settling")
  <2>1. store' = [store EXCEPT !.sets[k].res = "settling"]
    BY DEF SetCalls
  <2> QED
    BY <1>3, <2>1, ResBase DEF Resolutions
<1>5. sc.kind[k] # "part" /\ (store.sets[k].res = "complete" \/ Reaches(store, k))
  <2>1. CASE Marked(k, job.snap[k]).sets[k].res = "complete"
    BY <1>1, <2>1, CompleteIs
  <2>2. CASE sc.kind[k] = "forward"
    <3>1. PICK h : h \in store.sets[k].htlcs
      BY <1>3
    <3>2. h \in sc.sent /\ sc.key[h] = k
      <4>1. /\ h \in Htlc /\ store.log[h] # "none" /\ k \in {sc.key[h], Hash(sc, sc.key[h])}
        BY <1>3, <3>1 DEF Legal, Placed
      <4>2. h \in sc.sent
        BY <4>1 DEF Legal, Placed
      <4>3. sc.key[h] = k
        <5>1. sc.key[h] \in Key
          BY <1>3, <4>1, ScenarioFacts
        <5>2. CASE sc.kind[sc.key[h]] = "part"
          BY <1>3, <2>2, <4>1, <5>1, <5>2, ScenarioFacts
        <5>3. CASE sc.kind[sc.key[h]] # "part"
          BY <1>3, <4>1, <5>1, <5>3, ScenarioFacts
        <5> QED
          BY <5>2, <5>3
      <4> QED
        BY <4>2, <4>3
    <3>3. sc.amount[h] = sc.total[k]
      BY <1>3, <2>2, <3>2 DEF IsScenario
    <3>4. SumOf(sc.amount, {h}) = sc.amount[h]
      <4>1. h \in Htlc /\ \A x \in Htlc : sc.amount[x] \in Nat
        BY <1>3, <3>1, ScenarioFacts
      <4> QED
        BY <4>1, HtlcsAreFinite, SumSingle
    <3>5. Reaches(store, k)
      <4>1. {h} \in SUBSET store.sets[k].htlcs /\ store.sets[k].htlcs \in SUBSET Htlc
            /\ sc.total[k] \in Nat
        BY <1>3, <3>1, ScenarioFacts
      <4>2. SumOf(sc.amount, {h}) >= sc.total[k]
        BY <3>3, <3>4, <4>1
      <4> QED
        BY <1>3, <4>1, <4>2, AmountsGrow DEF Reaches
    <3> QED
      BY <2>2, <3>5
  <2> QED
    BY <1>2, <2>1, <2>2
<1>6. Calls(sc, store, store', k)
  BY <1>2, <1>4, <1>5 DEF Base, Calls, OnlySet, OnlyOf, SameOf
<1>7. disk' = store'
  BY FileIs DEF SetCalls
<1>8. HashOf(k) = k
  BY <1>3, <1>5, HashIs, ScenarioFacts
<1> QED
  BY <1>2, <1>5, <1>6, <1>7, <1>8

(* _fulfill_htlc_set, or what was saved of it *)
SettlesTo(t, k) == \E hs \in SUBSET Htlc : Settles(sc, store, t, k, hs)
EnoughToSettle(k) == store.sets[k].res \in {"complete", "settling"} \/ Reaches(store, k)

LEMMA SettleFacts ==
    ASSUME TypeOK, CopiesAreCurrent, Legal(sc, store), NEW k \in job.todo, Verdict(k) = "settle"
    PROVE  /\ sc.kind[k] # "part" /\ k \in store.pre /\ HashOf(k) = k
           /\ store.sets[k].res \in {"waiting", "complete", "settling"}
           /\ store.sets[k].res = "settling" \/ ~ Forwards(sc, k)
           /\ EnoughToSettle(k)
<1>1. /\ HashOf(k) \in store.pre
      /\ \/ store.sets[k].res = "settling"
         \/ /\ store.sets[k].res \in {"waiting", "complete"} /\ ~ Forwards(sc, k)
            /\ Marked(k, job.snap[k]).sets[k].res = "complete"
  BY VerdictIs
<1>2. k \in Key /\ IsScenario(sc) /\ Formed(sc, store, k)
  BY CopyFacts
<1>3. sc.kind[k] # "part" /\ EnoughToSettle(k)
  <2>1. CASE store.sets[k].res = "settling"
    BY <1>2, <2>1 DEF Formed, EnoughToSettle
  <2>2. CASE Marked(k, job.snap[k]).sets[k].res = "complete"
    BY <2>2, CompleteIs DEF EnoughToSettle
  <2> QED
    BY <1>1, <2>1, <2>2
<1>4. HashOf(k) = k
  BY <1>2, <1>3, HashIs, ScenarioFacts
<1> QED
  BY <1>1, <1>3, <1>4

LEMMA EndedSettles ==
    ASSUME TypeOK, CopiesAreCurrent, Legal(sc, store), NEW k \in job.todo, Verdict(k) = "settle",
           NEW t, NEW hs \in SUBSET Htlc, hs \subseteq store.sets[k].htlcs,
           NEW gone, Ended(store, t, k, hs, "fulfilled", "settling", gone),
           \A h \in store.sets[k].htlcs : h \in gone => t.log[h] = "fulfilled"
    PROVE  SettlesTo(t, k)
<1>1. /\ sc.kind[k] # "part" /\ k \in store.pre
      /\ store.sets[k].res \in {"waiting", "complete", "settling"}
      /\ store.sets[k].res = "settling" \/ ~ Forwards(sc, k)
  BY SettleFacts
<1>2. \A h \in store.sets[k].htlcs \ t.sets[k].htlcs : t.log[h] = "fulfilled"
  BY DEF Ended
<1>3. Settles(sc, store, t, k, hs)
  BY <1>1, <1>2 DEF Ended, Settles
<1> QED
  BY <1>3 DEF SettlesTo

LEMMA SettlesChanges ==
    ASSUME TypeOK, CopiesAreCurrent, Legal(sc, store), NEW k \in Key, SetSettles(k)
    PROVE  /\ SettlesTo(store', k) /\ EnoughToSettle(k) /\ HashOf(k) = k
           /\ \/ disk' = disk /\ store.sets[k].res = "settling"
              \/ disk' = store'
              \/ SettlesTo(disk', k) /\ disk'.sets[k].res = "settling"
<1> DEFINE base == Settling(k)
           now  == {h \in Mine(k) : store.log[h] # "fulfilled"}
           written == {SetLog(base, hs, "fulfilled") : hs \in SUBSET now}
                         \cup (IF base = store THEN {disk} ELSE {})
<1>1. k \in job.todo /\ Verdict(k) = "settle"
  BY DEF SetSettles
<1>2. store \in Store /\ store.sets[k].htlcs # {} /\ store.sets[k].htlcs \subseteq Htlc
  BY <1>1, CopyFacts
<1>3. EnoughToSettle(k) /\ HashOf(k) = k
  BY <1>1, SettleFacts
<1>4. Base(store, base, k, "settling")
  BY SettlingBase
<1>5. /\ Mine(k) \subseteq store.sets[k].htlcs /\ now \subseteq Mine(k)
      /\ \A h \in Mine(k) : h \notin now => store.log[h] = "fulfilled"
  BY DEF Mine
<1>6. store' = Cleaned(Taken(base, k, now, "fulfilled", Mine(k)), k) /\ File(written)
  BY DEF SetSettles, Taken
<1> HIDE DEF base, now
<1>7. SettlesTo(store', k)
  <2>1. now \in SUBSET Htlc /\ Mine(k) \in SUBSET Htlc
    BY <1>2, <1>5
  <2>2. Ended(store, store', k, now, "fulfilled", "settling", Mine(k))
    BY <1>2, <1>4, <1>6, <2>1, TakenEnded
  <2>3. \A h \in Mine(k) : store'.log[h] = "fulfilled"
    BY <1>2, <1>5, <2>2 DEF Ended, LogSet
  <2>4. now \subseteq store.sets[k].htlcs
    BY <1>5
  <2> QED
    BY <1>1, <2>1, <2>2, <2>3, <2>4, EndedSettles
<1>8. ASSUME NEW hs \in SUBSET now
      PROVE  SettlesTo(SetLog(base, hs, "fulfilled"), k)
             /\ SetLog(base, hs, "fulfilled").sets[k].res = "settling"
  <2>1. hs \in SUBSET Htlc /\ hs \subseteq store.sets[k].htlcs
    BY <1>2, <1>5
  <2>2. Ended(store, SetLog(base, hs, "fulfilled"), k, hs, "fulfilled", "settling", {})
    BY <1>2, <1>4, <2>1, LoggedEnded
  <2>3. SetLog(base, hs, "fulfilled").sets[k].res = "settling"
    BY <1>2, <2>2 DEF Ended
  <2> QED
    BY <1>1, <2>1, <2>2, <2>3, EndedSettles
<1>9. base = store => store.sets[k].res = "settling"
  BY <1>4 DEF Base
<1>10. disk' = store' \/ disk' \in written
  BY <1>6, FileIs
<1> QED
  BY <1>3, <1>7, <1>8, <1>9, <1>10

LEMMA RaisesChanges ==
    ASSUME TypeOK, CopiesAreCurrent, Legal(sc, store), NEW k \in Key, SettleRaises(k)
    PROVE  /\ SettlesTo(store', k) /\ disk' = store'
           /\ store.sets[k].res \in {"waiting", "complete", "settling"}
           /\ \E h \in store.sets[k].htlcs : store.log[h] = "failed"
<1>1. k \in job.todo /\ Verdict(k) = "settle"
  BY DEF SettleRaises
<1>2. store \in Store /\ store.sets[k].htlcs # {} /\ store.sets[k].htlcs \subseteq Htlc
  BY <1>1, CopyFacts
<1>3. PICK hs \in SUBSET {h \in Mine(k) : store.log[h] = "added"} :
         store' = SetLog(Settling(k), hs, "fulfilled")
  BY DEF SettleRaises
<1>4. hs \in SUBSET Htlc /\ hs \subseteq store.sets[k].htlcs
  BY <1>2, <1>3 DEF Mine
<1>5. Base(store, Settling(k), k, "settling")
  BY SettlingBase
<1>6. Ended(store, store', k, hs, "fulfilled", "settling", {})
  BY <1>2, <1>3, <1>4, <1>5, LoggedEnded
<1>7. SettlesTo(store', k)
  BY <1>1, <1>4, <1>6, EndedSettles
<1>8. disk' = store'
  BY FileIs DEF SettleRaises
<1>9. \E h \in store.sets[k].htlcs : store.log[h] = "failed"
  BY DEF SettleRaises, Mine
<1>10. store.sets[k].res \in {"waiting", "complete", "settling"}
  BY <1>1, SettleFacts
<1> QED
  BY <1>7, <1>8, <1>9, <1>10

-----------------------------------------------------------------------------
(*                      The steps of the first loop                         *)

LEMMA CollectChanges ==
    ASSUME TypeOK, job.unf \subseteq store.unf, NEW h \in Htlc, Collect(h)
    PROVE  Collects(store, store', h, sc.key[h]) /\ disk' \in {disk, store'}
           /\ job.unf # {} /\ again' = IF store.log[h] = "added" THEN again ELSE again \cup {h}
<1> DEFINE k   == sc.key[h]
           old == IF store.sets[k] = NoSet THEN NewSet ELSE store.sets[k]
           new == [old EXCEPT !.htlcs = old.htlcs \cup {h}]
<1>1. k \in Key /\ store \in Store /\ store.sets \in [Key -> SetRecord] /\ store.sets[k] \in SetRecord
  BY ScenarioTyped DEF TypeOK, Store
<1>2. store' = [store EXCEPT !.sets[k] = new, !.unf = @ \ {h}] /\ h \in job.unf /\ old.res = "waiting"
  BY DEF Collect
<1>3. /\ old.htlcs = store.sets[k].htlcs /\ old.parent = store.sets[k].parent /\ old \in SetRecord
      /\ store.sets[k].res \in {"none", "waiting"}
  BY <1>1, <1>2, NoSetTyped DEF NoSet, NewSet
<1>4. /\ new.htlcs = store.sets[k].htlcs \cup {h} /\ new.parent = store.sets[k].parent
      /\ new.res = "waiting"
  BY <1>2, <1>3 DEF SetRecord, NoSet
<1>5. /\ store'.log = store.log /\ store'.unf = store.unf \ {h}
      /\ store'.down = store.down /\ store'.pre = store.pre /\ store'.failure = store.failure
      /\ store'.sets = [store.sets EXCEPT ![k] = new]
  <2> HIDE DEF new
  <2> QED
    BY <1>1, <1>2 DEF Store
<1> QED
  <2> HIDE DEF new, old
  <2>1. disk' \in {disk, store'}
    BY FileIs DEF Collect
  <2>2. again' = IF store.log[h] = "added" THEN again ELSE again \cup {h}
    BY DEF Collect
  <2>3. OnlySet(store, store', k)
    BY <1>1, <1>5 DEF OnlySet, OnlyOf, SameOf
  <2>4. store'.sets[k] = new
    BY <1>1, <1>5
  <2>5. /\ store'.sets[k].htlcs = store.sets[k].htlcs \cup {h}
        /\ store'.sets[k].parent = store.sets[k].parent /\ store'.sets[k].res = "waiting"
    BY <1>4, <2>4
  <2>6. h \in store.unf
    BY <1>2
  <2>7. Collects(store, store', h, k)
    BY <1>3, <1>5, <2>3, <2>5, <2>6 DEF Collects
  <2> QED
    BY <1>2, <2>1, <2>2, <2>7

LEMMA RefuseChanges ==
    ASSUME TypeOK, job.unf \subseteq store.unf, NEW h \in Htlc, Refuse(h)
    PROVE  /\ Refuses(store, store', h)
           /\ disk' \in {disk, store'} \/ Refuses(store, disk', h)
<1> DEFINE saved == SetLog(store, {h}, "failed")
<1>1. store \in Store /\ saved \in Store /\ h \in store.unf /\ store.log[h] = "added"
  BY StoreChanged DEF TypeOK, Refuse
<1>2. /\ saved.sets = store.sets /\ saved.failure = store.failure /\ saved.down = store.down
      /\ saved.pre = store.pre /\ saved.unf = store.unf
      /\ \A x \in Htlc : saved.log[x] = IF x \in {h} THEN "failed" ELSE store.log[x]
  BY <1>1 DEF SetLog, Store
<1>3. Refuses(store, saved, h)
  BY <1>1, <1>2 DEF Refuses, LogSet, SameOf
<1>4. store' = [saved EXCEPT !.unf = @ \ {h}] /\ File({disk, saved})
  BY DEF Refuse
<1> HIDE DEF saved
<1>5. /\ store'.sets = store.sets /\ store'.failure = store.failure /\ store'.down = store.down
      /\ store'.pre = store.pre /\ store'.unf = store.unf \ {h} /\ store'.log = saved.log
  BY <1>1, <1>2, <1>4 DEF Store
<1>6. Refuses(store, store', h)
  BY <1>1, <1>2, <1>5 DEF Refuses, LogSet, SameOf
<1>7. disk' = store' \/ disk' \in {disk, saved}
  BY <1>4, FileIs
<1> QED
  BY <1>3, <1>6, <1>7

LEMMA RaiseChanges ==
    ASSUME TypeOK, NEW h \in Htlc, RefuseRaises(h)
    PROVE  Rests(store, store') /\ disk' \in {disk, store'}
<1>1. store \in Store /\ store' = [store EXCEPT !.unf = @ \ {h}] /\ File({disk})
  BY DEF TypeOK, RefuseRaises
<1>2. /\ store'.sets = store.sets /\ store'.failure = store.failure /\ store'.down = store.down
      /\ store'.pre = store.pre /\ store'.unf = store.unf \ {h} /\ store'.log = store.log
  BY <1>1 DEF Store
<1>3. Rests(store, store')
  BY <1>2 DEF Rests, SameOf
<1> QED
  BY <1>1, <1>3, FileIs

-----------------------------------------------------------------------------
(*                        Forwarding, step by step                          *)

LEMMA OfferChanges ==
    ASSUME NEW s \in Store, NEW t \in Store, s.log = t.log, s.unf = t.unf, s.sets = t.sets,
           s.pre = t.pre, s.failure = t.failure, s.down = t.down, t = store,
           NEW k \in Key, Offer(k, s)
    PROVE  \E d \in Attempt :
              /\ Offers(store, store', k, d) /\ d \in store'.active[k]
              /\ disk' \in {disk, store'} \/ Offers(store, disk', k, d)
<1> DEFINE d == CHOOSE d \in Unused(k) : TRUE
           sent == [s EXCEPT !.down[k][d] = "offered"]
<1>1. d \in Attempt /\ store.down[k][d] = "none"
  BY DEF Unused, Offer
<1>2. store' = [sent EXCEPT !.active[k] = @ \cup {d}] /\ File({disk, sent})
  BY DEF Offer
<1> HIDE DEF d
<1>3. /\ sent.log = s.log /\ sent.unf = s.unf /\ sent.sets = s.sets /\ sent.pre = s.pre
      /\ sent.failure = s.failure /\ sent.down[k] = [s.down[k] EXCEPT ![d] = "offered"]
      /\ \A j \in Key \ {k} : sent.down[j] = s.down[j]
      /\ sent \in Store
  BY <1>1 DEF Store
<1> HIDE DEF sent
<1>4. Offers(store, sent, k, d)
  BY <1>1, <1>3 DEF Offers, Downs, Still, OnlyOf, SameOf
<1>5. /\ store'.log = sent.log /\ store'.unf = sent.unf /\ store'.sets = sent.sets
      /\ store'.pre = sent.pre /\ store'.failure = sent.failure /\ store'.down = sent.down
      /\ d \in store'.active[k]
  BY <1>1, <1>2, <1>3 DEF Store
<1>6. Offers(store, store', k, d)
  BY <1>1, <1>3, <1>5 DEF Offers, Downs, Still, OnlyOf, SameOf
<1>7. disk' = store' \/ disk' \in {disk, sent}
  BY <1>2, FileIs
<1> QED
  BY <1>1, <1>4, <1>5, <1>6, <1>7

LEMMA RunForwardChanges ==
    ASSUME TypeOK, NEW k \in Key, RunForward(k)
    PROVE  /\ k \in mem.tasks /\ Forwards(sc, k)
           /\ \/ /\ sc.kind[k] = "trampoline" /\ Rests(store, store') /\ store'.active[k] = {}
                 /\ disk' \in {disk, store'}
              \/ /\ sc.kind[k] = "forward"
                 /\ \E d \in Attempt : /\ Offers(store, store', k, d)
                                       /\ disk' \in {disk, store'} \/ Offers(store, disk', k, d)
              \/ /\ sc.kind[k] = "forward"
                 /\ GivesUp(store, store', k) /\ disk' \in {disk, store'}
<1> DEFINE entered == [store EXCEPT !.active[k] = {}]
<1>1. store \in Store /\ k \in mem.tasks /\ Forwards(sc, k)
  BY HashIs DEF TypeOK, RunForward
<1>2. /\ entered.log = store.log /\ entered.unf = store.unf /\ entered.sets = store.sets
      /\ entered.pre = store.pre /\ entered.failure = store.failure /\ entered.down = store.down
      /\ entered \in Store /\ entered.active[k] = {}
  BY <1>1 DEF Store
<1>3. CASE sc.kind[k] = "trampoline"
  <2>1. store' = entered /\ File({disk})
    BY <1>3 DEF RunForward
  <2> HIDE DEF entered
  <2>2. Rests(store, store') /\ store'.active[k] = {}
    BY <1>2, <2>1 DEF Rests, SameOf
  <2> QED
    BY <1>1, <1>3, <2>1, <2>2, FileIs
<1>4. CASE sc.kind[k] = "forward" /\ Offer(k, entered)
  <2> HIDE DEF entered
  <2>1. \E d \in Attempt : /\ Offers(store, store', k, d)
                           /\ disk' \in {disk, store'} \/ Offers(store, disk', k, d)
    BY <1>1, <1>2, <1>4, OfferChanges
  <2> QED
    BY <1>1, <1>4, <2>1
<1>5. CASE sc.kind[k] = "forward" /\ store' = [entered EXCEPT !.failure[k] = "reason"] /\ File({disk})
  <2> HIDE DEF entered
  <2>1. /\ store'.log = store.log /\ store'.unf = store.unf /\ store'.sets = store.sets
        /\ store'.pre = store.pre /\ store'.down = store.down
        /\ store'.failure = [store.failure EXCEPT ![k] = "reason"]
    BY <1>2, <1>5 DEF Store
  <2>2. store.failure \in [Key -> {"none", "reason", "empty"}]
    BY <1>1, StoreFacts
  <2>3. GivesUp(store, store', k)
    BY <2>1, <2>2 DEF GivesUp, Still, OnlyOf, SameOf
  <2> QED
    BY <1>1, <1>5, <2>3, FileIs
<1> QED
  BY <1>1, <1>3, <1>4, <1>5 DEF RunForward, Forwards

LEMMA SessionSendsChanges ==
    ASSUME TypeOK, NEW k \in Key, SessionSends(k)
    PROVE  \E d \in Attempt :
              /\ Offers(store, store', k, d) /\ d \in store'.active[k]
              /\ disk' \in {disk, store'} \/ Offers(store, disk', k, d)
BY OfferChanges DEF TypeOK, SessionSends

LEMMA ForwardRaisesChanges ==
    ASSUME TypeOK, NEW k \in Key, ForwardRaises(k)
    PROVE  /\ k \in mem.tasks \cup mem.session /\ Forwards(sc, k)
           /\ Rests(store, store') /\ disk' \in {disk, store'}
<1>1. store \in Store /\ File({disk}) /\ k \in mem.tasks \cup mem.session /\ Forwards(sc, k)
  BY HashIs DEF TypeOK, ForwardRaises
<1>2. /\ store'.log = store.log /\ store'.unf = store.unf /\ store'.sets = store.sets
      /\ store'.pre = store.pre /\ store'.failure = store.failure /\ store'.down = store.down
  BY <1>1 DEF ForwardRaises, Store
<1> QED
  BY <1>1, <1>2, FileIs DEF Rests, SameOf

LEMMA SessionFailsChanges ==
    ASSUME TypeOK, NEW k \in Key, SessionFails(k)
    PROVE  GivesUp(store, store', k) /\ disk' \in {disk, store'}
<1>1. store \in Store /\ store' = [store EXCEPT !.failure[k] = "reason"] /\ File({disk})
  BY DEF TypeOK, SessionFails
<1>2. /\ store'.log = store.log /\ store'.unf = store.unf /\ store'.sets = store.sets
      /\ store'.pre = store.pre /\ store'.down = store.down
      /\ store'.failure = [store.failure EXCEPT ![k] = "reason"]
      /\ store.failure \in [Key -> {"none", "reason", "empty"}]
  BY <1>1 DEF Store
<1>3. GivesUp(store, store', k)
  BY <1>2 DEF GivesUp, Still, OnlyOf, SameOf
<1> QED
  BY <1>1, <1>3, FileIs

LEMMA DownsChanges ==
    ASSUME NEW s \in Store, NEW t, NEW k \in Key, NEW d \in Attempt, NEW from, NEW to,
           t.log = s.log, t.unf = s.unf, t.sets = s.sets, s.down[k][d] = from,
           t.down = [s.down EXCEPT ![k][d] = to],
           \A j \in Key \ {k} : t.failure[j] = s.failure[j] /\ (j \in t.pre <=> j \in s.pre)
    PROVE  Downs(s, t, k, d, from, to)
<1>1. s.down \in [Key -> [Attempt -> {"none", "offered", "fulfilled", "failing", "failed"}]]
  BY StoreFacts
<1>2. t.down[k] = [s.down[k] EXCEPT ![d] = to] /\ \A j \in Key \ {k} : t.down[j] = s.down[j]
  BY <1>1
<1> QED
  BY <1>2 DEF Downs, Still, OnlyOf, SameOf

LEMMA FulfillsChanges ==
    ASSUME TypeOK, NEW k \in Key, NEW d \in Attempt, DownstreamFulfills(k, d)
    PROVE  Fulfills(store, store', k, d) /\ disk' = store'
<1>1. store \in Store /\ store' = [store EXCEPT !.down[k][d] = "fulfilled", !.pre = @ \cup {k}]
      /\ store.down[k][d] = "offered" /\ File({store'})
  BY DEF TypeOK, DownstreamFulfills
<1>2. /\ store'.log = store.log /\ store'.unf = store.unf /\ store'.sets = store.sets
      /\ store'.pre = store.pre \cup {k} /\ store'.failure = store.failure
      /\ store'.down = [store.down EXCEPT ![k][d] = "fulfilled"]
  BY <1>1 DEF Store
<1>3. Downs(store, store', k, d, "offered", "fulfilled")
  BY <1>1, <1>2, DownsChanges
<1> QED
  BY <1>1, <1>2, <1>3, FileIs DEF Fulfills

LEMMA FulfilledChanges ==
    ASSUME TypeOK, NEW k \in Key, NEW d \in Attempt, DownstreamFulfilled(k, d)
    PROVE  Rests(store, store') /\ disk' \in {disk, store'} /\ store.down[k][d] = "fulfilled"
<1>1. store \in Store /\ store' = [store EXCEPT !.active[k] = @ \ {d}] /\ File({disk})
  BY DEF TypeOK, DownstreamFulfilled
<1>2. /\ store'.log = store.log /\ store'.unf = store.unf /\ store'.sets = store.sets
      /\ store'.pre = store.pre /\ store'.failure = store.failure /\ store'.down = store.down
  BY <1>1 DEF Store
<1> QED
  BY <1>1, <1>2, FileIs DEF Rests, SameOf, DownstreamFulfilled

LEMMA WillFailChanges ==
    ASSUME TypeOK, NEW k \in Key, NEW d \in Attempt, DownstreamFails(k, d)
    PROVE  /\ WillFail(store, store', k, d) /\ disk' \in {disk, store'}
           /\ store'.active = store.active
<1>1. store \in Store /\ store' = [store EXCEPT !.down[k][d] = "failing"]
      /\ store.down[k][d] = "offered" /\ File({disk, store'})
  BY DEF TypeOK, DownstreamFails
<1>2. /\ store'.log = store.log /\ store'.unf = store.unf /\ store'.sets = store.sets
      /\ store'.pre = store.pre /\ store'.failure = store.failure
      /\ store'.down = [store.down EXCEPT ![k][d] = "failing"] /\ store'.active = store.active
  BY <1>1 DEF Store
<1>3. Downs(store, store', k, d, "offered", "failing")
  BY <1>1, <1>2, DownsChanges
<1> QED
  BY <1>1, <1>2, <1>3, FileIs DEF WillFail

(* The reason is noted for the last of the HTLCs that are on their way, or  *)
(* later, by pay_to_node.                                                   *)
LEMMA FailedChanges ==
    ASSUME TypeOK, NEW k \in Key, NEW d \in Attempt, DownstreamFailed(k, d)
    PROVE  /\ HasFailed(store, store', k, d) /\ disk' \in {disk, store'}
           /\ store'.failure[k] # store.failure[k] => k \notin mem.session
           /\ store'.active[k] = store.active[k] \ {d}
<1> DEFINE reason == IF <<k, d>> \in mem.reasons THEN "reason" ELSE "empty"
           last   == store.active[k] = {d} /\ k \notin mem.session
<1>1. /\ store \in Store /\ store.down[k][d] = "failing" /\ File({disk})
      /\ store' = [store EXCEPT !.down[k][d] = "failed", !.active[k] = @ \ {d},
                                !.failure[k] = IF last THEN reason ELSE @]
  BY DEF TypeOK, DownstreamFailed
<1> HIDE DEF reason
<1>2. /\ store'.log = store.log /\ store'.unf = store.unf /\ store'.sets = store.sets
      /\ store'.pre = store.pre
      /\ store'.failure = [store.failure EXCEPT ![k] = IF last THEN reason ELSE store.failure[k]]
      /\ store'.active[k] = store.active[k] \ {d}
      /\ store'.down = [store.down EXCEPT ![k][d] = "failed"]
  BY <1>1 DEF Store
<1>3. store.failure \in [Key -> {"none", "reason", "empty"}]
  BY <1>1, StoreFacts
<1>4. \A j \in Key \ {k} : store'.failure[j] = store.failure[j]
  BY <1>2, <1>3
<1>5. Downs(store, store', k, d, "failing", "failed")
  BY <1>1, <1>2, <1>4, DownsChanges
<1>6. store'.failure[k] # store.failure[k] => k \notin mem.session
  BY <1>2, <1>3
<1> QED
  BY <1>1, <1>2, <1>5, <1>6, FileIs DEF HasFailed

-----------------------------------------------------------------------------
(*                     Hold invoices, and new HTLCs                         *)

LEMMA RevealChanges ==
    ASSUME TypeOK, NEW k \in Key, Reveal(k)
    PROVE  Reveals(store, store', k) /\ disk' = store'
<1>1. store \in Store /\ store' = [store EXCEPT !.pre = @ \cup {k}] /\ File({store'})
  BY DEF TypeOK, Reveal
<1>2. /\ store'.log = store.log /\ store'.unf = store.unf /\ store'.sets = store.sets
      /\ store'.pre = store.pre \cup {k} /\ store'.failure = store.failure /\ store'.down = store.down
  BY <1>1 DEF Store
<1>3. Reveals(store, store', k)
  BY <1>2 DEF Reveals, Still, OnlyOf, SameOf
<1> QED
  BY <1>1, <1>3, FileIs

(* The set of a swap is failed. *)
SwapFails(s, t, k) == Failing(s, t, k, {}) /\ t.sets[k].res = "failed"

LEMMA FailSwapChanges ==
    ASSUME TypeOK, Legal(sc, store), NEW k \in Key, FailSwap(k)
    PROVE  \/ Rests(store, store') /\ disk' \in {disk, store'}
           \/ /\ SwapFails(store, store', k)
              /\ disk' \in {disk, store'} \/ SwapFails(store, disk', k)
<1> DEFINE base == IF store.sets[k] # NoSet THEN [store EXCEPT !.sets[k].res = "failed"] ELSE store
<1>1. store \in Store /\ store.sets \in [Key -> SetRecord] /\ store.sets[k] \in SetRecord
      /\ Formed(sc, store, k)
  BY DEF TypeOK, Store, Legal
<1>2. /\ store'.log = base.log /\ store'.unf = base.unf /\ store'.sets = base.sets
      /\ store'.pre = base.pre /\ store'.failure = base.failure /\ store'.down = base.down
  <2>1. base \in Store
    BY <1>1, ResBase DEF Base, Resolutions
  <2>2. \E i, w : store' = [base EXCEPT !.info = i, !.swaps = w]
    BY <2>1 DEF FailSwap, Store
  <2> HIDE DEF base
  <2> QED
    BY <2>1, <2>2 DEF Store
<1>3. disk' = store' \/ disk' = base \/ disk' = disk
  BY FileIs DEF FailSwap
<1>4. CASE store.sets[k] = NoSet
  <2>1. base = store /\ FailSwap(k) /\ File({disk})
    BY <1>4 DEF FailSwap
  <2>2. disk' \in {disk, store'}
    BY <2>1, FileIs
  <2> HIDE DEF base
  <2>3. Rests(store, store')
    BY <1>2, <2>1 DEF Rests, SameOf
  <2> QED
    BY <2>2, <2>3
<1>5. CASE store.sets[k] # NoSet
  <2>1. Base(store, base, k, "failed") /\ store.sets[k].htlcs # {}
    BY <1>1, <1>5, ResBase DEF Resolutions, Formed
  <2> HIDE DEF base
  <2>2. SwapFails(store, base, k)
    BY <2>1 DEF Base, SwapFails, Failing, OnlySet, OnlyOf, SameOf, LogSet
  <2>3. SwapFails(store, store', k)
    BY <1>2, <2>2 DEF SwapFails, Failing, OnlySet, OnlyOf, SameOf, LogSet
  <2> QED
    BY <1>3, <2>2, <2>3
<1> QED
  BY <1>4, <1>5

LEMMA CancelChanges ==
    ASSUME TypeOK, NEW k \in Key, CancelHold(k)
    PROVE  Rests(store, store') /\ disk' \in {disk, store'}
<1>1. store \in Store /\ store' = [store EXCEPT !.info = @ \ {k}, !.dontExpire = @ \ {k}]
      /\ File({disk})
  BY DEF TypeOK, CancelHold
<1>2. /\ store'.log = store.log /\ store'.unf = store.unf /\ store'.sets = store.sets
      /\ store'.pre = store.pre /\ store'.failure = store.failure /\ store'.down = store.down
  BY <1>1 DEF Store
<1> QED
  BY <1>1, <1>2, FileIs DEF Rests, SameOf

LEMMA ArriveChanges ==
    ASSUME TypeOK, NEW h \in Htlc, Arrive(h)
    PROVE  Arrives(store, store', h) /\ disk' = store' /\ h \in sc.sent
<1>1. store \in Store /\ store' = [store EXCEPT !.log[h] = "added", !.unf = @ \cup {h}]
      /\ File({store'}) /\ store.log[h] = "none" /\ h \in sc.sent
  BY DEF TypeOK, Arrive
<1>2. /\ \A x \in Htlc : store'.log[x] = IF x \in {h} THEN "added" ELSE store.log[x]
      /\ store'.unf = store.unf \cup {h} /\ store'.sets = store.sets
      /\ store'.pre = store.pre /\ store'.failure = store.failure /\ store'.down = store.down
  BY <1>1 DEF Store
<1>3. Arrives(store, store', h)
  BY <1>1, <1>2 DEF Arrives, LogSet, SameOf
<1> QED
  BY <1>1, <1>3, FileIs

(* A store after a step lists no swap, and no hold invoice of the user,     *)
(* that was not listed before; `paid' are the payments that are paid now.   *)
Listed(s, t, paid) ==
    /\ t.swaps \subseteq s.swaps /\ t.dontExpire \subseteq s.dontExpire
    /\ t.paid = s.paid \cup paid

LEMMA LoggedLists ==
    ASSUME NEW s \in Store, NEW hs \in SUBSET Htlc, NEW what \in {"none", "added", "fulfilled", "failed"}
    PROVE  SetLog(s, hs, what) \in Store /\ Listed(s, SetLog(s, hs, what), {})
<1>1. SetLog(s, hs, what) \in Store
  BY StoreChanged
<1> QED
  BY <1>1 DEF SetLog, Store, Listed

LEMMA FirstLoopLists ==
    ASSUME TypeOK, NEW h \in Htlc, Collect(h) \/ Refuse(h) \/ RefuseRaises(h)
    PROVE  Listed(store, store', {}) /\ (disk' \in {disk, store'} \/ Listed(store, disk', {}))
<1>1. store \in Store
  BY DEF TypeOK
<1>2. CASE Collect(h)
  <2>1. PICK r, u : store' = [store EXCEPT !.sets[sc.key[h]] = r, !.unf = u]
    BY <1>2 DEF Collect
  <2>2. disk' \in {disk, store'}
    BY <1>2, FileIs DEF Collect
  <2> QED
    BY <1>1, <2>1, <2>2 DEF Store, Listed
<1>3. CASE Refuse(h)
  <2> DEFINE saved == SetLog(store, {h}, "failed")
  <2>1. store' = [saved EXCEPT !.unf = @ \ {h}] /\ File({disk, saved})
    BY <1>3 DEF Refuse
  <2>2. saved \in Store /\ Listed(store, saved, {})
    BY <1>1, LoggedLists
  <2> HIDE DEF saved
  <2>3. Listed(store, store', {})
    BY <2>1, <2>2 DEF Store, Listed
  <2> QED
    BY <2>1, <2>2, <2>3, FileIs
<1>4. CASE RefuseRaises(h)
  <2>1. disk' \in {disk, store'}
    BY <1>4, FileIs DEF RefuseRaises
  <2> QED
    BY <1>1, <1>4, <2>1 DEF Store, Listed, RefuseRaises
<1> QED
  BY <1>2, <1>3, <1>4

LEMMA CleanedLists ==
    ASSUME NEW s \in Store, NEW k \in Key
    PROVE  Listed(s, Cleaned(s, k), {})
BY DEF Cleaned, Store, Listed

LEMMA TakenLists ==
    ASSUME NEW s \in Store, NEW k \in Key, s.sets[k] # NoSet, NEW hs \in SUBSET Htlc,
           NEW gone \in SUBSET Htlc, NEW what, what \in {"fulfilled", "failed"}
    PROVE  Listed(s, Cleaned(Taken(s, k, hs, what, gone), k), {})
<1> DEFINE saved == SetLog(s, hs, what)
           left  == Taken(s, k, hs, what, gone)
<1>1. saved \in Store /\ Listed(s, saved, {})
  BY LoggedLists
<1>2. left \in Store
  BY TakenTyped DEF IsLeft
<1>3. left.swaps = saved.swaps /\ left.dontExpire = saved.dontExpire /\ left.paid = saved.paid
  BY <1>1 DEF Taken, Store
<1> HIDE DEF saved, left
<1>4. Listed(left, Cleaned(left, k), {})
  BY <1>2, CleanedLists
<1>5. Listed(s, Cleaned(left, k), {})
  BY <1>1, <1>3, <1>4 DEF Listed
<1> QED
  BY <1>5 DEF left

(* Only a set that is settled pays an invoice. *)
PaidBy(k) == IF Verdict(k) = "settle" /\ HashOf(k) \in store.info THEN {HashOf(k)} ELSE {}

LEMMA SetLists ==
    ASSUME TypeOK, CopiesAreCurrent, Legal(sc, store), NEW k \in Key, SetNext(k)
    PROVE  /\ Listed(store, store', PaidBy(k))
           /\ disk' \in {disk, store'} \/ Listed(store, disk', PaidBy(k))
<1>1. store \in Store /\ store.sets \in [Key -> SetRecord] /\ Mine(k) \subseteq store.sets[k].htlcs
      /\ store.sets[k].htlcs \subseteq Htlc
  BY StoreFacts DEF TypeOK, Mine
<1>2. CASE SetWaits(k)
  <2> DEFINE m == Marked(k, job.snap[k])
  <2>1. k \in job.todo /\ store' = Cleaned(m, k) /\ m \in Store
    BY <1>2, MarkedTyped DEF SetWaits
  <2>2. Listed(store, m, {})
    BY <1>1 DEF Marked, Store, Listed
  <2> HIDE DEF m
  <2>3. Listed(m, store', {})
    BY <2>1, CleanedLists
  <2>4. disk' \in {disk, store'}
    BY <1>2, WaitsChanges
  <2>5. PaidBy(k) = {}
    BY <1>2 DEF SetWaits, PaidBy
  <2>6. Listed(store, store', {})
    BY <2>2, <2>3 DEF Listed
  <2> QED
    BY <2>4, <2>5, <2>6
<1>3. CASE SetMoves(k)
  <2>1. PICK new : store' = Cleaned([store EXCEPT !.sets[sc.parent[k]] = new, !.sets[k].htlcs = {}], k)
    BY <1>3 DEF SetMoves
  <2> DEFINE moved == [store EXCEPT !.sets[sc.parent[k]] = new, !.sets[k].htlcs = {}]
  <2>2. Listed(store, moved, {})
    BY <1>1 DEF Store, Listed
  <2>3. Listed(moved, Cleaned(moved, k), {})
    BY <1>1 DEF Store, Cleaned, Listed
  <2>4. disk' \in {disk, store'}
    BY <1>3, MovesChanges
  <2> HIDE DEF moved
  <2>5. Listed(store, Cleaned(moved, k), {})
    BY <2>2, <2>3 DEF Listed
  <2>6. PaidBy(k) = {}
    BY <1>3 DEF SetMoves, PaidBy
  <2> QED
    BY <2>1, <2>4, <2>5, <2>6 DEF moved
<1>4. CASE SetFails(k)
  <2> DEFINE res  == IF Verdict(k) = "fail" THEN "failed" ELSE "expired"
             base == [store EXCEPT !.sets[k].res = res]
             now  == {h \in Mine(k) : store.log[h] # "failed"}
             written == {SetLog(base, hs, "failed") : hs \in SUBSET now}
                           \cup (IF base = store THEN {disk} ELSE {})
  <2>1. store' = Cleaned(Taken(base, k, now, "failed", Mine(k)), k) /\ File(written)
    BY <1>4 DEF SetFails, Taken
  <2>2. Base(store, base, k, res)
    BY <1>1, ResBase DEF Resolutions
  <2>3. Listed(store, base, {})
    BY <1>1 DEF Store, Listed
  <2> HIDE DEF base, res
  <2>4. Listed(base, store', {})
    BY <1>1, <2>1, <2>2, TakenLists DEF Base
  <2>5. \A hs \in SUBSET now : Listed(base, SetLog(base, hs, "failed"), {})
    BY <1>1, <2>2, LoggedLists DEF Base
  <2>6. disk' \in {disk, store'} \/ \E hs \in SUBSET now : disk' = SetLog(base, hs, "failed")
    BY <2>1, FileIs
  <2>7. PaidBy(k) = {}
    BY <1>4 DEF SetFails, PaidBy
  <2>8. Listed(store, store', {})
    BY <2>3, <2>4 DEF Listed
  <2>9. \A hs \in SUBSET now : Listed(store, SetLog(base, hs, "failed"), {})
    BY <2>3, <2>5 DEF Listed
  <2> QED
    BY <2>6, <2>7, <2>8, <2>9
<1>5. CASE SetCalls(k)
  <2>1. disk' \in {disk, store'}
    BY <1>5, CallsChanges
  <2>2. PaidBy(k) = {}
    BY <1>5 DEF SetCalls, PaidBy
  <2>3. Listed(store, store', {})
    BY <1>1, <1>5 DEF SetCalls, Store, Listed
  <2> QED
    BY <2>1, <2>2, <2>3
<1>6. Verdict(k) = "settle" => Listed(store, Settling(k), PaidBy(k))
  BY <1>1 DEF Settling, Store, Listed, PaidBy
<1>7. CASE SetSettles(k)
  <2> DEFINE base == Settling(k)
             now  == {h \in Mine(k) : store.log[h] # "fulfilled"}
             written == {SetLog(base, hs, "fulfilled") : hs \in SUBSET now}
                           \cup (IF base = store THEN {disk} ELSE {})
  <2>1. store' = Cleaned(Taken(base, k, now, "fulfilled", Mine(k)), k) /\ File(written)
    BY <1>7 DEF SetSettles, Taken
  <2>2. Base(store, base, k, "settling") /\ Listed(store, base, PaidBy(k))
    BY <1>6, <1>7, SettlingBase DEF SetSettles
  <2> HIDE DEF base
  <2>4. Listed(base, store', {})
    BY <1>1, <2>1, <2>2, TakenLists DEF Base
  <2>5. \A hs \in SUBSET now : Listed(base, SetLog(base, hs, "fulfilled"), {})
    BY <1>1, <2>2, LoggedLists DEF Base
  <2>6. disk' \in {disk, store'} \/ \E hs \in SUBSET now : disk' = SetLog(base, hs, "fulfilled")
    BY <2>1, FileIs
  <2>7. Listed(store, store', PaidBy(k))
    BY <2>2, <2>4 DEF Listed
  <2>8. \A hs \in SUBSET now : Listed(store, SetLog(base, hs, "fulfilled"), PaidBy(k))
    BY <2>2, <2>5 DEF Listed
  <2> QED
    BY <2>6, <2>7, <2>8
<1>8. CASE SettleRaises(k)
  <2>1. PICK hs \in SUBSET {h \in Mine(k) : store.log[h] = "added"} :
            store' = SetLog(Settling(k), hs, "fulfilled")
    BY <1>8 DEF SettleRaises
  <2>2. Settling(k) \in Store /\ hs \in SUBSET Htlc
    BY <1>1, SettlingTyped
  <2>3. Listed(Settling(k), store', {})
    BY <2>1, <2>2, LoggedLists
  <2>4. disk' = store'
    BY <1>8, RaisesChanges
  <2>5. Listed(store, Settling(k), PaidBy(k))
    BY <1>6, <1>8 DEF SettleRaises
  <2> QED
    BY <2>3, <2>4, <2>5 DEF Listed
<1> QED
  BY <1>2, <1>3, <1>4, <1>5, <1>7, <1>8 DEF SetNext

LEMMA OfferLists ==
    ASSUME NEW s \in Store, Listed(store, s, {}), NEW k \in Key, Offer(k, s)
    PROVE  Listed(store, store', {}) /\ (disk' \in {disk, store'} \/ Listed(store, disk', {}))
<1>1. PICK d : /\ store' = [[s EXCEPT !.down[k][d] = "offered"] EXCEPT !.active[k] = @ \cup {d}]
               /\ File({disk, [s EXCEPT !.down[k][d] = "offered"]})
  BY DEF Offer
<1>2. Listed(s, [s EXCEPT !.down[k][d] = "offered"], {}) /\ Listed(s, store', {})
  BY <1>1 DEF Store, Listed
<1>3. disk' \in {disk, store', [s EXCEPT !.down[k][d] = "offered"]}
  BY <1>1, FileIs
<1> QED
  BY <1>2, <1>3 DEF Listed

LEMMA ForwardLists ==
    ASSUME TypeOK, NEW k \in Key, ForwardNext(k)
    PROVE  Listed(store, store', {}) /\ (disk' \in {disk, store'} \/ Listed(store, disk', {}))
<1>1. store \in Store /\ [store EXCEPT !.active[k] = {}] \in Store
      /\ Listed(store, store, {}) /\ Listed(store, [store EXCEPT !.active[k] = {}], {})
  <2>1. store \in Store
    BY DEF TypeOK
  <2>2. [store EXCEPT !.active[k] = {}] \in Store
    BY <2>1 DEF Store
  <2>3. Listed(store, store, {})
    BY DEF Listed
  <2>4. Listed(store, [store EXCEPT !.active[k] = {}], {})
    BY <2>1 DEF Store, Listed
  <2> QED
    BY <2>1, <2>2, <2>3, <2>4
<1>2. CASE RunForward(k)
  <2>1. CASE Offer(k, [store EXCEPT !.active[k] = {}])
    BY <1>1, <2>1, OfferLists
  <2>2. CASE ~ Offer(k, [store EXCEPT !.active[k] = {}])
    <3>1. /\ \/ store' = [store EXCEPT !.active[k] = {}]
             \/ store' = [[store EXCEPT !.active[k] = {}] EXCEPT !.failure[k] = "reason"]
          /\ File({disk})
      BY <1>2, <2>2 DEF RunForward
    <3>2. disk' \in {disk, store'}
      BY <3>1, FileIs
    <3> QED
      BY <1>1, <3>1, <3>2 DEF Store, Listed
  <2> QED
    BY <2>1, <2>2
<1>3. CASE SessionSends(k)
  BY <1>1, <1>3, OfferLists DEF SessionSends
<1>4. CASE SessionFails(k)
  <2>1. disk' \in {disk, store'}
    BY <1>4, SessionFailsChanges
  <2> QED
    BY <1>1, <1>4, <2>1 DEF SessionFails, Store, Listed
<1>5. ASSUME NEW d \in Attempt,
             \/ DownstreamFulfills(k, d) \/ DownstreamFulfilled(k, d)
             \/ DownstreamFails(k, d) \/ DownstreamFailed(k, d)
      PROVE  Listed(store, store', {}) /\ (disk' \in {disk, store'} \/ Listed(store, disk', {}))
  <2>1. disk' \in {disk, store'}
    BY <1>5, FulfillsChanges, FulfilledChanges, WillFailChanges, FailedChanges
  <2>2. Listed(store, store', {})
    <3>1. CASE DownstreamFulfills(k, d)
      BY <1>1, <3>1 DEF DownstreamFulfills, Store, Listed
    <3>2. CASE DownstreamFulfilled(k, d)
      BY <1>1, <3>2 DEF DownstreamFulfilled, Store, Listed
    <3>3. CASE DownstreamFails(k, d)
      BY <1>1, <3>3 DEF DownstreamFails, Store, Listed
    <3>4. CASE DownstreamFailed(k, d)
      BY <1>1, <3>4 DEF DownstreamFailed, Store, Listed
    <3> QED
      BY <1>5, <3>1, <3>2, <3>3, <3>4
  <2> QED
    BY <2>1, <2>2
<1>6. CASE ForwardRaises(k)
  <2>1. disk' \in {disk, store'}
    BY <1>6, ForwardRaisesChanges
  <2> QED
    BY <1>1, <1>6, <2>1 DEF ForwardRaises, Store, Listed
<1> QED
  BY <1>2, <1>3, <1>4, <1>5, <1>6 DEF ForwardNext

LEMMA HoldLists ==
    ASSUME TypeOK, NEW k \in Key, HoldNext(k)
    PROVE  Listed(store, store', {}) /\ (disk' \in {disk, store'} \/ Listed(store, disk', {}))
<1>1. store \in Store
  BY DEF TypeOK
<1>2. CASE RunHold(k) \/ Fund(k) \/ Spend(k)
  BY <1>2 DEF RunHold, Fund, Spend, Listed
<1>3. CASE Reveal(k)
  <2>1. disk' = store'
    BY <1>3, RevealChanges
  <2> QED
    BY <1>1, <1>3, <2>1 DEF Reveal, Store, Listed
<1>4. CASE FailSwap(k)
  <2> DEFINE base == IF store.sets[k] # NoSet THEN [store EXCEPT !.sets[k].res = "failed"] ELSE store
  <2>1. Listed(store, base, {})
    BY <1>1 DEF Store, Listed
  <2>2. Listed(base, store', {})
    BY <1>1, <1>4 DEF FailSwap, Store, Listed
  <2>3. disk' \in {disk, store', base}
    BY <1>4, FileIs DEF FailSwap
  <2> QED
    BY <2>1, <2>2, <2>3 DEF Listed
<1>5. CASE CancelHold(k)
  <2>1. disk' \in {disk, store'}
    BY <1>5, CancelChanges
  <2> QED
    BY <1>1, <1>5, <2>1 DEF CancelHold, Store, Listed
<1> QED
  BY <1>2, <1>3, <1>4, <1>5 DEF HoldNext

LEMMA NextScenario == [Next]_vars => sc' = sc
<1>1. \A h \in Htlc : Collect(h) \/ Refuse(h) \/ RefuseRaises(h) \/ Arrive(h) => sc' = sc
  BY DEF Collect, Refuse, RefuseRaises, Arrive
<1>2. \A k \in Key : SetNext(k) => sc' = sc
  BY DEF SetNext, SetWaits, SetMoves, SetFails, SetCalls, SetSettles, SettleRaises
<1>3. \A k \in Key : ForwardNext(k) => sc' = sc
  BY DEF ForwardNext, RunForward, SessionSends, SessionFails, ForwardRaises,
         DownstreamFulfills, DownstreamFulfilled, DownstreamFails, DownstreamFailed
<1>4. \A k \in Key : HoldNext(k) => sc' = sc
  BY DEF HoldNext, RunHold, Fund, Spend, Reveal, FailSwap, CancelHold
<1>5. \A p \in Peer : StartIteration(p) \/ Disconnect(p) \/ Connect(p) => sc' = sc
  BY DEF StartIteration, Disconnect, Connect
<1>6. SaveDb \/ Elapse \/ Expire \/ Blocks \/ LocktimePasses \/ TipChanges \/ Crash => sc' = sc
  BY DEF SaveDb, Elapse, Expire, Blocks, LocktimePasses, TipChanges, Crash
<1> QED
  BY <1>1, <1>2, <1>3, <1>4, <1>5, <1>6 DEF Next, JobNext, FirstStepNext, vars

(* The scenario's swaps, and the hold invoices of its user, stay those.     *)
LEMMA ListsKept ==
    ASSUME TypeOK, CopiesAreCurrent, Legal(sc, store), [Next]_vars,
           SwapFields(sc, store), SwapFields(sc, disk)
    PROVE  sc' = sc /\ SwapFields(sc, store') /\ SwapFields(sc, disk')
<1>1. \A s, t, P : SwapFields(sc, s) /\ Listed(s, t, P) => SwapFields(sc, t)
  BY DEF SwapFields, Listed
<1>2. sc' = sc
  BY NextScenario
<1>3. CASE \E P : Listed(store, store', P) /\ (disk' \in {disk, store'} \/ Listed(store, disk', P))
  BY <1>1, <1>2, <1>3
<1>4. ASSUME NEW h \in Htlc, Arrive(h)
      PROVE  SwapFields(sc, store') /\ SwapFields(sc, disk')
  <2>1. disk' = store'
    BY <1>4, ArriveChanges
  <2>2. Listed(store, store', {})
    BY <1>4 DEF Arrive, TypeOK, Store, Listed
  <2> QED
    BY <1>1, <2>1, <2>2
<1>5. CASE Crash \/ SaveDb \/ UNCHANGED <<store, disk>>
  <2>1. store' \in {store, disk} /\ disk' \in {store, disk}
    BY <1>5 DEF Crash, SaveDb
  <2> QED
    BY <1>2, <2>1
<1>6. CASE \/ \E p \in Peer : StartIteration(p) \/ Disconnect(p) \/ Connect(p)
           \/ Elapse \/ Expire \/ Blocks \/ LocktimePasses \/ TipChanges \/ UNCHANGED vars
  <2>1. UNCHANGED <<store, disk>>
    BY <1>6 DEF StartIteration, Disconnect, Connect, Elapse, Expire, Blocks, LocktimePasses,
                TipChanges, vars
  <2> QED
    BY <1>5, <2>1
<1> QED
  BY <1>2, <1>3, <1>4, <1>5, <1>6, FirstLoopLists, SetLists, ForwardLists, HoldLists
     DEF Next, JobNext, FirstStepNext

-----------------------------------------------------------------------------
(*                       Every step leaves it legal                         *)

BegunStays(c, s, t) ==
    \A k \in Key : c.kind[k] = "forward" /\ Begun(c, s, k) => Begun(c, t, k)

LEMMA LogBegun ==
    ASSUME NEW c, IsScenario(c), NEW s \in Store, NEW t \in Store,
           \A h \in Htlc : s.log[h] # "none" => t.log[h] # "none",
           \A h \in t.unf : h \in s.unf \/ s.log[h] = "none",
           \A k \in Key : c.kind[k] = "forward" /\ Begun(c, s, k) =>
               t.sets[k] = s.sets[k] \/ t.sets[k].res \notin {"waiting", "complete"}
    PROVE  BegunStays(c, s, t)
BY BegunKept DEF BegunStays

LEMMA RestsLegal ==
    ASSUME NEW c, IsScenario(c), NEW s \in Store, NEW t \in Store, Legal(c, s), Rests(s, t)
    PROVE  Legal(c, t) /\ BegunStays(c, s, t)
<1>1. Still(s, t) /\ \A k \in Key : t.down[k] = s.down[k]
  BY DEF Rests, Still, SameOf
<1>2. Legal(c, t)
  BY <1>1, OthersLegal
<1>3. BegunStays(c, s, t)
  BY <1>1, StillLegal DEF BegunStays
<1> QED
  BY <1>2, <1>3

LEMMA RefusesBegun ==
    ASSUME NEW c, IsScenario(c), NEW s \in Store, NEW t \in Store, NEW h \in Htlc, Refuses(s, t, h)
    PROVE  BegunStays(c, s, t)
BY LogBegun DEF Refuses, LogSet, SameOf

LEMMA ArrivesBegun ==
    ASSUME NEW c, IsScenario(c), NEW s \in Store, NEW t \in Store, NEW h \in Htlc, Arrives(s, t, h)
    PROVE  BegunStays(c, s, t)
<1>1. \A x \in Htlc : s.log[x] # "none" => t.log[x] # "none"
  BY DEF Arrives, LogSet
<1>2. \A x \in t.unf : x \in s.unf \/ s.log[x] = "none"
  BY DEF Arrives
<1> QED
  BY <1>1, <1>2, LogBegun DEF Arrives, SameOf

LEMMA CollectsBegun ==
    ASSUME NEW c, IsScenario(c), NEW s \in Store, NEW t \in Store, Legal(c, s),
           NEW h \in Htlc, NEW k \in Key, k = c.key[h], Collects(s, t, h, k)
    PROVE  BegunStays(c, s, t)
<1>1. /\ t.log = s.log /\ t.unf \subseteq s.unf /\ h \in s.unf
      /\ \A j \in Key \ {k} : t.sets[j] = s.sets[j]
  BY DEF Collects, OnlySet, OnlyOf, SameOf
<1>2. h \in c.sent
  BY <1>1 DEF Legal, Placed
<1>3. ~ Begun(c, s, k)
  BY <1>1, <1>2 DEF Begun
<1> QED
  BY <1>1, <1>3, LogBegun

LEMMA MarksBegun ==
    ASSUME NEW c, IsScenario(c), NEW s \in Store, NEW t \in Store, NEW k \in Key, Marks(c, s, t, k)
    PROVE  BegunStays(c, s, t)
<1>1. /\ t.log = s.log /\ t.unf = s.unf /\ \A j \in Key \ {k} : t.sets[j] = s.sets[j]
      /\ t.sets[k].res = s.sets[k].res \/ s.sets[k].res = "waiting"
  BY DEF Marks, OnlySet, OnlyOf, SameOf
<1>2. Begun(c, s, k) => t.sets[k].res \notin {"waiting", "complete"}
  BY <1>1 DEF Begun
<1> QED
  BY <1>1, <1>2, LogBegun

LEMMA MovesBegun ==
    ASSUME NEW c, IsScenario(c), NEW s \in Store, NEW t \in Store, NEW k \in Key, Moves(c, s, t, k)
    PROVE  BegunStays(c, s, t)
<1>1. /\ t.log = s.log /\ t.unf = s.unf /\ c.kind[k] = "part"
      /\ \A j \in Key \ {k, c.parent[k]} : t.sets[j] = s.sets[j]
  BY DEF Moves, SameOf
<1>2. c.kind[c.parent[k]] = "invoice"
  BY <1>1, ScenarioFacts
<1>3. \A j \in Key : c.kind[j] = "forward" => t.sets[j] = s.sets[j]
  BY <1>1, <1>2
<1> QED
  BY <1>1, <1>3, LogBegun

LEMMA EndsBegun ==
    ASSUME NEW c, IsScenario(c), NEW s \in Store, NEW t \in Store, NEW k \in Key, OnlySet(s, t, k),
           t.unf = s.unf, \A h \in Htlc : s.log[h] # "none" => t.log[h] # "none",
           t.sets[k].res \notin {"waiting", "complete"}
    PROVE  BegunStays(c, s, t)
<1>1. \A j \in Key \ {k} : t.sets[j] = s.sets[j]
  BY DEF OnlySet, OnlyOf, SameOf
<1> QED
  BY <1>1, LogBegun

(* A step that starts no task, and offers nothing for one *)
LEMMA TasksKept ==
    ASSUME NEW c, NEW s, NEW t, NEW m, NEW n, BegunStays(c, s, t),
           \A k \in Key : OnceRuns(c, s, m, k),
           \A k \in Key : k \in n.session => k \in m.session \/ c.kind[k] = "trampoline",
           \A k \in Key : c.kind[k] = "forward" /\ k \in n.tasks => k \in m.tasks /\ t.down[k] = s.down[k]
    PROVE  \A k \in Key : OnceRuns(c, t, n, k)
<1> SUFFICES ASSUME NEW k \in Key
             PROVE  OnceRuns(c, t, n, k)
  OBVIOUS
<1>1. t.down[k] = s.down[k] => Tried(t, k) = Tried(s, k)
  BY DEF Tried
<1> QED
  BY <1>1 DEF OnceRuns, BegunStays

LEMMA FirstLoopLegal ==
    ASSUME TypeOK, TypeOK', PlacedInv, sc' = sc, NEW h \in Htlc,
           Collect(h) \/ Refuse(h) \/ RefuseRaises(h)
    PROVE  PlacedInv'
<1>1. /\ IsScenario(sc) /\ store \in Store /\ store' \in Store /\ disk' \in Store
      /\ Legal(sc, store) /\ Legal(sc, disk) /\ sc.key[h] \in Key /\ job.unf \subseteq store.unf
      /\ \A k \in Key : OnceRuns(sc, store, mem, k)
  BY ScenarioTyped DEF TypeOK, PlacedInv
<1>2. CASE Collect(h)
  <2>1. Collects(store, store', h, sc.key[h]) /\ disk' \in {disk, store'}
    BY <1>1, <1>2, CollectChanges
  <2>2. Legal(sc, store') /\ BegunStays(sc, store, store')
    BY <1>1, <2>1, CollectsLegal, CollectsBegun
  <2>3. \A k \in Key : store'.down[k] = store.down[k]
    BY <1>1, <2>1 DEF Collects, OnlySet, OnlyOf, SameOf
  <2>4. mem' = mem
    BY <1>2 DEF Collect
  <2>5. \A k \in Key : OnceRuns(sc, store', mem', k)
    BY <1>1, <2>2, <2>3, <2>4, TasksKept
  <2>6. job'.unf \subseteq store'.unf
    <3>1. job' = FirstStep(job.peer, job.unf \ {h}, store') /\ store'.unf = store.unf \ {h}
      BY <1>2, <2>1 DEF Collect, Collects
    <3> QED
      BY <1>1, <3>1, FirstStepUnf
  <2> QED
    BY <1>1, <2>1, <2>2, <2>5, <2>6 DEF PlacedInv
<1>3. CASE Refuse(h)
  <2>1. Refuses(store, store', h) /\ (disk' \in {disk, store'} \/ Refuses(store, disk', h))
    BY <1>1, <1>3, RefuseChanges
  <2>2. Legal(sc, store') /\ BegunStays(sc, store, store') /\ Legal(sc, disk')
    BY <1>1, <2>1, RefusesLegal, RefusesBegun
  <2>3. \A k \in Key : store'.down[k] = store.down[k]
    BY <2>1 DEF Refuses, SameOf
  <2>4. mem' = mem
    BY <1>3 DEF Refuse
  <2>5. \A k \in Key : OnceRuns(sc, store', mem', k)
    BY <1>1, <2>2, <2>3, <2>4, TasksKept
  <2>6. job'.unf \subseteq store'.unf
    <3>1. job' = FirstStep(job.peer, job.unf \ {h}, store') /\ store'.unf = store.unf \ {h}
      BY <1>1, <1>3, StoreChanged DEF Refuse, SetLog, Store
    <3> QED
      BY <1>1, <3>1, FirstStepUnf
  <2> QED
    BY <2>2, <2>5, <2>6 DEF PlacedInv
<1>4. CASE RefuseRaises(h)
  <2>1. Rests(store, store') /\ disk' \in {disk, store'}
    BY <1>4, RaiseChanges
  <2>2. Legal(sc, store') /\ BegunStays(sc, store, store')
    BY <1>1, <2>1, RestsLegal
  <2>3. \A k \in Key : store'.down[k] = store.down[k]
    BY <2>1 DEF Rests, SameOf
  <2>4. mem' = mem /\ job'.unf = {}
    BY <1>4 DEF RefuseRaises, Abort, NoJob
  <2>5. \A k \in Key : OnceRuns(sc, store', mem', k)
    BY <1>1, <2>2, <2>3, <2>4, TasksKept
  <2> QED
    BY <1>1, <2>1, <2>2, <2>4, <2>5 DEF PlacedInv
<1> QED
  BY <1>2, <1>3, <1>4

(* A step of the second loop that is about k *)
StaysLegal(t) ==
    /\ Legal(sc, t) /\ BegunStays(sc, store, t) /\ t.unf = store.unf
    /\ \A j \in Key : t.down[j] = store.down[j]

LEMMA FailingStays ==
    ASSUME TypeOK, PlacedInv, NEW t \in Store, NEW k \in Key, NEW hs, Failing(store, t, k, hs)
    PROVE  StaysLegal(t)
<1>1. /\ IsScenario(sc) /\ store \in Store /\ Legal(sc, store)
      /\ OnlySet(store, t, k) /\ t.unf = store.unf
      /\ \A h \in Htlc : store.log[h] # "none" => t.log[h] # "none"
      /\ t.sets[k].res \notin {"waiting", "complete"}
  BY DEF TypeOK, PlacedInv, Failing, LogSet, NoSet
<1>2. Legal(sc, t)
  BY <1>1, FailingLegal
<1>3. BegunStays(sc, store, t)
  BY <1>1, EndsBegun
<1> QED
  BY <1>1, <1>2, <1>3 DEF StaysLegal, OnlySet, OnlyOf, SameOf

LEMMA SettlesStays ==
    ASSUME TypeOK, PlacedInv, NEW t \in Store, NEW k \in Key, NEW hs, Settles(sc, store, t, k, hs)
    PROVE  StaysLegal(t)
<1>1. /\ IsScenario(sc) /\ store \in Store /\ Legal(sc, store)
      /\ OnlySet(store, t, k) /\ t.unf = store.unf
      /\ \A h \in Htlc : store.log[h] # "none" => t.log[h] # "none"
      /\ t.sets[k].res \notin {"waiting", "complete"}
  BY DEF TypeOK, PlacedInv, Settles, LogSet, NoSet
<1>2. Legal(sc, t)
  BY <1>1, SettlesLegal
<1>3. BegunStays(sc, store, t)
  BY <1>1, EndsBegun
<1> QED
  BY <1>1, <1>2, <1>3 DEF StaysLegal, OnlySet, OnlyOf, SameOf

LEMMA SetStays ==
    ASSUME TypeOK, TypeOK', CopiesAreCurrent, PlacedInv, NEW k \in Key, SetNext(k)
    PROVE  StaysLegal(store') /\ Legal(sc, disk')
<1>1. /\ IsScenario(sc) /\ store \in Store /\ store' \in Store /\ disk' \in Store
      /\ Legal(sc, store) /\ Legal(sc, disk)
  BY DEF TypeOK, PlacedInv
<1>2. CASE SetWaits(k)
  <2>1. /\ store' = store \/ Marks(sc, store, store', k)
        /\ disk' \in {disk, store'}
    BY <1>1, <1>2, WaitsChanges
  <2>2. Marks(sc, store, store', k) => StaysLegal(store')
    BY <1>1, MarksLegal, MarksBegun DEF StaysLegal, Marks, OnlySet, OnlyOf, SameOf
  <2>3. StaysLegal(store)
    BY <1>1 DEF StaysLegal, BegunStays
  <2>4. StaysLegal(store')
    BY <2>1, <2>2, <2>3
  <2> QED
    BY <1>1, <2>1, <2>4 DEF StaysLegal
<1>3. CASE SetMoves(k)
  <2>1. Moves(sc, store, store', k) /\ disk' \in {disk, store'}
    BY <1>1, <1>3, MovesChanges
  <2>2. Legal(sc, store') /\ BegunStays(sc, store, store')
    BY <1>1, <2>1, MovesLegal, MovesBegun
  <2> QED
    BY <1>1, <2>1, <2>2 DEF StaysLegal, Moves
<1>4. CASE SetFails(k)
  <2>1. FailsTo(store', k) /\ (disk' \in {disk, store'} \/ FailsTo(disk', k))
    BY <1>1, <1>4, FailsChanges
  <2>2. StaysLegal(store')
    BY <1>1, <2>1, FailingStays DEF FailsTo
  <2>3. FailsTo(disk', k) => StaysLegal(disk')
    BY <1>1, FailingStays DEF FailsTo
  <2> QED
    BY <1>1, <2>1, <2>2, <2>3 DEF StaysLegal
<1>5. CASE SetCalls(k)
  <2>1. Calls(sc, store, store', k) /\ disk' = store'
    BY <1>1, <1>5, CallsChanges
  <2>2. Legal(sc, store')
    BY <1>1, <2>1, CallsLegal
  <2>3. BegunStays(sc, store, store')
    BY <1>1, <2>1, EndsBegun DEF Calls
  <2> QED
    BY <2>1, <2>2, <2>3 DEF StaysLegal, Calls, OnlySet, OnlyOf, SameOf
<1>6. CASE SetSettles(k)
  <2>1. SettlesTo(store', k) /\ (disk' \in {disk, store'} \/ SettlesTo(disk', k))
    BY <1>1, <1>6, SettlesChanges
  <2>2. StaysLegal(store')
    BY <1>1, <2>1, SettlesStays DEF SettlesTo
  <2>3. SettlesTo(disk', k) => StaysLegal(disk')
    BY <1>1, SettlesStays DEF SettlesTo
  <2> QED
    BY <1>1, <2>1, <2>2, <2>3 DEF StaysLegal
<1>7. CASE SettleRaises(k)
  <2>1. SettlesTo(store', k) /\ disk' = store'
    BY <1>1, <1>7, RaisesChanges
  <2>2. StaysLegal(store')
    BY <1>1, <2>1, SettlesStays DEF SettlesTo
  <2> QED
    BY <2>1, <2>2 DEF StaysLegal
<1> QED
  BY <1>2, <1>3, <1>4, <1>5, <1>6, <1>7 DEF SetNext

(* The only HTLC that is sent for a key has left the first loop when its    *)
(* set is called.                                                           *)
LEMMA CalledBegun ==
    ASSUME TypeOK, CopiesAreCurrent, PlacedInv, NEW k \in Key, SetCalls(k), sc.kind[k] = "forward"
    PROVE  Begun(sc, store', k) /\ Tried(store', k) = {}
<1>1. k \in job.todo /\ Legal(sc, store)
  BY DEF SetCalls, PlacedInv
<1>2. IsScenario(sc) /\ store.sets[k].htlcs # {} /\ store.sets[k].htlcs \subseteq Htlc
  BY <1>1, CopyFacts
<1>3. Calls(sc, store, store', k)
  BY <1>1, CallsChanges
<1>4. Tried(store', k) = {}
  <2>1. Once(sc, store, k) /\ ~ Begun(sc, store, k)
    BY <1>1, <1>3 DEF Legal, Calls, Begun
  <2>2. Tried(store, k) = {}
    BY <2>1 DEF Once
  <2> QED
    BY <1>3, <2>2 DEF Calls, OnlySet, Tried
<1>5. PICK h : h \in store.sets[k].htlcs
  BY <1>2
<1>6. h \in Htlc /\ h \in sc.sent /\ store.log[h] # "none" /\ h \notin store.unf /\ sc.key[h] = k
  <2>1. /\ h \in Htlc /\ store.log[h] # "none" /\ k \in {sc.key[h], Hash(sc, sc.key[h])}
        /\ h \notin store.unf /\ h \in sc.sent
    BY <1>1, <1>2, <1>5 DEF Legal, Placed
  <2>2. sc.key[h] \in Key
    BY <1>2, <2>1, ScenarioFacts
  <2>3. CASE sc.kind[sc.key[h]] = "part"
    <3>1. Hash(sc, sc.key[h]) = sc.parent[sc.key[h]]
          /\ sc.kind[sc.parent[sc.key[h]]] = "invoice"
      BY <1>2, <2>2, <2>3, ScenarioFacts
    <3> QED
      BY <2>1, <3>1
  <2>4. CASE sc.kind[sc.key[h]] # "part"
    BY <1>2, <2>1, <2>2, <2>4, ScenarioFacts
  <2> QED
    BY <2>1, <2>3, <2>4
<1>7. \A g \in sc.sent : sc.key[g] = k => g = h
  BY <1>2, <1>6 DEF IsScenario
<1>8. Begun(sc, store', k)
  BY <1>3, <1>6, <1>7 DEF Begun, Calls
<1> QED
  BY <1>4, <1>8

LEMMA SetLegal ==
    ASSUME TypeOK, TypeOK', CopiesAreCurrent, PlacedInv, sc' = sc, NEW k \in Key, SetNext(k)
    PROVE  PlacedInv'
<1>1. StaysLegal(store') /\ Legal(sc, disk')
  BY SetStays
<1>2. job'.unf \subseteq store'.unf
  <2>1. DoneWith(k) \/ job' = NoJob
    BY DEF SetNext, SetWaits, SetMoves, SetFails, SetCalls, SetSettles, SettleRaises, Abort
  <2>2. job'.unf \subseteq job.unf
    BY <2>1 DEF DoneWith, NoJob, TypeOK
  <2> QED
    BY <1>1, <2>2 DEF StaysLegal, PlacedInv
<1>3. \A j \in Key : OnceRuns(sc, store', mem', j)
  <2>1. /\ BegunStays(sc, store, store') /\ \A j \in Key : store'.down[j] = store.down[j]
        /\ \A j \in Key : OnceRuns(sc, store, mem, j)
    BY <1>1 DEF StaysLegal, PlacedInv
  <2>2. CASE ~ SetCalls(k)
    <3>1. mem'.tasks = mem.tasks /\ mem'.session = mem.session
      BY <2>2 DEF SetNext, SetWaits, SetMoves, SetFails, SetSettles, SettleRaises, TypeOK
    <3> QED
      BY <2>1, <3>1, TasksKept
  <2>3. CASE SetCalls(k)
    <3>1. mem'.tasks = mem.tasks \cup {k} /\ mem'.session = mem.session
      BY <2>3 DEF SetCalls, TypeOK
    <3> DEFINE less == [mem EXCEPT !.tasks = mem'.tasks \ {k}]
    <3>2. less.tasks \subseteq mem.tasks /\ k \notin less.tasks /\ less.session = mem.session
          /\ less.tasks = mem'.tasks \ {k}
      BY <3>1 DEF TypeOK
    <3> HIDE DEF less
    <3>3. \A j \in Key : OnceRuns(sc, store', less, j)
      BY <2>1, <3>2, TasksKept
    <3>4. sc.kind[k] = "forward" => Begun(sc, store', k) /\ Tried(store', k) = {}
      BY <2>3, CalledBegun
    <3> QED
      BY <3>1, <3>2, <3>3, <3>4 DEF OnceRuns
  <2> QED
    BY <2>2, <2>3
<1> QED
  BY <1>1, <1>2, <1>3 DEF StaysLegal, PlacedInv

LEMMA BatchIs ==
    ASSUME TypeOK, NEW k \in Key, RunHold(k) \/ Fund(k)
    PROVE  /\ mem'.callback = mem.callback /\ mem'.session = mem.session
           /\ mem'.tasks = IF RunHold(k) THEN mem.tasks \ {k} ELSE mem.tasks
           /\ RunHold(k) => /\ k \notin mem'.batch \ mem.batch \/ (k \in store.swaps /\ ~ IsFunded(k))
                            /\ mem'.batch \subseteq mem.batch \cup {k} /\ k \in mem.tasks
           /\ ~ RunHold(k) => mem'.batch = mem.batch \ {k}
<1>1. /\ mem \in [tasks : SUBSET Key, callback : SUBSET Key, bundle : SUBSET Key,
                  session : SUBSET Key, batch : SUBSET Key, reasons : SUBSET (Key \X Attempt),
                  raised : SUBSET Key]
  BY DEF TypeOK
<1>2. CASE RunHold(k)
  <2>1. mem' = [mem EXCEPT !.tasks = mem.tasks \ {k},
                           !.batch = IF k \in store.swaps /\ ~ IsFunded(k) THEN mem.batch \cup {k} ELSE mem.batch]
    BY <1>2 DEF RunHold
  <2>2. k \in mem.tasks
    BY <1>2 DEF RunHold
  <2> QED
    BY <1>1, <1>2, <2>1, <2>2
<1>3. CASE Fund(k) /\ ~ RunHold(k)
  <2>1. mem' = [mem EXCEPT !.batch = mem.batch \ {k}]
    BY <1>3 DEF Fund
  <2> QED
    BY <1>1, <1>3, <2>1
<1> QED
  BY <1>2, <1>3

(* What is downstream of k may change. *)
LEMMA StillBegun ==
    ASSUME NEW c, IsScenario(c), NEW s \in Store, NEW t \in Store, Legal(c, s), Still(s, t)
    PROVE  BegunStays(c, s, t)
BY StillLegal DEF BegunStays

LEMMA GivesUpLegal ==
    ASSUME NEW c, IsScenario(c), NEW s \in Store, NEW t \in Store, Legal(c, s), NEW k \in Key,
           GivesUp(s, t, k) \/ Reveals(s, t, k)
    PROVE  Legal(c, t) /\ BegunStays(c, s, t) /\ \A j \in Key : t.down[j] = s.down[j]
<1>1. Still(s, t) /\ \A j \in Key : t.down[j] = s.down[j]
  BY DEF GivesUp, Reveals, OnlyOf, SameOf
<1> QED
  BY <1>1, OthersLegal, StillBegun

LEMMA ForwardLegal ==
    ASSUME TypeOK, TypeOK', PlacedInv, sc' = sc, NEW k \in Key, ForwardNext(k)
    PROVE  PlacedInv'
<1>1. /\ IsScenario(sc) /\ store \in Store /\ store' \in Store /\ disk' \in Store
      /\ Legal(sc, store) /\ Legal(sc, disk) /\ \A j \in Key : OnceRuns(sc, store, mem, j)
  BY DEF TypeOK, PlacedInv
<1>2. job'.unf \subseteq store'.unf
  BY ForwardLeaves DEF SetsAreLeft, Idle, NoJob
<1> DEFINE Fine == /\ Legal(sc, store') /\ Legal(sc, disk') /\ BegunStays(sc, store, store')
                   /\ \A j \in Key \ {k} : store'.down[j] = store.down[j]
<1>3. ASSUME NEW d \in Attempt, Offers(store, store', k, d),
             disk' \in {disk, store'} \/ Offers(store, disk', k, d),
             sc.kind[k] = "forward" => Begun(sc, store, k) /\ Tried(store, k) = {}
      PROVE  Fine
  <2>1. Legal(sc, store') /\ (Offers(store, disk', k, d) => Legal(sc, disk'))
    BY <1>1, <1>3, OffersLegal
  <2>2. Still(store, store') /\ \A j \in Key \ {k} : store'.down[j] = store.down[j]
    BY <1>3 DEF Offers, Downs, OnlyOf, SameOf
  <2>3. BegunStays(sc, store, store')
    BY <1>1, <2>2, StillBegun
  <2> QED
    BY <1>1, <1>3, <2>1, <2>2, <2>3
<1>4. CASE RunForward(k)
  <2>1. k \in mem.tasks /\ sc.kind[k] = "forward" => Begun(sc, store, k) /\ Tried(store, k) = {}
    BY <1>1 DEF OnceRuns
  <2>2. ASSUME Rests(store, store'), disk' \in {disk, store'}
        PROVE  Fine
    BY <1>1, <2>2, RestsLegal DEF Rests, SameOf
  <2>3. ASSUME GivesUp(store, store', k), disk' \in {disk, store'}
        PROVE  Fine
    BY <1>1, <2>3, GivesUpLegal
  <2>4. ASSUME NEW d \in Attempt, Offers(store, store', k, d),
               disk' \in {disk, store'} \/ Offers(store, disk', k, d)
        PROVE  Fine
    <3>1. k \in mem.tasks
      BY <1>4, RunForwardChanges
    <3> HIDE DEF Fine
    <3> QED
      BY <1>3, <2>1, <2>4, <3>1
  <2>5. Fine
    <3> HIDE DEF Fine
    <3> QED
      BY <1>4, <2>2, <2>3, <2>4, RunForwardChanges
  <2>6. /\ mem'.tasks = mem.tasks \ {k}
        /\ mem'.session = IF sc.kind[k] = "trampoline" THEN mem.session \cup {k} ELSE mem.session
    BY <1>4 DEF RunForward, TypeOK
  <2>7. \A j \in Key : OnceRuns(sc, store', mem', j)
    BY <1>1, <2>5, <2>6, TasksKept
  <2> QED
    BY <1>2, <2>5, <2>7 DEF PlacedInv
<1>5. CASE SessionSends(k)
  <2>1. mem' = mem /\ sc.kind[k] = "trampoline"
    BY <1>1, <1>5 DEF SessionSends, OnceRuns
  <2>2. Fine
    <3>1. PICK d \in Attempt : /\ Offers(store, store', k, d)
                               /\ disk' \in {disk, store'} \/ Offers(store, disk', k, d)
      BY <1>5, SessionSendsChanges
    <3> HIDE DEF Fine
    <3> QED
      BY <1>3, <2>1, <3>1
  <2>3. \A j \in Key : OnceRuns(sc, store', mem', j)
    BY <1>1, <2>1, <2>2, TasksKept
  <2> QED
    BY <1>2, <2>2, <2>3 DEF PlacedInv
<1>6. CASE SessionFails(k)
  <2>1. mem'.tasks = mem.tasks /\ mem'.session = mem.session \ {k}
    BY <1>6 DEF SessionFails, TypeOK
  <2>2. GivesUp(store, store', k) /\ disk' \in {disk, store'}
    BY <1>6, SessionFailsChanges
  <2>3. /\ Legal(sc, store') /\ Legal(sc, disk') /\ BegunStays(sc, store, store')
        /\ \A j \in Key : store'.down[j] = store.down[j]
    BY <1>1, <2>2, GivesUpLegal
  <2>4. \A j \in Key : OnceRuns(sc, store', mem', j)
    BY <1>1, <2>1, <2>3, TasksKept
  <2> QED
    BY <1>2, <2>3, <2>4 DEF PlacedInv
<1>7. CASE ForwardRaises(k)
  <2>1. /\ mem'.tasks = mem.tasks \ {k}
        /\ mem'.session = IF k \in mem.tasks THEN mem.session ELSE mem.session \ {k}
    BY <1>7 DEF ForwardRaises, TypeOK
  <2>2. Rests(store, store') /\ disk' \in {disk, store'}
    BY <1>7, ForwardRaisesChanges
  <2>3. /\ Legal(sc, store') /\ Legal(sc, disk') /\ BegunStays(sc, store, store')
        /\ \A j \in Key : store'.down[j] = store.down[j]
    BY <1>1, <2>2, RestsLegal DEF Rests, SameOf
  <2>4. \A j \in Key : OnceRuns(sc, store', mem', j)
    BY <1>1, <2>1, <2>3, TasksKept
  <2> QED
    BY <1>2, <2>3, <2>4 DEF PlacedInv
<1>8. ASSUME NEW d \in Attempt,
             \/ DownstreamFulfills(k, d) \/ DownstreamFulfilled(k, d)
             \/ DownstreamFails(k, d) \/ DownstreamFailed(k, d)
      PROVE  PlacedInv'
  <2>1. mem'.tasks = mem.tasks /\ mem'.session \subseteq mem.session
    BY <1>8 DEF DownstreamFulfills, DownstreamFulfilled, DownstreamFails, DownstreamFailed, TypeOK
  <2>2. store.down[k][d] # "none"
    BY <1>8 DEF DownstreamFulfills, DownstreamFulfilled, DownstreamFails, DownstreamFailed
  <2>3. sc.kind[k] = "forward" => k \notin mem.tasks
    <3>1. d \in Tried(store, k)
      BY <2>2 DEF Tried
    <3> QED
      BY <1>1, <3>1 DEF OnceRuns
  <2>4. /\ disk' \in {disk, store'}
        /\ \/ Rests(store, store')
           \/ \E from, to : Downs(store, store', k, d, from, to) /\ from # "none"
    <3>1. CASE DownstreamFulfilled(k, d)
      BY <3>1, FulfilledChanges
    <3>2. CASE DownstreamFulfills(k, d)
      BY <3>2, FulfillsChanges DEF Fulfills
    <3>3. CASE DownstreamFails(k, d)
      BY <3>3, WillFailChanges DEF WillFail
    <3>4. CASE DownstreamFailed(k, d)
      BY <3>4, FailedChanges DEF HasFailed
    <3> QED
      BY <1>8, <3>1, <3>2, <3>3, <3>4
  <2>5. Fine
    <3>1. CASE Rests(store, store')
      BY <1>1, <2>4, <3>1, RestsLegal DEF Rests, SameOf
    <3>2. ASSUME NEW from, NEW to, Downs(store, store', k, d, from, to), from # "none"
          PROVE  Fine
      <4>1. Legal(sc, store')
        BY <1>1, <3>2, AnswersLegal
      <4>2. Still(store, store') /\ \A j \in Key \ {k} : store'.down[j] = store.down[j]
        BY <3>2 DEF Downs, OnlyOf, SameOf
      <4>3. BegunStays(sc, store, store')
        BY <1>1, <4>2, StillBegun
      <4> QED
        BY <1>1, <2>4, <4>1, <4>2, <4>3
    <3> QED
      BY <2>4, <3>1, <3>2
  <2>6. \A j \in Key : OnceRuns(sc, store', mem', j)
    BY <1>1, <2>1, <2>3, <2>5, TasksKept
  <2> QED
    BY <1>2, <2>5, <2>6 DEF PlacedInv
<1> QED
  BY <1>4, <1>5, <1>6, <1>7, <1>8 DEF ForwardNext

LEMMA HoldLegal ==
    ASSUME TypeOK, TypeOK', PlacedInv, sc' = sc, NEW k \in Key, HoldNext(k)
    PROVE  PlacedInv'
<1>1. /\ IsScenario(sc) /\ store \in Store /\ store' \in Store /\ disk' \in Store
      /\ Legal(sc, store) /\ Legal(sc, disk) /\ \A j \in Key : OnceRuns(sc, store, mem, j)
  BY DEF TypeOK, PlacedInv
<1>2. job'.unf \subseteq store'.unf
  BY DEF HoldNext, RunHold, Fund, Spend, Reveal, FailSwap, CancelHold, Idle, NoJob
<1>3. mem'.tasks \subseteq mem.tasks /\ mem'.session = mem.session
  <2>1. CASE RunHold(k) \/ Fund(k)
    BY <2>1, BatchIs
  <2>3. CASE FailSwap(k)
    <3>1. PICK c, b : mem' = [mem EXCEPT !.callback = c, !.bundle = b]
      BY <2>3 DEF FailSwap
    <3> QED
      BY <3>1 DEF TypeOK
  <2>2. CASE Spend(k) \/ Reveal(k) \/ CancelHold(k)
    BY <2>2 DEF Spend, Reveal, CancelHold
  <2> QED
    BY <2>1, <2>2, <2>3 DEF HoldNext
<1>4. /\ Legal(sc, store') /\ Legal(sc, disk') /\ BegunStays(sc, store, store')
      /\ \A j \in Key : store'.down[j] = store.down[j]
  <2>1. CASE RunHold(k) \/ Fund(k) \/ Spend(k)
    <3>1. store' = store /\ disk' = disk
      BY <2>1 DEF RunHold, Fund, Spend
    <3> QED
      BY <1>1, <3>1 DEF BegunStays
  <2>2. CASE Reveal(k)
    BY <1>1, <2>2, RevealChanges, GivesUpLegal
  <2>3. CASE Rests(store, store') /\ disk' \in {disk, store'}
    BY <1>1, <2>3, RestsLegal DEF Rests, SameOf
  <2>4. CASE /\ SwapFails(store, store', k)
             /\ disk' \in {disk, store'} \/ SwapFails(store, disk', k)
    <3>1. StaysLegal(store')
      BY <1>1, <2>4, FailingStays DEF SwapFails
    <3>2. SwapFails(store, disk', k) => StaysLegal(disk')
      BY <1>1, FailingStays DEF SwapFails
    <3> QED
      BY <1>1, <2>4, <3>1, <3>2 DEF StaysLegal
  <2> QED
    BY <1>1, <2>1, <2>2, <2>3, <2>4, FailSwapChanges, CancelChanges DEF HoldNext
<1>5. \A j \in Key : OnceRuns(sc, store', mem', j)
  BY <1>1, <1>3, <1>4, TasksKept
<1> QED
  BY <1>2, <1>4, <1>5 DEF PlacedInv

LEMMA NextLegal ==
    ASSUME TypeOK, TypeOK', CopiesAreCurrent, PlacedInv, [Next]_vars
    PROVE  PlacedInv'
<1>1. /\ IsScenario(sc) /\ store \in Store /\ store' \in Store /\ sc' = sc
      /\ Legal(sc, store) /\ Legal(sc, disk) /\ \A k \in Key : OnceRuns(sc, store, mem, k)
      /\ job.unf \subseteq store.unf
  BY NextScenario DEF TypeOK, PlacedInv
<1>2. ASSUME NEW h \in Htlc, Arrive(h)
      PROVE  PlacedInv'
  <2>1. Arrives(store, store', h) /\ disk' = store' /\ h \in sc.sent
    BY <1>2, ArriveChanges
  <2>2. Legal(sc, store') /\ BegunStays(sc, store, store') /\ \A j \in Key : store'.down[j] = store.down[j]
    BY <1>1, <2>1, ArrivesLegal, ArrivesBegun DEF Arrives, SameOf
  <2>3. mem' = mem /\ job'.unf \subseteq store'.unf
    BY <1>2 DEF Arrive, Idle, NoJob
  <2>4. \A j \in Key : OnceRuns(sc, store', mem', j)
    BY <1>1, <2>2, <2>3, TasksKept
  <2> QED
    BY <1>1, <2>1, <2>2, <2>3, <2>4 DEF PlacedInv
<1>3. ASSUME NEW p \in Peer, StartIteration(p)
      PROVE  PlacedInv'
  <2>1. store' = store /\ disk' = disk /\ mem' = mem /\ job'.unf \subseteq store.unf
    BY <1>3, FirstStepUnf DEF StartIteration
  <2> QED
    BY <1>1, <2>1 DEF PlacedInv
<1>4. CASE \/ \E p \in Peer : Disconnect(p) \/ Connect(p)
           \/ Elapse \/ Expire \/ Blocks \/ LocktimePasses \/ TipChanges \/ SaveDb \/ UNCHANGED vars
  <2>1. store' = store /\ disk' \in {disk, store} /\ mem' = mem /\ job' = job
    BY <1>4 DEF Disconnect, Connect, Elapse, Expire, Blocks, LocktimePasses, TipChanges, SaveDb, vars
  <2> QED
    BY <1>1, <2>1 DEF PlacedInv
<1>5. CASE Crash
  <2>1. /\ store' = disk /\ disk' = disk /\ job'.unf = {} /\ mem'.tasks = {} /\ mem'.session = {}
    BY <1>5 DEF Crash, NoJob
  <2> QED
    BY <1>1, <2>1 DEF PlacedInv, OnceRuns
<1> QED
  BY <1>1, <1>2, <1>3, <1>4, <1>5, FirstLoopLegal, SetLegal, ForwardLegal, HoldLegal
     DEF Next, JobNext, FirstStepNext

LEMMA InitLegal == Init => PlacedInv
<1> SUFFICES ASSUME Init
             PROVE  PlacedInv
  OBVIOUS
<1>1. \A h \in Htlc : store.log[h] = "none"
  BY DEF Init
<1>2. /\ store.unf = {} /\ job.unf = {} /\ mem.tasks = {} /\ mem.session = {} /\ disk = store
      /\ \A k \in Key : store.sets[k] = NoSet
      /\ \A k \in Key, d \in Attempt : store.down[k][d] = "none"
  BY DEF Init, NoJob
<1>3. Legal(sc, store)
  BY <1>1, <1>2 DEF Legal, Placed, Formed, Once, Tried, NoSet
<1> QED
  BY <1>2, <1>3 DEF PlacedInv, OnceRuns

(* An HTLC for the next hop is offered downstream at most once, whatever is *)
(* saved when, and however often the process ends: it is never in a set     *)
(* that waits after its callback has run, and the set is SETTLING in the    *)
(* file before.                                                             *)
THEOREM OfferedOnce == Spec => []ForwardedOnce
<1>1. Init => TypeOK /\ CopiesAreCurrent /\ PlacedInv
  BY InitTyped, InitLegal
<1>2. TypeOK /\ CopiesAreCurrent /\ PlacedInv /\ [Next]_vars => (TypeOK /\ CopiesAreCurrent /\ PlacedInv)'
  BY NextTyped, NextLegal
<1>3. PlacedInv => ForwardedOnce
  <2> SUFFICES ASSUME PlacedInv, NEW k \in Key, sc.kind[k] = "forward"
               PROVE  Cardinality(Attempt \ Unused(k)) <= 1
    BY DEF ForwardedOnce
  <2>1. Attempt \ Unused(k) = Tried(store, k)
    BY DEF Unused, Tried
  <2>2. \A d, e \in Tried(store, k) : d = e
    BY DEF PlacedInv, Legal, Once
  <2>3. CASE Tried(store, k) = {}
    BY <2>1, <2>3, FS_EmptySet
  <2>4. CASE Tried(store, k) # {}
    <3>1. PICK d : d \in Tried(store, k)
      BY <2>4
    <3>2. Tried(store, k) = {d}
      BY <2>2, <3>1
    <3>3. Cardinality(Tried(store, k)) = 1
      BY <3>2, FS_Singleton
    <3> QED
      BY <2>1, <3>3
  <2> QED
    BY <2>3, <2>4
<1> QED
  BY <1>1, <1>2, <1>3, PTL DEF Spec

-----------------------------------------------------------------------------
(*                       The forwardings that are noted                     *)

LEMMA TakenActive ==
    ASSUME NEW s \in Store, NEW k \in Key, s.sets[k] # NoSet, NEW hs \in SUBSET Htlc,
           NEW gone \in SUBSET Htlc, NEW what, what \in {"fulfilled", "failed"}
    PROVE  \A j \in Key \ {k} : Cleaned(Taken(s, k, hs, what, gone), k).active[j] = s.active[j]
<1> DEFINE saved == SetLog(s, hs, what)
           left  == Taken(s, k, hs, what, gone)
<1>1. saved \in Store
  BY StoreChanged
<1>2. saved.active = s.active
  BY <1>1 DEF SetLog, Store
<1>3. left \in Store
  BY TakenTyped DEF IsLeft
<1>4. left.active = saved.active
  BY <1>1 DEF Taken, Store
<1> HIDE DEF saved, left
<1>5. \A j \in Key \ {k} : Cleaned(left, k).active[j] = left.active[j]
  BY <1>3 DEF Cleaned, Store
<1> QED
  BY <1>2, <1>4, <1>5 DEF left

LEMMA SetActive ==
    ASSUME TypeOK, CopiesAreCurrent, Legal(sc, store), NEW k \in Key, SetNext(k)
    PROVE  /\ \A j \in Key \ {k} : store'.active[j] = store.active[j]
           /\ SetWaits(k) \/ SetCalls(k) => store'.active[k] = store.active[k]
<1>1. store \in Store /\ store.sets \in [Key -> SetRecord] /\ Mine(k) \subseteq store.sets[k].htlcs
      /\ store.sets[k].htlcs \subseteq Htlc
  BY StoreFacts DEF TypeOK, Mine
<1>2. CASE SetWaits(k)
  <2> DEFINE m == Marked(k, job.snap[k])
  <2>1. k \in job.todo /\ store' = Cleaned(m, k) /\ m \in Store
    BY <1>2, MarkedTyped DEF SetWaits
  <2>2. m.active = store.active
    BY <1>1 DEF Marked, Store
  <2>3. store.sets[k].htlcs # {}
    BY <2>1, CopyFacts
  <2>4. m.sets[k].htlcs # {}
    <3>1. m = store \/ Marks(sc, store, m, k)
      BY <2>1, MarkedIs
    <3> QED
      BY <2>3, <3>1 DEF Marks
  <2> HIDE DEF m
  <2>5. store' = m
    BY <2>1, <2>4 DEF Cleaned
  <2> QED
    BY <2>2, <2>5
<1>3. CASE SetMoves(k)
  <2>1. PICK new : store' = Cleaned([store EXCEPT !.sets[sc.parent[k]] = new, !.sets[k].htlcs = {}], k)
    BY <1>3 DEF SetMoves
  <2> DEFINE moved == [store EXCEPT !.sets[sc.parent[k]] = new, !.sets[k].htlcs = {}]
  <2>2. moved.active = store.active
    BY <1>1 DEF Store
  <2>3. \A j \in Key \ {k} : Cleaned(moved, k).active[j] = moved.active[j]
    BY <1>1 DEF Store, Cleaned
  <2> HIDE DEF moved
  <2>4. \A j \in Key \ {k} : Cleaned(moved, k).active[j] = store.active[j]
    BY <2>2, <2>3
  <2>5. ~ SetWaits(k) /\ ~ SetCalls(k)
    BY <1>3 DEF SetMoves, SetWaits, SetCalls
  <2> QED
    BY <2>1, <2>4, <2>5 DEF moved
<1>4. CASE SetFails(k)
  <2> DEFINE res  == IF Verdict(k) = "fail" THEN "failed" ELSE "expired"
             base == [store EXCEPT !.sets[k].res = res]
             now  == {h \in Mine(k) : store.log[h] # "failed"}
  <2>1. store' = Cleaned(Taken(base, k, now, "failed", Mine(k)), k)
    BY <1>4 DEF SetFails, Taken
  <2>2. Base(store, base, k, res) /\ base.active = store.active
    BY <1>1, ResBase DEF Resolutions, Store
  <2> HIDE DEF base, res
  <2>3. \A j \in Key \ {k} : store'.active[j] = base.active[j]
    BY <1>1, <2>1, <2>2, TakenActive DEF Base
  <2>4. ~ SetWaits(k) /\ ~ SetCalls(k)
    BY <1>4 DEF SetFails, SetWaits, SetCalls
  <2> QED
    BY <2>2, <2>3, <2>4
<1>5. CASE SetCalls(k)
  BY <1>1, <1>5 DEF SetCalls, Store
<1>6. Settling(k).active = store.active
  BY <1>1 DEF Settling, Store
<1>7. CASE SetSettles(k)
  <2> DEFINE base == Settling(k)
             now  == {h \in Mine(k) : store.log[h] # "fulfilled"}
  <2>1. store' = Cleaned(Taken(base, k, now, "fulfilled", Mine(k)), k)
    BY <1>7 DEF SetSettles, Taken
  <2>2. Base(store, base, k, "settling")
    BY SettlingBase
  <2> HIDE DEF base
  <2>3. \A j \in Key \ {k} : store'.active[j] = base.active[j]
    BY <1>1, <2>1, <2>2, TakenActive DEF Base
  <2>4. ~ SetWaits(k) /\ ~ SetCalls(k)
    BY <1>7 DEF SetSettles, SetWaits, SetCalls
  <2> QED
    BY <1>6, <2>3, <2>4 DEF base
<1>8. CASE SettleRaises(k)
  <2>1. PICK hs \in SUBSET {h \in Mine(k) : store.log[h] = "added"} :
            store' = SetLog(Settling(k), hs, "fulfilled")
    BY <1>8 DEF SettleRaises
  <2>2. store'.active = Settling(k).active
    BY <2>1, SettlingTyped DEF SetLog, Store
  <2>3. ~ SetWaits(k) /\ ~ SetCalls(k)
    BY <1>8 DEF SettleRaises, SetWaits, SetCalls
  <2> QED
    BY <1>6, <2>2, <2>3
<1> QED
  BY <1>2, <1>3, <1>4, <1>5, <1>7, <1>8 DEF SetNext

LEMMA FirstLoopActive ==
    ASSUME TypeOK, NEW h \in Htlc, Collect(h) \/ Refuse(h) \/ RefuseRaises(h)
    PROVE  store'.active = store.active
<1>1. store \in Store
  BY DEF TypeOK
<1>2. CASE Collect(h)
  <2>1. PICK r, u : store' = [store EXCEPT !.sets[sc.key[h]] = r, !.unf = u]
    BY <1>2 DEF Collect
  <2> QED
    BY <1>1, <2>1 DEF Store
<1>3. CASE Refuse(h)
  BY <1>1, <1>3 DEF Refuse, SetLog, Store
<1>4. CASE RefuseRaises(h)
  BY <1>1, <1>4 DEF RefuseRaises, Store
<1> QED
  BY <1>2, <1>3, <1>4

LEMMA ForwardActive ==
    ASSUME TypeOK, NEW k \in Key, ForwardNext(k)
    PROVE  \A j \in Key \ {k} : store'.active[j] = store.active[j]
<1>1. store \in Store /\ [store EXCEPT !.active[k] = {}] \in Store
  BY DEF TypeOK, Store
<1>2. ASSUME NEW s \in Store, \A j \in Key \ {k} : s.active[j] = store.active[j], Offer(k, s)
      PROVE  \A j \in Key \ {k} : store'.active[j] = store.active[j]
  <2>1. PICK d : store' = [[s EXCEPT !.down[k][d] = "offered"] EXCEPT !.active[k] = @ \cup {d}]
    BY <1>2 DEF Offer
  <2> QED
    BY <1>2, <2>1 DEF Store
<1>3. CASE RunForward(k)
  <2> DEFINE s == [store EXCEPT !.active[k] = {}]
  <2>1. \A j \in Key \ {k} : s.active[j] = store.active[j]
    BY <1>1 DEF Store
  <2>2. \/ Offer(k, s)
        \/ store' = s
        \/ store' = [s EXCEPT !.failure[k] = "reason"]
    BY <1>3 DEF RunForward
  <2> HIDE DEF s
  <2>3. s \in Store
    BY <1>1 DEF s
  <2> QED
    BY <1>2, <2>1, <2>2, <2>3 DEF Store
<1>4. CASE SessionSends(k)
  BY <1>1, <1>2, <1>4 DEF SessionSends
<1>5. CASE SessionFails(k)
  BY <1>1, <1>5 DEF SessionFails, Store
<1>6. ASSUME NEW d \in Attempt,
             \/ DownstreamFulfills(k, d) \/ DownstreamFulfilled(k, d)
             \/ DownstreamFails(k, d) \/ DownstreamFailed(k, d)
      PROVE  \A j \in Key \ {k} : store'.active[j] = store.active[j]
  <2>1. CASE DownstreamFulfills(k, d)
    BY <1>1, <2>1 DEF DownstreamFulfills, Store
  <2>2. CASE DownstreamFulfilled(k, d)
    BY <1>1, <2>2 DEF DownstreamFulfilled, Store
  <2>3. CASE DownstreamFails(k, d)
    BY <1>1, <2>3 DEF DownstreamFails, Store
  <2>4. CASE DownstreamFailed(k, d)
    <3>1. PICK z : store' = [store EXCEPT !.down[k][d] = "failed", !.active[k] = @ \ {d}, !.failure[k] = z]
      BY <2>4 DEF DownstreamFailed
    <3> QED
      BY <1>1, <3>1 DEF Store
  <2> QED
    BY <1>6, <2>1, <2>2, <2>3, <2>4
<1>7. CASE ForwardRaises(k)
  BY <1>1, <1>7 DEF ForwardRaises, Store
<1> QED
  BY <1>3, <1>4, <1>5, <1>6, <1>7 DEF ForwardNext

LEMMA HoldActive ==
    ASSUME TypeOK, NEW k \in Key, HoldNext(k)
    PROVE  store'.active = store.active
<1>1. store \in Store
  BY DEF TypeOK
<1>2. CASE FailSwap(k)
  <2> DEFINE base == IF store.sets[k] # NoSet THEN [store EXCEPT !.sets[k].res = "failed"] ELSE store
  <2>1. \E i, w : store' = [base EXCEPT !.info = i, !.swaps = w]
    BY <1>2 DEF FailSwap
  <2>2. store'.active = base.active
    <3> HIDE DEF base
    <3> QED
      BY <2>1
  <2> QED
    BY <1>1, <2>2 DEF Store
<1>3. CASE ~ FailSwap(k)
  BY <1>1, <1>3 DEF HoldNext, RunHold, Fund, Spend, Reveal, CancelHold, Store
<1> QED
  BY <1>2, <1>3

-----------------------------------------------------------------------------
(*             What is revealed, funded or forwarded stays covered          *)

LEMMA HoldsKept ==
    ASSUME NEW c, IsScenario(c), NEW s, NEW t, NEW e, NEW r \in SUBSET Htlc, Holds(c, s, e, r),
           AllSound(c, t), SwapFields(c, t), s.pre \subseteq t.pre,
           \A k \in Key : \/ CoverKept(c, s, t, k)
                          \/ k \notin s.pre /\ e.funding[k] \notin {"unspent", "claimed"}
    PROVE  Holds(c, t, e, r)
<1>1. \A k \in Key : Sound(c, t, k)
  BY DEF AllSound
<1>2. \A k \in Key : FundedCovers(c, t, e, k)
  BY DEF Holds, FundedCovers, CoverKept
<1>3. RevealedCovers(c, t, r)
  <2> SUFFICES ASSUME NEW h \in r
               PROVE  Hash(c, c.key[h]) \in t.pre /\ Covers(c, t, Hash(c, c.key[h]))
    BY DEF RevealedCovers
  <2>1. Hash(c, c.key[h]) \in Key
    BY ScenarioFacts
  <2>2. Hash(c, c.key[h]) \in s.pre /\ Covers(c, s, Hash(c, c.key[h]))
    BY DEF Holds, RevealedCovers
  <2> QED
    BY <2>1, <2>2 DEF CoverKept
<1> QED
  BY <1>1, <1>2, <1>3 DEF Holds

LEMMA AgreeKept ==
    ASSUME NEW s, NEW d, NEW t, Agree(s, d), t.pre = s.pre,
           \A k \in Key : t.sets[k].res = "settling" => s.sets[k].res = "settling"
    PROVE  Agree(t, d)
BY DEF Agree

LEMMA RunsKept ==
    ASSUME NEW c, NEW s, NEW t, NEW m, NEW n, NEW k, SameOf(s, t, k),
           k \in n.session => t.active[k] = s.active[k],
           k \in n.tasks => k \in m.tasks, k \in n.session => k \in m.session, Runs(c, s, m, k)
    PROVE  Runs(c, t, n, k)
<1>1. Out(t, k) = Out(s, k)
  BY DEF Out, SameOf
<1> QED
  BY <1>1 DEF Runs, SameOf

LEMMA SwapRunsKept ==
    ASSUME NEW c, NEW s, NEW t, NEW m, NEW n, NEW e, NEW k, SwapRuns(c, s, m, e, k),
           k \in Swaps(c) /\ s.sets[k].res = "settling" => t.sets[k].res = "settling",
           k \in Swaps(c) /\ k \in t.pre => k \in s.pre,
           k \in n.callback => k \in m.callback, k \in n.tasks => k \in m.tasks,
           k \in n.batch => k \in m.batch
    PROVE  SwapRuns(c, t, n, e, k)
BY DEF SwapRuns

(* A swap is an invoice. *)
LEMMA SwapFacts ==
    ASSUME NEW c, IsScenario(c), NEW k \in Swaps(c)
    PROVE  c.kind[k] = "invoice" /\ ~ Forwards(c, k) /\ Hash(c, k) = k
BY ScenarioFacts DEF Swaps, IsScenario, Forwards, Hash

LEMMA SafeFacts ==
    ASSUME TypeOK, PlacedInv, Safe
    PROVE  /\ IsScenario(sc) /\ store \in Store /\ disk \in Store /\ revealed \in SUBSET Htlc
           /\ Legal(sc, store) /\ Legal(sc, disk) /\ AllSound(sc, store) /\ AllSound(sc, disk)
           /\ Holds(sc, store, env, revealed) /\ Holds(sc, disk, env, revealed)
           /\ Agree(store, disk) /\ store.pre \subseteq Key
           /\ SwapFields(sc, store) /\ SwapFields(sc, disk)
           /\ \A k \in Key : Runs(sc, store, mem, k) /\ SwapRuns(sc, store, mem, env, k)
<1>1. store \in Store
  BY DEF TypeOK
<1>2. store.pre \subseteq Key
  BY <1>1, StoreFacts
<1> QED
  BY <1>1, <1>2 DEF TypeOK, PlacedInv, Safe, Holds, AllSound

(* A store in which nothing is different but a log, or who is downstream. *)
LEMMA SameHolds ==
    ASSUME TypeOK, PlacedInv, Safe, NEW t \in Store, SwapFields(sc, t), AllSound(sc, t),
           \A k \in Key : SameOf(store, t, k) /\ CoverKept(sc, store, t, k)
    PROVE  Holds(sc, t, env, revealed) /\ Agree(store, t) /\ Agree(t, disk) /\ t.pre = store.pre
<1>1. /\ IsScenario(sc) /\ store \in Store /\ revealed \in SUBSET Htlc
      /\ Holds(sc, store, env, revealed) /\ Agree(store, disk)
  BY SafeFacts
<1>2. t.pre = store.pre
  <2>1. t.pre \subseteq Key /\ store.pre \subseteq Key
    BY <1>1, StoreFacts
  <2> QED
    BY <2>1 DEF SameOf
<1>3. Holds(sc, t, env, revealed)
  BY <1>1, <1>2, HoldsKept
<1>4. Agree(store, t) /\ Agree(t, disk)
  BY <1>1, <1>2 DEF Agree, SameOf
<1> QED
  BY <1>2, <1>3, <1>4

(* A step after which both stores are so is safe, if the tasks are. *)
LEMMA SameSafe ==
    ASSUME TypeOK, TypeOK', PlacedInv, Safe, sc' = sc, env' = env, revealed' = revealed,
           SwapFields(sc, store'), SwapFields(sc, disk'),
           AllSound(sc, store'), \A k \in Key : SameOf(store, store', k) /\ CoverKept(sc, store, store', k),
           \/ disk' \in {disk, store'}
           \/ AllSound(sc, disk') /\ \A k \in Key : SameOf(store, disk', k) /\ CoverKept(sc, store, disk', k),
           mem'.callback \subseteq mem.callback, mem'.batch \subseteq mem.batch,
           mem'.tasks \subseteq mem.tasks,
           \A k \in Key : Runs(sc, store', mem', k)
    PROVE  Safe'
<1>1. /\ store' \in Store /\ disk' \in Store
  BY DEF TypeOK
<1>2. /\ Holds(sc, disk, env, revealed) /\ Agree(store, disk)
      /\ \A k \in Key : SwapRuns(sc, store, mem, env, k)
  BY SafeFacts
<1>3. Holds(sc, store', env, revealed) /\ Agree(store', disk) /\ store'.pre = store.pre
  BY <1>1, SameHolds
<1>4. ASSUME disk' \in {disk, store'}
      PROVE  Holds(sc, disk', env, revealed) /\ Agree(store', disk')
  <2>1. Holds(sc, disk', env, revealed)
    BY <1>2, <1>3, <1>4
  <2>2. Agree(store', disk')
    BY <1>3, <1>4 DEF Agree
  <2> QED
    BY <2>1, <2>2
<1>5. ASSUME AllSound(sc, disk'), \A k \in Key : SameOf(store, disk', k) /\ CoverKept(sc, store, disk', k)
      PROVE  Holds(sc, disk', env, revealed) /\ Agree(store', disk')
  <2>1. Holds(sc, disk', env, revealed) /\ Agree(store, disk')
    BY <1>1, <1>5, SameHolds
  <2>2. Agree(store', disk')
    BY <1>3, <2>1 DEF Agree, SameOf
  <2> QED
    BY <2>1, <2>2
<1>6. \A k \in Key : SwapRuns(sc, store', mem', env, k)
  BY <1>2, <1>3, SwapRunsKept DEF SameOf
<1> QED
  BY <1>3, <1>4, <1>5, <1>6 DEF Safe

LEMMA FirstLoopSafe ==
    ASSUME TypeOK, TypeOK', PlacedInv, Safe, sc' = sc, again' = {},
           SwapFields(sc, store'), SwapFields(sc, disk'),
           NEW h \in Htlc, Collect(h) \/ Refuse(h) \/ RefuseRaises(h)
    PROVE  Safe'
<1>1. /\ store' \in Store /\ disk' \in Store /\ sc.key[h] \in Key /\ job.unf \subseteq store.unf
      /\ mem' = mem /\ env' = env /\ revealed' = revealed
  BY ScenarioTyped DEF TypeOK, PlacedInv, Collect, Refuse, RefuseRaises
<1>2. /\ IsScenario(sc) /\ store \in Store /\ revealed \in SUBSET Htlc
      /\ Legal(sc, store) /\ AllSound(sc, store)
      /\ Holds(sc, store, env, revealed) /\ Holds(sc, disk, env, revealed)
      /\ Agree(store, disk)
      /\ \A k \in Key : Runs(sc, store, mem, k) /\ SwapRuns(sc, store, mem, env, k)
  BY SafeFacts
<1>3. store'.active = store.active
  BY FirstLoopActive
<1>4. CASE Collect(h)
  <2> DEFINE i == sc.key[h]
  <2>1. Collects(store, store', h, i) /\ disk' \in {disk, store'} /\ store.log[h] = "added"
    BY <1>1, <1>4, CollectChanges
  <2>2. AllSound(sc, store') /\ \A k \in Key : CoverKept(sc, store, store', k)
    BY <1>1, <1>2, <2>1, CollectsSound
  <2>3. /\ \A k \in Key \ {i} : SameOf(store, store', k)
        /\ store.sets[i].res # "settling" /\ store'.sets[i].res # "settling"
        /\ \A k \in Key : k \in store'.pre <=> k \in store.pre
    BY <1>1, <2>1 DEF Collects, OnlySet, OnlyOf, SameOf
  <2>4. store'.pre = store.pre
    BY <1>1, <1>2, <2>3, StoreFacts
  <2>5. Holds(sc, store', env, revealed)
    BY <1>2, <2>2, <2>4, HoldsKept
  <2>6. Agree(store', disk) /\ Agree(store', store')
    <3>1. \A k \in Key : store'.sets[k].res = "settling" => store.sets[k].res = "settling"
      BY <2>3 DEF SameOf
    <3> QED
      BY <1>2, <2>4, <3>1, AgreeKept DEF Agree
  <2>7. \A k \in Key : Runs(sc, store', mem, k)
    <3>1. Runs(sc, store', mem, i)
      <4>1. ~ (Forwards(sc, i) /\ i \in mem.tasks \cup mem.session /\ i \notin store'.pre)
        BY <1>1, <1>2, <2>3, <2>4 DEF Runs
      <4> QED
        BY <4>1 DEF Runs
    <3>2. \A k \in Key \ {i} : Runs(sc, store', mem, k)
      BY <1>2, <1>3, <2>3, RunsKept
    <3> QED
      BY <3>1, <3>2
  <2>8. \A k \in Key : SwapRuns(sc, store', mem, env, k)
    <3>1. \A k \in Key : store.sets[k].res = "settling" => store'.sets[k].res = "settling"
      BY <2>3 DEF SameOf
    <3> QED
      BY <1>2, <2>4, <3>1, SwapRunsKept
  <2> QED
    BY <1>1, <1>2, <2>1, <2>5, <2>6, <2>7, <2>8 DEF Safe
<1>5. CASE Refuse(h) \/ RefuseRaises(h)
  <2>1. Refuses(store, store', h) \/ Rests(store, store')
    BY <1>1, <1>5, RefuseChanges, RaiseChanges
  <2>2. disk' \in {disk, store'} \/ Refuses(store, disk', h)
    BY <1>1, <1>5, RefuseChanges, RaiseChanges
  <2>3. /\ AllSound(sc, store')
        /\ \A k \in Key : SameOf(store, store', k) /\ CoverKept(sc, store, store', k)
    BY <1>1, <1>2, <2>1, RefusesSound, RestsSound DEF Refuses, Rests
  <2>4. \/ disk' \in {disk, store'}
        \/ /\ AllSound(sc, disk')
           /\ \A k \in Key : SameOf(store, disk', k) /\ CoverKept(sc, store, disk', k)
    BY <1>1, <1>2, <2>2, RefusesSound DEF Refuses
  <2>5. \A k \in Key : Runs(sc, store', mem, k)
    BY <1>2, <1>3, <2>3, RunsKept
  <2> QED
    BY <1>1, <2>3, <2>4, <2>5, SameSafe
<1> QED
  BY <1>4, <1>5

-----------------------------------------------------------------------------
(*                   The second loop keeps what is covered                  *)

(* What runs for another forwarding or swap than k is not touched. *)
LEMMA OthersRun ==
    ASSUME TypeOK, PlacedInv, Safe, NEW k \in Key, OnlyOf(store, store', k),
           \A j \in Key \ {k} : store'.active[j] = store.active[j],
           mem'.callback \subseteq mem.callback, mem'.tasks \subseteq mem.tasks \cup {k},
           mem'.session \subseteq mem.session \cup {k}, mem'.batch \subseteq mem.batch \cup {k}
    PROVE  \A j \in Key \ {k} : Runs(sc, store', mem', j) /\ SwapRuns(sc, store', mem', env, j)
<1> TAKE j \in Key \ {k}
<1>1. Runs(sc, store, mem, j) /\ SwapRuns(sc, store, mem, env, j)
  BY SafeFacts
<1>2. SameOf(store, store', j) /\ store'.active[j] = store.active[j]
  BY DEF OnlyOf
<1>3. Runs(sc, store', mem', j)
  BY <1>1, <1>2, RunsKept
<1>4. SwapRuns(sc, store', mem', env, j)
  BY <1>1, <1>2, SwapRunsKept DEF SameOf
<1> QED
  BY <1>3, <1>4

(* No set starts to settle, and those of forwardings that run stay as they are. *)
LEMMA SetsSafe ==
    ASSUME TypeOK, TypeOK', PlacedInv, Safe, sc' = sc, env' = env, revealed' = revealed, mem' = mem,
           SwapFields(sc, store'), SwapFields(sc, disk'), store'.pre = store.pre,
           AllSound(sc, store'), \A j \in Key : CoverKept(sc, store, store', j),
           disk' \in {disk, store'},
           \A j \in Key : store'.sets[j].res = "settling" <=> store.sets[j].res = "settling",
           \A j \in Key : \/ ~ Forwards(sc, j) \/ store.sets[j].res # "settling"
                          \/ SameOf(store, store', j) /\ store'.active[j] = store.active[j]
    PROVE  Safe'
<1>1. /\ IsScenario(sc) /\ store \in Store /\ store' \in Store /\ revealed \in SUBSET Htlc
      /\ Holds(sc, store, env, revealed) /\ Holds(sc, disk, env, revealed) /\ Agree(store, disk)
      /\ \A j \in Key : Runs(sc, store, mem, j) /\ SwapRuns(sc, store, mem, env, j)
  BY SafeFacts DEF TypeOK
<1>2. Holds(sc, store', env, revealed)
  BY <1>1, HoldsKept
<1>3. Agree(store', disk) /\ Agree(store', store')
  BY <1>1, AgreeKept DEF Agree
<1>4. \A j \in Key : Runs(sc, store', mem, j)
  <2> TAKE j \in Key
  <2>1. CASE SameOf(store, store', j) /\ store'.active[j] = store.active[j]
    BY <1>1, <2>1, RunsKept
  <2>2. CASE ~ Forwards(sc, j) \/ store.sets[j].res # "settling"
    BY <1>1, <2>2 DEF Runs
  <2> QED
    BY <2>1, <2>2
<1>5. \A j \in Key : SwapRuns(sc, store', mem, env, j)
  BY <1>1, SwapRunsKept
<1> QED
  BY <1>1, <1>2, <1>3, <1>4, <1>5 DEF Safe

LEMMA WaitsSafe ==
    ASSUME TypeOK, TypeOK', CopiesAreCurrent, PlacedInv, Safe, sc' = sc,
           SwapFields(sc, store'), SwapFields(sc, disk'), NEW k \in Key, SetWaits(k)
    PROVE  Safe'
<1>1. /\ store' \in Store /\ disk' \in Store /\ mem' = mem /\ env' = env /\ revealed' = revealed
  BY DEF TypeOK, SetWaits
<1>2. /\ IsScenario(sc) /\ store \in Store /\ Legal(sc, store) /\ AllSound(sc, store)
      /\ Holds(sc, store, env, revealed) /\ Holds(sc, disk, env, revealed) /\ Agree(store, disk)
      /\ \A j \in Key : Runs(sc, store, mem, j) /\ SwapRuns(sc, store, mem, env, j)
  BY SafeFacts
<1>3. disk' \in {disk, store'}
  BY <1>2, WaitsChanges
<1>4. CASE store' = store
  <2>1. Agree(store, store)
    BY DEF Agree
  <2> QED
    BY <1>1, <1>2, <1>3, <1>4, <2>1 DEF Safe
<1>5. CASE Marks(sc, store, store', k) /\ (sc.kind[k] # "part" => Reaches(store, k))
  <2>1. AllSound(sc, store') /\ \A j \in Key : CoverKept(sc, store, store', j)
    BY <1>1, <1>2, <1>5, MarksSound DEF Reaches
  <2>2. /\ \A j \in Key \ {k} : SameOf(store, store', j) /\ store'.active[j] = store.active[j]
        /\ \A j \in Key : j \in store'.pre <=> j \in store.pre
    BY <1>2, <1>5, SetActive DEF SetNext, Marks, OnlySet, OnlyOf, SameOf
  <2>3. store'.pre = store.pre
    BY <1>1, <1>2, <2>2, StoreFacts
  <2>4. /\ store'.sets[k].res = "settling" <=> store.sets[k].res = "settling"
        /\ sc.kind[k] = "part" \/ store.sets[k].res # "settling"
    BY <1>5 DEF Marks
  <2>5. \A j \in Key : store'.sets[j].res = "settling" <=> store.sets[j].res = "settling"
    BY <2>2, <2>4 DEF SameOf
  <2>6. \A j \in Key : \/ ~ Forwards(sc, j) \/ store.sets[j].res # "settling"
                       \/ SameOf(store, store', j) /\ store'.active[j] = store.active[j]
    BY <2>2, <2>4 DEF Forwards
  <2> QED
    BY <1>1, <1>3, <2>1, <2>3, <2>5, <2>6, SetsSafe
<1> QED
  BY <1>2, <1>4, <1>5, WaitsChanges

LEMMA MovesSafe ==
    ASSUME TypeOK, TypeOK', CopiesAreCurrent, PlacedInv, Safe, sc' = sc,
           SwapFields(sc, store'), SwapFields(sc, disk'), NEW k \in Key, SetMoves(k)
    PROVE  Safe'
<1> DEFINE up == sc.parent[k]
<1>1. /\ store' \in Store /\ disk' \in Store /\ mem' = mem /\ env' = env /\ revealed' = revealed
  BY DEF TypeOK, SetMoves
<1>2. /\ IsScenario(sc) /\ store \in Store /\ Legal(sc, store) /\ AllSound(sc, store)
  BY SafeFacts
<1>3. Moves(sc, store, store', k) /\ disk' \in {disk, store'}
  BY <1>2, MovesChanges
<1>4. /\ sc.kind[k] = "part" /\ up \in Key /\ sc.kind[up] = "invoice"
      /\ \A j \in Key \ {k, up} : SameOf(store, store', j)
      /\ store'.pre = store.pre /\ store.sets[k].res = "waiting" /\ store'.sets[k].res = "none"
      /\ store'.sets[up].res = IF store.sets[up] = NoSet THEN "waiting" ELSE store.sets[up].res
  BY <1>2, <1>3, ScenarioFacts DEF Moves, NoSet
<1>5. AllSound(sc, store') /\ \A j \in Key : CoverKept(sc, store, store', j)
  BY <1>1, <1>2, <1>3, MovesSound
<1>6. \A j \in Key \ {k} : store'.active[j] = store.active[j]
  BY <1>2, SetActive DEF SetNext
<1>7. \A j \in Key : store'.sets[j].res = "settling" <=> store.sets[j].res = "settling"
  BY <1>4 DEF SameOf, NoSet
<1>8. \A j \in Key : \/ ~ Forwards(sc, j) \/ store.sets[j].res # "settling"
                     \/ SameOf(store, store', j) /\ store'.active[j] = store.active[j]
  BY <1>4, <1>6 DEF Forwards
<1> QED
  BY <1>1, <1>3, <1>4, <1>5, <1>7, <1>8, SetsSafe

(* What is left of the set k, in memory or in the file, when it has failed *)
FailedSet(t, k) ==
    /\ Holds(sc, t, env, revealed) /\ t.pre = store.pre /\ OnlyOf(store, t, k)
    /\ t.sets[k].res # "settling"

LEMMA FailsHolds ==
    ASSUME TypeOK, PlacedInv, Safe, NEW t \in Store, SwapFields(sc, t), NEW k \in Key, FailsTo(t, k),
           store.sets[k].res = "settling" => store.failure[k] = "reason"
    PROVE  FailedSet(t, k)
<1>1. /\ IsScenario(sc) /\ store \in Store /\ Legal(sc, store) /\ AllSound(sc, store)
      /\ Holds(sc, store, env, revealed) /\ revealed \in SUBSET Htlc
      /\ SwapRuns(sc, store, mem, env, k) /\ Sound(sc, store, k)
  BY SafeFacts DEF AllSound
<1>2. PICK hs \in SUBSET Htlc :
         /\ Failing(store, t, k, hs)
         /\ store.failure[k] = "reason" /\ store.sets[k].res \in {"settling", "failed"}
               => t.sets[k] = NoSet \/ t.sets[k].res = "failed"
  BY DEF FailsTo
<1>3. /\ OnlyOf(store, t, k) /\ (k \in t.pre <=> k \in store.pre)
      /\ \/ t.sets[k].res = "none" /\ t.failure[k] = "none"
         \/ t.sets[k].res \in {"failed", "expired"} /\ t.failure[k] = store.failure[k]
  BY <1>2 DEF Failing, OnlySet, NoSet
<1>4. t.failure[k] = "reason" => t.sets[k].res = "failed"
  <2>1. store.failure[k] = "reason" => store.sets[k].res \in {"settling", "failed"}
    BY <1>1 DEF Sound, Downstream
  <2> QED
    BY <1>2, <1>3, <2>1 DEF NoSet
<1>5. store.sets[k].res = "settling" =>
         k \notin store.pre /\ Out(store, k) = {} /\ Forwards(sc, k)
  BY <1>1 DEF Sound, Downstream
<1>6. /\ AllSound(sc, t) /\ \A j \in Key \ {k} : CoverKept(sc, store, t, j)
      /\ store.sets[k].res # "settling" => CoverKept(sc, store, t, k)
  BY <1>1, <1>2, <1>4, <1>5, FailingSound
<1>7. t.pre = store.pre
  <2>1. \A j \in Key : j \in t.pre <=> j \in store.pre
    BY <1>3 DEF OnlyOf, SameOf
  <2> QED
    BY <1>1, <2>1, StoreFacts
<1>8. store.sets[k].res = "settling" => k \notin store.pre /\ env.funding[k] = "none"
  BY <1>1, <1>5, SwapFacts DEF SwapRuns
<1>9. Holds(sc, t, env, revealed)
  <2>1. \A j \in Key : \/ CoverKept(sc, store, t, j)
                       \/ j \notin store.pre /\ env.funding[j] \notin {"unspent", "claimed"}
    BY <1>6, <1>8
  <2> QED
    BY <1>1, <1>6, <1>7, <2>1, HoldsKept
<1> QED
  BY <1>3, <1>7, <1>9 DEF FailedSet

(* ... and both agree. *)
LEMMA FailedSafe ==
    ASSUME TypeOK, TypeOK', PlacedInv, Safe, sc' = sc, env' = env, revealed' = revealed,
           NEW k \in Key, FailedSet(store', k), disk' \in {disk, store'} \/ FailedSet(disk', k),
           \A j \in Key \ {k} : store'.active[j] = store.active[j],
           mem'.callback \subseteq mem.callback, mem'.tasks = mem.tasks,
           mem'.session = mem.session, mem'.batch = mem.batch,
           Runs(sc, store', mem', k), SwapRuns(sc, store', mem', env, k)
    PROVE  Safe'
<1>1. Holds(sc, disk, env, revealed) /\ Agree(store, disk)
  BY SafeFacts
<1>2. /\ Holds(sc, store', env, revealed) /\ store'.pre = store.pre
      /\ OnlyOf(store, store', k) /\ store'.sets[k].res # "settling"
  BY DEF FailedSet
<1>3. \A j \in Key : store'.sets[j].res = "settling" => j # k /\ store.sets[j].res = "settling"
  BY <1>2 DEF OnlyOf, SameOf
<1>4. Holds(sc, disk', env, revealed)
  BY <1>1, <1>2 DEF FailedSet
<1>5. Agree(store', disk')
  BY <1>1, <1>2, <1>3 DEF Agree, FailedSet, OnlyOf, SameOf
<1>6. \A j \in Key \ {k} : Runs(sc, store', mem', j) /\ SwapRuns(sc, store', mem', env, j)
  BY <1>2, OthersRun
<1> QED
  BY <1>2, <1>4, <1>5, <1>6 DEF Safe

LEMMA FailsSafe ==
    ASSUME TypeOK, TypeOK', CopiesAreCurrent, PlacedInv, Safe, sc' = sc,
           SwapFields(sc, store'), SwapFields(sc, disk'), NEW k \in Key, SetFails(k)
    PROVE  Safe'
<1>1. /\ store' \in Store /\ disk' \in Store /\ mem' = mem /\ env' = env /\ revealed' = revealed
  BY DEF TypeOK, SetFails
<1>2. /\ Legal(sc, store) /\ Runs(sc, store, mem, k) /\ SwapRuns(sc, store, mem, env, k)
      /\ Sound(sc, store, k) /\ IsScenario(sc)
  BY SafeFacts DEF AllSound
<1>3. /\ store.sets[k].res = "settling" => store.failure[k] = "reason"
      /\ FailsTo(store', k) /\ (disk' \in {disk, store'} \/ FailsTo(disk', k))
  BY <1>2, FailsChanges
<1>4. FailedSet(store', k) /\ (disk' \in {disk, store'} \/ FailedSet(disk', k))
  BY <1>1, <1>3, FailsHolds
<1>5. \A j \in Key \ {k} : store'.active[j] = store.active[j]
  BY <1>2, SetActive DEF SetNext
<1>6. Runs(sc, store', mem, k)
  BY <1>2, <1>3, <1>4 DEF Runs, FailedSet
<1>7. SwapRuns(sc, store', mem, env, k)
  <2>1. k \in Swaps(sc) => store.sets[k].res # "settling"
    BY <1>2, <1>3, SwapFacts DEF Sound
  <2> QED
    BY <1>2, <1>4, <2>1, SwapRunsKept DEF FailedSet
<1> QED
  BY <1>1, <1>4, <1>5, <1>6, <1>7, FailedSafe

LEMMA CallsSafe ==
    ASSUME TypeOK, TypeOK', CopiesAreCurrent, PlacedInv, Safe, sc' = sc,
           SwapFields(sc, store'), SwapFields(sc, disk'), NEW k \in Key, SetCalls(k)
    PROVE  Safe'
<1>1. /\ store' \in Store /\ env' = env /\ revealed' = revealed
      /\ mem'.callback = mem.callback /\ mem'.tasks = mem.tasks \cup {k}
      /\ mem'.session = mem.session /\ mem'.batch = mem.batch
  BY DEF TypeOK, SetCalls
<1>2. /\ IsScenario(sc) /\ store \in Store /\ Legal(sc, store) /\ AllSound(sc, store)
      /\ Holds(sc, store, env, revealed) /\ revealed \in SUBSET Htlc
      /\ Runs(sc, store, mem, k) /\ SwapRuns(sc, store, mem, env, k) /\ Sound(sc, store, k)
  BY SafeFacts DEF AllSound
<1>3. /\ Calls(sc, store, store', k) /\ disk' = store'
      /\ Forwards(sc, k) \/ k \in mem.callback \ store.pre
      /\ store.sets[k].res = "complete" \/ Reaches(store, k)
  BY <1>2, CallsChanges
<1>4. /\ OnlySet(store, store', k) /\ OnlyOf(store, store', k)
      /\ store.sets[k].res \in {"waiting", "complete"} /\ store'.sets[k].res = "settling"
      /\ store'.failure[k] = store.failure[k] /\ Out(store', k) = Out(store, k)
      /\ \A j \in Key : j \in store'.pre <=> j \in store.pre
  BY <1>3 DEF Calls, OnlySet, OnlyOf, SameOf, Out
<1>5. store'.pre = store.pre
  BY <1>1, <1>2, <1>4, StoreFacts
<1>6. SumOf(sc.amount, store.sets[k].htlcs) >= sc.total[k]
  BY <1>2, <1>3 DEF Sound, Collected, Reaches
<1>7. AllSound(sc, store') /\ \A j \in Key : CoverKept(sc, store, store', j)
  BY <1>1, <1>2, <1>3, <1>6, CallsSound
<1>8. Holds(sc, store', env, revealed)
  BY <1>2, <1>5, <1>7, HoldsKept
<1>9. Agree(store', store')
  BY DEF Agree
<1>10. \A j \in Key \ {k} : store'.active[j] = store.active[j]
  BY <1>2, SetActive DEF SetNext
<1>11. \A j \in Key \ {k} : Runs(sc, store', mem', j) /\ SwapRuns(sc, store', mem', env, j)
  BY <1>1, <1>4, <1>10, OthersRun
<1>12. Runs(sc, store', mem', k)
  <2> SUFFICES ASSUME Forwards(sc, k), k \notin store.pre PROVE Runs(sc, store', mem', k)
    BY <1>5 DEF Runs
  <2>1. Out(store, k) = {} /\ store.failure[k] # "reason"
    BY <1>2, <1>4 DEF Sound, Downstream
  <2>2. k \notin mem.session
    BY <1>2, <1>4 DEF Runs
  <2> QED
    BY <1>1, <1>4, <2>1, <2>2 DEF Runs
<1>13. SwapRuns(sc, store', mem', env, k)
  BY <1>1, <1>2, <1>3, <1>4, <1>5 DEF SwapRuns
<1> QED
  BY <1>1, <1>3, <1>8, <1>9, <1>11, <1>12, <1>13 DEF Safe

(* What is left of the set k, in memory or in the file, when it settles *)
SettledSet(t, k) ==
    /\ Holds(sc, t, env, revealed') /\ t.pre = store.pre /\ OnlyOf(store, t, k)
    /\ k \in store.pre

LEMMA RevealsMore ==
    ASSUME NEW c, NEW s, NEW e, NEW r, NEW q, Holds(c, s, e, r),
           NEW k, k \in s.pre, Covers(c, s, k), \A h \in q : h \in r \/ Hash(c, c.key[h]) = k
    PROVE  Holds(c, s, e, q)
<1>1. RevealedCovers(c, s, q)
  BY DEF Holds, RevealedCovers
<1> QED
  BY <1>1 DEF Holds

LEMMA SettlesHolds ==
    ASSUME TypeOK, PlacedInv, Safe, NEW t \in Store, SwapFields(sc, t), NEW k \in Key, SettlesTo(t, k),
           EnoughToSettle(k), \A h \in revealed' : h \in revealed \/ h \in store.sets[k].htlcs
    PROVE  SettledSet(t, k)
<1>1. /\ IsScenario(sc) /\ store \in Store /\ Legal(sc, store) /\ AllSound(sc, store)
      /\ Holds(sc, store, env, revealed) /\ revealed \in SUBSET Htlc /\ Sound(sc, store, k)
  BY SafeFacts DEF AllSound
<1>2. PICK hs \in SUBSET Htlc : Settles(sc, store, t, k, hs)
  BY DEF SettlesTo
<1>3. /\ OnlyOf(store, t, k) /\ (k \in t.pre <=> k \in store.pre)
      /\ k \in store.pre /\ sc.kind[k] # "part"
  BY <1>2 DEF Settles, OnlySet
<1>4. store.sets[k].res # "settling" => SumOf(sc.amount, store.sets[k].htlcs) >= sc.total[k]
  BY <1>1 DEF EnoughToSettle, Reaches, Sound, Collected
<1>5. AllSound(sc, t) /\ Covers(sc, t, k) /\ \A j \in Key : CoverKept(sc, store, t, j)
  BY <1>1, <1>2, <1>4, SettlesSound
<1>6. t.pre = store.pre
  <2>1. \A j \in Key : j \in t.pre <=> j \in store.pre
    BY <1>3 DEF OnlyOf, SameOf
  <2> QED
    BY <1>1, <2>1, StoreFacts
<1>7. Holds(sc, t, env, revealed)
  BY <1>1, <1>5, <1>6, HoldsKept
<1>8. \A h \in revealed' : h \in revealed \/ Hash(sc, sc.key[h]) = k
  BY <1>1, <1>3, MembersPay DEF Legal
<1>9. Holds(sc, t, env, revealed')
  BY <1>3, <1>5, <1>6, <1>7, <1>8, RevealsMore
<1> QED
  BY <1>3, <1>6, <1>9 DEF SettledSet

LEMMA SettlesSafe ==
    ASSUME TypeOK, TypeOK', CopiesAreCurrent, PlacedInv, Safe, sc' = sc,
           SwapFields(sc, store'), SwapFields(sc, disk'), NEW k \in Key, SetSettles(k)
    PROVE  Safe'
<1>1. /\ store' \in Store /\ disk' \in Store /\ env' = env
      /\ mem'.callback = mem.callback /\ mem'.tasks = mem.tasks
      /\ mem'.session = mem.session /\ mem'.batch = mem.batch
  BY DEF TypeOK, SetSettles
<1>2. \A h \in revealed' : h \in revealed \/ h \in store.sets[k].htlcs
  BY DEF SetSettles, Mine
<1>3. /\ IsScenario(sc) /\ Legal(sc, store) /\ Legal(sc, disk) /\ Holds(sc, disk, env, revealed)
      /\ Agree(store, disk) /\ Sound(sc, disk, k) /\ SwapRuns(sc, store, mem, env, k)
      /\ store \in Store
  BY SafeFacts DEF AllSound
<1>4. /\ SettlesTo(store', k) /\ EnoughToSettle(k) /\ HashOf(k) = k
      /\ \/ disk' = disk /\ store.sets[k].res = "settling"
         \/ disk' = store'
         \/ SettlesTo(disk', k) /\ disk'.sets[k].res = "settling"
  BY <1>3, SettlesChanges
<1>5. SettledSet(store', k) /\ (SettlesTo(disk', k) => SettledSet(disk', k))
  BY <1>1, <1>2, <1>4, SettlesHolds
<1>6. ASSUME disk' = disk, store.sets[k].res = "settling"
      PROVE  Holds(sc, disk', env, revealed') /\ Agree(store', disk')
  <2>1. k \in store.pre /\ k \in disk.pre /\ disk.sets[k].res = "settling"
    BY <1>3, <1>5, <1>6 DEF Agree, SettledSet
  <2>2. Covers(sc, disk, k)
    BY <1>3, <2>1 DEF Sound, Collected
  <2>3. sc.kind[k] # "part"
    BY <1>4 DEF SettlesTo, Settles
  <2>4. \A h \in revealed' : h \in revealed \/ Hash(sc, sc.key[h]) = k
    BY <1>2, <1>3, <2>3, MembersPay DEF Legal
  <2>5. Holds(sc, disk', env, revealed')
    BY <1>3, <1>6, <2>1, <2>2, <2>4, RevealsMore
  <2>6. Agree(store', disk')
    BY <1>3, <1>5, <1>6, <2>1 DEF Agree, SettledSet, OnlyOf, SameOf
  <2> QED
    BY <2>5, <2>6
<1>7. ASSUME disk' = store'
      PROVE  Holds(sc, disk', env, revealed') /\ Agree(store', disk')
  BY <1>5, <1>7 DEF SettledSet, Agree
<1>8. ASSUME SettlesTo(disk', k), disk'.sets[k].res = "settling"
      PROVE  Holds(sc, disk', env, revealed') /\ Agree(store', disk')
  BY <1>5, <1>8 DEF SettledSet, Agree, OnlyOf, SameOf
<1>9. \A j \in Key \ {k} : Runs(sc, store', mem', j) /\ SwapRuns(sc, store', mem', env, j)
  <2>1. \A j \in Key \ {k} : store'.active[j] = store.active[j]
    BY <1>3, SetActive DEF SetNext
  <2> QED
    BY <1>1, <1>5, <2>1, OthersRun DEF SettledSet
<1>10. Runs(sc, store', mem', k) /\ SwapRuns(sc, store', mem', env, k)
  BY <1>1, <1>3, <1>5 DEF SettledSet, Runs, SwapRuns
<1>11. Holds(sc, store', env, revealed')
  BY <1>5 DEF SettledSet
<1> QED
  BY <1>1, <1>4, <1>6, <1>7, <1>8, <1>9, <1>10, <1>11 DEF Safe

(* A set with an HTLC that was failed is not settled. *)
LEMMA NeverRaises ==
    ASSUME TypeOK, CopiesAreCurrent, PlacedInv, Safe, NEW k \in Key
    PROVE  ~ SettleRaises(k)
<1> SUFFICES ASSUME SettleRaises(k) PROVE FALSE
  OBVIOUS
<1>1. Legal(sc, store) /\ Sound(sc, store, k)
  BY SafeFacts DEF AllSound
<1>2. /\ store.sets[k].res \in {"waiting", "complete", "settling"}
      /\ \E h \in store.sets[k].htlcs : store.log[h] = "failed"
  BY <1>1, RaisesChanges
<1> QED
  BY <1>1, <1>2 DEF Sound, Collected

LEMMA SecondLoopSafe ==
    ASSUME TypeOK, TypeOK', CopiesAreCurrent, PlacedInv, Safe, sc' = sc,
           SwapFields(sc, store'), SwapFields(sc, disk'), NEW k \in Key, SetNext(k)
    PROVE  Safe'
BY WaitsSafe, MovesSafe, FailsSafe, CallsSafe, SettlesSafe, NeverRaises DEF SetNext

-----------------------------------------------------------------------------
(*                   Forwarding keeps what is covered                       *)

(* What a step downstream of k leaves, in memory or in the file *)
DownHolds(t, k) ==
    /\ Holds(sc, t, env, revealed) /\ t.pre = store.pre /\ OnlyOf(store, t, k)
    /\ \A j \in Key : t.sets[j] = store.sets[j]

LEMMA KeptDownHolds ==
    ASSUME TypeOK, PlacedInv, Safe, NEW t \in Store, SwapFields(sc, t), NEW k \in Key,
           Still(store, t), OnlyOf(store, t, k), t.pre = store.pre,
           AllSound(sc, t), \A j \in Key : CoverKept(sc, store, t, j)
    PROVE  DownHolds(t, k)
<1>1. Holds(sc, t, env, revealed)
  BY SafeFacts, HoldsKept
<1> QED
  BY <1>1 DEF DownHolds, Still

LEMMA DownSafe ==
    ASSUME TypeOK, TypeOK', PlacedInv, Safe, sc' = sc, env' = env, revealed' = revealed,
           NEW k \in Key, DownHolds(store', k), disk' \in {disk, store'} \/ DownHolds(disk', k),
           \A j \in Key \ {k} : store'.active[j] = store.active[j],
           mem'.callback = mem.callback, mem'.tasks \subseteq mem.tasks,
           mem'.session \subseteq mem.session \cup {k}, mem'.batch = mem.batch,
           Runs(sc, store', mem', k)
    PROVE  Safe'
<1>1. /\ Holds(sc, disk, env, revealed) /\ Agree(store, disk)
      /\ SwapRuns(sc, store, mem, env, k)
  BY SafeFacts
<1>2. /\ Holds(sc, store', env, revealed) /\ store'.pre = store.pre
      /\ OnlyOf(store, store', k) /\ \A j \in Key : store'.sets[j] = store.sets[j]
  BY DEF DownHolds
<1>3. Holds(sc, disk', env, revealed) /\ Agree(store', disk')
  BY <1>1, <1>2 DEF DownHolds, Agree
<1>4. \A j \in Key \ {k} : Runs(sc, store', mem', j) /\ SwapRuns(sc, store', mem', env, j)
  BY <1>2, OthersRun
<1>5. SwapRuns(sc, store', mem', env, k)
  BY <1>1, <1>2, SwapRunsKept
<1> QED
  BY <1>2, <1>3, <1>4, <1>5 DEF Safe

(* When the preimage is known, both stores have it. *)
LEMMA PreimageSafe ==
    ASSUME TypeOK, TypeOK', PlacedInv, Safe, sc' = sc, env' = env, revealed' = revealed,
           SwapFields(sc, store'), NEW k \in Key, disk' = store', store'.active = store.active,
           Still(store, store'), OnlyOf(store, store', k), store'.pre = store.pre \cup {k},
           AllSound(sc, store'), \A j \in Key : CoverKept(sc, store, store', j), mem' = mem,
           k \in Swaps(sc) => env.funding[k] = "claimed"
    PROVE  Safe'
<1>1. store' \in Store /\ SwapRuns(sc, store, mem, env, k)
  BY SafeFacts DEF TypeOK
<1>2. Holds(sc, store', env, revealed)
  BY <1>1, SafeFacts, HoldsKept
<1>3. Agree(store', store')
  BY DEF Agree
<1>4. \A j \in Key \ {k} : Runs(sc, store', mem', j) /\ SwapRuns(sc, store', mem', env, j)
  BY OthersRun
<1>5. Runs(sc, store', mem', k) /\ SwapRuns(sc, store', mem', env, k)
  BY <1>1 DEF Runs, SwapRuns
<1> QED
  BY <1>2, <1>3, <1>4, <1>5 DEF Safe

LEMMA OfferSafe ==
    ASSUME TypeOK, TypeOK', PlacedInv, Safe, sc' = sc, env' = env, revealed' = revealed,
           SwapFields(sc, store'), SwapFields(sc, disk'),
           NEW k \in Key, NEW d \in Attempt, Offers(store, store', k, d),
           disk' \in {disk, store'} \/ Offers(store, disk', k, d),
           Forwards(sc, k), k \notin store.pre, store.sets[k].res = "settling",
           store.failure[k] # "reason", Out(store, k) = {},
           \A j \in Key \ {k} : store'.active[j] = store.active[j],
           mem'.callback = mem.callback, mem'.tasks \subseteq mem.tasks, k \notin mem'.tasks,
           mem'.session = mem.session, mem'.batch = mem.batch,
           k \in mem.session => d \in store'.active[k]
    PROVE  Safe'
<1>1. store' \in Store /\ disk' \in Store /\ IsScenario(sc) /\ store \in Store /\ AllSound(sc, store)
  BY SafeFacts DEF TypeOK
<1>2. ASSUME NEW t \in Store, SwapFields(sc, t), Offers(store, t, k, d)
      PROVE  DownHolds(t, k)
  <2>1. AllSound(sc, t) /\ \A j \in Key : CoverKept(sc, store, t, j)
    BY <1>1, <1>2, OffersSound
  <2>2. Still(store, t) /\ OnlyOf(store, t, k) /\ t.pre = store.pre
    BY <1>2 DEF Offers, Downs
  <2> QED
    BY <1>2, <2>1, <2>2, KeptDownHolds
<1>3. DownHolds(store', k) /\ (disk' \in {disk, store'} \/ DownHolds(disk', k))
  BY <1>1, <1>2
<1>4. Runs(sc, store', mem', k)
  <2>1. /\ store'.sets[k].res = "settling" /\ store'.failure[k] # "reason"
        /\ store'.down[k] = [store.down[k] EXCEPT ![d] = "offered"]
    BY DEF Offers, Downs, Still
  <2>2. store.down[k] \in [Attempt -> {"none", "offered", "fulfilled", "failing", "failed"}]
    BY <1>1, StoreFacts
  <2>3. Out(store', k) \subseteq {d}
    BY <2>1, <2>2 DEF Out
  <2> QED
    BY <2>1, <2>3 DEF Runs
<1> QED
  BY <1>3, <1>4, DownSafe

LEMMA GiveUpSafe ==
    ASSUME TypeOK, TypeOK', PlacedInv, Safe, sc' = sc, env' = env, revealed' = revealed,
           SwapFields(sc, store'), SwapFields(sc, disk'),
           NEW k \in Key, GivesUp(store, store', k), disk' \in {disk, store'},
           Forwards(sc, k), k \notin store.pre, store.sets[k].res = "settling", Out(store, k) = {},
           \A j \in Key \ {k} : store'.active[j] = store.active[j],
           mem'.callback = mem.callback, mem'.tasks \subseteq mem.tasks,
           mem'.session \subseteq mem.session, mem'.batch = mem.batch,
           k \notin mem'.tasks \cup mem'.session
    PROVE  Safe'
<1>1. store' \in Store /\ IsScenario(sc) /\ store \in Store /\ AllSound(sc, store)
  BY SafeFacts DEF TypeOK
<1>2. AllSound(sc, store') /\ \A j \in Key : CoverKept(sc, store, store', j)
  BY <1>1, GivesUpSound
<1>3. Still(store, store') /\ OnlyOf(store, store', k) /\ store'.pre = store.pre
  BY DEF GivesUp
<1>4. DownHolds(store', k)
  BY <1>1, <1>2, <1>3, KeptDownHolds
<1>5. Runs(sc, store', mem', k)
  BY DEF Runs
<1> QED
  BY <1>4, <1>5, DownSafe

LEMMA RunForwardSafe ==
    ASSUME TypeOK, TypeOK', PlacedInv, Safe, sc' = sc,
           SwapFields(sc, store'), SwapFields(sc, disk'), NEW k \in Key, RunForward(k)
    PROVE  Safe'
<1>1. /\ env' = env /\ revealed' = revealed
      /\ mem'.callback = mem.callback /\ mem'.tasks = mem.tasks \ {k} /\ mem'.batch = mem.batch
      /\ mem'.session = IF sc.kind[k] = "trampoline" THEN mem.session \cup {k} ELSE mem.session
  BY DEF TypeOK, RunForward
<1>2. /\ IsScenario(sc) /\ store \in Store /\ store' \in Store /\ AllSound(sc, store)
      /\ Sound(sc, store, k) /\ OnceRuns(sc, store, mem, k)
      /\ \A j \in Key : Runs(sc, store, mem, j)
  BY SafeFacts DEF TypeOK, PlacedInv, AllSound
<1>3. k \in mem.tasks /\ Forwards(sc, k)
  BY RunForwardChanges
<1>4. k \notin store.pre => /\ store.sets[k].res = "settling" /\ store.failure[k] # "reason"
                            /\ k \notin mem.session /\ Out(store, k) = {}
  BY <1>2, <1>3 DEF Runs
<1>5. sc.kind[k] = "forward" => k \notin store.pre /\ k \notin mem.session
  <2> SUFFICES ASSUME sc.kind[k] = "forward" PROVE k \notin store.pre /\ k \notin mem.session
    OBVIOUS
  <2>1. Tried(store, k) = {} /\ k \notin mem.session
    BY <1>2, <1>3 DEF OnceRuns
  <2>2. ~ Fulfilled(store, k)
    BY <2>1 DEF Tried, Fulfilled
  <2> QED
    BY <1>2, <1>3, <2>1, <2>2 DEF Sound, Downstream
<1>6. \A j \in Key \ {k} : store'.active[j] = store.active[j]
  BY ForwardActive DEF ForwardNext
<1>7. CASE /\ sc.kind[k] = "trampoline" /\ Rests(store, store') /\ store'.active[k] = {}
           /\ disk' \in {disk, store'}
  <2>1. /\ AllSound(sc, store')
        /\ \A j \in Key : SameOf(store, store', j) /\ CoverKept(sc, store, store', j)
    BY <1>2, <1>7, RestsSound DEF Rests
  <2>2. Runs(sc, store', mem', k)
    <3>1. Out(store', k) = Out(store, k) /\ SameOf(store, store', k)
      BY <2>1 DEF Out, SameOf
    <3> QED
      BY <1>1, <1>4, <3>1 DEF Runs, SameOf
  <2>3. \A j \in Key \ {k} : Runs(sc, store', mem', j)
    BY <1>1, <1>2, <1>6, <2>1, RunsKept
  <2> QED
    BY <1>1, <1>7, <2>1, <2>2, <2>3, SameSafe
<1>8. CASE /\ sc.kind[k] = "forward"
           /\ \E d \in Attempt : /\ Offers(store, store', k, d)
                                 /\ disk' \in {disk, store'} \/ Offers(store, disk', k, d)
  BY <1>1, <1>3, <1>4, <1>5, <1>6, <1>8, OfferSafe
<1>9. CASE sc.kind[k] = "forward" /\ GivesUp(store, store', k) /\ disk' \in {disk, store'}
  BY <1>1, <1>3, <1>4, <1>5, <1>6, <1>9, GiveUpSafe
<1> QED
  BY <1>7, <1>8, <1>9, RunForwardChanges

LEMMA SessionSafe ==
    ASSUME TypeOK, TypeOK', PlacedInv, Safe, sc' = sc, SwapFields(sc, store'), SwapFields(sc, disk'),
           NEW k \in Key, SessionSends(k) \/ SessionFails(k)
    PROVE  Safe'
<1>1. /\ env' = env /\ revealed' = revealed /\ k \in mem.session /\ k \notin store.pre
      /\ mem'.callback = mem.callback /\ mem'.tasks = mem.tasks /\ mem'.batch = mem.batch
      /\ mem'.session = IF SessionSends(k) THEN mem.session ELSE mem.session \ {k}
      /\ store.active[k] = {}
  BY DEF TypeOK, SessionSends, SessionFails
<1>2. OnceRuns(sc, store, mem, k) /\ Runs(sc, store, mem, k)
  BY SafeFacts DEF PlacedInv
<1>3. Forwards(sc, k)
  BY <1>1, <1>2 DEF OnceRuns, Forwards
<1>4. /\ store.sets[k].res = "settling" /\ store.failure[k] # "reason"
      /\ k \notin mem.tasks /\ Out(store, k) = {}
  BY <1>1, <1>2, <1>3 DEF Runs
<1>5. \A j \in Key \ {k} : store'.active[j] = store.active[j]
  BY ForwardActive DEF ForwardNext
<1>6. CASE SessionSends(k)
  <2>1. PICK d \in Attempt :
              /\ Offers(store, store', k, d) /\ d \in store'.active[k]
              /\ disk' \in {disk, store'} \/ Offers(store, disk', k, d)
    BY <1>6, SessionSendsChanges
  <2> QED
    BY <1>1, <1>3, <1>4, <1>5, <1>6, <2>1, OfferSafe
<1>7. CASE SessionFails(k) /\ ~ SessionSends(k)
  <2>1. GivesUp(store, store', k) /\ disk' \in {disk, store'}
    BY <1>7, SessionFailsChanges
  <2> QED
    BY <1>1, <1>3, <1>4, <1>5, <1>7, <2>1, GiveUpSafe
<1> QED
  BY <1>6, <1>7

LEMMA FulfillsSafe ==
    ASSUME TypeOK, TypeOK', PlacedInv, Safe, sc' = sc, SwapFields(sc, store'),
           NEW k \in Key, NEW d \in Attempt, DownstreamFulfills(k, d)
    PROVE  Safe'
<1>1. /\ env' = env /\ revealed' = revealed /\ mem' = mem /\ store'.active = store.active
      /\ store.down[k][d] = "offered"
  BY DEF TypeOK, Store, DownstreamFulfills
<1>2. IsScenario(sc) /\ store \in Store /\ store' \in Store /\ AllSound(sc, store)
  BY SafeFacts DEF TypeOK
<1>3. Fulfills(store, store', k, d) /\ disk' = store'
  BY FulfillsChanges
<1>4. AllSound(sc, store') /\ \A j \in Key : CoverKept(sc, store, store', j)
  BY <1>2, <1>3, FulfillsSound
<1>5. k \notin Swaps(sc)
  BY <1>1, <1>2, AnsweredForwards, SwapFacts
<1>6. Still(store, store') /\ OnlyOf(store, store', k) /\ store'.pre = store.pre \cup {k}
  BY <1>3 DEF Fulfills, Downs
<1> QED
  BY <1>1, <1>3, <1>4, <1>5, <1>6, PreimageSafe

LEMMA FulfilledSafe ==
    ASSUME TypeOK, TypeOK', PlacedInv, Safe, sc' = sc, SwapFields(sc, store'), SwapFields(sc, disk'),
           NEW k \in Key, NEW d \in Attempt, DownstreamFulfilled(k, d)
    PROVE  Safe'
<1>1. /\ env' = env /\ revealed' = revealed
      /\ mem'.callback = mem.callback /\ mem'.tasks = mem.tasks /\ mem'.batch = mem.batch
      /\ mem'.session = mem.session \ {k}
  BY DEF TypeOK, DownstreamFulfilled
<1>2. /\ IsScenario(sc) /\ store \in Store /\ store' \in Store /\ AllSound(sc, store)
      /\ \A j \in Key : Runs(sc, store, mem, j)
  BY SafeFacts DEF TypeOK
<1>3. Rests(store, store') /\ disk' \in {disk, store'} /\ store.down[k][d] = "fulfilled"
  BY FulfilledChanges
<1>4. /\ AllSound(sc, store')
      /\ \A j \in Key : SameOf(store, store', j) /\ CoverKept(sc, store, store', j)
  BY <1>2, <1>3, RestsSound DEF Rests
<1>5. k \in store'.pre
  <2>1. Downstream(sc, store, k) /\ Fulfilled(store, k)
    BY <1>2, <1>3, AnsweredForwards DEF Fulfilled
  <2> QED
    BY <1>4, <2>1 DEF Downstream, SameOf
<1>6. Runs(sc, store', mem', k)
  BY <1>5 DEF Runs
<1>7. \A j \in Key \ {k} : store'.active[j] = store.active[j]
  BY ForwardActive DEF ForwardNext
<1>8. \A j \in Key \ {k} : Runs(sc, store', mem', j)
  BY <1>1, <1>2, <1>4, <1>7, RunsKept
<1> QED
  BY <1>1, <1>3, <1>4, <1>6, <1>8, SameSafe

LEMMA WillFailSafe ==
    ASSUME TypeOK, TypeOK', PlacedInv, Safe, sc' = sc, SwapFields(sc, store'), SwapFields(sc, disk'),
           NEW k \in Key, NEW d \in Attempt, DownstreamFails(k, d)
    PROVE  Safe'
<1>1. /\ env' = env /\ revealed' = revealed
      /\ mem'.callback = mem.callback /\ mem'.tasks = mem.tasks /\ mem'.batch = mem.batch
      /\ mem'.session = mem.session
  BY DEF TypeOK, DownstreamFails
<1>2. /\ IsScenario(sc) /\ store \in Store /\ store' \in Store /\ AllSound(sc, store)
      /\ Runs(sc, store, mem, k)
  BY SafeFacts DEF TypeOK
<1>3. WillFail(store, store', k, d) /\ disk' \in {disk, store'} /\ store'.active = store.active
  BY WillFailChanges
<1>4. AllSound(sc, store') /\ \A j \in Key : CoverKept(sc, store, store', j)
  BY <1>2, <1>3, WillFailSound
<1>5. /\ Still(store, store') /\ OnlyOf(store, store', k) /\ store'.pre = store.pre
      /\ store'.failure[k] = store.failure[k] /\ store'.sets[k] = store.sets[k]
      /\ store.down[k][d] = "offered" /\ store'.down[k] = [store.down[k] EXCEPT ![d] = "failing"]
  BY <1>3 DEF WillFail, Downs, Still
<1>6. DownHolds(store', k)
  BY <1>2, <1>4, <1>5, KeptDownHolds
<1>7. Runs(sc, store', mem', k)
  <2>1. store.down[k] \in [Attempt -> {"none", "offered", "fulfilled", "failing", "failed"}]
    BY <1>2, StoreFacts
  <2>2. Out(store', k) = Out(store, k)
    BY <1>5, <2>1 DEF Out
  <2> QED
    BY <1>1, <1>2, <1>3, <1>5, <2>2 DEF Runs
<1> QED
  BY <1>1, <1>3, <1>6, <1>7, DownSafe

LEMMA FailedDownSafe ==
    ASSUME TypeOK, TypeOK', PlacedInv, Safe, sc' = sc, SwapFields(sc, store'), SwapFields(sc, disk'),
           NEW k \in Key, NEW d \in Attempt, DownstreamFailed(k, d)
    PROVE  Safe'
<1>1. /\ env' = env /\ revealed' = revealed
      /\ mem'.callback = mem.callback /\ mem'.tasks = mem.tasks /\ mem'.batch = mem.batch
      /\ mem'.session = mem.session
  BY DEF TypeOK, DownstreamFailed
<1>2. /\ IsScenario(sc) /\ store \in Store /\ store' \in Store /\ AllSound(sc, store)
      /\ Runs(sc, store, mem, k)
  BY SafeFacts DEF TypeOK
<1>3. /\ HasFailed(store, store', k, d) /\ disk' \in {disk, store'}
      /\ store'.failure[k] # store.failure[k] => k \notin mem.session
      /\ store'.active[k] = store.active[k] \ {d}
  BY FailedChanges
<1>4. AllSound(sc, store') /\ \A j \in Key : CoverKept(sc, store, store', j)
  BY <1>2, <1>3, FailsSound
<1>5. /\ Still(store, store') /\ OnlyOf(store, store', k) /\ store'.pre = store.pre
      /\ store'.sets[k] = store.sets[k]
      /\ store.down[k][d] = "failing" /\ store'.down[k] = [store.down[k] EXCEPT ![d] = "failed"]
  BY <1>3 DEF HasFailed, Downs, Still
<1>6. DownHolds(store', k)
  BY <1>2, <1>4, <1>5, KeptDownHolds
<1>7. Runs(sc, store', mem', k)
  <2>1. store.down[k] \in [Attempt -> {"none", "offered", "fulfilled", "failing", "failed"}]
    BY <1>2, StoreFacts
  <2>2. Out(store', k) = Out(store, k) \ {d} /\ d \in Out(store, k)
    BY <1>5, <2>1 DEF Out
  <2> QED
    BY <1>1, <1>2, <1>3, <1>5, <2>2 DEF Runs
<1>8. \A j \in Key \ {k} : store'.active[j] = store.active[j]
  BY ForwardActive DEF ForwardNext
<1> QED
  BY <1>1, <1>3, <1>6, <1>7, <1>8, DownSafe

LEMMA ForwardRaisesSafe ==
    ASSUME TypeOK, TypeOK', PlacedInv, Safe, sc' = sc, SwapFields(sc, store'), SwapFields(sc, disk'),
           NEW k \in Key, ForwardRaises(k)
    PROVE  Safe'
<1>1. /\ env' = env /\ revealed' = revealed
      /\ mem'.callback = mem.callback /\ mem'.tasks = mem.tasks \ {k} /\ mem'.batch = mem.batch
      /\ mem'.session = IF k \in mem.tasks THEN mem.session ELSE mem.session \ {k}
  BY DEF TypeOK, ForwardRaises
<1>2. /\ IsScenario(sc) /\ store \in Store /\ store' \in Store /\ AllSound(sc, store)
      /\ \A j \in Key : Runs(sc, store, mem, j)
  BY SafeFacts DEF TypeOK
<1>3. Rests(store, store') /\ disk' \in {disk, store'} /\ Forwards(sc, k)
  BY ForwardRaisesChanges
<1>4. /\ AllSound(sc, store')
      /\ \A j \in Key : SameOf(store, store', j) /\ CoverKept(sc, store, store', j)
  BY <1>2, <1>3, RestsSound DEF Rests
<1>5. Runs(sc, store', mem', k)
  <2>1. k \in store.pre \/ k \notin mem'.tasks \cup mem'.session
    BY <1>1, <1>2, <1>3 DEF Runs
  <2> QED
    BY <1>4, <2>1 DEF Runs, SameOf
<1>6. \A j \in Key \ {k} : store'.active[j] = store.active[j]
  BY ForwardActive DEF ForwardNext
<1>7. \A j \in Key \ {k} : Runs(sc, store', mem', j)
  BY <1>1, <1>2, <1>4, <1>6, RunsKept
<1> QED
  BY <1>1, <1>3, <1>4, <1>5, <1>7, SameSafe

LEMMA ForwardSafe ==
    ASSUME TypeOK, TypeOK', PlacedInv, Safe, sc' = sc, SwapFields(sc, store'), SwapFields(sc, disk'),
           NEW k \in Key, ForwardNext(k)
    PROVE  Safe'
BY RunForwardSafe, SessionSafe, ForwardRaisesSafe,
   FulfillsSafe, FulfilledSafe, WillFailSafe, FailedDownSafe
   DEF ForwardNext

-----------------------------------------------------------------------------
(*              Hold invoices, the chain, and restarts                      *)

(* Only what is in memory or on the chain changes. *)
LEMMA RunHoldSafe ==
    ASSUME TypeOK, PlacedInv, Safe, sc' = sc, NEW k \in Key, RunHold(k)
    PROVE  Safe'
<1>1. /\ store' = store /\ disk' = disk /\ env' = env /\ revealed' = revealed
  BY DEF RunHold
<1>2. /\ mem'.callback = mem.callback /\ mem'.session = mem.session
      /\ mem'.tasks = mem.tasks \ {k} /\ mem'.batch \subseteq mem.batch \cup {k}
      /\ k \in mem'.batch \ mem.batch => k \in store.swaps /\ env.funding[k] = "none"
      /\ k \in mem.tasks
  BY BatchIs DEF IsFunded
<1>3. /\ Holds(sc, store, env, revealed) /\ Holds(sc, disk, env, revealed) /\ Agree(store, disk)
      /\ SwapFields(sc, store)
      /\ \A j \in Key : Runs(sc, store, mem, j) /\ SwapRuns(sc, store, mem, env, j)
  BY SafeFacts
<1>4. \A j \in Key : Runs(sc, store, mem', j)
  BY <1>2, <1>3 DEF Runs
<1>5. \A j \in Key \ {k} : SwapRuns(sc, store, mem', env, j)
  BY <1>2, <1>3, SwapRunsKept
<1>6. SwapRuns(sc, store, mem', env, k)
  <2>1. k \in mem'.batch => k \in Swaps(sc) /\ env.funding[k] = "none"
    BY <1>2, <1>3 DEF SwapFields, SwapRuns
  <2> QED
    BY <1>2, <1>3, <2>1 DEF SwapRuns
<1> QED
  BY <1>1, <1>3, <1>4, <1>5, <1>6 DEF Safe

LEMMA FundSafe ==
    ASSUME TypeOK, PlacedInv, Safe, sc' = sc, NEW k \in Key, Fund(k)
    PROVE  Safe'
<1>1. /\ store' = store /\ disk' = disk /\ revealed' = revealed /\ k \in mem.batch
      /\ env'.funding = [env.funding EXCEPT ![k] = "unspent"] /\ env'.locktime = env.locktime
      /\ env'.late = IF env.locktime THEN env.late \cup {k} ELSE env.late
      /\ env.funding \in [Key -> {"none", "unspent", "claimed", "refunded"}]
  BY DEF TypeOK, Fund
<1>2. /\ mem'.callback = mem.callback /\ mem'.session = mem.session
      /\ mem'.tasks = mem.tasks /\ mem'.batch = mem.batch \ {k}
  BY DEF TypeOK, Fund
<1>3. /\ Holds(sc, store, env, revealed) /\ Holds(sc, disk, env, revealed) /\ Agree(store, disk)
      /\ \A j \in Key : Runs(sc, store, mem, j) /\ SwapRuns(sc, store, mem, env, j)
      /\ Sound(sc, store, k) /\ Sound(sc, disk, k)
  BY SafeFacts DEF AllSound
<1>4. k \in Swaps(sc) /\ env.funding[k] = "none" /\ (~ env.locktime => store.sets[k].res = "settling")
  BY <1>1, <1>3 DEF SwapRuns
<1>5. ~ env.locktime => Covers(sc, store, k) /\ Covers(sc, disk, k)
  BY <1>3, <1>4 DEF Agree, Sound, Collected
<1>6. \A s \in {store, disk} : Holds(sc, s, env', revealed)
  <2> SUFFICES ASSUME NEW s \in {store, disk}
               PROVE  Holds(sc, s, env', revealed)
    OBVIOUS
  <2>1. \A j \in Key : FundedCovers(sc, s, env', j)
    BY <1>1, <1>3, <1>5 DEF Holds, FundedCovers
  <2> QED
    BY <1>3, <2>1 DEF Holds
<1>7. \A j \in Key : Runs(sc, store, mem', j)
  BY <1>2, <1>3 DEF Runs
<1>8. \A j \in Key : SwapRuns(sc, store, mem', env', j)
  BY <1>1, <1>2, <1>3, <1>4 DEF SwapRuns
<1> QED
  BY <1>1, <1>3, <1>6, <1>7, <1>8 DEF Safe

LEMMA SpendSafe ==
    ASSUME TypeOK, PlacedInv, Safe, sc' = sc, NEW k \in Key, Spend(k)
    PROVE  Safe'
<1>1. /\ store' = store /\ disk' = disk /\ revealed' = revealed /\ mem' = mem
      /\ env.funding \in [Key -> {"none", "unspent", "claimed", "refunded"}]
      /\ env.funding[k] = "unspent"
  BY DEF TypeOK, Spend
<1>2. PICK how \in {"claimed"} \cup (IF env.locktime /\ k \notin store.pre THEN {"refunded"} ELSE {}) :
         env' = [env EXCEPT !.funding[k] = how]
  BY DEF Spend
<1>3. /\ env'.funding = [env.funding EXCEPT ![k] = how] /\ env'.locktime = env.locktime
      /\ env'.late = env.late
      /\ how = "claimed" \/ (how = "refunded" /\ k \notin store.pre)
  BY <1>2 DEF TypeOK
<1>4. /\ Holds(sc, store, env, revealed) /\ Holds(sc, disk, env, revealed) /\ Agree(store, disk)
      /\ \A j \in Key : Runs(sc, store, mem, j) /\ SwapRuns(sc, store, mem, env, j)
  BY SafeFacts
<1>5. \A s \in {store, disk} : Holds(sc, s, env', revealed)
  <2> SUFFICES ASSUME NEW s \in {store, disk}
               PROVE  Holds(sc, s, env', revealed)
    OBVIOUS
  <2>1. \A j \in Key : FundedCovers(sc, s, env', j)
    BY <1>1, <1>3, <1>4 DEF Holds, FundedCovers
  <2> QED
    BY <1>4, <2>1 DEF Holds
<1>6. \A j \in Key : SwapRuns(sc, store, mem, env', j)
  BY <1>1, <1>3, <1>4 DEF SwapRuns
<1> QED
  BY <1>1, <1>4, <1>5, <1>6 DEF Safe

LEMMA RevealSafe ==
    ASSUME TypeOK, TypeOK', PlacedInv, Safe, sc' = sc, SwapFields(sc, store'), NEW k \in Key, Reveal(k)
    PROVE  Safe'
<1>1. /\ env' = env /\ revealed' = revealed /\ mem' = mem /\ k \in sc.hold
      /\ env.funding[k] = "claimed" \/ k \in store.dontExpire
  BY DEF Reveal
<1>2. /\ IsScenario(sc) /\ store \in Store /\ store' \in Store /\ AllSound(sc, store)
      /\ SwapFields(sc, store)
  BY SafeFacts DEF TypeOK
<1>3. Reveals(store, store', k) /\ disk' = store'
  BY RevealChanges
<1>4. ~ Forwards(sc, k)
  BY <1>1, <1>2 DEF IsScenario, Forwards
<1>5. AllSound(sc, store') /\ \A j \in Key : CoverKept(sc, store, store', j)
  BY <1>2, <1>3, <1>4, RevealsSound
<1>6. k \in Swaps(sc) => env.funding[k] = "claimed"
  BY <1>1, <1>2 DEF Swaps, SwapFields
<1>7. Still(store, store') /\ OnlyOf(store, store', k) /\ store'.pre = store.pre \cup {k}
  BY <1>3 DEF Reveals
<1>8. store'.active = store.active
  BY HoldActive DEF HoldNext
<1> QED
  BY <1>1, <1>3, <1>5, <1>6, <1>7, <1>8, PreimageSafe

LEMMA SwapFailsHolds ==
    ASSUME TypeOK, PlacedInv, Safe, NEW t \in Store, SwapFields(sc, t), NEW k \in Swaps(sc),
           SwapFails(store, t, k), k \notin store.pre,
           env.funding[k] \notin {"unspent", "claimed"}
    PROVE  FailedSet(t, k)
<1>1. /\ IsScenario(sc) /\ store \in Store /\ Legal(sc, store) /\ AllSound(sc, store)
      /\ Holds(sc, store, env, revealed) /\ revealed \in SUBSET Htlc /\ k \in Key
  BY SafeFacts DEF Swaps, IsScenario
<1>2. Out(store, k) = {}
  <2>1. Tried(store, k) = {}
    BY <1>1, SwapFacts DEF AllSound, Sound
  <2> QED
    BY <2>1 DEF Out, Tried
<1>3. Failing(store, t, k, {}) /\ t.sets[k].res = "failed"
  BY DEF SwapFails
<1>4. AllSound(sc, t) /\ \A j \in Key \ {k} : CoverKept(sc, store, t, j)
  BY <1>1, <1>2, <1>3, FailingSound
<1>5. OnlyOf(store, t, k) /\ \A j \in Key : j \in t.pre <=> j \in store.pre
  BY <1>3 DEF Failing, OnlySet, OnlyOf, SameOf
<1>6. t.pre = store.pre
  BY <1>1, <1>5, StoreFacts
<1>7. Holds(sc, t, env, revealed)
  <2>1. \A j \in Key : \/ CoverKept(sc, store, t, j)
                       \/ j \notin store.pre /\ env.funding[j] \notin {"unspent", "claimed"}
    BY <1>4
  <2> QED
    BY <1>1, <1>4, <1>6, <2>1, HoldsKept
<1> QED
  BY <1>3, <1>5, <1>6, <1>7 DEF FailedSet

LEMMA FailSwapSafe ==
    ASSUME TypeOK, TypeOK', PlacedInv, Safe, sc' = sc, SwapFields(sc, store'), SwapFields(sc, disk'),
           NEW k \in Key, FailSwap(k)
    PROVE  Safe'
<1>1. /\ env' = env /\ revealed' = revealed /\ k \in mem.callback /\ k \notin store.pre
      /\ mem'.callback = mem.callback \ {k} /\ mem'.tasks = mem.tasks
      /\ mem'.session = mem.session /\ mem'.batch = mem.batch
      /\ (env.locktime /\ env.funding[k] = "none") \/ env.funding[k] = "refunded"
  BY DEF TypeOK, FailSwap, IsFunded
<1>2. /\ IsScenario(sc) /\ store \in Store /\ store' \in Store /\ disk' \in Store
      /\ Legal(sc, store) /\ AllSound(sc, store)
      /\ \A j \in Key : Runs(sc, store, mem, j) /\ SwapRuns(sc, store, mem, env, j)
  BY SafeFacts DEF TypeOK
<1>3. k \in Swaps(sc) /\ ~ Forwards(sc, k)
  BY <1>1, <1>2, SwapFacts DEF SwapRuns
<1>4. store'.active = store.active
  BY HoldActive DEF HoldNext
<1>5. CASE Rests(store, store') /\ disk' \in {disk, store'}
  <2>1. /\ AllSound(sc, store')
        /\ \A j \in Key : SameOf(store, store', j) /\ CoverKept(sc, store, store', j)
    BY <1>2, <1>5, RestsSound DEF Rests
  <2>2. \A j \in Key : Runs(sc, store', mem', j)
    BY <1>1, <1>2, <1>4, <2>1, RunsKept
  <2> QED
    BY <1>1, <1>5, <2>1, <2>2, SameSafe
<1>6. CASE SwapFails(store, store', k) /\ (disk' \in {disk, store'} \/ SwapFails(store, disk', k))
  <2>1. FailedSet(store', k) /\ (disk' \in {disk, store'} \/ FailedSet(disk', k))
    BY <1>1, <1>2, <1>3, <1>6, SwapFailsHolds
  <2>2. Runs(sc, store', mem', k)
    BY <1>3 DEF Runs
  <2>3. SwapRuns(sc, store', mem', env, k)
    BY <1>1, <1>2, <2>1 DEF SwapRuns, FailedSet
  <2> QED
    BY <1>1, <1>4, <2>1, <2>2, <2>3, FailedSafe
<1> QED
  BY <1>2, <1>5, <1>6, FailSwapChanges

LEMMA CancelSafe ==
    ASSUME TypeOK, TypeOK', PlacedInv, Safe, sc' = sc, SwapFields(sc, store'), SwapFields(sc, disk'),
           NEW k \in Key, CancelHold(k)
    PROVE  Safe'
<1>1. env' = env /\ revealed' = revealed /\ mem' = mem
  BY DEF CancelHold
<1>2. /\ IsScenario(sc) /\ store \in Store /\ store' \in Store /\ AllSound(sc, store)
      /\ \A j \in Key : Runs(sc, store, mem, j)
  BY SafeFacts DEF TypeOK
<1>3. Rests(store, store') /\ disk' \in {disk, store'}
  BY CancelChanges
<1>4. /\ AllSound(sc, store')
      /\ \A j \in Key : SameOf(store, store', j) /\ CoverKept(sc, store, store', j)
  BY <1>2, <1>3, RestsSound DEF Rests
<1>5. store'.active = store.active
  BY HoldActive DEF HoldNext
<1>6. \A j \in Key : Runs(sc, store', mem, j)
  BY <1>2, <1>4, <1>5, RunsKept
<1> QED
  BY <1>1, <1>3, <1>4, <1>6, SameSafe

LEMMA HoldSafe ==
    ASSUME TypeOK, TypeOK', PlacedInv, Safe, sc' = sc, SwapFields(sc, store'), SwapFields(sc, disk'),
           NEW k \in Key, HoldNext(k)
    PROVE  Safe'
BY RunHoldSafe, FundSafe, SpendSafe, RevealSafe, FailSwapSafe, CancelSafe DEF HoldNext

LEMMA ArriveSafe ==
    ASSUME TypeOK, TypeOK', PlacedInv, Safe, sc' = sc, SwapFields(sc, store'), SwapFields(sc, disk'),
           NEW h \in Htlc, Arrive(h)
    PROVE  Safe'
<1>1. env' = env /\ revealed' = revealed /\ mem' = mem /\ store'.active = store.active
  BY DEF TypeOK, Store, Arrive
<1>2. /\ IsScenario(sc) /\ store \in Store /\ store' \in Store /\ Legal(sc, store)
      /\ AllSound(sc, store) /\ \A j \in Key : Runs(sc, store, mem, j)
  BY SafeFacts DEF TypeOK
<1>3. Arrives(store, store', h) /\ disk' = store'
  BY ArriveChanges
<1>4. /\ AllSound(sc, store')
      /\ \A j \in Key : SameOf(store, store', j) /\ CoverKept(sc, store, store', j)
  BY <1>2, <1>3, ArrivesSound DEF Arrives
<1>5. \A j \in Key : Runs(sc, store', mem, j)
  BY <1>1, <1>2, <1>4, RunsKept
<1> QED
  BY <1>1, <1>3, <1>4, <1>5, SameSafe

(* The memory is what the file has; the swaps' invoices are hold invoices   *)
(* again, and no task runs.                                                 *)
LEMMA CrashSafe ==
    ASSUME TypeOK, PlacedInv, Safe, sc' = sc, Crash
    PROVE  Safe'
<1>1. /\ store' = disk /\ disk' = disk /\ env' = env /\ revealed' = revealed
      /\ mem'.tasks = {} /\ mem'.session = {} /\ mem'.batch = {}
      /\ mem'.callback = disk.swaps \ disk.pre
  BY DEF Crash
<1>2. /\ Holds(sc, disk, env, revealed) /\ Agree(store, disk) /\ SwapFields(sc, disk)
      /\ \A j \in Key : SwapRuns(sc, store, mem, env, j)
  BY SafeFacts
<1>3. \A j \in Key : Runs(sc, disk, mem', j)
  BY <1>1 DEF Runs
<1>4. \A j \in Key : SwapRuns(sc, disk, mem', env, j)
  BY <1>1, <1>2 DEF SwapRuns, Agree, SwapFields
<1>5. Agree(disk, disk)
  BY DEF Agree
<1> QED
  BY <1>1, <1>2, <1>3, <1>4, <1>5 DEF Safe

(* Time passes, peers come and go, the wallet is saved. *)
LEMMA OtherSafe ==
    ASSUME TypeOK, PlacedInv, Safe, sc' = sc,
           \/ \E p \in Peer : StartIteration(p) \/ Disconnect(p) \/ Connect(p)
           \/ Elapse \/ Expire \/ Blocks \/ LocktimePasses \/ TipChanges \/ SaveDb \/ UNCHANGED vars
    PROVE  Safe'
<1>1. /\ store' = store /\ disk' \in {disk, store} /\ mem' = mem /\ revealed' = revealed
  BY DEF StartIteration, Disconnect, Connect, Elapse, Expire, Blocks, LocktimePasses, TipChanges,
         SaveDb, vars
<1>2. /\ env'.funding = env.funding /\ env'.late = env.late
      /\ env.locktime => env'.locktime
  BY DEF StartIteration, Disconnect, Connect, Elapse, Expire, Blocks, LocktimePasses, TipChanges,
         SaveDb, vars, TypeOK
<1>3. /\ Holds(sc, store, env, revealed) /\ Holds(sc, disk, env, revealed) /\ Agree(store, disk)
      /\ \A j \in Key : Runs(sc, store, mem, j) /\ SwapRuns(sc, store, mem, env, j)
  BY SafeFacts
<1>4. \A s : Holds(sc, s, env, revealed) => Holds(sc, s, env', revealed)
  BY <1>2 DEF Holds, FundedCovers
<1>5. \A j \in Key : SwapRuns(sc, store, mem, env', j)
  BY <1>2, <1>3 DEF SwapRuns
<1>6. Agree(store, store)
  BY DEF Agree
<1> QED
  BY <1>1, <1>3, <1>4, <1>5, <1>6 DEF Safe

LEMMA AgainKept == [Next]_vars => again' = again \/ \E h \in Htlc : Collect(h)
<1>1. \A h \in Htlc : Refuse(h) \/ RefuseRaises(h) \/ Arrive(h) => again' = again
  BY DEF Refuse, RefuseRaises, Arrive
<1>2. \A k \in Key : SetNext(k) => again' = again
  BY DEF SetNext, SetWaits, SetMoves, SetFails, SetCalls, SetSettles, SettleRaises
<1>3. \A k \in Key : ForwardNext(k) => again' = again
  <2> TAKE k \in Key
  <2>1. RunForward(k) \/ SessionSends(k) \/ SessionFails(k) \/ ForwardRaises(k) => again' = again
    BY DEF RunForward, SessionSends, SessionFails, ForwardRaises
  <2>2. \A d \in Attempt : DownstreamFulfills(k, d) \/ DownstreamFulfilled(k, d) => again' = again
    BY DEF DownstreamFulfills, DownstreamFulfilled
  <2>3. \A d \in Attempt : DownstreamFails(k, d) \/ DownstreamFailed(k, d) => again' = again
    BY DEF DownstreamFails, DownstreamFailed
  <2> QED
    BY <2>1, <2>2, <2>3 DEF ForwardNext
<1>4. \A k \in Key : HoldNext(k) => again' = again
  BY DEF HoldNext, RunHold, Fund, Spend, Reveal, FailSwap, CancelHold
<1>5. \A p \in Peer : StartIteration(p) \/ Disconnect(p) \/ Connect(p) => again' = again
  BY DEF StartIteration, Disconnect, Connect
<1>6. SaveDb \/ Elapse \/ Expire \/ Blocks \/ LocktimePasses \/ TipChanges \/ Crash => again' = again
  BY DEF SaveDb, Elapse, Expire, Blocks, LocktimePasses, TipChanges, Crash
<1> QED
  BY <1>1, <1>2, <1>3, <1>4, <1>5, <1>6 DEF Next, JobNext, FirstStepNext, vars

LEMMA AgainGrows == [Next]_vars => again \subseteq again'
BY AgainKept DEF Collect

LEMMA NextSafe ==
    ASSUME TypeOK, TypeOK', CopiesAreCurrent, PlacedInv, CoverInv, [Next]_vars
    PROVE  CoverInv'
<1> SUFFICES ASSUME again' = {}
             PROVE  Safe'
  BY DEF CoverInv
<1>1. Safe
  BY AgainGrows DEF CoverInv
<1>2. sc' = sc /\ SwapFields(sc, store') /\ SwapFields(sc, disk')
  BY <1>1, SafeFacts, ListsKept
<1> QED
  BY <1>1, <1>2, FirstLoopSafe, SecondLoopSafe, ForwardSafe, HoldSafe, ArriveSafe, CrashSafe, OtherSafe
     DEF Next, JobNext, FirstStepNext

LEMMA InitSafe == Init => CoverInv
<1> SUFFICES ASSUME Init
             PROVE  Safe
  BY DEF CoverInv
<1>1. TypeOK
  BY InitTyped
<1>2. /\ IsScenario(sc) /\ disk = store /\ revealed = {} /\ mem.tasks = {} /\ mem.session = {}
      /\ mem.batch = {} /\ mem.callback = Swaps(sc)
      /\ store.pre = {k \in Key : sc.kind[k] = "invoice"} \ sc.hold
      /\ store.swaps = Swaps(sc) /\ store.dontExpire = sc.dontExpire
      /\ \A k \in Key : env.funding[k] = "none"
      /\ \A k \in Key : store.sets[k] = NoSet /\ store.failure[k] = "none"
      /\ \A h \in Htlc : store.log[h] = "none"
      /\ \A k \in Key, d \in Attempt : store.down[k][d] = "none"
  BY <1>1 DEF Init, TypeOK, Swaps
<1>3. \A k \in Key : Sound(sc, store, k)
  <2> TAKE k \in Key
  <2>1. Tried(store, k) = {} /\ Out(store, k) = {} /\ ~ Fulfilled(store, k)
    BY <1>2 DEF Tried, Out, Fulfilled
  <2>2. Forwards(sc, k) => k \notin store.pre
    BY <1>2 DEF Forwards
  <2>3. Collected(sc, store, k)
    BY <1>2 DEF Collected, NoSet
  <2> QED
    BY <1>2, <2>1, <2>2, <2>3 DEF Sound, Downstream
<1>4. Holds(sc, store, env, revealed)
  BY <1>2, <1>3 DEF Holds, FundedCovers, RevealedCovers, SwapFields
<1>5. Agree(store, store)
  BY DEF Agree
<1>6. \A k \in Key : Runs(sc, store, mem, k) /\ SwapRuns(sc, store, mem, env, k)
  BY <1>2 DEF Runs, SwapRuns, Swaps
<1> QED
  BY <1>2, <1>4, <1>5, <1>6 DEF Safe

-----------------------------------------------------------------------------
(*                    Nothing is paid for from our own pocket               *)

LEMMA CoveredIs ==
    ASSUME NEW s, NEW k
    PROVE  Covered(s, k) <=> Covers(sc, s, k)
<1>1. SecuredIn(s, k) = Secures(sc, s, k)
  BY HashIs DEF SecuredIn, Secures
<1> QED
  BY <1>1, AmountIs DEF Covered, Covers

LEMMA AlwaysSafe == Spec => []IInv
<1>1. Init => IInv
  BY InitTyped, InitLegal, InitSafe DEF IInv
<1>2. IInv /\ [Next]_vars => IInv'
  BY NextTyped, NextLegal, NextSafe DEF IInv
<1> QED
  BY <1>1, <1>2, PTL DEF Spec

(* An invoice is paid in full before any part of it is claimed, over        *)
(* restarts too: what is settled and what waits in its SETTLING set, in     *)
(* memory and in the file, is never less than its amount once a preimage    *)
(* was revealed (_fulfill_htlc_set).                                        *)
THEOREM InvoicesArePaidInFull == Spec => []PaidInFull
<1>1. IInv => PaidInFull
  <2> SUFFICES ASSUME IInv, NEW k \in Key, again = {}, NEW h \in revealed, HashOf(sc.key[h]) = k
               PROVE  Covered(store, k)
    BY DEF PaidInFull
  <2>1. RevealedCovers(sc, store, revealed)
    BY DEF IInv, CoverInv, Safe, Holds
  <2> QED
    BY <2>1, HashIs, CoveredIs DEF RevealedCovers
<1> QED
  BY <1>1, AlwaysSafe, PTL

(* What is offered downstream, or was claimed there, is covered by incoming *)
(* HTLCs that are settled or wait in a SETTLING set, whatever fails,        *)
(* disconnects or expires, and over restarts (maybe_forward_htlc_set).      *)
THEOREM ForwardsAreCovered == Spec => []ForwardingIsCovered
<1>1. IInv => ForwardingIsCovered
  <2> SUFFICES ASSUME IInv, again = {}, NEW k \in Key, NEW d \in Attempt,
                      store.down[k][d] \in {"offered", "fulfilled"}
               PROVE  Covered(store, k)
    BY DEF ForwardingIsCovered
  <2>1. Sound(sc, store, k) /\ AllSound(sc, store)
    BY DEF IInv, CoverInv, Safe, Holds, AllSound
  <2>2. Downstream(sc, store, k)
    BY <2>1, AnsweredForwards
  <2>3. Covers(sc, store, k)
    <3>1. CASE store.down[k][d] = "fulfilled"
      BY <2>2, <3>1 DEF Downstream, Fulfilled
    <3>2. CASE store.down[k][d] = "offered"
      BY <2>1, <2>2, <3>2 DEF Downstream, Out, Sound, Collected
    <3> QED
      BY <3>1, <3>2
  <2> QED
    BY <2>3, CoveredIs
<1> QED
  BY <1>1, AlwaysSafe, PTL

(* A swap that is funded before its locktime is covered by its HTLCs until  *)
(* the funding comes back (hold_invoice_callback, _fail_swap).              *)
THEOREM FundingsAreCovered == Spec => []FundingIsCovered
<1>1. IInv => FundingIsCovered
  <2> SUFFICES ASSUME IInv, again = {}, NEW k \in Key \ env.late,
                      env.funding[k] \in {"unspent", "claimed"}
               PROVE  Covered(store, k)
    BY DEF FundingIsCovered
  <2>1. FundedCovers(sc, store, env, k)
    BY DEF IInv, CoverInv, Safe, Holds
  <2> QED
    BY <2>1, CoveredIs DEF FundedCovers
<1> QED
  BY <1>1, AlwaysSafe, PTL

-----------------------------------------------------------------------------
(*                     A bundle starts when it is complete                  *)

(* A step starts to settle only sets of ks, and only they are paid then. *)
OnlyStarts(s, t, ks) ==
    /\ \A j \in Key \ ks : t.sets[j].res = "settling" => s.sets[j].res = "settling"
    /\ t.paid \subseteq s.paid \cup ks
StepStarts(ks) ==
    /\ OnlyStarts(store, store', ks)
    /\ disk' \in {disk, store'} \/ OnlyStarts(store, disk', ks)
Starts(k) == SetCalls(k) \/ SetSettles(k) \/ SettleRaises(k)

LEMMA SameStarts ==
    ASSUME NEW s, NEW t, \A j \in Key : t.sets[j] = s.sets[j], Listed(s, t, {})
    PROVE  OnlyStarts(s, t, {})
BY DEF Listed, OnlyStarts

LEMMA RestStarts ==
    ASSUME NEW s, NEW t, Listed(s, t, {}), \/ Rests(s, t)
                                           \/ \E h : Refuses(s, t, h) \/ Arrives(s, t, h)
    PROVE  OnlyStarts(s, t, {})
<1>1. \A j \in Key : t.sets[j] = s.sets[j]
  BY DEF Rests, Refuses, Arrives, SameOf
<1> QED
  BY <1>1, SameStarts

LEMMA FirstLoopStarts ==
    ASSUME TypeOK, PlacedInv, NEW h \in Htlc, Collect(h) \/ Refuse(h) \/ RefuseRaises(h)
    PROVE  StepStarts({})
<1>1. Listed(store, store', {}) /\ (disk' \in {disk, store'} \/ Listed(store, disk', {}))
  BY FirstLoopLists
<1>2. job.unf \subseteq store.unf /\ sc.key[h] \in Key
  BY ScenarioFacts DEF PlacedInv, TypeOK
<1>3. CASE Collect(h)
  <2>1. Collects(store, store', h, sc.key[h]) /\ disk' \in {disk, store'}
    BY <1>2, <1>3, CollectChanges
  <2>2. OnlyStarts(store, store', {})
    BY <1>1, <1>2, <2>1 DEF Collects, OnlySet, OnlyOf, SameOf, OnlyStarts, Listed
  <2> QED
    BY <2>1, <2>2 DEF StepStarts
<1>4. CASE Refuse(h)
  <2>1. Refuses(store, store', h) /\ (disk' \in {disk, store'} \/ Refuses(store, disk', h))
    BY <1>2, <1>4, RefuseChanges
  <2>2. OnlyStarts(store, store', {})
    BY <1>1, <2>1, RestStarts
  <2>3. disk' \in {disk, store'} \/ OnlyStarts(store, disk', {})
    BY <1>1, <2>1, RestStarts
  <2> QED
    BY <2>2, <2>3 DEF StepStarts
<1>5. CASE RefuseRaises(h)
  <2>1. Rests(store, store') /\ disk' \in {disk, store'}
    BY <1>5, RaiseChanges
  <2> QED
    BY <1>1, <2>1, RestStarts DEF StepStarts
<1> QED
  BY <1>3, <1>4, <1>5

LEMMA FailingStarts ==
    ASSUME NEW k \in Key, NEW t, NEW hs, Failing(store, t, k, hs), Listed(store, t, {})
    PROVE  OnlyStarts(store, t, {})
BY DEF Failing, OnlySet, OnlyOf, SameOf, OnlyStarts, Listed, NoSet

LEMMA WaitsStarts ==
    ASSUME TypeOK, CopiesAreCurrent, Legal(sc, store), NEW k \in Key,
           SetWaits(k) \/ SetMoves(k) \/ SetFails(k)
    PROVE  StepStarts({})
<1>1. PaidBy(k) = {}
  BY DEF SetWaits, SetMoves, SetFails, PaidBy
<1>2. Listed(store, store', {}) /\ (disk' \in {disk, store'} \/ Listed(store, disk', {}))
  BY <1>1, SetLists DEF SetNext
<1>3. CASE SetWaits(k)
  <2>1. /\ store' = store \/ Marks(sc, store, store', k)
        /\ disk' \in {disk, store'}
    BY <1>3, WaitsChanges
  <2>2. OnlyStarts(store, store', {})
    BY <1>2, <2>1 DEF Marks, OnlySet, OnlyOf, SameOf, OnlyStarts, Listed
  <2> QED
    BY <2>1, <2>2 DEF StepStarts
<1>4. CASE SetMoves(k)
  <2>1. Moves(sc, store, store', k) /\ disk' \in {disk, store'}
    BY <1>4, MovesChanges
  <2>2. OnlyStarts(store, store', {})
    BY <1>2, <2>1 DEF Moves, SameOf, OnlyStarts, Listed, NoSet
  <2> QED
    BY <2>1, <2>2 DEF StepStarts
<1>5. CASE SetFails(k)
  <2>1. FailsTo(store', k) /\ (disk' \in {disk, store'} \/ FailsTo(disk', k))
    BY <1>5, FailsChanges
  <2>2. \A t : FailsTo(t, k) /\ Listed(store, t, {}) => OnlyStarts(store, t, {})
    BY FailingStarts DEF FailsTo
  <2> QED
    BY <1>2, <2>1, <2>2 DEF StepStarts
<1> QED
  BY <1>3, <1>4, <1>5

LEMMA StartsStart ==
    ASSUME TypeOK, CopiesAreCurrent, Legal(sc, store), NEW k \in Key, Starts(k)
    PROVE  StepStarts({k})
<1>1. HashOf(k) = k
  <2>1. CASE SetCalls(k)
    <3>1. sc.kind[k] # "part"
      BY <2>1, CallsChanges DEF Calls
    <3> QED
      BY <3>1 DEF HashOf
  <2>2. CASE SetSettles(k)
    BY <2>2, SettlesChanges
  <2>3. CASE SettleRaises(k)
    BY <2>3, SettleFacts DEF SettleRaises
  <2> QED
    BY <2>1, <2>2, <2>3 DEF Starts
<1>2. PaidBy(k) \subseteq {k}
  BY <1>1 DEF PaidBy
<1>3. /\ Listed(store, store', PaidBy(k))
      /\ disk' \in {disk, store'} \/ Listed(store, disk', PaidBy(k))
  BY SetLists DEF Starts, SetNext
<1>4. CASE SetCalls(k)
  <2>1. Calls(sc, store, store', k) /\ disk' = store'
    BY <1>4, CallsChanges
  <2>2. OnlyStarts(store, store', {k})
    BY <1>2, <1>3, <2>1 DEF Calls, OnlySet, OnlyOf, SameOf, OnlyStarts, Listed
  <2> QED
    BY <2>1, <2>2 DEF StepStarts
<1>5. CASE SetSettles(k) \/ SettleRaises(k)
  <2>1. SettlesTo(store', k) /\ (disk' \in {disk, store'} \/ SettlesTo(disk', k))
    BY <1>5, SettlesChanges, RaisesChanges
  <2>2. \A t : SettlesTo(t, k) /\ Listed(store, t, PaidBy(k)) => OnlyStarts(store, t, {k})
    BY <1>2 DEF SettlesTo, Settles, OnlySet, OnlyOf, SameOf, OnlyStarts, Listed
  <2> QED
    BY <1>3, <2>1, <2>2 DEF StepStarts
<1> QED
  BY <1>4, <1>5 DEF Starts

LEMMA OffersStarts ==
    ASSUME NEW s, NEW t, NEW k, NEW d, Listed(s, t, {}),
           Offers(s, t, k, d) \/ Fulfills(s, t, k, d) \/ WillFail(s, t, k, d) \/ HasFailed(s, t, k, d)
    PROVE  OnlyStarts(s, t, {})
BY SameStarts DEF Offers, Fulfills, WillFail, HasFailed, Downs, Still

LEMMA ForwardStarts ==
    ASSUME TypeOK, NEW k \in Key, ForwardNext(k)
    PROVE  StepStarts({})
<1>1. Listed(store, store', {}) /\ (disk' \in {disk, store'} \/ Listed(store, disk', {}))
  BY ForwardLists
<1>2. ASSUME NEW d \in Attempt, Offers(store, store', k, d),
             disk' \in {disk, store'} \/ Offers(store, disk', k, d)
      PROVE  StepStarts({})
  BY <1>1, <1>2, OffersStarts DEF StepStarts
<1>3. CASE (Rests(store, store') \/ GivesUp(store, store', k)) /\ disk' \in {disk, store'}
  <2>1. \A j \in Key : store'.sets[j] = store.sets[j]
    BY <1>3 DEF Rests, SameOf, GivesUp, Still
  <2> QED
    BY <1>1, <1>3, <2>1, SameStarts DEF StepStarts
<1>4. CASE RunForward(k)
  BY <1>2, <1>3, <1>4, RunForwardChanges
<1>5. CASE SessionSends(k)
  BY <1>2, <1>5, SessionSendsChanges
<1>6. CASE SessionFails(k)
  BY <1>3, <1>6, SessionFailsChanges
<1>7. CASE ForwardRaises(k)
  BY <1>3, <1>7, ForwardRaisesChanges
<1>8. ASSUME NEW d \in Attempt,
             \/ DownstreamFulfills(k, d) \/ DownstreamFulfilled(k, d)
             \/ DownstreamFails(k, d) \/ DownstreamFailed(k, d)
      PROVE  StepStarts({})
  <2>1. CASE DownstreamFulfilled(k, d)
    BY <1>3, <2>1, FulfilledChanges
  <2>2. CASE DownstreamFulfills(k, d) \/ DownstreamFails(k, d) \/ DownstreamFailed(k, d)
    <3>1. /\ Fulfills(store, store', k, d) \/ WillFail(store, store', k, d) \/ HasFailed(store, store', k, d)
          /\ disk' \in {disk, store'}
      BY <2>2, FulfillsChanges, WillFailChanges, FailedChanges
    <3> QED
      BY <1>1, <3>1, OffersStarts DEF StepStarts
  <2> QED
    BY <1>8, <2>1, <2>2
<1> QED
  BY <1>4, <1>5, <1>6, <1>7, <1>8 DEF ForwardNext

LEMMA HoldStarts ==
    ASSUME TypeOK, Legal(sc, store), NEW k \in Key, HoldNext(k)
    PROVE  StepStarts({})
<1>1. Listed(store, store', {}) /\ (disk' \in {disk, store'} \/ Listed(store, disk', {}))
  BY HoldLists
<1>2. CASE RunHold(k) \/ Fund(k) \/ Spend(k)
  BY <1>1, <1>2, SameStarts DEF RunHold, Fund, Spend, StepStarts
<1>3. CASE Reveal(k)
  <2>1. Reveals(store, store', k) /\ disk' = store'
    BY <1>3, RevealChanges
  <2> QED
    BY <1>1, <2>1, SameStarts DEF Reveals, Still, StepStarts
<1>4. CASE FailSwap(k)
  <2>1. \/ Rests(store, store') /\ disk' \in {disk, store'}
        \/ /\ SwapFails(store, store', k)
           /\ disk' \in {disk, store'} \/ SwapFails(store, disk', k)
    BY <1>4, FailSwapChanges
  <2>2. \A t : SwapFails(store, t, k) /\ Listed(store, t, {}) => OnlyStarts(store, t, {})
    BY FailingStarts DEF SwapFails
  <2> QED
    BY <1>1, <2>1, <2>2, RestStarts DEF StepStarts
<1>5. CASE CancelHold(k)
  BY <1>1, <1>5, CancelChanges, RestStarts DEF StepStarts
<1> QED
  BY <1>2, <1>3, <1>4, <1>5 DEF HoldNext

(* Sets start to settle where the switch calls or settles one. *)
LEMMA NextStarts ==
    ASSUME TypeOK, CopiesAreCurrent, PlacedInv, [Next]_vars, ~ Crash
    PROVE  StepStarts({}) \/ \E k \in Key : Starts(k) /\ StepStarts({k})
<1>1. Legal(sc, store)
  BY DEF PlacedInv
<1>2. CASE \/ \E p \in Peer : StartIteration(p) \/ Disconnect(p) \/ Connect(p)
           \/ SaveDb \/ Elapse \/ Expire \/ Blocks \/ LocktimePasses \/ TipChanges
           \/ UNCHANGED vars
  <2>1. store' = store /\ disk' \in {disk, store'}
    BY <1>2 DEF StartIteration, Disconnect, Connect, SaveDb, Elapse, Expire, Blocks, LocktimePasses,
                TipChanges, vars
  <2> QED
    BY <2>1 DEF StepStarts, OnlyStarts
<1>3. ASSUME NEW h \in Htlc, Arrive(h)
      PROVE  StepStarts({})
  <2>1. Arrives(store, store', h) /\ disk' = store'
    BY <1>3, ArriveChanges
  <2>2. Listed(store, store', {})
    BY <1>3 DEF Arrive, TypeOK, Store, Listed
  <2> QED
    BY <2>1, <2>2, RestStarts DEF StepStarts
<1>4. ASSUME NEW k \in Key, SetNext(k)
      PROVE  StepStarts({}) \/ (Starts(k) /\ StepStarts({k}))
  BY <1>1, <1>4, WaitsStarts, StartsStart DEF SetNext, Starts
<1> QED
  BY <1>1, <1>2, <1>3, <1>4, FirstLoopStarts, ForwardStarts, HoldStarts DEF Next, JobNext, FirstStepNext

(* The bundle is deleted when one of its sets starts, and in a restart. *)
LEMMA NextBundle ==
    ASSUME TypeOK, [Next]_vars
    PROVE  /\ mem'.bundle \in {mem.bundle, {}}
           /\ Crash => mem'.bundle = {} /\ used'.crashes # 0
           /\ ~ Crash => used'.crashes = used.crashes
           /\ \A k \in Key : Starts(k) => mem'.bundle = IF k \in mem.bundle THEN {} ELSE mem.bundle
<1>1. /\ mem \in [tasks : SUBSET Key, callback : SUBSET Key, bundle : SUBSET Key,
                  session : SUBSET Key, batch : SUBSET Key, reasons : SUBSET (Key \X Attempt),
                  raised : SUBSET Key]
      /\ used \in [crashes : 0 .. MaxCrashes, faults : 0 .. MaxFaults]
  BY DEF TypeOK
<1>2. \A h \in Htlc : Collect(h) \/ Refuse(h) \/ RefuseRaises(h) \/ Arrive(h)
         => mem' = mem /\ used' = used
  BY DEF Collect, Refuse, RefuseRaises, Arrive
<1>3. \A k \in Key : SetWaits(k) \/ SetMoves(k) \/ SetFails(k) => mem' = mem /\ used' = used
  BY DEF SetWaits, SetMoves, SetFails
<1>4. \A k \in Key : Starts(k) =>
         mem'.bundle = (IF k \in mem.bundle THEN {} ELSE mem.bundle) /\ used' = used
  BY <1>1 DEF Starts, SetCalls, SetSettles, SettleRaises
<1>5. \A k \in Key : ForwardNext(k) => mem'.bundle = mem.bundle /\ used' = used
  <2> TAKE k \in Key
  <2>1. RunForward(k) \/ SessionSends(k) \/ SessionFails(k) \/ ForwardRaises(k)
            => mem'.bundle = mem.bundle /\ used' = used
    BY <1>1 DEF RunForward, SessionSends, SessionFails, ForwardRaises
  <2>2. \A d \in Attempt : DownstreamFulfills(k, d) \/ DownstreamFulfilled(k, d)
            => mem'.bundle = mem.bundle /\ used' = used
    BY <1>1 DEF DownstreamFulfills, DownstreamFulfilled
  <2>3. \A d \in Attempt : DownstreamFails(k, d) \/ DownstreamFailed(k, d)
            => mem'.bundle = mem.bundle /\ used' = used
    BY <1>1 DEF DownstreamFails, DownstreamFailed
  <2> QED
    BY <2>1, <2>2, <2>3 DEF ForwardNext
<1>6. \A k \in Key : HoldNext(k) => mem'.bundle \in {mem.bundle, {}} /\ used' = used
  <2> TAKE k \in Key
  <2>1. CASE RunHold(k) \/ Fund(k) \/ Spend(k) \/ Reveal(k) \/ CancelHold(k)
    BY <1>1, <2>1 DEF RunHold, Fund, Spend, Reveal, CancelHold
  <2>2. FailSwap(k) => mem'.bundle \in {mem.bundle, {}} /\ used' = used
    <3> HAVE FailSwap(k)
    <3>1. \E cb, bu : bu \in {mem.bundle, {}} /\ mem' = [mem EXCEPT !.callback = cb, !.bundle = bu]
      BY DEF FailSwap
    <3> QED
      BY <1>1, <3>1 DEF FailSwap
  <2> QED
    BY <2>1, <2>2 DEF HoldNext
<1>7. ASSUME NEW p \in Peer, StartIteration(p) \/ Disconnect(p) \/ Connect(p)
      PROVE  mem' = mem /\ used'.crashes = used.crashes
  BY <1>1, <1>7 DEF StartIteration, Disconnect, Connect, Fails
<1>8. ASSUME SaveDb \/ Elapse \/ Expire \/ Blocks \/ LocktimePasses \/ TipChanges \/ UNCHANGED vars
      PROVE  mem' = mem /\ used'.crashes = used.crashes
  BY <1>1, <1>8 DEF SaveDb, Elapse, Expire, Blocks, LocktimePasses, TipChanges, Fails, vars
<1>9. Crash => mem'.bundle = {} /\ used'.crashes # 0
  BY <1>1 DEF Crash
<1> QED
  BY <1>2, <1>3, <1>4, <1>5, <1>6, <1>7, <1>8, <1>9
     DEF Next, JobNext, FirstStepNext, SetNext, Starts

Fresh(c, s) == \A k \in c.bundle : s.sets[k].res # "settling" /\ k \notin s.paid

(* Until a set of the bundle starts, in memory and hence in the file, the   *)
(* bundle is kept as it was made; it is not kept over a restart, before     *)
(* which no HTLC that was failed is put into a set again.                   *)
BundleInv ==
    /\ used.crashes = 0 => again = {}
    /\ mem.bundle # {} => /\ mem.bundle = sc.bundle /\ used.crashes = 0
                          /\ Fresh(sc, store) /\ Fresh(sc, disk)

LEMMA AgainStays ==
    ASSUME TypeOK, PlacedInv, used.crashes = 0 => Steady, [Next]_vars, used.crashes = 0, again = {}
    PROVE  again' = {}
<1>1. \/ again' = again
      \/ \E h \in Htlc : Collect(h)
  BY AgainKept
<1>2. ASSUME NEW h \in Htlc, Collect(h)
      PROVE  again' = again
  <2>1. again' = IF store.log[h] = "added" THEN again ELSE again \cup {h}
    BY <1>2, CollectChanges DEF PlacedInv
  <2>2. store.log[h] = "added"
    BY <1>2 DEF Collect, Steady, EachInOnePlace
  <2> QED
    BY <2>1, <2>2
<1> QED
  BY <1>1, <1>2

LEMMA NextKeepsBundle ==
    ASSUME TypeOK, CopiesAreCurrent, PlacedInv, used.crashes = 0 => Steady, BundleInv, [Next]_vars
    PROVE  BundleInv'
<1>1. sc' = sc
  BY NextScenario
<1>2. used'.crashes = 0 => again' = {}
  BY NextBundle, AgainStays DEF BundleInv
<1>3. ASSUME mem'.bundle # {}
      PROVE  /\ mem'.bundle = sc'.bundle /\ used'.crashes = 0
             /\ Fresh(sc', store') /\ Fresh(sc', disk')
  <2>1. /\ ~ Crash /\ mem'.bundle = mem.bundle /\ used'.crashes = used.crashes
        /\ \A k \in Key : Starts(k) => k \notin mem.bundle
    BY <1>3, NextBundle
  <2>2. mem.bundle = sc.bundle /\ used.crashes = 0 /\ Fresh(sc, store) /\ Fresh(sc, disk)
    BY <1>3, <2>1 DEF BundleInv
  <2>3. PICK ks \in SUBSET Key : StepStarts(ks) /\ ks \cap sc.bundle = {}
    <3>1. CASE StepStarts({})
      BY <3>1
    <3>2. CASE \E k \in Key : Starts(k) /\ StepStarts({k})
      <4>1. PICK k \in Key : Starts(k) /\ StepStarts({k})
        BY <3>2
      <4>2. {k} \in SUBSET Key /\ {k} \cap sc.bundle = {}
        BY <2>1, <2>2, <4>1
      <4> QED
        BY <4>1, <4>2
    <3> QED
      BY <2>1, <3>1, <3>2, NextStarts
  <2>4. sc.bundle \subseteq Key
    BY DEF TypeOK, IsScenario
  <2>5. \A t : OnlyStarts(store, t, ks) => Fresh(sc, t)
    BY <2>2, <2>3, <2>4 DEF OnlyStarts, Fresh
  <2> QED
    BY <1>1, <2>1, <2>2, <2>3, <2>5 DEF StepStarts
<1> QED
  BY <1>2, <1>3 DEF BundleInv

(* A payment of the bundle starts when all of the bundle is complete. *)
LEMMA BundleVerdict ==
    ASSUME TypeOK, CopiesAreCurrent, Legal(sc, store), NEW k \in job.todo, k \in sc.bundle,
           Verdict(k) \in {"call", "settle"}, store.sets[k].res # "settling"
    PROVE  /\ IsBundleComplete(k, Marked(k, job.snap[k]))
           /\ Marked(k, job.snap[k]).sets[k].res = "complete"
           /\ Verdict(k) = "settle" => k \in store.info
<1>1. k \in Key /\ IsScenario(sc) /\ job.snap[k].res = store.sets[k].res
  BY CopyFacts
<1>2. sc.kind[k] = "invoice" /\ HashOf(k) = k
  BY <1>1 DEF IsScenario, HashOf
<1>3. FinalVerdict(k, job.snap[k]) \notin {"call", "settle"}
  BY <1>1 DEF FinalVerdict
<1>4. Verdict(k) = OngoingVerdict(k, job.snap[k])
  BY <1>3 DEF Verdict
<1> QED
  BY <1>2, <1>4 DEF OngoingVerdict

LEMMA BundleIsThere ==
    ASSUME TypeOK, CopiesAreCurrent, PlacedInv, Safe, NEW k \in job.todo, k \in sc.bundle,
           mem.bundle = sc.bundle, Fresh(sc, store), Verdict(k) \in {"call", "settle"}
    PROVE  \A b \in sc.bundle : Reaches(store, b) /\ (b # k => store.sets[b].res = "complete")
<1> DEFINE m == Marked(k, job.snap[k])
<1>1. Legal(sc, store) /\ sc.bundle \subseteq Key /\ store.sets[k].res # "settling"
  BY DEF PlacedInv, TypeOK, IsScenario, Fresh
<1>2. IsBundleComplete(k, m) /\ m.sets[k].res = "complete"
  BY <1>1, BundleVerdict
<1>3. store.sets[k].res = "complete" \/ Reaches(store, k)
  BY <1>1, <1>2, CompleteIs
<1>4. \A b \in Key \ {k} : m.sets[b] = store.sets[b]
  BY <1>1, MarkedIs DEF Marks, OnlySet, OnlyOf, SameOf
<1> HIDE DEF m
<1>5. \A b \in sc.bundle \ {k} : store.sets[b].res = "complete"
  BY <1>1, <1>2, <1>4 DEF IsBundleComplete, Fresh
<1>6. \A b \in Key : store.sets[b].res = "complete" => Reaches(store, b)
  BY DEF Safe, Holds, Sound, Collected, Reaches
<1> QED
  BY <1>1, <1>3, <1>5, <1>6

LEMMA StartedIs == ASSUME NEW s PROVE Started(s) = {} <=> Fresh(sc, s)
BY DEF Started, Fresh

LEMMA BundleStep ==
    ASSUME TypeOK, CopiesAreCurrent, PlacedInv, CoverInv, used.crashes = 0 => Steady, BundleInv,
           [Next]_vars, mem.bundle # {}, Started(store') # {}, NEW b \in sc.bundle
    PROVE  /\ store'.sets[b].res \in {"complete", "settling"} \/ b \in store'.paid
           /\ store.sets[b].htlcs \subseteq Pending
           /\ Enough(b, store.sets[b])
<1>1. /\ mem.bundle = sc.bundle /\ used.crashes = 0 /\ again = {}
      /\ Fresh(sc, store) /\ Fresh(sc, disk)
  BY DEF BundleInv
<1>2. Steady /\ Safe /\ Legal(sc, store) /\ sc.bundle \subseteq Key
  BY <1>1 DEF CoverInv, PlacedInv, TypeOK, IsScenario
<1>3. ~ Fresh(sc, store')
  <2>1. Started(store') = {k \in sc.bundle : store'.sets[k].res = "settling" \/ k \in store'.paid}
    BY NextScenario DEF Started
  <2> QED
    BY <2>1 DEF Fresh
<1>4. ~ Crash
  BY <1>1, <1>3 DEF Crash
<1>5. PICK k \in Key : Starts(k) /\ StepStarts({k}) /\ k \in sc.bundle
  <2>1. ~ StepStarts({})
    BY <1>1, <1>2, <1>3 DEF StepStarts, OnlyStarts, Fresh
  <2>2. \A k \in Key : StepStarts({k}) => k \in sc.bundle
    BY <1>1, <1>2, <1>3 DEF StepStarts, OnlyStarts, Fresh
  <2> QED
    BY <1>4, <2>1, <2>2, NextStarts
<1>6. k \in job.todo /\ Verdict(k) \in {"call", "settle"} /\ store.sets[k].res # "settling"
  BY <1>1, <1>5 DEF Starts, SetCalls, SetSettles, SettleRaises, Fresh
<1>7. Reaches(store, b) /\ (b # k => store.sets[b].res = "complete")
  BY <1>1, <1>2, <1>5, <1>6, BundleIsThere
<1>8. Enough(b, store.sets[b])
  BY <1>7, AmountIs DEF Enough, Reaches
<1>9. store.sets[b].htlcs \subseteq Pending
  <2>1. store.sets[b].htlcs \subseteq Htlc /\ \A h \in store.sets[b].htlcs : store.log[h] = "added"
    BY <1>2, StoreFacts DEF TypeOK, Steady, EachInOnePlace
  <2> QED
    BY <2>1 DEF Pending
<1>10. CASE SetCalls(k)
  <2>1. Calls(sc, store, store', k)
    BY <1>2, <1>10, CallsChanges
  <2> QED
    BY <1>2, <1>7, <1>8, <1>9, <2>1 DEF Calls, OnlySet, OnlyOf, SameOf
<1>11. CASE SetSettles(k)
  <2>1. SettlesTo(store', k) /\ Listed(store, store', PaidBy(k))
    BY <1>2, <1>11, SettlesChanges, SetLists DEF SetNext
  <2>2. k \in store'.paid
    <3>1. Verdict(k) = "settle" /\ HashOf(k) = k
      BY <1>2, <1>11, SettlesChanges DEF SetSettles
    <3>2. k \in store.info
      BY <1>2, <1>5, <1>6, <3>1, BundleVerdict
    <3> QED
      BY <2>1, <3>1, <3>2 DEF Listed, PaidBy
  <2>3. b # k => store'.sets[b] = store.sets[b]
    BY <1>2, <2>1 DEF SettlesTo, Settles, OnlySet, OnlyOf, SameOf
  <2> QED
    BY <1>7, <1>8, <1>9, <2>2, <2>3
<1>12. CASE SettleRaises(k)
  BY <1>2, <1>12, RaisesChanges DEF Steady, EachInOnePlace
<1> QED
  BY <1>5, <1>10, <1>11, <1>12 DEF Starts

(* The first set of a bundle that settles, or whose swap is started, finds  *)
(* all sets of the bundle complete, each with all of its amount in HTLCs    *)
(* that are neither failed nor settled (is_payment_bundle_complete,         *)
(* delete_payment_bundle), whatever the other payments, peers and the chain *)
(* do meanwhile.                                                            *)
THEOREM BundlesStartComplete == Spec => BundleStartsComplete
<1>1. Init => BundleInv
  <2> SUFFICES ASSUME Init
               PROVE  BundleInv
    OBVIOUS
  <2>1. /\ again = {} /\ used.crashes = 0 /\ mem.bundle = sc.bundle /\ disk = store
        /\ store.paid = {} /\ store.sets = [k \in Key |-> NoSet] /\ sc.bundle \subseteq Key
    BY InitTyped DEF Init, TypeOK, IsScenario
  <2>2. Fresh(sc, store)
    BY <2>1 DEF Fresh, NoSet
  <2> QED
    BY <2>1, <2>2 DEF BundleInv
<1>2. IInv /\ Inv /\ BundleInv /\ [Next]_vars => BundleInv'
  BY NextKeepsBundle, InvIsSteady DEF IInv
<1>3. IInv /\ Inv /\ BundleInv /\ [Next]_vars =>
         [mem.bundle # {} /\ Started(store) = {} /\ Started(store') # {}
            => \A k \in sc.bundle : /\ store'.sets[k].res \in {"complete", "settling"} \/ k \in store'.paid
                                    /\ store.sets[k].htlcs \subseteq Pending
                                    /\ Enough(k, store.sets[k])]_vars
  BY BundleStep, InvIsSteady DEF IInv
<1> QED
  BY <1>1, <1>2, <1>3, AlwaysSafe, AlwaysSteady, PTL DEF Spec, BundleStartsComplete
=============================================================================

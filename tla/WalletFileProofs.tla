-------------------------- MODULE WalletFileProofs --------------------------
(***************************************************************************)
(* Proofs about WalletFile: without other threads, without clear_invoices  *)
(* or clear_requests, and as long as an append leaves no half patch, the   *)
(* wallet file is a durable map, with full and with partial writes,        *)
(* whatever crashes and whichever full writes raise.                       *)
(***************************************************************************)
EXTENDS WalletFile, Recursion

(* The conditions under which the file is durable ...  *)
Orderly ==
    /\ "threads" \notin Cases
    /\ "clear" \notin Cases
    /\ TRUE \in Modes => /\ "cut" \notin Cases /\ "comma" \notin Cases
                         /\ KeepReplaced = FALSE

(* ... among them that no process writes patches. *)
WholeWrites ==
    /\ Modes \subseteq {FALSE}
    /\ "threads" \notin Cases
    /\ "clear" \notin Cases

(* The types, of a file without torn patches. *)
MemTypeOK ==
    /\ TreeTypeOK
    /\ running \in BOOLEAN
    /\ changing \in BOOLEAN
    /\ encrypted \in BOOLEAN
    /\ partial \in Modes
    /\ since \subseteq Data
    /\ file \in [sealed : BOOLEAN, base : Data, tail : Seq(Patch)] \cup {None}

(* A stored object has the key under which it is stored. *)
PlaceIsRight == \A n \in Names : slot[n] # None => place[slot[n]] = n

OnDisk == IF file = None THEN EmptyData ELSE Replay(file.base, file.tail).data

(* What is on disk was there since the last write.  _modified is set if     *)
(* memory has moved on, or is about to.                                     *)
DiskInv ==
    /\ OnDisk \in since
    /\ running => Content \in since
    /\ ~ modified => Content = OnDisk \/ ~ running
    /\ ~ modified /\ setting # None => ~ Stored(setting.obj)
    /\ setting # None => ~ changing
    /\ ~ running => Content = EmptyData /\ ~ modified /\ setting = None /\ ~ changing

(* The content once the assignment that is half done is done: its patch is  *)
(* there already.                                                           *)
Replaced(o, v) == [op |-> "replace", at |-> place[o], to |-> v]

Ahead == IF setting # None /\ Stored(setting.obj)
           THEN Patched(Content, Replaced(setting.obj, setting.to)) ELSE Content

(* From patch number `from' on, each one leads to a document in S. *)
StepsIn(base, s, from, S) ==
    \A k \in from .. Len(s) :
        LET doc == Replay(base, SubSeq(s, 1, k))
        IN  doc.ok /\ doc.data \in S

(* The patches in the file and those that are pending lead to the content,  *)
(* and on the way only to what was there since the last write.              *)
InStep ==
    LET all == file.tail \o pending
    IN  /\ Replay(file.base, all) = [ok |-> TRUE, data |-> Ahead]
        /\ StepsIn(file.base, all, Len(file.tail), since \cup {Ahead})

(* Only a process that writes partially keeps its pending patches in step:  *)
(* clear_history, or a full write that raises, may leave others behind.     *)
PatchInv ==
    /\ ~ modified => pending = << >>
    /\ file # None => Replay(file.base, file.tail).ok
    /\ file # None /\ file.sealed => file.tail = << >>
    /\ running /\ file # None /\ ~ partial => file.tail = << >>
    /\ running /\ file # None /\ partial => InStep
    /\ running /\ file # None /\ partial /\ ~ changing => encrypted = file.sealed

DurableInv == MemTypeOK /\ PlaceIsRight /\ DiskInv /\ PatchInv

-----------------------------------------------------------------------------
(*                          Lemmas on the content                          *)

(* What is dumped is a map from some of the names to values. *)
LEMMA DumpIsData ==
    ASSUME NEW s \in [Names -> Objects \cup {None}],
           NEW f \in [Objects -> Values]
    PROVE  [n \in {m \in Names : s[m] # None} |-> f[s[n]]] \in Data
<1> DEFINE D == {m \in Names : s[m] # None}
           c == [n \in D |-> f[s[n]]]
<1>1. c \in [D -> Values]
  BY NoneIsNone
<1>2. D \in SUBSET Names
  OBVIOUS
<1> QED
  BY <1>1, <1>2 DEF Data

LEMMA ContentIsData ==
    ASSUME MemTypeOK PROVE Content \in Data
BY DumpIsData DEF Content, MemTypeOK, TreeTypeOK

LEMMA ContentIsDataNext ==
    ASSUME MemTypeOK' PROVE Content' \in Data
BY DumpIsData DEF Content, MemTypeOK, TreeTypeOK

LEMMA EmptyIsData == EmptyData \in Data
<1>1. EmptyData \in [{} -> Values]
  BY DEF EmptyData
<1>2. {} \in SUBSET Names
  OBVIOUS
<1> QED
  BY <1>1, <1>2 DEF Data

(* The content depends only on the fields of objects that are stored. *)
LEMMA SameContent ==
    ASSUME slot' = slot,
           \A n \in Names : slot[n] # None => field'[slot[n]] = field[slot[n]]
    PROVE  Content' = Content
BY DEF Content

(* A dictionary that is read back has the content that was read, and each   *)
(* of its objects the right key.                                            *)
LEMMA AttachIsRight ==
    ASSUME NEW data \in Data, Attach(data)
    PROVE  /\ Content' = data
           /\ slot' \in [Names -> Objects \cup {None}]
           /\ place' \in [Objects -> Names \cup {None}]
           /\ field' \in [Objects -> Values]
           /\ PlaceIsRight'
           /\ setting' = None
<1> DEFINE f == CHOOSE g \in [DOMAIN data -> Objects] : IsInjective(g)
           Holds(n, o) == n \in DOMAIN data /\ f[n] = o
<1>1. PICK D \in SUBSET Names : data \in [D -> Values]
  BY DEF Data
<1>2. DOMAIN data = D
  BY <1>1
<1>3. f \in [D -> Objects] /\ IsInjective(f)
  BY <1>2, RoomForAll
<1>4. \A n \in D, m \in D : f[n] = f[m] => n = m
  BY <1>3 DEF IsInjective
<1> HIDE DEF f
<1>5. slot' = [n \in Names |-> IF n \in DOMAIN data THEN f[n] ELSE None]
  BY DEF Attach, f
<1>6. place' = [o \in Objects |->
                  IF \E n \in Names : Holds(n, o)
                    THEN CHOOSE n \in Names : Holds(n, o) ELSE None]
  BY DEF Attach, f
<1>7. field' = [o \in Objects |->
                  IF \E n \in Names : Holds(n, o)
                    THEN data[CHOOSE n \in Names : Holds(n, o)]
                    ELSE CHOOSE v \in Values : TRUE]
  BY DEF Attach, f
<1>8. ASSUME NEW n \in D
      PROVE  (CHOOSE m \in Names : Holds(m, f[n])) = n /\ f[n] \in Objects
  <2>1. Holds(n, f[n]) /\ n \in Names
    BY <1>2
  <2>2. \A m \in Names : Holds(m, f[n]) => m = n
    BY <1>2, <1>4
  <2> QED
    BY <2>1, <2>2, <1>3
<1>9. \A n \in D : field'[f[n]] = data[n] /\ place'[f[n]] = n
  <2> SUFFICES ASSUME NEW n \in D
               PROVE  field'[f[n]] = data[n] /\ place'[f[n]] = n
    OBVIOUS
  <2>1. Holds(n, f[n]) /\ n \in Names
    BY <1>2
  <2> QED
    BY <2>1, <1>6, <1>7, <1>8
<1>10. {n \in Names : slot'[n] # None} = D
  BY <1>2, <1>3, <1>5, NoneIsNone
<1>11. \A n \in D : slot'[n] = f[n]
  BY <1>2, <1>5
<1>12. Content' = data
  <2>1. Content' = [n \in D |-> field'[slot'[n]]]
    BY <1>10 DEF Content
  <2>2. data = [n \in D |-> data[n]]
    BY <1>1
  <2> QED
    BY <2>1, <2>2, <1>9, <1>11
<1>13. PlaceIsRight'
  BY <1>9, <1>10, <1>11 DEF PlaceIsRight
<1>14. slot' \in [Names -> Objects \cup {None}]
  BY <1>2, <1>3, <1>5
<1>15. place' \in [Objects -> Names \cup {None}]
  BY <1>6
<1>16. setting' = None
  BY DEF Attach
<1>17. field' \in [Objects -> Values]
  <2> SUFFICES ASSUME NEW o \in Objects
               PROVE  field'[o] \in Values
    BY <1>7
  <2>1. CASE \E n \in Names : Holds(n, o)
    <3> DEFINE m == CHOOSE n \in Names : Holds(n, o)
    <3>1. m \in D
      BY <2>1, <1>2
    <3>2. field'[o] = data[m]
      BY <2>1, <1>7
    <3> QED
      BY <3>1, <3>2, <1>1
  <2>2. CASE ~ \E n \in Names : Holds(n, o)
    BY <2>2, <1>7, SomeValue
  <2> QED
    BY <2>1, <2>2
<1> QED
  BY <1>12, <1>13, <1>14, <1>15, <1>16, <1>17

-----------------------------------------------------------------------------
(*                            Replayed patches                             *)

(* Documents, whatever their patches put there. *)
Docs == [ok : BOOLEAN, data : UNION {[D -> Values \cup {None}] : D \in SUBSET Names}]

Whole(data) == [ok |-> TRUE, data |-> data]

(* g gives, for each set of places in s, the document after the patches at  *)
(* these places.                                                            *)
IsReplay(g, data, s) ==
    \A S \in SUBSET DOMAIN s :
        g[S] = IF S = {} THEN Whole(data)
                         ELSE ApplyPatch(g[S \ {Max(S)}], s[Max(S)])

(* The recursive function in the definition of FoldLeft. *)
ReplayEquation(g, data, s) ==
    g = [S \in SUBSET DOMAIN s |->
            IF S = {} THEN [ok |-> TRUE, data |-> data]
            ELSE LET i == Max(S) IN ApplyPatch(g[S \ {i}], s[i])]

LEMMA ReplayIsChosen ==
    ASSUME NEW data, NEW s
    PROVE  Replay(data, s) = (CHOOSE g : ReplayEquation(g, data, s))[DOMAIN s]
BY DEF Replay, FoldLeft, MapThenFoldSet, ReplayEquation

LEMMA PatchedDoc ==
    ASSUME NEW doc \in Docs, NEW p \in Patch
    PROVE  ApplyPatch(doc, p) \in Docs
<1> DEFINE Put == Values \cup {None}
           AnyData == UNION {[D -> Put] : D \in SUBSET Names}
<1>1. doc.ok \in BOOLEAN /\ doc.data \in AnyData
  BY DEF Docs
<1>2. PICK D \in SUBSET Names : doc.data \in [D -> Put]
  BY <1>1
<1>3. p.at \in Names /\ p.to \in Put
  BY DEF Patch
<1>4. Patched(doc.data, p) \in AnyData
  <2>1. CASE p.op = "remove"
    <3>1. Patched(doc.data, p) = [n \in D \ {p.at} |-> doc.data[n]]
      BY <1>2, <2>1 DEF Patched, Restrict
    <3>2. Patched(doc.data, p) \in [D \ {p.at} -> Put] /\ D \ {p.at} \in SUBSET Names
      BY <1>2, <3>1
    <3> QED
      BY <3>2
  <2>2. CASE p.op # "remove"
    <3>1. Patched(doc.data, p) = [n \in {p.at} \cup D |-> IF n = p.at THEN p.to ELSE doc.data[n]]
      BY <1>2, <2>2 DEF Patched
    <3>2. Patched(doc.data, p) \in [{p.at} \cup D -> Put] /\ {p.at} \cup D \in SUBSET Names
      BY <1>2, <1>3, <3>1
    <3> QED
      BY <3>2
  <2> QED
    BY <2>1, <2>2
<1>5. (doc.ok /\ Applicable(doc.data, p)) \in BOOLEAN
  OBVIOUS
<1> QED
  BY <1>4, <1>5 DEF ApplyPatch, Docs

LEMMA ReplayExists ==
    ASSUME NEW data, Whole(data) \in Docs, NEW s \in Seq(Patch)
    PROVE  \E g : ReplayEquation(g, data, s)
<1> DEFINE D == [i \in DOMAIN s |-> [d \in Docs |-> ApplyPatch(d, s[i])]]
           c == [S \in SUBSET DOMAIN s |-> Max(S)]
<1>1. \A i \in DOMAIN s : s[i] \in Patch
  OBVIOUS
<1>2. \A i \in DOMAIN s : \A d \in Docs : D[i][d] = ApplyPatch(d, s[i]) /\ D[i][d] \in Docs
  BY <1>1, PatchedDoc
<1>3. IsFiniteSet(DOMAIN s) /\ DOMAIN s \in SUBSET Nat
  <2>1. DOMAIN s = 1 .. Len(s) /\ Len(s) \in Nat
    OBVIOUS
  <2> QED
    BY <2>1, FS_Interval
<1>4. \A S \in SUBSET DOMAIN s : c[S] = Max(S) /\ (S # {} => c[S] \in S)
  <2> SUFFICES ASSUME NEW S \in SUBSET DOMAIN s, S # {}
               PROVE  Max(S) \in S
    OBVIOUS
  <2>1. IsFiniteSet(S) /\ S \in SUBSET Nat
    BY <1>3, FS_Subset
  <2> QED
    BY <2>1, LargestOf
<1> HIDE DEF D, c
<1>5. PICK g : IsSubsetwise(g, DOMAIN s, Docs, Whole(data), D, c)
  BY <1>2, <1>3, <1>4, SubsetFunction
<1>6. g \in [SUBSET DOMAIN s -> Docs]
  BY <1>5 DEF IsSubsetwise
<1> DEFINE step(S) == IF S = {} THEN Whole(data) ELSE ApplyPatch(g[S \ {Max(S)}], s[Max(S)])
<1>7. ASSUME NEW S \in SUBSET DOMAIN s
      PROVE  g[S] = step(S)
  <2>1. CASE S = {}
    BY <1>5, <2>1 DEF IsSubsetwise
  <2>2. CASE S # {}
    <3>1. Max(S) \in DOMAIN s /\ S \ {Max(S)} \in SUBSET DOMAIN s
      BY <1>4, <2>2
    <3>2. g[S] = D[c[S]][g[S \ {c[S]}]]
      BY <1>5, <2>2 DEF IsSubsetwise
    <3>3. g[S \ {Max(S)}] \in Docs
      BY <1>6, <3>1
    <3> QED
      BY <1>2, <1>4, <2>2, <3>1, <3>2, <3>3
  <2> QED
    BY <2>1, <2>2
<1>8. g = [S \in SUBSET DOMAIN s |-> step(S)]
  <2> HIDE DEF step
  <2> QED
    BY <1>6, <1>7
<1>9. ReplayEquation(g, data, s)
  BY <1>8 DEF ReplayEquation, Whole
<1> QED
  BY <1>9

(* What Replay returns, by a function that is built patch by patch. *)
LEMMA ReplayByParts ==
    ASSUME NEW data, Whole(data) \in Docs, NEW s \in Seq(Patch)
    PROVE  \E g : IsReplay(g, data, s) /\ Replay(data, s) = g[DOMAIN s]
<1> DEFINE g == CHOOSE h : ReplayEquation(h, data, s)
<1>1. ReplayEquation(g, data, s)
  BY ReplayExists
<1>2. Replay(data, s) = g[DOMAIN s]
  BY ReplayIsChosen
<1>3. IsReplay(g, data, s)
  <2> HIDE DEF g
  <2> QED
    BY <1>1 DEF ReplayEquation, IsReplay, Whole
<1> QED
  BY <1>2, <1>3

LEMMA ReplayNothing ==
    ASSUME NEW data, Whole(data) \in Docs
    PROVE  Replay(data, << >>) = Whole(data)
<1>1. << >> \in Seq(Patch) /\ DOMAIN << >> = {}
  OBVIOUS
<1>2. PICK g : IsReplay(g, data, << >>) /\ Replay(data, << >>) = g[DOMAIN << >>]
  BY <1>1, ReplayByParts
<1> QED
  BY <1>1, <1>2 DEF IsReplay

(* Two sequences of patches lead to the same document as far as they agree. *)
LEMMA ReplayAgrees ==
    ASSUME NEW data, NEW s, NEW t, NEW n \in Nat,
           1 .. n \subseteq DOMAIN s, 1 .. n \subseteq DOMAIN t,
           \A i \in 1 .. n : s[i] = t[i],
           NEW g, IsReplay(g, data, s), NEW h, IsReplay(h, data, t)
    PROVE  g[1 .. n] = h[1 .. n]
<1> DEFINE I == 1 .. n
           A == {S \in SUBSET I : g[S] = h[S]}
<1>1. {} \in A
  BY DEF IsReplay
<1>2. IsFiniteSet(I) /\ I \in SUBSET Nat
  BY FS_Interval
<1>3. ASSUME NEW S \in SUBSET I, S # {}
      PROVE  \E x \in S : S \ {x} \in A => S \in A
  <2>1. IsFiniteSet(S) /\ S \in SUBSET Nat
    BY <1>2, FS_Subset
  <2>2. Max(S) \in S
    BY <1>3, <2>1, LargestOf
  <2>3. g[S] = ApplyPatch(g[S \ {Max(S)}], s[Max(S)])
    BY <1>3 DEF IsReplay
  <2>4. h[S] = ApplyPatch(h[S \ {Max(S)}], t[Max(S)])
    BY <1>3 DEF IsReplay
  <2>5. s[Max(S)] = t[Max(S)]
    BY <2>2
  <2> QED
    BY <2>2, <2>3, <2>4, <2>5
<1>4. SUBSET I \subseteq A
  <2> HIDE DEF A
  <2> QED
    <3>1. \A S \in SUBSET I : S # {} => \E x \in S : S \ {x} \in A => S \in A
      BY <1>3
    <3> HIDE DEF I
    <3> QED
      BY <1>1, <1>2, <3>1, SubsetInduction
<1> QED
  BY <1>4

(* One more patch is applied to what the others have led to. *)
LEMMA ReplayAppend ==
    ASSUME NEW data, Whole(data) \in Docs, NEW s \in Seq(Patch), NEW p \in Patch
    PROVE  Replay(data, Append(s, p)) = ApplyPatch(Replay(data, s), p)
<1> DEFINE t == Append(s, p)
           n == Len(s)
<1>1. /\ t \in Seq(Patch) /\ n \in Nat
      /\ DOMAIN s = 1 .. n /\ DOMAIN t = 1 .. n + 1
      /\ t[n + 1] = p
  OBVIOUS
<1>2. \A i \in 1 .. n : s[i] = t[i]
  OBVIOUS
<1> HIDE DEF t, n
<1>3. PICK g : IsReplay(g, data, s) /\ Replay(data, s) = g[DOMAIN s]
  BY ReplayByParts
<1>4. PICK h : IsReplay(h, data, t) /\ Replay(data, t) = h[DOMAIN t]
  BY <1>1, ReplayByParts
<1>5. g[1 .. n] = h[1 .. n]
  BY <1>1, <1>2, <1>3, <1>4, ReplayAgrees
<1>6. Max(1 .. n + 1) = n + 1
  <2> DEFINE I == 1 .. n + 1
  <2>1. IsFiniteSet(I) /\ I \in SUBSET Nat /\ n + 1 \in I
    BY <1>1, FS_Interval
  <2>2. Max(I) \in I /\ n + 1 <= Max(I)
    <3> HIDE DEF I
    <3> QED
      BY <2>1, LargestOf
  <2> QED
    BY <1>1, <2>2
<1>7. (1 .. n + 1) \ {n + 1} = 1 .. n /\ 1 .. n + 1 # {}
  <2>1. n + 1 \in 1 .. n + 1 /\ n + 1 \notin 1 .. n
    BY <1>1
  <2>2. \A i : i \in 1 .. n + 1 <=> i \in 1 .. n \/ i = n + 1
    BY <1>1
  <2> QED
    BY Zenon, <2>1, <2>2
<1>8. h[1 .. n + 1] = ApplyPatch(h[1 .. n], p)
  BY <1>1, <1>4, <1>6, <1>7 DEF IsReplay
<1> QED
  BY <1>1, <1>3, <1>4, <1>5, <1>8 DEF t

-----------------------------------------------------------------------------
(*                         Changes of the memory                           *)

(* A change of an object that is not stored cannot be seen, and one of an   *)
(* object that is stored sets _modified.                                    *)
LEMMA ChangeIsNoticed ==
    ASSUME TreeTypeOK, PlaceIsRight,
           NEW o \in Objects, NEW v \in Values,
           LogChange(o, v)
    PROVE  /\ modified' \in BOOLEAN /\ pending' \in Seq(Patch)
           /\ modified => modified'
           /\ Stored(o) => modified'
           /\ ~ modified' => pending' = pending
<1>1. Stored(o) => place[o] # None
  BY NoneIsNone DEF Stored, PlaceIsRight, TreeTypeOK
<1>2. place[o] # None => Replaced(o, v) \in Patch
  BY DEF Replaced, Patch, TreeTypeOK
<1>3. CASE place[o] # None
  <2>1. pending' = Append(pending, Replaced(o, v)) /\ modified' = TRUE
    BY <1>3 DEF LogChange, AddPatch, Replaced
  <2> QED
    BY <1>2, <1>3, <2>1 DEF TreeTypeOK
<1>4. CASE place[o] = None
  BY <1>1, <1>4 DEF LogChange, TreeTypeOK
<1> QED
  BY <1>3, <1>4

LEMMA UnseenChange ==
    ASSUME TreeTypeOK,
           NEW o \in Objects, NEW v \in Values, ~ Stored(o),
           slot' = slot, field' = [field EXCEPT ![o] = v]
    PROVE  Content' = Content
<1>1. \A n \in Names : slot[n] # None => field'[slot[n]] = field[slot[n]]
  BY DEF Stored, TreeTypeOK
<1> QED
  BY <1>1, SameContent

(* The patch of an object that is stored can be applied. *)
LEMMA StoredPatch ==
    ASSUME TreeTypeOK, PlaceIsRight,
           NEW o \in Objects, NEW v \in Values, Stored(o)
    PROVE  /\ place[o] \in DOMAIN Content /\ place[o] \in Names
           /\ \A m \in Names : slot[m] = o <=> m = place[o]
           /\ Replaced(o, v) \in Patch
           /\ Applicable(Content, Replaced(o, v))
<1>1. PICK n \in Names : slot[n] = o
  BY DEF Stored
<1>2. place[o] = n /\ o # None
  BY <1>1, NoneIsNone DEF PlaceIsRight
<1>3. \A m \in Names : slot[m] = o => m = n
  BY <1>2 DEF PlaceIsRight
<1>4. n \in DOMAIN Content
  BY <1>1, <1>2 DEF Content
<1> QED
  BY <1>1, <1>2, <1>3, <1>4 DEF Replaced, Patch, Applicable

(* A change of it is what the patch says. *)
LEMMA SeenChange ==
    ASSUME TreeTypeOK, PlaceIsRight,
           NEW o \in Objects, NEW v \in Values, Stored(o),
           slot' = slot, field' = [field EXCEPT ![o] = v]
    PROVE  Content' = Patched(Content, Replaced(o, v))
<1> DEFINE D == {m \in Names : slot[m] # None}
           at == place[o]
           p == Replaced(o, v)
<1>1. Content = [m \in D |-> field[slot[m]]] /\ Content' = [m \in D |-> field'[slot[m]]]
  BY DEF Content
<1>2. at \in D /\ \A m \in D : slot[m] = o <=> m = at
  BY <1>1, StoredPatch
<1>3. \A m \in D : slot[m] \in Objects
  BY DEF TreeTypeOK
<1>4. \A m \in D : field'[slot[m]] = IF m = at THEN v ELSE field[slot[m]]
  BY <1>2, <1>3 DEF TreeTypeOK
<1>5. p.op # "remove" /\ p.at = at /\ p.to = v
  BY DEF Replaced
<1> HIDE DEF D, at, p
<1>6. Patched(Content, p) = [m \in {p.at} \cup DOMAIN Content |->
                               IF m = p.at THEN p.to ELSE Content[m]]
  BY <1>5 DEF Patched
<1>7. Patched(Content, p) = [m \in {at} \cup D |-> IF m = at THEN v ELSE Content[m]]
  BY <1>1, <1>5, <1>6
<1>8. {at} \cup D = D
  BY <1>2
<1>9. \A m \in D : Content'[m] = IF m = at THEN v ELSE Content[m]
  BY <1>1, <1>4
<1>10. Content' = Patched(Content, p)
  BY <1>1, <1>7, <1>8, <1>9
<1> QED
  BY <1>10 DEF p

(* A dictionary that gains or loses an entry keeps its keys right, and the  *)
(* patch says what has changed.                                             *)
ItemPatch(n, v) == [op |-> IF slot[n] = None THEN "add" ELSE "replace", at |-> n, to |-> v]

LEMMA SetItemStep ==
    ASSUME TreeTypeOK, PlaceIsRight,
           NEW n \in Names, NEW o \in Objects, NEW v \in Values, SetItem(n, o, v)
    PROVE  /\ TreeTypeOK' /\ PlaceIsRight'
           /\ modified' = TRUE /\ setting' = setting
           /\ ItemPatch(n, v) \in Patch
           /\ pending' = Append(pending, ItemPatch(n, v))
           /\ Applicable(Content, ItemPatch(n, v))
           /\ Content' = Patched(Content, ItemPatch(n, v))
<1> DEFINE D == {m \in Names : slot[m] # None}
           p == ItemPatch(n, v)
<1>1. /\ slot' = [slot EXCEPT ![n] = o] /\ place' = [place EXCEPT ![o] = n]
      /\ field' = [field EXCEPT ![o] = v] /\ ~ Stored(o)
      /\ modified' = TRUE /\ setting' = setting
      /\ pending' = Append(pending, p)
  BY DEF SetItem, AddPatch, ItemPatch
<1>2. PlaceIsRight'
  BY <1>1, NoneIsNone DEF PlaceIsRight, Stored, TreeTypeOK
<1>3. p \in Patch /\ p.op # "remove" /\ p.at = n /\ p.to = v /\ (p.op = "add" \/ n \in D)
  BY DEF ItemPatch, Patch
<1>4. TreeTypeOK'
  <2> HIDE DEF p
  <2> QED
    BY <1>1, <1>3 DEF TreeTypeOK
<1>5. Content = [m \in D |-> field[slot[m]]]
  BY DEF Content
<1>6. {m \in Names : slot'[m] # None} = {n} \cup D
  BY <1>1, NoneIsNone DEF TreeTypeOK
<1>7. Content' = [m \in {n} \cup D |-> field'[slot'[m]]]
  BY <1>6 DEF Content
<1>8. \A m \in {n} \cup D : field'[slot'[m]] = IF m = n THEN v ELSE field[slot[m]]
  BY <1>1 DEF Stored, TreeTypeOK
<1> HIDE DEF D, p
<1>9. Content' = Patched(Content, p)
  <2>1. Patched(Content, p) = [m \in {n} \cup D |-> IF m = n THEN v ELSE Content[m]]
    <3>1. Patched(Content, p) = [m \in {p.at} \cup DOMAIN Content |->
                                   IF m = p.at THEN p.to ELSE Content[m]]
      BY <1>3 DEF Patched
    <3> QED
      BY <1>3, <1>5, <3>1
  <2>2. \A m \in {n} \cup D : field'[slot'[m]] = IF m = n THEN v ELSE Content[m]
    BY <1>5, <1>8
  <2> QED
    BY <1>7, <2>1, <2>2
<1>10. Applicable(Content, p)
  BY <1>3, <1>5 DEF Applicable
<1> QED
  BY <1>1, <1>2, <1>3, <1>4, <1>9, <1>10 DEF p

Removal(n) == [op |-> "remove", at |-> n, to |-> None]

LEMMA DelItemStep ==
    ASSUME TreeTypeOK, PlaceIsRight, NEW n \in Names, DelItem(n)
    PROVE  /\ TreeTypeOK' /\ PlaceIsRight'
           /\ modified' = TRUE /\ setting' = setting
           /\ Removal(n) \in Patch
           /\ pending' = Append(pending, Removal(n))
           /\ Applicable(Content, Removal(n))
           /\ Content' = Patched(Content, Removal(n))
<1> DEFINE D == {m \in Names : slot[m] # None}
           p == Removal(n)
<1>1. /\ slot[n] # None /\ slot' = [slot EXCEPT ![n] = None]
      /\ place' = [place EXCEPT ![slot[n]] = None]
      /\ field' = field /\ modified' = TRUE /\ setting' = setting
      /\ pending' = Append(pending, p)
  BY DEF DelItem, AddPatch, Removal
<1>2. PlaceIsRight'
  <2> SUFFICES ASSUME NEW m \in Names, slot'[m] # None
               PROVE  place'[slot'[m]] = m
    BY DEF PlaceIsRight
  <2>1. m # n /\ slot'[m] = slot[m] /\ slot[m] # None
    BY <1>1 DEF TreeTypeOK
  <2>2. place[slot[m]] = m /\ place[slot[n]] = n
    BY <2>1, <1>1 DEF PlaceIsRight
  <2> QED
    BY <2>1, <2>2, <1>1 DEF TreeTypeOK
<1>3. p \in Patch /\ p.op = "remove" /\ p.at = n /\ n \in D
  BY <1>1 DEF Removal, Patch
<1>4. TreeTypeOK'
  <2> HIDE DEF p
  <2> QED
    BY <1>1, <1>3, NoneIsNone DEF TreeTypeOK
<1>5. Content = [m \in D |-> field[slot[m]]]
  BY DEF Content
<1>6. {m \in Names : slot'[m] # None} = D \ {n}
  BY <1>1 DEF TreeTypeOK
<1>7. Content' = [m \in D \ {n} |-> field'[slot'[m]]]
  BY <1>6 DEF Content
<1>8. \A m \in D \ {n} : field'[slot'[m]] = field[slot[m]]
  BY <1>1 DEF TreeTypeOK
<1> HIDE DEF D, p
<1>9. Content' = Patched(Content, p)
  <2>1. Patched(Content, p) = [m \in D \ {n} |-> Content[m]]
    BY <1>3, <1>5 DEF Patched, Restrict
  <2>2. \A m \in D \ {n} : field'[slot'[m]] = Content[m]
    BY <1>5, <1>8
  <2> QED
    BY <1>7, <2>1, <2>2
<1>10. Applicable(Content, p)
  BY <1>3, <1>5 DEF Applicable
<1> QED
  BY <1>1, <1>2, <1>3, <1>4, <1>9, <1>10 DEF p

-----------------------------------------------------------------------------
(*                  The patches keep up with the memory                    *)

LEMMA WholeIsDoc ==
    ASSUME NEW data \in Data PROVE Whole(data) \in Docs
<1>1. PICK D \in SUBSET Names : data \in [D -> Values]
  BY DEF Data
<1>2. data \in [D -> Values \cup {None}]
  BY <1>1
<1> QED
  BY <1>2 DEF Whole, Docs

(* One more patch, and what it leads to. *)
LEMMA StepsGrow ==
    ASSUME NEW base \in Data, NEW s \in Seq(Patch), NEW p \in Patch,
           NEW from \in Nat, NEW S, NEW T, S \subseteq T,
           StepsIn(base, s, from, S),
           NEW here, here \in T, Replay(base, Append(s, p)) = Whole(here)
    PROVE  StepsIn(base, Append(s, p), from, T)
<1> DEFINE t == Append(s, p)
<1>1. t \in Seq(Patch) /\ Len(t) = Len(s) + 1 /\ Len(s) \in Nat
  OBVIOUS
<1>2. SubSeq(t, 1, Len(t)) = t
  OBVIOUS
<1>3. \A k \in 0 .. Len(s) : SubSeq(t, 1, k) = SubSeq(s, 1, k)
  OBVIOUS
<1>4. Replay(base, t) = Whole(here)
  OBVIOUS
<1> HIDE DEF t
<1>5. ASSUME NEW k \in from .. Len(t)
      PROVE  Replay(base, SubSeq(t, 1, k)).ok /\ Replay(base, SubSeq(t, 1, k)).data \in T
  <2>1. CASE k = Len(t)
    <3>1. SubSeq(t, 1, k) = t
      BY <1>2, <2>1
    <3>2. Replay(base, SubSeq(t, 1, k)) = Whole(here)
      BY <1>4, <3>1
    <3> QED
      BY <3>2 DEF Whole
  <2>2. CASE k # Len(t)
    <3>1. k \in from .. Len(s) /\ k \in 0 .. Len(s)
      BY <1>1, <2>2
    <3>2. Replay(base, SubSeq(s, 1, k)).ok /\ Replay(base, SubSeq(s, 1, k)).data \in S
      BY <3>1 DEF StepsIn
    <3> QED
      BY <1>3, <3>1, <3>2
  <2> QED
    BY <2>1, <2>2
<1> QED
  BY <1>5 DEF StepsIn, t

LEMMA StepsWiden ==
    ASSUME NEW base, NEW s, NEW from, NEW S, NEW T, S \subseteq T,
           StepsIn(base, s, from, S)
    PROVE  StepsIn(base, s, from, T)
BY DEF StepsIn

(* Where there is but one step to look at. *)
LEMMA LastStep ==
    ASSUME NEW base, NEW s \in Seq(Patch), NEW here, NEW S, here \in S,
           Replay(base, s) = Whole(here)
    PROVE  StepsIn(base, s, Len(s), S)
<1>1. PICK n \in Nat : n = Len(s)
  OBVIOUS
<1>2. SubSeq(s, 1, n) = s
  BY <1>1
<1>3. \A k \in n .. n : k = n
  OBVIOUS
<1>4. Replay(base, SubSeq(s, 1, n)) = Whole(here)
  BY <1>2
<1>5. Replay(base, SubSeq(s, 1, n)).ok /\ Replay(base, SubSeq(s, 1, n)).data \in S
  BY <1>4 DEF Whole
<1> QED
  BY <1>1, <1>3, <1>5 DEF StepsIn

(* A file is not None. *)
LEMMA PlainFileIsFile ==
    ASSUME NEW f \in [sealed : BOOLEAN, base : Data, tail : Seq(Patch)]
    PROVE  f # None
<1>1. f.tail \in Seq(Patch \cup Torn)
  OBVIOUS
<1>2. f \in Files
  BY <1>1 DEF Files
<1> QED
  BY <1>2, NoneIsNoFile

(* The file of an open wallet, for the sequences it holds. *)
LEMMA AllPatches ==
    ASSUME MemTypeOK, file # None
    PROVE  /\ file.base \in Data /\ file.tail \in Seq(Patch) /\ pending \in Seq(Patch)
           /\ file.tail \o pending \in Seq(Patch)
           /\ Len(file.tail \o pending) = Len(file.tail) + Len(pending)
           /\ Len(file.tail) \in Nat /\ Len(pending) \in Nat
BY DEF MemTypeOK, TreeTypeOK

LEMMA AppendBehind ==
    ASSUME NEW s \in Seq(Patch), NEW t \in Seq(Patch), NEW p \in Patch
    PROVE  s \o Append(t, p) = Append(s \o t, p)
<1>1. /\ Len(s \o Append(t, p)) = Len(s) + Len(t) + 1
      /\ Len(Append(s \o t, p)) = Len(s) + Len(t) + 1
      /\ Len(s) \in Nat /\ Len(t) \in Nat
  OBVIOUS
<1>2. s \o Append(t, p) \in Seq(Patch) /\ Append(s \o t, p) \in Seq(Patch)
  OBVIOUS
<1>3. ASSUME NEW i \in 1 .. Len(s) + Len(t) + 1
      PROVE  (s \o Append(t, p))[i] = Append(s \o t, p)[i]
  OBVIOUS
<1> QED
  BY <1>1, <1>2, <1>3

(* A change that is recorded ...  *)
LEMMA InStepRecorded ==
    ASSUME MemTypeOK, file # None, InStep, setting = None, Content \in since,
           file' = file, since \subseteq since',
           NEW p \in Patch, pending' = Append(pending, p),
           Applicable(Content, p), Ahead' = Patched(Content, p)
    PROVE  InStep'
<1> DEFINE all == file.tail \o pending
           Soon == since' \cup {Ahead'}
<1>1. /\ file.base \in Data /\ file.tail \in Seq(Patch) /\ pending \in Seq(Patch)
      /\ all \in Seq(Patch) /\ Len(file.tail) \in Nat
  BY AllPatches
<1>2. (file.tail \o pending)' = Append(all, p)
  BY <1>1, AppendBehind
<1>3. Ahead = Content
  BY DEF Ahead
<1>4. Replay(file.base, all) = Whole(Content)
  BY <1>3 DEF InStep, Whole
<1>5. StepsIn(file.base, all, Len(file.tail), since \cup {Content})
  BY <1>3 DEF InStep
<1>6. Whole(file.base) \in Docs
  BY <1>1, WholeIsDoc
<1> HIDE DEF all
<1>7. Replay(file.base, Append(all, p)) = Whole(Ahead')
  <2>1. Replay(file.base, Append(all, p)) = ApplyPatch(Whole(Content), p)
    BY <1>1, <1>4, <1>6, ReplayAppend
  <2> QED
    BY <2>1 DEF ApplyPatch, Whole
<1>8. StepsIn(file.base, Append(all, p), Len(file.tail), Soon)
  <2>1. since \cup {Content} \subseteq Soon /\ Ahead' \in Soon
    OBVIOUS
  <2> HIDE DEF Soon
  <2> QED
    BY <1>1, <1>5, <1>7, <2>1, StepsGrow
<1> QED
  BY <1>2, <1>7, <1>8 DEF InStep, Whole

(* ... and one that changes nothing of what is recorded. *)
LEMMA InStepKept ==
    ASSUME InStep, file' = file, pending' = pending, Ahead' = Ahead,
           since \subseteq since'
    PROVE  InStep'
<1>1. since \cup {Ahead} \subseteq since' \cup {Ahead'}
  OBVIOUS
<1>2. StepsIn(file.base, file.tail \o pending, Len(file.tail), since \cup {Ahead})
  BY DEF InStep
<1>3. StepsIn(file.base, file.tail \o pending, Len(file.tail), since' \cup {Ahead'})
  BY <1>1, <1>2, StepsWiden
<1> QED
  BY <1>3 DEF InStep

(* The file is as the content, and nothing is pending. *)
LEMMA InStepAtRest ==
    ASSUME MemTypeOK', file' # None, pending' = << >>, setting' = None,
           Content' \in since', Replay(file'.base, file'.tail) = Whole(Content')
    PROVE  InStep'
<1>1. file'.tail \in Seq(Patch)
  BY DEF MemTypeOK
<1>2. (file.tail \o pending)' = file'.tail
  BY <1>1
<1>3. Ahead' = Content'
  BY DEF Ahead
<1>4. StepsIn(file'.base, file'.tail, Len(file'.tail), since' \cup {Ahead'})
  BY <1>1, <1>3, LastStep
<1> QED
  BY <1>2, <1>3, <1>4 DEF InStep, Whole

-----------------------------------------------------------------------------
(*                       Patches after patches                             *)

LEMMA ReplayIsDoc ==
    ASSUME NEW data, Whole(data) \in Docs, NEW s \in Seq(Patch)
    PROVE  Replay(data, s) \in Docs
<1>1. PICK g : IsReplay(g, data, s) /\ Replay(data, s) = g[DOMAIN s]
  BY ReplayByParts
<1> DEFINE I == DOMAIN s
           A == {S \in SUBSET I : g[S] \in Docs}
<1>2. IsFiniteSet(I) /\ I \in SUBSET Nat
  <2>1. I = 1 .. Len(s) /\ Len(s) \in Nat
    OBVIOUS
  <2> QED
    BY <2>1, FS_Interval
<1>3. \A i \in I : s[i] \in Patch
  OBVIOUS
<1>4. {} \in A
  BY <1>1 DEF IsReplay
<1>5. ASSUME NEW S \in SUBSET I, S # {}
      PROVE  \E x \in S : S \ {x} \in A => S \in A
  <2>1. IsFiniteSet(S) /\ S \in SUBSET Nat
    BY <1>2, FS_Subset
  <2>2. Max(S) \in S
    BY <1>5, <2>1, LargestOf
  <2>3. g[S] = ApplyPatch(g[S \ {Max(S)}], s[Max(S)])
    BY <1>1, <1>5 DEF IsReplay
  <2>4. s[Max(S)] \in Patch
    BY <1>3, <2>2
  <2>5. g[S \ {Max(S)}] \in Docs => g[S] \in Docs
    BY <2>3, <2>4, PatchedDoc
  <2> QED
    BY <2>2, <2>5
<1>6. SUBSET I \subseteq A
  <2>1. \A S \in SUBSET I : S # {} => \E x \in S : S \ {x} \in A => S \in A
    BY <1>5
  <2> HIDE DEF A, I
  <2> QED
    BY <1>2, <1>4, <2>1, SubsetInduction
<1> QED
  BY <1>1, <1>6

LEMMA ReplayIsWhole ==
    ASSUME NEW data, Whole(data) \in Docs, NEW s \in Seq(Patch), Replay(data, s).ok
    PROVE  Replay(data, s) = Whole(Replay(data, s).data)
<1> DEFINE doc == Replay(data, s)
<1>1. doc \in Docs
  BY ReplayIsDoc
<1> HIDE DEF doc
<1>2. doc = [ok |-> doc.ok, data |-> doc.data] /\ doc.ok \in BOOLEAN
  BY <1>1 DEF Docs
<1>3. doc.ok => doc = Whole(doc.data)
  BY <1>2 DEF Whole
<1> QED
  BY <1>3 DEF doc

LEMMA FirstPatches ==
    ASSUME NEW s \in Seq(Patch), NEW t \in Seq(Patch), NEW k \in 0 .. Len(t)
    PROVE  s \o SubSeq(t, 1, k) = SubSeq(s \o t, 1, Len(s) + k)
<1> DEFINE l == s \o SubSeq(t, 1, k)
           r == SubSeq(s \o t, 1, Len(s) + k)
<1>1. l \in Seq(Patch) /\ r \in Seq(Patch) /\ Len(l) = Len(r)
  OBVIOUS
<1>2. \A i \in 1 .. Len(l) : l[i] = r[i]
  OBVIOUS
<1> HIDE DEF l, r
<1>3. l = r
  BY <1>1, <1>2
<1> QED
  BY <1>3 DEF l, r

(* Patches are applied to what earlier patches have led to. *)
LEMMA ReplayOn ==
    ASSUME NEW base, Whole(base) \in Docs, NEW s \in Seq(Patch), NEW t \in Seq(Patch),
           NEW mid, Whole(mid) \in Docs, Replay(base, s) = Whole(mid)
    PROVE  Replay(mid, t) = Replay(base, s \o t)
<1> DEFINE first(n) == SubSeq(t, 1, n)
           Same(n) == Replay(mid, first(n)) = Replay(base, s \o first(n))
           A == {n \in Nat : n <= Len(t) => Same(n)}
<1>1. 0 \in A
  <2>1. first(0) = << >> /\ s \o first(0) = s
    OBVIOUS
  <2> QED
    BY <2>1, ReplayNothing
<1>2. ASSUME NEW n \in A
      PROVE  n + 1 \in A
  <2> SUFFICES ASSUME n + 1 <= Len(t)
               PROVE  Same(n + 1)
    OBVIOUS
  <2>1. n \in Nat /\ n + 1 \in 1 .. Len(t) /\ Same(n)
    OBVIOUS
  <2>2. t[n + 1] \in Patch /\ first(n) \in Seq(Patch) /\ first(n + 1) \in Seq(Patch)
    BY <2>1
  <2>3. first(n + 1) = Append(first(n), t[n + 1])
    BY <2>1, <2>2
  <2>4. s \o first(n + 1) = Append(s \o first(n), t[n + 1])
    BY <2>2, <2>3, AppendBehind
  <2>5. s \o first(n) \in Seq(Patch)
    BY <2>2
  <2>6. Replay(mid, Append(first(n), t[n + 1])) = ApplyPatch(Replay(mid, first(n)), t[n + 1])
    BY <2>2, ReplayAppend
  <2>7. Replay(base, Append(s \o first(n), t[n + 1]))
           = ApplyPatch(Replay(base, s \o first(n)), t[n + 1])
    BY <2>2, <2>5, ReplayAppend
  <2> QED
    BY <2>1, <2>3, <2>4, <2>6, <2>7
<1>3. A = Nat
  <2>1. A \in SUBSET Nat /\ \A n \in A : n + 1 \in A
    BY <1>2
  <2> HIDE DEF A
  <2> QED
    BY <1>1, <2>1, SetInduction
<1>4. Same(Len(t))
  <2>1. Len(t) \in A
    <3> HIDE DEF A
    <3> QED
      BY <1>3
  <2> QED
    BY <2>1
<1>5. first(Len(t)) = t
  OBVIOUS
<1> QED
  BY <1>4, <1>5

-----------------------------------------------------------------------------
(*                     The invariant, action by action                     *)

LEMMA InvInit == Init => DurableInv
<1> SUFFICES ASSUME Init PROVE DurableInv
  OBVIOUS
<1>1. Content = EmptyData
  BY DEF Init, Blank, Content, EmptyData
<1>2. TreeTypeOK
  <2>1. pending \in Seq(Patch)
    BY DEF Init, Blank
  <2>2. field \in [Objects -> Values]
    BY SomeValue DEF Init, Blank
  <2> QED
    BY <2>1, <2>2 DEF Init, Blank, TreeTypeOK
<1>3. since \subseteq Data /\ pending = << >>
  BY EmptyIsData DEF Init, Blank
<1>4. MemTypeOK
  BY <1>2, <1>3 DEF Init, MemTypeOK
<1> QED
  BY <1>1, <1>3, <1>4 DEF Init, Blank, DurableInv, PlaceIsRight, DiskInv, OnDisk, PatchInv

(* A change by the wallet, with everything that the cases have in common. *)
LEMMA ChangeStep ==
    ASSUME DurableInv, running, ~ changing, setting = None,
           TreeTypeOK', PlaceIsRight',
           ~ modified' => ~ modified /\ Content' = Content /\ pending' = pending,
           setting' # None => modified' \/ ~ Stored(setting.obj)',
           since' = since \cup {Content'},
           partial /\ file # None => InStep',
           UNCHANGED <<file, encrypted, partial, changing, running>>
    PROVE  DurableInv'
<1>1. Content' \in Data
  BY DumpIsData DEF Content, TreeTypeOK
<1>2. MemTypeOK'
  BY <1>1 DEF DurableInv, MemTypeOK
<1>3. OnDisk' = OnDisk
  BY DEF OnDisk
<1>4. DiskInv'
  BY <1>3 DEF DurableInv, DiskInv
<1>5. PatchInv'
  BY DEF DurableInv, PatchInv
<1> QED
  BY <1>2, <1>4, <1>5 DEF DurableInv

LEMMA InvChange ==
    ASSUME Orderly, DurableInv, Change
    PROVE  DurableInv'
<1>1. /\ running /\ setting = None /\ ~ changing
      /\ since' = since \cup {Content'}
      /\ UNCHANGED <<file, encrypted, partial, changing, running>>
  BY DEF Change, Remember, Undisturbed, Orderly, fileVars
<1>2. TreeTypeOK /\ PlaceIsRight /\ MemTypeOK /\ Content \in since
  BY <1>1 DEF DurableInv, MemTypeOK, DiskInv
<1>3. partial /\ file # None => InStep /\ ~ KeepReplaced
  BY <1>1 DEF DurableInv, PatchInv, MemTypeOK, Orderly
<1>4. since \subseteq since'
  BY <1>1
<1>5. ASSUME setting' = None
      PROVE  Ahead' = Content'
  BY <1>5 DEF Ahead
<1>6. Ahead = Content
  BY <1>1 DEF Ahead
<1>7. ASSUME NEW n \in Names, NEW o \in Objects, NEW v \in Values, SetItem(n, o, v)
      PROVE  DurableInv'
  <2>1. /\ TreeTypeOK' /\ PlaceIsRight' /\ modified' /\ setting' = None
        /\ ItemPatch(n, v) \in Patch /\ pending' = Append(pending, ItemPatch(n, v))
        /\ Applicable(Content, ItemPatch(n, v))
        /\ Ahead' = Patched(Content, ItemPatch(n, v))
    BY <1>1, <1>2, <1>5, <1>7, SetItemStep
  <2>2. partial /\ file # None => InStep'
    BY <1>1, <1>2, <1>3, <1>4, <2>1, InStepRecorded
  <2> QED
    BY <1>1, <2>1, <2>2, ChangeStep
<1>8. ASSUME NEW n \in Names, DelItem(n)
      PROVE  DurableInv'
  <2>1. /\ TreeTypeOK' /\ PlaceIsRight' /\ modified' /\ setting' = None
        /\ Removal(n) \in Patch /\ pending' = Append(pending, Removal(n))
        /\ Applicable(Content, Removal(n))
        /\ Ahead' = Patched(Content, Removal(n))
    BY <1>1, <1>2, <1>5, <1>8, DelItemStep
  <2>2. partial /\ file # None => InStep'
    BY <1>1, <1>2, <1>3, <1>4, <2>1, InStepRecorded
  <2> QED
    BY <1>1, <2>1, <2>2, ChangeStep
<1>9. ASSUME NEW o \in Objects, NEW v \in Values, LogChange(o, v), Held(o),
             Ahead' = IF Stored(o) THEN Patched(Content, Replaced(o, v)) ELSE Content
      PROVE  partial /\ file # None => InStep'
  <2> SUFFICES ASSUME partial, file # None PROVE InStep'
    OBVIOUS
  <2>1. CASE Stored(o)
    <3>1. Replaced(o, v) \in Patch /\ Applicable(Content, Replaced(o, v)) /\ place[o] \in Names
      BY <1>2, <2>1, StoredPatch
    <3>2. pending' = Append(pending, Replaced(o, v))
      BY <1>9, <3>1, NoneIsNone DEF LogChange, AddPatch, Replaced
    <3> QED
      BY <1>1, <1>2, <1>3, <1>4, <1>9, <2>1, <3>1, <3>2, InStepRecorded
  <2>2. CASE ~ Stored(o)
    <3>1. place[o] = None
      BY <1>3, <1>9, <2>2 DEF Held
    <3>2. pending' = pending
      BY <1>9, <3>1 DEF LogChange
    <3> QED
      BY <1>1, <1>3, <1>4, <1>6, <1>9, <2>2, <3>2, InStepKept
  <2> QED
    BY <2>1, <2>2
<1>10. ASSUME NEW o \in Objects, NEW v \in Values, ChangeItem(o, v)
       PROVE  DurableInv'
  <2>1. /\ UNCHANGED <<slot, place, setting>> /\ LogChange(o, v) /\ Held(o)
        /\ field' = [field EXCEPT ![o] = v]
    BY <1>10 DEF ChangeItem
  <2>2. /\ modified' \in BOOLEAN /\ pending' \in Seq(Patch)
        /\ modified => modified'
        /\ Stored(o) => modified'
        /\ ~ modified' => pending' = pending
    BY <1>2, <2>1, ChangeIsNoticed
  <2>3. TreeTypeOK' /\ PlaceIsRight' /\ setting' = None
    BY <1>1, <1>2, <2>1, <2>2 DEF TreeTypeOK, PlaceIsRight
  <2>4. ~ Stored(o) => Content' = Content
    BY <1>2, <2>1, UnseenChange
  <2>5. Stored(o) => Content' = Patched(Content, Replaced(o, v))
    BY <1>2, <2>1, SeenChange
  <2>6. partial /\ file # None => InStep'
    BY <1>5, <1>9, <2>1, <2>3, <2>4, <2>5
  <2> QED
    BY <1>1, <2>2, <2>3, <2>4, <2>6, ChangeStep
<1>11. ASSUME NEW o \in Objects, NEW v \in Values, StartSetAttr(o, v)
       PROVE  DurableInv'
  <2>1. /\ UNCHANGED <<slot, place, field>> /\ LogChange(o, v) /\ Held(o)
        /\ setting' = [obj |-> o, to |-> v]
    BY <1>11 DEF StartSetAttr
  <2>2. /\ modified' \in BOOLEAN /\ pending' \in Seq(Patch)
        /\ modified => modified'
        /\ Stored(o) => modified'
        /\ ~ modified' => pending' = pending
    BY <1>2, <2>1, ChangeIsNoticed
  <2>3. TreeTypeOK' /\ PlaceIsRight'
    BY <1>1, <1>2, <2>1, <2>2 DEF TreeTypeOK, PlaceIsRight
  <2>4. Content' = Content
    BY <2>1, SameContent
  <2>5. Stored(setting.obj)' <=> Stored(o)
    BY <2>1 DEF Stored
  <2>6. setting' # None
    BY <2>1, NoneIsNoSetting
  <2>7. Ahead' = IF Stored(o) THEN Patched(Content, Replaced(o, v)) ELSE Content
    BY <2>1, <2>4, <2>5, <2>6 DEF Ahead, Replaced
  <2>8. partial /\ file # None => InStep'
    BY <1>9, <2>1, <2>7
  <2> QED
    BY <1>1, <2>2, <2>3, <2>4, <2>5, <2>8, ChangeStep
<1>12. CASE PutNothing
  <2>1. TreeTypeOK' /\ PlaceIsRight' /\ modified' /\ setting' = None
        /\ pending' = pending /\ UNCHANGED <<slot, field>>
    BY <1>1, <1>2, <1>12 DEF PutNothing, TreeTypeOK, PlaceIsRight
  <2>2. Ahead' = Ahead
    BY <1>5, <1>6, <2>1, SameContent
  <2>3. partial /\ file # None => InStep'
    BY <1>1, <1>3, <1>4, <2>1, <2>2, InStepKept
  <2> QED
    BY <1>1, <2>1, <2>3, ChangeStep
<1>13. ASSUME Clear(TRUE), ~ partial
       PROVE  DurableInv'
  <2>1. TreeTypeOK' /\ PlaceIsRight' /\ modified' /\ setting' = None
    BY <1>1, <1>2, <1>13 DEF Clear, TreeTypeOK, PlaceIsRight
  <2> QED
    BY <1>1, <1>13, <2>1, ChangeStep
<1> QED
  BY <1>7, <1>8, <1>10, <1>11, <1>12, <1>13 DEF Change, Remember, Orderly

LEMMA InvEndSetAttr ==
    ASSUME DurableInv, EndSetAttr
    PROVE  DurableInv'
<1>1. /\ running /\ setting # None
      /\ field' = [field EXCEPT ![setting.obj] = setting.to]
      /\ setting' = None
      /\ UNCHANGED <<slot, place, pending, modified>>
      /\ UNCHANGED <<file, encrypted, partial, changing, running>>
      /\ since' = since \cup {Content'}
  BY DEF EndSetAttr, FinishSetAttr, fileVars
<1>2. TreeTypeOK /\ PlaceIsRight /\ setting \in [obj : Objects, to : Values]
  BY <1>1 DEF DurableInv, MemTypeOK, TreeTypeOK
<1>3. TreeTypeOK' /\ PlaceIsRight'
  BY <1>1, <1>2 DEF TreeTypeOK, PlaceIsRight
<1>4. ~ Stored(setting.obj) => Content' = Content
  BY <1>1, <1>2, UnseenChange
<1>5. Content' = Ahead
  <2>1. Stored(setting.obj) => Content' = Patched(Content, Replaced(setting.obj, setting.to))
    BY <1>1, <1>2, SeenChange
  <2> QED
    BY <1>1, <1>4, <2>1 DEF Ahead
<1>6. ~ modified => Content' = Content
  BY <1>1, <1>4 DEF DurableInv, DiskInv
<1>7. MemTypeOK'
  <2>1. Content' \in Data
    BY <1>3, DumpIsData DEF Content, TreeTypeOK
  <2> QED
    BY <1>1, <1>3, <2>1 DEF DurableInv, MemTypeOK
<1>8. DiskInv'
  BY <1>1, <1>6 DEF DurableInv, DiskInv, OnDisk
<1>9. PatchInv'
  <2>1. Ahead' = Ahead
    BY <1>1, <1>5 DEF Ahead
  <2>2. since \subseteq since'
    BY <1>1
  <2>3. InStep => InStep'
    BY <1>1, <2>1, <2>2, InStepKept
  <2> QED
    BY <1>1, <2>3 DEF DurableInv, PatchInv
<1> QED
  BY <1>3, <1>7, <1>8, <1>9 DEF DurableInv

(* A full write leaves on disk what is in memory. *)
LEMMA InvWriteAll ==
    ASSUME DurableInv, running, setting = None, WriteAll,
           changing' = FALSE \/ changing' = changing, running' = running
    PROVE  DurableInv'
<1>1. /\ file' = [sealed |-> encrypted, base |-> Content, tail |-> << >>]
      /\ modified' = FALSE /\ since' = {Content} /\ pending' = << >>
      /\ UNCHANGED <<slot, place, field, setting, encrypted, partial>>
  BY DEF WriteAll
<1>2. MemTypeOK /\ TreeTypeOK
  BY DEF DurableInv, MemTypeOK
<1>3. Content' = Content /\ Content \in Data
  BY <1>1, <1>2, SameContent, ContentIsData
<1>4. << >> \in Seq(Patch)
  OBVIOUS
<1>5. TreeTypeOK' /\ PlaceIsRight'
  BY <1>1, <1>2, <1>4 DEF DurableInv, TreeTypeOK, PlaceIsRight
<1>6. /\ file' \in [sealed : BOOLEAN, base : Data, tail : Seq(Patch)]
      /\ file'.tail = << >> /\ file'.base = Content /\ file'.sealed = encrypted
  BY <1>1, <1>2, <1>3, <1>4 DEF MemTypeOK
<1>7. MemTypeOK'
  BY <1>1, <1>2, <1>3, <1>5, <1>6 DEF MemTypeOK
<1>8. file' # None
  BY <1>6, PlainFileIsFile
<1>9. Replay(file'.base, file'.tail) = Whole(Content')
  BY <1>3, <1>6, WholeIsDoc, ReplayNothing
<1>10. OnDisk' = Content
  BY <1>3, <1>8, <1>9 DEF OnDisk, Whole
<1>11. DiskInv'
  BY <1>1, <1>3, <1>10 DEF DurableInv, DiskInv
<1>12. PatchInv'
  <2>1. InStep'
    BY <1>1, <1>3, <1>7, <1>8, <1>9, InStepAtRest
  <2>2. Replay(file'.base, file'.tail).ok
    BY <1>9 DEF Whole
  <2> QED
    BY <1>1, <1>6, <2>1, <2>2 DEF PatchInv
<1> QED
  BY <1>5, <1>7, <1>11, <1>12 DEF DurableInv

(* A partial write moves the pending patches into the file. *)
LEMMA InvAppend ==
    ASSUME DurableInv, running, running' = running, setting = None, ~ changing,
           changing' = changing, ~ ShouldWriteAll, pending # << >>, AppendPending
    PROVE  DurableInv'
<1>1. file # None /\ ~ encrypted /\ partial
  BY DEF ShouldWriteAll
<1> DEFINE all == file.tail \o pending
<1>2. /\ file' = [file EXCEPT !.tail = all] /\ pending' = << >> /\ since' = {Content}
      /\ UNCHANGED <<slot, place, field, setting, modified, encrypted, partial>>
  BY DEF AppendPending
<1>3. MemTypeOK /\ TreeTypeOK /\ InStep /\ file.sealed = FALSE
  BY <1>1 DEF DurableInv, MemTypeOK, PatchInv
<1>4. all \in Seq(Patch) /\ file.base \in Data
  BY <1>1, <1>3, AllPatches
<1>5. Replay(file.base, all) = Whole(Content)
  BY <1>3 DEF InStep, Ahead, Whole
<1>6. Content' = Content /\ Content \in Data
  BY <1>2, <1>3, SameContent, ContentIsData
<1> HIDE DEF all
<1>7. /\ file' \in [sealed : BOOLEAN, base : Data, tail : Seq(Patch)] /\ file' # None
      /\ file'.tail = all /\ file'.base = file.base /\ file'.sealed = FALSE
  <2>1. file \in [sealed : BOOLEAN, base : Data, tail : Seq(Patch)]
    BY <1>1, <1>3 DEF MemTypeOK
  <2>2. /\ file' \in [sealed : BOOLEAN, base : Data, tail : Seq(Patch)]
        /\ file'.tail = all /\ file'.base = file.base /\ file'.sealed = FALSE
    BY <1>2, <1>3, <1>4, <2>1
  <2> QED
    BY <2>2, PlainFileIsFile
<1>8. TreeTypeOK' /\ PlaceIsRight'
  <2>1. << >> \in Seq(Patch)
    OBVIOUS
  <2> QED
    BY <1>2, <1>3, <2>1 DEF DurableInv, TreeTypeOK, PlaceIsRight
<1>9. MemTypeOK'
  BY <1>2, <1>3, <1>6, <1>7, <1>8 DEF MemTypeOK
<1>10. Replay(file'.base, file'.tail) = Whole(Content')
  BY <1>5, <1>6, <1>7
<1>11. DiskInv'
  <2>1. OnDisk' = Content'
    BY <1>7, <1>10 DEF OnDisk, Whole
  <2> QED
    BY <1>2, <1>6, <2>1 DEF DurableInv, DiskInv
<1>12. PatchInv'
  <2>1. InStep'
    BY <1>2, <1>6, <1>7, <1>9, <1>10, InStepAtRest
  <2>2. Replay(file'.base, file'.tail).ok
    BY <1>10 DEF Whole
  <2>3. modified
    BY DEF DurableInv, PatchInv
  <2> QED
    BY <1>1, <1>2, <1>7, <2>1, <2>2, <2>3 DEF PatchInv, DurableInv
<1> QED
  BY <1>8, <1>9, <1>11, <1>12 DEF DurableInv

(* A write that has nothing to do changes nothing but the history. *)
LEMMA InvWriteNothing ==
    ASSUME DurableInv, running, running' = running, setting = None,
           changing' = changing, WriteNothing
    PROVE  DurableInv'
<1>1. /\ UNCHANGED <<slot, place, field, setting, pending, modified>>
      /\ UNCHANGED <<file, encrypted, partial>> /\ since' = {Content}
      /\ IF ShouldWriteAll THEN ~ modified ELSE pending = << >>
  BY DEF WriteNothing, treeVars, fileVars
<1>2. MemTypeOK /\ TreeTypeOK
  BY DEF DurableInv, MemTypeOK
<1>3. Content' = Content /\ Content \in Data
  BY <1>1, <1>2, SameContent, ContentIsData
<1>4. TreeTypeOK' /\ PlaceIsRight' /\ MemTypeOK'
  BY <1>1, <1>2, <1>3 DEF DurableInv, TreeTypeOK, PlaceIsRight, MemTypeOK
<1>5. pending = << >>
  BY <1>1 DEF DurableInv, PatchInv
<1>6. file # None /\ partial => Replay(file.base, file.tail) = Whole(Content)
  <2> SUFFICES ASSUME file # None, partial
               PROVE  Replay(file.base, file.tail) = Whole(Content)
    OBVIOUS
  <2>1. file.tail \o pending = file.tail
    BY <1>2, <1>5 DEF MemTypeOK
  <2>2. Replay(file.base, file.tail \o pending) = Whole(Content)
    BY DEF DurableInv, PatchInv, InStep, Ahead, Whole
  <2> QED
    BY <2>1, <2>2
<1>7. OnDisk = Content
  <2>1. CASE ~ modified
    BY <2>1 DEF DurableInv, DiskInv
  <2>2. CASE modified
    <3>1. file # None /\ partial
      BY <1>1, <2>2 DEF ShouldWriteAll
    <3> QED
      BY <1>6, <3>1 DEF OnDisk, Whole
  <2> QED
    BY <2>1, <2>2
<1>8. DiskInv'
  <2>1. OnDisk' = OnDisk
    BY <1>1 DEF OnDisk
  <2> QED
    BY <1>1, <1>3, <1>7, <2>1 DEF DurableInv, DiskInv
<1>9. PatchInv'
  <2>1. file # None /\ partial => InStep'
    BY <1>1, <1>3, <1>4, <1>5, <1>6, InStepAtRest
  <2> QED
    BY <1>1, <1>5, <2>1 DEF DurableInv, PatchInv
<1> QED
  BY <1>4, <1>8, <1>9 DEF DurableInv

LEMMA InvSave ==
    ASSUME Orderly, DurableInv, Save
    PROVE  DurableInv'
<1>1. /\ running /\ setting = None /\ ~ changing /\ changing' = changing
      /\ running' = running
  BY DEF Save, Orderly, Undisturbed
<1> QED
  BY <1>1, InvWriteNothing, InvWriteAll, InvAppend DEF Save

(* Nothing changes that the invariant speaks of, but _modified is set, and  *)
(* perhaps what the storage says of itself.                                 *)
LEMMA InvUnwritten ==
    ASSUME DurableInv, running, running' = running,
           UNCHANGED <<slot, place, field, setting, pending, file, since, partial>>,
           modified' = modified \/ modified' = TRUE,
           setting = None \/ changing' = FALSE, changing' \in BOOLEAN,
           encrypted' \in BOOLEAN,
           changing' = FALSE => \/ encrypted' = encrypted /\ changing = FALSE
                                \/ ~ partial \/ file = None
    PROVE  DurableInv'
<1>1. Content' = Content
  BY SameContent
<1>2. Stored(setting.obj)' <=> Stored(setting.obj)
  BY DEF Stored
<1>3. Ahead' = Ahead
  BY <1>1, <1>2 DEF Ahead, Replaced
<1>4. InStep => InStep'
  BY <1>3, InStepKept
<1>5. MemTypeOK' /\ PlaceIsRight'
  BY DEF DurableInv, MemTypeOK, TreeTypeOK, PlaceIsRight
<1>6. DiskInv'
  BY <1>1, <1>2 DEF DurableInv, DiskInv, OnDisk
<1>7. PatchInv'
  BY <1>4 DEF DurableInv, PatchInv, MemTypeOK, TreeTypeOK
<1> QED
  BY <1>5, <1>6, <1>7 DEF DurableInv

LEMMA InvUpdatePassword ==
    ASSUME Orderly, DurableInv,
           (\E e \in BOOLEAN : StartUpdatePassword(e)) \/ EndUpdatePassword
    PROVE  DurableInv'
<1>1. CASE \E e \in BOOLEAN : StartUpdatePassword(e)
  <2>1. /\ running /\ running' = running /\ setting = None /\ changing' = TRUE
        /\ encrypted' \in BOOLEAN
        /\ UNCHANGED <<slot, place, field, setting, pending, file, since, partial, modified>>
    BY <1>1 DEF StartUpdatePassword, Undisturbed, Orderly, treeVars
  <2> QED
    BY <2>1, InvUnwritten
<1>2. CASE EndUpdatePassword
  <2>1. running /\ running' = running /\ changing' = FALSE /\ setting = None
    BY <1>2 DEF EndUpdatePassword, DurableInv, DiskInv
  <2>2. CASE WriteAll
    BY <2>1, <2>2, InvWriteAll
  <2>3. CASE ~ WriteAll
    <3>1. /\ UNCHANGED <<slot, place, field, setting, pending, file, encrypted, since, partial>>
          /\ modified' = TRUE /\ (~ partial \/ file = None)
      BY <1>2, <2>3 DEF EndUpdatePassword, fileVars
    <3> QED
      BY <2>1, <3>1, InvUnwritten DEF DurableInv, MemTypeOK
  <2> QED
    BY <2>2, <2>3
<1> QED
  BY <1>1, <1>2

(* What is left of a process that has ended. *)
LEMMA InvForget ==
    ASSUME MemTypeOK, OnDisk' \in since, Forget, running' = FALSE, changing' = FALSE,
           UNCHANGED <<encrypted, partial, since>>,
           file' \in [sealed : BOOLEAN, base : Data, tail : Seq(Patch)] \cup {None},
           file' # None => Replay(file'.base, file'.tail).ok,
           file' # None /\ file'.sealed => file'.tail = << >>
    PROVE  DurableInv' /\ Content' = EmptyData
<1>1. Attach(EmptyData) /\ modified' = FALSE /\ pending' = << >>
  BY DEF Forget
<1>2. /\ Content' = EmptyData
      /\ slot' \in [Names -> Objects \cup {None}]
      /\ place' \in [Objects -> Names \cup {None}]
      /\ field' \in [Objects -> Values]
      /\ PlaceIsRight' /\ setting' = None
  BY <1>1, EmptyIsData, AttachIsRight
<1>3. << >> \in Seq(Patch)
  OBVIOUS
<1>4. TreeTypeOK'
  BY <1>1, <1>2, <1>3 DEF TreeTypeOK
<1>5. MemTypeOK'
  BY <1>4 DEF MemTypeOK
<1>6. DiskInv'
  BY <1>1, <1>2 DEF DiskInv
<1>7. PatchInv'
  BY <1>1 DEF PatchInv
<1> QED
  BY <1>2, <1>5, <1>6, <1>7 DEF DurableInv

(* When the process ends, only the file is left. *)
LEMMA InvExit ==
    ASSUME DurableInv, Exit
    PROVE  DurableInv' /\ Content' = EmptyData
<1>1. /\ Forget /\ changing' = FALSE /\ running' = FALSE
      /\ UNCHANGED <<file, encrypted, partial, since>>
  BY DEF Exit, fileVars
<1>2. OnDisk' = OnDisk /\ OnDisk \in since
  BY <1>1 DEF DurableInv, DiskInv, OnDisk
<1>3. /\ MemTypeOK
      /\ file' \in [sealed : BOOLEAN, base : Data, tail : Seq(Patch)] \cup {None}
      /\ file' # None => Replay(file'.base, file'.tail).ok
      /\ file' # None /\ file'.sealed => file'.tail = << >>
  BY <1>1 DEF DurableInv, MemTypeOK, PatchInv
<1> QED
  BY <1>1, <1>2, <1>3, InvForget

(* Of an append that is cut, whole patches are left. *)
LEMMA InvExitInAppend ==
    ASSUME Orderly, DurableInv, ExitInAppend
    PROVE  DurableInv' /\ Content' = EmptyData
<1>1. /\ running /\ setting = None /\ ~ changing /\ ~ ShouldWriteAll
      /\ Forget /\ running' = FALSE /\ changing' = FALSE
      /\ UNCHANGED <<encrypted, partial, since>>
  BY DEF ExitInAppend, Orderly, Undisturbed
<1>2. file # None /\ ~ encrypted /\ partial
  BY <1>1 DEF ShouldWriteAll
<1> DEFINE all == file.tail \o pending
           n == Len(file.tail)
<1>3. MemTypeOK /\ InStep /\ file.sealed = FALSE /\ Content \in since
  BY <1>1, <1>2 DEF DurableInv, PatchInv, DiskInv
<1>4. /\ file.base \in Data /\ file.tail \in Seq(Patch) /\ pending \in Seq(Patch)
      /\ all \in Seq(Patch) /\ n \in Nat /\ Len(pending) \in Nat
      /\ Len(all) = n + Len(pending)
  BY <1>2, <1>3, AllPatches
<1>5. {t \in Torn : t.op \in Cases} = {}
  BY <1>2, <1>3 DEF Orderly, Torn, MemTypeOK
<1>6. PICK k \in 0 .. Len(pending) - 1, t \in {<< >>} :
         file' = [file EXCEPT !.tail = file.tail \o SubSeq(pending, 1, k) \o t]
  <2>1. PICK tail \in PartlyAppended : file' = [file EXCEPT !.tail = tail]
    BY DEF ExitInAppend
  <2> DEFINE Ends == {<< >>} \cup {<<t>> : t \in {t \in Torn : t.op \in Cases}}
  <2>2. Ends = {<< >>}
    BY <1>5
  <2> HIDE DEF Ends
  <2>3. PICK k \in 0 .. Len(pending) - 1, t \in Ends :
           tail = file.tail \o SubSeq(pending, 1, k) \o t
    <3> DEFINE K == 0 .. Len(pending) - 1
               Cut(m, e) == file.tail \o SubSeq(pending, 1, m) \o e
    <3>1. PartlyAppended = {Cut(m, e) : m \in K, e \in Ends}
      BY DEF PartlyAppended, Ends
    <3>2. \E m \in K, e \in Ends : tail = Cut(m, e)
      <4> HIDE DEF K, Cut
      <4> QED
        BY <2>1, <3>1
    <3> QED
      BY <3>2
  <2> QED
    BY <2>1, <2>2, <2>3
<1>7. file.tail \o SubSeq(pending, 1, k) \o t = SubSeq(all, 1, n + k)
  <2> DEFINE part == SubSeq(pending, 1, k)
  <2>1. part \in Seq(Patch) /\ t = << >> /\ k \in 0 .. Len(pending)
    BY <1>4
  <2>2. file.tail \o part \o t = file.tail \o part
    BY <1>4, <2>1
  <2>3. file.tail \o part = SubSeq(all, 1, n + k)
    BY <1>4, <2>1, FirstPatches
  <2> QED
    BY <2>2, <2>3
<1> DEFINE some == SubSeq(all, 1, n + k)
<1>8. n + k \in n .. Len(all) /\ some \in Seq(Patch)
  BY <1>4
<1>9. Replay(file.base, some).ok /\ Replay(file.base, some).data \in since
  <2>1. StepsIn(file.base, all, n, since \cup {Content})
    BY <1>1, <1>3 DEF InStep, Ahead
  <2> QED
    BY <1>3, <1>8, <2>1 DEF StepsIn
<1> HIDE DEF all, n
<1>10. file' = [file EXCEPT !.tail = some]
  BY <1>6, <1>7
<1> HIDE DEF some
<1>11. /\ file' \in [sealed : BOOLEAN, base : Data, tail : Seq(Patch)]
       /\ file'.tail = some /\ file'.base = file.base /\ file'.sealed = FALSE
  <2>1. file \in [sealed : BOOLEAN, base : Data, tail : Seq(Patch)]
    BY <1>2, <1>3 DEF MemTypeOK
  <2> QED
    BY <1>3, <1>8, <1>10, <2>1
<1>12. OnDisk' \in since
  BY <1>9, <1>11, PlainFileIsFile DEF OnDisk
<1> QED
  BY <1>1, <1>3, <1>9, <1>11, <1>12, InvForget

LEMMA InvCreate ==
    ASSUME DurableInv, Create
    PROVE  DurableInv' /\ Content' = EmptyData
<1>1. /\ ~ running /\ running' = TRUE /\ file = None /\ since' = {EmptyData}
      /\ encrypted' \in BOOLEAN /\ partial' \in Modes
      /\ UNCHANGED <<slot, place, field, setting, pending, modified, file, changing>>
  BY DEF Create, treeVars
<1>2. Content' = EmptyData
  BY <1>1, SameContent DEF DurableInv, DiskInv
<1>3. MemTypeOK' /\ PlaceIsRight'
  BY <1>1, EmptyIsData DEF DurableInv, MemTypeOK, TreeTypeOK, PlaceIsRight
<1>4. DiskInv' /\ PatchInv'
  BY <1>1, <1>2 DEF DurableInv, DiskInv, OnDisk, PatchInv
<1> QED
  BY <1>2, <1>3, <1>4 DEF DurableInv

(* A file without torn patches is read as it was written. *)
LEMMA LoadedIs ==
    ASSUME DurableInv, file # None
    PROVE  /\ Loaded(file).ok
           /\ Loaded(file).data = OnDisk
           /\ Loaded(file).patched <=> file.tail # << >>
<1>1. /\ file.tail \in Seq(Patch) /\ file.base \in Data
      /\ Replay(file.base, file.tail).ok /\ file.sealed \in BOOLEAN
      /\ file.sealed => file.tail = << >>
  BY DEF DurableInv, MemTypeOK, PatchInv
<1>2. \A i \in 1 .. Len(file.tail) : file.tail[i].op \in {"add", "replace", "remove"}
  <2> TAKE i \in 1 .. Len(file.tail)
  <2>1. file.tail[i] \in Patch
    BY <1>1
  <2> QED
    BY <2>1 DEF Patch
<1>3. FirstOf(file.tail, "cut") = 0 /\ FirstOf(file.tail, "comma") = 0
  BY <1>2 DEF FirstOf, SelectInSeq
<1>4. Readable(file.tail) = file.tail
  BY <1>3 DEF Readable
<1>5. CASE file.tail = << >>
  <2>1. Replay(file.base, file.tail) = Whole(file.base)
    BY <1>1, <1>5, WholeIsDoc, ReplayNothing
  <2>2. Loaded(file) = [ok |-> TRUE, data |-> file.base, patched |-> FALSE]
    BY <1>5 DEF Loaded
  <2>3. OnDisk = file.base
    BY <2>1 DEF OnDisk, Whole
  <2> QED
    BY <1>5, <2>2, <2>3
<1>6. CASE file.tail # << >>
  <2> DEFINE doc == Replay(file.base, file.tail)
  <2>1. Loaded(file) = [ok |-> doc.ok, data |-> doc.data, patched |-> file.tail # << >>]
    BY <1>1, <1>3, <1>4, <1>6 DEF Loaded
  <2>2. doc.ok /\ doc.data = OnDisk
    BY <1>1 DEF OnDisk
  <2> HIDE DEF doc
  <2>3. /\ Loaded(file).ok = doc.ok /\ Loaded(file).data = doc.data
        /\ Loaded(file).patched = (file.tail # << >>)
    BY <2>1
  <2> QED
    BY <1>6, <2>2, <2>3
<1> QED
  BY <1>5, <1>6

(* What is read is what was written, and patches are consolidated. *)
LEMMA InvOpen ==
    ASSUME DurableInv, Open
    PROVE  DurableInv' /\ Content' \in since /\ since' = {Content'}
<1>1. /\ ~ running /\ file # None /\ running' = TRUE /\ partial' \in Modes
      /\ pending = << >> /\ ~ modified /\ ~ changing
      /\ UNCHANGED <<pending, modified, changing>>
  BY DEF Open, DurableInv, DiskInv, PatchInv
<1>2. /\ Loaded(file).data = OnDisk /\ (Loaded(file).patched <=> file.tail # << >>)
  BY <1>1, LoadedIs
<1>3. /\ Attach(OnDisk) /\ since' = {OnDisk} /\ encrypted' = file.sealed
      /\ file' = IF file.tail # << >>
                   THEN [sealed |-> file.sealed, base |-> OnDisk, tail |-> << >>]
                   ELSE file
  BY <1>2 DEF Open
<1>4. OnDisk \in since /\ OnDisk \in Data
  BY DEF DurableInv, DiskInv, MemTypeOK
<1>5. /\ Content' = OnDisk
      /\ slot' \in [Names -> Objects \cup {None}]
      /\ place' \in [Objects -> Names \cup {None}]
      /\ field' \in [Objects -> Values]
      /\ PlaceIsRight' /\ setting' = None
  BY <1>3, <1>4, AttachIsRight
<1>6. file \in [sealed : BOOLEAN, base : Data, tail : Seq(Patch)]
  BY <1>1 DEF DurableInv, MemTypeOK
<1>7. /\ file' \in [sealed : BOOLEAN, base : Data, tail : Seq(Patch)]
      /\ file'.tail = << >> /\ file'.sealed = file.sealed
      /\ file'.base = OnDisk
  <2>1. CASE file.tail = << >>
    <3>1. Replay(file.base, file.tail) = Whole(file.base)
      BY <1>6, <2>1, WholeIsDoc, ReplayNothing
    <3>2. OnDisk = file.base
      BY <1>1, <3>1 DEF OnDisk, Whole
    <3> QED
      BY <1>3, <1>6, <2>1, <3>2
  <2>2. CASE file.tail # << >>
    <3>1. << >> \in Seq(Patch)
      OBVIOUS
    <3> QED
      BY <1>3, <1>4, <1>6, <2>2, <3>1
  <2> QED
    BY <2>1, <2>2
<1>8. file' # None
  BY <1>7, PlainFileIsFile
<1>9. TreeTypeOK'
  BY <1>1, <1>5 DEF TreeTypeOK, DurableInv, MemTypeOK
<1>10. MemTypeOK'
  BY <1>1, <1>3, <1>4, <1>6, <1>7, <1>9 DEF DurableInv, MemTypeOK
<1>11. Replay(file'.base, file'.tail) = Whole(Content')
  BY <1>4, <1>5, <1>7, WholeIsDoc, ReplayNothing
<1>12. DiskInv'
  <2>1. OnDisk' = Content'
    BY <1>8, <1>11 DEF OnDisk, Whole
  <2> QED
    BY <1>1, <1>3, <1>5, <2>1 DEF DiskInv
<1>13. PatchInv'
  <2>1. InStep'
    BY <1>1, <1>3, <1>5, <1>8, <1>10, <1>11, InStepAtRest
  <2>2. Replay(file'.base, file'.tail).ok
    BY <1>11 DEF Whole
  <2> QED
    BY <1>1, <1>3, <1>7, <2>1, <2>2 DEF PatchInv
<1> QED
  BY <1>3, <1>4, <1>5, <1>10, <1>12, <1>13 DEF DurableInv

LEMMA InvNext ==
    ASSUME Orderly, DurableInv, [Next]_vars
    PROVE  DurableInv'
<1>1. CASE Change
  BY <1>1, InvChange
<1>2. CASE EndSetAttr
  BY <1>2, InvEndSetAttr
<1>3. CASE Save
  BY <1>3, InvSave
<1>4. CASE SaveRaises
  <2>1. /\ running /\ setting = None /\ ~ changing /\ UNCHANGED <<changing, running>>
        /\ UNCHANGED <<slot, place, field, setting, pending, modified>>
        /\ UNCHANGED <<file, encrypted, partial, since>>
    BY <1>4 DEF SaveRaises, WriteAllRaises, Undisturbed, Orderly, treeVars
  <2> QED
    BY <2>1, InvUnwritten DEF DurableInv, MemTypeOK
<1>5. CASE (\E e \in BOOLEAN : StartUpdatePassword(e)) \/ EndUpdatePassword
  BY <1>5, InvUpdatePassword
<1>6. CASE Exit
  BY <1>6, InvExit
<1>7. CASE ExitInAppend
  BY <1>7, InvExitInAppend
<1>8. CASE Create
  BY <1>8, InvCreate
<1>9. CASE Open
  BY <1>9, InvOpen
<1>10. CASE UNCHANGED vars
  <2>1. /\ UNCHANGED <<slot, place, field, setting, pending, modified>>
        /\ UNCHANGED <<file, encrypted, partial, changing, running, since>>
    BY <1>10 DEF vars, treeVars, fileVars
  <2>2. Content' = Content /\ OnDisk' = OnDisk
    BY <2>1, SameContent DEF OnDisk
  <2>3. Stored(setting.obj)' <=> Stored(setting.obj)
    BY <2>1 DEF Stored
  <2>4. Ahead' = Ahead
    BY <2>1, <2>2, <2>3 DEF Ahead, Replaced
  <2>5. InStep => InStep'
    BY <2>1, <2>4, InStepKept
  <2>6. MemTypeOK' /\ PlaceIsRight'
    BY <2>1 DEF DurableInv, MemTypeOK, TreeTypeOK, PlaceIsRight
  <2>7. DiskInv'
    BY <2>1, <2>2, <2>3 DEF DurableInv, DiskInv
  <2>8. PatchInv'
    BY <2>1, <2>5 DEF DurableInv, PatchInv
  <2> QED
    BY <2>6, <2>7, <2>8 DEF DurableInv
<1> QED
  BY <1>1, <1>2, <1>3, <1>4, <1>5, <1>6, <1>7, <1>8, <1>9, <1>10 DEF Next

-----------------------------------------------------------------------------
(*                               Theorems                                  *)

(* _modified is never unset while memory differs from the file, the keys    *)
(* that objects carry are those under which they are stored, and the        *)
(* patches of a process that writes partially keep in step with its memory  *)
(* (json_db.py, stored_dict.py).                                            *)
THEOREM ModifiedIsRight ==
    ASSUME Orderly PROVE Spec => []DurableInv
<1>1. Init => DurableInv
  BY InvInit
<1>2. DurableInv /\ [Next]_vars => DurableInv'
  BY InvNext
<1> QED
  BY <1>1, <1>2, PTL DEF Spec

(* Whatever crash an append is cut by between two patches, and whatever     *)
(* other writes raise, the file can be opened (JsonDB.load_data).           *)
THEOREM FilesCanBeOpened ==
    ASSUME Orderly PROVE Spec => []CanBeOpened
<1>1. DurableInv => CanBeOpened
  BY LoadedIs DEF CanBeOpened
<1> QED
  BY <1>1, ModifiedIsRight, PTL

(* The pending patches are always those that the file lacks: the next       *)
(* partial write leaves what is in memory (JsonDB._append_pending_changes). *)
THEOREM PatchesAreComplete ==
    ASSUME Orderly PROVE Spec => []PendingBringsUpToDate
<1>1. ASSUME DurableInv, running, partial, file # None, setting = None
      PROVE  Replay(Loaded(file).data, pending) = [ok |-> TRUE, data |-> Content]
  <2>1. MemTypeOK /\ InStep /\ Ahead = Content
    BY <1>1 DEF DurableInv, PatchInv, Ahead
  <2>2. /\ file.base \in Data /\ file.tail \in Seq(Patch) /\ pending \in Seq(Patch)
    BY <1>1, <2>1, AllPatches
  <2>3. Loaded(file).data = Replay(file.base, file.tail).data /\ Replay(file.base, file.tail).ok
    BY <1>1, LoadedIs DEF OnDisk, DurableInv, PatchInv
  <2>4. Replay(file.base, file.tail \o pending) = Whole(Content)
    BY <2>1 DEF InStep, Whole
  <2>5. OnDisk \in Data /\ OnDisk = Replay(file.base, file.tail).data
    BY <1>1 DEF DurableInv, DiskInv, MemTypeOK, OnDisk
  <2>6. Replay(file.base, file.tail) = Whole(OnDisk)
    BY <2>2, <2>3, <2>5, WholeIsDoc, ReplayIsWhole
  <2>7. Replay(OnDisk, pending) = Replay(file.base, file.tail \o pending)
    BY <2>2, <2>5, <2>6, WholeIsDoc, ReplayOn
  <2> QED
    BY <2>3, <2>4, <2>5, <2>7 DEF Whole
<1>2. DurableInv => PendingBringsUpToDate
  BY <1>1 DEF PendingBringsUpToDate
<1> QED
  BY <1>2, ModifiedIsRight, PTL

(* Each step of the wallet file is one of a durable map, or none. *)
LEMMA StepMaps ==
    ASSUME Orderly, DurableInv, DurableInv', [Next]_vars
    PROVE  [Durable!Next]_(Durable!vars)
<1> USE DEF Durable!Next, Durable!vars
<1>1. Content' \in Data
  BY ContentIsDataNext DEF DurableInv
<1>2. CASE Change \/ EndSetAttr
  <2>1. running /\ since' = since \cup {Content'} /\ running' = running
    BY <1>2 DEF Change, Remember, EndSetAttr
  <2> QED
    BY <1>1, <2>1 DEF Durable!Change
<1>3. ASSUME running, running' = running, WriteAll \/ AppendPending \/ WriteNothing
      PROVE  Durable!Save
  <2>1. since' = {Content} /\ UNCHANGED <<slot, field>>
    BY <1>3 DEF WriteAll, AppendPending, WriteNothing, treeVars
  <2> QED
    BY <1>3, <2>1, SameContent DEF Durable!Save
<1>4. ASSUME UNCHANGED <<slot, field, since, running>>
      PROVE  UNCHANGED Durable!vars
  BY <1>4, SameContent
<1>5. CASE Save
  BY <1>3, <1>5 DEF Save
<1>6. CASE SaveRaises \/ (\E e \in BOOLEAN : StartUpdatePassword(e))
  BY <1>4, <1>6 DEF SaveRaises, WriteAllRaises, StartUpdatePassword, treeVars
<1>7. CASE EndUpdatePassword
  <2>1. running /\ running' = running
    BY <1>7 DEF EndUpdatePassword
  <2>2. CASE WriteAll
    BY <1>3, <2>1, <2>2
  <2>3. CASE ~ WriteAll
    BY <1>4, <1>7, <2>3 DEF EndUpdatePassword
  <2> QED
    BY <2>2, <2>3
<1>8. CASE Exit
  BY <1>8, InvExit DEF Exit, Durable!Stop
<1>9. CASE ExitInAppend
  BY <1>9, InvExitInAppend DEF ExitInAppend, Durable!Stop
<1>10. CASE Create
  <2>1. EmptyData \in since
    BY <1>10 DEF Create, DurableInv, DiskInv, OnDisk
  <2> QED
    BY <1>10, <2>1, InvCreate DEF Create, Durable!Start
<1>11. CASE Open
  BY <1>11, InvOpen DEF Open, Durable!Start
<1>12. CASE UNCHANGED vars
  BY <1>4, <1>12 DEF vars, treeVars
<1> QED
  BY <1>2, <1>5, <1>6, <1>7, <1>8, <1>9, <1>10, <1>11, <1>12 DEF Next

(* With full and with partial writes, the wallet file is a durable map:     *)
(* every opening shows the wallet as it was at some moment since the last   *)
(* save, after any crash between two patches and although any number of     *)
(* full writes raise (JsonDB.write, WalletStorage.append).                  *)
THEOREM FilesAreDurable ==
    ASSUME Orderly PROVE Spec => IsDurable
<1>1. Init => Durable!Init
  <2> SUFFICES ASSUME Init PROVE Durable!Init
    OBVIOUS
  <2>1. Content = EmptyData
    BY DEF Init, Blank, Content, EmptyData
  <2> QED
    BY <2>1 DEF Init, Durable!Init
<1>2. DurableInv /\ DurableInv' /\ [Next]_vars => [Durable!Next]_(Durable!vars)
  BY StepMaps
<1> QED
  BY <1>1, <1>2, ModifiedIsRight, PTL DEF Spec, IsDurable, Durable!Spec

(* Where no process writes patches, that is so even if callers go on        *)
(* changing objects that they have replaced.                                *)
THEOREM WholeWritesAreDurable ==
    ASSUME WholeWrites PROVE Spec => IsDurable
<1>1. Orderly
  BY DEF WholeWrites, Orderly
<1> QED
  BY <1>1, FilesAreDurable

(* The same, said of the opening alone: nothing saved is lost. *)
THEOREM NothingIsLost ==
    ASSUME Orderly PROVE Spec => NothingSavedIsLost
<1>1. ASSUME DurableInv, [Next]_vars, ~ running /\ running'
      PROVE  Content' \in since
  <2>1. Create \/ Open
    BY <1>1 DEF Next, vars, Change, Remember, EndSetAttr, Save, SaveRaises,
                StartUpdatePassword, EndUpdatePassword, Exit, ExitInAppend
  <2>2. CASE Create
    BY <1>1, <2>2, InvCreate DEF Create, DurableInv, DiskInv, OnDisk
  <2>3. CASE Open
    BY <1>1, <2>3, InvOpen
  <2> QED
    BY <2>1, <2>2, <2>3
<1>2. DurableInv /\ [Next]_vars => [~ running /\ running' => Content' \in since]_vars
  BY <1>1
<1> QED
  BY <1>2, ModifiedIsRight, PTL DEF Spec, NothingSavedIsLost

-----------------------------------------------------------------------------
(*                    With or without partial writes                       *)

(* A file is a record, and while no write raises pos is its size. *)
SizeInv ==
    /\ file # None => file = [sealed |-> file.sealed, base |-> file.base,
                              tail |-> file.tail]
    /\ running /\ file # None => pos = Size(file)

(* Outside of update_password the storage and the file agree on whether it  *)
(* is encrypted, and no patch follows what is.                              *)
SealInv ==
    /\ running /\ ~ changing /\ file # None => encrypted = file.sealed
    /\ AppendsOnlyToPlain

LEMMA UnchangedFile ==
    ASSUME SizeInv, UNCHANGED <<file, pos>>, running' => running
    PROVE  SizeInv'
BY DEF SizeInv, Size

LEMMA WrittenFile ==
    ASSUME WriteAll
    PROVE  /\ SizeInv'
           /\ file'.sealed = encrypted /\ file'.tail = << >> /\ encrypted' = encrypted
BY BaseSizeIsPositive DEF WriteAll, SizeInv, Size

LEMMA AppendedFile ==
    ASSUME SizeInv, file # None, NEW t, file' = [file EXCEPT !.tail = t]
    PROVE  /\ file' = [sealed |-> file'.sealed, base |-> file'.base, tail |-> file'.tail]
           /\ file'.sealed = file.sealed
BY DEF SizeInv

LEMMA ChangeKeepsFile ==
    ASSUME Change \/ EndSetAttr
    PROVE  UNCHANGED <<file, encrypted, pos, initPos, changing, running>>
BY DEF Change, Remember, EndSetAttr, fileVars

LEMMA SizeNext ==
    ASSUME "noSpace" \notin Cases, SizeInv, [Next]_vars
    PROVE  SizeInv'
<1>1. CASE \/ Change \/ EndSetAttr \/ Exit \/ UNCHANGED vars
           \/ \E e \in BOOLEAN : StartUpdatePassword(e)
  <2>1. UNCHANGED <<file, pos>> /\ (running' = running \/ running' = FALSE)
    BY <1>1, ChangeKeepsFile DEF Exit, vars, fileVars, StartUpdatePassword
  <2> QED
    BY <2>1, UnchangedFile
<1>2. CASE Save
  <2>1. CASE WriteNothing
    BY <1>2, <2>1, UnchangedFile DEF Save, WriteNothing, fileVars
  <2>2. CASE WriteAll
    BY <2>2, WrittenFile
  <2>3. CASE ~ ShouldWriteAll /\ AppendPending
    BY <2>3, AppendedFile DEF AppendPending, ShouldWriteAll, SizeInv
  <2> QED
    BY <1>2, <2>1, <2>2, <2>3 DEF Save
<1>3. CASE EndUpdatePassword
  <2>1. CASE WriteAll
    BY <2>1, WrittenFile
  <2>2. CASE ~ WriteAll
    BY <1>3, <2>2, UnchangedFile DEF EndUpdatePassword, fileVars
  <2> QED
    BY <2>1, <2>2
<1>4. CASE ExitInAppend
  <2>1. file # None /\ ~ running' /\ \E t : file' = [file EXCEPT !.tail = t]
    BY <1>4 DEF ExitInAppend, ShouldWriteAll
  <2> QED
    BY <2>1, AppendedFile DEF SizeInv
<1>5. CASE Create
  BY <1>5 DEF Create, SizeInv
<1>6. CASE Open
  BY <1>6 DEF Open, SizeInv
<1> QED
  BY <1>1, <1>2, <1>3, <1>4, <1>5, <1>6 DEF Next, SaveRaises

(* As long as no write raises, the file has the size that WalletStorage     *)
(* expects, whatever other threads do and however a crash cuts an append:   *)
(* append never takes the file for one that somebody else has changed.      *)
THEOREM SizeIsKnown ==
    ASSUME "noSpace" \notin Cases PROVE Spec => []KnowsItsSize
<1>1. Init => SizeInv
  BY DEF Init, SizeInv
<1>2. SizeInv /\ [Next]_vars => SizeInv'
  BY SizeNext
<1>3. SizeInv => KnowsItsSize
  BY DEF SizeInv, KnowsItsSize
<1> QED
  BY <1>1, <1>2, <1>3, PTL DEF Spec

LEMMA SealNext ==
    ASSUME "noSpace" \notin Cases, "threads" \notin Cases,
           SizeInv, SealInv, [Next]_vars
    PROVE  SealInv'
<1> USE DEF SealInv, AppendsOnlyToPlain
<1>1. CASE Change \/ EndSetAttr \/ Exit \/ UNCHANGED vars
  <2>1. /\ UNCHANGED <<file, encrypted>>
        /\ UNCHANGED <<changing, running>> \/ running' = FALSE
    BY <1>1, ChangeKeepsFile DEF Exit, vars, fileVars
  <2> QED
    BY <2>1
<1>2. CASE Save
  <2>1. CASE WriteNothing
    BY <1>2, <2>1 DEF Save, WriteNothing, fileVars
  <2>2. CASE WriteAll
    BY <1>2, <2>2, WrittenFile DEF Save
  <2>3. CASE ~ ShouldWriteAll /\ AppendPending
    <3>1. file # None /\ ~ encrypted /\ ~ changing /\ running
          /\ encrypted' = encrypted
      BY <1>2, <2>3 DEF Save, Undisturbed, ShouldWriteAll, AppendPending
    <3>2. file'.sealed = file.sealed
      BY <2>3, <3>1, AppendedFile DEF AppendPending
    <3> QED
      BY <3>1, <3>2
  <2> QED
    BY <1>2, <2>1, <2>2, <2>3 DEF Save
<1>3. CASE \E e \in BOOLEAN : StartUpdatePassword(e)
  BY <1>3 DEF StartUpdatePassword
<1>4. CASE EndUpdatePassword
  <2>1. CASE WriteAll
    BY <1>4, <2>1, WrittenFile DEF EndUpdatePassword
  <2>2. CASE ~ WriteAll
    BY <1>4, <2>2 DEF EndUpdatePassword, fileVars
  <2> QED
    BY <2>1, <2>2
<1>5. CASE ExitInAppend
  <2>1. /\ file # None /\ ~ encrypted /\ ~ changing /\ running /\ ~ running'
        /\ \E t : file' = [file EXCEPT !.tail = t]
    BY <1>5 DEF ExitInAppend, Undisturbed, ShouldWriteAll
  <2>2. file'.sealed = file.sealed
    BY <2>1, AppendedFile
  <2> QED
    BY <2>1, <2>2
<1>6. CASE Create
  BY <1>6 DEF Create
<1>7. CASE Open
  BY <1>7 DEF Open
<1> QED
  BY <1>1, <1>2, <1>3, <1>4, <1>5, <1>6, <1>7 DEF Next, SaveRaises

(* Without other threads and writes that raise, patches are never appended  *)
(* to an encrypted file (WalletStorage.append).                             *)
THEOREM PatchesOnlyInPlainFiles ==
    ASSUME "noSpace" \notin Cases, "threads" \notin Cases
    PROVE  Spec => []AppendsOnlyToPlain
<1>1. Init => SizeInv /\ SealInv
  BY DEF Init, SizeInv, SealInv, AppendsOnlyToPlain
<1>2. SizeInv /\ SealInv /\ [Next]_vars => SizeInv' /\ SealInv'
  BY SizeNext, SealNext
<1>3. SealInv => AppendsOnlyToPlain
  BY DEF SealInv
<1> QED
  BY <1>1, <1>2, <1>3, PTL DEF Spec
=============================================================================

----------------------------- MODULE Recursion -----------------------------
(***************************************************************************)
(* What the proofs need of data: induction over the naturals as a fact     *)
(* about sets, the existence of functions that are defined step by step    *)
(* along an interval or over the subsets of a finite set (which is how the *)
(* folds of the community modules are defined), induction over the subsets *)
(* of a finite set, and from these the sequences that FlattenSeq returns   *)
(* and sums over finite sets; and induction and recursion over the nodes   *)
(* of a finite tree.                                                       *)
(***************************************************************************)
EXTENDS Integers, Sequences, SequencesExt, FiniteSetsExt, FiniteSetTheorems, TLAPS

(* Induction: a set of naturals with 0 and the successor of every element is  *)
(* the set of all of them.  The intervals from 0 to a number that is missing  *)
(* would have no smallest one.                                                *)
LEMMA SetInduction ==
    ASSUME NEW A \in SUBSET Nat, 0 \in A, \A n \in A : n + 1 \in A
    PROVE  A = Nat
<1> SUFFICES ASSUME A # Nat PROVE FALSE
  OBVIOUS
<1> DEFINE T == {0 .. n : n \in Nat \ A}
<1>1. T \subseteq FiniteSubsetsOf(Nat) /\ T # {}
  <2>1. \A n \in Nat : IsFiniteSet(0 .. n)
    BY FS_Interval
  <2>2. \A y \in T : y \in SUBSET Nat /\ IsFiniteSet(y)
    BY <2>1
  <2>3. T # {}
    OBVIOUS
  <2> HIDE DEF T
  <2> QED BY <2>2, <2>3 DEF FiniteSubsetsOf
<1>2. PICK x \in T : \A y \in T : <<y, x>> \notin StrictSubsetOrdering(Nat)
  <2> HIDE DEF T
  <2> QED BY <1>1, WFMin, FS_StrictSubsetOrderingWellFounded
<1>3. PICK m \in Nat \ A : x = 0 .. m
  OBVIOUS
<1>4. m # 0 /\ m - 1 \in Nat
  OBVIOUS
<1>5. CASE m - 1 \in A
  BY <1>5, <1>4
<1>6. CASE m - 1 \notin A
  <2>1. 0 .. (m - 1) \in T
    BY <1>4, <1>6
  <2>2. <<0 .. (m - 1), 0 .. m>> \in StrictSubsetOrdering(Nat)
    <3>1. 0 .. (m - 1) \subseteq 0 .. m /\ 0 .. (m - 1) \in SUBSET Nat /\ 0 .. m \in SUBSET Nat
      BY <1>4
    <3>2. m \in 0 .. m /\ m \notin 0 .. (m - 1)
      BY <1>4
    <3> QED BY <3>1, <3>2 DEF StrictSubsetOrdering
  <2> QED BY <2>1, <2>2, <1>2, <1>3
<1> QED BY <1>5, <1>6

(* Induction that ends. *)
LEMMA IntervalInduction ==
    ASSUME NEW n \in Nat, NEW A, 0 \in A, \A m \in 0 .. n - 1 : m \in A => m + 1 \in A
    PROVE  0 .. n \subseteq A
<1> DEFINE B == {m \in Nat : m <= n => m \in A}
<1>1. B \in SUBSET Nat /\ 0 \in B
  OBVIOUS
<1>2. ASSUME NEW m \in B
      PROVE  m + 1 \in B
  <2>1. m + 1 <= n => m \in 0 .. n - 1 /\ m <= n
    OBVIOUS
  <2> QED
    BY <2>1
<1>3. B = Nat
  <2> HIDE DEF B
  <2> QED
    BY <1>1, <1>2, SetInduction
<1> QED
  BY <1>3

-----------------------------------------------------------------------------
(*                         Along an interval                               *)

IsStepwise(g, n, V, base, D) ==
    /\ g \in [0 .. n -> V]
    /\ g[0] = base
    /\ \A i \in 1 .. n : g[i] = D[i][g[i - 1]]

(* A function given by its first value and by each value from the one before. *)
LEMMA StepwiseFunction ==
    ASSUME NEW n \in Nat, NEW V, NEW base \in V,
           NEW D, \A i \in 1 .. n : \A v \in V : D[i][v] \in V
    PROVE  \E g : IsStepwise(g, n, V, base, D)
<1> DEFINE Upto(m) == \E g \in [0 .. m -> V] :
                         /\ g[0] = base
                         /\ \A i \in 1 .. m : g[i] = D[i][g[i - 1]]
           A == {m \in Nat : m <= n => Upto(m)}
<1>1. Upto(0)
  <2> DEFINE z == [i \in 0 .. 0 |-> base]
  <2>1. z \in [0 .. 0 -> V]
    OBVIOUS
  <2>2. z[0] = base /\ \A i \in 1 .. 0 : z[i] = D[i][z[i - 1]]
    OBVIOUS
  <2> HIDE DEF z
  <2> QED
    BY <2>1, <2>2
<1>2. ASSUME NEW m \in Nat, m + 1 <= n, Upto(m)
      PROVE  Upto(m + 1)
  <2>1. PICK g \in [0 .. m -> V] : /\ g[0] = base
                                   /\ \A i \in 1 .. m : g[i] = D[i][g[i - 1]]
    BY <1>2
  <2> HIDE DEF Upto
  <2>2. m + 1 \in 1 .. n
    BY <1>2
  <2> DEFINE e == D[m + 1][g[m]]
             h == [i \in 0 .. (m + 1) |-> IF i = m + 1 THEN e ELSE g[i]]
  <2>3. e \in V
    <3>1. g[m] \in V
      OBVIOUS
    <3> QED
      BY <2>2, <3>1
  <2>4. e = D[m + 1][g[m]]
    OBVIOUS
  <2> HIDE DEF e
  <2>5. h \in [0 .. (m + 1) -> V]
    BY <2>3
  <2>6. h[m + 1] = e /\ \A i \in 0 .. m : h[i] = g[i]
    OBVIOUS
  <2> HIDE DEF h
  <2>7. h[0] = base
    BY <2>1, <2>6
  <2>8. ASSUME NEW i \in 1 .. (m + 1)
        PROVE  h[i] = D[i][h[i - 1]]
    <3>1. i - 1 \in 0 .. m /\ (i = m + 1 \/ i \in 1 .. m)
      OBVIOUS
    <3>2. CASE i = m + 1
      BY <2>4, <2>6, <3>1, <3>2
    <3>3. CASE i \in 1 .. m
      BY <2>1, <2>6, <3>1, <3>3
    <3> QED
      BY <3>1, <3>2, <3>3
  <2> QED
    BY <2>5, <2>7, <2>8 DEF Upto
<1> HIDE DEF Upto
<1>3. A = Nat
  <2>1. 0 \in A
    BY <1>1
  <2>2. ASSUME NEW m \in A
        PROVE  m + 1 \in A
    BY <1>2
  <2>3. A \in SUBSET Nat
    OBVIOUS
  <2> HIDE DEF A
  <2> QED
    BY <2>1, <2>2, <2>3, SetInduction
<1>4. Upto(n)
  BY <1>3
<1> QED
  BY <1>4 DEF Upto, IsStepwise

(* A function that satisfies such equations as far as its values are in V has *)
(* them there.                                                                *)
LEMMA StepwiseIs ==
    ASSUME NEW n \in Nat, NEW V, NEW base \in V,
           NEW D, \A i \in 1 .. n : \A v \in V : D[i][v] \in V,
           NEW u, u = [i \in 0 .. n |-> u[i]], u[0] = base,
           \A i \in 1 .. n : u[i - 1] \in V => u[i] = D[i][u[i - 1]]
    PROVE  IsStepwise(u, n, V, base, D)
<1> DEFINE A == {m \in 0 .. n : u[m] \in V}
<1>1. 0 .. n \subseteq A
  <2>1. 0 \in A
    OBVIOUS
  <2>2. ASSUME NEW m \in 0 .. n - 1, m \in A
        PROVE  m + 1 \in A
    <3>1. m + 1 \in 1 .. n /\ m + 1 - 1 = m /\ m + 1 \in 0 .. n /\ u[m] \in V
      BY <2>2
    <3>a. PICK i \in 1 .. n : i = m + 1
      BY <3>1
    <3>2. i - 1 = m /\ u[i] = D[i][u[i - 1]] /\ D[i][u[i - 1]] \in V
      <4>1. i - 1 = m
        BY <3>a
      <4>2. u[i - 1] \in V
        BY <3>1, <4>1
      <4> QED
        BY <4>1, <4>2
    <3> QED
      BY <3>1, <3>2, <3>a
  <2> HIDE DEF A
  <2> QED
    BY <2>1, <2>2, IntervalInduction
<1>2. u \in [0 .. n -> V]
  BY <1>1
<1>3. ASSUME NEW i \in 1 .. n
      PROVE  u[i] = D[i][u[i - 1]]
  <2>1. i - 1 \in 0 .. n
    OBVIOUS
  <2> QED
    BY <1>2, <2>1
<1> QED
  BY <1>2, <1>3 DEF IsStepwise

(* A path through no more elements than it has steps, each of which stays or  *)
(* goes down in rank, stays at one.                                           *)
FallsTo(u, n, S, r) ==
    /\ n \in Nat /\ IsFiniteSet(S) /\ Cardinality(S) <= n
    /\ r \in [S -> Nat] /\ u \in [0 .. n -> S]
    /\ \A i \in 1 .. n : u[i] = u[i - 1] \/ r[u[i]] < r[u[i - 1]]

LEMMA PathStays ==
    ASSUME NEW n, NEW S, NEW r, NEW u, FallsTo(u, n, S, r)
    PROVE  \E i \in 1 .. n : u[i] = u[i - 1]
<1> USE DEF FallsTo
<1> SUFFICES ASSUME \A i \in 1 .. n : u[i] # u[i - 1] PROVE FALSE
  OBVIOUS
<1>1. \A i \in 1 .. n : r[u[i]] < r[u[i - 1]]
  OBVIOUS
<1> DEFINE Down(m) == \A i \in 0 .. n : i + m + 1 <= n => r[u[i + m + 1]] < r[u[i]]
           A == {m \in Nat : Down(m)}
<1>2. \A i \in 0 .. n : r[u[i]] \in Nat
  OBVIOUS
<1>3. 0 \in A
  <2>1. ASSUME NEW i \in 0 .. n, i + 0 + 1 <= n
        PROVE  r[u[i + 0 + 1]] < r[u[i]]
    <3>1. i + 1 \in 1 .. n /\ i + 0 + 1 = i + 1 /\ (i + 1) - 1 = i
      BY <2>1
    <3> QED
      BY <1>1, <3>1
  <2> QED
    BY <2>1
<1>4. ASSUME NEW m \in A
      PROVE  m + 1 \in A
  <2>1. ASSUME NEW i \in 0 .. n, i + (m + 1) + 1 <= n
        PROVE  r[u[i + (m + 1) + 1]] < r[u[i]]
    <3> DEFINE j == i + m + 1
    <3>1. j \in 0 .. n /\ j + 1 \in 1 .. n /\ (j + 1) - 1 = j /\ i + (m + 1) + 1 = j + 1 /\ j <= n /\ j + 1 \in 0 .. n
      BY <2>1
    <3>2. r[u[j]] < r[u[i]]
      BY <1>4, <3>1
    <3>3. r[u[j + 1]] < r[u[j]]
      BY <1>1, <3>1
    <3> HIDE DEF j
    <3>4. r[u[j + 1]] \in Nat /\ r[u[j]] \in Nat /\ r[u[i]] \in Nat
      BY <1>2, <3>1
    <3> QED
      BY <3>1, <3>2, <3>3, <3>4
  <2> QED
    BY <2>1
<1>5. A = Nat
  <2>1. A \in SUBSET Nat
    OBVIOUS
  <2> HIDE DEF A
  <2> QED
    BY <1>3, <1>4, <2>1, SetInduction
<1>6. ASSUME NEW x \in 0 .. n, NEW y \in 0 .. n, x < y
      PROVE  u[x] # u[y]
  <2>1. y - x - 1 \in A
    <3>1. y - x - 1 \in Nat
      BY <1>6
    <3> HIDE DEF A
    <3> QED
      BY <1>5, <3>1
  <2>2. x + (y - x - 1) + 1 = y /\ x + (y - x - 1) + 1 <= n
    OBVIOUS
  <2>3. r[u[y]] < r[u[x]]
    BY <2>1, <2>2
  <2>4. r[u[y]] \in Nat /\ r[u[x]] \in Nat
    BY <1>2
  <2> HIDE DEF A
  <2> QED
    BY <2>3, <2>4
<1>7. IsFiniteSet(0 .. n) /\ Cardinality(0 .. n) = n + 1
  BY FS_Interval
<1>8. Cardinality(S) \in Nat
  BY FS_CardinalityType
<1>9. \E x, y \in 0 .. n : x # y /\ u[x] = u[y]
  <2>1. Cardinality(S) < Cardinality(0 .. n)
    BY <1>7, <1>8
  <2> QED
    BY <1>7, <2>1, FS_PigeonHole
<1> QED
  BY <1>6, <1>9

(* FlattenSeq of sequences over M is one. *)
LEMMA FlattenSeqType ==
    ASSUME NEW M, NEW n \in Nat, NEW seqs \in [1..n -> Seq(M)]
    PROVE  FlattenSeq(seqs) \in Seq(M)
<1>0. seqs \in Seq(Seq(M)) /\ Len(seqs) = n
  OBVIOUS
<1>1. CASE n = 0
  <2>1. seqs = << >>
    BY <1>1
  <2> QED
    BY <1>0, <1>1, <2>1 DEF FlattenSeq
<1>2. CASE n # 0
  <2> DEFINE Body(g, i) == IF i = 1 THEN seqs[i] ELSE g[i-1] \o seqs[i]
             f == CHOOSE g : g = [i \in 1..n |-> Body(g, i)]
             D == [i \in 1..n |-> [v \in Seq(M) |-> IF i = 1 THEN seqs[i] ELSE v \o seqs[i]]]
  <2>1. FlattenSeq(seqs) = f[n]
    BY <1>0, <1>2, Zenon DEF FlattenSeq
  <2>2. \A i \in 1 .. n : \A v \in Seq(M) : D[i][v] \in Seq(M)
    OBVIOUS
  <2>3. \A i \in 1..n : \A v \in Seq(M) : D[i][v] = IF i = 1 THEN seqs[i] ELSE v \o seqs[i]
    OBVIOUS
  <2> HIDE DEF D
  <2>4. << >> \in Seq(M)
    OBVIOUS
  <2>5. PICK h \in [0..n -> Seq(M)] : \A i \in 1..n : h[i] = D[i][h[i - 1]]
    <3> DEFINE V == Seq(M)
    <3>1. PICK v \in V : v = << >>
      BY <2>4
    <3>2. \A i \in 1 .. n : \A x \in V : D[i][x] \in V
      BY <2>2
    <3> HIDE DEF V, f, Body
    <3>3. PICK h : IsStepwise(h, n, V, v, D)
      BY <3>2, StepwiseFunction
    <3> QED
      BY <3>3 DEF V, IsStepwise
  <2> DEFINE g0 == [i \in 1..n |-> h[i]]
  <2>6. \A i \in 1..n : g0[i] = Body(g0, i)
    <3> TAKE i \in 1..n
    <3>1. D[i][h[i - 1]] = IF i = 1 THEN seqs[i] ELSE h[i-1] \o seqs[i]
      BY <2>3
    <3>2. i # 1 => g0[i-1] = h[i-1]
      OBVIOUS
    <3> QED BY <2>5, <3>1, <3>2
  <2>7. g0 = [i \in 1..n |-> Body(g0, i)]
    <3>1. g0 = [i \in 1..n |-> g0[i]]
      OBVIOUS
    <3> HIDE DEF g0
    <3> QED BY <3>1, <2>6
  <2>8. f = [i \in 1..n |-> Body(f, i)]
    <3> HIDE DEF Body, g0
    <3> QED BY <2>7
  <2> HIDE DEF f
  <2>9. /\ f[1] = seqs[1]
        /\ \A i \in 1..n : i # 1 => f[i] = f[i - 1] \o seqs[i]
    <3>1. \A i \in 1..n : f[i] = Body(f, i)
      <4> HIDE DEF Body
      <4> QED BY <2>8
    <3>2. 1 \in 1..n
      BY <1>2
    <3> QED BY <3>1, <3>2
  <2> DEFINE A == {m \in Nat : m \in 1..n => f[m] \in Seq(M)}
  <2>10. A = Nat
    <3>1. 0 \in A
      OBVIOUS
    <3>2. ASSUME NEW m \in A
          PROVE  m + 1 \in A
      <4> SUFFICES ASSUME m + 1 \in 1..n
                   PROVE  f[m + 1] \in Seq(M)
        OBVIOUS
      <4>1. seqs[m + 1] \in Seq(M)
        OBVIOUS
      <4>2. CASE m = 0
        BY <2>9, <4>1, <4>2
      <4>3. CASE m # 0
        <5>1. m \in 1..n /\ (m + 1) - 1 = m /\ m + 1 # 1
          BY <4>3
        <5>2. f[m + 1] = f[m] \o seqs[m + 1]
          BY <2>9, <5>1
        <5>3. f[m] \in Seq(M)
          BY <5>1
        <5> QED BY <4>1, <5>2, <5>3
      <4> QED BY <4>2, <4>3
    <3>3. A \in SUBSET Nat
      OBVIOUS
    <3> HIDE DEF A
    <3> QED BY <3>1, <3>2, <3>3, SetInduction
  <2>11. f[n] \in Seq(M)
    <3>1. n \in A
      <4> HIDE DEF A
      <4> QED BY <2>10
    <3>2. n \in 1..n
      BY <1>2
    <3> QED BY <3>1, <3>2
  <2> QED BY <2>1, <2>11
<1> QED BY <1>1, <1>2


-----------------------------------------------------------------------------
(*                              Sequences                                  *)

IsSequence(x) == x \in Seq(Range(x))

(* Whatever it is a sequence over. *)
LEMMA SequenceOf ==
    ASSUME NEW M, NEW x \in Seq(M)
    PROVE  /\ IsSequence(x)
           /\ \A i \in DOMAIN x : x[i] \in M
<1>1. x \in [1 .. Len(x) -> Range(x)] /\ Len(x) \in Nat
  BY DEF Range
<1> DEFINE R == Range(x)
<1>2. x \in Seq(R)
  <2> HIDE DEF R
  <2>1. x \in [1 .. Len(x) -> R] /\ Len(x) \in Nat
    BY <1>1 DEF R
  <2> QED
    BY <2>1
<1> QED
  BY <1>2 DEF IsSequence

(* What it holds once a message is appended. *)
LEMMA AppendSequence ==
    ASSUME NEW x, IsSequence(x), NEW msg, NEW y, y = Append(x, msg)
    PROVE  /\ IsSequence(y)
           /\ \A i \in DOMAIN y : y[i] = msg \/ (i \in DOMAIN x /\ y[i] = x[i])
           /\ \A i \in DOMAIN x : i \in DOMAIN y /\ y[i] = x[i]
           /\ Last(y) = msg /\ \E i \in DOMAIN y : y[i] = msg
<1> DEFINE M == Range(x) \cup {msg}
<1>1. x \in Seq(Range(x))
  BY DEF IsSequence
<1>2. x \in Seq(M) /\ msg \in M
  <2> DEFINE R == Range(x)
  <2> HIDE DEF R
  <2>1. x \in Seq(R)
    BY <1>1 DEF R
  <2>2. x \in Seq(R \cup {msg})
    BY <2>1
  <2> QED BY <2>2 DEF R
<1> HIDE DEF M
<1>3. y \in Seq(M) /\ Len(y) = Len(x) + 1 /\ y[Len(y)] = msg /\ Len(x) \in Nat
  BY <1>2
<1>4. \A i \in 1 .. Len(x) : y[i] = x[i]
  BY <1>2
<1>5. IsSequence(y)
  BY <1>3, SequenceOf
<1>6. DOMAIN y = 1 .. Len(y) /\ DOMAIN x = 1 .. Len(x)
  BY <1>2, <1>3
<1>7. Last(y) = msg
  BY <1>3 DEF Last
<1>8. Len(y) \in DOMAIN y /\ \A i \in DOMAIN y : i = Len(y) \/ i \in DOMAIN x
  BY <1>3, <1>6
<1>9. \A i \in DOMAIN x : i \in DOMAIN y
  BY <1>3, <1>6
<1> QED
  BY <1>3, <1>4, <1>5, <1>6, <1>7, <1>8, <1>9

LEMMA LastAppended ==
    ASSUME NEW x, IsSequence(x), NEW msg
    PROVE  Last(Append(x, msg)) = msg
BY AppendSequence

(* What is left when the first is taken. *)
LEMMA TailSequence ==
    ASSUME NEW x, IsSequence(x), x # << >>, NEW y, y = Tail(x)
    PROVE  /\ IsSequence(y)
           /\ 1 \in DOMAIN x /\ Head(x) = x[1]
           /\ \A i \in DOMAIN y : i \in Nat /\ i + 1 # 1 /\ i + 1 \in DOMAIN x /\ y[i] = x[i + 1]
<1> DEFINE M == Range(x)
<1>1. x \in Seq(M)
  BY DEF IsSequence
<1> HIDE DEF M
<1>2. /\ y \in Seq(M) /\ Len(x) \in Nat /\ Len(x) # 0 /\ Len(y) = Len(x) - 1
      /\ DOMAIN x = 1 .. Len(x) /\ DOMAIN y = 1 .. Len(y)
  BY <1>1
<1>3. \A i \in 1 .. Len(y) : y[i] = x[i + 1]
  BY <1>1, <1>2
<1>4. 1 \in DOMAIN x /\ Head(x) = x[1]
  BY <1>1, <1>2
<1>5. IsSequence(y)
  BY <1>2, SequenceOf
<1>6. \A i \in DOMAIN y : i \in Nat /\ i + 1 # 1 /\ i + 1 \in DOMAIN x
  BY <1>2
<1> QED
  BY <1>2, <1>3, <1>4, <1>5, <1>6

(* One sequence after another. *)
LEMMA ConcatSequence ==
    ASSUME NEW x, IsSequence(x), NEW y, IsSequence(y), NEW z, z = x \o y
    PROVE  /\ IsSequence(z)
           /\ \A i \in DOMAIN x : i \in DOMAIN z /\ z[i] = x[i]
           /\ \A i \in DOMAIN z : \/ i \in DOMAIN x /\ z[i] = x[i]
                                  \/ \E j \in DOMAIN y : z[i] = y[j]
<1> DEFINE M == Range(x)
           N == Range(y)
<1>1. x \in Seq(M) /\ y \in Seq(N)
  BY DEF IsSequence
<1> HIDE DEF M, N
<1>2. x \in Seq(M \cup N) /\ y \in Seq(M \cup N)
  BY <1>1
<1>3. /\ z \in Seq(M \cup N) /\ Len(z) = Len(x) + Len(y)
      /\ Len(x) \in Nat /\ Len(y) \in Nat
      /\ DOMAIN x = 1 .. Len(x) /\ DOMAIN y = 1 .. Len(y) /\ DOMAIN z = 1 .. Len(z)
  BY <1>2
<1>4. IsSequence(z)
  BY <1>3, SequenceOf
<1>5. \A i \in 1 .. Len(x) : z[i] = x[i]
  BY <1>2, <1>3
<1>6. \A i \in DOMAIN x : i \in DOMAIN z /\ z[i] = x[i]
  BY <1>3, <1>5
<1>7. ASSUME NEW i \in DOMAIN z, i \notin DOMAIN x
      PROVE  \E j \in DOMAIN y : z[i] = y[j]
  <2>1. i - Len(x) \in DOMAIN y
    BY <1>3, <1>7
  <2>2. z[i] = y[i - Len(x)]
    BY <1>2, <1>3, <1>7
  <2> QED
    BY <2>1, <2>2
<1> QED
  BY <1>4, <1>6, <1>7

LEMMA ConcatThree ==
    ASSUME NEW M, NEW x \in Seq(M), NEW y \in Seq(M), NEW z \in Seq(M)
    PROVE  (x \o y) \o z = x \o (y \o z)
<1> DEFINE l == (x \o y) \o z
           r == x \o (y \o z)
<1>1. l \in Seq(M) /\ r \in Seq(M) /\ Len(l) = Len(r)
  OBVIOUS
<1>2. \A i \in 1 .. Len(l) : l[i] = r[i]
  OBVIOUS
<1> HIDE DEF l, r
<1>3. l = r
  BY <1>1, <1>2
<1> QED
  BY <1>3 DEF l, r

(* The elements of a finite set, one after another. *)
LEMMA SequenceOfSet ==
    ASSUME NEW S, IsFiniteSet(S)
    PROVE  SetToSeq(S) \in Seq(S)
<1> DEFINE n == Cardinality(S)
<1>1. n \in Nat /\ ExistsBijection(1 .. n, S)
  BY FS_CardinalityType
<1>2. PICK f \in [1 .. n -> S] : IsInjective(f)
  BY <1>1 DEF ExistsBijection, Bijection, Injection
<1>3. SetToSeq(S) \in [1 .. n -> S]
  BY <1>2 DEF SetToSeq
<1> HIDE DEF n
<1> QED
  BY <1>1, <1>3

-----------------------------------------------------------------------------
(*                     Over the subsets of a finite set                    *)

(* Every subset has what {} has, if one without one of its elements having it *)
(* is enough.                                                                 *)
LEMMA SubsetInduction ==
    ASSUME NEW S, IsFiniteSet(S), NEW A, {} \in A,
           \A s \in SUBSET S : s # {} => \E x \in s : s \ {x} \in A => s \in A
    PROVE  SUBSET S \subseteq A
<1> DEFINE All(m) == \A s \in SUBSET S : Cardinality(s) = m => s \in A
           M == {m \in Nat : All(m)}
<1>1. \A s \in SUBSET S :
         /\ IsFiniteSet(s) /\ Cardinality(s) \in Nat /\ (Cardinality(s) = 0 <=> s = {})
         /\ \A x \in s : Cardinality(s \ {x}) = Cardinality(s) - 1
  BY FS_Subset, FS_CardinalityType, FS_EmptySet, FS_RemoveElement
<1>2. All(0)
  BY <1>1
<1>3. ASSUME NEW m \in Nat, All(m)
      PROVE  All(m + 1)
  <2> SUFFICES ASSUME NEW s \in SUBSET S, Cardinality(s) = m + 1
               PROVE  s \in A
    OBVIOUS
  <2>1. s # {}
    <3>1. Cardinality(s) # 0
      OBVIOUS
    <3> QED
      BY <1>1, <3>1
  <2>2. PICK x \in s : s \ {x} \in A => s \in A
    BY <2>1
  <2>3. s \ {x} \in SUBSET S /\ Cardinality(s \ {x}) = m
    BY <1>1
  <2> QED
    BY <1>3, <2>2, <2>3
<1>4. M = Nat
  <2> HIDE DEF All
  <2>1. 0 \in M
    BY <1>2
  <2>2. ASSUME NEW m \in M
        PROVE  m + 1 \in M
    BY <1>3
  <2>3. M \in SUBSET Nat
    OBVIOUS
  <2> HIDE DEF M
  <2> QED
    BY <2>1, <2>2, <2>3, SetInduction
<1>5. ASSUME NEW s \in SUBSET S
      PROVE  s \in A
  <2>1. Cardinality(s) \in M
    <3> HIDE DEF M
    <3> QED
      BY <1>1, <1>4
  <2> QED
    BY <2>1
<1> QED
  BY <1>5

(* A finite set of naturals has a largest element. *)
LEMMA LargestOf ==
    ASSUME NEW S \in SUBSET Nat, IsFiniteSet(S), S # {}
    PROVE  Max(S) \in S /\ \A y \in S : y <= Max(S)
<1> DEFINE Has(s) == s = {} \/ \E x \in s : \A y \in s : x >= y
           A == {s \in SUBSET S : Has(s)}
<1>1. {} \in A
  OBVIOUS
<1>2. ASSUME NEW s \in SUBSET S, s # {}
      PROVE  \E x \in s : s \ {x} \in A => s \in A
  <2>1. PICK x \in s : TRUE
    BY <1>2
  <2>2. ASSUME s \ {x} \in A
        PROVE  Has(s)
    <3>1. CASE s \ {x} = {}
      <4>1. \A y \in s : x >= y
        BY <3>1
      <4> QED
        BY <4>1
    <3>2. CASE s \ {x} # {}
      <4>1. PICK z \in s \ {x} : \A y \in s \ {x} : z >= y
        BY <2>2, <3>2
      <4>2. CASE z >= x
        <5>1. \A y \in s : z >= y
          BY <4>1, <4>2
        <5> QED
          BY <5>1
      <4>3. CASE ~ (z >= x)
        <5>1. \A y \in s : x >= y
          BY <4>1, <4>3
        <5> QED
          BY <5>1
      <4> QED
        BY <4>2, <4>3
    <3> QED
      BY <3>1, <3>2
  <2> QED
    BY <2>2
<1>3. S \in A
  <2> HIDE DEF A
  <2> QED
    BY <1>1, <1>2, SubsetInduction
<1>4. PICK x \in S : \A y \in S : x >= y
  BY <1>3
<1>5. Max(S) \in S /\ \A y \in S : Max(S) >= y
  BY <1>4 DEF Max
<1> QED
  BY <1>5

IsSubsetwise(g, S, V, base, D, c) ==
    /\ g \in [SUBSET S -> V]
    /\ \A s \in SUBSET S : g[s] = IF s = {} THEN base ELSE D[c[s]][g[s \ {c[s]}]]

(* A function given by its value for {} and by each value from that for the   *)
(* set without one of its elements, which c chooses.                          *)
LEMMA SubsetFunction ==
    ASSUME NEW S, IsFiniteSet(S), NEW V, NEW base \in V,
           NEW D, \A x \in S : \A v \in V : D[x][v] \in V,
           NEW c, \A s \in SUBSET S : s # {} => c[s] \in s
    PROVE  \E g : IsSubsetwise(g, S, V, base, D, c)
<1> DEFINE Step(g, s) == IF s = {} THEN base ELSE D[c[s]][g[s \ {c[s]}]]
           Upto(m) == \E g \in [SUBSET S -> V] :
             \A s \in SUBSET S : Cardinality(s) <= m => g[s] = Step(g, s)
           A == {m \in Nat : Upto(m)}
<1>0. \A s \in SUBSET S : IsFiniteSet(s) /\ Cardinality(s) \in Nat /\ Cardinality(s) <= Cardinality(S) /\ (Cardinality(s) = 0 <=> s = {})
  BY FS_Subset, FS_CardinalityType, FS_EmptySet
<1>a. \A s \in SUBSET S : s # {} => Cardinality(s \ {c[s]}) = Cardinality(s) - 1
  <2> TAKE s \in SUBSET S
  <2> HAVE s # {}
  <2>1. c[s] \in s
    OBVIOUS
  <2> QED
    BY <1>0, <2>1, FS_RemoveElement
<1>1. Upto(0)
  <2> DEFINE z == [s \in SUBSET S |-> base]
  <2>1. z \in [SUBSET S -> V]
    OBVIOUS
  <2>2. \A s \in SUBSET S : Cardinality(s) <= 0 => s = {}
    BY <1>0
  <2>3. \A s \in SUBSET S : z[s] = base
    OBVIOUS
  <2> HIDE DEF z
  <2> QED
    BY <2>1, <2>2, <2>3
<1>2. ASSUME NEW m \in Nat, Upto(m)
      PROVE  Upto(m + 1)
  <2>1. PICK g \in [SUBSET S -> V] :
             \A s \in SUBSET S : Cardinality(s) <= m => g[s] = Step(g, s)
    BY <1>2
  <2> HIDE DEF Upto
  <2> DEFINE h == [s \in SUBSET S |-> Step(g, s)]
  <2>2. \A s \in SUBSET S : Step(g, s) \in V
    <3> TAKE s \in SUBSET S
    <3>1. CASE s = {}
      BY <3>1
    <3>2. CASE s # {}
      <4>1. c[s] \in S /\ g[s \ {c[s]}] \in V
        BY <3>2
      <4> QED BY <3>2, <4>1
    <3> QED BY <3>1, <3>2
  <2>3. h \in [SUBSET S -> V] /\ \A s \in SUBSET S : h[s] = Step(g, s)
    <3> HIDE DEF Step
    <3> QED BY <2>2
  <2> HIDE DEF h
  <2>4. \A s \in SUBSET S : Cardinality(s) <= m => h[s] = g[s]
    <3> HIDE DEF Step
    <3> QED BY <2>1, <2>3
  <2>5. ASSUME NEW s \in SUBSET S, Cardinality(s) <= m + 1
        PROVE  h[s] = Step(h, s)
    <3>1. CASE s = {}
      BY <2>3, <3>1
    <3>2. CASE s # {}
      <4>1. s \ {c[s]} \in SUBSET S
        OBVIOUS
      <4>2. Cardinality(s \ {c[s]}) <= m
        BY <1>0, <1>a, <2>5, <3>2
      <4>3. h[s \ {c[s]}] = g[s \ {c[s]}]
        BY <2>4, <4>1, <4>2
      <4> QED BY <2>3, <3>2, <4>3
    <3> QED BY <3>1, <3>2
  <2>6. \A s \in SUBSET S : Cardinality(s) <= m + 1 => h[s] = Step(h, s)
    <3> HIDE DEF Step
    <3> QED BY <2>5
  <2> HIDE DEF Step
  <2> QED BY <2>3, <2>6 DEF Upto
<1>3. A = Nat
  <2> HIDE DEF Upto
  <2>1. 0 \in A
    BY <1>1
  <2>2. ASSUME NEW m \in A
        PROVE  m + 1 \in A
    BY <1>2
  <2>3. A \in SUBSET Nat
    OBVIOUS
  <2> HIDE DEF A
  <2> QED
    BY <2>1, <2>2, <2>3, SetInduction
<1>4. Upto(Cardinality(S))
  <2>1. Cardinality(S) \in A
    <3> HIDE DEF A
    <3> QED BY <1>3, <1>0
  <2> HIDE DEF Upto
  <2> QED BY <2>1
<1>5. PICK g \in [SUBSET S -> V] :
         \A s \in SUBSET S : Cardinality(s) <= Cardinality(S) => g[s] = Step(g, s)
  BY <1>4
<1>6. \A s \in SUBSET S : g[s] = Step(g, s)
  <2> HIDE DEF Step
  <2> QED BY <1>0, <1>5
<1> QED
  BY <1>6 DEF IsSubsetwise

(* What MapThenSumSet returns, for an f that is a function. *)
SumOf(f, S) == MapThenSumSet(LAMBDA x : f[x], S)

Chosen(s) == CHOOSE x \in s : TRUE

(* g gives the sum of f over each subset of S. *)
IsSum(g, f, S) ==
    /\ g \in [SUBSET S -> Nat]
    /\ \A s \in SUBSET S :
          g[s] = IF s = {} THEN 0 ELSE f[Chosen(s)] + g[s \ {Chosen(s)}]

(* The recursive function in the definition of MapThenFoldSet is one of those *)
(* that satisfy its equation.                                                 *)
SumEquation(g, f, S) ==
    g = [s \in SUBSET S |-> IF s = {} THEN 0
                            ELSE LET x == CHOOSE x \in s : TRUE IN f[x] + g[s \ {x}]]

LEMMA SumIsChosen ==
    ASSUME NEW f, NEW S
    PROVE  SumOf(f, S) = (CHOOSE g : SumEquation(g, f, S))[S]
BY DEF SumOf, MapThenSumSet, MapThenFoldSet, SumEquation

LEMMA SumExists ==
    ASSUME NEW S, IsFiniteSet(S), NEW f, \A x \in S : f[x] \in Nat
    PROVE  \E g : IsSum(g, f, S)
<1> DEFINE D == [x \in S |-> [v \in Nat |-> f[x] + v]]
           c == [s \in SUBSET S |-> Chosen(s)]
<1>1. \A x \in S : \A v \in Nat : D[x][v] = f[x] + v /\ D[x][v] \in Nat
  OBVIOUS
<1>2. \A s \in SUBSET S : c[s] = Chosen(s) /\ (s # {} => c[s] \in s)
  BY DEF Chosen
<1> HIDE DEF D, c
<1>3. PICK g : IsSubsetwise(g, S, Nat, 0, D, c)
  BY <1>1, <1>2, SubsetFunction
<1>4. g \in [SUBSET S -> Nat]
  BY <1>3 DEF IsSubsetwise
<1>5. ASSUME NEW s \in SUBSET S
      PROVE  g[s] = IF s = {} THEN 0 ELSE f[Chosen(s)] + g[s \ {Chosen(s)}]
  <2>1. CASE s = {}
    BY <1>3, <2>1 DEF IsSubsetwise
  <2>2. CASE s # {}
    <3>1. c[s] \in S /\ c[s] = Chosen(s) /\ g[s \ {c[s]}] \in Nat
      BY <1>2, <1>4, <2>2
    <3>2. g[s] = D[c[s]][g[s \ {c[s]}]]
      BY <1>3, <2>2 DEF IsSubsetwise
    <3> QED
      BY <1>1, <2>2, <3>1, <3>2
  <2> QED
    BY <2>1, <2>2
<1> QED
  BY <1>4, <1>5 DEF IsSum

(* Two functions that satisfy the equation agree. *)
LEMMA SumUnique ==
    ASSUME NEW T, IsFiniteSet(T), NEW S \in SUBSET T, NEW f, NEW g, IsSum(g, f, T),
           NEW h, SumEquation(h, f, S)
    PROVE  h[S] = g[S]
<1> DEFINE Same(m) == \A s \in SUBSET S : Cardinality(s) = m => h[s] = g[s]
           A == {m \in Nat : Same(m)}
<1>1. \A s \in SUBSET S :
         /\ IsFiniteSet(s) /\ Cardinality(s) \in Nat /\ (Cardinality(s) = 0 <=> s = {})
         /\ s # {} => Chosen(s) \in s /\ Cardinality(s \ {Chosen(s)}) = Cardinality(s) - 1
  <2> TAKE s \in SUBSET S
  <2>1. /\ IsFiniteSet(s) /\ Cardinality(s) \in Nat /\ (Cardinality(s) = 0 <=> s = {})
    BY FS_Subset, FS_CardinalityType, FS_EmptySet
  <2>2. s # {} => Chosen(s) \in s
    BY DEF Chosen
  <2> QED
    BY <2>1, <2>2, FS_RemoveElement
<1>2. \A s \in SUBSET S : h[s] = IF s = {} THEN 0 ELSE f[Chosen(s)] + h[s \ {Chosen(s)}]
  BY DEF SumEquation, Chosen
<1>3. \A s \in SUBSET S : g[s] = IF s = {} THEN 0 ELSE f[Chosen(s)] + g[s \ {Chosen(s)}]
  BY DEF IsSum
<1>4. Same(0)
  BY <1>1, <1>2, <1>3
<1>5. ASSUME NEW m \in Nat, Same(m)
      PROVE  Same(m + 1)
  <2> SUFFICES ASSUME NEW s \in SUBSET S, Cardinality(s) = m + 1
               PROVE  h[s] = g[s]
    OBVIOUS
  <2>1. s # {}
    <3>1. Cardinality(s) # 0
      OBVIOUS
    <3> QED
      BY <1>1, <3>1
  <2>2. s \ {Chosen(s)} \in SUBSET S /\ Cardinality(s \ {Chosen(s)}) = m
    BY <1>1, <2>1
  <2>3. h[s \ {Chosen(s)}] = g[s \ {Chosen(s)}]
    BY <1>5, <2>2
  <2> QED
    BY <1>2, <1>3, <2>1, <2>3
<1>6. A = Nat
  <2> HIDE DEF Same
  <2>1. 0 \in A
    BY <1>4
  <2>2. ASSUME NEW m \in A
        PROVE  m + 1 \in A
    BY <1>5
  <2>3. A \in SUBSET Nat
    OBVIOUS
  <2> HIDE DEF A
  <2> QED
    BY <2>1, <2>2, <2>3, SetInduction
<1>7. Same(Cardinality(S))
  <2>1. Cardinality(S) \in A
    <3> HIDE DEF A
    <3> QED
      BY <1>1, <1>6
  <2> HIDE DEF Same
  <2> QED
    BY <2>1
<1> QED
  BY <1>7

LEMMA SumIs ==
    ASSUME NEW T, IsFiniteSet(T), NEW f, NEW g, IsSum(g, f, T), NEW S \in SUBSET T
    PROVE  SumOf(f, S) = g[S]
<1> DEFINE h == [s \in SUBSET S |-> g[s]]
<1>1. SumEquation(h, f, S)
  <2>1. \A s \in SUBSET S : h[s] = IF s = {} THEN 0 ELSE f[Chosen(s)] + h[s \ {Chosen(s)}]
    BY DEF IsSum
  <2>2. h = [s \in SUBSET S |-> h[s]]
    OBVIOUS
  <2> HIDE DEF h
  <2>3. h = [s \in SUBSET S |-> IF s = {} THEN 0 ELSE f[Chosen(s)] + h[s \ {Chosen(s)}]]
    BY <2>1, <2>2
  <2> QED
    BY <2>3 DEF SumEquation, Chosen
<1> HIDE DEF h
<1>2. SumEquation(CHOOSE e : SumEquation(e, f, S), f, S)
  BY <1>1
<1> QED
  BY <1>2, SumIsChosen, SumUnique

(* Any element can be taken out first. *)
LEMMA SumTakesOut ==
    ASSUME NEW T, IsFiniteSet(T), NEW f, \A x \in T : f[x] \in Nat, NEW g, IsSum(g, f, T),
           NEW s \in SUBSET T, NEW x \in s
    PROVE  g[s] = f[x] + g[s \ {x}]
<1> DEFINE Out(m) == \A t \in SUBSET T : Cardinality(t) = m => \A y \in t : g[t] = f[y] + g[t \ {y}]
           A == {m \in Nat : Out(m)}
<1>1. \A t \in SUBSET T :
         /\ IsFiniteSet(t) /\ Cardinality(t) \in Nat /\ (Cardinality(t) = 0 <=> t = {})
         /\ \A y \in t : Cardinality(t \ {y}) = Cardinality(t) - 1
         /\ t # {} => Chosen(t) \in t
  <2> TAKE t \in SUBSET T
  <2>1. /\ IsFiniteSet(t) /\ Cardinality(t) \in Nat /\ (Cardinality(t) = 0 <=> t = {})
    BY FS_Subset, FS_CardinalityType, FS_EmptySet
  <2>2. t # {} => Chosen(t) \in t
    BY DEF Chosen
  <2> QED
    BY <2>1, <2>2, FS_RemoveElement
<1>2. \A t \in SUBSET T : g[t] \in Nat /\ (t # {} => g[t] = f[Chosen(t)] + g[t \ {Chosen(t)}])
  BY DEF IsSum
<1>3. Out(0)
  BY <1>1
<1>4. ASSUME NEW m \in Nat, Out(m)
      PROVE  Out(m + 1)
  <2> SUFFICES ASSUME NEW t \in SUBSET T, Cardinality(t) = m + 1, NEW y \in t
               PROVE  g[t] = f[y] + g[t \ {y}]
    OBVIOUS
  <2> DEFINE c == Chosen(t)
  <2>1. c \in t /\ g[t] = f[c] + g[t \ {c}]
    BY <1>1, <1>2
  <2> HIDE DEF c
  <2>2. CASE y = c
    BY <2>1, <2>2
  <2>3. CASE y # c
    <3>1. /\ t \ {c} \in SUBSET T /\ Cardinality(t \ {c}) = m /\ y \in t \ {c}
          /\ t \ {y} \in SUBSET T /\ Cardinality(t \ {y}) = m /\ c \in t \ {y}
          /\ t \ {c, y} \in SUBSET T
      BY <1>1, <2>1, <2>3
    <3>2. g[t \ {c}] = f[y] + g[(t \ {c}) \ {y}]
      BY <1>4, <3>1
    <3>3. g[t \ {y}] = f[c] + g[(t \ {y}) \ {c}]
      BY <1>4, <3>1
    <3>4. (t \ {c}) \ {y} = t \ {c, y} /\ (t \ {y}) \ {c} = t \ {c, y}
      OBVIOUS
    <3>5. f[c] \in Nat /\ f[y] \in Nat /\ g[t \ {c, y}] \in Nat
      BY <1>2, <2>1, <3>1
    <3> QED
      BY <2>1, <3>2, <3>3, <3>4, <3>5
  <2> QED
    BY <2>2, <2>3
<1>5. A = Nat
  <2> HIDE DEF Out
  <2>1. 0 \in A
    BY <1>3
  <2>2. ASSUME NEW m \in A
        PROVE  m + 1 \in A
    BY <1>4
  <2>3. A \in SUBSET Nat
    OBVIOUS
  <2> HIDE DEF A
  <2> QED
    BY <2>1, <2>2, <2>3, SetInduction
<1>6. Out(Cardinality(s))
  <2>1. Cardinality(s) \in A
    <3> HIDE DEF A
    <3> QED
      BY <1>1, <1>5
  <2> HIDE DEF Out
  <2> QED
    BY <2>1
<1> QED
  BY <1>6

(* The sum of naturals is a natural, that of one is it, and that over a       *)
(* larger set is no smaller.                                                  *)
LEMMA SumSingle ==
    ASSUME NEW T, IsFiniteSet(T), NEW f, \A x \in T : f[x] \in Nat, NEW x \in T
    PROVE  SumOf(f, {x}) = f[x]
<1>1. PICK g : IsSum(g, f, T)
  BY SumExists
<1>2. SumOf(f, {x}) = g[{x}]
  BY <1>1, SumIs
<1>3. g[{x}] = f[x] + g[{x} \ {x}]
  BY <1>1, SumTakesOut
<1>4. {x} \ {x} = {}
  OBVIOUS
<1>5. g[{}] = 0
  BY <1>1 DEF IsSum
<1>6. g[{x}] = f[x] + 0
  BY <1>3, <1>4, <1>5
<1>7. f[x] \in Nat
  OBVIOUS
<1>8. f[x] + 0 = f[x]
  BY <1>7
<1> QED
  BY <1>2, <1>6, <1>8

LEMMA SumIsNat ==
    ASSUME NEW T, IsFiniteSet(T), NEW f, \A x \in T : f[x] \in Nat, NEW S \in SUBSET T
    PROVE  SumOf(f, S) \in Nat
<1>1. PICK g : IsSum(g, f, T)
  BY SumExists
<1>2. SumOf(f, S) = g[S]
  BY <1>1, SumIs
<1> QED
  BY <1>1, <1>2 DEF IsSum

LEMMA SumGrows ==
    ASSUME NEW T, IsFiniteSet(T), NEW f, \A x \in T : f[x] \in Nat,
           NEW R \in SUBSET T, NEW S \in SUBSET R
    PROVE  SumOf(f, S) <= SumOf(f, R)
<1>1. PICK g : IsSum(g, f, T)
  BY SumExists
<1> DEFINE Less(m) == \A s \in SUBSET R : Cardinality(R \ s) = m => g[s] <= g[R]
           A == {m \in Nat : Less(m)}
<1>2. \A s \in SUBSET T : g[s] \in Nat
  BY <1>1 DEF IsSum
<1>a. ASSUME NEW s \in SUBSET T, NEW x \in s
      PROVE  g[s] = f[x] + g[s \ {x}]
  BY <1>1, SumTakesOut
<1>3. \A s \in SUBSET R :
         /\ IsFiniteSet(R \ s) /\ Cardinality(R \ s) \in Nat /\ (Cardinality(R \ s) = 0 <=> R \ s = {})
         /\ \A y \in R \ s : Cardinality((R \ s) \ {y}) = Cardinality(R \ s) - 1
  <2> TAKE s \in SUBSET R
  <2>1. IsFiniteSet(R \ s)
    BY FS_Subset
  <2> QED
    BY <2>1, FS_CardinalityType, FS_EmptySet, FS_RemoveElement
<1>4. Less(0)
  <2> SUFFICES ASSUME NEW s \in SUBSET R, Cardinality(R \ s) = 0
               PROVE  g[s] <= g[R]
    OBVIOUS
  <2>1. s = R
    BY <1>3
  <2> QED
    BY <1>2, <2>1
<1>5. ASSUME NEW m \in Nat, Less(m)
      PROVE  Less(m + 1)
  <2> SUFFICES ASSUME NEW s \in SUBSET R, Cardinality(R \ s) = m + 1
               PROVE  g[s] <= g[R]
    OBVIOUS
  <2>1. PICK y : y \in R \ s
    <3>1. Cardinality(R \ s) # 0
      OBVIOUS
    <3>2. R \ s # {}
      BY <1>3, <3>1
    <3> QED
      BY <3>2
  <2>2. s \cup {y} \in SUBSET R /\ R \ (s \cup {y}) = (R \ s) \ {y} /\ (s \cup {y}) \ {y} = s
    BY <2>1
  <2>3. Cardinality(R \ (s \cup {y})) = m
    <3>1. Cardinality((R \ s) \ {y}) = Cardinality(R \ s) - 1
      BY <1>3, <2>1
    <3> QED
      BY <2>2, <3>1
  <2>4. g[s \cup {y}] <= g[R]
    BY <1>5, <2>2, <2>3
  <2>5. g[s \cup {y}] = f[y] + g[s]
    BY <1>a, <2>2
  <2>6. f[y] \in Nat /\ g[s] \in Nat /\ g[R] \in Nat
    BY <1>2, <2>1
  <2> QED
    BY <2>4, <2>5, <2>6
<1>6. A = Nat
  <2> HIDE DEF Less
  <2>1. 0 \in A
    BY <1>4
  <2>2. ASSUME NEW m \in A
        PROVE  m + 1 \in A
    BY <1>5
  <2>3. A \in SUBSET Nat
    OBVIOUS
  <2> HIDE DEF A
  <2> QED
    BY <2>1, <2>2, <2>3, SetInduction
<1>7. Less(Cardinality(R \ S))
  <2>1. Cardinality(R \ S) \in A
    <3> HIDE DEF A
    <3> QED
      BY <1>3, <1>6
  <2> HIDE DEF Less
  <2> QED
    BY <2>1
<1>8. g[S] <= g[R]
  BY <1>7
<1> QED
  BY <1>1, <1>8, SumIs

LEMMA SumEmpty ==
    ASSUME NEW f
    PROVE  SumOf(f, {}) = 0
<1>1. IsFiniteSet({}) /\ \A x \in {} : f[x] \in Nat
  BY FS_EmptySet
<1>2. PICK g : IsSum(g, f, {})
  BY <1>1, SumExists
<1>3. SumOf(f, {}) = g[{}]
  BY <1>1, <1>2, SumIs
<1> QED
  BY <1>2, <1>3 DEF IsSum

(* A sum depends on what is summed up only, and that of two sets that have no *)
(* element in common is the two sums together.                                *)
LEMMA SumSame ==
    ASSUME NEW S, IsFiniteSet(S), NEW f, NEW g, \A x \in S : f[x] \in Nat /\ g[x] = f[x]
    PROVE  SumOf(g, S) = SumOf(f, S)
<1>1. PICK h : IsSum(h, f, S)
  BY SumExists
<1>2. \A s \in SUBSET S : s # {} => Chosen(s) \in S
  BY DEF Chosen
<1>3. ASSUME NEW s \in SUBSET S
      PROVE  h[s] = IF s = {} THEN 0 ELSE g[Chosen(s)] + h[s \ {Chosen(s)}]
  BY <1>1, <1>2 DEF IsSum
<1>4. IsSum(h, g, S)
  BY <1>1, <1>3 DEF IsSum
<1> QED
  BY <1>1, <1>4, SumIs

LEMMA SumOfBoth ==
    ASSUME NEW T, IsFiniteSet(T), NEW f, \A x \in T : f[x] \in Nat,
           NEW R \in SUBSET T, NEW S \in SUBSET T, R \cap S = {}
    PROVE  SumOf(f, R \cup S) = SumOf(f, R) + SumOf(f, S)
<1>1. PICK g : IsSum(g, f, T)
  BY SumExists
<1> DEFINE Both(m) == \A s \in SUBSET (T \ R) : Cardinality(s) = m => g[R \cup s] = g[R] + g[s]
           A == {m \in Nat : Both(m)}
<1>2. /\ g[{}] = 0 /\ \A s \in SUBSET T : g[s] \in Nat
      /\ \A x \in T : f[x] \in Nat
  BY <1>1 DEF IsSum
<1>a. ASSUME NEW s \in SUBSET T, NEW x \in s
      PROVE  g[s] = f[x] + g[s \ {x}]
  BY <1>1, SumTakesOut
<1>3. \A s \in SUBSET (T \ R) :
         /\ Cardinality(s) \in Nat /\ (Cardinality(s) = 0 <=> s = {})
         /\ \A y \in s : Cardinality(s \ {y}) = Cardinality(s) - 1
  <2> TAKE s \in SUBSET (T \ R)
  <2>1. IsFiniteSet(s)
    BY FS_Subset
  <2> QED
    BY <2>1, FS_CardinalityType, FS_EmptySet, FS_RemoveElement
<1>4. Both(0)
  <2> SUFFICES ASSUME NEW s \in SUBSET (T \ R), Cardinality(s) = 0
               PROVE  g[R \cup s] = g[R] + g[s]
    OBVIOUS
  <2>1. s = {} /\ R \cup s = R
    BY <1>3
  <2> QED
    BY <1>2, <2>1
<1>5. ASSUME NEW m \in Nat, Both(m)
      PROVE  Both(m + 1)
  <2> SUFFICES ASSUME NEW s \in SUBSET (T \ R), Cardinality(s) = m + 1
               PROVE  g[R \cup s] = g[R] + g[s]
    OBVIOUS
  <2>1. PICK y : y \in s
    <3>1. Cardinality(s) # 0
      OBVIOUS
    <3> QED
      BY <1>3, <3>1
  <2>2. /\ s \ {y} \in SUBSET (T \ R) /\ Cardinality(s \ {y}) = m
    BY <1>3, <2>1
  <2>3. g[R \cup (s \ {y})] = g[R] + g[s \ {y}]
    BY <1>5, <2>2
  <2>4. (R \cup s) \ {y} = R \cup (s \ {y}) /\ R \cup s \in SUBSET T /\ y \in R \cup s
    BY <2>1
  <2>5. g[R \cup s] = f[y] + g[R \cup (s \ {y})]
    <3>1. g[R \cup s] = f[y] + g[(R \cup s) \ {y}]
      BY <1>a, <2>4
    <3> QED
      BY <2>4, <3>1
  <2>6. g[s] = f[y] + g[s \ {y}]
    BY <1>a, <2>1
  <2>7. f[y] \in Nat /\ g[R] \in Nat /\ g[s \ {y}] \in Nat
    BY <1>2, <2>1
  <2> QED
    BY <2>3, <2>5, <2>6, <2>7
<1>6. A = Nat
  <2> HIDE DEF Both
  <2>1. 0 \in A
    BY <1>4
  <2>2. ASSUME NEW m \in A
        PROVE  m + 1 \in A
    BY <1>5
  <2>3. A \in SUBSET Nat
    OBVIOUS
  <2> HIDE DEF A
  <2> QED
    BY <2>1, <2>2, <2>3, SetInduction
<1>7. S \in SUBSET (T \ R) /\ Both(Cardinality(S))
  <2>1. S \in SUBSET (T \ R)
    OBVIOUS
  <2>2. Cardinality(S) \in A
    <3> HIDE DEF A
    <3> QED
      BY <1>3, <1>6, <2>1
  <2> HIDE DEF Both
  <2> QED
    BY <2>1, <2>2
<1>8. g[R \cup S] = g[R] + g[S]
  BY <1>7
<1>9. R \cup S \in SUBSET T
  OBVIOUS
<1> QED
  BY <1>1, <1>8, <1>9, SumIs
-----------------------------------------------------------------------------
(*                                 Trees                                   *)

(* A tree, given by what comes before each but the root. *)
IsTree(B, root, prev) ==
    /\ IsFiniteSet(B) /\ root \in B /\ prev \in [B \ {root} -> B]
    /\ \A S \in SUBSET (B \ {root}) : S # {} => \E b \in S : prev[b] \notin S

(* What the root has, and every node if the one before has it, all have.      *)
LEMMA TreeInduction ==
    ASSUME NEW B, NEW root, NEW prev, IsTree(B, root, prev), NEW A,
            root \in A, \A b \in B \ {root} : prev[b] \in A => b \in A
    PROVE  B \subseteq A
<1> SUFFICES ASSUME B \ A # {} PROVE FALSE
  OBVIOUS
<1>1. B \ A \in SUBSET (B \ {root})
  OBVIOUS
<1>2. PICK b \in B \ A : prev[b] \notin B \ A
  BY <1>1 DEF IsTree
<1>3. prev[b] \in B
  BY <1>1 DEF IsTree
<1> QED
  BY <1>1, <1>2, <1>3

(* A function on some of the nodes, and on all that come before them.         *)
IsGrownUpTo(B, root, prev, g, U, V, base, D) ==
    /\ root \in U /\ U \subseteq B
    /\ g \in [U -> V] /\ g[root] = base
    /\ \A b \in U \ {root} : prev[b] \in U /\ g[b] = D[b][g[prev[b]]]

LEMMA TreeFunction ==
    ASSUME NEW B, NEW root, NEW prev, IsTree(B, root, prev),
           NEW V, NEW base \in V, NEW D, \A b \in B \ {root} : \A v \in V : D[b][v] \in V
    PROVE  \E g : IsGrownUpTo(B, root, prev, g, B, V, base, D)
<1> DEFINE Reached(m) == \E U, g : IsGrownUpTo(B, root, prev, g, U, V, base, D)
                                    /\ (U = B \/ Cardinality(U) >= m)
           A == {m \in Nat : Reached(m)}
<1>a. root \in B /\ prev \in [B \ {root} -> B] /\ IsFiniteSet(B)
  BY DEF IsTree
<1>1. Reached(0)
  <2> DEFINE U == {root}
             g == [b \in U |-> base]
  <2>2. Cardinality(U) >= 0
    <3>1. Cardinality(U) = 1
      BY FS_Singleton
    <3> QED
      BY <3>1
  <2>3. g \in [U -> V] /\ g[root] = base
    OBVIOUS
  <2> HIDE DEF g
  <2>1. IsGrownUpTo(B, root, prev, g, U, V, base, D)
    BY <1>a, <2>3 DEF IsGrownUpTo
  <2> HIDE DEF U
  <2> QED
    BY <2>1, <2>2
<1>2. ASSUME NEW m \in Nat, Reached(m)
      PROVE  Reached(m + 1)
  <2>1. PICK U, g : IsGrownUpTo(B, root, prev, g, U, V, base, D) /\ (U = B \/ Cardinality(U) >= m)
    BY <1>2
  <2> HIDE DEF Reached
  <2>2. CASE U = B
    BY <2>1, <2>2 DEF Reached
  <2>3. CASE U # B
    <3>1. /\ root \in U /\ U \subseteq B /\ g \in [U -> V] /\ g[root] = base
          /\ \A b \in U \ {root} : prev[b] \in U /\ g[b] = D[b][g[prev[b]]]
      BY <2>1 DEF IsGrownUpTo
    <3>2. PICK k \in B \ U : prev[k] \notin B \ U
      <4>1. B \ U \in SUBSET (B \ {root}) /\ B \ U # {}
        BY <2>3, <3>1
      <4> QED
        BY <4>1 DEF IsTree
    <3>3. k \in B \ {root} /\ prev[k] \in U
      BY <1>a, <3>1, <3>2
    <3> DEFINE W == U \cup {k}
               e == D[k][g[prev[k]]]
               h == [b \in W |-> IF b = k THEN e ELSE g[b]]
    <3>4. e \in V
      BY <3>1, <3>3
    <3>5. e = D[k][g[prev[k]]]
      OBVIOUS
    <3> HIDE DEF e
    <3>6. h \in [W -> V] /\ h[k] = e /\ \A b \in U : h[b] = g[b]
      BY <3>1, <3>2, <3>4
    <3> HIDE DEF h
    <3>7. ASSUME NEW b \in W \ {root}
          PROVE  prev[b] \in W /\ h[b] = D[b][h[prev[b]]]
      <4>1. CASE b = k
        BY <3>3, <3>5, <3>6, <4>1
      <4>2. CASE b # k
        <5>1. prev[b] \in U /\ g[b] = D[b][g[prev[b]]]
          BY <3>1, <4>2
        <5> QED
          BY <3>6, <4>2, <5>1
      <4> QED
        BY <4>1, <4>2
    <3>8. h[root] = base /\ root \in W /\ W \subseteq B
      BY <3>1, <3>6
    <3>9. IsGrownUpTo(B, root, prev, h, W, V, base, D)
      BY <3>6, <3>7, <3>8 DEF IsGrownUpTo
    <3>10. Cardinality(W) >= m + 1
      <4>1. IsFiniteSet(U)
        BY <1>a, <3>1, FS_Subset
      <4>2. Cardinality(W) = Cardinality(U) + 1 /\ Cardinality(U) \in Nat
        BY <3>2, <4>1, FS_AddElement, FS_CardinalityType
      <4> QED
        BY <2>1, <2>3, <4>2
    <3> QED
      BY <3>9, <3>10 DEF Reached
  <2> QED
    BY <2>2, <2>3
<1> HIDE DEF Reached
<1>3. A = Nat
  <2>1. 0 \in A
    BY <1>1
  <2>2. ASSUME NEW m \in A
        PROVE  m + 1 \in A
    BY <1>2
  <2>3. A \in SUBSET Nat
    OBVIOUS
  <2> HIDE DEF A
  <2> QED
    BY <2>1, <2>2, <2>3, SetInduction
<1>4. Cardinality(B) \in Nat
  BY <1>a, FS_CardinalityType
<1>5. Reached(Cardinality(B) + 1)
  BY <1>3, <1>4
<1>6. PICK U, g : IsGrownUpTo(B, root, prev, g, U, V, base, D)
                  /\ (U = B \/ Cardinality(U) >= Cardinality(B) + 1)
  BY <1>5 DEF Reached
<1>7. U = B
  <2>1. U \subseteq B
    BY <1>6 DEF IsGrownUpTo
  <2>2. Cardinality(U) <= Cardinality(B) /\ Cardinality(U) \in Nat
    BY <1>a, <2>1, FS_Subset, FS_CardinalityType
  <2> QED
    BY <1>4, <1>6, <2>2
<1> QED
  BY <1>6, <1>7

(* The height of a node is one more than that of the node before.             *)
HeightEquation(B, root, prev, h) ==
    h = [b \in B |-> IF b = root THEN 0 ELSE h[prev[b]] + 1]

LEMMA TreeHeights ==
    ASSUME NEW B, NEW root, NEW prev, IsTree(B, root, prev),
           NEW h, h = CHOOSE g : HeightEquation(B, root, prev, g)
    PROVE  /\ h \in [B -> Nat] /\ h[root] = 0
           /\ \A b \in B \ {root} : h[b] = h[prev[b]] + 1
<1> DEFINE D == [b \in B |-> [v \in Nat |-> v + 1]]
           V == Nat
<1>1. \A b \in B : \A v \in V : D[b][v] = v + 1 /\ D[b][v] \in V
  OBVIOUS
<1>a. PICK base \in V : base = 0
  OBVIOUS
<1> HIDE DEF D, V
<1>2. PICK g : IsGrownUpTo(B, root, prev, g, B, V, base, D)
  BY <1>1, TreeFunction
<1>3. HeightEquation(B, root, prev, g)
  <2>1. g = [b \in B |-> g[b]]
    BY <1>2 DEF IsGrownUpTo
  <2>2. ASSUME NEW b \in B
        PROVE  g[b] = IF b = root THEN 0 ELSE g[prev[b]] + 1
    <3>1. CASE b = root
      BY <1>a, <1>2, <3>1 DEF IsGrownUpTo
    <3>2. CASE b # root
      <4>1. prev[b] \in B /\ g[b] = D[b][g[prev[b]]] /\ g \in [B -> V]
        BY <1>2, <3>2 DEF IsGrownUpTo
      <4>2. g[prev[b]] \in V
        BY <4>1
      <4> QED
        BY <1>1, <3>2, <4>1, <4>2
    <3> QED
      BY <3>1, <3>2
  <2> QED
    BY <2>1, <2>2 DEF HeightEquation
<1>4. HeightEquation(B, root, prev, h)
  BY <1>3
<1>6. h = [b \in B |-> h[b]] /\ \A b \in B : h[b] = IF b = root THEN 0 ELSE h[prev[b]] + 1
  BY <1>4 DEF HeightEquation
<1>7. root \in B /\ \A b \in B \ {root} : prev[b] \in B
  BY DEF IsTree
<1> DEFINE A == {b \in B : h[b] \in Nat}
<1>8. B \subseteq A
  <2>1. root \in A
    BY <1>6, <1>7
  <2>2. ASSUME NEW b \in B \ {root}, prev[b] \in A
        PROVE  b \in A
    BY <1>6, <1>7, <2>2
  <2> HIDE DEF A
  <2> QED
    BY <2>1, <2>2, TreeInduction
<1>9. h \in [B -> Nat]
  BY <1>6, <1>8
<1> QED
  BY <1>6, <1>7, <1>9
=============================================================================

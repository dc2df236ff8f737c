------------------------- MODULE WalletSyncProofs --------------------------
(***************************************************************************)
(* What WalletSync keeps, for all constants: its types, that at most one of*)
(* the transactions that spend a coin is in the wallet, and that what is   *)
(* verified is on the chain that the verifier knows of.                    *)
(***************************************************************************)
EXTENDS WalletSync, Recursion

-----------------------------------------------------------------------------
(*                            Chains of blocks                             *)

LEMMA BlocksAreTree == IsTree(Blocks, Genesis, PrevBlock)
BY BlocksLinked, FinitelyMany DEF IsTree

(* The height of a block is one more than that of the block before. *)
LEMMA Heights ==
    /\ HeightOf \in [Blocks -> Nat] /\ HeightOf[Genesis] = 0
    /\ \A b \in Blocks \ {Genesis} : HeightOf[b] = HeightOf[PrevBlock[b]] + 1
<1> DEFINE h == CHOOSE g : HeightEquation(Blocks, Genesis, PrevBlock, g)
<1>1. HeightOf = [b \in Blocks |-> h[b]]
  BY DEF HeightOf, HeightEquation
<1> HIDE DEF h
<1>2. /\ h \in [Blocks -> Nat] /\ h[Genesis] = 0
      /\ \A b \in Blocks \ {Genesis} : h[b] = h[PrevBlock[b]] + 1
  BY BlocksAreTree, TreeHeights DEF h
<1>3. Genesis \in Blocks /\ \A b \in Blocks \ {Genesis} : PrevBlock[b] \in Blocks
  BY BlocksLinked
<1> QED
  BY <1>1, <1>2, <1>3

(* The chain to a block is that to the block before, and the block. *)
ChainEquation(c) == c = [b \in Blocks |-> IF b = Genesis THEN {b} ELSE c[PrevBlock[b]] \cup {b}]

LEMMA Chains ==
    /\ ChainTo \in [Blocks -> SUBSET Blocks] /\ ChainTo[Genesis] = {Genesis}
    /\ \A b \in Blocks \ {Genesis} : ChainTo[b] = ChainTo[PrevBlock[b]] \cup {b}
<1> DEFINE D == [b \in Blocks |-> [v \in SUBSET Blocks |-> v \cup {b}]]
           V == SUBSET Blocks
<1>1. \A b \in Blocks : \A v \in V : D[b][v] = v \cup {b} /\ D[b][v] \in V
  OBVIOUS
<1>2. {Genesis} \in V
  BY BlocksLinked
<1> HIDE DEF D, V
<1>3. PICK base \in V : base = {Genesis}
  BY <1>2
<1>4. PICK g : IsGrownUpTo(Blocks, Genesis, PrevBlock, g, Blocks, V, base, D)
  BY <1>1, BlocksAreTree, TreeFunction
<1>5. ChainEquation(g)
  <2>1. g = [b \in Blocks |-> g[b]]
    BY <1>4 DEF IsGrownUpTo
  <2>2. ASSUME NEW b \in Blocks
        PROVE  g[b] = IF b = Genesis THEN {b} ELSE g[PrevBlock[b]] \cup {b}
    BY <1>1, <1>3, <1>4 DEF IsGrownUpTo
  <2> QED
    BY <2>1, <2>2 DEF ChainEquation
<1> DEFINE c == CHOOSE c : ChainEquation(c)
<1>6. ChainEquation(c)
  BY <1>5
<1>7. ChainTo = [b \in Blocks |-> c[b]]
  BY DEF ChainTo, ChainEquation
<1> HIDE DEF c
<1>8. \A b \in Blocks : ChainTo[b] = c[b] /\ c[b] = IF b = Genesis THEN {b} ELSE c[PrevBlock[b]] \cup {b}
  BY <1>6, <1>7 DEF ChainEquation
<1>9. Genesis \in Blocks /\ \A b \in Blocks \ {Genesis} : PrevBlock[b] \in Blocks
  BY BlocksLinked
<1> DEFINE A == {b \in Blocks : ChainTo[b] \in SUBSET Blocks}
<1>10. Blocks \subseteq A
  <2>1. Genesis \in A
    BY <1>8, <1>9
  <2>2. ASSUME NEW b \in Blocks \ {Genesis}, PrevBlock[b] \in A
        PROVE  b \in A
    <3>1. ChainTo[b] = c[PrevBlock[b]] \cup {b}
      BY <1>8
    <3>2. PrevBlock[b] \in Blocks
      BY <1>9
    <3>3. c[PrevBlock[b]] = ChainTo[PrevBlock[b]]
      BY <1>8, <3>2
    <3>4. ChainTo[PrevBlock[b]] \in SUBSET Blocks
      BY <2>2
    <3> QED
      BY <3>1, <3>3, <3>4
  <2> HIDE DEF A
  <2> QED
    BY <2>1, <2>2, BlocksAreTree, TreeInduction
<1>11. ChainTo \in [Blocks -> SUBSET Blocks]
  BY <1>7, <1>10
<1> QED
  BY <1>8, <1>9, <1>11

(* A block is in the chain to it, and above all the others there. *)
LEMMA TipOfChain ==
    ASSUME NEW b \in Blocks
    PROVE  /\ b \in ChainTo[b]
           /\ \A k \in ChainTo[b] : k \in Blocks /\ (k = b \/ HeightOf[k] < HeightOf[b])
<1> DEFINE A == {x \in Blocks : x \in ChainTo[x] /\ \A k \in ChainTo[x] :
                    k \in Blocks /\ (k = x \/ HeightOf[k] < HeightOf[x])}
<1>0. Genesis \in Blocks /\ \A x \in Blocks \ {Genesis} : PrevBlock[x] \in Blocks
  BY BlocksLinked
<1>1. Genesis \in A
  BY <1>0, Chains
<1>2. ASSUME NEW x \in Blocks \ {Genesis}, PrevBlock[x] \in A
      PROVE  x \in A
  <2>1. ChainTo[x] = ChainTo[PrevBlock[x]] \cup {x} /\ HeightOf[x] = HeightOf[PrevBlock[x]] + 1
    BY Chains, Heights
  <2>2. \A k \in Blocks : HeightOf[k] \in Nat
    BY Heights
  <2>3. ASSUME NEW k \in ChainTo[x], k # x
        PROVE  k \in Blocks /\ HeightOf[k] < HeightOf[x]
    <3>1. k \in Blocks /\ (k = PrevBlock[x] \/ HeightOf[k] < HeightOf[PrevBlock[x]])
      BY <1>2, <2>1, <2>3
    <3> QED
      BY <1>0, <2>1, <2>2, <3>1
  <2> QED
    BY <2>1, <2>3
<1> HIDE DEF A
<1>3. b \in A
  BY <1>1, <1>2, BlocksAreTree, TreeInduction
<1> QED
  BY <1>3 DEF A

(* Of two blocks in a chain, the chain to the upper one has the lower one. *)
LEMMA ChainsNest ==
    ASSUME NEW b \in Blocks, NEW k \in ChainTo[b]
    PROVE  /\ ChainTo[k] \subseteq ChainTo[b]
           /\ \A j \in ChainTo[b] : HeightOf[j] <= HeightOf[k] => j \in ChainTo[k]
<1> DEFINE Nested(x) == \A n \in ChainTo[x] :
               /\ ChainTo[n] \subseteq ChainTo[x]
               /\ \A j \in ChainTo[x] : HeightOf[j] <= HeightOf[n] => j \in ChainTo[n]
           A == {x \in Blocks : Nested(x)}
<1>0. Genesis \in Blocks /\ \A x \in Blocks \ {Genesis} : PrevBlock[x] \in Blocks
  BY BlocksLinked
<1>1. Genesis \in A
  BY <1>0, Chains
<1>2. ASSUME NEW x \in Blocks \ {Genesis}, PrevBlock[x] \in A
      PROVE  x \in A
  <2>1. ChainTo[x] = ChainTo[PrevBlock[x]] \cup {x} /\ HeightOf[x] = HeightOf[PrevBlock[x]] + 1
    BY Chains, Heights
  <2>2. ASSUME NEW n \in ChainTo[x]
        PROVE  ChainTo[n] \subseteq ChainTo[x]
    BY <1>2, <2>1
  <2>3. ASSUME NEW n \in ChainTo[x], NEW j \in ChainTo[x], HeightOf[j] <= HeightOf[n]
        PROVE  j \in ChainTo[n]
    <3>1. CASE n = x
      BY <3>1
    <3>2. CASE n # x
      <4>1. n \in ChainTo[PrevBlock[x]]
        BY <2>1, <3>2
      <4>2. n \in Blocks /\ HeightOf[n] < HeightOf[x]
        BY <3>2, TipOfChain
      <4>3. j # x
        BY <2>3, <4>2, Heights
      <4>4. j \in ChainTo[PrevBlock[x]]
        BY <2>1, <4>3
      <4> QED
        BY <1>2, <2>3, <4>1, <4>4
    <3> QED
      BY <3>1, <3>2
  <2> QED
    BY <2>2, <2>3
<1> HIDE DEF A
<1>3. b \in A
  BY <1>1, <1>2, BlocksAreTree, TreeInduction
<1> QED
  BY <1>3 DEF A

(* A chain has a block at every height up to its own, and the genesis at 0. *)
LEMMA EveryHeight ==
    ASSUME NEW b \in Blocks, NEW h \in 0 .. HeightOf[b]
    PROVE  \E k \in ChainTo[b] : HeightOf[k] = h
<1> DEFINE Full(x) == \A n \in 0 .. HeightOf[x] : \E k \in ChainTo[x] : HeightOf[k] = n
           A == {x \in Blocks : Full(x)}
<1>0. Genesis \in Blocks /\ \A x \in Blocks \ {Genesis} : PrevBlock[x] \in Blocks
  BY BlocksLinked
<1>1. Genesis \in A
  BY <1>0, Chains, Heights
<1>2. ASSUME NEW x \in Blocks \ {Genesis}, PrevBlock[x] \in A
      PROVE  x \in A
  <2>1. ChainTo[x] = ChainTo[PrevBlock[x]] \cup {x} /\ HeightOf[x] = HeightOf[PrevBlock[x]] + 1
    BY Chains, Heights
  <2>2. HeightOf[PrevBlock[x]] \in Nat
    BY <1>0, Heights
  <2>3. ASSUME NEW n \in 0 .. HeightOf[x]
        PROVE  \E k \in ChainTo[x] : HeightOf[k] = n
    <3>1. CASE n = HeightOf[x]
      BY <2>1, <3>1
    <3>2. CASE n # HeightOf[x]
      <4>1. n \in 0 .. HeightOf[PrevBlock[x]]
        BY <2>1, <2>2, <3>2
      <4> QED
        BY <1>2, <2>1, <4>1
    <3> QED
      BY <3>1, <3>2
  <2> QED
    BY <2>3
<1> HIDE DEF A
<1>3. b \in A
  BY <1>1, <1>2, BlocksAreTree, TreeInduction
<1> QED
  BY <1>3 DEF A

LEMMA GenesisIsBelow ==
    ASSUME NEW b \in Blocks
    PROVE  HeaderAt(b, 0) = {Genesis}
<1>0. Genesis \in Blocks /\ \A x \in Blocks \ {Genesis} : PrevBlock[x] \in Blocks
  BY BlocksLinked
<1>1. ASSUME NEW k \in ChainTo[b], HeightOf[k] = 0
      PROVE  k = Genesis
  <2>1. k \in Blocks
    BY TipOfChain
  <2>2. CASE k # Genesis
    <3>1. HeightOf[k] = HeightOf[PrevBlock[k]] + 1 /\ HeightOf[PrevBlock[k]] \in Nat
      BY <1>0, <2>1, <2>2, Heights
    <3> QED
      BY <1>1, <3>1
  <2> QED
    BY <2>2
<1>2. PICK k \in ChainTo[b] : HeightOf[k] = 0
  <2>1. HeightOf[b] \in Nat
    BY Heights
  <2>2. 0 \in 0 .. HeightOf[b]
    BY <2>1
  <2> QED
    BY <2>2, EveryHeight
<1> QED
  BY <1>1, <1>2 DEF HeaderAt

LEMMA LastCommonIs ==
    ASSUME NEW b \in Blocks, NEW c \in Blocks
    PROVE  /\ LastCommon(b, c) \in 0 .. HeightOf[b] /\ LastCommon(b, c) \in Nat
           /\ HeaderAt(b, LastCommon(b, c)) = HeaderAt(c, LastCommon(b, c))
<1> DEFINE Same(h) == HeaderAt(b, h) = HeaderAt(c, h)
           S == {h \in 0 .. HeightOf[b] : Same(h)}
           L == Max(S)
<1>1. HeightOf[b] \in Nat
  BY Heights
<1>2. 0 \in S
  <2>1. Same(0)
    BY GenesisIsBelow
  <2> QED
    BY <1>1, <2>1
<1>3. S \in SUBSET Nat /\ IsFiniteSet(S)
  <2>1. IsFiniteSet(0 .. HeightOf[b])
    BY <1>1, FS_Interval
  <2> QED
    BY <1>1, <2>1, FS_Subset
<1>4. L \in S /\ \A h \in S : h <= L
  <2> HIDE DEF S
  <2> QED
    BY <1>2, <1>3, LargestOf
<1> HIDE DEF L
<1>5. L \in 0 .. HeightOf[b] /\ Same(L) /\ \A h \in L + 1 .. HeightOf[b] : ~ Same(h)
  <2> HIDE DEF Same
  <2> QED
    BY <1>1, <1>4
<1> DEFINE M == LastCommon(b, c)
<1>6. M \in 0 .. HeightOf[b] /\ HeaderAt(b, M) = HeaderAt(c, M)
  BY <1>5 DEF LastCommon
<1> HIDE DEF M
<1>7. M \in Nat
  BY <1>1, <1>6
<1> QED
  BY <1>6, <1>7 DEF M

(* Up to the last common height two chains have the same blocks. *)
LEMMA BelowLastCommon ==
    ASSUME NEW b \in Blocks, NEW c \in Blocks,
           NEW k \in ChainTo[c], HeightOf[k] <= LastCommon(b, c)
    PROVE  k \in ChainTo[b]
<1>1. PICK m \in 0 .. HeightOf[b] : m = LastCommon(b, c) /\ HeaderAt(b, m) = HeaderAt(c, m)
  BY LastCommonIs
<1>2. PICK j \in ChainTo[b] : HeightOf[j] = m
  BY EveryHeight
<1>3. j \in ChainTo[c]
  BY <1>1, <1>2 DEF HeaderAt
<1>4. HeightOf[k] <= HeightOf[j]
  BY <1>1, <1>2
<1>5. k \in ChainTo[j]
  BY <1>3, <1>4, ChainsNest
<1> QED
  BY <1>2, <1>5, ChainsNest

LEMMA HighestOf ==
    ASSUME NEW B \in SUBSET Blocks, B # {}
    PROVE  \E x \in B : \A y \in B : HeightOf[y] <= HeightOf[x]
<1> DEFINE Has(s) == s = {} \/ \E x \in s : \A y \in s : HeightOf[y] <= HeightOf[x]
           A == {s \in SUBSET Blocks : Has(s)}
<1>1. {} \in A
  OBVIOUS
<1>2. ASSUME NEW s \in SUBSET Blocks, s # {}
      PROVE  \E x \in s : s \ {x} \in A => s \in A
  <2>1. PICK x \in s : TRUE
    BY <1>2
  <2>a. \A y \in Blocks : HeightOf[y] \in Nat
    BY Heights
  <2>2. ASSUME s \ {x} \in A
        PROVE  Has(s)
    <3>1. CASE s \ {x} = {}
      BY <2>a, <3>1
    <3>2. CASE s \ {x} # {}
      <4>1. PICK z \in s \ {x} : \A y \in s \ {x} : HeightOf[y] <= HeightOf[z]
        BY <2>2, <3>2
      <4>2. CASE HeightOf[x] <= HeightOf[z]
        BY <4>1, <4>2
      <4>3. CASE ~ (HeightOf[x] <= HeightOf[z])
        <5>1. \A y \in s : HeightOf[y] <= HeightOf[x]
          BY <2>a, <4>1, <4>3
        <5> QED
          BY <5>1
      <4> QED
        BY <4>2, <4>3
    <3> QED
      BY <3>1, <3>2
  <2> QED
    BY <2>2
<1>3. SUBSET Blocks \subseteq A
  <2> HIDE DEF A
  <2> QED
    BY <1>1, <1>2, FinitelyMany, SubsetInduction
<1> QED
  BY <1>3

(* The top of an object is above all of its blocks. *)
LEMMA TopIsAbove ==
    ASSUME NEW b \in Blocks
    PROVE  TopOf(ChainOf[b]) \in Blocks /\ b \in ChainTo[TopOf(ChainOf[b])]
<1> DEFINE c == ChainOf[b]
           B == {x \in Blocks : ChainOf[x] = c}
<1>1. B \in SUBSET Blocks /\ B # {}
  OBVIOUS
<1>2. PICK x \in B : \A y \in B : HeightOf[y] <= HeightOf[x]
  <2> HIDE DEF B
  <2> QED
    BY <1>1, HighestOf
<1>3. x \in Blocks /\ ChainOf[x] = c
  OBVIOUS
<1>4. \A k \in Blocks : ChainOf[k] = c => HeightOf[k] <= HeightOf[x]
  BY <1>2
<1> DEFINE t == TopOf(c)
<1>5. t \in Blocks /\ ChainOf[t] = c /\ \A k \in Blocks : ChainOf[k] = c => HeightOf[k] <= HeightOf[t]
  <2> HIDE DEF c
  <2> QED
    BY <1>3, <1>4 DEF TopOf
<1> HIDE DEF t
<1>6. b \in ChainTo[t] \/ t \in ChainTo[b]
  BY <1>5, ObjectsAreBranches
<1>7. HeightOf[b] <= HeightOf[t] /\ HeightOf[b] \in Nat /\ HeightOf[t] \in Nat
  BY <1>5, Heights
<1>8. ASSUME t \in ChainTo[b]
      PROVE  b \in ChainTo[t]
  <2>1. t = b \/ HeightOf[t] < HeightOf[b]
    BY <1>8, TipOfChain
  <2>2. t = b
    BY <1>7, <2>1
  <2> QED
    BY <1>8, <2>2
<1> QED
  BY <1>5, <1>6, <1>8 DEF t

-----------------------------------------------------------------------------
(*                              The wallet                                 *)

Wallets == [hist : [Addrs -> Histories], txs : SUBSET Txs,
            spent : [Outpoints -> Txs \cup {None}], verified : [Txs -> Blocks \cup {None}],
            unverified : [Txs -> Nat \cup {None}], unconfirmed : SUBSET Txs]

(* A coin is marked with the transaction that spends it, and with no other. *)
CoinsMarked(w) ==
    /\ \A t \in w.txs : \A o \in Inputs[t] : w.spent[o] = t
    /\ \A o \in Outpoints :
         w.spent[o] # None => w.spent[o] \in w.txs /\ o \in Inputs[w.spent[o]]

(* Nothing is verified in w that is not in v, and there by the same block. *)
VerifiedIn(v, w) == \A t \in Txs : w.verified[t] \in {v.verified[t], None}

(* What an operation on the stored transactions keeps. *)
Keeps(v, w) == w \in Wallets /\ w.hist = v.hist /\ CoinsMarked(w) /\ VerifiedIn(v, w)

(* What one on the heights keeps. *)
SameCoins(v, w) == w.txs = v.txs /\ w.spent = v.spent /\ w.hist = v.hist

LEMMA HistoryPairs ==
    ASSUME NEW h \in Histories, NEW p \in h
    PROVE  p[1] \in Txs /\ p[2] \in Nat
BY DEF Histories

LEMMA WithoutType ==
    ASSUME NEW D, NEW R, NEW f \in [D -> R \cup {None}], NEW S
    PROVE  /\ Without(f, S) \in [D -> R \cup {None}]
           /\ \A x \in D : Without(f, S)[x] = IF x \in S THEN None ELSE f[x]
BY DEF Without

LEMMA InputsAreOutpoints ==
    ASSUME NEW t \in Txs
    PROVE  Inputs[t] \subseteq Outpoints /\ t \in Outpoints /\ t # None
BY TxsTyped, NoneIsNothing DEF Outpoints

(* The fold of get_depending_transactions *)
DependsEquation(h, w, S, n) ==
    h = [s \in SUBSET (1 .. n) |->
            IF s = {} THEN S
            ELSE h[s \ {Max(s)}] \cup ({w.spent[u] : u \in h[s \ {Max(s)}]} \ {None})]

LEMMA DependingIsChosen ==
    ASSUME NEW w, NEW S, Cardinality(Txs) \in Nat
    PROVE  WithDepending(w, S) =
             (CHOOSE h : DependsEquation(h, w, S, Cardinality(Txs)))[1 .. Cardinality(Txs)]
BY DEF WithDepending, FoldLeft, MapThenFoldSet, DependsEquation

(* What depends on stored transactions is stored. *)
LEMMA DependingIsStored ==
    ASSUME NEW w \in Wallets, CoinsMarked(w), NEW S \in SUBSET w.txs
    PROVE  S \subseteq WithDepending(w, S) /\ WithDepending(w, S) \subseteq w.txs
<1> DEFINE n == Cardinality(Txs)
           V == {T \in SUBSET w.txs : S \subseteq T}
           More(T) == T \cup ({w.spent[u] : u \in T} \ {None})
           D == [i \in 1 .. n |-> [T \in V |-> More(T)]]
           c == [s \in SUBSET (1 .. n) |-> Max(s)]
<1>1. n \in Nat /\ IsFiniteSet(1 .. n)
  BY FinitelyMany, FS_CardinalityType, FS_Interval
<1>2. ASSUME NEW T \in V
      PROVE  More(T) \in V
  <2>1. ASSUME NEW u \in T, w.spent[u] # None
        PROVE  w.spent[u] \in w.txs
    <3>1. u \in Outpoints
      <4>1. u \in Txs
        BY DEF Wallets
      <4> QED
        BY <4>1, InputsAreOutpoints
    <3> QED
      BY <2>1, <3>1 DEF CoinsMarked
  <2> QED
    BY <2>1
<1>3. S \in V
  OBVIOUS
<1>4. ASSUME NEW s \in SUBSET (1 .. n), s # {}
      PROVE  Max(s) \in s
  <2> HIDE DEF n
  <2>1. s \in SUBSET Nat
    BY <1>1
  <2>2. IsFiniteSet(s)
    BY <1>1, FS_Subset
  <2> QED
    BY <1>4, <2>1, <2>2, LargestOf
<1>5. /\ \A i \in 1 .. n : \A T \in V : D[i][T] = More(T) /\ D[i][T] \in V
      /\ \A s \in SUBSET (1 .. n) : c[s] = Max(s) /\ (s # {} => c[s] \in s)
  <2>1. \A i \in 1 .. n : \A T \in V : D[i][T] = More(T)
    <3> HIDE DEF V, More
    <3> QED
      OBVIOUS
  <2>2. \A s \in SUBSET (1 .. n) : c[s] = Max(s)
    OBVIOUS
  <2> HIDE DEF D, V, More, c, n
  <2> QED
    BY <1>2, <1>4, <2>1, <2>2
<1> HIDE DEF n, V, D, c
<1> DEFINE N == 1 .. n
<1>6. PICK g : IsSubsetwise(g, N, V, S, D, c)
  <2>1. /\ IsFiniteSet(N) /\ \A i \in N : \A T \in V : D[i][T] \in V
        /\ \A s \in SUBSET N : s # {} => c[s] \in s
    BY <1>1, <1>5
  <2> HIDE DEF N
  <2> QED
    BY <1>3, <2>1, SubsetFunction
<1>7. DependsEquation(g, w, S, n)
  <2>1. g = [s \in SUBSET N |-> g[s]] /\ \A s \in SUBSET N : g[s] \in V
    BY <1>6 DEF IsSubsetwise
  <2>2. ASSUME NEW s \in SUBSET N
        PROVE  g[s] = IF s = {} THEN S ELSE More(g[s \ {Max(s)}])
    <3>1. CASE s = {}
      BY <1>6, <3>1 DEF IsSubsetwise
    <3>2. CASE s # {}
      <4>1. g[s] = D[c[s]][g[s \ {c[s]}]]
        BY <1>6, <3>2 DEF IsSubsetwise
      <4>2. c[s] = Max(s) /\ c[s] \in N
        BY <1>5, <3>2
      <4>3. s \ {c[s]} \in SUBSET N
        OBVIOUS
      <4>4. g[s \ {c[s]}] \in V
        BY <2>1, <4>3
      <4> HIDE DEF More
      <4> QED
        BY <1>5, <3>2, <4>1, <4>2, <4>4
    <3> QED
      BY <3>1, <3>2
  <2>3. g = [s \in SUBSET N |-> IF s = {} THEN S ELSE More(g[s \ {Max(s)}])]
    <3> HIDE DEF More, N
    <3> QED
      BY <2>1, <2>2
  <2> QED
    BY <2>3 DEF DependsEquation
<1> DEFINE h == CHOOSE x : DependsEquation(x, w, S, n)
<1>8. DependsEquation(h, w, S, n)
  BY <1>7
<1>9. WithDepending(w, S) = h[N]
  BY <1>1, DependingIsChosen DEF n
<1> HIDE DEF h
<1>10. \A s \in SUBSET N : h[s] = IF s = {} THEN S ELSE More(h[s \ {Max(s)}])
  BY <1>8 DEF DependsEquation
<1> DEFINE A == {s \in SUBSET N : h[s] \in V}
<1>11. SUBSET N \subseteq A
  <2>1. {} \in A
    BY <1>3, <1>10
  <2>2. ASSUME NEW s \in SUBSET N, s # {}
        PROVE  \E x \in s : s \ {x} \in A => s \in A
    <3>1. Max(s) \in s
      BY <1>4, <2>2
    <3>2. h[s] = More(h[s \ {Max(s)}])
      BY <1>10, <2>2
    <3> HIDE DEF More
    <3>3. s \ {Max(s)} \in A => s \in A
      BY <1>2, <3>2
    <3> QED
      BY <3>1, <3>3
  <2> HIDE DEF A, N
  <2>3. IsFiniteSet(N)
    BY <1>1 DEF N
  <2> QED
    BY <2>1, <2>2, <2>3, SubsetInduction
<1>12. h[N] \in V
  BY <1>11
<1> QED
  BY <1>9, <1>12 DEF V

(* remove_transaction leaves the coins marked by what is left. *)
LEMMA RemovalKeeps ==
    ASSUME NEW w \in Wallets, CoinsMarked(w), NEW S \in SUBSET w.txs,
           NEW v, v = RemoveTransactions(w, S)
    PROVE  /\ Keeps(w, v) /\ v.txs \subseteq w.txs \ S
           /\ \A o \in Outpoints : v.spent[o] \in {w.spent[o], None}
<1> DEFINE gone == WithDepending(w, S)
           coins == UNION {Inputs[u] : u \in gone}
<1>1. S \subseteq gone /\ gone \subseteq w.txs
  BY DependingIsStored
<1> HIDE DEF gone
<1>2. v = [w EXCEPT !.txs = @ \ gone, !.spent = Without(@, coins),
                    !.verified = Without(@, gone), !.unverified = Without(@, gone),
                    !.unconfirmed = @ \ gone]
  BY DEF RemoveTransactions, gone
<1>3. /\ w.hist \in [Addrs -> Histories] /\ w.txs \in SUBSET Txs /\ w.unconfirmed \in SUBSET Txs
      /\ w.spent \in [Outpoints -> Txs \cup {None}] /\ w.verified \in [Txs -> Blocks \cup {None}]
      /\ w.unverified \in [Txs -> Nat \cup {None}]
  BY DEF Wallets
<1>4. /\ v.hist = w.hist /\ v.txs = w.txs \ gone /\ v.spent = Without(w.spent, coins)
      /\ v.verified = Without(w.verified, gone) /\ v.unverified = Without(w.unverified, gone)
      /\ v.unconfirmed = w.unconfirmed \ gone
  BY <1>2 DEF Wallets
<1> HIDE DEF coins
<1>5. /\ v.spent \in [Outpoints -> Txs \cup {None}]
      /\ \A o \in Outpoints : v.spent[o] = IF o \in coins THEN None ELSE w.spent[o]
  <2>1. PICK f \in [Outpoints -> Txs \cup {None}] : f = w.spent
    BY <1>3
  <2>2. /\ Without(f, coins) \in [Outpoints -> Txs \cup {None}]
        /\ \A o \in Outpoints : Without(f, coins)[o] = IF o \in coins THEN None ELSE f[o]
    BY WithoutType
  <2> QED
    BY <1>4, <2>1, <2>2
<1>6. /\ v.verified \in [Txs -> Blocks \cup {None}]
      /\ \A t \in Txs : v.verified[t] = IF t \in gone THEN None ELSE w.verified[t]
  <2>1. PICK f \in [Txs -> Blocks \cup {None}] : f = w.verified
    BY <1>3
  <2>2. /\ Without(f, gone) \in [Txs -> Blocks \cup {None}]
        /\ \A t \in Txs : Without(f, gone)[t] = IF t \in gone THEN None ELSE f[t]
    BY WithoutType
  <2> QED
    BY <1>4, <2>1, <2>2
<1>7. v.unverified \in [Txs -> Nat \cup {None}]
  BY <1>3, <1>4, WithoutType
<1>8. v \in Wallets
  BY <1>2, <1>3, <1>4, <1>5, <1>6, <1>7 DEF Wallets
<1>9. ASSUME NEW t \in v.txs, NEW o \in Inputs[t]
      PROVE  v.spent[o] = t
  <2>1. t \in w.txs /\ t \notin gone /\ t \in Txs /\ o \in Outpoints
    BY <1>3, <1>4, InputsAreOutpoints
  <2>2. w.spent[o] = t
    BY <2>1 DEF CoinsMarked
  <2>3. o \notin coins
    <3>1. ASSUME NEW u \in gone, o \in Inputs[u]
          PROVE  FALSE
      <4>1. w.spent[o] = u
        BY <1>1, <3>1 DEF CoinsMarked
      <4> QED
        BY <2>1, <2>2, <4>1
    <3> QED
      BY <3>1 DEF coins
  <2> QED
    BY <1>5, <2>1, <2>2, <2>3
<1>10. ASSUME NEW o \in Outpoints, v.spent[o] # None
       PROVE  v.spent[o] \in v.txs /\ o \in Inputs[v.spent[o]]
  <2>1. v.spent[o] = w.spent[o] /\ o \notin coins
    BY <1>5, <1>10
  <2>2. w.spent[o] \in w.txs /\ o \in Inputs[w.spent[o]]
    BY <1>10, <2>1 DEF CoinsMarked
  <2>3. w.spent[o] \notin gone
    BY <2>1, <2>2 DEF coins
  <2> QED
    BY <1>4, <2>1, <2>2, <2>3
<1>11. CoinsMarked(v)
  BY <1>9, <1>10 DEF CoinsMarked
<1>12. VerifiedIn(w, v)
  BY <1>6 DEF VerifiedIn
<1> QED
  BY <1>1, <1>4, <1>5, <1>8, <1>11, <1>12 DEF Keeps

(* add_transaction lets no two transactions spend a coin. *)
LEMMA AdditionKeeps ==
    ASSUME NEW w \in Wallets, CoinsMarked(w), NEW t \in Txs
    PROVE  Keeps(w, AddTransaction(w, t))
<1> DEFINE v == AddTransaction(w, t)
           C == Conflicting(w, t)
           r == RemoveTransactions(w, C)
<1>0. VerifiedIn(w, w)
  BY DEF VerifiedIn
<1>1. CASE Refused(w, t)
  <2>1. v = w
    BY <1>1 DEF AddTransaction
  <2> HIDE DEF v
  <2> QED
    BY <1>0, <2>1 DEF Keeps, v
<1>2. CASE ~ Refused(w, t)
  <2>1. ASSUME NEW o \in Inputs[t], w.spent[o] \notin {None, t}
        PROVE  w.spent[o] \in C
    BY <2>1 DEF Conflicting
  <2>2. C \in SUBSET w.txs
    <3>1. ASSUME NEW o \in Inputs[t], w.spent[o] # None
          PROVE  w.spent[o] \in w.txs
      BY <3>1, InputsAreOutpoints DEF CoinsMarked
    <3> QED
      BY <3>1 DEF Conflicting
  <2> HIDE DEF C
  <2>3. /\ Keeps(w, r) /\ r.txs \subseteq w.txs \ C
        /\ \A o \in Outpoints : r.spent[o] \in {w.spent[o], None}
    BY <2>2, RemovalKeeps
  <2> HIDE DEF r
  <2>4. v = [r EXCEPT !.txs = @ \cup {t},
                      !.spent = [o \in Outpoints |-> IF o \in Inputs[t] THEN t ELSE @[o]]]
    BY <1>2 DEF AddTransaction, r, C
  <2> HIDE DEF v
  <2>5. /\ r \in Wallets /\ r.hist = w.hist /\ CoinsMarked(r) /\ VerifiedIn(w, r)
    BY <2>3 DEF Keeps
  <2>6. /\ v.hist = r.hist /\ v.txs = r.txs \cup {t} /\ v.verified = r.verified
        /\ v.unverified = r.unverified /\ v.unconfirmed = r.unconfirmed
        /\ v.spent = [o \in Outpoints |-> IF o \in Inputs[t] THEN t ELSE r.spent[o]]
    BY <2>4, <2>5 DEF Wallets
  <2>7. /\ r.hist \in [Addrs -> Histories] /\ r.txs \in SUBSET Txs /\ r.unconfirmed \in SUBSET Txs
        /\ r.spent \in [Outpoints -> Txs \cup {None}] /\ r.verified \in [Txs -> Blocks \cup {None}]
        /\ r.unverified \in [Txs -> Nat \cup {None}]
    BY <2>5 DEF Wallets
  <2>8. /\ v.spent \in [Outpoints -> Txs \cup {None}]
        /\ \A o \in Outpoints : v.spent[o] = IF o \in Inputs[t] THEN t ELSE r.spent[o]
    BY <2>6, <2>7
  <2>9. v \in Wallets
    BY <2>4, <2>5, <2>6, <2>7, <2>8 DEF Wallets
  <2>10. ASSUME NEW u \in v.txs, NEW o \in Inputs[u]
         PROVE  v.spent[o] = u
    <3>1. u \in Txs /\ o \in Outpoints
      BY <2>6, <2>7, InputsAreOutpoints
    <3>2. CASE u = t
      BY <2>8, <3>1, <3>2
    <3>3. CASE u # t
      <4>1. u \in r.txs /\ u \notin C /\ r.spent[o] = u
        BY <2>3, <2>5, <2>6, <3>3 DEF CoinsMarked
      <4>2. w.spent[o] = u
        <5>1. r.spent[o] \in {w.spent[o], None} /\ u # None
          BY <2>3, <3>1, InputsAreOutpoints
        <5> QED
          BY <4>1, <5>1
      <4>3. o \notin Inputs[t]
        BY <2>1, <3>1, <3>3, <4>1, <4>2, InputsAreOutpoints
      <4> QED
        BY <2>8, <3>1, <4>1, <4>3
    <3> QED
      BY <3>2, <3>3
  <2>11. ASSUME NEW o \in Outpoints, v.spent[o] # None
         PROVE  v.spent[o] \in v.txs /\ o \in Inputs[v.spent[o]]
    <3>1. CASE o \in Inputs[t]
      BY <2>6, <2>8, <3>1
    <3>2. CASE o \notin Inputs[t]
      <4>1. v.spent[o] = r.spent[o]
        BY <2>8, <3>2
      <4>2. r.spent[o] \in r.txs /\ o \in Inputs[r.spent[o]]
        BY <2>5, <2>11, <4>1 DEF CoinsMarked
      <4> QED
        BY <2>6, <4>1, <4>2
    <3> QED
      BY <3>1, <3>2
  <2>12. CoinsMarked(v)
    BY <2>10, <2>11 DEF CoinsMarked
  <2>13. VerifiedIn(w, v)
    BY <2>5, <2>6 DEF VerifiedIn
  <2> QED
    BY <2>5, <2>6, <2>9, <2>12, <2>13 DEF Keeps, v
<1> QED
  BY <1>1, <1>2

(* What a history says of heights is no matter of the coins. *)
LEMMA HeightsChange ==
    ASSUME NEW w \in Wallets, NEW hist \in Histories, NEW v, v = AddUnverified(w, hist)
    PROVE  v \in Wallets /\ SameCoins(w, v) /\ VerifiedIn(w, v)
<1> DEFINE pooled == {p[1] : p \in {p \in hist : p[2] <= 0}}
           mined  == {p \in hist : p[2] > 0 /\ w.verified[p[1]] = None}
           at(t)  == {p \in mined : p[1] = t}
           said(t) == IF at(t) = {} THEN w.unverified[t] ELSE (CHOOSE p \in at(t) : TRUE)[2]
<1>1. /\ w.hist \in [Addrs -> Histories] /\ w.txs \in SUBSET Txs /\ w.unconfirmed \in SUBSET Txs
      /\ w.spent \in [Outpoints -> Txs \cup {None}] /\ w.verified \in [Txs -> Blocks \cup {None}]
      /\ w.unverified \in [Txs -> Nat \cup {None}]
  BY DEF Wallets
<1>2. pooled \subseteq Txs
  BY HistoryPairs
<1>3. ASSUME NEW t \in Txs
      PROVE  said(t) \in Nat \cup {None}
  <2>1. CASE at(t) = {}
    BY <1>1, <2>1
  <2>2. CASE at(t) # {}
    <3>1. PICK p \in at(t) : p = CHOOSE x \in at(t) : TRUE
      BY <2>2
    <3>2. p[2] \in Nat
      BY HistoryPairs
    <3> HIDE DEF at
    <3> QED
      BY <2>2, <3>1, <3>2
  <2> HIDE DEF at, said
  <2> QED
    BY <2>1, <2>2
<1>4. v = [w EXCEPT !.verified = Without(@, pooled), !.unconfirmed = @ \cup pooled,
                    !.unverified = [t \in Txs |-> said(t)]]
  BY <1>1 DEF AddUnverified, Wallets
<1> HIDE DEF pooled, said
<1>5. /\ v.hist = w.hist /\ v.txs = w.txs /\ v.spent = w.spent
      /\ v.verified = Without(w.verified, pooled) /\ v.unconfirmed = w.unconfirmed \cup pooled
      /\ v.unverified = [t \in Txs |-> said(t)]
  BY <1>4 DEF Wallets
<1>6. /\ v.verified \in [Txs -> Blocks \cup {None}]
      /\ \A t \in Txs : v.verified[t] = IF t \in pooled THEN None ELSE w.verified[t]
  <2>1. PICK f \in [Txs -> Blocks \cup {None}] : f = w.verified
    BY <1>1
  <2>2. /\ Without(f, pooled) \in [Txs -> Blocks \cup {None}]
        /\ \A t \in Txs : Without(f, pooled)[t] = IF t \in pooled THEN None ELSE f[t]
    BY WithoutType
  <2> QED
    BY <1>5, <2>1, <2>2
<1>7. v.unverified \in [Txs -> Nat \cup {None}]
  BY <1>3, <1>5
<1>8. v \in Wallets
  BY <1>1, <1>2, <1>4, <1>5, <1>6, <1>7 DEF Wallets
<1>9. VerifiedIn(w, v)
  BY <1>6 DEF VerifiedIn
<1> QED
  BY <1>5, <1>8, <1>9 DEF SameCoins

LEMMA LocalChanges ==
    ASSUME NEW w \in Wallets, NEW gone, NEW v, v = MadeLocal(w, gone)
    PROVE  v \in Wallets /\ SameCoins(w, v) /\ VerifiedIn(w, v)
<1>1. /\ w.hist \in [Addrs -> Histories] /\ w.txs \in SUBSET Txs /\ w.unconfirmed \in SUBSET Txs
      /\ w.spent \in [Outpoints -> Txs \cup {None}] /\ w.verified \in [Txs -> Blocks \cup {None}]
      /\ w.unverified \in [Txs -> Nat \cup {None}]
  BY DEF Wallets
<1>2. v = [w EXCEPT !.verified = Without(@, gone), !.unverified = Without(@, gone),
                    !.unconfirmed = @ \ gone]
  BY DEF MadeLocal
<1>3. /\ v.hist = w.hist /\ v.txs = w.txs /\ v.spent = w.spent
      /\ v.verified = Without(w.verified, gone) /\ v.unconfirmed = w.unconfirmed \ gone
      /\ v.unverified = Without(w.unverified, gone)
  BY <1>2 DEF Wallets
<1>4. /\ v.verified \in [Txs -> Blocks \cup {None}]
      /\ \A t \in Txs : v.verified[t] = IF t \in gone THEN None ELSE w.verified[t]
  <2>1. PICK f \in [Txs -> Blocks \cup {None}] : f = w.verified
    BY <1>1
  <2>2. /\ Without(f, gone) \in [Txs -> Blocks \cup {None}]
        /\ \A t \in Txs : Without(f, gone)[t] = IF t \in gone THEN None ELSE f[t]
    BY WithoutType
  <2> QED
    BY <1>3, <2>1, <2>2
<1>5. v.unverified \in [Txs -> Nat \cup {None}]
  <2>1. PICK f \in [Txs -> Nat \cup {None}] : f = w.unverified
    BY <1>1
  <2>2. Without(f, gone) \in [Txs -> Nat \cup {None}]
    BY WithoutType
  <2> QED
    BY <1>3, <2>1, <2>2
<1>6. v \in Wallets
  BY <1>1, <1>2, <1>3, <1>4, <1>5 DEF Wallets
<1>7. VerifiedIn(w, v)
  BY <1>4 DEF VerifiedIn
<1> QED
  BY <1>3, <1>6, <1>7 DEF SameCoins

LEMMA SameCoinsMarked ==
    ASSUME NEW v, NEW w, SameCoins(v, w), CoinsMarked(v)
    PROVE  CoinsMarked(w)
BY DEF SameCoins, CoinsMarked

LEMMA VerifiedInEach ==
    ASSUME NEW u, NEW v, NEW w, VerifiedIn(u, v), VerifiedIn(v, w)
    PROVE  VerifiedIn(u, w)
BY DEF VerifiedIn

(* receive_history_callback: no stored transaction has a conflict, so that    *)
(* none is added again.                                                       *)
LEMMA HistoryKeeps ==
    ASSUME NEW w \in Wallets, CoinsMarked(w), NEW a \in Addrs, NEW hist \in Histories,
           NEW v, v = ReceiveHistory(w, a, hist)
    PROVE  v \in Wallets /\ CoinsMarked(v) /\ VerifiedIn(w, v)
<1> DEFINE l == MadeLocal(w, NowLocal(w, a, hist))
           x == [l EXCEPT !.hist[a] = hist]
<1>1. ASSUME NEW t \in w.txs
      PROVE  Conflicting(w, t) = {}
  BY DEF Conflicting, CoinsMarked
<1>2. v = AddUnverified(x, hist)
  BY <1>1 DEF ReceiveHistory
<1>3. l \in Wallets /\ SameCoins(w, l) /\ VerifiedIn(w, l)
  BY LocalChanges
<1> HIDE DEF l
<1>4. x \in Wallets /\ x.txs = l.txs /\ x.spent = l.spent /\ x.verified = l.verified
  BY <1>3 DEF Wallets
<1> HIDE DEF x
<1>5. CoinsMarked(x) /\ VerifiedIn(l, x)
  <2>1. CoinsMarked(l)
    BY <1>3, SameCoinsMarked
  <2> QED
    BY <1>4, <2>1 DEF CoinsMarked, VerifiedIn
<1>6. v \in Wallets /\ SameCoins(x, v) /\ VerifiedIn(x, v)
  BY <1>2, <1>4, HeightsChange
<1>7. CoinsMarked(v)
  BY <1>5, <1>6, SameCoinsMarked
<1>8. VerifiedIn(w, v)
  BY <1>3, <1>5, <1>6 DEF VerifiedIn
<1> QED
  BY <1>6, <1>7, <1>8

(* The fold of load_unverified_transactions *)
LoadEquation(h, w, base, order) ==
    h = [s \in SUBSET DOMAIN order |->
            IF s = {} THEN base
            ELSE AddUnverified(h[s \ {Max(s)}], w.hist[order[Max(s)]])]

Unloaded(w) == [w EXCEPT !.unverified = Empty.unverified, !.unconfirmed = {}]

LEMMA LoadedIsChosen ==
    ASSUME NEW w, NEW order
    PROVE  Loaded(w, order) = (CHOOSE h : LoadEquation(h, w, Unloaded(w), order))[DOMAIN order]
BY DEF Loaded, FoldLeft, MapThenFoldSet, LoadEquation, Unloaded

LEMMA LoadedKeeps ==
    ASSUME NEW w \in Wallets, NEW order \in SetToSeqs(Addrs), NEW v, v = Loaded(w, order)
    PROVE  v \in Wallets /\ SameCoins(w, v) /\ VerifiedIn(w, v)
<1> DEFINE n == Cardinality(Addrs)
           N == DOMAIN order
           base == Unloaded(w)
           V == {x \in Wallets : SameCoins(w, x) /\ VerifiedIn(w, x)}
           Next1(i, x) == AddUnverified(x, w.hist[order[i]])
           D == [i \in N |-> [x \in V |-> Next1(i, x)]]
           c == [s \in SUBSET N |-> Max(s)]
<1>1. n \in Nat /\ IsFiniteSet(1 .. n)
  BY FinitelyMany, FS_CardinalityType, FS_Interval
<1>2. N = 1 .. n /\ \A i \in N : order[i] \in Addrs
  BY DEF SetToSeqs
<1>3. IsFiniteSet(N) /\ N \in SUBSET Nat
  <2> HIDE DEF n, N
  <2> QED
    BY <1>1, <1>2
<1> HIDE DEF n, N
<1>4. base \in V
  <2>1. Empty.unverified \in [Txs -> Nat \cup {None}]
    BY DEF Empty
  <2>2. base \in Wallets /\ base.txs = w.txs /\ base.spent = w.spent /\ base.hist = w.hist
        /\ base.verified = w.verified
    BY <2>1 DEF Unloaded, Wallets
  <2> HIDE DEF base
  <2> QED
    BY <2>2 DEF SameCoins, VerifiedIn
<1>5. ASSUME NEW i \in N, NEW x \in V
      PROVE  Next1(i, x) \in V
  <2>1. w.hist[order[i]] \in Histories
    BY <1>2 DEF Wallets
  <2> DEFINE y == Next1(i, x)
  <2>2. y \in Wallets /\ SameCoins(x, y) /\ VerifiedIn(x, y)
    BY <2>1, HeightsChange
  <2> HIDE DEF y
  <2>3. SameCoins(w, y) /\ VerifiedIn(w, y)
    BY <2>2 DEF SameCoins, VerifiedIn
  <2> QED
    BY <2>2, <2>3 DEF y
<1>6. ASSUME NEW s \in SUBSET N, s # {}
      PROVE  Max(s) \in s
  <2>1. s \in SUBSET Nat
    BY <1>3
  <2>2. IsFiniteSet(s)
    BY <1>3, FS_Subset
  <2> QED
    BY <1>6, <2>1, <2>2, LargestOf
<1> HIDE DEF base, V, Next1
<1>7. /\ \A i \in N : \A x \in V : D[i][x] = Next1(i, x) /\ D[i][x] \in V
      /\ \A s \in SUBSET N : c[s] = Max(s) /\ (s # {} => c[s] \in s)
  <2>1. \A i \in N : \A x \in V : D[i][x] = Next1(i, x)
    OBVIOUS
  <2>2. \A s \in SUBSET N : c[s] = Max(s)
    OBVIOUS
  <2> HIDE DEF D, c
  <2> QED
    BY <1>5, <1>6, <2>1, <2>2
<1> HIDE DEF D, c
<1>8. PICK g : IsSubsetwise(g, N, V, base, D, c)
  BY <1>3, <1>4, <1>7, SubsetFunction
<1>9. LoadEquation(g, w, base, order)
  <2>1. g = [s \in SUBSET N |-> g[s]] /\ \A s \in SUBSET N : g[s] \in V
    BY <1>8 DEF IsSubsetwise
  <2>2. ASSUME NEW s \in SUBSET N
        PROVE  g[s] = IF s = {} THEN base ELSE Next1(Max(s), g[s \ {Max(s)}])
    <3>1. CASE s = {}
      BY <1>8, <3>1 DEF IsSubsetwise
    <3>2. CASE s # {}
      <4>1. g[s] = D[c[s]][g[s \ {c[s]}]]
        BY <1>8, <3>2 DEF IsSubsetwise
      <4>2. c[s] = Max(s) /\ c[s] \in N
        BY <1>7, <3>2
      <4>3. s \ {c[s]} \in SUBSET N
        OBVIOUS
      <4>4. g[s \ {c[s]}] \in V
        BY <2>1, <4>3
      <4> QED
        BY <1>7, <3>2, <4>1, <4>2, <4>4
    <3> QED
      BY <3>1, <3>2
  <2>3. g = [s \in SUBSET N |-> IF s = {} THEN base ELSE Next1(Max(s), g[s \ {Max(s)}])]
    BY <2>1, <2>2
  <2> QED
    BY <2>3 DEF LoadEquation, Next1, N
<1> DEFINE h == CHOOSE x : LoadEquation(x, w, base, order)
<1>10. LoadEquation(h, w, base, order)
  BY <1>9
<1>11. v = h[N]
  BY LoadedIsChosen DEF N, base
<1> HIDE DEF h
<1>12. \A s \in SUBSET N : h[s] = IF s = {} THEN base ELSE Next1(Max(s), h[s \ {Max(s)}])
  BY <1>10 DEF LoadEquation, Next1, N
<1> DEFINE A == {s \in SUBSET N : h[s] \in V}
<1>13. SUBSET N \subseteq A
  <2>1. {} \in A
    BY <1>4, <1>12
  <2>2. ASSUME NEW s \in SUBSET N, s # {}
        PROVE  \E x \in s : s \ {x} \in A => s \in A
    <3>1. Max(s) \in s
      BY <1>6, <2>2
    <3>2. h[s] = Next1(Max(s), h[s \ {Max(s)}])
      BY <1>12, <2>2
    <3>3. s \ {Max(s)} \in A => s \in A
      BY <1>5, <3>1, <3>2
    <3> QED
      BY <3>1, <3>3
  <2> HIDE DEF A
  <2> QED
    BY <1>3, <2>1, <2>2, SubsetInduction
<1>14. v \in V
  BY <1>11, <1>13
<1> QED
  BY <1>14 DEF V

(* undo_verifications: what stays verified is on the chain, or low enough. *)
LEMMA UndoKeeps ==
    ASSUME NEW w \in Wallets, NEW b \in Blocks, NEW above, NEW v, v = UndoVerifications(w, b, above)
    PROVE  /\ v \in Wallets /\ SameCoins(w, v) /\ VerifiedIn(w, v)
           /\ \A t \in Txs : v.verified[t] # None => t \notin Undone(w, b, above)
<1> DEFINE redo == Undone(w, b, above)
           said(t) == IF t \in redo THEN HeightOf[w.verified[t]] ELSE w.unverified[t]
<1>1. /\ w.hist \in [Addrs -> Histories] /\ w.txs \in SUBSET Txs /\ w.unconfirmed \in SUBSET Txs
      /\ w.spent \in [Outpoints -> Txs \cup {None}] /\ w.verified \in [Txs -> Blocks \cup {None}]
      /\ w.unverified \in [Txs -> Nat \cup {None}]
  BY DEF Wallets
<1>2. ASSUME NEW t \in Txs
      PROVE  said(t) \in Nat \cup {None}
  <2>1. CASE t \in redo
    <3>1. w.verified[t] \in Blocks
      BY <1>1, <2>1 DEF Undone
    <3> QED
      BY <2>1, <3>1, Heights
  <2>2. CASE t \notin redo
    BY <1>1, <2>2
  <2> QED
    BY <2>1, <2>2
<1>3. v = [w EXCEPT !.verified = Without(@, redo), !.unverified = [t \in Txs |-> said(t)]]
  BY DEF UndoVerifications, Wallets
<1> HIDE DEF redo, said
<1>4. /\ v.hist = w.hist /\ v.txs = w.txs /\ v.spent = w.spent /\ v.unconfirmed = w.unconfirmed
      /\ v.verified = Without(w.verified, redo) /\ v.unverified = [t \in Txs |-> said(t)]
  BY <1>3 DEF Wallets
<1>5. /\ v.verified \in [Txs -> Blocks \cup {None}]
      /\ \A t \in Txs : v.verified[t] = IF t \in redo THEN None ELSE w.verified[t]
  <2>1. PICK f \in [Txs -> Blocks \cup {None}] : f = w.verified
    BY <1>1
  <2>2. /\ Without(f, redo) \in [Txs -> Blocks \cup {None}]
        /\ \A t \in Txs : Without(f, redo)[t] = IF t \in redo THEN None ELSE f[t]
    BY WithoutType
  <2> QED
    BY <1>4, <2>1, <2>2
<1>6. v.unverified \in [Txs -> Nat \cup {None}]
  BY <1>2, <1>4
<1>7. v \in Wallets
  BY <1>1, <1>3, <1>4, <1>5, <1>6 DEF Wallets
<1>8. VerifiedIn(w, v)
  BY <1>5 DEF VerifiedIn
<1>9. \A t \in Txs : v.verified[t] # None => t \notin redo
  BY <1>5
<1> QED
  BY <1>4, <1>7, <1>8, <1>9 DEF SameCoins, redo

-----------------------------------------------------------------------------
(*                               Messages                                  *)

Requests ==
    [kind : {"subscribe"}, addr : Addrs] \cup
    [kind : {"history"}, addr : Addrs, status : Histories] \cup
    [kind : {"tx"}, tx : Txs, mayMiss : BOOLEAN] \cup
    [kind : {"proof"}, tx : Txs, height : Nat]

Proofs == [kind : {"proof"}, tx : Txs, height : Nat, block : Blocks \cup {None}]

Answers ==
    [kind : {"status"}, addr : Addrs, hist : Histories] \cup
    [kind : {"history"}, addr : Addrs, status : Histories, hist : Histories] \cup
    [kind : {"tx"}, tx : Txs, mayMiss : BOOLEAN, found : BOOLEAN] \cup
    Proofs \cup
    [kind : {"header"}, block : Blocks]

LEMMA ServerHistory ==
    ASSUME NEW tip \in Blocks, NEW pool \in SUBSET Txs, NEW a
    PROVE  HistoryAt(tip, pool, a) \in Histories
<1>1. \A t \in pool : <<t, InMempool>> \in Txs \X Nat
  BY DEF InMempool
<1>2. \A m \in Txs \X ChainTo[tip] : <<m[1], HeightOf[m[2]]>> \in Txs \X Nat
  BY Heights, TipOfChain
<1> QED
  BY <1>1, <1>2 DEF HistoryAt, Histories

(* What is asked for, but for histories *)
LEMMA AsksType ==
    ASSUME NEW kind \in {"subscribe", "tx", "txOrNot", "proof"}, NEW S, IsFiniteSet(S),
           kind = "subscribe" => S \subseteq Addrs,
           kind # "subscribe" => S \subseteq Txs,
           kind = "proof" => \A x \in S : wallet'.unverified[x] \in Nat,
           NEW q, q = Asks(kind, S)
    PROVE  q \in Seq(Requests) /\ \A i \in DOMAIN q : q[i].kind # "history"
<1> DEFINE ask(x) ==
              CASE kind = "subscribe" -> [kind |-> kind, addr |-> x]
                [] kind = "tx"        -> [kind |-> kind, tx |-> x, mayMiss |-> FALSE]
                [] kind = "txOrNot"   -> [kind |-> "tx", tx |-> x, mayMiss |-> TRUE]
                [] kind = "proof"     -> [kind |-> kind, tx |-> x, height |-> wallet'.unverified[x]]
           All == {ask(x) : x \in S}
           Other == {r \in Requests : r.kind # "history"}
<1>1. q = SetToSeq(All)
  BY DEF Asks
<1>2. ASSUME NEW x \in S
      PROVE  ask(x) \in Other
  <2>1. CASE kind = "subscribe"
    BY <2>1 DEF Requests
  <2>2. CASE kind = "tx"
    BY <2>2 DEF Requests
  <2>3. CASE kind = "txOrNot"
    BY <2>3 DEF Requests
  <2>4. CASE kind = "proof"
    BY <2>4 DEF Requests
  <2> QED
    BY <2>1, <2>2, <2>3, <2>4
<1> HIDE DEF ask, Other
<1>3. IsFiniteSet(All)
  <2> DEFINE f == [x \in S |-> ask(x)]
  <2>1. f \in Surjection(S, All)
    BY DEF Surjection
  <2> HIDE DEF f, All
  <2> QED
    BY <2>1, FS_Surjection
<1>4. All \subseteq Other
  BY <1>2
<1>5. q \in Seq(All)
  <2> HIDE DEF All
  <2> QED
    BY <1>1, <1>3, SequenceOfSet
<1> HIDE DEF All
<1>6. q \in Seq(Other)
  BY <1>4, <1>5
<1>7. Other \subseteq Requests /\ \A r \in Other : r.kind # "history"
  BY DEF Other
<1> QED
  BY <1>6, <1>7

-----------------------------------------------------------------------------
(*                       Types, and who waits for what                     *)

Tasks == [addr : Addrs, status : Histories, wait : SUBSET Txs]
Syncs == [phase : {"off", "txs", "on"}, wait : SUBSET Txs, addrs : SUBSET Addrs,
          tasks : SUBSET Tasks, stale : SUBSET Addrs]
Verifiers == [chain : {ChainOf[b] : b \in Blocks}, roots : SUBSET Txs,
              requested : SUBSET Txs, proofs : SUBSET Proofs]
Servers == [tip : Blocks, pool : SUBSET Txs, subs : SUBSET Addrs]
Wires == [asked : Seq(Requests), inbox : Seq(Answers)]
Nets == [local : Blocks, headers : Seq(Blocks)]

Typed ==
    /\ server \in Servers /\ wire \in Wires /\ wallet \in Wallets /\ sync \in Syncs
    /\ spv \in Verifiers /\ net \in Nets /\ used \in [moves : Nat, faults : Nat]

(* A history that was asked for, or answered, is awaited by a task, and by    *)
(* one only: a task asks once, and there is one for an address and a status.  *)
SameKey(x, y) == x.addr = y.addr /\ x.status = y.status
Awaits(tasks, q) == \E k \in tasks : SameKey(k, q) /\ k.wait = {}
AllAwaited(tasks, seq) ==
    \A i \in DOMAIN seq : seq[i].kind = "history" => Awaits(tasks, seq[i])
NoneTwice(seq) ==
    \A i, j \in DOMAIN seq :
        seq[i].kind = "history" /\ seq[j].kind = "history" /\ SameKey(seq[i], seq[j]) => i = j
Apart(x, y) ==
    \A i \in DOMAIN x, j \in DOMAIN y :
        ~ (x[i].kind = "history" /\ y[j].kind = "history" /\ SameKey(x[i], y[j]))
OneTaskEach(tasks) == \A k, l \in tasks : SameKey(k, l) => k = l

Awaited(w, tasks) ==
    /\ AllAwaited(tasks, w.asked) /\ AllAwaited(tasks, w.inbox)
    /\ NoneTwice(w.asked) /\ NoneTwice(w.inbox) /\ Apart(w.asked, w.inbox)
    /\ OneTaskEach(tasks)

(* Before Synchronizer.main has begun nothing was asked for, nor announced. *)
Quiet == sync.phase = "off" => /\ wire.asked = << >> /\ wire.inbox = << >>
                               /\ net.headers = << >> /\ server.subs = {}

Inv1 == Typed /\ CoinsMarked(wallet) /\ Awaited(wire, sync.tasks) /\ Quiet

(* A queue loses its first, or gets others that are no histories. *)
LEMMA AwaitedLater ==
    ASSUME NEW x \in Wires, NEW tasks, Awaited(x, tasks), NEW y \in Wires,
           \A i \in DOMAIN y.asked : y.asked[i].kind = "history" =>
               i \in DOMAIN x.asked /\ y.asked[i] = x.asked[i],
           \/ \A i \in DOMAIN y.inbox : y.inbox[i].kind = "history" =>
                  i \in DOMAIN x.inbox /\ y.inbox[i] = x.inbox[i]
           \/ \A i \in DOMAIN y.inbox : y.inbox[i].kind = "history" =>
                  i \in Nat /\ i + 1 \in DOMAIN x.inbox /\ y.inbox[i] = x.inbox[i + 1]
    PROVE  Awaited(y, tasks)
<1>1. AllAwaited(tasks, y.asked) /\ AllAwaited(tasks, y.inbox)
  BY DEF Awaited, AllAwaited
<1>2. NoneTwice(y.asked)
  BY DEF Awaited, NoneTwice
<1>3. NoneTwice(y.inbox)
  <2> SUFFICES ASSUME NEW i \in DOMAIN y.inbox, NEW j \in DOMAIN y.inbox,
                      y.inbox[i].kind = "history", y.inbox[j].kind = "history",
                      SameKey(y.inbox[i], y.inbox[j])
               PROVE  i = j
    BY DEF NoneTwice
  <2>1. CASE i \in DOMAIN x.inbox /\ y.inbox[i] = x.inbox[i] /\ j \in DOMAIN x.inbox /\ y.inbox[j] = x.inbox[j]
    BY <2>1 DEF Awaited, NoneTwice
  <2>2. CASE /\ i \in Nat /\ i + 1 \in DOMAIN x.inbox /\ y.inbox[i] = x.inbox[i + 1]
             /\ j \in Nat /\ j + 1 \in DOMAIN x.inbox /\ y.inbox[j] = x.inbox[j + 1]
    <3>1. i + 1 = j + 1
      BY <2>2 DEF Awaited, NoneTwice
    <3> QED
      BY <2>2, <3>1
  <2> QED
    BY <2>1, <2>2
<1>4. Apart(y.asked, y.inbox)
  BY DEF Awaited, Apart
<1>5. OneTaskEach(tasks)
  BY DEF Awaited
<1> QED
  BY <1>1, <1>2, <1>3, <1>4, <1>5 DEF Awaited

(* When the interface ends nothing is under way, and nobody waits. *)
LEMMA ClosedTypes ==
    ASSUME Typed, Closed, wallet' \in Wallets, used' \in [moves : Nat, faults : Nat]
    PROVE  Typed' /\ Awaited(wire, sync.tasks)' /\ Quiet'
<1>1. << >> \in Seq(Requests) /\ << >> \in Seq(Answers) /\ << >> \in Seq(Blocks)
  OBVIOUS
<1>2. sync' \in Syncs /\ sync'.tasks = {}
  BY DEF Closed, Off, Syncs
<1>3. spv' \in Verifiers
  BY DEF Typed, Closed, Idle, Verifiers
<1>4. wire' \in Wires /\ wire'.asked = << >> /\ wire'.inbox = << >>
  BY <1>1 DEF Closed, Wires
<1>5. server' \in Servers /\ server'.subs = {}
  BY DEF Typed, Closed, Servers
<1>6. net' \in Nets /\ net'.headers = << >>
  BY <1>1 DEF Typed, Closed, Nets
<1>7. Awaited(wire', {})
  BY <1>4 DEF Awaited, AllAwaited, NoneTwice, Apart, OneTaskEach
<1> QED
  BY <1>2, <1>3, <1>4, <1>5, <1>6, <1>7 DEF Typed, Quiet

(* The first message is taken. *)
LEMMA TookFacts ==
    ASSUME wire \in Wires, NEW kind, NextIs(kind)
    PROVE  /\ Took \in Wires /\ Took.asked = wire.asked
           /\ Head(wire.inbox) \in Answers /\ Head(wire.inbox).kind = kind
           /\ 1 \in DOMAIN wire.inbox /\ Head(wire.inbox) = wire.inbox[1]
           /\ \A i \in DOMAIN Took.inbox : i \in Nat /\ i + 1 # 1 /\ i + 1 \in DOMAIN wire.inbox
                                           /\ Took.inbox[i] = wire.inbox[i + 1]
<1>1. wire.asked \in Seq(Requests) /\ wire.inbox \in Seq(Answers) /\ wire.inbox # << >>
  BY DEF Wires, NextIs
<1>2. Took.asked = wire.asked /\ Took.inbox = Tail(wire.inbox)
  BY DEF Took, Wires
<1>3. Tail(wire.inbox) \in Seq(Answers) /\ Head(wire.inbox) \in Answers
  BY <1>1
<1>4. Took \in Wires
  BY <1>1, <1>2, <1>3 DEF Took, Wires
<1>5. IsSequence(wire.inbox)
  BY <1>1, SequenceOf
<1> QED
  BY <1>1, <1>2, <1>3, <1>4, <1>5, TailSequence DEF NextIs

(* The requests q are sent. *)
Sends(x, q, y) == y = [x EXCEPT !.asked = @ \o q]

(* Nothing but the requests is added, and no answer is.                       *)
LEMMA SentFacts ==
    ASSUME NEW x \in Wires, NEW q \in Seq(Requests), \A i \in DOMAIN q : q[i].kind # "history",
           NEW y, Sends(x, q, y)
    PROVE  /\ y \in Wires /\ y.inbox = x.inbox
           /\ \A i \in DOMAIN y.asked : y.asked[i].kind = "history" =>
                 i \in DOMAIN x.asked /\ y.asked[i] = x.asked[i]
<1>1. x.asked \in Seq(Requests) /\ x.inbox \in Seq(Answers)
  BY DEF Wires
<1>2. y.inbox = x.inbox /\ y.asked = x.asked \o q
  BY DEF Wires, Sends
<1>3. x.asked \o q \in Seq(Requests)
  BY <1>1
<1>4. y \in Wires
  BY <1>1, <1>3 DEF Wires, Sends
<1>5. IsSequence(x.asked) /\ IsSequence(q)
  BY <1>1, SequenceOf
<1>6. \A i \in DOMAIN y.asked : \/ i \in DOMAIN x.asked /\ y.asked[i] = x.asked[i]
                                \/ \E j \in DOMAIN q : y.asked[i] = q[j]
  BY <1>2, <1>5, ConcatSequence
<1> QED
  BY <1>2, <1>4, <1>6

(* Nobody waits for an answer to the key of k any more, but a task may have   *)
(* taken its place; the others wait as before.                                *)
LEMMA AwaitedRetasked ==
    ASSUME NEW y, NEW old, NEW new, NEW k, NEW m, SameKey(m, k), OneTaskEach(old),
           AllAwaited(old, y.asked), AllAwaited(old, y.inbox),
           NoneTwice(y.asked), NoneTwice(y.inbox), Apart(y.asked, y.inbox),
           \A i \in DOMAIN y.asked : y.asked[i].kind = "history" => ~ SameKey(y.asked[i], k),
           \A i \in DOMAIN y.inbox : y.inbox[i].kind = "history" => ~ SameKey(y.inbox[i], k),
           \A l \in old : SameKey(l, k) \/ l \in new,
           \A l \in new : l = m \/ (l \in old /\ ~ SameKey(l, k))
    PROVE  Awaited(y, new)
<1>1. ASSUME NEW q, Awaits(old, q), ~ SameKey(q, k)
      PROVE  Awaits(new, q)
  BY <1>1 DEF Awaits, SameKey
<1>2. AllAwaited(new, y.asked) /\ AllAwaited(new, y.inbox)
  BY <1>1 DEF AllAwaited
<1>3. OneTaskEach(new)
  BY DEF OneTaskEach, SameKey
<1> QED
  BY <1>2, <1>3 DEF Awaited

(* What is stored, and asked for *)
LEMMA StoreKeeps ==
    ASSUME wallet \in Wallets, CoinsMarked(wallet), spv \in Verifiers,
           NEW s \in Syncs, NEW k \in Tasks, NEW hist \in Histories, NEW sent \in Wires,
           Store(s, k, hist, sent)
    PROVE  /\ wallet' \in Wallets /\ CoinsMarked(wallet)' /\ VerifiedIn(wallet, wallet')
           /\ sync' \in Syncs /\ sync'.phase = s.phase
           /\ \A l \in s.tasks : l = k \/ l \in sync'.tasks
           /\ \E m : SameKey(m, k) /\ \A l \in sync'.tasks : l = m \/ (l \in s.tasks /\ l # k)
           /\ wire' \in Wires /\ wire'.inbox = sent.inbox
           /\ \A i \in DOMAIN wire'.asked : wire'.asked[i].kind = "history" =>
                 i \in DOMAIN sent.asked /\ wire'.asked[i] = sent.asked[i]
           /\ spv' \in Verifiers /\ spv'.chain = spv.chain
<1> DEFINE rest == [s EXCEPT !.tasks = @ \ {k}, !.stale = @ \ {k.addr}]
           miss == Missing(wallet', rest, hist)
           drop == ProofsDropped(wallet, k.addr, hist)
           m    == [k EXCEPT !.wait = miss]
<1>1. k.addr \in Addrs
  BY DEF Tasks
<1>2. wallet' \in Wallets /\ CoinsMarked(wallet') /\ VerifiedIn(wallet, wallet')
  BY <1>1, HistoryKeeps DEF Store
<1>3. miss \in SUBSET Txs /\ IsFiniteSet(miss)
  <2>1. miss \in SUBSET Txs
    BY HistoryPairs DEF Missing
  <2> HIDE DEF miss
  <2> QED
    BY <2>1, FinitelyMany, FS_Subset
<1>4. /\ sync' = IF miss = {} THEN rest ELSE [rest EXCEPT !.tasks = @ \cup {m}]
      /\ wire' = [sent EXCEPT !.asked = @ \o Asks("tx", miss)]
      /\ spv' = [spv EXCEPT !.roots = @ \ drop, !.requested = @ \ drop]
  BY DEF Store
<1> HIDE DEF miss, drop
<1>5. m \in Tasks /\ SameKey(m, k)
  BY <1>3 DEF Tasks, SameKey
<1>6. rest \in Syncs /\ rest.tasks = s.tasks \ {k} /\ rest.phase = s.phase
  BY <1>1 DEF Syncs
<1> HIDE DEF rest, m
<1>7. /\ sync' \in Syncs /\ sync'.phase = s.phase
      /\ \A l \in s.tasks : l = k \/ l \in sync'.tasks
      /\ \A l \in sync'.tasks : l = m \/ (l \in s.tasks /\ l # k)
  <2>1. CASE miss = {}
    BY <1>4, <1>6, <2>1
  <2>2. CASE miss # {}
    <3>1. sync' = [rest EXCEPT !.tasks = @ \cup {m}]
      BY <1>4, <2>2
    <3>2. sync' \in Syncs /\ sync'.tasks = rest.tasks \cup {m} /\ sync'.phase = rest.phase
      BY <1>5, <1>6, <3>1 DEF Syncs
    <3> QED
      BY <1>6, <3>2
  <2> QED
    BY <2>1, <2>2
<1>8. /\ wire' \in Wires /\ wire'.inbox = sent.inbox
      /\ \A i \in DOMAIN wire'.asked : wire'.asked[i].kind = "history" =>
            i \in DOMAIN sent.asked /\ wire'.asked[i] = sent.asked[i]
  <2>1. PICK q : q = Asks("tx", miss)
    OBVIOUS
  <2>2. q \in Seq(Requests) /\ \A i \in DOMAIN q : q[i].kind # "history"
    BY <1>3, <2>1, AsksType
  <2>3. Sends(sent, q, wire')
    BY <1>4, <2>1 DEF Sends
  <2> QED
    BY <2>2, <2>3, SentFacts
<1>9. spv' \in Verifiers /\ spv'.chain = spv.chain
  BY <1>4 DEF Verifiers
<1> QED
  BY <1>2, <1>5, <1>7, <1>8, <1>9

-----------------------------------------------------------------------------
(*                               The steps                                 *)

LEMMA MovesKeep ==
    ASSUME Inv1, NEW tip \in Blocks, NEW pool \in SUBSET Txs, ServerMoves(tip, pool)
    PROVE  /\ Inv1' /\ server'.tip = tip /\ UNCHANGED <<wallet, sync, spv, net>>
           /\ \A i \in DOMAIN wire'.inbox :
                 \/ i \in DOMAIN wire.inbox /\ wire'.inbox[i] = wire.inbox[i]
                 \/ /\ i \notin DOMAIN wire.inbox
                    /\ wire'.inbox[i].kind = "header" => wire'.inbox[i].block = tip
<1> DEFINE changed == NewHistories(tip, pool)
           new(a)  == HistoryAt(tip, pool, a)
           heads == IF sync.phase # "off" /\ tip # server.tip THEN <<Header(tip)>> ELSE << >>
           Other == {r \in Answers : r.kind # "history" /\ (r.kind = "header" => r.block = tip)}
<1>1. /\ server \in Servers /\ wire \in Wires /\ used \in [moves : Nat, faults : Nat]
      /\ Awaited(wire, sync.tasks) /\ wire.inbox \in Seq(Answers)
  BY DEF Inv1, Typed, Wires
<1>2. PICK order \in SetToSeqs(changed \cap server.subs) :
         wire' = [wire EXCEPT !.inbox =
             @ \o heads \o [i \in 1 .. Len(order) |-> Status(order[i], new(order[i]))]]
  BY DEF ServerMoves
<1>3. server' = [server EXCEPT !.tip = tip, !.pool = pool] /\ used' = [used EXCEPT !.moves = @ + 1]
      /\ UNCHANGED <<wallet, sync, spv, net>>
  BY DEF ServerMoves
<1> DEFINE n == Cardinality(changed \cap server.subs)
           told == [i \in 1 .. Len(order) |-> Status(order[i], new(order[i]))]
<1>4. order \in [1 .. n -> changed \cap server.subs] /\ n \in Nat
  <2>1. server.subs \in SUBSET Addrs
    BY <1>1 DEF Servers
  <2>2. changed \cap server.subs \in SUBSET Addrs
    BY <2>1
  <2>3. IsFiniteSet(changed \cap server.subs)
    BY <2>2, FinitelyMany, FS_Subset
  <2> QED
    BY <2>3, FS_CardinalityType DEF SetToSeqs
<1> HIDE DEF n, changed
<1>5. Len(order) = n /\ \A i \in 1 .. n : order[i] \in Addrs
  BY <1>1, <1>4 DEF Servers
<1>6. ASSUME NEW i \in 1 .. n
      PROVE  Status(order[i], new(order[i])) \in Other
  <2>1. new(order[i]) \in Histories
    BY ServerHistory
  <2> HIDE DEF new
  <2> QED
    BY <1>5, <2>1 DEF Status, Answers
<1> HIDE DEF new
<1>7. told \in Seq(Other)
  <2>1. told \in [1 .. n -> Other]
    BY <1>5, <1>6
  <2> HIDE DEF told, Other
  <2> QED
    BY <1>4, <2>1
<1>8. heads \in Seq(Other)
  <2>1. Header(tip) \in Other
    BY DEF Header, Answers
  <2> HIDE DEF Other
  <2> QED
    BY <2>1
<1> HIDE DEF told, heads
<1> DEFINE more == heads \o told
<1>9. more \in Seq(Other) /\ wire'.inbox = wire.inbox \o more /\ wire'.asked = wire.asked
      /\ wire' = [wire EXCEPT !.inbox = wire.inbox \o more]
  <2>1. more \in Seq(Other)
    <3> HIDE DEF Other
    <3> QED
      BY <1>7, <1>8
  <2>2. wire.inbox \o heads \o told = wire.inbox \o more
    <3>1. heads \in Seq(Answers) /\ told \in Seq(Answers)
      <4>1. Other \subseteq Answers
        OBVIOUS
      <4> HIDE DEF Other
      <4> QED
        BY <1>7, <1>8, <4>1
    <3>2. \A x, y, z \in Seq(Answers) : (x \o y) \o z = x \o (y \o z)
      BY ConcatThree
    <3> QED
      BY <1>1, <3>1, <3>2
  <2> HIDE DEF more, Other
  <2>3. wire' = [wire EXCEPT !.inbox = wire.inbox \o more]
    BY <1>2, <2>2 DEF told
  <2> QED
    BY <1>1, <2>1, <2>3 DEF Wires
<1> HIDE DEF more
<1>10. /\ wire' \in Wires
       /\ \A i \in DOMAIN wire'.inbox : wire'.inbox[i].kind = "history" =>
             i \in DOMAIN wire.inbox /\ wire'.inbox[i] = wire.inbox[i]
       /\ \A i \in DOMAIN wire'.inbox :
             \/ i \in DOMAIN wire.inbox /\ wire'.inbox[i] = wire.inbox[i]
             \/ /\ i \notin DOMAIN wire.inbox
                /\ wire'.inbox[i].kind = "header" => wire'.inbox[i].block = tip
  <2>1. more \in Seq(Answers) /\ \A i \in DOMAIN more : more[i].kind # "history"
    <3>1. Other \subseteq Answers /\ \A r \in Other : r.kind # "history"
      OBVIOUS
    <3> HIDE DEF Other
    <3> QED
      BY <1>9, <3>1
  <2>a. \A i \in DOMAIN more : more[i].kind = "header" => more[i].block = tip
    <3>1. \A r \in Other : r.kind = "header" => r.block = tip
      OBVIOUS
    <3> HIDE DEF Other
    <3> QED
      BY <1>9, <3>1
  <2>2. wire.inbox \o more \in Seq(Answers)
    BY <1>1, <2>1
  <2>3. IsSequence(wire.inbox) /\ IsSequence(more)
    BY <1>1, <2>1, SequenceOf
  <2>4. wire' \in Wires
    BY <1>1, <1>9, <2>2 DEF Wires
  <2>5. \A i \in DOMAIN wire'.inbox : \/ i \in DOMAIN wire.inbox /\ wire'.inbox[i] = wire.inbox[i]
                                      \/ \E j \in DOMAIN more : wire'.inbox[i] = more[j]
    BY <1>9, <2>3, ConcatSequence
  <2>6. \A i \in DOMAIN wire.inbox : wire'.inbox[i] = wire.inbox[i]
    BY <1>9, <2>3, ConcatSequence
  <2>7. ASSUME NEW i \in DOMAIN wire'.inbox
        PROVE  \/ i \in DOMAIN wire.inbox /\ wire'.inbox[i] = wire.inbox[i]
               \/ /\ i \notin DOMAIN wire.inbox
                  /\ wire'.inbox[i].kind = "header" => wire'.inbox[i].block = tip
    <3>1. CASE i \in DOMAIN wire.inbox
      BY <2>6, <3>1
    <3>2. CASE i \notin DOMAIN wire.inbox
      BY <2>5, <2>a, <3>2
    <3> QED
      BY <3>1, <3>2
  <2>8. \A i \in DOMAIN wire'.inbox : wire'.inbox[i].kind = "history" =>
           i \in DOMAIN wire.inbox /\ wire'.inbox[i] = wire.inbox[i]
    BY <2>1, <2>5
  <2> QED
    BY <2>4, <2>7, <2>8
<1>11. Awaited(wire', sync.tasks)
  BY <1>1, <1>9, <1>10, AwaitedLater
<1>12. server' \in Servers /\ server'.subs = server.subs /\ used' \in [moves : Nat, faults : Nat]
  <2>1. used' \in [moves : Nat, faults : Nat]
    BY <1>1, <1>3
  <2> QED
    BY <1>1, <1>3, <2>1 DEF Servers
<1>13. Typed'
  BY <1>3, <1>10, <1>12 DEF Inv1, Typed
<1>14. Quiet'
  <2> SUFFICES ASSUME sync.phase = "off"
               PROVE  wire'.asked = << >> /\ wire'.inbox = << >> /\ net.headers = << >> /\ server.subs = {}
    BY <1>3, <1>12 DEF Quiet
  <2>1. wire.asked = << >> /\ wire.inbox = << >> /\ net.headers = << >> /\ server.subs = {}
    BY DEF Inv1, Quiet
  <2>2. n = 0
    BY <2>1, FS_EmptySet DEF n
  <2>3. heads = << >> /\ told = << >>
    BY <1>5, <2>2 DEF heads, told
  <2>4. wire'.inbox = << >>
    BY <1>9, <2>1, <2>3 DEF more
  <2> QED
    BY <1>9, <2>1, <2>4
<1>15. server'.tip = tip
  BY <1>1, <1>3 DEF Servers
<1> QED
  BY <1>3, <1>10, <1>11, <1>13, <1>14, <1>15 DEF Inv1

(* The answer has the key of the request that it takes the place of. *)
LEMMA AnswersKeep ==
    ASSUME Inv1, ServerAnswers
    PROVE  /\ Inv1' /\ server'.tip = server.tip /\ UNCHANGED <<wallet, sync, spv, net>>
           /\ \A i \in DOMAIN wire'.inbox : wire'.inbox[i].kind = "header" =>
                 i \in DOMAIN wire.inbox /\ wire'.inbox[i] = wire.inbox[i]
<1> DEFINE q == Head(wire.asked)
           now(a) == HistoryAt(server.tip, server.pool, a)
           at == IF q.kind = "proof"
                   THEN BlockWith(server.tip, q.tx) \cap HeaderAt(server.tip, q.height) ELSE {}
           answer ==
               CASE q.kind = "subscribe" -> Status(q.addr, now(q.addr))
                 [] q.kind = "history" -> [kind |-> "history", addr |-> q.addr,
                                           status |-> q.status, hist |-> now(q.addr)]
                 [] q.kind = "tx" -> [kind |-> "tx", tx |-> q.tx, mayMiss |-> q.mayMiss,
                                      found |-> q.tx \in server.pool \cup Mined(server.tip)]
                 [] q.kind = "proof" -> [kind |-> "proof", tx |-> q.tx, height |-> q.height,
                                         block |-> IF at = {} THEN None
                                                   ELSE CHOOSE b \in at : TRUE]
<1>1. /\ server \in Servers /\ wire \in Wires /\ Awaited(wire, sync.tasks)
      /\ wire.asked \in Seq(Requests) /\ wire.inbox \in Seq(Answers) /\ wire.asked # << >>
      /\ server.tip \in Blocks /\ server.pool \in SUBSET Txs
  BY DEF Inv1, Typed, Wires, Servers, ServerAnswers
<1>2. /\ wire' = [asked |-> Tail(wire.asked), inbox |-> Append(wire.inbox, answer)]
      /\ server' = IF q.kind = "subscribe" THEN [server EXCEPT !.subs = @ \cup {q.addr}] ELSE server
      /\ UNCHANGED <<wallet, sync, spv, net, used>>
  BY DEF ServerAnswers
<1>3. q \in Requests
  BY <1>1
<1>4. ASSUME NEW a
      PROVE  now(a) \in Histories
  BY <1>1, ServerHistory
<1>5. (IF at = {} THEN None ELSE CHOOSE b \in at : TRUE) \in Blocks \cup {None}
  <2>1. at \subseteq Blocks
    BY <1>1, TipOfChain DEF BlockWith
  <2> HIDE DEF at
  <2> QED
    BY <2>1
<1> DEFINE found == q.tx \in server.pool \cup Mined(server.tip)
           block == IF at = {} THEN None ELSE CHOOSE b \in at : TRUE
<1>a. found \in BOOLEAN
  OBVIOUS
<1> HIDE DEF at, now, q, found, block
<1>6. /\ answer \in Answers /\ (answer.kind = "history" <=> q.kind = "history")
      /\ answer.kind # "header"
      /\ q.kind = "history" => SameKey(answer, q)
  <2>1. CASE q \in [kind : {"subscribe"}, addr : Addrs]
    <3>1. answer = Status(q.addr, now(q.addr))
      BY <2>1
    <3> QED
      BY <1>4, <2>1, <3>1 DEF Answers, Status
  <2>2. CASE q \in [kind : {"history"}, addr : Addrs, status : Histories]
    <3>1. answer = [kind |-> "history", addr |-> q.addr, status |-> q.status, hist |-> now(q.addr)]
      BY <2>2
    <3> HIDE DEF answer
    <3> QED
      BY <1>4, <2>2, <3>1 DEF Answers, SameKey
  <2>3. CASE q \in [kind : {"tx"}, tx : Txs, mayMiss : BOOLEAN]
    <3>1. answer = [kind |-> "tx", tx |-> q.tx, mayMiss |-> q.mayMiss, found |-> found]
      BY <2>3 DEF found
    <3> HIDE DEF answer
    <3> QED
      BY <1>a, <2>3, <3>1 DEF Answers
  <2>4. CASE q \in [kind : {"proof"}, tx : Txs, height : Nat]
    <3>1. answer = [kind |-> "proof", tx |-> q.tx, height |-> q.height, block |-> block]
      BY <2>4 DEF block
    <3>2. block \in Blocks \cup {None}
      BY <1>5 DEF block
    <3> HIDE DEF answer
    <3> QED
      BY <2>4, <3>1, <3>2 DEF Answers, Proofs
  <2> QED
    BY <1>3, <2>1, <2>2, <2>3, <2>4 DEF Requests
<1> HIDE DEF answer
<1>7. IsSequence(wire.asked) /\ IsSequence(wire.inbox)
  BY <1>1, SequenceOf
<1>8. wire' \in Wires /\ wire'.asked = Tail(wire.asked) /\ wire'.inbox = Append(wire.inbox, answer)
  <2>1. Tail(wire.asked) \in Seq(Requests) /\ Append(wire.inbox, answer) \in Seq(Answers)
    BY <1>1, <1>6
  <2> QED
    BY <1>2, <2>1 DEF Wires
<1>9. /\ 1 \in DOMAIN wire.asked /\ q = wire.asked[1]
      /\ \A i \in DOMAIN wire'.asked : i \in Nat /\ i + 1 # 1 /\ i + 1 \in DOMAIN wire.asked
                                        /\ wire'.asked[i] = wire.asked[i + 1]
  BY <1>1, <1>7, <1>8, TailSequence DEF q
<1>10. \A i \in DOMAIN wire'.inbox :
          wire'.inbox[i] = answer \/ (i \in DOMAIN wire.inbox /\ wire'.inbox[i] = wire.inbox[i])
  BY <1>7, <1>8, AppendSequence
<1>11. AllAwaited(sync.tasks, wire'.asked) /\ AllAwaited(sync.tasks, wire'.inbox)
  <2>1. q.kind = "history" => Awaits(sync.tasks, q)
    BY <1>1, <1>9 DEF Awaited, AllAwaited
  <2>2. answer.kind = "history" => Awaits(sync.tasks, answer)
    BY <1>6, <2>1 DEF Awaits, SameKey
  <2> QED
    BY <1>1, <1>9, <1>10, <2>2 DEF Awaited, AllAwaited
<1>12. NoneTwice(wire'.asked)
  <2> SUFFICES ASSUME NEW i \in DOMAIN wire'.asked, NEW j \in DOMAIN wire'.asked,
                      wire'.asked[i].kind = "history", wire'.asked[j].kind = "history",
                      SameKey(wire'.asked[i], wire'.asked[j])
               PROVE  i = j
    BY DEF NoneTwice
  <2>1. i + 1 = j + 1
    BY <1>1, <1>9 DEF Awaited, NoneTwice
  <2> QED
    BY <1>9, <2>1
<1>13. ASSUME q.kind = "history"
       PROVE  /\ \A j \in DOMAIN wire.inbox : ~ (wire.inbox[j].kind = "history" /\ SameKey(q, wire.inbox[j]))
              /\ \A i \in DOMAIN wire'.asked : ~ (wire'.asked[i].kind = "history" /\ SameKey(q, wire'.asked[i]))
  BY <1>1, <1>9, <1>13 DEF Awaited, Apart, NoneTwice
<1>14. NoneTwice(wire'.inbox)
  <2> SUFFICES ASSUME NEW i \in DOMAIN wire'.inbox, NEW j \in DOMAIN wire'.inbox,
                      wire'.inbox[i].kind = "history", wire'.inbox[j].kind = "history",
                      SameKey(wire'.inbox[i], wire'.inbox[j])
               PROVE  i = j
    BY DEF NoneTwice
  <2>1. \A k \in DOMAIN wire'.inbox : k \in DOMAIN wire.inbox \/ k = Len(wire.inbox) + 1
    BY <1>1, <1>8
  <2>2. CASE i \in DOMAIN wire.inbox /\ j \in DOMAIN wire.inbox
    <3>1. wire'.inbox[i] = wire.inbox[i] /\ wire'.inbox[j] = wire.inbox[j]
      BY <1>7, <1>8, <2>2, AppendSequence
    <3> QED
      BY <1>1, <2>2, <3>1 DEF Awaited, NoneTwice
  <2>3. CASE i \notin DOMAIN wire.inbox /\ j \in DOMAIN wire.inbox
    <3>1. wire'.inbox[i] = answer /\ wire'.inbox[j] = wire.inbox[j]
      BY <1>7, <1>8, <1>10, <2>3, AppendSequence
    <3> QED
      BY <1>6, <1>13, <2>3, <3>1 DEF SameKey
  <2>4. CASE i \in DOMAIN wire.inbox /\ j \notin DOMAIN wire.inbox
    <3>1. wire'.inbox[j] = answer /\ wire'.inbox[i] = wire.inbox[i]
      BY <1>7, <1>8, <1>10, <2>4, AppendSequence
    <3> QED
      BY <1>6, <1>13, <2>4, <3>1 DEF SameKey
  <2>5. CASE i \notin DOMAIN wire.inbox /\ j \notin DOMAIN wire.inbox
    BY <2>1, <2>5
  <2> QED
    BY <2>2, <2>3, <2>4, <2>5
<1>15. Apart(wire'.asked, wire'.inbox)
  <2> SUFFICES ASSUME NEW i \in DOMAIN wire'.asked, NEW j \in DOMAIN wire'.inbox,
                      wire'.asked[i].kind = "history", wire'.inbox[j].kind = "history",
                      SameKey(wire'.asked[i], wire'.inbox[j])
               PROVE  FALSE
    BY DEF Apart
  <2>1. CASE wire'.inbox[j] = answer
    BY <1>6, <1>13, <2>1 DEF SameKey
  <2>2. CASE j \in DOMAIN wire.inbox /\ wire'.inbox[j] = wire.inbox[j]
    BY <1>1, <1>9, <2>2 DEF Awaited, Apart
  <2> QED
    BY <1>10, <2>1, <2>2
<1>16. Awaited(wire', sync.tasks)
  BY <1>1, <1>11, <1>12, <1>14, <1>15 DEF Awaited
<1>17. server' \in Servers /\ server'.tip = server.tip
  <2>1. CASE q.kind = "subscribe"
    <3>1. q.addr \in Addrs
      BY <1>3, <2>1 DEF Requests
    <3> QED
      BY <1>1, <1>2, <2>1, <3>1 DEF Servers
  <2> QED
    BY <1>1, <1>2, <2>1
<1>18. Typed'
  BY <1>2, <1>8, <1>17 DEF Inv1, Typed
<1>19. Quiet'
  <2>1. sync.phase # "off"
    BY <1>1 DEF Inv1, Quiet
  <2> QED
    BY <1>2, <2>1 DEF Quiet
<1> QED
  BY <1>2, <1>6, <1>10, <1>16, <1>17, <1>18, <1>19 DEF Inv1

LEMMA ConnectKeeps ==
    ASSUME Inv1, Connect
    PROVE  Inv1' /\ wire'.inbox = << >> /\ sync'.phase # "off"
<1> DEFINE said == UNION {wallet.hist[a] : a \in Addrs}
           wait == Missing(wallet, Off, said)
<1>1. /\ server \in Servers /\ wire \in Wires /\ wallet \in Wallets /\ net \in Nets
      /\ Awaited(wire, sync.tasks) /\ sync.phase = "off" /\ wire.asked = << >> /\ wire.inbox = << >>
  BY DEF Inv1, Typed, Quiet, Connect
<1>2. /\ IF wait = {}
            THEN /\ sync' = [Off EXCEPT !.phase = "on", !.addrs = Addrs]
                 /\ wire' = [wire EXCEPT !.asked = Asks("subscribe", Addrs)]
            ELSE /\ sync' = [Off EXCEPT !.phase = "txs", !.wait = wait]
                 /\ wire' = [wire EXCEPT !.asked = Asks("txOrNot", wait)]
      /\ \/ net' = [net EXCEPT !.headers = IF server.tip = net.local THEN << >> ELSE <<server.tip>>]
         \/ net' = [local |-> server.tip, headers |-> << >>]
      /\ spv' = Idle(ChainOf[net'.local])
      /\ UNCHANGED <<server, wallet, used>>
  BY DEF Connect
<1>3. wait \in SUBSET Txs /\ IsFiniteSet(wait)
  <2>1. \A p \in said : p[1] \in Txs
    BY <1>1, HistoryPairs DEF Wallets
  <2>2. wait \in SUBSET Txs
    BY <2>1 DEF Missing
  <2> HIDE DEF wait
  <2> QED
    BY <2>2, FinitelyMany, FS_Subset
<1> HIDE DEF wait
<1>4. sync' \in Syncs /\ sync'.tasks = {} /\ sync'.phase # "off"
  <2>1. Off \in Syncs /\ Off.tasks = {}
    BY DEF Off, Syncs
  <2>2. CASE wait = {}
    BY <1>2, <2>1, <2>2 DEF Syncs
  <2>3. CASE wait # {}
    BY <1>2, <1>3, <2>1, <2>3 DEF Syncs
  <2> QED
    BY <2>2, <2>3
<1>5. wire' \in Wires /\ wire'.inbox = << >> /\ \A i \in DOMAIN wire'.asked : wire'.asked[i].kind # "history"
  <2>1. PICK q : /\ wire' = [wire EXCEPT !.asked = q] /\ q \in Seq(Requests)
                 /\ \A i \in DOMAIN q : q[i].kind # "history"
    <3>1. CASE wait = {}
      <4>1. PICK q : q = Asks("subscribe", Addrs)
        OBVIOUS
      <4>2. q \in Seq(Requests) /\ \A i \in DOMAIN q : q[i].kind # "history"
        BY <4>1, FinitelyMany, AsksType
      <4> QED
        BY <1>2, <3>1, <4>1, <4>2
    <3>2. CASE wait # {}
      <4>1. PICK q : q = Asks("txOrNot", wait)
        OBVIOUS
      <4>2. q \in Seq(Requests) /\ \A i \in DOMAIN q : q[i].kind # "history"
        BY <1>3, <4>1, AsksType
      <4> QED
        BY <1>2, <3>2, <4>1, <4>2
    <3> QED
      BY <3>1, <3>2
  <2> QED
    BY <1>1, <2>1 DEF Wires
<1>6. Awaited(wire', {})
  BY <1>5 DEF Awaited, AllAwaited, NoneTwice, Apart, OneTaskEach
<1>7. net' \in Nets
  <2>1. server.tip \in Blocks /\ net.local \in Blocks
    BY <1>1 DEF Servers, Nets
  <2>2. << >> \in Seq(Blocks) /\ <<server.tip>> \in Seq(Blocks)
    BY <2>1
  <2>3. CASE net' = [local |-> server.tip, headers |-> << >>]
    BY <2>1, <2>2, <2>3 DEF Nets
  <2>4. CASE net' = [net EXCEPT !.headers = IF server.tip = net.local THEN << >> ELSE <<server.tip>>]
    <3>1. PICK h \in Seq(Blocks) : net' = [net EXCEPT !.headers = h]
      BY <2>2, <2>4
    <3> QED
      BY <1>1, <3>1 DEF Nets
  <2> QED
    BY <1>2, <2>3, <2>4
<1>8. spv' \in Verifiers
  <2>1. net'.local \in Blocks
    BY <1>7 DEF Nets
  <2> QED
    BY <1>2, <2>1 DEF Idle, Verifiers
<1>9. Typed'
  BY <1>2, <1>4, <1>5, <1>7, <1>8 DEF Inv1, Typed
<1> QED
  BY <1>2, <1>4, <1>5, <1>6, <1>9 DEF Inv1, Quiet

(* A status is looked at once for all that announced it. *)
LEMMA TakeStatusKeeps ==
    ASSUME Inv1, TakeStatus
    PROVE  Inv1' /\ VerifiedIn(wallet, wallet') /\ spv'.chain = spv.chain
           /\ sync'.phase = sync.phase /\ wire'.inbox = Took.inbox
<1> DEFINE a == Head(wire.inbox).addr
           status == Head(wire.inbox).hist
           known == [sync EXCEPT !.addrs = @ \ {a}]
           asked == [known EXCEPT !.stale = @ \ {a}]
           guess == {<<p[1], IF p[2] = InMempool THEN HeightOf[TipAnnounced] ELSE p[2]>>
                        : p \in wallet.hist[a]}
           task  == [addr |-> a, status |-> status, wait |-> {}]
<1>1. /\ wire \in Wires /\ wallet \in Wallets /\ CoinsMarked(wallet) /\ spv \in Verifiers
      /\ Awaited(wire, sync.tasks) /\ sync \in Syncs /\ NextIs("status") /\ net \in Nets
      /\ VerifiedIn(wallet, wallet) /\ sync.phase # "off"
  BY DEF Inv1, Typed, TakeStatus, VerifiedIn, Quiet, NextIs
<1>2. /\ IF NothingToAsk(a, status)
            THEN sync' = known /\ wire' = Took /\ UNCHANGED <<wallet, spv>>
          ELSE IF guess = status
            THEN Store(asked, task, guess, Took)
          ELSE /\ sync' = [asked EXCEPT !.tasks = @ \cup {task}]
               /\ wire' = [Took EXCEPT !.asked =
                             Append(@, [kind |-> "history", addr |-> a, status |-> status])]
               /\ UNCHANGED <<wallet, spv>>
      /\ UNCHANGED <<server, net, used>>
  BY DEF TakeStatus
<1>3. /\ Took \in Wires /\ Took.asked = wire.asked
      /\ Head(wire.inbox) \in Answers /\ Head(wire.inbox).kind = "status"
      /\ \A i \in DOMAIN Took.inbox : i \in Nat /\ i + 1 # 1 /\ i + 1 \in DOMAIN wire.inbox
                                      /\ Took.inbox[i] = wire.inbox[i + 1]
  BY <1>1, TookFacts
<1>4. a \in Addrs /\ status \in Histories
  BY <1>3 DEF Answers, Proofs
<1> HIDE DEF a, status
<1>5. /\ known \in Syncs /\ known.tasks = sync.tasks /\ known.phase = sync.phase
      /\ asked \in Syncs /\ asked.tasks = sync.tasks /\ asked.phase = sync.phase
  BY <1>1 DEF Syncs
<1>6. task \in Tasks
  BY <1>4 DEF Tasks
<1>7. Awaited(Took, sync.tasks)
  BY <1>1, <1>3, AwaitedLater
<1> HIDE DEF known, asked, guess
<1>8. CASE NothingToAsk(a, status)
  BY <1>1, <1>2, <1>3, <1>5, <1>7, <1>8 DEF Inv1, Typed, Quiet
<1>9. ASSUME ~ NothingToAsk(a, status)
      PROVE  /\ \A k \in sync.tasks : ~ SameKey(k, task)
             /\ \A i \in DOMAIN Took.asked : Took.asked[i].kind = "history" => ~ SameKey(Took.asked[i], task)
             /\ \A i \in DOMAIN Took.inbox : Took.inbox[i].kind = "history" => ~ SameKey(Took.inbox[i], task)
  <2>1. \A k \in sync.tasks : ~ SameKey(k, task)
    BY <1>9 DEF NothingToAsk, RequestedHistories, SameKey
  <2>2. ASSUME NEW x, Awaits(sync.tasks, x)
        PROVE  ~ SameKey(x, task)
    BY <2>1, <2>2 DEF Awaits, SameKey
  <2> QED
    BY <1>7, <2>1, <2>2 DEF Awaited, AllAwaited
<1> HIDE DEF task
<1>10. CASE ~ NothingToAsk(a, status) /\ guess = status
  <2>1. Store(asked, task, status, Took)
    BY <1>2, <1>10
  <2>2. /\ wallet' \in Wallets /\ CoinsMarked(wallet)' /\ VerifiedIn(wallet, wallet')
        /\ sync' \in Syncs /\ sync'.phase = asked.phase
        /\ \A l \in asked.tasks : l = task \/ l \in sync'.tasks
        /\ \E m : SameKey(m, task) /\ \A l \in sync'.tasks : l = m \/ (l \in asked.tasks /\ l # task)
        /\ wire' \in Wires /\ wire'.inbox = Took.inbox
        /\ \A i \in DOMAIN wire'.asked : wire'.asked[i].kind = "history" =>
              i \in DOMAIN Took.asked /\ wire'.asked[i] = Took.asked[i]
        /\ spv' \in Verifiers /\ spv'.chain = spv.chain
    BY <1>1, <1>3, <1>4, <1>5, <1>6, <2>1, StoreKeeps
  <2>3. PICK m : SameKey(m, task) /\ \A l \in sync'.tasks : l = m \/ (l \in asked.tasks /\ l # task)
    BY <2>2
  <2>4. Awaited(wire', sync.tasks)
    BY <1>3, <1>7, <2>2, AwaitedLater
  <2>5. Awaited(wire', sync'.tasks)
    <3>1. \A l \in sync.tasks : SameKey(l, task) \/ l \in sync'.tasks
      BY <1>5, <2>2 DEF SameKey
    <3>2. \A l \in sync'.tasks : l = m \/ (l \in sync.tasks /\ ~ SameKey(l, task))
      BY <1>5, <1>9, <1>10, <2>3
    <3>3. /\ \A i \in DOMAIN wire'.asked : wire'.asked[i].kind = "history" => ~ SameKey(wire'.asked[i], task)
          /\ \A i \in DOMAIN wire'.inbox : wire'.inbox[i].kind = "history" => ~ SameKey(wire'.inbox[i], task)
      BY <1>9, <1>10, <2>2
    <3> QED
      BY <2>3, <2>4, <3>1, <3>2, <3>3, AwaitedRetasked DEF Awaited
  <2>6. Typed'
    BY <1>2, <2>2 DEF Inv1, Typed
  <2> QED
    BY <1>1, <1>5, <2>2, <2>5, <2>6 DEF Inv1, Quiet
<1>11. CASE ~ NothingToAsk(a, status) /\ guess # status
  <2> DEFINE r == [kind |-> "history", addr |-> a, status |-> status]
  <2>1. /\ sync' = [asked EXCEPT !.tasks = @ \cup {task}]
        /\ wire' = [Took EXCEPT !.asked = Append(@, r)]
        /\ UNCHANGED <<wallet, spv>>
    BY <1>2, <1>11
  <2>2. sync' \in Syncs /\ sync'.tasks = sync.tasks \cup {task} /\ sync'.phase = sync.phase
    BY <1>5, <1>6, <2>1 DEF Syncs
  <2>3. r \in Requests /\ r.kind = "history" /\ SameKey(r, task) /\ task.wait = {}
    BY <1>4 DEF Requests, SameKey, task
  <2> HIDE DEF r
  <2>4. Took.asked \in Seq(Requests) /\ IsSequence(Took.asked)
    BY <1>3, SequenceOf DEF Wires
  <2>5. wire' \in Wires /\ wire'.inbox = Took.inbox /\ wire'.asked = Append(Took.asked, r)
    <3>1. Append(Took.asked, r) \in Seq(Requests)
      BY <2>3, <2>4
    <3> QED
      BY <1>3, <2>1, <3>1 DEF Wires
  <2>6. \A i \in DOMAIN wire'.asked :
           \/ i \in DOMAIN Took.asked /\ wire'.asked[i] = Took.asked[i]
           \/ i = Len(Took.asked) + 1 /\ wire'.asked[i] = r
    BY <2>4, <2>5
  <2>7. AllAwaited(sync'.tasks, wire'.asked) /\ AllAwaited(sync'.tasks, wire'.inbox)
    <3>1. \A x : Awaits(sync.tasks, x) => Awaits(sync'.tasks, x)
      BY <2>2 DEF Awaits
    <3>2. Awaits(sync'.tasks, r)
      BY <2>2, <2>3 DEF Awaits, SameKey
    <3> QED
      BY <1>7, <2>5, <2>6, <3>1, <3>2 DEF Awaited, AllAwaited
  <2>8. NoneTwice(wire'.asked)
    <3> SUFFICES ASSUME NEW i \in DOMAIN wire'.asked, NEW j \in DOMAIN wire'.asked,
                        wire'.asked[i].kind = "history", wire'.asked[j].kind = "history",
                        SameKey(wire'.asked[i], wire'.asked[j])
                 PROVE  i = j
      BY DEF NoneTwice
    <3>1. CASE i \in DOMAIN Took.asked /\ wire'.asked[i] = Took.asked[i]
               /\ j \in DOMAIN Took.asked /\ wire'.asked[j] = Took.asked[j]
      BY <1>7, <3>1 DEF Awaited, NoneTwice
    <3>2. CASE wire'.asked[i] = r /\ j \in DOMAIN Took.asked /\ wire'.asked[j] = Took.asked[j]
      BY <1>9, <1>11, <2>3, <3>2 DEF SameKey
    <3>3. CASE wire'.asked[j] = r /\ i \in DOMAIN Took.asked /\ wire'.asked[i] = Took.asked[i]
      BY <1>9, <1>11, <2>3, <3>3 DEF SameKey
    <3> QED
      BY <2>6, <3>1, <3>2, <3>3
  <2>9. NoneTwice(wire'.inbox)
    BY <1>7, <2>5 DEF Awaited
  <2>10. Apart(wire'.asked, wire'.inbox)
    <3> SUFFICES ASSUME NEW i \in DOMAIN wire'.asked, NEW j \in DOMAIN wire'.inbox,
                        wire'.asked[i].kind = "history", wire'.inbox[j].kind = "history",
                        SameKey(wire'.asked[i], wire'.inbox[j])
                 PROVE  FALSE
      BY DEF Apart
    <3>1. CASE i \in DOMAIN Took.asked /\ wire'.asked[i] = Took.asked[i]
      BY <1>7, <2>5, <3>1 DEF Awaited, Apart
    <3>2. CASE wire'.asked[i] = r
      BY <1>9, <1>11, <2>3, <2>5, <3>2 DEF SameKey
    <3> QED
      BY <2>6, <3>1, <3>2
  <2>11. OneTaskEach(sync'.tasks)
    BY <1>7, <1>9, <1>11, <2>2 DEF Awaited, OneTaskEach, SameKey
  <2>12. Awaited(wire', sync'.tasks)
    BY <2>7, <2>8, <2>9, <2>10, <2>11 DEF Awaited
  <2>13. Typed'
    BY <1>2, <2>1, <2>2, <2>5 DEF Inv1, Typed
  <2> QED
    BY <1>1, <2>1, <2>2, <2>5, <2>12, <2>13 DEF Inv1, Quiet
<1> QED
  BY <1>8, <1>10, <1>11

(* A history is taken by the task that asked for it. *)
LEMMA TakeHistoryKeeps ==
    ASSUME Inv1, TakeHistory
    PROVE  Inv1' /\ VerifiedIn(wallet, wallet') /\ spv'.chain = spv.chain
           /\ sync'.phase = sync.phase /\ wire'.inbox = Took.inbox
<1> DEFINE m == Head(wire.inbox)
           k == CHOOSE k \in sync.tasks : k.addr = m.addr /\ k.status = m.status
<1>1. /\ wire \in Wires /\ wallet \in Wallets /\ CoinsMarked(wallet) /\ spv \in Verifiers
      /\ Awaited(wire, sync.tasks) /\ sync \in Syncs /\ NextIs("history") /\ net \in Nets
      /\ VerifiedIn(wallet, wallet) /\ sync.phase # "off"
  BY DEF Inv1, Typed, TakeHistory, VerifiedIn, Quiet, NextIs
<1>2. /\ IF m.hist = m.status
            THEN Store(sync, k, m.hist, Took)
            ELSE /\ sync' = [sync EXCEPT !.tasks = @ \ {k}, !.stale = @ \cup {k.addr}]
                 /\ wire' = Took
                 /\ UNCHANGED <<wallet, spv>>
      /\ UNCHANGED <<server, net, used>>
  BY DEF TakeHistory
<1>3. /\ Took \in Wires /\ Took.asked = wire.asked
      /\ m \in Answers /\ m.kind = "history" /\ 1 \in DOMAIN wire.inbox /\ m = wire.inbox[1]
      /\ \A i \in DOMAIN Took.inbox : i \in Nat /\ i + 1 # 1 /\ i + 1 \in DOMAIN wire.inbox
                                      /\ Took.inbox[i] = wire.inbox[i + 1]
  BY <1>1, TookFacts
<1>4. m.addr \in Addrs /\ m.status \in Histories /\ m.hist \in Histories
  BY <1>3 DEF Answers, Proofs
<1>5. Awaits(sync.tasks, m)
  BY <1>1, <1>3 DEF Awaited, AllAwaited
<1> HIDE DEF m
<1>6. k \in sync.tasks /\ SameKey(k, m)
  BY <1>5 DEF Awaits, SameKey
<1> HIDE DEF k
<1>7. k \in Tasks /\ SameKey(m, k)
  BY <1>1, <1>6 DEF Syncs, SameKey
<1>8. Awaited(Took, sync.tasks)
  BY <1>1, <1>3, AwaitedLater
<1>9. /\ \A l \in sync.tasks : SameKey(l, k) => l = k
      /\ \A i \in DOMAIN Took.asked : Took.asked[i].kind = "history" => ~ SameKey(Took.asked[i], k)
      /\ \A i \in DOMAIN Took.inbox : Took.inbox[i].kind = "history" => ~ SameKey(Took.inbox[i], k)
  <2>1. \A l \in sync.tasks : SameKey(l, k) => l = k
    BY <1>1, <1>6 DEF Awaited, OneTaskEach
  <2>2. ASSUME NEW i \in DOMAIN wire.asked, wire.asked[i].kind = "history"
        PROVE  ~ SameKey(wire.asked[i], k)
    BY <1>1, <1>3, <1>6, <2>2 DEF Awaited, Apart, SameKey
  <2>3. ASSUME NEW i \in DOMAIN Took.inbox, Took.inbox[i].kind = "history"
        PROVE  ~ SameKey(Took.inbox[i], k)
    BY <1>1, <1>3, <1>6, <2>3 DEF Awaited, NoneTwice, SameKey
  <2> QED
    BY <1>3, <2>1, <2>2, <2>3
<1>10. CASE m.hist = m.status
  <2>1. Store(sync, k, m.hist, Took)
    BY <1>2, <1>10
  <2>2. /\ wallet' \in Wallets /\ CoinsMarked(wallet)' /\ VerifiedIn(wallet, wallet')
        /\ sync' \in Syncs /\ sync'.phase = sync.phase
        /\ \A l \in sync.tasks : l = k \/ l \in sync'.tasks
        /\ \E n : SameKey(n, k) /\ \A l \in sync'.tasks : l = n \/ (l \in sync.tasks /\ l # k)
        /\ wire' \in Wires /\ wire'.inbox = Took.inbox
        /\ \A i \in DOMAIN wire'.asked : wire'.asked[i].kind = "history" =>
              i \in DOMAIN Took.asked /\ wire'.asked[i] = Took.asked[i]
        /\ spv' \in Verifiers /\ spv'.chain = spv.chain
    BY <1>1, <1>3, <1>4, <1>7, <2>1, StoreKeeps
  <2>3. PICK n : SameKey(n, k) /\ \A l \in sync'.tasks : l = n \/ (l \in sync.tasks /\ l # k)
    BY <2>2
  <2>4. Awaited(wire', sync.tasks)
    BY <1>3, <1>8, <2>2, AwaitedLater
  <2>5. Awaited(wire', sync'.tasks)
    <3>1. \A l \in sync.tasks : SameKey(l, k) \/ l \in sync'.tasks
      BY <2>2 DEF SameKey
    <3>2. \A l \in sync'.tasks : l = n \/ (l \in sync.tasks /\ ~ SameKey(l, k))
      BY <1>9, <2>3
    <3>3. /\ \A i \in DOMAIN wire'.asked : wire'.asked[i].kind = "history" => ~ SameKey(wire'.asked[i], k)
          /\ \A i \in DOMAIN wire'.inbox : wire'.inbox[i].kind = "history" => ~ SameKey(wire'.inbox[i], k)
      BY <1>9, <2>2
    <3> QED
      BY <2>3, <2>4, <3>1, <3>2, <3>3, AwaitedRetasked DEF Awaited
  <2>6. Typed'
    BY <1>2, <2>2 DEF Inv1, Typed
  <2> QED
    BY <1>1, <2>2, <2>5, <2>6 DEF Inv1, Quiet
<1>11. CASE m.hist # m.status
  <2>1. /\ sync' = [sync EXCEPT !.tasks = @ \ {k}, !.stale = @ \cup {k.addr}]
        /\ wire' = Took /\ UNCHANGED <<wallet, spv>>
    BY <1>2, <1>11
  <2>2. sync' \in Syncs /\ sync'.tasks = sync.tasks \ {k} /\ sync'.phase = sync.phase
    <3>1. k.addr \in Addrs
      BY <1>7 DEF Tasks
    <3> QED
      BY <1>1, <2>1, <3>1 DEF Syncs
  <2>3. Awaited(Took, sync'.tasks)
    <3>1. \A l \in sync.tasks : SameKey(l, k) \/ l \in sync'.tasks
      BY <2>2 DEF SameKey
    <3>2. \A l \in sync'.tasks : l = m \/ (l \in sync.tasks /\ ~ SameKey(l, k))
      BY <1>9, <2>2
    <3> QED
      BY <1>7, <1>8, <1>9, <3>1, <3>2, AwaitedRetasked DEF Awaited
  <2>4. Typed'
    BY <1>2, <1>3, <2>1, <2>2 DEF Inv1, Typed
  <2> QED
    BY <1>1, <2>1, <2>2, <2>3, <2>4 DEF Inv1, Quiet
<1> QED
  BY <1>10, <1>11

(* Tasks that wait for a history do not wait for transactions. *)
LEMMA CameTypes ==
    ASSUME NEW s \in Syncs, NEW t, NEW r, r = Came(s, t)
    PROVE  /\ r \in Syncs /\ (s.phase # "off" => r.phase # "off")
           /\ \A k \in s.tasks : k.wait = {} => k \in r.tasks
           /\ OneTaskEach(s.tasks) => OneTaskEach(r.tasks)
<1> DEFINE told == {[k EXCEPT !.wait = @ \ {t}] : k \in {k \in s.tasks : t \in k.wait}}
           stay == {k \in s.tasks : t \notin k.wait}
           next == stay \cup {k \in told : k.wait # {}}
<1>1. r = [s EXCEPT !.wait = @ \ {t}, !.tasks = next,
                    !.phase = IF s.wait = {t} THEN "on" ELSE @,
                    !.addrs = IF s.wait = {t} THEN Addrs ELSE @]
  BY DEF Came
<1>2. ASSUME NEW l \in told
      PROVE  l \in Tasks /\ \E k \in s.tasks : SameKey(l, k) /\ t \in k.wait /\ l = [k EXCEPT !.wait = @ \ {t}]
  <2>1. PICK k \in s.tasks : t \in k.wait /\ l = [k EXCEPT !.wait = @ \ {t}]
    BY <1>2
  <2>2. k \in Tasks
    BY DEF Syncs
  <2>3. l \in Tasks /\ SameKey(l, k)
    BY <2>1, <2>2 DEF Tasks, SameKey
  <2> QED
    BY <2>1, <2>3
<1> HIDE DEF told
<1>3. next \in SUBSET Tasks
  BY <1>2 DEF Syncs
<1>4. \A k \in s.tasks : k.wait = {} => k \in next
  OBVIOUS
<1>5. ASSUME OneTaskEach(s.tasks), NEW l \in next, NEW n \in next, SameKey(l, n)
      PROVE  l = n
  <2>1. CASE l \in stay /\ n \in stay
    BY <1>5, <2>1 DEF OneTaskEach
  <2>2. CASE l \in told /\ n \in stay
    <3>1. PICK k \in s.tasks : SameKey(l, k) /\ t \in k.wait
      BY <1>2, <2>2
    <3>2. k = n
      BY <1>5, <2>2, <3>1 DEF OneTaskEach, SameKey
    <3> QED
      BY <2>2, <3>1, <3>2
  <2>3. CASE l \in stay /\ n \in told
    <3>1. PICK k \in s.tasks : SameKey(n, k) /\ t \in k.wait
      BY <1>2, <2>3
    <3>2. k = l
      BY <1>5, <2>3, <3>1 DEF OneTaskEach, SameKey
    <3> QED
      BY <2>3, <3>1, <3>2
  <2>4. CASE l \in told /\ n \in told
    <3>1. PICK j \in s.tasks : SameKey(l, j) /\ l = [j EXCEPT !.wait = @ \ {t}]
      BY <1>2, <2>4
    <3>2. PICK k \in s.tasks : SameKey(n, k) /\ n = [k EXCEPT !.wait = @ \ {t}]
      BY <1>2, <2>4
    <3>3. j = k
      BY <1>5, <3>1, <3>2 DEF OneTaskEach, SameKey
    <3> QED
      BY <3>1, <3>2, <3>3
  <2> QED
    BY <2>1, <2>2, <2>3, <2>4
<1>6. OneTaskEach(s.tasks) => OneTaskEach(next)
  <2> HIDE DEF next
  <2> QED
    BY <1>5 DEF OneTaskEach
<1> HIDE DEF next
<1>7. r \in Syncs /\ r.tasks = next /\ (s.phase # "off" => r.phase # "off")
  <2>1. PICK p \in {"on", s.phase} : p = IF s.wait = {t} THEN "on" ELSE s.phase
    OBVIOUS
  <2>2. PICK a \in SUBSET Addrs : a = IF s.wait = {t} THEN Addrs ELSE s.addrs
    BY DEF Syncs
  <2>3. r = [s EXCEPT !.wait = @ \ {t}, !.tasks = next, !.phase = p, !.addrs = a]
    BY <1>1, <2>1, <2>2 DEF Syncs
  <2>4. s.wait \ {t} \in SUBSET Txs /\ p \in {"off", "txs", "on"} /\ (s.phase # "off" => p # "off")
    BY <2>1 DEF Syncs
  <2> QED
    BY <1>3, <2>2, <2>3, <2>4 DEF Syncs
<1> QED
  BY <1>4, <1>6, <1>7

(* A transaction is stored, and asked for no more. *)
LEMMA TakeTxKeeps ==
    ASSUME Inv1, TakeTx
    PROVE  /\ Inv1' /\ VerifiedIn(wallet, wallet')
           /\ \/ Closed
              \/ /\ UNCHANGED <<server, spv, net>> /\ wire'.inbox = Took.inbox
                 /\ sync.phase # "off" => sync'.phase # "off"
<1> DEFINE m == Head(wire.inbox)
<1>1. /\ wire \in Wires /\ wallet \in Wallets /\ CoinsMarked(wallet) /\ sync \in Syncs
      /\ NextIs("tx") /\ used' = used
  BY DEF Inv1, Typed, TakeTx
<1>2. /\ Took \in Wires /\ Took.asked = wire.asked /\ m \in Answers /\ m.kind = "tx"
      /\ \A i \in DOMAIN Took.inbox : i \in Nat /\ i + 1 \in DOMAIN wire.inbox
                                      /\ Took.inbox[i] = wire.inbox[i + 1]
  BY <1>1, TookFacts
<1>3. m.tx \in Txs
  BY <1>2 DEF Answers, Proofs
<1>4. CASE m.found \/ m.mayMiss
  <2>1. /\ sync' = Came(sync, m.tx)
        /\ wallet' = IF m.found THEN AddTransaction(wallet, m.tx) ELSE wallet
        /\ wire' = IF sync.wait = {m.tx}
                     THEN [Took EXCEPT !.asked = @ \o Asks("subscribe", Addrs)] ELSE Took
        /\ UNCHANGED <<server, spv, net>>
    BY <1>4 DEF TakeTx
  <2>2. wallet' \in Wallets /\ CoinsMarked(wallet)' /\ VerifiedIn(wallet, wallet')
    <3>1. CASE m.found
      <4>1. Keeps(wallet, wallet')
        BY <1>1, <1>3, <2>1, <3>1, AdditionKeeps
      <4> QED
        BY <4>1 DEF Keeps, CoinsMarked
    <3>2. CASE ~ m.found
      BY <1>1, <2>1, <3>2 DEF VerifiedIn, CoinsMarked
    <3> QED
      BY <3>1, <3>2
  <2>3. /\ sync' \in Syncs /\ (sync.phase # "off" => sync'.phase # "off")
        /\ \A k \in sync.tasks : k.wait = {} => k \in sync'.tasks
        /\ OneTaskEach(sync.tasks) => OneTaskEach(sync'.tasks)
    BY <1>1, <2>1, CameTypes
  <2>4. /\ wire' \in Wires /\ wire'.inbox = Took.inbox
        /\ \A i \in DOMAIN wire'.asked : wire'.asked[i].kind = "history" =>
              i \in DOMAIN Took.asked /\ wire'.asked[i] = Took.asked[i]
    <3>1. CASE sync.wait = {m.tx}
      <4> DEFINE q == Asks("subscribe", Addrs)
      <4>1. q \in Seq(Requests) /\ \A i \in DOMAIN q : q[i].kind # "history"
        BY FinitelyMany, AsksType
      <4> HIDE DEF q
      <4>2. wire' = [Took EXCEPT !.asked = @ \o q]
        BY <2>1, <3>1 DEF q
      <4>3. PICK x \in Wires : x = Took
        BY <1>2
      <4>4. Sends(x, q, wire')
        BY <4>2, <4>3 DEF Sends
      <4>5. /\ wire' \in Wires /\ wire'.inbox = x.inbox
            /\ \A i \in DOMAIN wire'.asked : wire'.asked[i].kind = "history" =>
                  i \in DOMAIN x.asked /\ wire'.asked[i] = x.asked[i]
        BY <4>1, <4>4, SentFacts
      <4> QED
        BY <4>3, <4>5
    <3>2. CASE sync.wait # {m.tx}
      BY <1>2, <2>1, <3>2
    <3> QED
      BY <3>1, <3>2
  <2>5. Awaited(wire', sync.tasks)
    BY <1>1, <1>2, <2>4, AwaitedLater DEF Inv1
  <2>6. Awaited(wire', sync'.tasks)
    <3>1. \A x : Awaits(sync.tasks, x) => Awaits(sync'.tasks, x)
      BY <2>3 DEF Awaits
    <3> QED
      BY <2>3, <2>5, <3>1 DEF Awaited, AllAwaited
  <2>7. Typed'
    BY <1>1, <2>1, <2>2, <2>3, <2>4 DEF Inv1, Typed
  <2>8. sync.phase # "off"
    BY <1>1 DEF Inv1, Quiet, NextIs
  <2>9. Inv1'
    BY <2>2, <2>3, <2>6, <2>7, <2>8 DEF Inv1, Quiet
  <2> QED
    BY <2>1, <2>2, <2>3, <2>4, <2>9
<1>5. CASE ~ (m.found \/ m.mayMiss)
  <2>1. Closed /\ UNCHANGED wallet
    BY <1>5 DEF TakeTx
  <2>2. Typed' /\ Awaited(wire, sync.tasks)' /\ Quiet'
    BY <1>1, <2>1, ClosedTypes DEF Inv1, Typed
  <2> QED
    BY <1>1, <2>1, <2>2 DEF Inv1, VerifiedIn, CoinsMarked
<1> QED
  BY <1>4, <1>5

LEMMA TakeHeaderKeeps ==
    ASSUME Inv1, TakeHeader
    PROVE  Inv1'
<1>1. /\ wire \in Wires /\ NextIs("header") /\ wire' = Took /\ net \in Nets
      /\ net' = [net EXCEPT !.headers = Append(@, Head(wire.inbox).block)]
      /\ UNCHANGED <<server, wallet, sync, spv, used>>
  BY DEF Inv1, Typed, TakeHeader
<1>2. /\ Took \in Wires /\ Took.asked = wire.asked
      /\ Head(wire.inbox) \in Answers /\ Head(wire.inbox).kind = "header"
      /\ \A i \in DOMAIN Took.inbox : i \in Nat /\ i + 1 \in DOMAIN wire.inbox
                                      /\ Took.inbox[i] = wire.inbox[i + 1]
  BY <1>1, TookFacts
<1>3. Head(wire.inbox).block \in Blocks
  BY <1>2 DEF Answers, Proofs
<1>4. net' \in Nets
  <2>1. PICK b \in Blocks : b = Head(wire.inbox).block
    BY <1>3
  <2>2. net' = [net EXCEPT !.headers = Append(@, b)]
    BY <1>1, <2>1
  <2>3. Append(net.headers, b) \in Seq(Blocks)
    BY <1>1 DEF Nets
  <2> QED
    BY <1>1, <2>2, <2>3 DEF Nets
<1>5. Awaited(wire', sync.tasks)
  BY <1>1, <1>2, AwaitedLater DEF Inv1
<1>6. Typed'
  BY <1>1, <1>2, <1>4 DEF Inv1, Typed
<1>7. sync.phase # "off"
  BY <1>1 DEF Inv1, Quiet, NextIs
<1> QED
  BY <1>1, <1>5, <1>6, <1>7 DEF Inv1, Quiet, CoinsMarked

LEMMA FollowKeeps ==
    ASSUME Inv1, Follow
    PROVE  Inv1'
<1>1. /\ net \in Nets /\ net.headers # << >>
      /\ net' = [local |-> Head(net.headers), headers |-> Tail(net.headers)]
      /\ UNCHANGED <<server, wire, wallet, sync, spv, used>>
  BY DEF Inv1, Typed, Follow
<1>2. net' \in Nets
  BY <1>1 DEF Nets
<1>3. sync.phase # "off"
  BY <1>1 DEF Inv1, Quiet
<1> QED
  BY <1>1, <1>2, <1>3 DEF Inv1, Quiet, CoinsMarked, Typed

(* What the verifier undoes, and asks for *)
LEMMA PollKeeps ==
    ASSUME Inv1, Poll
    PROVE  Inv1' /\ VerifiedIn(wallet, wallet')
<1> DEFINE above == LastCommon(net.local, TopOf(spv.chain))
           moved == ChainOf[net.local] # spv.chain
           redo  == IF moved THEN Undone(wallet, net.local, above) ELSE {}
           kept  == [spv EXCEPT !.chain = ChainOf[net.local], !.roots = @ \ redo,
                                !.requested = @ \ redo]
           free  == Txs \ (kept.requested \cup kept.roots)
           ask   == {t \in free : wallet'.unverified[t] \in 1 .. HeightOf[net.local]}
           q     == Asks("proof", ask)
<1>1. /\ wire \in Wires /\ wallet \in Wallets /\ CoinsMarked(wallet) /\ spv \in Verifiers
      /\ net \in Nets /\ sync.phase # "off"
      /\ UNCHANGED <<server, sync, net, used>>
  BY DEF Inv1, Typed, Poll
<1>2. /\ wallet' = IF moved THEN UndoVerifications(wallet, net.local, above) ELSE wallet
      /\ spv' = [kept EXCEPT !.requested = @ \cup ask]
      /\ wire' = [wire EXCEPT !.asked = @ \o q]
  BY DEF Poll
<1>3. wallet' \in Wallets /\ CoinsMarked(wallet') /\ VerifiedIn(wallet, wallet')
  <2>1. CASE moved
    <3>1. net.local \in Blocks
      BY <1>1 DEF Nets
    <3>2. wallet' \in Wallets /\ SameCoins(wallet, wallet') /\ VerifiedIn(wallet, wallet')
      BY <1>1, <1>2, <2>1, <3>1, UndoKeeps
    <3> QED
      BY <1>1, <3>2, SameCoinsMarked
  <2>2. CASE ~ moved
    BY <1>1, <1>2, <2>2 DEF VerifiedIn
  <2> QED
    BY <2>1, <2>2
<1>4. ask \in SUBSET Txs /\ \A x \in ask : wallet'.unverified[x] \in Nat
  BY Heights
<1>5. q \in Seq(Requests) /\ \A i \in DOMAIN q : q[i].kind # "history"
  <2>1. IsFiniteSet(ask)
    BY <1>4, FinitelyMany, FS_Subset
  <2> HIDE DEF ask
  <2> QED
    BY <1>4, <2>1, AsksType
<1> HIDE DEF q
<1>6. /\ wire' \in Wires /\ wire'.inbox = wire.inbox
      /\ \A i \in DOMAIN wire'.asked : wire'.asked[i].kind = "history" =>
            i \in DOMAIN wire.asked /\ wire'.asked[i] = wire.asked[i]
  <2>1. Sends(wire, q, wire')
    BY <1>2 DEF Sends
  <2> QED
    BY <1>1, <1>5, <2>1, SentFacts
<1>7. spv' \in Verifiers
  <2> HIDE DEF ask, redo
  <2>1. ChainOf[net.local] \in {ChainOf[b] : b \in Blocks}
    BY <1>1 DEF Nets
  <2>2. kept \in Verifiers
    BY <1>1, <2>1 DEF Verifiers
  <2> QED
    BY <1>2, <1>4, <2>2 DEF Verifiers
<1>8. Awaited(wire', sync.tasks)
  BY <1>1, <1>6, AwaitedLater DEF Inv1
<1>9. Typed'
  BY <1>1, <1>3, <1>6, <1>7 DEF Inv1, Typed
<1> QED
  BY <1>1, <1>3, <1>8, <1>9 DEF Inv1, Quiet, CoinsMarked

(* A proof came, or there is none. *)
LEMMA TakeProofKeeps ==
    ASSUME Inv1, TakeProof
    PROVE  Inv1' /\ VerifiedIn(wallet, wallet') /\ spv'.chain = spv.chain
<1> DEFINE m == Head(wire.inbox)
<1>1. /\ wire \in Wires /\ wallet \in Wallets /\ CoinsMarked(wallet) /\ spv \in Verifiers
      /\ NextIs("proof") /\ wire' = Took /\ UNCHANGED <<server, sync, net, used>>
  BY DEF Inv1, Typed, TakeProof
<1>2. /\ Took \in Wires /\ Took.asked = wire.asked /\ m \in Answers /\ m.kind = "proof"
      /\ \A i \in DOMAIN Took.inbox : i \in Nat /\ i + 1 \in DOMAIN wire.inbox
                                      /\ Took.inbox[i] = wire.inbox[i + 1]
  BY <1>1, TookFacts
<1>3. m \in Proofs
  BY <1>2 DEF Answers
<1>4. wallet' \in Wallets /\ SameCoins(wallet, wallet') /\ wallet'.verified = wallet.verified
  <2> HIDE DEF m
  <2>1. wallet' = wallet \/ wallet' = [wallet EXCEPT !.unverified[m.tx] = None]
    BY DEF TakeProof, m
  <2> QED
    BY <1>1, <1>3, <2>1 DEF Wallets, SameCoins
<1>5. spv' \in Verifiers /\ spv'.chain = spv.chain
  <2> HIDE DEF m
  <2>1. spv' = [spv EXCEPT !.requested = @ \ {m.tx}] \/ spv' = [spv EXCEPT !.proofs = @ \cup {m}]
    BY DEF TakeProof, NotThere, m
  <2> QED
    BY <1>1, <1>3, <2>1 DEF Verifiers
<1>6. Awaited(wire', sync.tasks)
  BY <1>1, <1>2, AwaitedLater DEF Inv1
<1>7. Typed'
  BY <1>1, <1>2, <1>4, <1>5 DEF Inv1, Typed
<1>8. CoinsMarked(wallet')
  BY <1>1, <1>4, SameCoinsMarked
<1>9. sync.phase # "off"
  BY <1>1 DEF Inv1, Quiet, NextIs
<1>10. VerifiedIn(wallet, wallet')
  BY <1>4 DEF VerifiedIn
<1> QED
  BY <1>1, <1>5, <1>6, <1>7, <1>8, <1>9, <1>10 DEF Inv1, Quiet, CoinsMarked

(* What is verified is in the block that the proof is for. *)
LEMMA VerifyKeeps ==
    ASSUME Inv1, Verify
    PROVE  /\ Inv1'
           /\ \/ Closed /\ UNCHANGED wallet
              \/ /\ UNCHANGED <<server, wire, sync, net>> /\ spv'.chain = spv.chain
                 /\ \A t \in Txs : \/ wallet'.verified[t] = wallet.verified[t]
                                   \/ wallet'.verified[t] \in ChainTo[net.local]
<1>1. /\ wire \in Wires /\ wallet \in Wallets /\ CoinsMarked(wallet) /\ spv \in Verifiers
      /\ net.local \in Blocks /\ used' = used
  BY DEF Inv1, Typed, Verify, Nets
<1>2. PICK m \in spv.proofs :
          IF HeaderAt(net.local, m.height) = {m.block}
            THEN /\ spv' = [spv EXCEPT !.proofs = @ \ {m}, !.roots = @ \cup {m.tx},
                                       !.requested = @ \ {m.tx}]
                 /\ wallet' = AddVerified(m)
                 /\ UNCHANGED <<server, wire, sync, net>>
            ELSE Closed /\ UNCHANGED wallet
  BY DEF Verify
<1>3. CASE HeaderAt(net.local, m.height) = {m.block}
  <2>1. /\ spv' = [spv EXCEPT !.proofs = @ \ {m}, !.roots = @ \cup {m.tx},
                              !.requested = @ \ {m.tx}]
        /\ wallet' = AddVerified(m) /\ UNCHANGED <<server, wire, sync, net>>
    BY <1>2, <1>3
  <2>2. m \in Proofs
    BY <1>1 DEF Verifiers
  <2>3. m.block \in ChainTo[net.local]
    BY <1>3 DEF HeaderAt
  <2>4. m.block \in Blocks
    BY <1>1, <2>3, TipOfChain
  <2>5. spv' \in Verifiers /\ spv'.chain = spv.chain
    BY <1>1, <2>1, <2>2 DEF Verifiers, Proofs
  <2>6. /\ wallet' \in Wallets /\ SameCoins(wallet, wallet')
        /\ wallet'.verified = [wallet.verified EXCEPT ![m.tx] = m.block]
    BY <1>1, <2>1, <2>2, <2>4 DEF Wallets, Proofs, SameCoins, AddVerified
  <2>7. \A t \in Txs : \/ wallet'.verified[t] = wallet.verified[t]
                       \/ wallet'.verified[t] \in ChainTo[net.local]
    BY <1>1, <2>3, <2>6 DEF Wallets
  <2>8. CoinsMarked(wallet')
    BY <1>1, <2>6, SameCoinsMarked
  <2>9. Typed'
    BY <1>1, <2>1, <2>5, <2>6 DEF Inv1, Typed
  <2>10. Inv1'
    BY <2>1, <2>8, <2>9 DEF Inv1, Quiet, CoinsMarked, Awaited, AllAwaited
  <2> QED
    BY <2>1, <2>5, <2>7, <2>10
<1>4. CASE HeaderAt(net.local, m.height) # {m.block}
  <2>1. Closed /\ UNCHANGED wallet
    BY <1>2, <1>4
  <2>2. Typed' /\ Awaited(wire, sync.tasks)' /\ Quiet'
    BY <1>1, <2>1, ClosedTypes DEF Inv1, Typed
  <2> QED
    BY <1>1, <2>1, <2>2 DEF Inv1, CoinsMarked
<1> QED
  BY <1>3, <1>4

LEMMA RestartKeeps ==
    ASSUME Inv1, Restart
    PROVE  Inv1' /\ VerifiedIn(wallet, wallet') /\ Closed
<1>1. /\ wallet \in Wallets /\ CoinsMarked(wallet) /\ used \in [moves : Nat, faults : Nat]
      /\ used' = [used EXCEPT !.faults = @ + 1] /\ Closed
  BY DEF Inv1, Typed, Restart, Fault
<1>2. PICK order \in SetToSeqs(Addrs) : wallet' = Loaded(wallet, order)
  BY DEF Restart
<1>3. wallet' \in Wallets /\ SameCoins(wallet, wallet') /\ VerifiedIn(wallet, wallet')
  BY <1>1, <1>2, LoadedKeeps
<1>4. CoinsMarked(wallet')
  BY <1>1, <1>3, SameCoinsMarked
<1>5. Typed' /\ Awaited(wire, sync.tasks)' /\ Quiet'
  BY <1>1, <1>3, ClosedTypes DEF Inv1
<1> QED
  BY <1>1, <1>3, <1>4, <1>5 DEF Inv1, CoinsMarked

(* The connection ends. *)
LEMMA EndKeeps ==
    ASSUME Inv1, Closed, UNCHANGED wallet, used' \in [moves : Nat, faults : Nat]
    PROVE  Inv1'
<1>1. Typed' /\ Awaited(wire, sync.tasks)' /\ Quiet'
  BY ClosedTypes DEF Inv1, Typed
<1> QED
  BY <1>1 DEF Inv1, CoinsMarked

LEMMA DisconnectKeeps ==
    ASSUME Inv1, Disconnect \/ StaleTimeout
    PROVE  Inv1' /\ Closed /\ UNCHANGED wallet
<1>1. used' \in [moves : Nat, faults : Nat]
  BY DEF Inv1, Typed, Disconnect, StaleTimeout, Fault
<1>2. Closed /\ UNCHANGED wallet
  BY DEF Disconnect, StaleTimeout
<1> QED
  BY <1>1, <1>2, EndKeeps

LEMMA Begins ==
    ASSUME Init
    PROVE  Inv1
<1>1. /\ server = [tip |-> Genesis, pool |-> {}, subs |-> {}]
      /\ wire = [asked |-> << >>, inbox |-> << >>] /\ wallet = Empty /\ sync = Off
      /\ spv = Idle(ChainOf[Genesis]) /\ net = [local |-> Genesis, headers |-> << >>]
      /\ used = [moves |-> 0, faults |-> 0] /\ Genesis \in Blocks
  BY BlocksLinked DEF Init
<1>2. server \in Servers /\ wire \in Wires /\ sync \in Syncs
  BY <1>1 DEF Servers, Wires, Syncs, Off
<1>3. spv \in Verifiers /\ net \in Nets /\ used \in [moves : Nat, faults : Nat]
  BY <1>1 DEF Verifiers, Nets, Idle
<1>4. wallet \in Wallets
  BY <1>1 DEF Wallets, Empty, Histories
<1>5. CoinsMarked(wallet)
  BY <1>1 DEF CoinsMarked, Empty
<1>6. Awaited(wire, sync.tasks)
  BY <1>1 DEF Off, Awaited, AllAwaited, NoneTwice, Apart, OneTaskEach
<1> QED
  BY <1>1, <1>2, <1>3, <1>4, <1>5, <1>6 DEF Inv1, Typed, Quiet

LEMMA StepsKeep ==
    ASSUME Inv1, [Next]_vars
    PROVE  Inv1'
<1>1. CASE \E tip \in Blocks, pool \in SUBSET Txs : ServerMoves(tip, pool)
  BY <1>1, MovesKeep
<1>2. CASE ServerAnswers
  BY <1>2, AnswersKeep
<1>3. CASE Connect
  BY <1>3, ConnectKeeps
<1>4. CASE Disconnect \/ StaleTimeout
  BY <1>4, DisconnectKeeps
<1>5. CASE Restart
  BY <1>5, RestartKeeps
<1>6. CASE TakeHeader
  BY <1>6, TakeHeaderKeeps
<1>7. CASE TakeStatus
  BY <1>7, TakeStatusKeeps
<1>8. CASE TakeHistory
  BY <1>8, TakeHistoryKeeps
<1>9. CASE TakeTx
  BY <1>9, TakeTxKeeps
<1>10. CASE TakeProof
  BY <1>10, TakeProofKeeps
<1>11. CASE Follow
  BY <1>11, FollowKeeps
<1>12. CASE Poll
  BY <1>12, PollKeeps
<1>13. CASE Verify
  BY <1>13, VerifyKeeps
<1>14. CASE UNCHANGED vars
  BY <1>14 DEF vars, Inv1, Typed, CoinsMarked, Awaited, AllAwaited, Quiet
<1> QED
  BY <1>1, <1>2, <1>3, <1>4, <1>5, <1>6, <1>7, <1>8, <1>9, <1>10, <1>11, <1>12, <1>13, <1>14
     DEF Next

LEMMA TypesFollow ==
    ASSUME Inv1
    PROVE  TypeOK /\ NoConflicts
<1>1. TypeOK
  <2>1. RequestedTx(sync) \subseteq Txs
    BY DEF Inv1, Typed, Syncs, Tasks, RequestedTx
  <2> QED
    BY <2>1 DEF TypeOK, Inv1, Typed, Servers, Wallets, Syncs, Verifiers, Nets
<1> QED
  BY <1>1 DEF NoConflicts, Inv1, CoinsMarked

-----------------------------------------------------------------------------
(*                                Theorems                                 *)

(* Whatever the server does, and whenever the connection is lost, all that  *)
(* the wallet, the synchronizer and the verifier keep is of its type: the   *)
(* heights of what is verified are those of blocks, and what is asked for   *)
(* are transactions.                                                        *)
THEOREM TypesHold == Spec => []TypeOK
<1>1. Inv1 => TypeOK
  BY TypesFollow
<1> QED
  BY <1>1, Begins, StepsKeep, PTL DEF Spec

(* Of the transactions that spend a coin the wallet has one, in whatever    *)
(* order they and their histories come: add_transaction removes the others  *)
(* with all that depends on them before it stores one.                      *)
THEOREM CoinsAreSpentOnce == Spec => []NoConflicts
<1>1. Inv1 => NoConflicts
  BY TypesFollow
<1> QED
  BY <1>1, Begins, StepsKeep, PTL DEF Spec

-----------------------------------------------------------------------------
(*                      What is verified, and the chain                    *)

(* The headers that were announced, those of the network and those on their  *)
(* way, are one above the other, and above what the network follows.         *)
Rising ==
    /\ HeightOf[net.local] <= HeightOf[server.tip]
    /\ \A i \in DOMAIN net.headers :
          /\ HeightOf[net.local] <= HeightOf[net.headers[i]]
          /\ HeightOf[net.headers[i]] <= HeightOf[server.tip]
          /\ \A j \in DOMAIN net.headers : i <= j => HeightOf[net.headers[i]] <= HeightOf[net.headers[j]]
    /\ \A i \in DOMAIN wire.inbox : wire.inbox[i].kind = "header" =>
          /\ HeightOf[net.local] <= HeightOf[wire.inbox[i].block]
          /\ HeightOf[wire.inbox[i].block] <= HeightOf[server.tip]
          /\ \A j \in DOMAIN net.headers : HeightOf[net.headers[j]] <= HeightOf[wire.inbox[i].block]
          /\ \A j \in DOMAIN wire.inbox : i <= j /\ wire.inbox[j].kind = "header" =>
                HeightOf[wire.inbox[i].block] <= HeightOf[wire.inbox[j].block]

(* What is verified is on the chain that is followed, or on the one that the *)
(* verifier last looked at if it has not looked since.                       *)
OnChainOrUnseen(w) ==
    \A t \in Txs : w.verified[t] # None =>
        \/ w.verified[t] \in ChainTo[net.local]
        \/ spv.chain # ChainOf[net.local] /\ w.verified[t] \in ChainTo[TopOf(spv.chain)]

Inv2 == /\ Rising /\ OnChainOrUnseen(wallet)
        /\ sync.phase = "off" => spv.chain = ChainOf[net.local]

(* Nothing is announced: headers stay where they are, or the first message,   *)
(* that is none, is taken.                                                    *)
LEMMA RisingLater ==
    ASSUME Rising, server'.tip = server.tip, net' = net,
           \/ \A i \in DOMAIN wire'.inbox : wire'.inbox[i].kind = "header" =>
                 i \in DOMAIN wire.inbox /\ wire'.inbox[i] = wire.inbox[i]
           \/ wire \in Wires /\ wire'.inbox = Took.inbox /\ wire.inbox # << >>
    PROVE  Rising'
<1> DEFINE heads == {i \in DOMAIN wire.inbox : wire.inbox[i].kind = "header"}
<1>1. CASE \A i \in DOMAIN wire'.inbox : wire'.inbox[i].kind = "header" =>
                i \in DOMAIN wire.inbox /\ wire'.inbox[i] = wire.inbox[i]
  BY <1>1 DEF Rising
<1>2. CASE wire \in Wires /\ wire'.inbox = Took.inbox /\ wire.inbox # << >>
  <2>1. NextIs(Head(wire.inbox).kind)
    BY <1>2 DEF NextIs
  <2>2. \A i \in DOMAIN wire'.inbox : i \in Nat /\ i + 1 \in DOMAIN wire.inbox
                                       /\ wire'.inbox[i] = wire.inbox[i + 1]
    BY <1>2, <2>1, TookFacts
  <2>3. \A i, j \in DOMAIN wire'.inbox : i <= j => i + 1 <= j + 1
    BY <2>2
  <2> QED
    BY <2>2, <2>3 DEF Rising
<1> QED
  BY <1>1, <1>2

LEMMA RisingEmpty ==
    ASSUME HeightOf[net.local]' <= HeightOf[server.tip]', net'.headers = << >>, wire'.inbox = << >>
    PROVE  Rising'
BY DEF Rising

(* The tip that is announced is above the one before. *)
LEMMA MovesRise ==
    ASSUME Inv1, Rising, NEW tip \in Blocks, NEW pool \in SUBSET Txs, ServerMoves(tip, pool)
    PROVE  Rising'
<1>1. /\ server'.tip = tip /\ UNCHANGED <<wallet, sync, spv, net>>
      /\ \A i \in DOMAIN wire'.inbox :
            \/ i \in DOMAIN wire.inbox /\ wire'.inbox[i] = wire.inbox[i]
            \/ /\ i \notin DOMAIN wire.inbox
               /\ wire'.inbox[i].kind = "header" => wire'.inbox[i].block = tip
  BY MovesKeep
<1>2. /\ server.tip \in Blocks /\ net.local \in Blocks /\ net.headers \in Seq(Blocks)
      /\ wire.inbox \in Seq(Answers) /\ wire'.inbox \in Seq(Answers)
  BY MovesKeep DEF Inv1, Typed, Servers, Nets, Wires
<1>3. HeightOf[server.tip] <= HeightOf[tip] /\ HeightOf[server.tip] \in Nat /\ HeightOf[tip] \in Nat
  <2>1. tip = server.tip \/ HeightOf[tip] > HeightOf[server.tip]
    BY DEF ServerMoves
  <2> QED
    BY <1>2, <2>1, Heights
<1>4. HeightOf[net.local] \in Nat /\ \A j \in DOMAIN net.headers : HeightOf[net.headers[j]] \in Nat
  BY <1>2, Heights
<1>5. \A i \in DOMAIN wire.inbox : wire.inbox[i].kind = "header" => HeightOf[wire.inbox[i].block] \in Nat
  <2>1. \A i \in DOMAIN wire.inbox : wire.inbox[i].kind = "header" => wire.inbox[i].block \in Blocks
    BY <1>2 DEF Answers, Proofs
  <2> QED
    BY <2>1, Heights
<1>6. HeightOf[net.local] <= HeightOf[tip]
  BY <1>3, <1>4 DEF Rising
<1>7. ASSUME NEW i \in DOMAIN net.headers
      PROVE  HeightOf[net.headers[i]] <= HeightOf[tip]
  BY <1>3, <1>4 DEF Rising
<1>8. ASSUME NEW i \in DOMAIN wire.inbox, wire.inbox[i].kind = "header"
      PROVE  HeightOf[wire.inbox[i].block] <= HeightOf[tip]
  BY <1>3, <1>5, <1>8 DEF Rising
<1>9. ASSUME NEW i \in DOMAIN wire'.inbox, wire'.inbox[i].kind = "header"
      PROVE  /\ HeightOf[net.local] <= HeightOf[wire'.inbox[i].block]
             /\ HeightOf[wire'.inbox[i].block] <= HeightOf[tip]
             /\ \A j \in DOMAIN net.headers : HeightOf[net.headers[j]] <= HeightOf[wire'.inbox[i].block]
             /\ \A j \in DOMAIN wire'.inbox : i <= j /\ wire'.inbox[j].kind = "header" =>
                   HeightOf[wire'.inbox[i].block] <= HeightOf[wire'.inbox[j].block]
  <2>1. CASE i \in DOMAIN wire.inbox /\ wire'.inbox[i] = wire.inbox[i]
    <3>1. /\ HeightOf[net.local] <= HeightOf[wire.inbox[i].block]
          /\ HeightOf[wire.inbox[i].block] <= HeightOf[tip]
          /\ \A j \in DOMAIN net.headers : HeightOf[net.headers[j]] <= HeightOf[wire.inbox[i].block]
      BY <1>8, <1>9, <2>1 DEF Rising
    <3>2. ASSUME NEW j \in DOMAIN wire'.inbox, i <= j, wire'.inbox[j].kind = "header"
          PROVE  HeightOf[wire.inbox[i].block] <= HeightOf[wire'.inbox[j].block]
      <4>1. CASE j \in DOMAIN wire.inbox /\ wire'.inbox[j] = wire.inbox[j]
        BY <1>9, <2>1, <3>2, <4>1 DEF Rising
      <4>2. CASE wire'.inbox[j].block = tip
        BY <3>1, <4>2
      <4> QED
        BY <1>1, <3>2, <4>1, <4>2
    <3> QED
      BY <2>1, <3>1, <3>2
  <2>2. CASE i \notin DOMAIN wire.inbox /\ wire'.inbox[i].block = tip
    <3>1. ASSUME NEW j \in DOMAIN wire'.inbox, i <= j, wire'.inbox[j].kind = "header"
          PROVE  wire'.inbox[j].block = tip
      <4>1. j \notin DOMAIN wire.inbox
        BY <1>2, <2>2, <3>1
      <4> QED
        BY <1>1, <3>1, <4>1
    <3> QED
      BY <1>3, <1>6, <1>7, <2>2, <3>1
  <2> QED
    BY <1>1, <1>9, <2>1, <2>2
<1>10. /\ net' = net
  BY <1>1
<1>11. \A i, j \in DOMAIN net.headers : i <= j => HeightOf[net.headers[i]] <= HeightOf[net.headers[j]]
  BY DEF Rising
<1>12. \A i \in DOMAIN net.headers : HeightOf[net.local] <= HeightOf[net.headers[i]]
  BY DEF Rising
<1> QED
  BY <1>1, <1>6, <1>7, <1>9, <1>10, <1>11, <1>12 DEF Rising

LEMMA HeaderRises ==
    ASSUME Inv1, Rising, TakeHeader
    PROVE  Rising'
<1>1. /\ wire \in Wires /\ NextIs("header") /\ wire' = Took /\ net.headers \in Seq(Blocks)
      /\ net.local \in Blocks
      /\ net' = [net EXCEPT !.headers = Append(@, Head(wire.inbox).block)]
      /\ UNCHANGED server /\ net \in Nets
  BY DEF Inv1, Typed, TakeHeader, Nets
<1>2. /\ Head(wire.inbox) \in Answers /\ Head(wire.inbox).kind = "header"
      /\ 1 \in DOMAIN wire.inbox /\ Head(wire.inbox) = wire.inbox[1]
      /\ \A i \in DOMAIN Took.inbox : i \in Nat /\ i + 1 # 1 /\ i + 1 \in DOMAIN wire.inbox
                                      /\ Took.inbox[i] = wire.inbox[i + 1]
  BY <1>1, TookFacts
<1>3. PICK b \in Blocks : b = wire.inbox[1].block
  BY <1>2 DEF Answers, Proofs
<1>4. net'.local = net.local /\ net'.headers = Append(net.headers, b)
  BY <1>1, <1>2, <1>3 DEF Nets
<1>5. \A i \in DOMAIN net'.headers :
         \/ i \in DOMAIN net.headers /\ net'.headers[i] = net.headers[i]
         \/ i = Len(net.headers) + 1 /\ net'.headers[i] = b
  BY <1>1, <1>4
<1>6. /\ HeightOf[net.local] <= HeightOf[b] /\ HeightOf[b] <= HeightOf[server.tip]
      /\ \A j \in DOMAIN net.headers : HeightOf[net.headers[j]] <= HeightOf[b]
  BY <1>2, <1>3 DEF Rising
<1>7. \A i \in DOMAIN wire'.inbox :
         wire'.inbox[i].kind = "header" => HeightOf[b] <= HeightOf[wire'.inbox[i].block]
  <2>1. \A i \in DOMAIN Took.inbox : 1 <= i + 1
    BY <1>2
  <2> QED
    BY <1>1, <1>2, <1>3, <2>1 DEF Rising
<1>8. ASSUME NEW i \in DOMAIN net'.headers, NEW j \in DOMAIN net'.headers, i <= j
      PROVE  HeightOf[net'.headers[i]] <= HeightOf[net'.headers[j]]
  <2>1. HeightOf[b] <= HeightOf[b]
    BY <1>3, Heights
  <2>2. CASE net'.headers[j] = b
    BY <1>5, <1>6, <2>1, <2>2
  <2>3. CASE j \in DOMAIN net.headers /\ net'.headers[j] = net.headers[j]
    <3>1. i \in DOMAIN net.headers /\ net'.headers[i] = net.headers[i]
      BY <1>1, <1>5, <1>8, <2>3
    <3> QED
      BY <1>8, <2>3, <3>1 DEF Rising
  <2> QED
    BY <1>5, <2>2, <2>3
<1>9. ASSUME NEW i \in DOMAIN net'.headers
      PROVE  HeightOf[net.local] <= HeightOf[net'.headers[i]]
             /\ HeightOf[net'.headers[i]] <= HeightOf[server.tip]
  BY <1>5, <1>6 DEF Rising
<1>10. ASSUME NEW i \in DOMAIN wire'.inbox, wire'.inbox[i].kind = "header"
       PROVE  /\ HeightOf[net.local] <= HeightOf[wire'.inbox[i].block]
              /\ HeightOf[wire'.inbox[i].block] <= HeightOf[server.tip]
              /\ \A j \in DOMAIN net'.headers : HeightOf[net'.headers[j]] <= HeightOf[wire'.inbox[i].block]
              /\ \A j \in DOMAIN wire'.inbox : i <= j /\ wire'.inbox[j].kind = "header" =>
                    HeightOf[wire'.inbox[i].block] <= HeightOf[wire'.inbox[j].block]
  <2>1. i + 1 \in DOMAIN wire.inbox /\ wire'.inbox[i] = wire.inbox[i + 1]
    BY <1>1, <1>2
  <2>2. \A j \in DOMAIN wire'.inbox : /\ j + 1 \in DOMAIN wire.inbox
                                      /\ wire'.inbox[j] = wire.inbox[j + 1]
                                      /\ i <= j => i + 1 <= j + 1
    BY <1>1, <1>2
  <2>3. /\ HeightOf[net.local] <= HeightOf[wire'.inbox[i].block]
        /\ HeightOf[wire'.inbox[i].block] <= HeightOf[server.tip]
        /\ \A j \in DOMAIN net.headers : HeightOf[net.headers[j]] <= HeightOf[wire'.inbox[i].block]
    BY <1>10, <2>1 DEF Rising
  <2>4. \A j \in DOMAIN wire'.inbox : i <= j /\ wire'.inbox[j].kind = "header" =>
           HeightOf[wire'.inbox[i].block] <= HeightOf[wire'.inbox[j].block]
    BY <1>10, <2>1, <2>2 DEF Rising
  <2> QED
    BY <1>5, <1>7, <1>10, <2>3, <2>4
<1> QED
  BY <1>1, <1>4, <1>8, <1>9, <1>10 DEF Rising

LEMMA FollowRises ==
    ASSUME Inv1, Rising, Follow
    PROVE  Rising' /\ net'.local \in Blocks /\ HeightOf[net.local] <= HeightOf[net'.local]
<1>1. /\ net \in Nets /\ net.headers \in Seq(Blocks) /\ net.headers # << >>
      /\ net' = [local |-> Head(net.headers), headers |-> Tail(net.headers)]
      /\ UNCHANGED <<server, wire>>
  BY DEF Inv1, Typed, Follow, Nets
<1>2. IsSequence(net.headers)
  BY <1>1, SequenceOf
<1>3. /\ 1 \in DOMAIN net.headers /\ net'.local = net.headers[1] /\ net'.headers = Tail(net.headers)
      /\ \A i \in DOMAIN net'.headers : i \in Nat /\ i + 1 # 1 /\ i + 1 \in DOMAIN net.headers
                                         /\ net'.headers[i] = net.headers[i + 1]
  BY <1>1, <1>2, TailSequence
<1>4. \A i, j \in DOMAIN net'.headers : 1 <= i + 1 /\ (i <= j => i + 1 <= j + 1)
  BY <1>3
<1>5. net'.local \in Blocks
  BY <1>1, <1>3
<1> QED
  BY <1>1, <1>3, <1>4, <1>5 DEF Rising

(* When the interface ends the chains stay as they are, and the verifier has *)
(* seen the network's.                                                       *)
LEMMA EndedChains ==
    ASSUME Inv1, Inv2, Closed, VerifiedIn(wallet, wallet'), "synced" \notin Rare
    PROVE  Inv2'
<1>1. /\ net' = [net EXCEPT !.headers = << >>] /\ wire' = [asked |-> << >>, inbox |-> << >>]
      /\ server' = [server EXCEPT !.subs = {}] /\ spv' = Idle(spv.chain)
      /\ spv.chain = ChainOf[net.local]
  BY DEF Closed
<1>2. /\ net'.local = net.local /\ net'.headers = << >> /\ server'.tip = server.tip
      /\ spv'.chain = spv.chain
  BY <1>1 DEF Inv1, Typed, Nets, Servers, Idle
<1>3. Rising'
  BY <1>1, <1>2, RisingEmpty DEF Inv2, Rising
<1>4. OnChainOrUnseen(wallet)'
  BY <1>2 DEF Inv2, OnChainOrUnseen, VerifiedIn
<1> QED
  BY <1>1, <1>2, <1>3, <1>4 DEF Inv2

(* Nothing more is verified, and the chains are as they were. *)
LEMMA SameChains ==
    ASSUME Inv2, Rising', VerifiedIn(wallet, wallet'), net'.local = net.local, spv'.chain = spv.chain,
           sync'.phase = "off" => sync.phase = "off"
    PROVE  Inv2'
<1>1. OnChainOrUnseen(wallet)'
  BY DEF Inv2, OnChainOrUnseen, VerifiedIn
<1> QED
  BY <1>1 DEF Inv2

(* Another block is followed: it is above the last one if their object is the *)
(* same; else the last one is below the top of its object, and the verifier   *)
(* had seen that one.                                                         *)
LEMMA FollowChains ==
    ASSUME Inv1, Inv2, Follow, "swung" \notin Rare
    PROVE  Inv2'
<1> DEFINE old == net.local
           new == net'.local
<1>1. /\ net' = [local |-> Head(net.headers), headers |-> Tail(net.headers)]
      /\ UNCHANGED <<server, wire, wallet, sync, spv, used>> /\ net.headers # << >>
      /\ spv.chain = ChainOf[old] \/ ChainOf[new] = ChainOf[old]
  BY DEF Follow
<1>2. Rising' /\ new \in Blocks /\ HeightOf[old] <= HeightOf[new]
  BY FollowRises DEF Inv2
<1>3. old \in Blocks /\ sync.phase # "off"
  BY <1>1 DEF Inv1, Typed, Nets, Quiet
<1> HIDE DEF old, new
<1>4. CASE ChainOf[new] = ChainOf[old]
  <2>1. ChainTo[old] \subseteq ChainTo[new]
    <3>1. old \in ChainTo[new] \/ new \in ChainTo[old]
      BY <1>2, <1>3, <1>4, ObjectsAreBranches
    <3>2. new \in ChainTo[old] => new = old
      BY <1>2, <1>3, TipOfChain, Heights
    <3>3. old \in ChainTo[new] => ChainTo[old] \subseteq ChainTo[new]
      BY <1>2, ChainsNest
    <3> QED
      BY <3>1, <3>2, <3>3
  <2>2. OnChainOrUnseen(wallet)'
    BY <1>1, <1>4, <2>1 DEF Inv2, OnChainOrUnseen, old, new
  <2> QED
    BY <1>1, <1>2, <1>3, <2>2 DEF Inv2
<1>5. CASE spv.chain = ChainOf[old] /\ ChainOf[new] # ChainOf[old]
  <2>1. ChainTo[old] \subseteq ChainTo[TopOf(spv.chain)]
    BY <1>3, <1>5, TopIsAbove, ChainsNest
  <2>2. \A t \in Txs : wallet.verified[t] # None => wallet.verified[t] \in ChainTo[old]
    BY <1>5 DEF Inv2, OnChainOrUnseen, old
  <2>3. OnChainOrUnseen(wallet)'
    BY <1>1, <1>5, <2>1, <2>2 DEF OnChainOrUnseen, new
  <2> QED
    BY <1>1, <1>2, <1>3, <2>3 DEF Inv2
<1> QED
  BY <1>1, <1>4, <1>5 DEF old, new

(* The verifier looks: what it leaves is on the network's chain, or below the *)
(* last block that this and the chain before have in common.                  *)
LEMMA PollChains ==
    ASSUME Inv1, Inv2, Poll
    PROVE  Inv2'
<1> DEFINE above == LastCommon(net.local, TopOf(spv.chain))
           moved == ChainOf[net.local] # spv.chain
<1>1. /\ wallet \in Wallets /\ spv \in Verifiers /\ net.local \in Blocks /\ sync.phase # "off"
      /\ UNCHANGED <<server, sync, net>>
  BY DEF Inv1, Typed, Nets, Poll
<1>2. /\ wallet' = IF moved THEN UndoVerifications(wallet, net.local, above) ELSE wallet
      /\ wire'.inbox = wire.inbox /\ spv'.chain = ChainOf[net.local]
  BY DEF Inv1, Typed, Wires, Verifiers, Poll
<1>3. VerifiedIn(wallet, wallet')
  BY PollKeeps
<1>4. Rising'
  BY <1>1, <1>2, RisingLater DEF Inv2
<1>5. ASSUME NEW t \in Txs, wallet'.verified[t] # None
      PROVE  wallet'.verified[t] \in ChainTo[net.local]
  <2>1. wallet'.verified[t] = wallet.verified[t]
    BY <1>3, <1>5 DEF VerifiedIn
  <2>2. CASE ~ moved
    BY <1>5, <2>1, <2>2 DEF Inv2, OnChainOrUnseen
  <2>3. CASE moved
    <3>1. t \notin Undone(wallet, net.local, above)
      BY <1>1, <1>2, <1>5, <2>3, UndoKeeps
    <3>2. \/ ~ (HeightOf[wallet.verified[t]] > above)
          \/ wallet.verified[t] \in ChainTo[net.local]
      BY <1>5, <2>1, <3>1 DEF Undone
    <3>3. \/ wallet.verified[t] \in ChainTo[net.local]
          \/ wallet.verified[t] \in ChainTo[TopOf(spv.chain)]
      BY <1>5, <2>1 DEF Inv2, OnChainOrUnseen
    <3>4. CASE /\ wallet.verified[t] \in ChainTo[TopOf(spv.chain)]
               /\ ~ (HeightOf[wallet.verified[t]] > above)
      <4>1. PICK b \in Blocks : spv.chain = ChainOf[b]
        BY <1>1 DEF Verifiers
      <4>2. TopOf(spv.chain) \in Blocks
        BY <4>1, TopIsAbove
      <4>3. wallet.verified[t] \in Blocks
        BY <1>1, <1>5, <2>1 DEF Wallets
      <4>4. HeightOf[wallet.verified[t]] <= above
        <5>1. HeightOf[wallet.verified[t]] \in Nat
          BY <4>3, Heights
        <5>2. above \in Nat
          BY <1>1, <4>2, LastCommonIs
        <5> HIDE DEF above
        <5> QED
          BY <3>4, <5>1, <5>2
      <4> QED
        BY <1>1, <2>1, <3>4, <4>2, <4>4, BelowLastCommon
    <3> QED
      BY <2>1, <3>2, <3>3, <3>4
  <2> QED
    BY <2>2, <2>3
<1>6. OnChainOrUnseen(wallet)'
  BY <1>1, <1>5 DEF OnChainOrUnseen
<1> QED
  BY <1>1, <1>4, <1>6 DEF Inv2

LEMMA ConnectChains ==
    ASSUME Inv1, Inv2, Connect, "synced" \notin Rare
    PROVE  Inv2'
<1>1. /\ net' = [net EXCEPT !.headers = IF server.tip = net.local THEN << >> ELSE <<server.tip>>]
      /\ spv' = Idle(ChainOf[net'.local]) /\ UNCHANGED <<server, wallet>> /\ sync.phase = "off"
  BY DEF Connect
<1>2. wire'.inbox = << >> /\ sync'.phase # "off"
  BY ConnectKeeps
<1>3. net \in Nets /\ server.tip \in Blocks /\ net.local \in Blocks /\ VerifiedIn(wallet, wallet')
  BY <1>1 DEF Inv1, Typed, Nets, Servers, VerifiedIn
<1>4. /\ net'.local = net.local
      /\ net'.headers = << >> \/ net'.headers = <<server.tip>>
  BY <1>1, <1>3 DEF Nets
<1>5. spv'.chain = ChainOf[net.local] /\ spv.chain = ChainOf[net.local]
  BY <1>1, <1>4 DEF Idle, Inv2
<1>6. Rising'
  <2>1. HeightOf[net.local] <= HeightOf[server.tip]
    BY DEF Inv2, Rising
  <2>2. HeightOf[server.tip] <= HeightOf[server.tip]
    BY <1>3, Heights
  <2>3. \A i \in DOMAIN net'.headers : net'.headers[i] = server.tip
    BY <1>4
  <2> QED
    BY <1>1, <1>2, <1>4, <2>1, <2>2, <2>3 DEF Rising
<1> QED
  BY <1>2, <1>3, <1>4, <1>5, <1>6, SameChains

LEMMA BeginsOnChain ==
    ASSUME Init
    PROVE  Inv2
<1>1. /\ server.tip = Genesis /\ wire.inbox = << >> /\ wallet.verified = [t \in Txs |-> None]
      /\ spv.chain = ChainOf[Genesis] /\ net.local = Genesis /\ net.headers = << >>
  BY DEF Init, Empty, Idle
<1>2. HeightOf[Genesis] <= HeightOf[Genesis]
  BY BlocksLinked, Heights
<1> QED
  BY <1>1, <1>2 DEF Inv2, Rising, OnChainOrUnseen

LEMMA StepsKeepChains ==
    ASSUME Inv1, Inv2, [Next]_vars, Rare \cap {"synced", "swung"} = {}
    PROVE  Inv2'
<1>1. CASE \E tip \in Blocks, pool \in SUBSET Txs : ServerMoves(tip, pool)
  <2>1. PICK tip \in Blocks, pool \in SUBSET Txs : ServerMoves(tip, pool)
    BY <1>1
  <2>2. UNCHANGED <<wallet, sync, spv, net>>
    BY <2>1 DEF ServerMoves
  <2>3. Rising'
    BY <2>1, MovesRise DEF Inv2
  <2> QED
    BY <2>2, <2>3, SameChains DEF VerifiedIn
<1>2. CASE ServerAnswers
  <2>1. /\ server'.tip = server.tip /\ UNCHANGED <<wallet, sync, spv, net>>
        /\ \A i \in DOMAIN wire'.inbox : wire'.inbox[i].kind = "header" =>
              i \in DOMAIN wire.inbox /\ wire'.inbox[i] = wire.inbox[i]
    BY <1>2, AnswersKeep
  <2>2. Rising'
    BY <2>1, RisingLater DEF Inv2
  <2> QED
    BY <2>1, <2>2, SameChains DEF VerifiedIn
<1>3. CASE Connect
  BY <1>3, ConnectChains
<1>4. CASE Disconnect \/ StaleTimeout
  <2>1. Closed /\ VerifiedIn(wallet, wallet')
    BY <1>4, DisconnectKeeps DEF VerifiedIn
  <2> QED
    BY <2>1, EndedChains
<1>5. CASE Restart
  BY <1>5, RestartKeeps, EndedChains
<1>6. CASE TakeHeader
  <2>1. UNCHANGED <<wallet, sync, spv>> /\ net'.local = net.local
    BY <1>6 DEF TakeHeader, Inv1, Typed, Nets
  <2>2. Rising'
    BY <1>6, HeaderRises DEF Inv2
  <2> QED
    BY <2>1, <2>2, SameChains DEF VerifiedIn
<1>7. CASE TakeStatus \/ TakeHistory \/ TakeProof
  <2>1. /\ VerifiedIn(wallet, wallet') /\ spv'.chain = spv.chain /\ sync'.phase = sync.phase
        /\ wire'.inbox = Took.inbox
    BY <1>7, TakeStatusKeeps, TakeHistoryKeeps, TakeProofKeeps DEF TakeProof
  <2>2. UNCHANGED <<server, net>> /\ wire \in Wires /\ wire.inbox # << >>
    BY <1>7 DEF TakeStatus, TakeHistory, TakeProof, NextIs, Inv1, Typed
  <2>3. Rising'
    BY <2>1, <2>2, RisingLater DEF Inv2
  <2> QED
    BY <2>1, <2>2, <2>3, SameChains
<1>8. CASE TakeTx
  <2>1. VerifiedIn(wallet, wallet')
    BY <1>8, TakeTxKeeps
  <2>2. CASE Closed
    BY <2>1, <2>2, EndedChains
  <2>3. CASE ~ Closed
    <3>1. /\ UNCHANGED <<server, spv, net>> /\ wire'.inbox = Took.inbox
          /\ sync.phase # "off" => sync'.phase # "off"
      BY <1>8, <2>3, TakeTxKeeps
    <3>2. wire \in Wires /\ wire.inbox # << >>
      BY <1>8 DEF TakeTx, NextIs, Inv1, Typed
    <3>3. Rising'
      BY <3>1, <3>2, RisingLater DEF Inv2
    <3> QED
      BY <2>1, <3>1, <3>3, SameChains
  <2> QED
    BY <2>2, <2>3
<1>9. CASE Follow
  BY <1>9, FollowChains
<1>10. CASE Poll
  BY <1>10, PollChains
<1>11. CASE Verify
  <2>1. CASE Closed /\ UNCHANGED wallet
    BY <2>1, EndedChains DEF VerifiedIn
  <2>2. CASE ~ (Closed /\ UNCHANGED wallet)
    <3>1. /\ UNCHANGED <<server, wire, sync, net>> /\ spv'.chain = spv.chain
          /\ \A t \in Txs : \/ wallet'.verified[t] = wallet.verified[t]
                            \/ wallet'.verified[t] \in ChainTo[net.local]
      BY <1>11, <2>2, VerifyKeeps
    <3>2. OnChainOrUnseen(wallet)'
      BY <3>1 DEF Inv2, OnChainOrUnseen
    <3>3. Rising'
      BY <3>1 DEF Inv2, Rising
    <3> QED
      BY <3>1, <3>2, <3>3 DEF Inv2
  <2> QED
    BY <2>1, <2>2
<1>12. CASE UNCHANGED vars
  BY <1>12 DEF vars, Inv2, Rising, OnChainOrUnseen
<1> QED
  BY <1>1, <1>2, <1>3, <1>4, <1>5, <1>6, <1>7, <1>8, <1>9, <1>10, <1>11, <1>12 DEF Next

(* What the wallet holds verified is in a block of the chain that the        *)
(* network follows, whenever that is the chain that the verifier last looked *)
(* at: through every reorg that it sees, with proofs that were asked for on  *)
(* the other chain and come late, lost connections and restarts.             *)
THEOREM VerifiedStaysOnChain ==
    ASSUME Rare \cap {"synced", "swung"} = {}
    PROVE  Spec => []VerifiedIsOnChain
<1>1. Init => Inv1 /\ Inv2
  BY Begins, BeginsOnChain
<1>2. Inv1 /\ Inv2 /\ [Next]_vars => Inv1' /\ Inv2'
  BY StepsKeep, StepsKeepChains
<1>3. Inv1 /\ Inv2 => VerifiedIsOnChain
  BY DEF Inv2, OnChainOrUnseen, VerifiedIsOnChain
<1> QED
  BY <1>1, <1>2, <1>3, PTL DEF Spec

=============================================================================

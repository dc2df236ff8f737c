------------------------- MODULE HeaderChainsProofs -------------------------
(***************************************************************************)
(* What HeaderChains keeps, for any tree of blocks.                        *)
(***************************************************************************)
EXTENDS HeaderChains, Recursion

-----------------------------------------------------------------------------
(*                            The tree of blocks                           *)

LEMMA BlocksAreTree == IsTree(Blocks, Genesis, PrevBlock)
BY BlocksLinked DEF IsTree

(* The height of a block is one more than that of the block before. *)
LEMMA Heights ==
    /\ HeightOf \in [Blocks -> Nat] /\ HeightOf[Genesis] = 0
    /\ \A b \in Blocks \ {Genesis} : HeightOf[b] = HeightOf[PrevBlock[b]] + 1
<1> DEFINE h == CHOOSE g : HeightEquation(Blocks, Genesis, PrevBlock, g)
<1>1. HeightOf = [b \in Blocks |-> h[b]]
  BY DEF HeightOf, HeightEquation
<1> HIDE DEF h
<1>2. /\ h \in [Blocks -> Nat] /\ h[Genesis] = 0
      /\ \A b \in Blocks \ {Genesis} : h[b] = h[PrevBlock[b]] + 1
  BY BlocksAreTree, TreeHeights DEF h
<1>3. Genesis \in Blocks /\ \A b \in Blocks \ {Genesis} : PrevBlock[b] \in Blocks
  BY BlocksLinked
<1> QED
  BY <1>1, <1>2, <1>3

(* A chain is the chain of the block before, and the block. *)
AtEquation(at) ==
    at = [b \in Blocks |-> [h \in 0 .. HeightOf[b] |-> IF h = HeightOf[b] THEN b ELSE at[PrevBlock[b]][h]]]

LEMMA ChainsAreGrown ==
    /\ \A b \in Blocks : BlockAt[b] \in [0 .. HeightOf[b] -> Blocks] /\ BlockAt[b][HeightOf[b]] = b
    /\ \A b \in Blocks \ {Genesis} : \A h \in 0 .. HeightOf[PrevBlock[b]] :
          BlockAt[b][h] = BlockAt[PrevBlock[b]][h]
<1>0. /\ Genesis \in Blocks /\ \A b \in Blocks \ {Genesis} : PrevBlock[b] \in Blocks
      /\ \A b \in Blocks : HeightOf[b] \in Nat
      /\ \A b \in Blocks \ {Genesis} : HeightOf[b] = HeightOf[PrevBlock[b]] + 1
  BY BlocksLinked, Heights
<1> DEFINE F(b, v) == [h \in 0 .. HeightOf[b] |->
                            IF h = HeightOf[b] THEN b ELSE IF h \in DOMAIN v THEN v[h] ELSE Genesis]
           V == UNION {[0 .. n -> Blocks] : n \in Nat}
           D == [b \in Blocks |-> [v \in V |-> F(b, v)]]
<1>1. ASSUME NEW b \in Blocks, NEW v \in V
      PROVE  F(b, v) \in [0 .. HeightOf[b] -> Blocks] /\ F(b, v) \in V
  <2>1. PICK n \in Nat : v \in [0 .. n -> Blocks]
    OBVIOUS
  <2>2. F(b, v) \in [0 .. HeightOf[b] -> Blocks]
    BY <1>0, <2>1
  <2> QED
    BY <1>0, <2>2
<1>2. \A b \in Blocks : \A v \in V : D[b][v] = F(b, v)
  OBVIOUS
<1> DEFINE first == [h \in 0 .. 0 |-> Genesis]
<1>3. first \in V /\ first = F(Genesis, first)
  <2>1. first \in [0 .. 0 -> Blocks]
    BY <1>0
  <2>2. HeightOf[Genesis] = 0
    BY Heights
  <2> QED
    BY <2>1, <2>2
<1>a. PICK base \in V : base = first
  BY <1>3
<1>4. \A b \in Blocks : \A v \in V : D[b][v] \in V
  BY <1>1, <1>2
<1> HIDE DEF D, V, first, F
<1>5. PICK g : IsGrownUpTo(Blocks, Genesis, PrevBlock, g, Blocks, V, base, D)
  BY <1>4, BlocksAreTree, TreeFunction
<1>6. /\ g \in [Blocks -> V] /\ g[Genesis] = first
      /\ \A b \in Blocks \ {Genesis} : g[b] = F(b, g[PrevBlock[b]])
  BY <1>0, <1>2, <1>5, <1>a DEF IsGrownUpTo
<1>7. \A b \in Blocks : g[b] \in [0 .. HeightOf[b] -> Blocks]
  BY <1>0, <1>1, <1>3, <1>6
<1>8. AtEquation(g)
  <2>1. g = [b \in Blocks |-> g[b]]
    BY <1>6
  <2>2. ASSUME NEW b \in Blocks
        PROVE  g[b] = [h \in 0 .. HeightOf[b] |-> IF h = HeightOf[b] THEN b ELSE g[PrevBlock[b]][h]]
    <3>1. CASE b = Genesis
      BY <1>0, <1>6, <3>1, Heights DEF first
    <3>2. CASE b # Genesis
      <4>1. g[PrevBlock[b]] \in [0 .. HeightOf[PrevBlock[b]] -> Blocks] /\ HeightOf[b] = HeightOf[PrevBlock[b]] + 1
            /\ HeightOf[PrevBlock[b]] \in Nat
        BY <1>0, <1>7, <3>2
      <4>2. g[b] = F(b, g[PrevBlock[b]])
        BY <1>6, <3>2
      <4> QED
        BY <4>1, <4>2 DEF F
    <3> QED
      BY <3>1, <3>2
  <2> QED
    BY <2>1, <2>2 DEF AtEquation
<1> DEFINE at == CHOOSE k : AtEquation(k)
<1>9. BlockAt = [b \in Blocks |-> at[b]]
  BY DEF BlockAt, AtEquation
<1>10. AtEquation(at)
  BY <1>8
<1> HIDE DEF at
<1>11. \A b \in Blocks : at[b] = [h \in 0 .. HeightOf[b] |-> IF h = HeightOf[b] THEN b ELSE at[PrevBlock[b]][h]]
  BY <1>10 DEF AtEquation
<1>12. ASSUME NEW b \in Blocks
       PROVE  BlockAt[b] = [h \in 0 .. HeightOf[b] |-> IF h = HeightOf[b] THEN b ELSE at[PrevBlock[b]][h]]
  BY <1>9, <1>11
<1>16. ASSUME NEW b \in Blocks
       PROVE  BlockAt[b][HeightOf[b]] = b
  <2>1. BlockAt[b] = [h \in 0 .. HeightOf[b] |-> IF h = HeightOf[b] THEN b ELSE at[PrevBlock[b]][h]]
    BY <1>12
  <2>2. HeightOf[b] \in 0 .. HeightOf[b]
    BY <1>0
  <2> QED
    BY <2>1, <2>2
<1>17. ASSUME NEW b \in Blocks, NEW h \in 0 .. HeightOf[b], h # HeightOf[b]
       PROVE  BlockAt[b][h] = at[PrevBlock[b]][h]
  <2>1. BlockAt[b] = [k \in 0 .. HeightOf[b] |-> IF k = HeightOf[b] THEN b ELSE at[PrevBlock[b]][k]]
    BY <1>12
  <2> QED
    BY <1>17, <2>1
<1>18. ASSUME NEW b \in Blocks, \A h \in 0 .. HeightOf[b] : BlockAt[b][h] \in Blocks
       PROVE  BlockAt[b] \in [0 .. HeightOf[b] -> Blocks]
  BY <1>12, <1>18
<1> DEFINE A == {b \in Blocks : BlockAt[b] \in [0 .. HeightOf[b] -> Blocks]}
<1>13. Blocks \subseteq A
  <2>1. Genesis \in A
    <3>1. \A h \in 0 .. HeightOf[Genesis] : h = HeightOf[Genesis]
      BY Heights
    <3>2. \A h \in 0 .. HeightOf[Genesis] : BlockAt[Genesis][h] \in Blocks
      BY <1>0, <1>16, <3>1
    <3> QED
      BY <1>0, <1>18, <3>2
  <2>2. ASSUME NEW b \in Blocks \ {Genesis}, PrevBlock[b] \in A
        PROVE  b \in A
    <3>1. HeightOf[b] = HeightOf[PrevBlock[b]] + 1 /\ HeightOf[PrevBlock[b]] \in Nat
      BY <1>0
    <3>2. at[PrevBlock[b]] \in [0 .. HeightOf[PrevBlock[b]] -> Blocks]
      BY <1>0, <1>9, <2>2
    <3>3. ASSUME NEW h \in 0 .. HeightOf[b]
          PROVE  BlockAt[b][h] \in Blocks
      <4>1. h = HeightOf[b] \/ (h # HeightOf[b] /\ h \in 0 .. HeightOf[PrevBlock[b]])
        BY <3>1
      <4> QED
        BY <1>16, <1>17, <3>2, <4>1
    <3> QED
      BY <1>18, <3>3
  <2> HIDE DEF A
  <2> QED
    BY <2>1, <2>2, BlocksAreTree, TreeInduction
<1>14. ASSUME NEW b \in Blocks \ {Genesis}, NEW h \in 0 .. HeightOf[PrevBlock[b]]
       PROVE  BlockAt[b][h] = BlockAt[PrevBlock[b]][h]
  <2>1. h \in 0 .. HeightOf[b] /\ h # HeightOf[b]
    BY <1>0
  <2> QED
    BY <1>0, <1>9, <1>17, <2>1
<1> QED
  BY <1>13, <1>14, <1>16

(* Where a block of a chain is, which block is before it, and its own chain. *)
LEMMA InChain ==
    ASSUME NEW b \in Blocks, NEW h \in 0 .. HeightOf[b]
    PROVE  /\ BlockAt[b][h] \in Blocks /\ HeightOf[BlockAt[b][h]] = h
           /\ \A k \in 0 .. h : BlockAt[BlockAt[b][h]][k] = BlockAt[b][k]
<1> DEFINE At(x, n) == /\ BlockAt[x][n] \in Blocks /\ HeightOf[BlockAt[x][n]] = n
                       /\ \A k \in 0 .. n : BlockAt[BlockAt[x][n]][k] = BlockAt[x][k]
           A == {x \in Blocks : \A n \in 0 .. HeightOf[x] : At(x, n)}
<1>0. /\ Genesis \in Blocks /\ \A x \in Blocks \ {Genesis} : PrevBlock[x] \in Blocks
      /\ \A x \in Blocks : HeightOf[x] \in Nat
  BY BlocksLinked, Heights
<1>1. ASSUME NEW x \in Blocks PROVE At(x, HeightOf[x])
  BY ChainsAreGrown
<1>2. Genesis \in A
  BY <1>0, <1>1, Heights
<1>3. ASSUME NEW x \in Blocks \ {Genesis}, PrevBlock[x] \in A
      PROVE  x \in A
  <2>1. ASSUME NEW n \in 0 .. HeightOf[x]
        PROVE  At(x, n)
    <3>1. CASE n = HeightOf[x]
      BY <1>1, <3>1
    <3>2. CASE n # HeightOf[x]
      <4>1. n \in 0 .. HeightOf[PrevBlock[x]]
        BY <1>0, <3>2, Heights
      <4>2. At(PrevBlock[x], n)
        BY <1>3, <4>1
      <4>3. \A k \in 0 .. n : BlockAt[x][k] = BlockAt[PrevBlock[x]][k]
        BY <1>0, <4>1, ChainsAreGrown
      <4>4. n \in 0 .. n
        BY <4>1
      <4> QED
        BY <4>2, <4>3, <4>4
    <3> QED
      BY <3>1, <3>2
  <2> HIDE DEF At
  <2> QED
    BY <2>1
<1> HIDE DEF A
<1>4. b \in A
  BY <1>2, <1>3, BlocksAreTree, TreeInduction
<1> QED
  BY <1>4 DEF A

LEMMA BeforeInChain ==
    ASSUME NEW b \in Blocks, NEW h \in 1 .. HeightOf[b]
    PROVE  BlockAt[b][h] # Genesis /\ PrevBlock[BlockAt[b][h]] = BlockAt[b][h - 1]
<1> DEFINE x == BlockAt[b][h]
<1>1. /\ x \in Blocks /\ HeightOf[x] = h /\ h - 1 \in 0 .. h /\ h \in Nat
      /\ \A k \in 0 .. h : BlockAt[x][k] = BlockAt[b][k]
  BY InChain, Heights
<1> HIDE DEF x
<1>2. x # Genesis
  BY <1>1, Heights
<1>3. PrevBlock[x] \in Blocks /\ HeightOf[PrevBlock[x]] = h - 1 /\ h - 1 \in Nat
  BY <1>1, <1>2, Heights, BlocksLinked
<1>4. BlockAt[x][h - 1] = BlockAt[PrevBlock[x]][h - 1] /\ BlockAt[PrevBlock[x]][h - 1] = PrevBlock[x]
  BY <1>1, <1>2, <1>3, ChainsAreGrown
<1> QED
  BY <1>1, <1>2, <1>4 DEF x

LEMMA GenesisIsLowest ==
    \A b \in Blocks : BlockAt[b][0] = Genesis /\ (HeightOf[b] = 0 => b = Genesis)
<1>1. \A b \in Blocks : HeightOf[b] = 0 => b = Genesis
  <2>1. \A b \in Blocks \ {Genesis} : HeightOf[b] = HeightOf[PrevBlock[b]] + 1 /\ HeightOf[PrevBlock[b]] \in Nat
    BY Heights, BlocksLinked
  <2> QED
    BY <2>1
<1>2. \A b \in Blocks : 0 \in 0 .. HeightOf[b]
  BY Heights
<1> QED
  BY <1>1, <1>2, InChain

(* Chains that share a block are the same up to it. *)
LEMMA SameBelow ==
    ASSUME NEW x \in Blocks, NEW y \in Blocks, NEW h \in 0 .. HeightOf[x], h <= HeightOf[y],
           BlockAt[x][h] = BlockAt[y][h], NEW k \in 0 .. h
    PROVE  BlockAt[x][k] = BlockAt[y][k]
<1>1. h \in 0 .. HeightOf[y]
  BY Heights
<1> QED
  BY <1>1, InChain

-----------------------------------------------------------------------------
(*                          The inductive invariant                        *)

(* The assumption on servers: chains that differ at a height are not both    *)
(* FarFromTip + 2 headers longer.                                            *)
ShortBranches ==
    \A x, y \in Blocks : \A h \in Nat :
        h + FarFromTip + 2 <= HeightOf[x] /\ h + FarFromTip + 2 <= HeightOf[y] =>
            BlockAt[x][h] = BlockAt[y][h]

Objs(st) == 1 .. Len(st.chain)

Chains == [parent : Nat, forkpoint : Nat, first : Blocks, prev : Blocks \cup {None}]
States == [chain : Seq(Chains), order : Seq(Nat),
           file : [Blocks \cup {Main} -> Seq(Blocks) \cup {None}]]

(* The headers from a height on of the chain that ends in a block *)
Branch(k, t) == [i \in 1 .. HeightOf[t] - k + 1 |-> BlockAt[t][k + i - 1]]

(* The last header of an object; an empty root has the genesis. *)
Top(st, o) == IF File(st, o) = << >> THEN Genesis ELSE File(st, o)[Len(File(st, o))]

IsRoot(st, o) ==
    LET me == st.chain[o] IN
    /\ Top(st, o) \in Blocks
    /\ me.parent = 0 /\ me.forkpoint = 0 /\ me.first = Genesis
    /\ File(st, o) = Branch(0, Top(st, o)) \/ (File(st, o) = << >> /\ Len(st.chain) = 1)

IsBranch(st, o) ==
    LET me == st.chain[o] IN
    /\ Top(st, o) \in Blocks
    /\ me.parent \in Objs(st)
    /\ me.forkpoint \in 1 .. HeightOf[Top(st, o)]
    /\ File(st, o) = Branch(me.forkpoint, Top(st, o))
    /\ me.first = BlockAt[Top(st, o)][me.forkpoint]
    /\ me.prev = BlockAt[Top(st, o)][me.forkpoint - 1]
    /\ me.forkpoint <= HeightOf[Top(st, me.parent)]
    /\ me.prev = BlockAt[Top(st, me.parent)][me.forkpoint - 1]

Ranked(st, r) == \A o \in Objs(st) : st.chain[o].parent # 0 => r[st.chain[o].parent] < r[o]

Apart(st) == \A o, c \in Objs(st) : o # c => Range(File(st, o)) \cap Range(File(st, c)) = {}

Shape(st) == st \in States /\ Len(st.chain) >= 1

Sound(st) ==
    /\ Shape(st)
    /\ \A o \in Objs(st) : IsRoot(st, o) \/ IsBranch(st, o)
    /\ \A o, c \in Objs(st) : st.chain[o].parent = 0 /\ st.chain[c].parent = 0 => o = c
    /\ \E r \in [Objs(st) -> Nat] : Ranked(st, r)
    /\ Apart(st)

(* No file but those of the objects, and all are in the dict. *)
Kept(st) ==
    /\ \A n \in Blocks : st.file[n] # None => \E o \in Objs(st) : Path(st, o) = n
    /\ Range(st.order) = Objs(st)
    /\ \A i, j \in DOMAIN st.order : st.order[i] = st.order[j] => i = j

Interfaces == [up : BOOLEAN, chain : Nat, tip : Blocks \cup {None}, queue : Seq(Blocks), waiting : BOOLEAN]

ServerInv(s) ==
    LET me == iface[s] IN
    /\ HeightOf[tip[s]] >= 1
    /\ \A i \in DOMAIN me.queue : HeightOf[me.queue[i]] \in 1 .. HeightOf[tip[s]]
    /\ me.queue # << >> => me.up /\ me.queue[Len(me.queue)] = tip[s]
    /\ me.chain \in 0 .. Len(bc.chain)
    /\ me.tip # None => /\ me.up /\ me.chain # 0
                        /\ me.tip \in Blocks /\ HeightOf[me.tip] \in 1 .. HeightOf[tip[s]]
                        /\ me.queue = << >> => me.tip = tip[s]
    /\ me.waiting => me.tip # None
    /\ ~ me.up => me = Off

(* FollowsItsServer, of one server *)
Follows(s) ==
    iface[s].tip # None /\ ~ iface[s].waiting /\ iface[s].queue = << >> =>
        HasHeader(bc, iface[s].chain, iface[s].tip)

(* What the server has said: of its tip, if nothing else was announced, or    *)
(* far below it.                                                             *)
Said(s, b) ==
    /\ b \in Blocks
    /\ iface[s].queue = << >> => b = BlockAt[iface[s].tip][HeightOf[b]]
    /\ HeightOf[b] + FarFromTip + 2 <= Announced(s) => b = BlockAt[iface[s].tip][HeightOf[b]]

SaidAll(s, cache) ==
    /\ DOMAIN cache \subseteq 0 .. Announced(s)
    /\ \A h \in DOMAIN cache : Said(s, cache[h]) /\ HeightOf[cache[h]] = h

(* The last height of the chunk that a height is in *)
ChunkEnd(s, h) ==
    LET end == (h \div ChunkSize) * ChunkSize + ChunkSize - 1
    IN  IF end < Announced(s) THEN end ELSE Announced(s)

(* No chunk that is written from a height on ends below the end of an object. *)
Low(s, st, o, h) ==
    /\ h + FarFromTip + 1 <= Announced(s) => Tall(st, o) <= ChunkEnd(s, h)
    /\ h + FarFromTip + 2 <= Announced(s) =>
         \A c \in Objs(st) : HasHeader(st, c, BlockAt[iface[s].tip][h]) => Tall(st, c) <= ChunkEnd(s, h)

SyncInv(s) ==
    /\ lock.at \in {"step", "single"}
    /\ lock.height \in 1 .. Announced(s)
    /\ Low(s, bc, iface[s].chain, lock.height)

BackwardInv(s) ==
    /\ lock.at = "backward"
    /\ lock.height \in Int /\ lock.height < HeightOf[lock.bad]
    /\ lock.delta \in Nat \ {0}
    /\ Said(s, lock.bad) /\ HeightOf[lock.bad] \in 1 .. Announced(s)

BinaryInv(s) ==
    /\ lock.at = "binary"
    /\ lock.good \in Nat /\ lock.good < HeightOf[lock.bad]
    /\ Said(s, lock.bad) /\ HeightOf[lock.bad] \in 1 .. Announced(s)
    /\ bc.file[Main] # << >>

LockInv ==
    lock # None =>
        /\ lock.srv \in Servers /\ iface[lock.srv].waiting
        /\ DOMAIN lock = {"srv", "at", "height", "good", "bad", "delta", "last", "cache"}
        /\ SaidAll(lock.srv, lock.cache)
        /\ SyncInv(lock.srv) \/ BackwardInv(lock.srv) \/ BinaryInv(lock.srv)

Served ==
    /\ tip \in [Servers -> Blocks] /\ iface \in [Servers -> Interfaces]
    /\ \A s \in Servers : ServerInv(s) /\ Follows(s)

IInv == Sound(bc) /\ Kept(bc) /\ Served /\ LockInv

-----------------------------------------------------------------------------
(*                          Reading what is sound                          *)

LEMMA BranchIs ==
    ASSUME NEW t \in Blocks, NEW k \in 0 .. HeightOf[t]
    PROVE  /\ Branch(k, t) \in Seq(Blocks) /\ Len(Branch(k, t)) = HeightOf[t] - k + 1
           /\ Branch(k, t) # << >> /\ Branch(k, t)[Len(Branch(k, t))] = t /\ Branch(k, t)[1] = BlockAt[t][k]
           /\ \A i \in 1 .. HeightOf[t] - k + 1 : Branch(k, t)[i] = BlockAt[t][k + i - 1]
           /\ \A b \in Blocks : b \in Range(Branch(k, t)) <=>
                    HeightOf[b] \in k .. HeightOf[t] /\ BlockAt[t][HeightOf[b]] = b
<1> DEFINE n == HeightOf[t] - k + 1
           f == Branch(k, t)
<1>1. HeightOf[t] \in Nat /\ k \in Nat /\ n \in Nat \ {0}
  BY Heights
<1>2. \A i \in 1 .. n : k + i - 1 \in 0 .. HeightOf[t]
  BY <1>1
<1>3. f = [i \in 1 .. n |-> BlockAt[t][k + i - 1]]
  BY DEF Branch
<1>4. \A i \in 1 .. n : f[i] = BlockAt[t][k + i - 1] /\ f[i] \in Blocks /\ HeightOf[f[i]] = k + i - 1
  BY <1>2, <1>3, InChain
<1>5. f \in [1 .. n -> Blocks]
  BY <1>3, <1>4
<1> HIDE DEF f
<1>6. f \in Seq(Blocks) /\ Len(f) = n /\ DOMAIN f = 1 .. n
  BY <1>1, <1>5
<1>7. f # << >>
  BY <1>1, <1>6
<1>8. f[n] = t
  <2>1. n \in 1 .. n /\ k + n - 1 = HeightOf[t]
    BY <1>1
  <2> QED
    BY <1>4, <2>1, ChainsAreGrown
<1>9. f[1] = BlockAt[t][k]
  <2>1. 1 \in 1 .. n /\ k + 1 - 1 = k
    BY <1>1
  <2> QED
    BY <1>4, <2>1
<1>10. ASSUME NEW b \in Blocks, b \in Range(f)
       PROVE  HeightOf[b] \in k .. HeightOf[t] /\ BlockAt[t][HeightOf[b]] = b
  <2>1. PICK i \in 1 .. n : b = f[i]
    BY <1>6, <1>10 DEF Range
  <2>2. HeightOf[b] = k + i - 1 /\ k + i - 1 \in k .. HeightOf[t]
    BY <1>1, <1>4, <2>1
  <2> QED
    BY <1>4, <2>1, <2>2
<1>11. ASSUME NEW b \in Blocks, HeightOf[b] \in k .. HeightOf[t], BlockAt[t][HeightOf[b]] = b
       PROVE  b \in Range(f)
  <2> DEFINE i == HeightOf[b] - k + 1
  <2>1. i \in 1 .. n /\ k + i - 1 = HeightOf[b]
    BY <1>1, <1>11
  <2>2. f[i] = b
    BY <1>4, <1>11, <2>1
  <2> HIDE DEF i
  <2> QED
    BY <1>6, <2>1, <2>2 DEF Range
<1> QED
  BY <1>4, <1>6, <1>7, <1>8, <1>9, <1>10, <1>11 DEF f

(* An object: where it starts, and where its headers end *)
LEMMA ObjectIs ==
    ASSUME NEW st, Sound(st), NEW o \in Objs(st)
    PROVE  /\ Top(st, o) \in Blocks /\ File(st, o) \in Seq(Blocks)
           /\ st.chain[o].forkpoint \in 0 .. HeightOf[Top(st, o)]
           /\ \/ /\ File(st, o) = Branch(st.chain[o].forkpoint, Top(st, o))
                 /\ File(st, o) # << >> /\ Tall(st, o) = HeightOf[Top(st, o)]
              \/ /\ File(st, o) = << >> /\ Top(st, o) = Genesis /\ Tall(st, o) = -1
                 /\ st.chain[o].parent = 0 /\ Len(st.chain) = 1
           /\ \/ st.chain[o].parent = 0 /\ IsRoot(st, o) /\ st.chain[o].forkpoint = 0
              \/ st.chain[o].parent \in Objs(st) /\ IsBranch(st, o) /\ st.chain[o].forkpoint # 0
           /\ Path(st, o) \in Blocks \cup {Main}
<1> DEFINE f == File(st, o)
           t == Top(st, o)
           k == st.chain[o].forkpoint
<1>0. IsRoot(st, o) \/ IsBranch(st, o)
  BY DEF Sound
<1>1. CASE IsRoot(st, o)
  <2>1. t \in Blocks /\ k = 0 /\ k \in 0 .. HeightOf[t] /\ st.chain[o].parent = 0
    BY <1>1, Heights DEF IsRoot
  <2>2. Path(st, o) = Main
    BY <2>1 DEF Path
  <2>3. CASE f = << >>
    <3>1. Len(st.chain) = 1
      BY <1>1, <2>1, <2>3, BranchIs DEF IsRoot
    <3>2. t = Genesis
      BY <2>3 DEF Top
    <3>3. Tall(st, o) = -1 /\ f \in Seq(Blocks)
      BY <2>1, <2>3 DEF Tall
    <3> QED
      BY <1>1, <2>1, <2>2, <2>3, <3>1, <3>2, <3>3
  <2>4. CASE f # << >>
    <3>1. f = Branch(k, t)
      BY <1>1, <2>1, <2>4 DEF IsRoot
    <3>2. Tall(st, o) = HeightOf[t] /\ f \in Seq(Blocks)
      BY <2>1, <3>1, BranchIs, Heights DEF Tall
    <3> QED
      BY <1>1, <2>1, <2>2, <2>4, <3>1, <3>2
  <2> QED
    BY <2>3, <2>4
<1>2. CASE IsBranch(st, o)
  <2>1. /\ t \in Blocks /\ k \in 0 .. HeightOf[t] /\ k # 0 /\ f = Branch(k, t)
        /\ st.chain[o].parent \in Objs(st)
    BY <1>2, Heights DEF IsBranch
  <2>2. st.chain[o].parent # 0
    BY <2>1 DEF Objs
  <2>3. Path(st, o) \in Blocks
    <3>1. Path(st, o) = st.chain[o].first
      BY <2>2 DEF Path
    <3>2. st.chain[o].first = BlockAt[t][k]
      BY <1>2 DEF IsBranch
    <3> QED
      BY <2>1, <3>1, <3>2, InChain
  <2>4. f \in Seq(Blocks) /\ f # << >> /\ Len(f) = HeightOf[t] - k + 1
    <3> HIDE DEF f, t, k
    <3> QED
      BY <2>1, BranchIs
  <2>5. Tall(st, o) = HeightOf[t]
    <3>1. Tall(st, o) = k + Len(f) - 1
      BY DEF Tall
    <3>2. HeightOf[t] \in Nat /\ k \in Nat
      BY <2>1, Heights
    <3> HIDE DEF f, t, k
    <3> QED
      BY <2>4, <3>1, <3>2
  <2> QED
    BY <1>2, <2>1, <2>3, <2>4, <2>5
<1> QED
  BY <1>0, <1>1, <1>2

LEMMA TwoObjects ==
    ASSUME NEW st, NEW o \in Objs(st), NEW c \in Objs(st), o # c
    PROVE  Len(st.chain) # 1
<1> DEFINE n == Len(st.chain)
<1>1. o \in 1 .. n /\ c \in 1 .. n BY DEF Objs
<1> HIDE DEF n
<1>2. n # 1 BY <1>1
<1> QED BY <1>2 DEF n

LEMMA RootOrBranch ==
    ASSUME NEW st, Sound(st), NEW o \in Objs(st)
    PROVE  /\ st.chain[o].parent = 0 => IsRoot(st, o)
           /\ st.chain[o].parent # 0 => IsBranch(st, o)
<1>1. IsRoot(st, o) \/ IsBranch(st, o) BY DEF Sound
<1>2. IsRoot(st, o) => st.chain[o].parent = 0 BY DEF IsRoot
<1>3. IsBranch(st, o) => st.chain[o].parent \in Objs(st) BY DEF IsBranch
<1>4. 0 \notin Objs(st) BY DEF Objs
<1> QED BY <1>1, <1>2, <1>3, <1>4

LEMMA SameObjs ==
    ASSUME NEW st, NEW g, Len(g.chain) = Len(st.chain)
    PROVE  Objs(g) = Objs(st)
<1>1. PICK n : n = Len(st.chain) /\ n = Len(g.chain)
  OBVIOUS
<1> QED
  BY <1>1 DEF Objs

LEMMA TopIs ==
    ASSUME NEW st, Sound(st), NEW o \in Objs(st)
    PROVE  Top(st, o) \in Blocks /\ HeightOf[Top(st, o)] \in Nat
<1>1. Top(st, o) \in Blocks
  BY RootOrBranch DEF IsRoot, IsBranch
<1> QED
  BY <1>1, Heights

LEMMA ForkpointIs ==
    ASSUME NEW st, Sound(st), NEW o \in Objs(st)
    PROVE  st.chain[o].forkpoint \in Nat
<1>1. Top(st, o) \in Blocks /\ st.chain[o].forkpoint \in 0 .. HeightOf[Top(st, o)] BY ObjectIs
<1>2. HeightOf[Top(st, o)] \in Nat BY <1>1, Heights
<1> QED BY <1>1, <1>2

(* The way from an object to the one that holds a header. *)
HolderEquation(st, o, h, up) ==
    up = [n \in 0 .. Len(st.chain) |->
            IF n = 0 THEN o
            ELSE IF h < st.chain[up[n - 1]].forkpoint THEN st.chain[up[n - 1]].parent ELSE up[n - 1]]

IsWay(st, o, h, up) ==
    /\ up \in [0 .. Len(st.chain) -> Objs(st)] /\ up[0] = o
    /\ \A i \in 1 .. Len(st.chain) :
          \/ h < st.chain[up[i - 1]].forkpoint /\ up[i] = st.chain[up[i - 1]].parent
          \/ ~ (h < st.chain[up[i - 1]].forkpoint) /\ up[i] = up[i - 1]

LEMMA HolderIsOnWay ==
    ASSUME NEW st, Sound(st), NEW o \in Objs(st), NEW h \in Nat
    PROVE  \E up : IsWay(st, o, h, up) /\ Holder(st, o, h) = up[Len(st.chain)]
<1> DEFINE N == Len(st.chain)
           V == Objs(st)
           d == [v \in V |-> IF h < st.chain[v].forkpoint THEN st.chain[v].parent ELSE v]
           D == [i \in 1 .. N |-> d]
<1>1. \A v \in V : d[v] = IF h < st.chain[v].forkpoint THEN st.chain[v].parent ELSE v
  OBVIOUS
<1>2. \A v \in V : d[v] \in V
  <2>1. \A v \in V : h < st.chain[v].forkpoint => st.chain[v].parent \in V
    BY ObjectIs
  <2> HIDE DEF d, V
  <2> QED
    BY <1>1, <2>1
<1>3. \A i \in 1 .. N : D[i] = d
  OBVIOUS
<1>4. N \in Nat
  BY DEF Sound, Shape
<1> HIDE DEF d, D
<1>5. PICK g : IsStepwise(g, N, V, o, D)
  <2>1. \A i \in 1 .. N : \A v \in V : D[i][v] \in V
    BY <1>2, <1>3
  <2> HIDE DEF V, N
  <2>2. o \in V
    BY DEF V
  <2> QED
    BY <1>4, <2>1, <2>2, StepwiseFunction
<1>6. g \in [0 .. N -> V] /\ g[0] = o /\ \A i \in 1 .. N : g[i] = d[g[i - 1]]
  BY <1>3, <1>5 DEF IsStepwise
<1>7. \A i \in 1 .. N : g[i - 1] \in V
  BY <1>4, <1>6
<1>8. \A i \in 1 .. N : g[i] = IF h < st.chain[g[i - 1]].forkpoint THEN st.chain[g[i - 1]].parent ELSE g[i - 1]
  BY <1>1, <1>6, <1>7
<1>9. HolderEquation(st, o, h, g)
  <2>1. g = [n \in 0 .. N |-> g[n]]
    BY <1>6
  <2>2. ASSUME NEW n \in 0 .. N
        PROVE  g[n] = IF n = 0 THEN o
                      ELSE IF h < st.chain[g[n - 1]].forkpoint THEN st.chain[g[n - 1]].parent ELSE g[n - 1]
    <3>1. CASE n = 0
      BY <1>6, <3>1
    <3>2. CASE n # 0
      <4>1. n \in 1 .. N
        BY <3>2
      <4> QED
        BY <1>8, <3>2, <4>1
    <3> QED
      BY <3>1, <3>2
  <2> QED
    BY <2>1, <2>2 DEF HolderEquation
<1> DEFINE u == CHOOSE up : HolderEquation(st, o, h, up)
<1>10. Holder(st, o, h) = u[N]
  BY DEF Holder, HolderEquation
<1>11. HolderEquation(st, o, h, u)
  BY <1>9
<1> HIDE DEF u
<1>12. u = [n \in 0 .. N |-> IF n = 0 THEN o
                             ELSE IF h < st.chain[u[n - 1]].forkpoint THEN st.chain[u[n - 1]].parent
                             ELSE u[n - 1]]
  BY <1>11 DEF HolderEquation
<1>13. u[0] = o /\ u = [n \in 0 .. N |-> u[n]]
  <2> HIDE DEF N
  <2> QED
    BY <1>4, <1>12
<1>14. ASSUME NEW n \in 1 .. N
       PROVE  u[n] = IF h < st.chain[u[n - 1]].forkpoint THEN st.chain[u[n - 1]].parent ELSE u[n - 1]
  <2>1. n \in 0 .. N /\ n # 0
    BY <1>4
  <2> HIDE DEF N
  <2> QED
    BY <1>12, <2>1
<1>16. ASSUME NEW n \in 1 .. N, u[n - 1] \in V
       PROVE  u[n] = D[n][u[n - 1]]
  <2>1. u[n] = d[u[n - 1]]
    BY <1>1, <1>14, <1>16
  <2> QED
    BY <1>3, <2>1
<1>17. IsStepwise(u, N, V, o, D)
  <2>1. \A i \in 1 .. N : \A v \in V : D[i][v] \in V
    BY <1>2, <1>3
  <2>2. o \in V
    OBVIOUS
  <2> HIDE DEF V, N
  <2> QED
    BY <1>4, <1>13, <1>16, <2>1, <2>2, StepwiseIs
<1>15. IsWay(st, o, h, u)
  <2>1. ASSUME NEW i \in 1 .. N
        PROVE  \/ h < st.chain[u[i - 1]].forkpoint /\ u[i] = st.chain[u[i - 1]].parent
               \/ ~ (h < st.chain[u[i - 1]].forkpoint) /\ u[i] = u[i - 1]
    BY <1>14
  <2>2. u \in [0 .. N -> V]
    BY <1>17 DEF IsStepwise
  <2> QED
    BY <1>13, <2>1, <2>2 DEF IsWay
<1> QED
  BY <1>10, <1>15

(* At the end of the way is an object that starts below the header, and in     *)
(* which it is not the last, unless it is where the way began.                *)
LEMMA HolderHas ==
    ASSUME NEW st, Sound(st), NEW o \in Objs(st), NEW h \in 0 .. HeightOf[Top(st, o)]
    PROVE  LET c == Holder(st, o, h) IN
           /\ c \in Objs(st) /\ st.chain[c].forkpoint <= h /\ h <= HeightOf[Top(st, c)]
           /\ BlockAt[Top(st, c)][h] = BlockAt[Top(st, o)][h]
           /\ c = o \/ h < HeightOf[Top(st, c)]
<1>0. h \in Nat /\ Len(st.chain) \in Nat
  BY ObjectIs, Heights DEF Sound, Shape
<1>1. PICK up : IsWay(st, o, h, up) /\ Holder(st, o, h) = up[Len(st.chain)]
  BY <1>0, HolderIsOnWay
<1> DEFINE N == Len(st.chain)
           Has(c) == /\ h <= HeightOf[Top(st, c)] /\ BlockAt[Top(st, c)][h] = BlockAt[Top(st, o)][h]
                     /\ c = o \/ h < HeightOf[Top(st, c)]
           A == {m \in Nat : m <= N => Has(up[m])}
<1>2. up \in [0 .. N -> Objs(st)] /\ up[0] = o
  BY <1>1 DEF IsWay
<1>3. ASSUME NEW i \in 1 .. N
      PROVE  \/ h < st.chain[up[i - 1]].forkpoint /\ up[i] = st.chain[up[i - 1]].parent
             \/ ~ (h < st.chain[up[i - 1]].forkpoint) /\ up[i] = up[i - 1]
  BY <1>1 DEF IsWay
<1>4. ASSUME NEW c \in Objs(st), Has(c), h < st.chain[c].forkpoint
      PROVE  Has(st.chain[c].parent) /\ st.chain[c].parent \in Objs(st)
  <2> DEFINE p == st.chain[c].parent
             k == st.chain[c].forkpoint
  <2>1. /\ k \in 1 .. HeightOf[Top(st, c)] /\ p \in Objs(st) /\ k <= HeightOf[Top(st, p)]
        /\ BlockAt[Top(st, p)][k - 1] = BlockAt[Top(st, c)][k - 1]
    <3>1. IsBranch(st, c)
      BY <1>0, <1>4, ObjectIs
    <3> QED
      BY <3>1 DEF IsBranch
  <2>2. Top(st, c) \in Blocks /\ Top(st, p) \in Blocks
    BY <2>1, ObjectIs
  <2>3. HeightOf[Top(st, c)] \in Nat /\ HeightOf[Top(st, p)] \in Nat
    BY <2>2, Heights
  <2>4. h < k
    BY <1>4
  <2> HIDE DEF p, k
  <2>5. k - 1 \in 0 .. HeightOf[Top(st, p)] /\ k - 1 <= HeightOf[Top(st, c)] /\ h \in 0 .. k - 1
    BY <1>0, <2>1, <2>3, <2>4
  <2>6. BlockAt[Top(st, p)][h] = BlockAt[Top(st, c)][h]
    BY <2>1, <2>2, <2>5, SameBelow
  <2>7. h < HeightOf[Top(st, p)]
    BY <1>0, <2>1, <2>3, <2>4
  <2>8. h <= HeightOf[Top(st, p)] /\ BlockAt[Top(st, c)][h] = BlockAt[Top(st, o)][h]
    BY <1>0, <1>4, <2>3, <2>7
  <2> QED
    BY <2>1, <2>6, <2>7, <2>8 DEF p
<1>5. A = Nat
  <2>1. 0 \in A
    BY <1>0, <1>2
  <2>2. ASSUME NEW m \in A
        PROVE  m + 1 \in A
    <3>1. CASE m + 1 <= N
      <4>1. m + 1 \in 1 .. N /\ m + 1 - 1 = m /\ m \in 0 .. N /\ Has(up[m])
        BY <1>0, <3>1
      <4>2. up[m] \in Objs(st)
        BY <1>2, <4>1
      <4> HIDE DEF Has
      <4> QED
        BY <1>3, <1>4, <4>1, <4>2
    <3> QED
      BY <3>1
  <2>3. A \in SUBSET Nat
    OBVIOUS
  <2> HIDE DEF A
  <2> QED
    BY <2>1, <2>2, <2>3, SetInduction
<1>6. Has(up[N])
  <2>1. N \in A
    <3> HIDE DEF A
    <3> QED
      BY <1>0, <1>5
  <2> QED
    BY <1>0, <2>1
<1> HIDE DEF A, Has
<1>7. PICK r \in [Objs(st) -> Nat] : Ranked(st, r)
  BY DEF Sound
<1>8. \A i \in 1 .. N : up[i] = up[i - 1] \/ r[up[i]] < r[up[i - 1]]
  <2>1. ASSUME NEW i \in 1 .. N, h < st.chain[up[i - 1]].forkpoint, up[i] = st.chain[up[i - 1]].parent
        PROVE  r[up[i]] < r[up[i - 1]]
    <3>1. up[i - 1] \in Objs(st) /\ up[i] \in Objs(st)
      BY <1>0, <1>2
    <3>2. up[i] # 0
      BY <3>1 DEF Objs
    <3>3. \A c \in Objs(st) : st.chain[c].parent # 0 => r[st.chain[c].parent] < r[c]
      BY <1>7 DEF Ranked
    <3> QED
      BY <2>1, <3>1, <3>2, <3>3
  <2> QED
    BY <1>3, <2>1
<1> DEFINE S == Objs(st)
<1>9. IsFiniteSet(S) /\ Cardinality(S) <= N
  <2>1. N \in Nat /\ N >= 1 /\ S = 1 .. N
    BY DEF Sound, Shape, States, Objs
  <2> HIDE DEF N, S
  <2>2. Cardinality(1 .. N) = N - 1 + 1 /\ IsFiniteSet(1 .. N)
    BY <2>1, FS_Interval
  <2> QED
    BY <2>1, <2>2
<1>10. PICK j \in 1 .. N : up[j] = up[j - 1]
  <2>1. N \in Nat /\ r \in [S -> Nat] /\ up \in [0 .. N -> S]
    BY <1>0, <1>2, <1>7
  <2>2. \A i \in 1 .. N : up[i] = up[i - 1] \/ r[up[i]] < r[up[i - 1]]
    BY <1>8
  <2> HIDE DEF N, S
  <2>3. IsFiniteSet(S) BY <1>9
  <2>4. Cardinality(S) <= N BY <1>9
  <2>5. N \in Nat BY <2>1
  <2>6. r \in [S -> Nat] BY <2>1
  <2>7. up \in [0 .. N -> S] BY <2>1
  <2>8. FallsTo(up, N, S, r) BY <2>2, <2>3, <2>4, <2>5, <2>6, <2>7 DEF FallsTo
  <2> QED
    BY <2>8, PathStays
<1>11. ~ (h < st.chain[up[j]].forkpoint)
  <2>1. j - 1 \in 0 .. N /\ j \in 0 .. N
    BY <1>0
  <2>2. up[j] \in Objs(st) /\ up[j] = up[j - 1]
    BY <1>2, <1>10, <2>1
  <2> SUFFICES ASSUME h < st.chain[up[j]].forkpoint PROVE FALSE
    OBVIOUS
  <2>3. up[j] = st.chain[up[j]].parent
    BY <1>3, <2>2
  <2>4. r[up[j]] < r[up[j]]
    BY <1>7, <2>2, <2>3 DEF Ranked, Objs
  <2>5. r[up[j]] \in Nat
    BY <1>7, <2>2
  <2> QED
    BY <2>4, <2>5
<1> DEFINE B == {m \in Nat : j + m <= N => up[j + m] = up[j]}
<1>12. B = Nat
  <2>1. 0 \in B
    OBVIOUS
  <2>2. ASSUME NEW m \in B
        PROVE  m + 1 \in B
    <3>1. CASE j + (m + 1) <= N
      <4>1. j + (m + 1) \in 1 .. N /\ j + (m + 1) - 1 = j + m /\ j + m <= N
        BY <1>0, <3>1
      <4> QED
        BY <1>3, <1>11, <4>1
    <3> QED
      BY <3>1
  <2>3. B \in SUBSET Nat
    OBVIOUS
  <2> HIDE DEF B
  <2> QED
    BY <2>1, <2>2, <2>3, SetInduction
<1>13. up[N] = up[j]
  <2>1. N - j \in B
    <3>1. N - j \in Nat
      BY <1>0
    <3> HIDE DEF B
    <3> QED
      BY <1>12, <3>1
  <2>2. j + (N - j) = N
    BY <1>0
  <2> QED
    BY <1>0, <2>1, <2>2
<1>14. up[N] \in Objs(st) /\ ~ (h < st.chain[up[N]].forkpoint)
  BY <1>0, <1>2, <1>11, <1>13
<1>15. st.chain[up[N]].forkpoint <= h
  <2>1. st.chain[up[N]].forkpoint \in Nat
    BY <1>14, ObjectIs, Heights
  <2> QED
    BY <1>0, <1>14, <2>1
<1> QED
  BY <1>1, <1>6, <1>14, <1>15 DEF Has

(* Above its last header an object finds none, in itself. *)
LEMMA HolderAbove ==
    ASSUME NEW st, Sound(st), NEW o \in Objs(st), NEW h \in Nat, h > HeightOf[Top(st, o)]
    PROVE  Holder(st, o, h) = o
<1>0. Len(st.chain) \in Nat /\ ~ (h < st.chain[o].forkpoint)
  <2>1. st.chain[o].forkpoint \in 0 .. HeightOf[Top(st, o)] /\ Top(st, o) \in Blocks
    BY ObjectIs
  <2>2. Len(st.chain) \in Nat
    BY DEF Sound, Shape, States
  <2> QED
    BY <2>1, <2>2, Heights
<1>1. PICK up : IsWay(st, o, h, up) /\ Holder(st, o, h) = up[Len(st.chain)]
  BY HolderIsOnWay
<1> DEFINE N == Len(st.chain)
           A == {m \in 0 .. N : up[m] = o}
<1>2. 0 .. N \subseteq A
  <2>1. 0 \in A
    BY <1>0, <1>1 DEF IsWay
  <2>2. ASSUME NEW m \in 0 .. N - 1, m \in A
        PROVE  m + 1 \in A
    <3>1. PICK i \in 1 .. N : i = m + 1
      BY <1>0
    <3>2. up[i - 1] = o
      BY <1>0, <2>2, <3>1
    <3>3. up[i] = up[i - 1]
      BY <1>0, <1>1, <3>2 DEF IsWay
    <3> QED
      BY <1>0, <3>1, <3>2, <3>3
  <2> HIDE DEF A
  <2> QED
    BY <1>0, <2>1, <2>2, IntervalInduction
<1> QED
  BY <1>0, <1>1, <1>2

(* What an object has at a height. *)
LEMMA HashIs ==
    ASSUME NEW st, Sound(st), NEW o \in Objs(st), NEW h \in Nat
    PROVE  HashAt(st, o, h) = IF h <= HeightOf[Top(st, o)] THEN BlockAt[Top(st, o)][h] ELSE None
<1>0. Top(st, o) \in Blocks /\ HeightOf[Top(st, o)] \in Nat
  BY ObjectIs, Heights
<1>1. CASE h = 0
  <2>1. h <= HeightOf[Top(st, o)] /\ BlockAt[Top(st, o)][h] = Genesis
    BY <1>0, <1>1, GenesisIsLowest
  <2> QED
    BY <1>1, <2>1 DEF HashAt
<1>2. CASE h # 0 /\ h <= HeightOf[Top(st, o)]
  <2> DEFINE c == Holder(st, o, h)
             k == st.chain[c].forkpoint
             t == Top(st, c)
  <2>1. /\ c \in Objs(st) /\ k <= h /\ h <= HeightOf[t] /\ BlockAt[t][h] = BlockAt[Top(st, o)][h]
    BY <1>2, HolderHas
  <2> HIDE DEF c
  <2>2. /\ t \in Blocks /\ k \in 0 .. HeightOf[t]
        /\ Tall(st, c) = HeightOf[t] /\ File(st, c) = Branch(k, t)
    <3>1. t \in Blocks /\ k \in 0 .. HeightOf[t]
      BY <2>1, ObjectIs
    <3>2. HeightOf[t] # 0
      BY <1>2, <2>1, <3>1, Heights
    <3>3. t # Genesis
      BY <3>2, Heights
    <3> QED
      BY <2>1, <3>1, <3>3, ObjectIs
  <2>3. HeightOf[t] \in Nat
    BY <2>2, Heights
  <2>4. Header(st, o, h) = File(st, c)[h - k + 1]
    <3>1. ~ (h < 0 \/ h > Tall(st, c))
      BY <2>1, <2>2, <2>3
    <3> QED
      BY <3>1 DEF Header, c
  <2> HIDE DEF k, t
  <2>5. h - k + 1 \in 1 .. HeightOf[t] - k + 1 /\ k + (h - k + 1) - 1 = h
    BY <2>1, <2>2, <2>3
  <2>6. Branch(k, t)[h - k + 1] = BlockAt[t][k + (h - k + 1) - 1]
    BY <2>2, <2>5, BranchIs
  <2>7. HashAt(st, o, h) = BlockAt[Top(st, o)][h]
    BY <1>2, <2>1, <2>2, <2>4, <2>5, <2>6 DEF HashAt
  <2> QED
    BY <1>2, <2>7
<1>3. CASE h > HeightOf[Top(st, o)]
  <2>1. Holder(st, o, h) = o
    BY <1>3, HolderAbove
  <2>2. h > Tall(st, o)
    <3>1. Tall(st, o) = HeightOf[Top(st, o)] \/ Tall(st, o) = -1
      BY ObjectIs
    <3> QED
      BY <1>0, <1>3, <3>1
  <2>3. Header(st, o, h) = None
    BY <2>1, <2>2 DEF Header
  <2>4. h # 0 /\ ~ (h <= HeightOf[Top(st, o)])
    BY <1>0, <1>3
  <2> QED
    BY <2>3, <2>4 DEF HashAt
<1> QED
  BY <1>0, <1>1, <1>2, <1>3

(* One block is on the chain that ends in another. *)
Below(b, t) == HeightOf[b] <= HeightOf[t] /\ BlockAt[t][HeightOf[b]] = b

LEMMA HasIs ==
    ASSUME NEW st, Sound(st), NEW o \in Objs(st), NEW b \in Blocks
    PROVE  HasHeader(st, o, b) <=> Below(b, Top(st, o))
<1>1. HeightOf[b] \in Nat
  BY Heights
<1>2. b # None
  BY SpecialValues
<1>3. HashAt(st, o, HeightOf[b]) = IF HeightOf[b] <= HeightOf[Top(st, o)] THEN BlockAt[Top(st, o)][HeightOf[b]] ELSE None
  BY <1>1, HashIs
<1> QED
  BY <1>2, <1>3 DEF HasHeader, Below

(* A block whose block before an object has *)
LEMMA ConnectsIs ==
    ASSUME NEW st, Sound(st), NEW o \in Objs(st), NEW b \in Blocks \ {Genesis}
    PROVE  /\ Connects(st, o, b) <=> Below(PrevBlock[b], Top(st, o))
           /\ PrevBlock[b] \in Blocks /\ HeightOf[PrevBlock[b]] = HeightOf[b] - 1
<1>1. PrevBlock[b] \in Blocks /\ HeightOf[PrevBlock[b]] \in Nat /\ HeightOf[b] \in Nat
      /\ HeightOf[b] = HeightOf[PrevBlock[b]] + 1
  BY BlocksLinked, Heights
<1>2. HeightOf[b] - 1 = HeightOf[PrevBlock[b]]
  BY <1>1
<1>3. Connects(st, o, b) <=> HasHeader(st, o, PrevBlock[b])
  BY <1>2 DEF Connects, HasHeader
<1> QED
  BY <1>1, <1>2, <1>3, HasIs

LEMMA BelowItself == \A b \in Blocks : Below(b, b)
BY ChainsAreGrown, Heights DEF Below

LEMMA BelowAll ==
    ASSUME NEW x \in Blocks, NEW y \in Blocks, NEW z \in Blocks, Below(x, y), Below(y, z)
    PROVE  Below(x, z)
<1>1. HeightOf[x] \in Nat /\ HeightOf[y] \in Nat /\ HeightOf[z] \in Nat
  BY Heights
<1>2. HeightOf[x] <= HeightOf[z] /\ HeightOf[y] \in 0 .. HeightOf[z] /\ HeightOf[x] \in 0 .. HeightOf[y]
  BY <1>1 DEF Below
<1>3. BlockAt[BlockAt[z][HeightOf[y]]][HeightOf[x]] = BlockAt[z][HeightOf[x]]
  BY <1>2, InChain
<1> QED
  BY <1>2, <1>3 DEF Below

LEMMA BelowNext ==
    ASSUME NEW b \in Blocks \ {Genesis}
    PROVE  Below(PrevBlock[b], b)
<1>1. PrevBlock[b] \in Blocks /\ HeightOf[PrevBlock[b]] \in Nat /\ HeightOf[b] \in Nat
      /\ HeightOf[b] = HeightOf[PrevBlock[b]] + 1
  BY BlocksLinked, Heights
<1>2. BlockAt[b][HeightOf[PrevBlock[b]]] = PrevBlock[b]
  BY <1>1, ChainsAreGrown
<1> QED
  BY <1>1, <1>2 DEF Below

LEMMA BelowAt ==
    ASSUME NEW t \in Blocks, NEW h \in 0 .. HeightOf[t]
    PROVE  Below(BlockAt[t][h], t) /\ BlockAt[t][h] \in Blocks /\ HeightOf[BlockAt[t][h]] = h
BY InChain, Heights DEF Below

(* Of two blocks of a chain one is below the other. *)
LEMMA BelowBoth ==
    ASSUME NEW x \in Blocks, NEW y \in Blocks, NEW t \in Blocks, Below(x, t), Below(y, t),
           HeightOf[x] <= HeightOf[y]
    PROVE  Below(x, y)
<1>1. HeightOf[x] \in Nat /\ HeightOf[y] \in Nat /\ HeightOf[t] \in Nat
  BY Heights
<1>2. HeightOf[y] \in 0 .. HeightOf[t] /\ HeightOf[x] \in 0 .. HeightOf[y]
  BY <1>1 DEF Below
<1>3. BlockAt[BlockAt[t][HeightOf[y]]][HeightOf[x]] = BlockAt[t][HeightOf[x]]
  BY <1>2, InChain
<1> QED
  BY <1>3 DEF Below

LEMMA SoundConnects == Sound(bc) => HeadersConnect
<1> SUFFICES ASSUME Sound(bc), NEW o \in Objects, NEW h \in 1 .. Tall(bc, o)
             PROVE  LET b == Header(bc, o, h)
                    IN  b # None /\ HeightOf[b] = h /\ HashAt(bc, o, h - 1) = PrevBlock[b]
  BY DEF HeadersConnect
<1> DEFINE t == Top(bc, o)
<1>1. o \in Objs(bc)
  BY DEF Objects, Objs
<1>2. t \in Blocks /\ HeightOf[t] \in Nat /\ h \in 1 .. HeightOf[t]
  <2>1. Tall(bc, o) = HeightOf[t] \/ Tall(bc, o) = -1
    BY <1>1, ObjectIs
  <2> QED
    BY <1>1, <2>1, ObjectIs, Heights
<1>3. h \in Nat /\ h - 1 \in Nat /\ h # 0 /\ h \in 0 .. HeightOf[t] /\ h <= HeightOf[t] /\ h - 1 <= HeightOf[t]
  BY <1>2
<1>4. Header(bc, o, h) = BlockAt[t][h] /\ HashAt(bc, o, h - 1) = BlockAt[t][h - 1]
  BY <1>1, <1>3, HashIs DEF HashAt
<1>5. BlockAt[t][h] \in Blocks /\ HeightOf[BlockAt[t][h]] = h /\ PrevBlock[BlockAt[t][h]] = BlockAt[t][h - 1]
  BY <1>2, <1>3, InChain, BeforeInChain
<1> QED
  BY <1>4, <1>5, SpecialValues

LEMMA SoundHeldOnce == Sound(bc) => HeldOnce
BY DEF Sound, Apart, HeldOnce, Objects, Objs, ToSet, Range

-----------------------------------------------------------------------------
(*                       What two objects have in common                   *)

(* Both have headers up to a height, and the same. *)
Shares(st, o, c, h) ==
    /\ h <= HeightOf[Top(st, o)] /\ h <= HeightOf[Top(st, c)]
    /\ BlockAt[Top(st, o)][h] = BlockAt[Top(st, c)][h]

LEMMA SharesIs ==
    ASSUME NEW st, Sound(st), NEW o \in Objs(st), NEW c \in Objs(st), NEW h \in Nat, Shares(st, o, c, h),
           NEW k \in 0 .. h
    PROVE  Shares(st, o, c, k) /\ HashAt(st, o, k) = HashAt(st, c, k)
<1>1. Top(st, o) \in Blocks /\ Top(st, c) \in Blocks
  BY ObjectIs
<1>2. HeightOf[Top(st, o)] \in Nat /\ HeightOf[Top(st, c)] \in Nat
  BY <1>1, Heights
<1>3. h \in 0 .. HeightOf[Top(st, o)] /\ h <= HeightOf[Top(st, c)] /\ k <= HeightOf[Top(st, o)]
      /\ k <= HeightOf[Top(st, c)] /\ k \in Nat
  BY <1>2 DEF Shares
<1>4. BlockAt[Top(st, o)][k] = BlockAt[Top(st, c)][k]
  BY <1>1, <1>3, SameBelow DEF Shares
<1> QED
  BY <1>3, <1>4, HashIs DEF Shares

(* An object shares with its parent what is below its forkpoint. *)
LEMMA SharesWithParent ==
    ASSUME NEW st, Sound(st), NEW o \in Objs(st), st.chain[o].parent # 0,
           NEW k \in 0 .. st.chain[o].forkpoint - 1
    PROVE  st.chain[o].parent \in Objs(st) /\ Shares(st, o, st.chain[o].parent, k)
<1> DEFINE p == st.chain[o].parent
           f == st.chain[o].forkpoint
<1>1. /\ p \in Objs(st) /\ f \in 1 .. HeightOf[Top(st, o)] /\ f <= HeightOf[Top(st, p)]
      /\ BlockAt[Top(st, o)][f - 1] = BlockAt[Top(st, p)][f - 1]
  BY ObjectIs DEF IsBranch
<1>2. Top(st, o) \in Blocks /\ Top(st, p) \in Blocks
  BY <1>1, ObjectIs
<1>3. HeightOf[Top(st, o)] \in Nat /\ HeightOf[Top(st, p)] \in Nat
  BY <1>2, Heights
<1>4. f - 1 \in Nat /\ k \in 0 .. f - 1
  BY <1>1
<1>5. Shares(st, o, p, f - 1)
  BY <1>1, <1>3 DEF Shares
<1>6. p \in Objs(st)
  BY <1>1
<1> HIDE DEF p, f
<1>7. Shares(st, o, p, k)
  BY <1>4, <1>5, <1>6, SharesIs
<1> QED
  BY <1>6, <1>7 DEF p

LEMMA SharesAll ==
    ASSUME NEW st, NEW x, NEW y, NEW z, NEW k, Shares(st, x, y, k), Shares(st, y, z, k)
    PROVE  Shares(st, x, z, k)
BY DEF Shares

LEMMA SharesBack ==
    ASSUME NEW st, NEW x, NEW y, NEW k, Shares(st, x, y, k)
    PROVE  Shares(st, y, x, k)
BY DEF Shares

AncestorEquation(st, o, up) ==
    up = [n \in 0 .. Len(st.chain) |->
            IF n = 0 THEN o ELSE IF up[n - 1] = 0 THEN 0 ELSE st.chain[up[n - 1]].parent]

LEMMA AncestorIs ==
    ASSUME NEW st, Sound(st), NEW o \in Objs(st)
    PROVE  LET u == Ancestor(st, o) IN
           /\ u \in [0 .. Len(st.chain) -> {0} \cup Objs(st)] /\ u[0] = o
           /\ \A i \in 1 .. Len(st.chain) : u[i] = IF u[i - 1] = 0 THEN 0 ELSE st.chain[u[i - 1]].parent
<1> DEFINE N == Len(st.chain)
           V == {0} \cup Objs(st)
           d == [v \in V |-> IF v = 0 THEN 0 ELSE st.chain[v].parent]
           D == [i \in 1 .. N |-> d]
<1>1. \A v \in V : d[v] = IF v = 0 THEN 0 ELSE st.chain[v].parent
  OBVIOUS
<1>2. \A v \in V : d[v] \in V
  <2>1. \A v \in Objs(st) : st.chain[v].parent \in V
    BY ObjectIs
  <2> HIDE DEF d
  <2> QED
    BY <1>1, <2>1
<1>3. \A i \in 1 .. N : D[i] = d
  OBVIOUS
<1>4. N \in Nat
  BY DEF Sound, Shape, States
<1> HIDE DEF d, D
<1>a. \A i \in 1 .. N : \A v \in V : D[i][v] \in V
  BY <1>2, <1>3
<1>b. o \in V
  OBVIOUS
<1>5. PICK g : IsStepwise(g, N, V, o, D)
  <2> HIDE DEF V, N
  <2> QED
    BY <1>4, <1>a, <1>b, StepwiseFunction
<1>6. g \in [0 .. N -> V] /\ g[0] = o /\ \A i \in 1 .. N : g[i] = d[g[i - 1]] /\ g[i - 1] \in V
  BY <1>3, <1>4, <1>5 DEF IsStepwise
<1>9. AncestorEquation(st, o, g)
  <2>1. g = [n \in 0 .. N |-> g[n]]
    BY <1>6
  <2>2. ASSUME NEW n \in 0 .. N
        PROVE  g[n] = IF n = 0 THEN o ELSE IF g[n - 1] = 0 THEN 0 ELSE st.chain[g[n - 1]].parent
    <3>1. CASE n = 0
      BY <1>6, <3>1
    <3>2. CASE n # 0
      <4>1. n \in 1 .. N
        BY <3>2
      <4> QED
        BY <1>1, <1>6, <3>2, <4>1
    <3> QED
      BY <3>1, <3>2
  <2> QED
    BY <2>1, <2>2 DEF AncestorEquation
<1> DEFINE u == CHOOSE up : AncestorEquation(st, o, up)
<1>10. Ancestor(st, o) = [n \in 0 .. N |-> u[n]]
  BY DEF Ancestor, AncestorEquation
<1>11. AncestorEquation(st, o, u)
  BY <1>9
<1> HIDE DEF u
<1>12. u = [n \in 0 .. N |-> IF n = 0 THEN o ELSE IF u[n - 1] = 0 THEN 0 ELSE st.chain[u[n - 1]].parent]
  BY <1>11 DEF AncestorEquation
<1>13. u[0] = o /\ u = [n \in 0 .. N |-> u[n]]
  <2> HIDE DEF N
  <2> QED
    BY <1>4, <1>12
<1>14. ASSUME NEW n \in 1 .. N
       PROVE  u[n] = IF u[n - 1] = 0 THEN 0 ELSE st.chain[u[n - 1]].parent
  <2>1. n \in 0 .. N /\ n # 0
    BY <1>4
  <2> HIDE DEF N
  <2> QED
    BY <1>12, <2>1
<1>16. ASSUME NEW n \in 1 .. N, u[n - 1] \in V
       PROVE  u[n] = D[n][u[n - 1]]
  BY <1>1, <1>3, <1>14, <1>16
<1>17. IsStepwise(u, N, V, o, D)
  <2> HIDE DEF V, N
  <2> QED
    BY <1>4, <1>13, <1>16, <1>a, <1>b, StepwiseIs
<1>18. Ancestor(st, o) = u
  BY <1>10, <1>13
<1> QED
  BY <1>13, <1>14, <1>17, <1>18 DEF IsStepwise

(* As long as forks are above: what an object shares with those above it. *)
ForksBelow(st) ==
    \A o \in Objs(st) : st.chain[o].parent # 0 => ForksAbove(st, o, st.chain[o].parent)

LEMMA SharesWithAncestors ==
    ASSUME NEW st, Sound(st), ForksBelow(st), NEW o \in Objs(st), NEW c \in Range(Ancestor(st, o)) \ {0},
           NEW k \in 0 .. st.chain[c].forkpoint - 1
    PROVE  c \in Objs(st) /\ Shares(st, o, c, k)
<1> DEFINE N == Len(st.chain)
           u == Ancestor(st, o)
           Ok(m) == u[m] # 0 => \A h \in 0 .. st.chain[u[m]].forkpoint - 1 : Shares(st, o, u[m], h)
           A == {m \in 0 .. N : Ok(m)}
<1>0. N \in Nat
  BY DEF Sound, Shape, States
<1>1. /\ u \in [0 .. N -> {0} \cup Objs(st)] /\ u[0] = o
      /\ \A i \in 1 .. N : u[i] = IF u[i - 1] = 0 THEN 0 ELSE st.chain[u[i - 1]].parent
  BY AncestorIs
<1> HIDE DEF u
<1>2. 0 .. N \subseteq A
  <2>1. 0 \in A
    <3>1. ASSUME NEW h \in 0 .. st.chain[o].forkpoint - 1
          PROVE  Shares(st, o, o, h)
      <4>1. st.chain[o].forkpoint \in 0 .. HeightOf[Top(st, o)] /\ HeightOf[Top(st, o)] \in Nat
        BY ObjectIs, Heights
      <4> QED
        BY <4>1 DEF Shares
    <3> QED
      BY <1>0, <1>1, <3>1
  <2>2. ASSUME NEW m \in 0 .. N - 1, m \in A
        PROVE  m + 1 \in A
    <3>1. PICK i \in 1 .. N : i = m + 1 /\ i - 1 = m
      BY <1>0
    <3>2. u[i] = IF u[m] = 0 THEN 0 ELSE st.chain[u[m]].parent
      BY <1>1, <3>1
    <3>3. ASSUME u[i] # 0, NEW h \in 0 .. st.chain[u[i]].forkpoint - 1
          PROVE  Shares(st, o, u[i], h)
      <4> DEFINE x == u[m]
                 p == st.chain[x].parent
      <4>0. u[m] # 0 BY <3>2, <3>3
      <4>a. u[m] \in Objs(st)
        <5>1. m \in 0 .. N BY <1>0, <3>1
        <5> QED BY <1>1, <4>0, <5>1
      <4>1. x # 0 /\ x \in Objs(st) /\ p = u[i] /\ p # 0
        BY <3>2, <3>3, <4>0, <4>a
      <4>2. p \in Objs(st)
        BY <4>1, ObjectIs
      <4>3. st.chain[p].forkpoint \in Nat /\ st.chain[x].forkpoint \in Nat
        BY <4>1, <4>2, ForkpointIs
      <4>4. st.chain[x].forkpoint > st.chain[p].forkpoint
        BY <4>1 DEF ForksBelow, ForksAbove
      <4>b. h \in 0 .. st.chain[p].forkpoint - 1 BY <3>3, <4>1
      <4>5. h \in 0 .. st.chain[x].forkpoint - 1
        <5> DEFINE lo == st.chain[p].forkpoint
                   hi == st.chain[x].forkpoint
        <5>1. lo \in Nat /\ hi \in Nat /\ hi > lo /\ h \in 0 .. lo - 1 BY <4>3, <4>4, <4>b
        <5> HIDE DEF lo, hi
        <5>2. h \in 0 .. hi - 1 BY <5>1
        <5> QED BY <5>2 DEF hi
      <4>6. Shares(st, o, x, h)
        BY <2>2, <4>1, <4>5
      <4>7. Shares(st, x, p, h)
        BY <4>1, <4>5, SharesWithParent
      <4> QED
        BY <4>1, <4>6, <4>7, SharesAll
    <3> QED
      BY <1>0, <3>1, <3>3
  <2> HIDE DEF A
  <2> QED
    BY <1>0, <2>1, <2>2, IntervalInduction
<1>3. PICK m \in 0 .. N : c = u[m]
  BY <1>1 DEF Range, u
<1> QED
  BY <1>1, <1>2, <1>3

LEMMA LargestIs ==
    ASSUME NEW S \in SUBSET Int, 0 \in S, NEW m \in Nat, \A x \in S : x <= m
    PROVE  Largest(S) \in S /\ \A y \in S : y <= Largest(S)
<1> DEFINE T == S \cap Nat
<1>1. IsFiniteSet(T)
  <2>1. IsFiniteSet(0 .. m)
    BY FS_Interval
  <2>2. T \subseteq 0 .. m
    OBVIOUS
  <2> QED
    BY <2>1, <2>2, FS_Subset
<1>2. T \in SUBSET Nat /\ T # {}
  OBVIOUS
<1>3. \A x \in S : x \in T \/ x < 0
  OBVIOUS
<1>4. 0 \in T /\ T \subseteq S
  OBVIOUS
<1> HIDE DEF T
<1>5. Max(T) \in T /\ \A y \in T : y <= Max(T)
  BY <1>1, <1>2, LargestOf
<1>6. Max(T) \in S /\ \A y \in S : y <= Max(T)
  <2>1. Max(T) \in S /\ Max(T) \in Nat BY <1>2, <1>4, <1>5
  <2>2. ASSUME NEW y \in S PROVE y <= Max(T)
    <3>1. y \in Int OBVIOUS
    <3>2. CASE y \in T BY <3>2, <1>5
    <3>3. CASE y < 0 BY <3>1, <3>3, <2>1
    <3> QED BY <1>3, <3>2, <3>3
  <2> QED BY <2>1, <2>2
<1> QED
  BY <1>6 DEF Largest

(* The heights of get_parent_heights: up to them the headers are the same. *)
LEMMA ParentHeightsIs ==
    ASSUME NEW st, Sound(st), ForksBelow(st), NEW o \in Objs(st)
    PROVE  \A c \in DOMAIN ParentHeights(st, o) :
              /\ c \in Objs(st) /\ ParentHeights(st, o)[c] \in Int
              /\ ParentHeights(st, o)[c] <= HeightOf[Top(st, o)]
              /\ \A k \in 0 .. ParentHeights(st, o)[c] : Shares(st, o, c, k)
<1> DEFINE u == Ancestor(st, o)
           N == Len(st.chain)
           below(c) == CHOOSE b \in Range(u) \ {0} : st.chain[b].parent = c
           ph == ParentHeights(st, o)
<1>1. /\ u \in [0 .. N -> {0} \cup Objs(st)] /\ u[0] = o
      /\ \A i \in 1 .. N : u[i] = IF u[i - 1] = 0 THEN 0 ELSE st.chain[u[i - 1]].parent
      /\ N \in Nat
  <2>1. N \in Nat BY DEF Sound, Shape, States
  <2> HIDE DEF u, N
  <2>2. /\ u \in [0 .. N -> {0} \cup Objs(st)] /\ u[0] = o
        /\ \A i \in 1 .. N : u[i] = IF u[i - 1] = 0 THEN 0 ELSE st.chain[u[i - 1]].parent
    BY AncestorIs DEF u, N
  <2> QED BY <2>1, <2>2
<1>2. ph = [c \in Range(u) \ {0} |-> IF c = o THEN Tall(st, o) ELSE st.chain[below(c)].forkpoint - 1]
  BY DEF ParentHeights
<1>3. HeightOf[Top(st, o)] \in Nat
  BY ObjectIs, Heights
<1>4. Range(u) = {u[i] : i \in 0 .. N}
  BY <1>1 DEF Range
<1> HIDE DEF ph, u
<1>5. ASSUME NEW c \in Range(u) \ {0}
      PROVE  /\ c \in Objs(st) /\ ph[c] \in Int /\ ph[c] <= HeightOf[Top(st, o)]
             /\ \A k \in 0 .. ph[c] : Shares(st, o, c, k)
  <2>1. c \in Objs(st)
    BY <1>1, <1>4
  <2>2. CASE c = o
    <3>1. ph[c] = Tall(st, o)
      BY <1>2, <2>2
    <3>2. Tall(st, o) = HeightOf[Top(st, o)] \/ Tall(st, o) = -1
      BY ObjectIs
    <3>3. ph[c] \in Int /\ ph[c] <= HeightOf[Top(st, o)]
      BY <1>3, <3>1, <3>2
    <3>4. \A k \in 0 .. ph[c] : Shares(st, o, c, k)
      BY <1>3, <2>2, <3>3 DEF Shares
    <3> QED
      BY <2>1, <3>3, <3>4
  <2>3. CASE c # o
    <3>1. PICK i \in 0 .. N : c = u[i]
      BY <1>4
    <3>2. i \in 1 .. N /\ i - 1 \in 0 .. N
      BY <1>1, <2>3, <3>1
    <3>3. u[i - 1] # 0 /\ st.chain[u[i - 1]].parent = c
      BY <1>1, <3>1, <3>2
    <3>4. \E b \in Range(u) \ {0} : st.chain[b].parent = c
      BY <1>4, <3>2, <3>3
    <3> DEFINE b == below(c)
    <3>5. b \in Range(u) \ {0} /\ st.chain[b].parent = c
      BY <3>4
    <3>6. ph[c] = st.chain[b].forkpoint - 1
      BY <1>2, <2>3
    <3> HIDE DEF b
    <3>7. b \in Objs(st) /\ \A k \in 0 .. st.chain[b].forkpoint - 1 : Shares(st, o, b, k)
      <4>1. b \in Range(Ancestor(st, o)) \ {0} BY <3>5 DEF u
      <4>2. st.chain[b].forkpoint \in Int
        <5>1. b \in Objs(st) BY <3>5, <1>1 DEF Range
        <5> QED BY <5>1, ForkpointIs
      <4>3. b \in Objs(st) BY <3>5, <1>1 DEF Range
      <4> HIDE DEF u
      <4>4. \A k \in 0 .. st.chain[b].forkpoint - 1 : Shares(st, o, b, k) BY <4>1, SharesWithAncestors
      <4> QED BY <4>3, <4>4
    <3>8. \A k \in 0 .. st.chain[b].forkpoint - 1 : Shares(st, b, c, k)
      BY <3>5, <3>7, SharesWithParent
    <3>9. \A k \in 0 .. ph[c] : Shares(st, o, c, k)
      BY <3>6, <3>7, <3>8, SharesAll
    <3>10. st.chain[b].forkpoint \in Nat
      BY <3>7, ObjectIs, Heights
    <3>11. ph[c] \in Int /\ ph[c] <= HeightOf[Top(st, o)]
      <4>1. CASE ph[c] < 0
        BY <1>3, <3>6, <3>10, <4>1
      <4>2. CASE ph[c] >= 0
        <5>1. ph[c] \in 0 .. ph[c]
          BY <3>6, <3>10, <4>2
        <5> QED
          BY <3>6, <3>9, <3>10, <5>1 DEF Shares
      <4> QED
        BY <3>6, <3>10, <4>1, <4>2
    <3> QED
      BY <2>1, <3>9, <3>11
  <2> QED
    BY <2>2, <2>3
<1>6. DOMAIN ph = Range(u) \ {0}
  BY <1>2
<1> QED
  BY <1>5, <1>6 DEF ph

LEMMA SoundLastCommon == Sound(bc) => LastCommonIsCommon
<1> SUFFICES ASSUME Sound(bc), ParentForksBelow, NEW o \in Objects, NEW c \in Objects,
                    NEW h \in 0 .. LastCommon(bc, o, c)
             PROVE  HashAt(bc, o, h) = HashAt(bc, c, h)
  BY DEF LastCommonIsCommon
<1> DEFINE ours == ParentHeights(bc, o)
           theirs == ParentHeights(bc, c)
           low(x) == IF ours[x] <= theirs[x] THEN ours[x] ELSE theirs[x]
           S == {0} \cup {low(x) : x \in DOMAIN ours \cap DOMAIN theirs}
<1>1. o \in Objs(bc) /\ c \in Objs(bc) /\ ForksBelow(bc)
  BY DEF Objects, Objs, ParentForksBelow, ForksBelow
<1>2. \A x \in DOMAIN ours : /\ x \in Objs(bc) /\ ours[x] \in Int /\ ours[x] <= HeightOf[Top(bc, o)]
                             /\ \A k \in 0 .. ours[x] : Shares(bc, o, x, k)
  BY <1>1, ParentHeightsIs
<1>3. \A x \in DOMAIN theirs : /\ x \in Objs(bc) /\ theirs[x] \in Int
                               /\ \A k \in 0 .. theirs[x] : Shares(bc, c, x, k)
  BY <1>1, ParentHeightsIs
<1>4. LastCommon(bc, o, c) = Largest(S)
  BY DEF LastCommon
<1>5. HeightOf[Top(bc, o)] \in Nat
  BY <1>1, ObjectIs, Heights
<1> HIDE DEF ours, theirs
<1>6. \A x \in DOMAIN ours \cap DOMAIN theirs :
         low(x) \in Int /\ low(x) <= ours[x] /\ low(x) <= theirs[x] /\ low(x) <= HeightOf[Top(bc, o)]
  BY <1>2, <1>3, <1>5
<1> HIDE DEF low
<1>7. S \in SUBSET Int /\ 0 \in S /\ \A x \in S : x <= HeightOf[Top(bc, o)]
  BY <1>5, <1>6
<1>8. Largest(S) \in S
  <2> HIDE DEF S
  <2> QED
    BY <1>5, <1>7, LargestIs
<1>9. CASE Largest(S) = 0
  <2>1. h = 0
    BY <1>4, <1>9
  <2> QED
    BY <2>1 DEF HashAt
<1>10. CASE Largest(S) # 0
  <2>1. PICK x \in DOMAIN ours \cap DOMAIN theirs : Largest(S) = low(x)
    BY <1>8, <1>10
  <2>2. h \in 0 .. ours[x] /\ h \in 0 .. theirs[x]
    BY <1>2, <1>3, <1>4, <1>6, <2>1
  <2>3. Shares(bc, o, x, h) /\ Shares(bc, c, x, h) /\ x \in Objs(bc)
    BY <1>2, <1>3, <2>2
  <2>4. h \in Nat /\ h \in 0 .. h
    BY <2>2
  <2>5. HashAt(bc, o, h) = HashAt(bc, x, h)
    BY <1>1, <2>3, <2>4, SharesIs
  <2>6. HashAt(bc, c, h) = HashAt(bc, x, h)
    BY <1>1, <2>3, <2>4, SharesIs
  <2> QED
    BY <2>5, <2>6
<1> QED
  BY <1>9, <1>10

-----------------------------------------------------------------------------
(*                           An object that grows                          *)

LEMMA BelowAgree ==
    ASSUME NEW x \in Blocks, NEW t \in Blocks, Below(x, t), NEW k \in 0 .. HeightOf[x]
    PROVE  k <= HeightOf[t] /\ BlockAt[t][k] = BlockAt[x][k]
<1>1. HeightOf[x] \in Nat /\ HeightOf[t] \in Nat
  BY Heights
<1>2. HeightOf[x] \in 0 .. HeightOf[t]
  BY <1>1 DEF Below
<1>3. BlockAt[BlockAt[t][HeightOf[x]]][k] = BlockAt[t][k]
  BY <1>2, InChain
<1> QED
  BY <1>1, <1>2, <1>3 DEF Below

LEMMA FileHas ==
    ASSUME NEW st, Sound(st), NEW o \in Objs(st), NEW b
    PROVE  b \in Range(File(st, o)) <=>
             /\ File(st, o) # << >>
             /\ b \in Blocks /\ Below(b, Top(st, o)) /\ st.chain[o].forkpoint <= HeightOf[b]
<1> DEFINE k == st.chain[o].forkpoint
           t == Top(st, o)
<1>1. t \in Blocks /\ k \in 0 .. HeightOf[t]
  BY ObjectIs
<1>2. CASE File(st, o) = << >>
  BY <1>2 DEF Range
<1>3. CASE File(st, o) # << >>
  <2>1. File(st, o) = Branch(k, t)
    BY <1>3, ObjectIs
  <2>2. File(st, o) \in Seq(Blocks)
    BY ObjectIs
  <2>3. b \in Range(File(st, o)) => b \in Blocks
    BY <2>2 DEF Range
  <2> HIDE DEF k, t
  <2>4. b \in Blocks => (b \in Range(Branch(k, t)) <=> HeightOf[b] \in k .. HeightOf[t] /\ BlockAt[t][HeightOf[b]] = b)
    BY <1>1, BranchIs
  <2>5. b \in Blocks => HeightOf[b] \in Nat
    BY Heights
  <2>6. k \in Nat /\ HeightOf[t] \in Nat
    BY <1>1, Heights
  <2> QED
    BY <1>3, <2>1, <2>3, <2>4, <2>5, <2>6 DEF Below, k, t
<1> QED
  BY <1>2, <1>3

(* The last header of an object is in no other. *)
LEMMA TopIsOwn ==
    ASSUME NEW st, Sound(st), NEW o \in Objs(st), NEW c \in Objs(st), File(st, o) # << >>,
           Below(Top(st, o), Top(st, c))
    PROVE  c = o
<1> DEFINE t == Top(st, o)
           h == HeightOf[t]
           d == Holder(st, c, h)
<1>1. t \in Blocks /\ h \in Nat /\ h \in 0 .. HeightOf[Top(st, c)] /\ BlockAt[Top(st, c)][h] = t
  BY ObjectIs, Heights DEF Below
<1>2. /\ d \in Objs(st) /\ st.chain[d].forkpoint <= h /\ h <= HeightOf[Top(st, d)]
      /\ BlockAt[Top(st, d)][h] = t
      /\ d = c \/ h < HeightOf[Top(st, d)]
  <2> HIDE DEF h
  <2> QED
    BY <1>1, HolderHas
<1> HIDE DEF d
<1>3. t \in Range(File(st, o))
  <2>1. st.chain[o].forkpoint \in 0 .. h
    BY ObjectIs
  <2>2. Below(t, t)
    BY <1>1, BelowItself
  <2> QED
    BY <1>1, <2>1, <2>2, FileHas
<1>4. t \in Range(File(st, d))
  <2>1. File(st, d) # << >>
    <3>1. CASE o = d
      BY <3>1
    <3>2. CASE o # d
      <4>1. Len(st.chain) # 1
        BY <1>2, <3>2, TwoObjects
      <4> QED
        BY <1>2, <4>1, ObjectIs
    <3> QED
      BY <3>1, <3>2
  <2>2. Below(t, Top(st, d))
    BY <1>2 DEF Below
  <2> QED
    BY <1>1, <1>2, <2>1, <2>2, FileHas
<1>5. d = o
  BY <1>2, <1>3, <1>4 DEF Sound, Apart
<1>6. ~ (h < HeightOf[t])
  BY <1>1
<1> QED
  BY <1>2, <1>5, <1>6

LEMMA PathsDiffer ==
    ASSUME NEW st, Sound(st), NEW o \in Objs(st), NEW c \in Objs(st), o # c
    PROVE  Path(st, o) # Path(st, c)
<1>1. ASSUME NEW x \in Objs(st), st.chain[x].parent # 0
      PROVE  /\ Path(st, x) = st.chain[x].first /\ Path(st, x) \in Range(File(st, x)) /\ Path(st, x) \in Blocks
  <2> DEFINE t == Top(st, x)
             k == st.chain[x].forkpoint
  <2>1. t \in Blocks /\ k \in 0 .. HeightOf[t] /\ st.chain[x].first = BlockAt[t][k] /\ File(st, x) # << >>
    BY <1>1, ObjectIs DEF IsBranch
  <2>2. Below(BlockAt[t][k], t) /\ BlockAt[t][k] \in Blocks /\ HeightOf[BlockAt[t][k]] = k
    <3> HIDE DEF t, k
    <3> QED
      BY <2>1, BelowAt
  <2>3. BlockAt[t][k] \in Range(File(st, x))
    <3>1. k <= k
      BY <2>1, Heights
    <3> QED
      BY <2>1, <2>2, <3>1, FileHas
  <2> QED
    BY <1>1, <2>1, <2>2, <2>3 DEF Path
<1>2. ASSUME NEW x \in Objs(st), st.chain[x].parent = 0
      PROVE  Path(st, x) = Main /\ Main \notin Blocks
  BY <1>2, SpecialValues DEF Path
<1>3. CASE st.chain[o].parent = 0 /\ st.chain[c].parent = 0
  BY <1>3 DEF Sound
<1>4. CASE st.chain[o].parent = 0 /\ st.chain[c].parent # 0
  BY <1>1, <1>2, <1>4
<1>5. CASE st.chain[o].parent # 0 /\ st.chain[c].parent = 0
  BY <1>1, <1>2, <1>5
<1>6. CASE st.chain[o].parent # 0 /\ st.chain[c].parent # 0
  <2>1. Range(File(st, o)) \cap Range(File(st, c)) = {}
    BY DEF Sound, Apart
  <2> QED
    BY <1>1, <1>6, <2>1
<1> QED
  BY <1>3, <1>4, <1>5, <1>6

(* An object has become longer, and nothing else has happened. *)
Grows(st, g, o, t) ==
    /\ g \in States /\ g.chain = st.chain /\ g.order = st.order
    /\ File(g, o) = Branch(st.chain[o].forkpoint, t) /\ Top(g, o) = t
    /\ \A c \in Objs(st) : c # o => File(g, c) = File(st, c) /\ Top(g, c) = Top(st, c)
    /\ \A n \in Blocks \cup {Main} : g.file[n] = st.file[n] \/ n = Path(st, o)

LEMMA StateOf ==
    ASSUME NEW ch \in Seq(Chains), NEW ord \in Seq(Nat), NEW fl \in [Blocks \cup {Main} -> Seq(Blocks) \cup {None}],
           NEW g, g = [chain |-> ch, order |-> ord, file |-> fl]
    PROVE  g \in States /\ g.chain = ch /\ g.order = ord /\ g.file = fl
<1>1. g \in States BY DEF States
<1>2. g.chain = ch /\ g.order = ord /\ g.file = fl OBVIOUS
<1> QED BY <1>1, <1>2

LEMMA FileChanges ==
    ASSUME NEW st \in States, NEW P \in Blocks \cup {Main}, NEW f \in Seq(Blocks) \cup {None}
    PROVE  [st EXCEPT !.file = [@ EXCEPT ![P] = f]] \in States
<1>1. PICK ch \in Seq(Chains), ord \in Seq(Nat), old \in [Blocks \cup {Main} -> Seq(Blocks) \cup {None}] :
         st = [chain |-> ch, order |-> ord, file |-> old]
  BY DEF States
<1>2. PICK fl \in [Blocks \cup {Main} -> Seq(Blocks) \cup {None}] : fl = [old EXCEPT ![P] = f]
  OBVIOUS
<1>3. [st EXCEPT !.file = [@ EXCEPT ![P] = f]] = [chain |-> ch, order |-> ord, file |-> fl]
  <2>1. st.file = old
    BY <1>1
  <2>2. [st EXCEPT !.file = [@ EXCEPT ![P] = f]] = [st EXCEPT !.file = fl]
    BY <1>2, <2>1
  <2>3. [st EXCEPT !.file = fl] = [chain |-> ch, order |-> ord, file |-> fl]
    BY <1>1
  <2> QED
    BY <2>2, <2>3
<1>4. [chain |-> ch, order |-> ord, file |-> fl] \in States
  BY <1>1, <1>2 DEF States
<1> QED
  BY <1>3, <1>4

LEMMA GrownWrite ==
    ASSUME NEW st, Sound(st), NEW o \in Objs(st), NEW t \in Blocks, Below(Top(st, o), t),
           NEW f, f = Branch(st.chain[o].forkpoint, t),
           NEW g, g = [st EXCEPT !.file[Path(st, o)] = f]
    PROVE  Grows(st, g, o, t)
<1> DEFINE k == st.chain[o].forkpoint
           P == Path(st, o)
<1>1. k \in 0 .. HeightOf[t]
  <2>1. k \in 0 .. HeightOf[Top(st, o)] /\ Top(st, o) \in Blocks
    BY ObjectIs
  <2> QED
    BY <2>1, Heights DEF Below
<1>2. f \in Seq(Blocks) /\ f # << >> /\ f[Len(f)] = t
  <2> HIDE DEF k
  <2> QED
    BY <1>1, BranchIs DEF k
<1>3. st \in States /\ P \in Blocks \cup {Main}
  BY ObjectIs DEF Sound, Shape
<1> HIDE DEF P
<1>4. g = [st EXCEPT !.file = [@ EXCEPT ![P] = f]]
  BY DEF P
<1>5. g.chain = st.chain /\ g.order = st.order /\ g.file = [st.file EXCEPT ![P] = f] /\ g \in States
  <2>1. f \in Seq(Blocks) \cup {None}
    BY <1>2
  <2>2. [st EXCEPT !.file = [@ EXCEPT ![P] = f]] \in States
    BY <1>3, <2>1, FileChanges
  <2>3. g \in States
    BY <1>4, <2>2
  <2>4. g.chain = st.chain /\ g.order = st.order /\ g.file = [st.file EXCEPT ![P] = f]
    BY <1>3, <1>4 DEF States
  <2> QED
    BY <2>3, <2>4
<1>6. \A c : Path(g, c) = Path(st, c)
  BY <1>5 DEF Path
<1>7. File(g, o) = f
  BY <1>3, <1>5, <1>6 DEF File, P, States
<1>8. Top(g, o) = t
  BY <1>2, <1>7 DEF Top
<1>9. ASSUME NEW c \in Objs(st), c # o
      PROVE  File(g, c) = File(st, c) /\ Top(g, c) = Top(st, c)
  <2>1. Path(st, c) # P /\ Path(st, c) \in Blocks \cup {Main}
    BY <1>9, PathsDiffer, ObjectIs DEF P
  <2>2. File(g, c) = File(st, c)
    BY <1>3, <1>5, <1>6, <2>1 DEF File, States
  <2> QED
    BY <2>2 DEF Top
<1>10. \A n \in Blocks \cup {Main} : g.file[n] = st.file[n] \/ n = P
  BY <1>3, <1>5 DEF States
<1> QED
  BY <1>5, <1>7, <1>8, <1>9, <1>10 DEF Grows, P

LEMMA GrownSound ==
    ASSUME NEW st, Sound(st), NEW o \in Objs(st), NEW t \in Blocks, Below(Top(st, o), t),
           NEW g, Grows(st, g, o, t)
    PROVE  Sound(g)
<1>1. Objs(g) = Objs(st) /\ g.chain = st.chain
  BY DEF Grows, Objs
<1>2. ASSUME NEW c \in Objs(st)
      PROVE  Top(g, c) \in Blocks /\ Below(Top(st, c), Top(g, c)) /\ Top(st, c) \in Blocks
  <2>1. Top(st, c) \in Blocks
    BY ObjectIs
  <2>2. Below(Top(st, c), Top(st, c))
    BY <2>1, BelowItself
  <2> QED
    BY <2>1, <2>2 DEF Grows
<1>3. ASSUME NEW c \in Objs(st), NEW k \in 0 .. HeightOf[Top(st, c)]
      PROVE  k <= HeightOf[Top(g, c)] /\ BlockAt[Top(g, c)][k] = BlockAt[Top(st, c)][k]
  BY <1>2, <1>3, BelowAgree
<1>4. ASSUME NEW c \in Objs(st), st.chain[c].parent = 0
      PROVE  IsRoot(g, c)
  <2>1. g.chain[c].parent = 0 /\ g.chain[c].forkpoint = 0 /\ g.chain[c].first = Genesis
    <3>1. IsRoot(st, c) BY <1>4, RootOrBranch
    <3> QED BY <1>1, <3>1 DEF IsRoot
  <2>2. File(g, c) = Branch(0, Top(g, c)) \/ (File(g, c) = << >> /\ Len(g.chain) = 1)
    <3>1. CASE c = o
      BY <1>1, <2>1, <3>1 DEF Grows
    <3>2. CASE c # o
      <4>1. IsRoot(st, c) BY <1>4, RootOrBranch
      <4>2. File(g, c) = File(st, c) /\ Top(g, c) = Top(st, c) BY <3>2 DEF Grows
      <4> QED BY <1>1, <4>1, <4>2 DEF IsRoot
    <3> QED
      BY <3>1, <3>2
  <2> QED
    BY <1>2, <2>1, <2>2 DEF IsRoot
<1>5. ASSUME NEW c \in Objs(st), st.chain[c].parent # 0
      PROVE  IsBranch(g, c)
  <2> DEFINE k == st.chain[c].forkpoint
             p == st.chain[c].parent
  <2>1. /\ p \in Objs(st) /\ k \in 1 .. HeightOf[Top(st, c)] /\ File(st, c) = Branch(k, Top(st, c))
        /\ st.chain[c].first = BlockAt[Top(st, c)][k] /\ st.chain[c].prev = BlockAt[Top(st, c)][k - 1]
        /\ k <= HeightOf[Top(st, p)] /\ st.chain[c].prev = BlockAt[Top(st, p)][k - 1]
    BY <1>5, ObjectIs DEF IsBranch
  <2>2. HeightOf[Top(st, c)] \in Nat /\ HeightOf[Top(st, p)] \in Nat /\ HeightOf[Top(g, c)] \in Nat
    BY <1>2, <2>1, Heights
  <2>3. /\ k \in 0 .. HeightOf[Top(st, c)] /\ k - 1 \in 0 .. HeightOf[Top(st, c)]
        /\ k \in 0 .. HeightOf[Top(st, p)] /\ k - 1 \in 0 .. HeightOf[Top(st, p)]
    BY <2>1, <2>2
  <2>4. File(g, c) = Branch(k, Top(g, c))
    <3>1. CASE c = o
      BY <3>1 DEF Grows
    <3>2. CASE c # o
      BY <2>1, <3>2 DEF Grows
    <3> QED
      BY <3>1, <3>2
  <2>5. g.chain[c].parent = p /\ g.chain[c].forkpoint = k /\ g.chain[c].first = st.chain[c].first
        /\ g.chain[c].prev = st.chain[c].prev
    BY <1>1
  <2> HIDE DEF k, p
  <2>6. k <= HeightOf[Top(g, c)] /\ BlockAt[Top(g, c)][k] = BlockAt[Top(st, c)][k]
    BY <1>3, <2>3
  <2>7. BlockAt[Top(g, c)][k - 1] = BlockAt[Top(st, c)][k - 1]
    BY <1>3, <2>3
  <2>8. k <= HeightOf[Top(g, p)]
    BY <1>3, <2>1, <2>3
  <2>9. BlockAt[Top(g, p)][k - 1] = BlockAt[Top(st, p)][k - 1]
    BY <1>3, <2>1, <2>3
  <2>10. k \in 1 .. HeightOf[Top(g, c)]
    BY <2>1, <2>2, <2>6
  <2> QED
    BY <1>1, <1>2, <2>1, <2>4, <2>5, <2>6, <2>7, <2>8, <2>9, <2>10 DEF IsBranch
<1>6. Shape(g)
  BY <1>1 DEF Sound, Shape, Grows
<1>7. \A c \in Objs(g) : IsRoot(g, c) \/ IsBranch(g, c)
  BY <1>1, <1>4, <1>5
<1>8. \A c, d \in Objs(g) : g.chain[c].parent = 0 /\ g.chain[d].parent = 0 => c = d
  BY <1>1 DEF Sound
<1>9. \E r \in [Objs(g) -> Nat] : Ranked(g, r)
  BY <1>1 DEF Sound, Ranked
<1>10. ASSUME NEW c \in Objs(st), c # o, NEW x, x \in Range(File(g, o)), x \in Range(File(g, c))
       PROVE  FALSE
  <2> DEFINE k == st.chain[o].forkpoint
  <2>1. x \in Range(File(st, c)) /\ x \in Blocks /\ Below(x, Top(st, c)) /\ File(st, c) # << >>
    BY <1>10, FileHas DEF Grows
  <2>2. k \in 0 .. HeightOf[Top(st, o)] /\ k \in 0 .. HeightOf[t]
    <3>1. k \in 0 .. HeightOf[Top(st, o)] /\ Top(st, o) \in Blocks
      BY ObjectIs
    <3> QED
      BY <3>1, Heights DEF Below
  <2>3. Below(x, t) /\ k <= HeightOf[x]
    <3>1. File(g, o) = Branch(k, t)
      BY DEF Grows
    <3> HIDE DEF k
    <3>2. HeightOf[x] \in k .. HeightOf[t] /\ BlockAt[t][HeightOf[x]] = x
      BY <1>10, <2>1, <2>2, <3>1, BranchIs
    <3> QED
      BY <2>2, <3>2, Heights DEF Below
  <2>4. File(st, o) # << >>
    <3>1. Len(st.chain) # 1
      BY <1>10, TwoObjects
    <3> QED
      BY <3>1, ObjectIs
  <2>5. HeightOf[x] \in Nat /\ HeightOf[Top(st, o)] \in Nat
    BY <1>2, <2>1, Heights
  <2>6. CASE HeightOf[x] <= HeightOf[Top(st, o)]
    <3>1. Below(x, Top(st, o))
      BY <1>2, <2>1, <2>3, <2>6, BelowBoth
    <3>2. x \in Range(File(st, o))
      BY <2>1, <2>3, <2>4, <3>1, FileHas
    <3> QED
      BY <1>10, <2>1, <3>2 DEF Sound, Apart
  <2>7. CASE HeightOf[Top(st, o)] <= HeightOf[x]
    <3>1. Below(Top(st, o), x)
      BY <1>2, <2>1, <2>3, <2>7, BelowBoth
    <3>2. Below(Top(st, o), Top(st, c))
      BY <1>2, <1>10, <2>1, <3>1, BelowAll
    <3> QED
      BY <1>10, <2>4, <3>2, TopIsOwn
  <2> QED
    BY <2>5, <2>6, <2>7
<1>11. Apart(g)
  <2> SUFFICES ASSUME NEW c \in Objs(st), NEW d \in Objs(st), c # d,
                      NEW x \in Range(File(g, c)), x \in Range(File(g, d))
               PROVE  FALSE
    BY <1>1 DEF Apart
  <2>1. CASE c = o
    BY <1>10, <2>1
  <2>2. CASE d = o
    BY <1>10, <2>2
  <2>3. CASE c # o /\ d # o
    <3>1. File(g, c) = File(st, c) /\ File(g, d) = File(st, d)
      BY <2>3 DEF Grows
    <3> QED
      BY <3>1 DEF Sound, Apart
  <2> QED
    BY <2>1, <2>2, <2>3
<1> QED
  BY <1>6, <1>7, <1>8, <1>9, <1>11 DEF Sound

LEMMA GrownKept ==
    ASSUME NEW st, Sound(st), Kept(st), NEW o \in Objs(st), NEW t, NEW g, Grows(st, g, o, t)
    PROVE  Kept(g)
<1>1. Objs(g) = Objs(st) /\ g.order = st.order /\ g.chain = st.chain
  BY DEF Grows, Objs
<1>2. \A c : Path(g, c) = Path(st, c)
  BY <1>1 DEF Path
<1>3. ASSUME NEW n \in Blocks, g.file[n] # None
      PROVE  \E c \in Objs(g) : Path(g, c) = n
  <2>1. CASE n = Path(st, o)
    BY <1>1, <1>2, <2>1
  <2>2. CASE n # Path(st, o)
    <3>1. st.file[n] # None
      BY <1>3, <2>2 DEF Grows
    <3> QED
      BY <1>1, <1>2, <3>1 DEF Kept
  <2> QED
    BY <2>1, <2>2
<1> QED
  BY <1>1, <1>3 DEF Kept

LEMMA BranchFrom ==
    ASSUME NEW t \in Blocks, NEW k \in 0 .. HeightOf[t], NEW f \in Seq(Blocks),
           Len(f) = HeightOf[t] - k + 1, \A i \in 1 .. Len(f) : f[i] = BlockAt[t][k + i - 1]
    PROVE  f = Branch(k, t)
<1>1. Branch(k, t) \in Seq(Blocks) /\ Len(Branch(k, t)) = Len(f)
  BY BranchIs
<1>2. \A i \in 1 .. Len(f) : f[i] = Branch(k, t)[i]
  BY BranchIs
<1> QED
  BY <1>1, <1>2

LEMMA WrittenGrows ==
    ASSUME NEW st, Sound(st), NEW o \in Objs(st), NEW b \in Blocks, ConnectsToTip(st, o, b)
    PROVE  Below(Top(st, o), b) /\ Grows(st, Written(st, o, b), o, b)
<1> DEFINE k == st.chain[o].forkpoint
           t == Top(st, o)
           f == Append(File(st, o), b)
           P == Path(st, o)
<1>0. t \in Blocks /\ k \in 0 .. HeightOf[t] /\ HeightOf[t] \in Nat /\ HeightOf[b] \in Nat /\ File(st, o) \in Seq(Blocks)
  BY ObjectIs, Heights
<1>1. Written(st, o, b) = [st EXCEPT !.file[P] = f]
  BY DEF Written, File
<1>2. CASE b = Genesis
  <2>1. File(st, o) = << >> /\ t = Genesis /\ st.chain[o].parent = 0
    <3>1. Tall(st, o) = -1
      BY <1>2, Heights DEF ConnectsToTip
    <3> QED
      BY <1>0, <3>1, ObjectIs
  <2>2. k = 0
    BY <2>1, <1>0, Heights
  <2>3. f \in Seq(Blocks) /\ Len(f) = 1 /\ f[1] = Genesis
    BY <1>2, <2>1
  <2>4. HeightOf[b] = 0 /\ BlockAt[b][0] = Genesis
    BY <1>2, GenesisIsLowest, Heights
  <2> HIDE DEF f
  <2>5. f = Branch(0, b)
    <3>1. Len(f) = HeightOf[b] - 0 + 1 /\ 0 \in 0 .. HeightOf[b] /\ f \in Seq(Blocks) BY <2>3, <2>4
    <3>2. \A i \in 1 .. Len(f) : f[i] = BlockAt[b][0 + i - 1]
      <4> TAKE i \in 1 .. Len(f)
      <4>1. i = 1 BY <2>3
      <4>2. f[1] = BlockAt[b][0] BY <2>3, <2>4
      <4> QED BY <4>1, <4>2
    <3> QED BY <3>1, <3>2, BranchFrom
  <2>6. Below(t, b)
    BY <1>2, <2>1, BelowItself
  <2> QED
    BY <1>1, <2>2, <2>5, <2>6, GrownWrite
<1>3. CASE b # Genesis
  <2>1. b \in Blocks \ {Genesis} /\ PrevBlock[b] \in Blocks /\ HeightOf[PrevBlock[b]] \in Nat
        /\ HeightOf[b] = HeightOf[PrevBlock[b]] + 1
    BY <1>3, BlocksLinked, Heights
  <2>2. Tall(st, o) = HeightOf[b] - 1 /\ Connects(st, o, b)
    BY DEF ConnectsToTip
  <2>3. Tall(st, o) = HeightOf[t] /\ File(st, o) = Branch(k, t)
    BY <2>1, <2>2, ObjectIs
  <2>4. Below(PrevBlock[b], t)
    BY <2>1, <2>2, ConnectsIs
  <2>5. PrevBlock[b] = t
    <3>1. HeightOf[PrevBlock[b]] = HeightOf[t]
      BY <2>1, <2>2, <2>3
    <3> QED
      BY <1>0, <2>4, <3>1, ChainsAreGrown DEF Below
  <2>6. HeightOf[b] = HeightOf[t] + 1 /\ k \in 0 .. HeightOf[b]
    BY <1>0, <2>1, <2>5
  <2>7. f \in Seq(Blocks) /\ Len(f) = HeightOf[b] - k + 1
    <3>1. Len(Branch(k, t)) = HeightOf[t] - k + 1
      <4> HIDE DEF k, t
      <4> QED
        BY <1>0, BranchIs
    <3>2. Len(f) = HeightOf[t] - k + 1 + 1 /\ f \in Seq(Blocks)
      BY <1>0, <2>3, <3>1
    <3> QED
      BY <1>0, <2>6, <3>2
  <2>8. ASSUME NEW i \in 1 .. Len(f)
        PROVE  f[i] = BlockAt[b][k + i - 1]
    <3>1. CASE i = Len(f)
      <4>1. f[i] = b /\ k + i - 1 = HeightOf[b]
        BY <1>0, <2>6, <2>7, <3>1
      <4> QED
        BY <4>1, ChainsAreGrown
    <3>2. CASE i # Len(f)
      <4>1. i \in 1 .. HeightOf[t] - k + 1 /\ k + i - 1 \in 0 .. HeightOf[t]
        BY <1>0, <2>6, <2>7, <3>2
      <4>2. f[i] = Branch(k, t)[i]
        <5>1. i \in 1 .. Len(f) - 1 /\ Len(f) = Len(File(st, o)) + 1
          BY <1>0, <2>7, <3>2
        <5>2. f[i] = File(st, o)[i]
          BY <1>0, <5>1
        <5> QED
          BY <2>3, <5>2
      <4> HIDE DEF f, k, t
      <4>3. Branch(k, t)[i] = BlockAt[t][k + i - 1]
        BY <1>0, <4>1, BranchIs
      <4>4. BlockAt[b][k + i - 1] = BlockAt[t][k + i - 1]
        BY <2>1, <2>5, <4>1, ChainsAreGrown
      <4> QED
        BY <4>2, <4>3, <4>4
    <3> QED
      BY <3>1, <3>2
  <2>9. Below(t, b)
    BY <2>1, <2>5, BelowNext
  <2>10. f = Branch(k, b)
    <3> HIDE DEF f, k, t
    <3> QED
      BY <2>6, <2>7, <2>8, BranchFrom
  <2> QED
    BY <1>1, <2>9, <2>10, GrownWrite
<1> QED
  BY <1>2, <1>3

(* Headers from start to end of the chain to x *)
IsChunk(hs, x, start, end) ==
    /\ x \in Blocks /\ start \in Nat /\ end \in start .. HeightOf[x]
    /\ hs \in Seq(Blocks) /\ Len(hs) = end - start + 1
    /\ \A i \in 1 .. Len(hs) : hs[i] = BlockAt[x][start + i - 1]

(* If it is right for an object that ends no higher, the object's headers are *)
(* on that chain.                                                             *)
LEMMA RightChunk ==
    ASSUME NEW st, Sound(st), NEW o \in Objs(st), NEW index \in Nat, NEW hs, NEW x, NEW end,
           IsChunk(hs, x, index * ChunkSize, end), ChunkIsRight(st, o, index, hs), Tall(st, o) <= end
    PROVE  /\ Below(Top(st, o), x) /\ HeightOf[Top(st, o)] <= end
           /\ index * ChunkSize <= HeightOf[Top(st, o)] + 1
           /\ File(st, o) = << >> => index = 0
<1> DEFINE start == index * ChunkSize
           t == Top(st, o)
           h == HeightOf[t]
<1>0. /\ t \in Blocks /\ h \in Nat /\ BlockAt[t][h] = t /\ start \in Nat
      /\ x \in Blocks /\ HeightOf[x] \in Nat /\ end \in start .. HeightOf[x]
      /\ hs \in Seq(Blocks) /\ Len(hs) = end - start + 1
  BY ObjectIs, Heights, ChainsAreGrown DEF IsChunk
<1>1. h <= end
  <2>1. Tall(st, o) = h \/ h = 0
    BY ObjectIs, Heights
  <2> QED
    BY <1>0, <2>1
<1>2. \A i \in 1 .. Len(hs) : hs[i] = BlockAt[x][start + i - 1] /\ HashAt(st, o, start + i - 1) \in {None, hs[i]}
  BY DEF IsChunk, ChunkIsRight
<1>3. start = 0 \/ HashAt(st, o, start - 1) = PrevBlock[hs[1]]
  <2>1. 1 \in 1 .. Len(hs)
    BY <1>0
  <2> QED
    BY <2>1 DEF ChunkIsRight
<1> HIDE DEF start, h
<1>4. start <= h + 1 /\ BlockAt[x][h] = t
  <2>1. CASE start <= h
    <3> DEFINE i == h - start + 1
    <3>1. i \in 1 .. Len(hs) /\ start + i - 1 = h
      BY <1>0, <1>1, <2>1
    <3>2. HashAt(st, o, h) = t
      BY <1>0, HashIs DEF h
    <3>3. hs[i] = BlockAt[x][h] /\ HashAt(st, o, h) \in {None, hs[i]}
      BY <1>2, <3>1
    <3>4. t # None
      BY <1>0, SpecialValues
    <3> QED
      BY <1>0, <2>1, <3>2, <3>3, <3>4
  <2>2. CASE start > h
    <3>1. start - 1 \in Nat /\ start \in 1 .. HeightOf[x] /\ start # 0
      BY <1>0, <2>2
    <3>2. hs[1] = BlockAt[x][start]
      <4>1. 1 \in 1 .. Len(hs) /\ start + 1 - 1 = start
        BY <1>0
      <4> QED
        BY <1>2, <4>1
    <3>3. PrevBlock[hs[1]] = BlockAt[x][start - 1] /\ BlockAt[x][start - 1] \in Blocks
      <4>1. start - 1 \in 0 .. HeightOf[x]
        BY <1>0, <3>1
      <4> QED
        BY <1>0, <3>1, <3>2, <4>1, BeforeInChain, InChain
    <3>4. HashAt(st, o, start - 1) = BlockAt[x][start - 1] /\ HashAt(st, o, start - 1) # None
      BY <1>3, <3>1, <3>3, SpecialValues
    <3>5. start - 1 <= h /\ BlockAt[t][start - 1] = BlockAt[x][start - 1]
      BY <3>1, <3>4, HashIs DEF h
    <3>6. start - 1 = h
      BY <1>0, <2>2, <3>1, <3>5
    <3> QED
      BY <1>0, <3>5, <3>6
  <2> QED
    BY <1>0, <2>1, <2>2
<1>5. Below(t, x)
  BY <1>0, <1>1, <1>4 DEF Below, h
<1>6. ASSUME File(st, o) = << >>
      PROVE  index = 0
  <2>1. h = 0
    BY <1>6, Heights DEF Top, h
  <2>2. index * ChunkSize <= 1
    BY <1>4, <2>1 DEF start
  <2>3. ChunkSize \in Nat /\ ChunkSize >= 2
    BY ChunksHaveHeaders
  <2>4. index # 0 => index * ChunkSize >= ChunkSize
    BY <2>3
  <2> QED
    BY <2>2, <2>3, <2>4
<1> QED
  BY <1>1, <1>4, <1>5, <1>6 DEF start, h

LEMMA ChunkGrows ==
    ASSUME NEW st, Sound(st), NEW o \in Objs(st), NEW index \in Nat, NEW hs, NEW x, NEW end,
           IsChunk(hs, x, index * ChunkSize, end), ChunkIsRight(st, o, index, hs), Tall(st, o) <= end
    PROVE  /\ Below(Top(st, o), BlockAt[x][end]) /\ BlockAt[x][end] \in Blocks /\ HeightOf[BlockAt[x][end]] = end
           /\ Grows(st, ChunkWritten(st, o, index, hs), o, BlockAt[x][end])
<1> DEFINE start == index * ChunkSize
           t == Top(st, o)
           y == BlockAt[x][end]
           k == st.chain[o].forkpoint
           F == File(st, o)
           delta == start - k
           chunk == IF delta < 0 THEN SubSeq(hs, 1 - delta, Len(hs)) ELSE hs
           keep == IF delta < 0 THEN 0 ELSE delta
           f == SubSeq(F, 1, keep) \o chunk
           P == Path(st, o)
<1>0. /\ t \in Blocks /\ HeightOf[t] \in Nat /\ start \in Nat /\ k \in 0 .. HeightOf[t] /\ F \in Seq(Blocks)
      /\ x \in Blocks /\ HeightOf[x] \in Nat /\ end \in start .. HeightOf[x] /\ end \in 0 .. HeightOf[x]
      /\ hs \in Seq(Blocks) /\ Len(hs) = end - start + 1
      /\ \A i \in 1 .. Len(hs) : hs[i] = BlockAt[x][start + i - 1]
  BY ObjectIs, Heights DEF IsChunk
<1>1. Below(t, x) /\ HeightOf[t] <= end /\ start <= HeightOf[t] + 1 /\ (F = << >> => index = 0)
  BY RightChunk
<1>2. F = << >> => start = 0 /\ k = 0
  <2>1. F = << >> => HeightOf[t] = 0
    BY Heights DEF Top
  <2>2. index = 0 => start = 0
    BY ChunksHaveHeaders
  <2> HIDE DEF start, k, t, F
  <2> QED
    BY <1>0, <1>1, <2>1, <2>2
<1>3. Below(y, x) /\ y \in Blocks /\ HeightOf[y] = end
  BY <1>0, BelowAt
<1>4. Below(t, y)
  BY <1>0, <1>1, <1>3, BelowBoth
<1>5. F # << >> => F = Branch(k, t)
  BY ObjectIs
<1>6. ChunkWritten(st, o, index, hs) = [st EXCEPT !.file[P] = f]
  BY DEF ChunkWritten, File
<1> HIDE DEF start, t, y, k, F
<1>7. F # << >> => Len(F) = HeightOf[t] - k + 1 /\ \A i \in 1 .. Len(F) : F[i] = BlockAt[t][k + i - 1]
  <2>1. k \in 0 .. HeightOf[t] /\ t \in Blocks BY <1>0
  <2>2. Len(Branch(k, t)) = HeightOf[t] - k + 1 /\ \A i \in 1 .. HeightOf[t] - k + 1 : Branch(k, t)[i] = BlockAt[t][k + i - 1]
    BY <2>1, BranchIs
  <2> QED BY <1>5, <2>2
<1>8. \A m \in 0 .. HeightOf[t] : BlockAt[t][m] = BlockAt[y][m]
  BY <1>0, <1>3, <1>4, BelowAgree
<1>9. \A m \in 0 .. end : BlockAt[x][m] = BlockAt[y][m]
  BY <1>0, <1>3, BelowAgree
<1>10. f \in Seq(Blocks) /\ Len(f) = end - k + 1 /\ \A i \in 1 .. Len(f) : f[i] = BlockAt[y][k + i - 1]
  <2>1. CASE delta < 0
    <3>1. chunk = SubSeq(hs, 1 - delta, Len(hs)) /\ keep = 0
      BY <2>1
    <3>2. 1 - delta \in 1 .. Len(hs) /\ delta \in Int
      BY <1>0, <1>1, <2>1
    <3>3. /\ chunk \in Seq(Blocks) /\ Len(chunk) = Len(hs) - (1 - delta) + 1
          /\ \A i \in 1 .. Len(chunk) : chunk[i] = hs[(1 - delta) + i - 1]
      <4> DEFINE m == 1 - delta
                 c == SubSeq(hs, m, Len(hs))
      <4>1. m \in 1 .. Len(hs) /\ hs \in Seq(Blocks) /\ chunk = c BY <1>0, <3>1, <3>2
      <4> HIDE DEF m, chunk
      <4>2. c \in Seq(Blocks) /\ Len(c) = Len(hs) - m + 1 /\ \A i \in 1 .. Len(c) : c[i] = hs[m + i - 1]
        BY <4>1
      <4> QED BY <4>1, <4>2 DEF m
    <3>4. SubSeq(F, 1, keep) = << >>
      BY <1>0, <3>1
    <3>5. f = chunk
      <4> HIDE DEF chunk, keep
      <4>1. f = << >> \o chunk /\ chunk \in Seq(Blocks) BY <3>3, <3>4
      <4> HIDE DEF f
      <4> QED BY <4>1
    <3>6. Len(chunk) = end - k + 1
      BY <1>0, <3>3
    <3>7. ASSUME NEW i \in 1 .. Len(chunk)
          PROVE  chunk[i] = BlockAt[y][k + i - 1]
      <4> DEFINE j == (1 - delta) + i - 1
      <4>1. j \in 1 .. Len(hs) /\ start + j - 1 = k + i - 1 /\ k + i - 1 \in 0 .. end
        BY <1>0, <2>1, <3>2, <3>6
      <4>2. chunk[i] = hs[j]
        BY <3>3
      <4> HIDE DEF j, chunk, delta
      <4>3. hs[j] = BlockAt[x][start + j - 1]
        BY <1>0, <4>1
      <4> QED
        BY <1>9, <4>1, <4>2, <4>3
    <3> HIDE DEF f, chunk, keep
    <3> QED
      BY <3>3, <3>5, <3>6, <3>7
  <2>2. CASE ~ (delta < 0)
    <3>1. chunk = hs /\ keep = delta /\ delta \in Nat
      BY <1>0, <2>2
    <3>2. keep <= Len(F)
      BY <1>0, <1>1, <1>2, <1>7, <3>1
    <3> DEFINE low == SubSeq(F, 1, keep)
    <3>3. low \in Seq(Blocks) /\ Len(low) = keep /\ \A i \in 1 .. keep : low[i] = F[i]
      <4> HIDE DEF keep
      <4> QED
        BY <1>0, <3>1, <3>2
    <3>4. f = low \o hs
      BY <3>1
    <3> HIDE DEF low, f, chunk, keep
    <3>5. /\ f \in Seq(Blocks) /\ Len(f) = keep + Len(hs)
          /\ \A i \in 1 .. keep : f[i] = low[i]
          /\ \A i \in 1 .. Len(hs) : f[keep + i] = hs[i]
      <4>1. low \in Seq(Blocks) /\ hs \in Seq(Blocks) /\ Len(low) = keep /\ f = low \o hs BY <1>0, <3>3, <3>4
      <4> QED BY <4>1
    <3>6. Len(f) = end - k + 1
      BY <1>0, <3>1, <3>5
    <3>7. ASSUME NEW i \in 1 .. Len(f)
          PROVE  f[i] = BlockAt[y][k + i - 1]
      <4>1. CASE i <= keep
        <5>1. i \in 1 .. Len(F) /\ i \in 1 .. keep
          BY <1>0, <3>1, <3>2, <4>1
        <5>2. F # << >>
          BY <5>1
        <5>3. f[i] = BlockAt[t][k + i - 1]
          BY <1>7, <3>3, <3>5, <5>1, <5>2
        <5>4. k + i - 1 \in 0 .. HeightOf[t]
          BY <1>0, <1>7, <5>1, <5>2
        <5> QED
          BY <1>8, <5>3, <5>4
      <4>2. CASE i > keep
        <5> DEFINE j == i - keep
        <5>1. j \in 1 .. Len(hs) /\ keep + j = i /\ start + j - 1 = k + i - 1 /\ k + i - 1 \in 0 .. end
          BY <1>0, <3>1, <3>5, <3>6, <4>2
        <5> HIDE DEF j
        <5>2. f[i] = hs[j]
          BY <3>5, <5>1
        <5>3. hs[j] = BlockAt[x][start + j - 1]
          BY <1>0, <5>1
        <5> QED
          BY <1>9, <5>1, <5>2, <5>3
      <4> QED
        BY <3>1, <4>1, <4>2
    <3> QED
      BY <3>5, <3>6, <3>7
  <2> QED
    BY <2>1, <2>2
<1> HIDE DEF f
<1>11. k \in 0 .. HeightOf[y]
  BY <1>0, <1>1, <1>3
<1>12. f = Branch(k, y)
  BY <1>3, <1>10, <1>11, BranchFrom
<1>13. f = Branch(st.chain[o].forkpoint, y)
  BY <1>12 DEF k
<1>14. Below(Top(st, o), y)
  BY <1>4 DEF t
<1>15. Grows(st, ChunkWritten(st, o, index, hs), o, y)
  BY <1>3, <1>6, <1>13, <1>14, GrownWrite
<1> QED
  BY <1>3, <1>14, <1>15 DEF y

-----------------------------------------------------------------------------
(*                      An object and its parent swap                      *)

LEMMA WorkIs ==
    ASSUME NEW st, Sound(st), NEW o \in Objs(st)
    PROVE  Work(st, o) = HeightOf[Top(st, o)] /\ Work(st, o) \in Nat
<1>1. Top(st, o) \in Blocks /\ HeightOf[Top(st, o)] \in Nat
  BY ObjectIs, Heights
<1>2. Tall(st, o) = HeightOf[Top(st, o)] \/ (Tall(st, o) = -1 /\ HeightOf[Top(st, o)] = 0)
  BY ObjectIs, Heights
<1> QED
  BY <1>1, <1>2 DEF Work

(* A branch from a height on, cut at a higher one or put on another's. *)
LEMMA BranchCut ==
    ASSUME NEW q \in Blocks, NEW low \in Nat, NEW k \in Nat, low < k, k <= HeightOf[q]
    PROVE  SubSeq(Branch(low, q), k - low + 1, Len(Branch(low, q))) = Branch(k, q)
<1>1. PICK h \in Nat : h = HeightOf[q]
  BY Heights
<1>2. PICK n \in Nat : n = k - low + 1 /\ n \in 1 .. h - low + 1
  BY <1>1
<1>3. PICK G \in Seq(Blocks) : G = Branch(low, q) /\ Len(G) = h - low + 1 /\ \A i \in 1 .. Len(G) : G[i] = BlockAt[q][low + i - 1]
  <2>1. low \in 0 .. HeightOf[q]
    BY <1>1
  <2> QED
    BY <1>1, <2>1, BranchIs
<1> DEFINE f == SubSeq(G, n, Len(G))
<1>4. f \in Seq(Blocks) /\ Len(f) = Len(G) - n + 1 /\ \A i \in 1 .. Len(f) : f[i] = G[n + i - 1]
  <2>1. n \in 1 .. Len(G)
    BY <1>2, <1>3
  <2> QED
    BY <2>1
<1> HIDE DEF f
<1>5. Len(f) = h - k + 1
  BY <1>2, <1>3, <1>4
<1>6. ASSUME NEW i \in 1 .. Len(f)
      PROVE  f[i] = BlockAt[q][k + i - 1]
  <2>1. PICK j \in Int : j = n + i - 1
    OBVIOUS
  <2>2. i \in 1 .. h - k + 1
    BY <1>5
  <2>3. j \in 1 .. h - low + 1 /\ low + j - 1 = k + i - 1
    BY <1>1, <1>2, <2>1, <2>2
  <2>4. f[i] = G[j]
    BY <1>4, <2>1
  <2>5. G[j] = BlockAt[q][low + j - 1]
    BY <1>3, <2>3
  <2> QED
    BY <2>3, <2>4, <2>5
<1>7. k \in 0 .. HeightOf[q]
  BY <1>1
<1>8. Len(f) = HeightOf[q] - k + 1
  BY <1>1, <1>5
<1>9. f = Branch(k, q)
  BY <1>4, <1>6, <1>7, <1>8, BranchFrom
<1> QED
  BY <1>2, <1>3, <1>9 DEF f

LEMMA BranchJoined ==
    ASSUME NEW q \in Blocks, NEW t \in Blocks, NEW low \in Nat, NEW k \in Nat, low < k,
           k <= HeightOf[q], k <= HeightOf[t], \A m \in 0 .. k - 1 : BlockAt[t][m] = BlockAt[q][m]
    PROVE  SubSeq(Branch(low, q), 1, k - low) \o Branch(k, t) = Branch(low, t)
<1>1. PICK h \in Nat : h = HeightOf[q]
  BY Heights
<1>2. PICK e \in Nat : e = HeightOf[t]
  BY Heights
<1>3. PICK n \in Nat : n = k - low
  OBVIOUS
<1>4. PICK G \in Seq(Blocks) : G = Branch(low, q) /\ Len(G) = h - low + 1 /\ \A i \in 1 .. Len(G) : G[i] = BlockAt[q][low + i - 1]
  <2>1. low \in 0 .. HeightOf[q]
    BY <1>1
  <2> QED
    BY <1>1, <2>1, BranchIs
<1>5. PICK F \in Seq(Blocks) : F = Branch(k, t) /\ Len(F) = e - k + 1 /\ \A i \in 1 .. Len(F) : F[i] = BlockAt[t][k + i - 1]
  <2>1. k \in 0 .. HeightOf[t]
    BY <1>2
  <2> QED
    BY <1>2, <2>1, BranchIs
<1> DEFINE g == SubSeq(G, 1, n)
           f == g \o F
<1>6. g \in Seq(Blocks) /\ Len(g) = n /\ \A i \in 1 .. n : g[i] = G[i]
  <2>1. n \in 1 .. Len(G)
    BY <1>1, <1>3, <1>4
  <2> QED
    BY <2>1
<1> HIDE DEF g
<1>7. /\ f \in Seq(Blocks) /\ Len(f) = n + Len(F)
      /\ \A i \in 1 .. n : f[i] = g[i]
      /\ \A i \in 1 .. Len(F) : f[n + i] = F[i]
  <2>1. F \in Seq(Blocks)
    BY <1>5
  <2>2. f \in Seq(Blocks)
    BY <1>6, <2>1
  <2>3. Len(f) = n + Len(F)
    BY <1>6, <2>1
  <2>4. \A i \in 1 .. n : f[i] = g[i]
    <3> SUFFICES ASSUME NEW i \in 1 .. n PROVE f[i] = g[i]
      OBVIOUS
    <3>1. i \in 1 .. Len(g)
      BY <1>6
    <3> QED
      BY <1>6, <2>1, <3>1
  <2>5. \A i \in 1 .. Len(F) : f[n + i] = F[i]
    BY <1>6, <2>1
  <2> QED
    BY <2>2, <2>3, <2>4, <2>5
<1> HIDE DEF f
<1>8. Len(f) = e - low + 1
  BY <1>3, <1>5, <1>7
<1>9. ASSUME NEW i \in 1 .. Len(f)
      PROVE  f[i] = BlockAt[t][low + i - 1]
  <2>1. CASE i <= n
    <3>1. i \in 1 .. n /\ i \in 1 .. h - low + 1 /\ low + i - 1 \in 0 .. k - 1
      BY <1>1, <1>3, <2>1
    <3>2. f[i] = BlockAt[q][low + i - 1]
      BY <1>4, <1>6, <1>7, <3>1
    <3>3. BlockAt[t][low + i - 1] = BlockAt[q][low + i - 1]
      BY <3>1
    <3> QED
      BY <3>2, <3>3
  <2>2. CASE i > n
    <3>1. PICK j \in Int : j = i - n
      OBVIOUS
    <3>2. i \in 1 .. e - low + 1
      BY <1>8
    <3>a. n + j = i
      BY <1>3, <3>1
    <3>b. k + j - 1 = low + i - 1
      BY <1>3, <3>1
    <3>c. j \in 1 .. e - k + 1
      BY <1>2, <1>3, <2>2, <3>1, <3>2
    <3>3. j \in 1 .. e - k + 1 /\ n + j = i /\ k + j - 1 = low + i - 1
      BY <3>a, <3>b, <3>c
    <3>4. f[n + j] = F[j] /\ F[j] = BlockAt[t][k + j - 1]
      BY <1>5, <1>7, <3>3
    <3> QED
      BY <3>3, <3>4
  <2> QED
    BY <2>1, <2>2
<1>10. low \in 0 .. HeightOf[t]
  BY <1>2
<1>a. Len(f) = HeightOf[t] - low + 1
  BY <1>2, <1>8
<1>11. f = Branch(low, t)
  BY <1>7, <1>9, <1>10, <1>a, BranchFrom
<1> QED
  BY <1>3, <1>4, <1>5, <1>11 DEF f, g

ChildBranch(st, o) ==
    LET p == st.chain[o].parent
    IN  SubSeq(File(st, p), 1, st.chain[o].forkpoint - st.chain[p].forkpoint) \o File(st, o)

(* What a swap moves: the parent's headers from the forkpoint on, and the     *)
(* object's with those of the parent below.                                   *)
LEMMA SwapMoves ==
    ASSUME NEW st, Sound(st), NEW o \in Objs(st), CanSwap(st, o),
           NEW p, p = st.chain[o].parent, NEW k, k = st.chain[o].forkpoint,
           NEW low, low = st.chain[p].forkpoint
    PROVE  /\ p \in Objs(st) /\ p # o /\ st.chain[p].parent # o
           /\ k \in Nat /\ low \in Nat /\ low < k
           /\ k <= HeightOf[Top(st, p)] /\ HeightOf[Top(st, p)] < HeightOf[Top(st, o)]
           /\ \A m \in 0 .. k - 1 : BlockAt[Top(st, o)][m] = BlockAt[Top(st, p)][m]
           /\ ParentBranch(st, o) = Branch(k, Top(st, p))
           /\ ChildBranch(st, o) = Branch(low, Top(st, o))
<1> DEFINE t == Top(st, o)
           q == Top(st, p)
           F == File(st, o)
           G == File(st, p)
<1>1. p # 0 /\ Work(st, p) < Work(st, o) /\ k > low
  BY DEF CanSwap, Stronger, ForksAbove
<1>2. p \in Objs(st) /\ k \in 1 .. HeightOf[t] /\ k <= HeightOf[q]
  BY <1>1, ObjectIs DEF IsBranch
<1>3. /\ t \in Blocks /\ q \in Blocks /\ HeightOf[t] \in Nat /\ HeightOf[q] \in Nat
      /\ F \in Seq(Blocks) /\ G \in Seq(Blocks)
  BY <1>2, ObjectIs, Heights
<1>4. low \in 0 .. HeightOf[q] /\ HeightOf[q] < HeightOf[t]
  BY <1>1, <1>2, ObjectIs, WorkIs
<1>5. p # o
  BY <1>3, <1>4
<1>6. F = Branch(k, t) /\ G = Branch(low, q)
  <2>1. F # << >> /\ G # << >>
    <3>1. Len(st.chain) # 1
      BY <1>2, <1>5, TwoObjects
    <3> QED
      BY <1>2, <3>1, ObjectIs
  <2> QED
    BY <1>2, <2>1, ObjectIs
<1>7. \A m \in 0 .. k - 1 : BlockAt[t][m] = BlockAt[q][m]
  BY <1>1, SharesWithParent DEF Shares
<1>8. st.chain[p].parent # o
  <2>1. PICK r \in [Objs(st) -> Nat] : Ranked(st, r)
    BY DEF Sound
  <2>a. \A c \in Objs(st) : st.chain[c].parent # 0 => r[st.chain[c].parent] < r[c]
    BY <2>1 DEF Ranked
  <2>b. o # 0
    BY DEF Objs
  <2>2. r[p] < r[o]
    BY <1>1, <2>a
  <2>3. st.chain[p].parent = o => r[o] < r[p]
    BY <1>2, <2>a, <2>b
  <2>4. r[o] \in Nat /\ r[p] \in Nat
    BY <1>2, <2>1
  <2> QED
    BY <2>2, <2>3, <2>4
<1>a. ParentBranch(st, o) = SubSeq(G, k - low + 1, Len(G))
  BY DEF ParentBranch
<1>b. ChildBranch(st, o) = SubSeq(G, 1, k - low) \o F
  BY DEF ChildBranch
<1> HIDE DEF t, q, F, G
<1>n. k \in Nat /\ low \in Nat /\ low < k /\ k <= HeightOf[t] /\ k <= HeightOf[q]
  BY <1>1, <1>2, <1>3, <1>4
<1>m. q \in Blocks /\ t \in Blocks
  BY <1>3
<1>11. SubSeq(G, k - low + 1, Len(G)) = Branch(k, q)
  <2>1. SubSeq(Branch(low, q), k - low + 1, Len(Branch(low, q))) = Branch(k, q)
    BY <1>m, <1>n, BranchCut
  <2> QED
    BY <1>6, <2>1
<1>12. SubSeq(G, 1, k - low) \o F = Branch(low, t)
  <2>1. SubSeq(Branch(low, q), 1, k - low) \o Branch(k, t) = Branch(low, t)
    BY <1>m, <1>7, <1>n, BranchJoined
  <2> QED
    BY <1>6, <2>1
<1> QED
  <2>1. p \in Objs(st) /\ p # o /\ st.chain[p].parent # o BY <1>2, <1>5, <1>8
  <2>2. k \in Nat /\ low \in Nat /\ low < k BY <1>n
  <2>3. k <= HeightOf[Top(st, p)] /\ HeightOf[Top(st, p)] < HeightOf[Top(st, o)] BY <1>2, <1>4 DEF t, q
  <2>4. \A m \in 0 .. k - 1 : BlockAt[Top(st, o)][m] = BlockAt[Top(st, p)][m] BY <1>7 DEF t, q
  <2>5. ParentBranch(st, o) = Branch(k, Top(st, p)) BY <1>11, <1>a DEF q
  <2>6. ChildBranch(st, o) = Branch(low, Top(st, o)) BY <1>12, <1>b DEF t
  <2> QED BY <2>1, <2>2, <2>3, <2>4, <2>5, <2>6

(* A value that leaves the dict takes its place with it. *)
LEMMA PoppedIs ==
    ASSUME NEW q \in Seq(Nat), \A i, j \in DOMAIN q : q[i] = q[j] => i = j, NEW o
    PROVE  /\ Popped(q, o) \in Seq(Nat)
           /\ \A i, j \in DOMAIN Popped(q, o) : Popped(q, o)[i] = Popped(q, o)[j] => i = j
           /\ Range(Popped(q, o)) = Range(q) \ {o}
<1>1. CASE ~ \E i \in DOMAIN q : q[i] = o
  <2>1. Popped(q, o) = q
    BY <1>1 DEF Popped
  <2> QED
    BY <1>1, <2>1 DEF Range
<1>2. CASE \E i \in DOMAIN q : q[i] = o
  <2> DEFINE n == CHOOSE i \in DOMAIN q : q[i] = o
             f == Popped(q, o)
  <2>1. n \in DOMAIN q /\ q[n] = o
    BY <1>2
  <2>2. f = SubSeq(q, 1, n - 1) \o SubSeq(q, n + 1, Len(q))
    BY <1>2 DEF Popped, RemoveAt
  <2> HIDE DEF n, f
  <2>3. n \in 1 .. Len(q) /\ Len(q) \in Nat
    BY <2>1
  <2> DEFINE a == SubSeq(q, 1, n - 1)
             b == SubSeq(q, n + 1, Len(q))
  <2>4. a \in Seq(Nat) /\ Len(a) = n - 1 /\ \A i \in 1 .. n - 1 : a[i] = q[i]
    BY <2>3
  <2>5. b \in Seq(Nat) /\ Len(b) = Len(q) - n /\ \A i \in 1 .. Len(q) - n : b[i] = q[n + i]
    BY <2>3
  <2> HIDE DEF a, b
  <2>6. f = a \o b
    BY <2>2 DEF a, b
  <2>7. /\ f \in Seq(Nat) /\ Len(f) = Len(q) - 1
        /\ \A i \in 1 .. n - 1 : f[i] = q[i]
        /\ \A i \in n .. Len(q) - 1 : f[i] = q[i + 1]
    <3>0. f = a \o b /\ a \in Seq(Nat) /\ b \in Seq(Nat) BY <2>4, <2>5, <2>6
    <3>l. f \in Seq(Nat) /\ Len(f) = Len(a) + Len(b) BY <3>0
    <3>1. f \in Seq(Nat) /\ Len(f) = Len(q) - 1
      BY <2>3, <2>4, <2>5, <3>l
    <3>2. \A i \in 1 .. n - 1 : f[i] = q[i]
      BY <2>3, <2>4, <2>5, <2>6
    <3>3. ASSUME NEW i \in n .. Len(q) - 1
          PROVE  f[i] = q[i + 1]
      <4>2. i - (n - 1) \in 1 .. Len(q) - n /\ n + (i - (n - 1)) = i + 1
        BY <2>3
      <4>1. f[i] = b[i - (n - 1)]
        <5> DEFINE j == i - (n - 1)
        <5>1. j \in 1 .. Len(b) /\ i = Len(a) + j BY <2>3, <2>4, <2>5, <4>2
        <5> HIDE DEF j
        <5>2. f[Len(a) + j] = b[j] BY <3>0, <5>1
        <5> QED BY <5>1, <5>2 DEF j
      <4> QED
        BY <2>5, <4>1, <4>2
    <3> QED
      BY <3>1, <3>2, <3>3
  <2> DEFINE old(i) == IF i < n THEN i ELSE i + 1
  <2>8. DOMAIN f = 1 .. Len(q) - 1 /\ DOMAIN q = 1 .. Len(q)
    BY <2>7
  <2>9. \A i \in DOMAIN f : old(i) \in DOMAIN q /\ old(i) # n /\ f[i] = q[old(i)]
    <3> SUFFICES ASSUME NEW i \in DOMAIN f PROVE old(i) \in DOMAIN q /\ old(i) # n /\ f[i] = q[old(i)]
      OBVIOUS
    <3>1. i \in 1 .. Len(q) - 1 BY <2>8
    <3>2. CASE i < n
      <4>1. i \in 1 .. n - 1 /\ old(i) = i BY <2>3, <3>1, <3>2
      <4>2. f[i] = q[i] BY <2>7, <4>1
      <4> QED BY <2>3, <2>8, <4>1, <4>2
    <3>3. CASE ~ (i < n)
      <4>1. i \in n .. Len(q) - 1 /\ old(i) = i + 1 BY <2>3, <3>1, <3>3
      <4>2. f[i] = q[i + 1] BY <2>7, <4>1
      <4> QED BY <2>3, <2>8, <4>1, <4>2
    <3> QED BY <3>2, <3>3
  <2>10. \A i, j \in DOMAIN f : old(i) = old(j) => i = j
    BY <2>3, <2>8
  <2>11. \A m \in DOMAIN q : m # n => \E i \in DOMAIN f : old(i) = m
    <3> SUFFICES ASSUME NEW m \in DOMAIN q, m # n
                 PROVE  \E i \in DOMAIN f : old(i) = m
      OBVIOUS
    <3>1. CASE m < n
      <4>1. m \in DOMAIN f /\ old(m) = m
        BY <2>3, <2>8, <3>1
      <4> QED
        BY <4>1
    <3>2. CASE m > n
      <4>1. m - 1 \in DOMAIN f /\ old(m - 1) = m
        BY <2>3, <2>8, <3>2
      <4> QED
        BY <4>1
    <3> QED
      BY <2>3, <2>8, <3>1, <3>2
  <2> HIDE DEF old
  <2>12. \A i, j \in DOMAIN f : f[i] = f[j] => i = j
    BY <2>9, <2>10
  <2>13. Range(f) = Range(q) \ {o}
    <3>1. \A x \in Range(f) : x \in Range(q) /\ x # o
      BY <2>1, <2>9 DEF Range
    <3>2. \A x \in Range(q) : x # o => x \in Range(f)
      BY <2>1, <2>9, <2>11 DEF Range
    <3> QED
      BY <3>1, <3>2 DEF Range
  <2> QED
    BY <2>7, <2>12, <2>13 DEF f
<1> QED
  BY <1>1, <1>2

(* A swap in which the objects of M go over from the parent. *)
Swapped(st, g, o, M) ==
    LET p == st.chain[o].parent IN
    /\ g \in States /\ Len(g.chain) = Len(st.chain)
    /\ \A c \in Objs(st) : g.chain[c].parent = IF c = o THEN st.chain[p].parent
                                               ELSE IF c = p \/ c \in M THEN o ELSE st.chain[c].parent
    /\ \A c \in Objs(st) : g.chain[c].forkpoint = IF c = o THEN st.chain[p].forkpoint
                                                  ELSE IF c = p THEN st.chain[o].forkpoint
                                                  ELSE st.chain[c].forkpoint
    /\ \A c \in Objs(st) : g.chain[c].prev = IF c = o THEN st.chain[p].prev
                                             ELSE IF c = p THEN st.chain[o].prev ELSE st.chain[c].prev
    /\ \A c \in Objs(st) : g.chain[c].first = IF c = o THEN st.chain[p].first
                                              ELSE IF c = p THEN BlockAt[Top(st, p)][st.chain[o].forkpoint]
                                              ELSE st.chain[c].first
    /\ File(g, o) = Branch(st.chain[p].forkpoint, Top(st, o))
    /\ File(g, p) = Branch(st.chain[o].forkpoint, Top(st, p))
    /\ \A c \in Objs(st) \ {o, p} : File(g, c) = File(st, c)

MayMove(st, o, M) ==
    /\ M \subseteq Objs(st)
    /\ \A c \in M : /\ c # o /\ st.chain[c].parent = st.chain[o].parent
                    /\ BlockAt[Top(st, o)][st.chain[c].forkpoint - 1] = st.chain[c].prev

LEMMA SwappedTops ==
    ASSUME NEW st, Sound(st), NEW o \in Objs(st), CanSwap(st, o), NEW M, NEW g, Swapped(st, g, o, M)
    PROVE  \A c \in Objs(st) : Top(g, c) = Top(st, c)
<1> DEFINE p == st.chain[o].parent
           k == st.chain[o].forkpoint
           low == st.chain[p].forkpoint
<1>1. /\ p \in Objs(st) /\ p # o /\ k \in Nat /\ low \in Nat /\ low < k
      /\ k <= HeightOf[Top(st, p)] /\ HeightOf[Top(st, p)] < HeightOf[Top(st, o)]
  BY SwapMoves
<1>2. Top(st, o) \in Blocks /\ Top(st, p) \in Blocks
  BY <1>1, ObjectIs
<1>3. HeightOf[Top(st, o)] \in Nat /\ HeightOf[Top(st, p)] \in Nat
  BY <1>2, Heights
<1>4. low \in 0 .. HeightOf[Top(st, o)] /\ k \in 0 .. HeightOf[Top(st, p)]
  BY <1>1, <1>3
<1>5. File(g, o) = Branch(low, Top(st, o)) /\ File(g, p) = Branch(k, Top(st, p))
      /\ \A c \in Objs(st) \ {o, p} : File(g, c) = File(st, c)
  BY DEF Swapped
<1> HIDE DEF p, k, low
<1>6. Top(g, o) = Top(st, o)
  BY <1>2, <1>4, <1>5, BranchIs DEF Top
<1>7. Top(g, p) = Top(st, p)
  BY <1>2, <1>4, <1>5, BranchIs DEF Top
<1>8. \A c \in Objs(st) \ {o, p} : Top(g, c) = Top(st, c)
  BY <1>5 DEF Top
<1> QED
  BY <1>6, <1>7, <1>8

LEMMA SwappedSound ==
    ASSUME NEW st, Sound(st), NEW o \in Objs(st), CanSwap(st, o), NEW M, MayMove(st, o, M),
           NEW g, Swapped(st, g, o, M)
    PROVE  Sound(g)
<1> DEFINE p == st.chain[o].parent
           k == st.chain[o].forkpoint
           low == st.chain[p].forkpoint
           t == Top(st, o)
           q == Top(st, p)
           pp == st.chain[p].parent
<1>1. /\ p \in Objs(st) /\ p # o /\ pp # o /\ k \in Nat /\ low \in Nat /\ low < k
      /\ k <= HeightOf[q] /\ HeightOf[q] < HeightOf[t]
      /\ \A m \in 0 .. k - 1 : BlockAt[t][m] = BlockAt[q][m]
  BY SwapMoves
<1>2. Objs(g) = Objs(st) /\ \A c \in Objs(st) : Top(g, c) = Top(st, c) /\ Top(st, c) \in Blocks /\ HeightOf[Top(st, c)] \in Nat
  <2>1. Len(g.chain) = Len(st.chain)
    BY DEF Swapped
  <2>2. \A c \in Objs(st) : Top(g, c) = Top(st, c)
    BY SwappedTops
  <2>3. \A c \in Objs(st) : Top(st, c) \in Blocks /\ HeightOf[Top(st, c)] \in Nat
    BY TopIs
  <2> QED
    BY <2>1, <2>2, <2>3, SameObjs
<1>3. p # 0 /\ o # 0 /\ k \in 1 .. HeightOf[t] /\ File(st, o) = Branch(k, t) /\ st.chain[o].first = BlockAt[t][k]
      /\ st.chain[o].prev = BlockAt[t][k - 1]
  <2>1. p # 0 /\ o # 0
    BY <1>1 DEF Objs
  <2> QED
    BY <2>1, RootOrBranch DEF IsBranch
<1>4. t \in Blocks /\ q \in Blocks /\ HeightOf[t] \in Nat /\ HeightOf[q] \in Nat
  BY <1>1, <1>2
<1>5. File(st, p) = Branch(low, q) /\ low \in 0 .. HeightOf[q]
  <2>1. Len(st.chain) # 1
    BY <1>1, TwoObjects
  <2>2. low \in 0 .. HeightOf[q]
    BY <1>1, ObjectIs
  <2>3. File(st, p) = Branch(low, q)
    BY <1>1, <2>1, ObjectIs
  <2> QED
    BY <2>2, <2>3
<1>6. File(g, o) = Branch(low, t) /\ File(g, p) = Branch(k, q) /\ \A c \in Objs(st) \ {o, p} : File(g, c) = File(st, c)
  BY DEF Swapped
<1>7. /\ g.chain[o].parent = pp /\ g.chain[o].forkpoint = low /\ g.chain[o].prev = st.chain[p].prev
      /\ g.chain[o].first = st.chain[p].first
      /\ g.chain[p].parent = o /\ g.chain[p].forkpoint = k /\ g.chain[p].prev = st.chain[o].prev
      /\ g.chain[p].first = BlockAt[q][k]
  BY <1>1 DEF Swapped
<1>8. ASSUME NEW c \in Objs(st) \ {o, p}
      PROVE  /\ g.chain[c].forkpoint = st.chain[c].forkpoint /\ g.chain[c].prev = st.chain[c].prev
             /\ g.chain[c].first = st.chain[c].first
             /\ g.chain[c].parent = IF c \in M THEN o ELSE st.chain[c].parent
  BY DEF Swapped
<1>9. \A c \in M : st.chain[c].parent = p
  BY DEF MayMove
<1>10. IsRoot(g, o) \/ IsBranch(g, o)
  <2>1. CASE pp = 0
    <3>1. low = 0 /\ st.chain[p].first = Genesis
      BY <1>1, <2>1, RootOrBranch DEF IsRoot
    <3> QED
      BY <1>2, <1>4, <1>6, <1>7, <2>1, <3>1 DEF IsRoot
  <2>2. CASE pp # 0
    <3>1. /\ pp \in Objs(st) /\ low \in 1 .. HeightOf[q] /\ st.chain[p].first = BlockAt[q][low]
          /\ st.chain[p].prev = BlockAt[q][low - 1] /\ low <= HeightOf[Top(st, pp)]
          /\ st.chain[p].prev = BlockAt[Top(st, pp)][low - 1]
      BY <1>1, <2>2, RootOrBranch DEF IsBranch
    <3>0. low # 0
      <4> HIDE DEF low, q
      <4> QED
        BY <3>1
    <3>2. BlockAt[q][low] = BlockAt[t][low] /\ BlockAt[q][low - 1] = BlockAt[t][low - 1]
      <4>1. low \in 0 .. k - 1 /\ low - 1 \in 0 .. k - 1
        <5> HIDE DEF k, low
        <5>1. k \in Nat /\ low \in Nat /\ low < k
          BY <1>1
        <5> QED
          BY <3>0, <5>1
      <4> QED
        BY <1>1, <4>1
    <3>3. low \in 1 .. HeightOf[t]
      <4>1. low \in Nat /\ low < k /\ k \in Nat /\ k <= HeightOf[q] /\ HeightOf[q] < HeightOf[t]
        BY <1>1
      <4> HIDE DEF k, low, t, q
      <4> QED
        BY <1>4, <3>0, <4>1
    <3>4. Top(g, pp) = Top(st, pp) /\ Top(g, o) = t
      BY <1>2, <3>1
    <3> HIDE DEF pp, low, t, q
    <3> QED
      BY <1>2, <1>4, <1>6, <1>7, <3>1, <3>2, <3>3, <3>4 DEF IsBranch
  <2> QED
    BY <2>1, <2>2
<1>11. IsBranch(g, p)
  <2>1. BlockAt[q][k - 1] = BlockAt[t][k - 1]
    BY <1>1, <1>3
  <2>2. k \in 1 .. HeightOf[q] /\ k <= HeightOf[t]
    BY <1>1, <1>3, <1>4
  <2>3. Top(g, p) = q /\ Top(g, o) = t
    BY <1>1, <1>2
  <2> HIDE DEF p, q, t, k
  <2> QED
    BY <1>2, <1>3, <1>4, <1>6, <1>7, <2>1, <2>2, <2>3 DEF IsBranch
<1>12. ASSUME NEW c \in Objs(st) \ {o, p}
       PROVE  IsRoot(g, c) \/ IsBranch(g, c)
  <2>1. File(g, c) = File(st, c) /\ Top(g, c) = Top(st, c)
    BY <1>2, <1>6
  <2>2. CASE st.chain[c].parent = 0
    <3>1. c \notin M
      BY <1>3, <1>9, <2>2
    <3>2. IsRoot(st, c)
      BY <2>2, RootOrBranch
    <3>3. Len(g.chain) = Len(st.chain)
      BY DEF Swapped
    <3> QED
      BY <1>8, <2>1, <2>2, <3>1, <3>2, <3>3 DEF IsRoot
  <2>3. CASE st.chain[c].parent # 0
    <3>1. IsBranch(st, c)
      BY <2>3, RootOrBranch
    <3>2. CASE c \notin M
      <4>1. st.chain[c].parent \in Objs(st)
        BY <3>1 DEF IsBranch
      <4>2. Top(g, st.chain[c].parent) = Top(st, st.chain[c].parent)
        BY <1>2, <4>1
      <4> QED
        BY <1>2, <1>8, <2>1, <3>1, <3>2, <4>1, <4>2 DEF IsBranch
    <3>3. CASE c \in M
      <4> DEFINE f == st.chain[c].forkpoint
      <4>1. st.chain[c].parent = p /\ BlockAt[t][f - 1] = st.chain[c].prev
        BY <3>3 DEF MayMove
      <4>2. f <= HeightOf[q] /\ f \in 1 .. HeightOf[Top(st, c)]
        BY <3>1, <4>1 DEF IsBranch
      <4>3. f <= HeightOf[t]
        BY <1>1, <1>2, <1>4, <4>2
      <4>4. Top(g, o) = t /\ g.chain[c].parent = o
        BY <1>2, <1>8, <3>3
      <4> QED
        BY <1>2, <1>8, <2>1, <3>1, <4>1, <4>3, <4>4 DEF IsBranch
    <3> QED
      BY <3>2, <3>3
  <2> QED
    BY <2>2, <2>3
<1>13. Shape(g)
  BY DEF Sound, Shape, Swapped
<1>14. \A c, d \in Objs(g) : g.chain[c].parent = 0 /\ g.chain[d].parent = 0 => c = d
  <2>1. ASSUME NEW c \in Objs(st), g.chain[c].parent = 0
        PROVE  st.chain[IF c = o THEN p ELSE c].parent = 0 /\ (c # o => c # p)
    BY <1>3, <1>7, <1>8, <2>1
  <2>2. ASSUME NEW c \in Objs(st), NEW d \in Objs(st), g.chain[c].parent = 0, g.chain[d].parent = 0
        PROVE  c = d
    <3>1. \A x, y \in Objs(st) : st.chain[x].parent = 0 /\ st.chain[y].parent = 0 => x = y
      BY DEF Sound
    <3> QED
      BY <1>1, <2>1, <2>2, <3>1
  <2> QED
    BY <1>2, <2>2
<1>15. \E r \in [Objs(g) -> Nat] : Ranked(g, r)
  <2>1. PICK r \in [Objs(st) -> Nat] : Ranked(st, r)
    BY DEF Sound
  <2> DEFINE s == [c \in Objs(st) |-> IF c = o THEN 2 * r[p] ELSE 2 * r[c] + 1]
  <2>2. \A c \in Objs(st) : r[c] \in Nat
    BY <2>1
  <2>3. s \in [Objs(st) -> Nat]
    BY <1>1, <2>2
  <2>4. \A c \in Objs(st) : s[c] = IF c = o THEN 2 * r[p] ELSE 2 * r[c] + 1
    OBVIOUS
  <2>5. \A c \in Objs(st) : st.chain[c].parent # 0 => r[st.chain[c].parent] < r[c] /\ st.chain[c].parent \in Objs(st)
    BY <2>1, RootOrBranch DEF Ranked, IsBranch
  <2>6. r[p] < r[o]
    BY <1>3, <2>5
  <2> HIDE DEF s
  <2>7. ASSUME NEW c \in Objs(st), g.chain[c].parent # 0
        PROVE  s[g.chain[c].parent] < s[c]
    <3>1. CASE c = o
      <4>1. pp # 0 /\ r[pp] < r[p] /\ pp \in Objs(st) /\ g.chain[c].parent = pp
        BY <1>1, <1>7, <2>5, <2>7, <3>1
      <4>2. s[pp] = 2 * r[pp] + 1 /\ s[c] = 2 * r[p]
        BY <1>1, <2>4, <3>1, <4>1
      <4> QED
        BY <1>1, <2>2, <4>1, <4>2
    <3>2. CASE c # o /\ g.chain[c].parent = o
      <4>1. s[c] = 2 * r[c] + 1 /\ s[o] = 2 * r[p]
        BY <2>4, <3>2
      <4>2. c = p \/ st.chain[c].parent = p \/ st.chain[c].parent = o
        BY <1>8, <1>9, <3>2
      <4>3. r[c] >= r[p]
        BY <1>1, <1>3, <2>2, <2>5, <2>6, <4>2
      <4> QED
        BY <1>1, <2>2, <3>2, <4>1, <4>3
    <3>3. CASE c # o /\ g.chain[c].parent # o
      <4> DEFINE x == st.chain[c].parent
      <4>1. c # p /\ g.chain[c].parent = x /\ x # o
        BY <1>7, <1>8, <3>3
      <4>2. x # 0 /\ r[x] < r[c] /\ x \in Objs(st)
        BY <2>5, <2>7, <4>1
      <4>3. s[x] = 2 * r[x] + 1 /\ s[c] = 2 * r[c] + 1
        BY <2>4, <3>3, <4>1, <4>2
      <4> HIDE DEF x
      <4> QED
        BY <2>2, <4>1, <4>2, <4>3
    <3> QED
      BY <3>1, <3>2, <3>3
  <2> QED
    BY <1>2, <2>3, <2>7 DEF Ranked
<1>16. ASSUME NEW x
       PROVE  /\ x \in Range(File(g, o)) => x \in Range(File(st, o)) \/ (x \in Range(File(st, p)) /\ HeightOf[x] < k)
              /\ x \in Range(File(g, p)) => x \in Range(File(st, p)) /\ HeightOf[x] >= k
  <2> HIDE DEF p, k, low, t, q
  <2>1. x \in Blocks => HeightOf[x] \in Nat
    BY Heights
  <2>2. low \in 0 .. HeightOf[t] /\ k \in 0 .. HeightOf[t] /\ k \in 0 .. HeightOf[q]
    BY <1>1, <1>3, <1>4, <1>5
  <2>3. ASSUME x \in Blocks
        PROVE  /\ x \in Range(Branch(low, t)) <=> HeightOf[x] \in low .. HeightOf[t] /\ BlockAt[t][HeightOf[x]] = x
               /\ x \in Range(Branch(k, t)) <=> HeightOf[x] \in k .. HeightOf[t] /\ BlockAt[t][HeightOf[x]] = x
               /\ x \in Range(Branch(k, q)) <=> HeightOf[x] \in k .. HeightOf[q] /\ BlockAt[q][HeightOf[x]] = x
               /\ x \in Range(Branch(low, q)) <=> HeightOf[x] \in low .. HeightOf[q] /\ BlockAt[q][HeightOf[x]] = x
    <3>1. low \in 0 .. HeightOf[q]
      BY <1>1, <1>5, <2>2
    <3>2. ASSUME NEW e \in {t, q}, NEW m \in 0 .. HeightOf[e]
          PROVE  x \in Range(Branch(m, e)) <=> HeightOf[x] \in m .. HeightOf[e] /\ BlockAt[e][HeightOf[x]] = x
      BY <1>4, <2>3, <3>2, BranchIs
    <3> QED
      BY <2>2, <3>1, <3>2
  <2>4. x \in Range(Branch(low, t)) \/ x \in Range(Branch(k, q)) => x \in Blocks
    <3>1. Branch(low, t) \in Seq(Blocks) /\ Branch(k, q) \in Seq(Blocks)
      BY <1>4, <2>2, BranchIs
    <3> QED
      BY <3>1 DEF Range
  <2>5. x \in Range(Branch(low, t)) => x \in Range(Branch(k, t)) \/ (x \in Range(Branch(low, q)) /\ HeightOf[x] < k)
    <3> SUFFICES ASSUME x \in Range(Branch(low, t)), HeightOf[x] < k PROVE x \in Range(Branch(low, q))
      BY <1>1, <1>4, <2>1, <2>2, <2>3, <2>4
    <3>1. x \in Blocks /\ HeightOf[x] \in low .. HeightOf[t] /\ BlockAt[t][HeightOf[x]] = x
      BY <2>3, <2>4
    <3>2. HeightOf[x] \in 0 .. k - 1 /\ HeightOf[x] \in low .. HeightOf[q]
      BY <1>1, <1>4, <2>1, <2>2, <3>1
    <3> QED
      BY <1>1, <2>3, <3>1, <3>2
  <2>6. x \in Range(Branch(k, q)) => x \in Range(Branch(low, q)) /\ HeightOf[x] >= k
    BY <1>1, <1>4, <2>1, <2>2, <2>3, <2>4
  <2> QED
    BY <1>3, <1>5, <1>6, <2>5, <2>6
<1>17. Apart(g)
  <2>0. \A c, d \in Objs(st) : c # d => \A x : ~ (x \in Range(File(st, c)) /\ x \in Range(File(st, d)))
    BY DEF Sound, Apart
  <2>1. ASSUME NEW x \in Range(File(g, o)), x \in Range(File(g, p)) PROVE FALSE
    <3>1. x \in Range(File(st, p)) /\ HeightOf[x] >= k
      BY <1>16, <2>1
    <3>2. x \in Blocks
      BY <1>1, <3>1, FileHas
    <3>3. HeightOf[x] \in Nat
      BY <3>2, Heights
    <3>4. ~ (HeightOf[x] < k)
      BY <1>1, <3>1, <3>3
    <3> QED
      BY <1>1, <1>16, <2>0, <2>1, <3>1, <3>4
  <2>2. ASSUME NEW c \in Objs(st) \ {o, p}, NEW x, x \in Range(File(g, c)), x \in Range(File(g, o)) \/ x \in Range(File(g, p))
        PROVE  FALSE
    <3>1. x \in Range(File(st, c))
      BY <1>6, <2>2
    <3>2. x \in Range(File(st, o)) \/ x \in Range(File(st, p))
      BY <1>16, <2>2
    <3> QED
      BY <1>1, <2>0, <3>1, <3>2
  <2>3. ASSUME NEW c \in Objs(st) \ {o, p}, NEW d \in Objs(st) \ {o, p}, c # d, NEW x,
               x \in Range(File(g, c)), x \in Range(File(g, d))
        PROVE  FALSE
    BY <1>6, <2>0, <2>3
  <2> SUFFICES ASSUME NEW c \in Objs(st), NEW d \in Objs(st), c # d, NEW x \in Range(File(g, c)), x \in Range(File(g, d))
               PROVE  FALSE
    BY <1>2 DEF Apart
  <2>4. CASE c \in {o, p} /\ d \in {o, p}
    BY <2>1, <2>4
  <2>5. CASE c \notin {o, p} /\ d \in {o, p}
    BY <2>2, <2>5
  <2>6. CASE c \in {o, p} /\ d \notin {o, p}
    BY <2>2, <2>6
  <2>7. CASE c \notin {o, p} /\ d \notin {o, p}
    BY <2>3, <2>7
  <2> QED
    BY <2>4, <2>5, <2>6, <2>7
<1> QED
  <2>1. \A c \in Objs(g) : IsRoot(g, c) \/ IsBranch(g, c)
    BY <1>2, <1>10, <1>11, <1>12
  <2> QED
    BY <1>13, <1>14, <1>15, <1>17, <2>1 DEF Sound

LEMMA PathIs ==
    ASSUME NEW st, Sound(st), NEW c \in Objs(st)
    PROVE  \/ Path(st, c) = Main /\ st.chain[c].parent = 0
           \/ /\ Path(st, c) = st.chain[c].first /\ Path(st, c) \in Range(File(st, c)) /\ Path(st, c) \in Blocks
              /\ HeightOf[Path(st, c)] = st.chain[c].forkpoint /\ st.chain[c].parent # 0
<1>1. CASE st.chain[c].parent = 0
  BY <1>1 DEF Path
<1>2. CASE st.chain[c].parent # 0
  <2> DEFINE t == Top(st, c)
             k == st.chain[c].forkpoint
  <2>1. t \in Blocks /\ k \in 0 .. HeightOf[t] /\ st.chain[c].first = BlockAt[t][k] /\ File(st, c) # << >>
    BY <1>2, ObjectIs DEF IsBranch
  <2>2. Below(BlockAt[t][k], t) /\ BlockAt[t][k] \in Blocks /\ HeightOf[BlockAt[t][k]] = k
    <3> HIDE DEF t, k
    <3> QED
      BY <2>1, BelowAt
  <2>3. BlockAt[t][k] \in Range(File(st, c))
    <3>1. k <= k
      BY <2>1, Heights
    <3> QED
      BY <2>1, <2>2, <3>1, FileHas
  <2> QED
    BY <1>2, <2>1, <2>2, <2>3 DEF Path
<1> QED
  BY <1>1, <1>2

(* The files after the writes of a swap and the renaming *)
SwapFiles(st, g, o) ==
    LET p == st.chain[o].parent
        first == BlockAt[Top(st, p)][st.chain[o].forkpoint] IN
    /\ first \in Blocks /\ \A c \in Objs(st) : Path(st, c) # first
    /\ g.file \in [Blocks \cup {Main} -> Seq(Blocks) \cup {None}]
    /\ g.file[Path(st, p)] = Branch(st.chain[p].forkpoint, Top(st, o))
    /\ g.file[Path(st, o)] = None
    /\ g.file[first] = Branch(st.chain[o].forkpoint, Top(st, p))
    /\ \A n \in (Blocks \cup {Main}) \ {Path(st, p), Path(st, o), first} : g.file[n] = st.file[n]

LEMMA SwapWrites ==
    ASSUME NEW st, Sound(st), NEW o \in Objs(st), CanSwap(st, o)
    PROVE  SwapFiles(st, SwapKeepsSiblings(st, o), o)
<1> DEFINE p == st.chain[o].parent
           k == st.chain[o].forkpoint
           low == st.chain[p].forkpoint
           t == Top(st, o)
           q == Top(st, p)
           branch == ParentBranch(st, o)
           whole == ChildBranch(st, o)
           first == Head(branch)
           A == Path(st, o)
           B == Path(st, p)
           g == SwapKeepsSiblings(st, o)
           wr == SwapSecondWrite(st, o)
<1>0. branch = Branch(k, q) /\ whole = Branch(low, t)
  <2>1. branch = Branch(k, q)
    BY SwapMoves
  <2>2. whole = Branch(low, t)
    BY SwapMoves
  <2> QED
    BY <2>1, <2>2
<1>1. /\ p \in Objs(st) /\ p # o /\ k \in Nat /\ low \in Nat /\ low < k
      /\ k <= HeightOf[q] /\ HeightOf[q] < HeightOf[t]
  BY SwapMoves
<1>2. t \in Blocks /\ q \in Blocks /\ HeightOf[t] \in Nat /\ HeightOf[q] \in Nat
  BY <1>1, TopIs
<1>k. k \in 0 .. HeightOf[q] /\ low \in 0 .. HeightOf[t]
  <2> HIDE DEF p, k, low, t, q
  <2> QED
    BY <1>1, <1>2
<1>3. branch \in Seq(Blocks) /\ branch # << >> /\ branch[1] = BlockAt[q][k] /\ whole \in Seq(Blocks)
  <2>2. /\ Branch(k, q) \in Seq(Blocks) /\ Branch(k, q) # << >> /\ Branch(k, q)[1] = BlockAt[q][k]
        /\ Branch(low, t) \in Seq(Blocks)
    <3> HIDE DEF k, q, low, t
    <3> QED
      BY <1>2, <1>k, BranchIs
  <2> HIDE DEF branch, whole
  <2> QED
    BY <1>0, <2>2
<1>4. first = BlockAt[q][k]
  BY <1>3
<1>5. first \in Blocks /\ HeightOf[first] = k /\ first \in Range(File(st, p))
  <2>2. BlockAt[q][k] \in Blocks /\ HeightOf[BlockAt[q][k]] = k /\ Below(BlockAt[q][k], q)
    <3> HIDE DEF k, q
    <3> QED
      BY <1>2, <1>k, BelowAt
  <2>3. File(st, p) # << >>
    <3>1. Len(st.chain) # 1
      BY <1>1, TwoObjects
    <3> QED
      BY <1>1, <3>1, ObjectIs
  <2>4. low <= HeightOf[BlockAt[q][k]]
    <3>1. low \in Nat /\ k \in Nat /\ low < k
      BY <1>1
    <3> HIDE DEF low, k, q
    <3> QED
      BY <2>2, <3>1
  <2>5. BlockAt[q][k] \in Range(File(st, p))
    BY <1>1, <2>2, <2>3, <2>4, FileHas
  <2> HIDE DEF first
  <2> QED
    BY <1>4, <2>2, <2>5
<1> HIDE DEF first
<1>6. \A c \in Objs(st) : Path(st, c) # first
  <2> SUFFICES ASSUME NEW c \in Objs(st), Path(st, c) = first PROVE FALSE
    OBVIOUS
  <2>1. first \in Range(File(st, c)) /\ HeightOf[first] = st.chain[c].forkpoint
    BY <1>5, PathIs, SpecialValues
  <2>2. \A d \in Objs(st) : c # d => Range(File(st, c)) \cap Range(File(st, d)) = {}
    BY DEF Sound, Apart
  <2>3. c = p
    BY <1>1, <1>5, <2>1, <2>2
  <2>4. HeightOf[first] = low
    BY <2>1, <2>3
  <2>5. HeightOf[first] = k /\ low < k /\ low \in Nat
    BY <1>1, <1>5
  <2> HIDE DEF low, k
  <2> QED
    BY <2>4, <2>5
<1>7. A # B /\ A # first /\ B # first /\ A \in Blocks \cup {Main} /\ B \in Blocks \cup {Main}
  BY <1>1, <1>6, PathsDiffer, ObjectIs
<1>8. st.file \in [Blocks \cup {Main} -> Seq(Blocks) \cup {None}] /\ st \in States
  BY DEF Sound, Shape, States
<1> HIDE DEF branch, whole, A, B
<1>9. SwapFirstWrite(st, o).file = [st.file EXCEPT ![A] = branch]
  <2>1. SwapFirstWrite(st, o) = [st EXCEPT !.file = [@ EXCEPT ![A] = branch]]
    BY DEF SwapFirstWrite, A, branch
  <2> QED
    BY <1>8, <2>1 DEF States
<1>10. wr.file = [SwapFirstWrite(st, o).file EXCEPT ![B] = whole]
  <2>1. wr = [SwapFirstWrite(st, o) EXCEPT !.file[B] = whole]
    BY DEF SwapSecondWrite, ChildBranch, B, whole
  <2>2. SwapFirstWrite(st, o) = [st EXCEPT !.file = [@ EXCEPT ![A] = branch]]
    BY DEF SwapFirstWrite, A, branch
  <2>3. "file" \in DOMAIN SwapFirstWrite(st, o)
    BY <1>8, <2>2 DEF States
  <2> QED
    BY <2>1, <2>3
<1>11. g.file = [[wr.file EXCEPT ![A] = None] EXCEPT ![first] = wr.file[A]]
  BY DEF SwapKeepsSiblings, A, first, branch
<1> HIDE DEF g, wr
<1>12. wr.file = [[st.file EXCEPT ![A] = branch] EXCEPT ![B] = whole]
  BY <1>9, <1>10
<1>13. wr.file \in [Blocks \cup {Main} -> Seq(Blocks) \cup {None}] /\ wr.file[A] = branch /\ wr.file[B] = whole
       /\ \A n \in (Blocks \cup {Main}) \ {A, B} : wr.file[n] = st.file[n]
  <2>1. PICK one \in [Blocks \cup {Main} -> Seq(Blocks) \cup {None}] : one = [st.file EXCEPT ![A] = branch]
    BY <1>3, <1>7, <1>8
  <2>2. one[A] = branch /\ \A n \in (Blocks \cup {Main}) \ {A} : one[n] = st.file[n]
    BY <1>7, <1>8, <2>1
  <2>3. wr.file = [one EXCEPT ![B] = whole]
    BY <1>12, <2>1
  <2> QED
    BY <1>3, <1>7, <2>2, <2>3
<1>14. /\ g.file \in [Blocks \cup {Main} -> Seq(Blocks) \cup {None}]
       /\ g.file[A] = None /\ g.file[B] = whole /\ g.file[first] = branch
       /\ \A n \in (Blocks \cup {Main}) \ {A, B, first} : g.file[n] = st.file[n]
  BY <1>3, <1>5, <1>7, <1>11, <1>13
<1>15. whole = Branch(low, t) /\ branch = Branch(k, q)
  BY <1>0 DEF whole, branch
<1> QED
  BY <1>4, <1>5, <1>6, <1>14, <1>15 DEF SwapFiles, A, B, g

LEMMA SwapKeeps ==
    ASSUME NEW st, Sound(st), Kept(st), NEW o \in Objs(st), CanSwap(st, o), NEW g, g = SwapKeepsSiblings(st, o)
    PROVE  Swapped(st, g, o, {}) /\ Kept(g)
<1> DEFINE p == st.chain[o].parent
           k == st.chain[o].forkpoint
           low == st.chain[p].forkpoint
           t == Top(st, o)
           q == Top(st, p)
           pp == st.chain[p].parent
           first == BlockAt[q][k]
           me == st.chain[o]
           D == Blocks \cup {Main}
<1>1. p \in Objs(st) /\ p # o /\ pp # o /\ k \in Nat /\ low \in Nat /\ low < k
  BY SwapMoves
<1>2. /\ first \in Blocks /\ \A c \in Objs(st) : Path(st, c) # first
      /\ g.file \in [D -> Seq(Blocks) \cup {None}]
      /\ g.file[Path(st, p)] = Branch(low, t)
      /\ g.file[Path(st, o)] = None
      /\ g.file[first] = Branch(k, q)
      /\ \A n \in D \ {Path(st, p), Path(st, o), first} : g.file[n] = st.file[n]
  <2>1. SwapFiles(st, g, o)
    BY SwapWrites
  <2> QED
    BY <2>1 DEF SwapFiles
<1>3. Head(ParentBranch(st, o)) = first
  <2>1. ParentBranch(st, o) = Branch(k, q) /\ k <= HeightOf[q] /\ q \in Blocks
    BY <1>1, SwapMoves, ObjectIs
  <2>2. k \in 0 .. HeightOf[q]
    BY <1>1, <2>1, Heights
  <2>3. Branch(k, q)[1] = BlockAt[q][k] /\ Branch(k, q) \in Seq(Blocks) /\ Branch(k, q) # << >>
    <3> HIDE DEF k, q
    <3> QED
      BY <2>1, <2>2, BranchIs
  <2> QED
    BY <2>1, <2>3
<1>4. /\ g = [chain |-> g.chain, order |-> g.order, file |-> g.file]
      /\ g.chain = [st.chain EXCEPT ![o] = st.chain[p], ![p] = [me EXCEPT !.parent = o, !.first = first]]
      /\ g.order = Popped(Popped(st.order, o), p) \o <<o, p>>
  BY <1>3 DEF SwapKeepsSiblings
<1>5. st.chain \in Seq(Chains) /\ DOMAIN st.chain = Objs(st) /\ st.order \in Seq(Nat) /\ Objs(st) \subseteq Nat
      /\ st.chain[o] \in Chains /\ st.chain[p] \in Chains
  <2>1. st.chain \in Seq(Chains) /\ DOMAIN st.chain = Objs(st) /\ st.order \in Seq(Nat) /\ Objs(st) \subseteq Nat
    BY DEF Sound, Shape, States, Objs
  <2> QED
    BY <1>1, <2>1
<1> HIDE DEF p, k, low, t, q, pp, first
<1>6. g.chain \in Seq(Chains) /\ Len(g.chain) = Len(st.chain)
      /\ g.chain[o] = st.chain[p] /\ g.chain[p] = [me EXCEPT !.parent = o, !.first = first]
      /\ \A c \in Objs(st) \ {o, p} : g.chain[c] = st.chain[c]
  <2>1. [me EXCEPT !.parent = o, !.first = first] \in Chains
    BY <1>2, <1>5 DEF Chains
  <2> DEFINE r == [me EXCEPT !.parent = o, !.first = first]
  <2>2. g.chain = [[st.chain EXCEPT ![o] = st.chain[p]] EXCEPT ![p] = r]
    BY <1>4
  <2> HIDE DEF r
  <2>3. r \in Chains
    BY <2>1 DEF r
  <2>4. DOMAIN g.chain = Objs(st) /\ g.chain[o] = st.chain[p] /\ g.chain[p] = r
        /\ \A c \in Objs(st) \ {o, p} : g.chain[c] = st.chain[c]
    BY <1>1, <1>5, <2>2
  <2>5. g.chain \in [1 .. Len(st.chain) -> Chains]
    <3>1. \A c \in Objs(st) : g.chain[c] \in Chains
      BY <1>5, <2>3, <2>4
    <3>2. g.chain = [c \in Objs(st) |-> g.chain[c]]
      BY <1>5, <2>2
    <3> QED
      BY <3>1, <3>2 DEF Objs
  <2>6. g.chain \in Seq(Chains) /\ Len(g.chain) = Len(st.chain)
    <3>0. Len(st.chain) \in Nat
      BY DEF Sound, Shape, States
    <3>1. PICK m \in Nat : m = Len(st.chain)
      BY <3>0
    <3>2. g.chain \in [1 .. m -> Chains]
      BY <2>5, <3>1
    <3>3. g.chain \in Seq(Chains) /\ Len(g.chain) = m
      BY <3>2
    <3> QED
      BY <3>1, <3>3
  <2> QED
    BY <2>4, <2>6 DEF r
<1>7. /\ g.chain[p].parent = o /\ g.chain[p].first = first /\ g.chain[p].forkpoint = k /\ g.chain[p].prev = me.prev
  BY <1>5, <1>6 DEF Chains, k
<1>8. \A i, j \in DOMAIN st.order : st.order[i] = st.order[j] => i = j
  BY DEF Kept
<1> DEFINE one == Popped(st.order, o)
           two == Popped(one, p)
<1>9. /\ two \in Seq(Nat) /\ Range(two) = Objs(st) \ {o, p}
      /\ \A i, j \in DOMAIN two : two[i] = two[j] => i = j
  <2>1. /\ one \in Seq(Nat) /\ Range(one) = Objs(st) \ {o}
        /\ \A i, j \in DOMAIN one : one[i] = one[j] => i = j
    BY <1>5, <1>8, PoppedIs DEF Kept
  <2> HIDE DEF one
  <2>2. /\ two \in Seq(Nat) /\ Range(two) = Range(one) \ {p}
        /\ \A i, j \in DOMAIN two : two[i] = two[j] => i = j
    BY <2>1, PoppedIs
  <2> HIDE DEF two
  <2> QED
    BY <2>1, <2>2
<1>a. g.order = two \o <<o, p>>
  BY <1>4
<1> HIDE DEF one, two
<1>10. /\ g.order \in Seq(Nat) /\ Range(g.order) = Objs(st)
       /\ \A i, j \in DOMAIN g.order : g.order[i] = g.order[j] => i = j
  <2> DEFINE n == Len(two)
  <2>1. /\ g.order \in Seq(Nat) /\ Len(g.order) = n + 2 /\ n \in Nat
        /\ \A i \in 1 .. n : g.order[i] = two[i]
        /\ g.order[n + 1] = o /\ g.order[n + 2] = p
    BY <1>1, <1>5, <1>9, <1>a
  <2>2. DOMAIN g.order = 1 .. n + 2 /\ DOMAIN two = 1 .. n
    BY <1>9, <2>1
  <2>3. \A i \in 1 .. n : two[i] # o /\ two[i] # p /\ two[i] \in Objs(st)
    BY <1>9, <2>2 DEF Range
  <2>4. \A i \in 1 .. n + 2 : i \in 1 .. n \/ i = n + 1 \/ i = n + 2
    BY <2>1
  <2>5. \A i, j \in DOMAIN g.order : g.order[i] = g.order[j] => i = j
    <3> SUFFICES ASSUME NEW i \in 1 .. n + 2, NEW j \in 1 .. n + 2, g.order[i] = g.order[j] PROVE i = j
      BY <2>2
    <3>1. \A x, y \in 1 .. n : two[x] = two[y] => x = y
      BY <1>9, <2>2
    <3>2. CASE i \in 1 .. n /\ j \in 1 .. n
      BY <2>1, <3>1, <3>2
    <3>3. CASE i \in 1 .. n /\ j \notin 1 .. n
      BY <2>1, <2>3, <2>4, <3>3
    <3>4. CASE i \notin 1 .. n /\ j \in 1 .. n
      BY <2>1, <2>3, <2>4, <3>4
    <3>5. CASE i \notin 1 .. n /\ j \notin 1 .. n
      BY <1>1, <2>1, <2>4, <3>5
    <3> QED
      BY <3>2, <3>3, <3>4, <3>5
  <2>6. Range(g.order) \subseteq Objs(st)
    BY <1>1, <2>1, <2>2, <2>3, <2>4 DEF Range
  <2>7. n + 1 \in DOMAIN g.order /\ n + 2 \in DOMAIN g.order /\ \A i \in 1 .. n : i \in DOMAIN g.order
    BY <2>1, <2>2
  <2>8. Objs(st) \subseteq Range(g.order)
    <3> SUFFICES ASSUME NEW c \in Objs(st) PROVE c \in Range(g.order)
      OBVIOUS
    <3>1. CASE c = o
      BY <2>1, <2>7, <3>1 DEF Range
    <3>2. CASE c = p
      BY <2>1, <2>7, <3>2 DEF Range
    <3>3. CASE c \notin {o, p}
      <4>1. PICK i \in 1 .. n : two[i] = c
        BY <1>9, <2>2, <3>3 DEF Range
      <4> QED
        BY <2>1, <2>7, <4>1 DEF Range
    <3> QED
      BY <3>1, <3>2, <3>3
  <2> QED
    BY <2>1, <2>5, <2>6, <2>8
<1>11. g \in States
  BY <1>2, <1>4, <1>6, <1>10 DEF States
<1>12. p # 0 /\ o # 0
  BY <1>1 DEF Objs
<1>13. Path(g, o) = Path(st, p) /\ Path(g, p) = first
  BY <1>6, <1>7, <1>12 DEF Path
<1>14. \A c \in Objs(st) \ {o, p} : Path(g, c) = Path(st, c)
  BY <1>6 DEF Path
<1>15. File(g, o) = Branch(low, t) /\ File(g, p) = Branch(k, q)
  BY <1>2, <1>13 DEF File
<1>16. ASSUME NEW c \in Objs(st) \ {o, p}
       PROVE  File(g, c) = File(st, c)
  <2>1. Path(st, c) \in D \ {Path(st, p), Path(st, o), first}
    BY <1>1, <1>2, PathsDiffer, ObjectIs
  <2> QED
    BY <1>2, <1>14, <2>1 DEF File
<1>17. Swapped(st, g, o, {})
  BY <1>1, <1>6, <1>7, <1>11, <1>15, <1>16 DEF Swapped, p, k, low, t, q, first
<1>18. Objs(g) = Objs(st)
  BY <1>6 DEF Objs
<1>19. ASSUME NEW n \in Blocks, g.file[n] # None
       PROVE  \E c \in Objs(g) : Path(g, c) = n
  <2>1. CASE n = Path(st, p)
    BY <1>13, <1>18, <2>1
  <2>2. CASE n = first
    BY <1>1, <1>13, <1>18, <2>2
  <2>3. CASE n # Path(st, p) /\ n # first
    <3>1. n # Path(st, o) /\ st.file[n] # None
      BY <1>2, <1>19, <2>3
    <3>2. PICK c \in Objs(st) : Path(st, c) = n
      BY <3>1 DEF Kept
    <3>3. c \notin {o, p}
      BY <2>3, <3>1, <3>2
    <3> QED
      BY <1>14, <1>18, <3>2, <3>3
  <2> QED
    BY <2>1, <2>2, <2>3
<1> QED
  BY <1>10, <1>17, <1>18, <1>19 DEF Kept

(* One round of swap_with_parent *)
LEMMA SwapOnceIs ==
    ASSUME NEW st, Sound(st), Kept(st), NEW o \in Objs(st), CanSwap(st, o), NEW g, g = SwapOnce(st, o)
    PROVE  /\ Sound(g) /\ Kept(g)
           /\ \E M : /\ MayMove(st, o, M) /\ Swapped(st, g, o, M)
                     /\ \A c \in Objs(st) \ M :
                           c # o /\ st.chain[c].parent = st.chain[o].parent =>
                               st.chain[o].forkpoint < st.chain[c].forkpoint
<1> DEFINE p == st.chain[o].parent
           k == st.chain[o].forkpoint
           t == Top(st, o)
           q == Top(st, p)
           sw == SwapKeepsSiblings(st, o)
           mine(s) == /\ s \in ToSet(sw.order)
                      /\ sw.chain[s].parent = p
                      /\ HashAt(sw, o, sw.chain[s].forkpoint - 1) = sw.chain[s].prev
           M == {c \in Objs(st) : mine(c)}
<1>1. /\ p \in Objs(st) /\ p # o /\ p # 0 /\ o # 0 /\ k \in Nat
      /\ k <= HeightOf[q] /\ HeightOf[q] < HeightOf[t]
      /\ \A m \in 0 .. k - 1 : BlockAt[t][m] = BlockAt[q][m]
  <2>1. p \in Objs(st) => p # 0
    BY DEF Objs
  <2>2. o # 0
    BY DEF Objs
  <2> QED
    BY <2>1, <2>2, SwapMoves
<1>2. Swapped(st, sw, o, {}) /\ Kept(sw)
  BY SwapKeeps
<1>3. MayMove(st, o, {})
  BY DEF MayMove
<1>4. Sound(sw)
  BY <1>2, <1>3, SwappedSound
<1>5. Objs(sw) = Objs(st) /\ Top(sw, o) = t
  <2>1. Len(sw.chain) = Len(st.chain)
    BY <1>2 DEF Swapped
  <2>2. \A c \in Objs(st) : Top(sw, c) = Top(st, c)
    <3> HIDE DEF sw
    <3> QED
      BY <1>2, SwappedTops
  <2> QED
    BY <2>1, <2>2, SameObjs
<1>6. st.chain[p].parent # p
  <2>1. PICK r \in [Objs(st) -> Nat] : Ranked(st, r)
    BY DEF Sound
  <2>2. r[p] \in Nat
    BY <1>1, <2>1
  <2>3. st.chain[p].parent = p => r[p] < r[p]
    BY <1>1, <2>1 DEF Ranked
  <2> QED
    BY <2>2, <2>3
<1>7. g = [sw EXCEPT !.chain = [s \in DOMAIN @ |-> IF mine(s) THEN [@[s] EXCEPT !.parent = o] ELSE @[s]]]
  BY DEF SwapOnce
<1>8. sw \in States /\ DOMAIN sw.chain = Objs(st)
  BY <1>5, <1>4 DEF Sound, Shape, States, Objs
<1>9. ASSUME NEW c \in Objs(st)
      PROVE  /\ sw.chain[c].parent = IF c = o THEN st.chain[p].parent ELSE IF c = p THEN o ELSE st.chain[c].parent
             /\ c # o /\ c # p => /\ sw.chain[c].forkpoint = st.chain[c].forkpoint
                                  /\ sw.chain[c].prev = st.chain[c].prev
  BY <1>2 DEF Swapped
<1>10. \A c \in Objs(st) : c \in ToSet(sw.order)
  BY <1>2, <1>5 DEF Kept, ToSet, Range
<1>11. ASSUME NEW c \in Objs(st), c # o, c # p, st.chain[c].parent = p
       PROVE  /\ st.chain[c].forkpoint \in Nat
              /\ mine(c) <=> st.chain[c].forkpoint - 1 <= HeightOf[t] /\ BlockAt[t][st.chain[c].forkpoint - 1] = st.chain[c].prev
              /\ BlockAt[q][st.chain[c].forkpoint - 1] = st.chain[c].prev
              /\ st.chain[c].forkpoint - 1 < HeightOf[q]
  <2> DEFINE f == st.chain[c].forkpoint
  <2>1. /\ f \in 1 .. HeightOf[Top(st, c)] /\ f <= HeightOf[q] /\ st.chain[c].prev = BlockAt[q][f - 1]
        /\ Top(st, c) \in Blocks /\ q \in Blocks
    BY <1>1, <1>11, ObjectIs DEF IsBranch
  <2>2. HeightOf[Top(st, c)] \in Nat /\ HeightOf[q] \in Nat
    BY <2>1, Heights
  <2>3. f \in Nat /\ f - 1 \in Nat /\ f - 1 \in 0 .. HeightOf[q] /\ f - 1 < HeightOf[q]
    BY <2>1, <2>2
  <2>4. st.chain[c].prev # None
    <3> HIDE DEF q, f
    <3>1. BlockAt[q][f - 1] \in Blocks
      BY <2>1, <2>3, InChain
    <3> QED
      BY <2>1, <3>1, SpecialValues
  <2>5. mine(c) <=> HashAt(sw, o, f - 1) = st.chain[c].prev
    BY <1>9, <1>10, <1>11
  <2> HIDE DEF f
  <2>6. HashAt(sw, o, f - 1) = IF f - 1 <= HeightOf[Top(sw, o)] THEN BlockAt[Top(sw, o)][f - 1] ELSE None
    BY <1>4, <1>5, <2>3, HashIs
  <2>7. mine(c) <=> f - 1 <= HeightOf[t] /\ BlockAt[t][f - 1] = st.chain[c].prev
    BY <1>5, <2>4, <2>5, <2>6
  <2> QED
    BY <2>1, <2>3, <2>7 DEF f
<1>12. ASSUME NEW c \in Objs(st), mine(c)
       PROVE  c # o /\ c # p /\ st.chain[c].parent = p
  BY <1>1, <1>6, <1>9, <1>12
<1> HIDE DEF sw, p, k, t, q
<1>13. MayMove(st, o, M)
  <2>1. ASSUME NEW c \in M
        PROVE  /\ c # o /\ st.chain[c].parent = st.chain[o].parent
               /\ BlockAt[Top(st, o)][st.chain[c].forkpoint - 1] = st.chain[c].prev
    <3>1. c # o /\ c # p /\ st.chain[c].parent = p
      BY <1>12
    <3> QED
      BY <1>11, <3>1 DEF p, t
  <2> QED
    BY <2>1 DEF MayMove
<1>14. /\ g.order = sw.order /\ g.file = sw.file /\ DOMAIN g.chain = DOMAIN sw.chain
       /\ \A c \in DOMAIN sw.chain : g.chain[c] = IF mine(c) THEN [sw.chain[c] EXCEPT !.parent = o] ELSE sw.chain[c]
       /\ g = [chain |-> g.chain, order |-> g.order, file |-> g.file]
       /\ g.chain = [c \in DOMAIN sw.chain |-> g.chain[c]]
  <2> HIDE DEF mine
  <2> QED
    BY <1>7, <1>8 DEF States
<1>15. ASSUME NEW c \in Objs(st)
       PROVE  /\ g.chain[c] \in Chains
              /\ g.chain[c].parent = IF c \in M THEN o ELSE sw.chain[c].parent
              /\ g.chain[c].forkpoint = sw.chain[c].forkpoint
              /\ g.chain[c].first = sw.chain[c].first
              /\ g.chain[c].prev = sw.chain[c].prev
  <2>1. sw.chain[c] \in Chains
    BY <1>8 DEF States, Objs
  <2>2. o \in Nat
    BY DEF Objs
  <2>3. c \in M <=> mine(c)
    OBVIOUS
  <2> HIDE DEF mine, M
  <2> QED
    BY <1>8, <1>14, <2>1, <2>2, <2>3 DEF Chains
<1>16. g.chain \in Seq(Chains) /\ Len(g.chain) = Len(st.chain)
  <2>1. Len(sw.chain) = Len(st.chain)
    BY <1>2 DEF Swapped
  <2>2. Len(st.chain) \in Nat
    BY DEF Sound, Shape, States
  <2>3. g.chain \in [1 .. Len(st.chain) -> Chains]
    BY <1>8, <1>14, <1>15 DEF Objs
  <2> QED
    BY <2>2, <2>3
<1>17. g \in States
  BY <1>8, <1>14, <1>16 DEF States
<1> HIDE DEF mine
<1>18. \A c \in Objs(st) : c \in M => c # o /\ c # p /\ st.chain[c].parent = p
  BY <1>12
<1>19. \A c \in Objs(st) : Path(g, c) = Path(sw, c)
  <2> SUFFICES ASSUME NEW c \in Objs(st) PROVE Path(g, c) = Path(sw, c)
    OBVIOUS
  <2>1. g.chain[c].parent = 0 <=> sw.chain[c].parent = 0
    <3>1. CASE c \in M
      BY <1>1, <1>9, <1>15, <1>18, <3>1
    <3>2. CASE c \notin M
      BY <1>15, <3>2
    <3> QED
      BY <3>1, <3>2
  <2> QED
    BY <1>15, <2>1 DEF Path
<1>20. \A c \in Objs(st) : File(g, c) = File(sw, c)
  BY <1>14, <1>19 DEF File
<1>21. Swapped(st, g, o, M)
  <2>1. \A c \in Objs(st) : /\ sw.chain[c].forkpoint = (IF c = o THEN st.chain[p].forkpoint
                                                  ELSE IF c = p THEN st.chain[o].forkpoint
                                                  ELSE st.chain[c].forkpoint)
                            /\ sw.chain[c].prev = (IF c = o THEN st.chain[p].prev
                                             ELSE IF c = p THEN st.chain[o].prev ELSE st.chain[c].prev)
                            /\ sw.chain[c].first = (IF c = o THEN st.chain[p].first
                                              ELSE IF c = p THEN BlockAt[Top(st, p)][st.chain[o].forkpoint]
                                              ELSE st.chain[c].first)
    BY <1>2 DEF Swapped, p
  <2>2. /\ File(sw, o) = Branch(st.chain[p].forkpoint, Top(st, o))
        /\ File(sw, p) = Branch(st.chain[o].forkpoint, Top(st, p))
        /\ \A c \in Objs(st) \ {o, p} : File(sw, c) = File(st, c)
    BY <1>2 DEF Swapped, p
  <2>3. \A c \in Objs(st) : g.chain[c].parent = IF c = o THEN st.chain[p].parent
                                               ELSE IF c = p \/ c \in M THEN o ELSE st.chain[c].parent
    BY <1>9, <1>15, <1>18
  <2> HIDE DEF M
  <2>4. File(g, o) = File(sw, o) /\ File(g, p) = File(sw, p) /\ \A c \in Objs(st) \ {o, p} : File(g, c) = File(st, c)
    BY <1>1, <1>20, <2>2
  <2>5. /\ File(g, o) = Branch(st.chain[p].forkpoint, Top(st, o))
        /\ File(g, p) = Branch(st.chain[o].forkpoint, Top(st, p))
        /\ \A c \in Objs(st) \ {o, p} : File(g, c) = File(st, c)
    BY <2>2, <2>4
  <2>6. /\ \A c \in Objs(st) : g.chain[c].forkpoint = IF c = o THEN st.chain[p].forkpoint
                                                       ELSE IF c = p THEN st.chain[o].forkpoint
                                                       ELSE st.chain[c].forkpoint
        /\ \A c \in Objs(st) : g.chain[c].prev = IF c = o THEN st.chain[p].prev
                                                  ELSE IF c = p THEN st.chain[o].prev ELSE st.chain[c].prev
        /\ \A c \in Objs(st) : g.chain[c].first = IF c = o THEN st.chain[p].first
                                                   ELSE IF c = p THEN BlockAt[Top(st, p)][st.chain[o].forkpoint]
                                                   ELSE st.chain[c].first
    BY <1>15, <2>1
  <2> QED
    BY <1>16, <1>17, <2>3, <2>5, <2>6 DEF Swapped, p
<1>22. Sound(g)
  BY <1>13, <1>21, SwappedSound
<1>23. Kept(g)
  <2>1. Objs(g) = Objs(st)
    BY <1>16 DEF Objs
  <2>2. ASSUME NEW n \in Blocks, g.file[n] # None
        PROVE  \E c \in Objs(g) : Path(g, c) = n
    <3>1. PICK c \in Objs(sw) : Path(sw, c) = n
      BY <1>2, <1>14, <2>2 DEF Kept
    <3> QED
      BY <1>5, <1>19, <2>1, <3>1
  <2> QED
    BY <1>2, <1>5, <1>14, <2>1, <2>2 DEF Kept
<1>24. ASSUME NEW c \in Objs(st) \ M, c # o, st.chain[c].parent = p
       PROVE  k < st.chain[c].forkpoint
  <2> DEFINE f == st.chain[c].forkpoint
  <2>1. c # p
    BY <1>6, <1>24
  <2>2. ~ mine(c)
    BY <1>24
  <2>3. /\ f \in Nat /\ ~ (f - 1 <= HeightOf[t] /\ BlockAt[t][f - 1] = st.chain[c].prev)
        /\ BlockAt[q][f - 1] = st.chain[c].prev /\ f - 1 < HeightOf[q]
    BY <1>11, <1>24, <2>1, <2>2
  <2>4. HeightOf[q] \in Nat /\ HeightOf[t] \in Nat
    BY <1>1, ObjectIs, Heights DEF q, t
  <2>5. f # 0
    BY <1>1, <1>24, ObjectIs
  <2> HIDE DEF f
  <2> SUFFICES ASSUME f <= k PROVE FALSE
    BY <1>1, <2>3 DEF f
  <2>6. f - 1 \in 0 .. k - 1
    BY <1>1, <2>3, <2>5
  <2>7. BlockAt[t][f - 1] = BlockAt[q][f - 1]
    BY <1>1, <2>6
  <2> QED
    BY <1>1, <2>3, <2>4, <2>7
<1>25. \A c \in Objs(st) \ M : c # o /\ st.chain[c].parent = st.chain[o].parent => st.chain[o].forkpoint < st.chain[c].forkpoint
  BY <1>24 DEF p, k
<1> QED
  BY <1>13, <1>21, <1>22, <1>23, <1>25

(* The assertion holds everywhere, and none but perhaps one is stronger than  *)
(* its parent.                                                                *)
Fine(st, o) == ForksBelow(st) /\ \A c \in Objs(st) \ {o} : ~ Stronger(st, c)

LEMMA SwapKeepsFine ==
    ASSUME NEW st, Sound(st), Kept(st), NEW o \in Objs(st), CanSwap(st, o), NEW g, g = SwapOnce(st, o),
           Fine(st, o)
    PROVE  Fine(g, o)
<1> DEFINE p == st.chain[o].parent
           k == st.chain[o].forkpoint
           low == st.chain[p].forkpoint
           pp == st.chain[p].parent
<1>1. PICK M : /\ MayMove(st, o, M) /\ Swapped(st, g, o, M)
               /\ \A c \in Objs(st) \ M : c # o /\ st.chain[c].parent = p => k < st.chain[c].forkpoint
  BY SwapOnceIs
<1>2. Sound(g)
  BY SwapOnceIs
<1>3. /\ p \in Objs(st) /\ p # o /\ p # 0 /\ o # 0 /\ pp # o /\ k \in Nat /\ low \in Nat /\ low < k
  <2>1. p \in Objs(st) => p # 0
    BY DEF Objs
  <2>2. o # 0
    BY DEF Objs
  <2> QED
    BY <2>1, <2>2, SwapMoves
<1>4. Objs(g) = Objs(st) /\ \A c \in Objs(st) : Top(g, c) = Top(st, c)
  <2>1. Len(g.chain) = Len(st.chain)
    BY <1>1 DEF Swapped
  <2>2. \A c \in Objs(st) : Top(g, c) = Top(st, c)
    BY <1>1, SwappedTops
  <2> QED
    BY <2>1, <2>2, SameObjs
<1>5. \A c \in Objs(st) : Work(g, c) = Work(st, c) /\ Work(st, c) \in Nat
  BY <1>2, <1>4, WorkIs
<1>6. Work(st, p) < Work(st, o)
  BY DEF CanSwap, Stronger
<1>7. ASSUME NEW c \in Objs(st)
      PROVE  /\ g.chain[c].parent = IF c = o THEN pp ELSE IF c = p \/ c \in M THEN o ELSE st.chain[c].parent
             /\ g.chain[c].forkpoint = IF c = o THEN low ELSE IF c = p THEN k ELSE st.chain[c].forkpoint
  BY <1>1 DEF Swapped
<1>8. \A c \in Objs(st) : st.chain[c].parent # 0 =>
         /\ st.chain[c].parent \in Objs(st)
         /\ st.chain[c].forkpoint > st.chain[st.chain[c].parent].forkpoint
  BY ObjectIs DEF Fine, ForksBelow, ForksAbove
<1>9. \A c \in Objs(st) : c # o /\ st.chain[c].parent # 0 => ~ (Work(st, st.chain[c].parent) < Work(st, c))
  BY DEF Fine, Stronger
<1>10. \A c \in Objs(st) : c \in M => c # o /\ st.chain[c].parent = p
  BY <1>1 DEF MayMove
<1>11. \A c \in Objs(st) : c \notin M /\ c # o /\ st.chain[c].parent = p => k < st.chain[c].forkpoint
  BY <1>1
<1>12. \A c \in Objs(st) : st.chain[c].forkpoint \in Nat
  BY ObjectIs, Heights
<1>13. pp # p
  BY <1>3, <1>8, <1>12
<1> HIDE DEF p, k, low, pp
<1>14. ASSUME NEW c \in Objs(st), g.chain[c].parent # 0
       PROVE  g.chain[c].forkpoint > g.chain[g.chain[c].parent].forkpoint
  <2>1. CASE c = o
    <3>1. g.chain[c].parent = pp /\ pp # 0 /\ pp \in Objs(st) /\ low > st.chain[pp].forkpoint
      BY <1>3, <1>7, <1>8, <1>14, <2>1 DEF pp, low
    <3>2. g.chain[pp].forkpoint = st.chain[pp].forkpoint /\ g.chain[c].forkpoint = low
      BY <1>3, <1>7, <1>13, <2>1, <3>1
    <3> QED
      BY <3>1, <3>2
  <2>2. CASE c = p
    <3>1. g.chain[c].parent = o /\ g.chain[c].forkpoint = k /\ g.chain[o].forkpoint = low
      BY <1>3, <1>7, <2>2
    <3> QED
      BY <1>3, <3>1
  <2>3. CASE c # o /\ c # p /\ c \in M
    <3>1. g.chain[c].parent = o /\ g.chain[c].forkpoint = st.chain[c].forkpoint /\ g.chain[o].forkpoint = low
      BY <1>7, <2>3
    <3>2. st.chain[c].forkpoint > low
      BY <1>3, <1>8, <1>10, <2>3 DEF low
    <3> QED
      BY <3>1, <3>2
  <2>4. CASE c # o /\ c # p /\ c \notin M
    <3> DEFINE x == st.chain[c].parent
    <3>1. g.chain[c].parent = x /\ g.chain[c].forkpoint = st.chain[c].forkpoint /\ x # 0
          /\ x \in Objs(st) /\ st.chain[c].forkpoint > st.chain[x].forkpoint
      BY <1>7, <1>8, <1>14, <2>4
    <3>2. CASE x = p
      <4>1. k < st.chain[c].forkpoint /\ g.chain[x].forkpoint = k
        BY <1>3, <1>7, <1>11, <2>4, <3>2
      <4> QED
        BY <1>3, <1>12, <3>1, <4>1
    <3>3. CASE x = o
      <4>1. g.chain[x].forkpoint = low /\ st.chain[x].forkpoint = k
        BY <1>7, <3>3 DEF k
      <4> QED
        BY <1>3, <1>12, <3>1, <4>1
    <3>4. CASE x # p /\ x # o
      <4>1. g.chain[x].forkpoint = st.chain[x].forkpoint
        BY <1>7, <3>1, <3>4
      <4> QED
        BY <3>1, <4>1
    <3> QED
      BY <3>2, <3>3, <3>4
  <2> QED
    BY <2>1, <2>2, <2>3, <2>4
<1>15. ASSUME NEW c \in Objs(st), c # o, g.chain[c].parent # 0
       PROVE  ~ (Work(g, g.chain[c].parent) < Work(g, c))
  <2>1. CASE c = p
    <3>1. g.chain[c].parent = o
      BY <1>7, <1>15, <2>1
    <3> QED
      BY <1>3, <1>5, <1>6, <2>1, <3>1 DEF p
  <2>2. CASE c # p /\ c \in M
    <3>1. g.chain[c].parent = o /\ st.chain[c].parent = p
      BY <1>7, <1>10, <1>15, <2>2
    <3>2. ~ (Work(st, p) < Work(st, c))
      BY <1>3, <1>9, <1>15, <3>1
    <3>3. Work(st, p) < Work(st, o)
      BY <1>6 DEF p
    <3> QED
      BY <1>3, <1>5, <3>1, <3>2, <3>3
  <2>3. CASE c # p /\ c \notin M
    <3>1. g.chain[c].parent = st.chain[c].parent
      BY <1>7, <1>15, <2>3
    <3>2. st.chain[c].parent \in Objs(st) /\ ~ (Work(st, st.chain[c].parent) < Work(st, c))
      BY <1>8, <1>9, <1>15, <3>1
    <3> QED
      BY <1>5, <3>1, <3>2
  <2> QED
    BY <2>1, <2>2, <2>3
<1> QED
  BY <1>4, <1>14, <1>15 DEF Fine, ForksBelow, ForksAbove, Stronger

(* What swap_with_parent may do *)
SwapsTo(st, o, v) ==
    /\ Sound(v) /\ Kept(v) /\ Len(v.chain) = Len(st.chain)
    /\ \A c \in Objs(st) : Top(v, c) = Top(st, c)
    /\ \A c \in Objs(st) : \E b \in Objs(st) : v.chain[c].forkpoint = st.chain[b].forkpoint
    /\ Fine(st, o) => Fine(v, o)
    /\ v = st \/ Len(st.chain) # 1

LEMMA SwapStep ==
    ASSUME NEW st, NEW o \in Objs(st), NEW v, SwapsTo(st, o, v), CanSwap(v, o), NEW w, w = SwapOnce(v, o)
    PROVE  SwapsTo(st, o, w) /\ w.chain[o].forkpoint < v.chain[o].forkpoint
<1>1. Sound(v) /\ Kept(v) /\ Objs(v) = Objs(st)
  BY DEF SwapsTo, Objs
<1>2. PICK M : Swapped(v, w, o, M)
  BY <1>1, SwapOnceIs
<1>3. Sound(w) /\ Kept(w)
  BY <1>1, SwapOnceIs
<1>4. \A c \in Objs(st) : Top(w, c) = Top(v, c)
  BY <1>1, <1>2, SwappedTops
<1>5. Fine(v, o) => Fine(w, o)
  BY <1>1, SwapKeepsFine
<1> DEFINE p == v.chain[o].parent
<1>6. p \in Objs(st) /\ v.chain[p].forkpoint < v.chain[o].forkpoint
  BY <1>1, SwapMoves
<1>7. \A c \in Objs(st) : \/ w.chain[c].forkpoint = v.chain[p].forkpoint
                          \/ w.chain[c].forkpoint = v.chain[o].forkpoint
                          \/ w.chain[c].forkpoint = v.chain[c].forkpoint
  BY <1>1, <1>2 DEF Swapped
<1>8. w.chain[o].forkpoint = v.chain[p].forkpoint
  BY <1>1, <1>2 DEF Swapped
<1>9. \A c \in Objs(st) : \E b \in Objs(st) : v.chain[c].forkpoint = st.chain[b].forkpoint
  BY DEF SwapsTo
<1> HIDE DEF p
<1>10. \A c \in Objs(st) : \E b \in Objs(st) : w.chain[c].forkpoint = st.chain[b].forkpoint
  <2> SUFFICES ASSUME NEW c \in Objs(st)
               PROVE  \E b \in Objs(st) : w.chain[c].forkpoint = st.chain[b].forkpoint
    OBVIOUS
  <2>1. PICK d \in Objs(st) : w.chain[c].forkpoint = v.chain[d].forkpoint
    BY <1>6, <1>7
  <2> QED
    BY <1>9, <2>1
<1>11. Len(w.chain) = Len(st.chain)
  BY <1>2 DEF Swapped, SwapsTo
<1>12. Len(st.chain) # 1
  <2>1. v.chain[o].parent \in Objs(st) /\ v.chain[o].parent # o
    BY <1>1, SwapMoves
  <2> QED
    BY <2>1, TwoObjects
<1> QED
  BY <1>3, <1>4, <1>5, <1>6, <1>8, <1>10, <1>11, <1>12 DEF SwapsTo

RoundEquation(st, o, u) ==
    u = [n \in 0 .. Len(st.chain) |->
            IF n = 0 THEN st
            ELSE IF CanSwap(u[n - 1], o) THEN SwapOnce(u[n - 1], o)
            ELSE u[n - 1]]

(* After as many rounds as there are objects none can follow, as each takes   *)
(* the forkpoint down to that of another.                                     *)
LEMMA SwapEnds ==
    ASSUME NEW st, Sound(st), Kept(st), NEW o \in Objs(st)
    PROVE  SwapsTo(st, o, SwapWithParent(st, o)) /\ ~ CanSwap(SwapWithParent(st, o), o)
<1> DEFINE N == Len(st.chain)
           V == {v \in States : SwapsTo(st, o, v)}
           d == [v \in V |-> IF CanSwap(v, o) THEN SwapOnce(v, o) ELSE v]
           D == [i \in 1 .. N |-> d]
<1>1. \A v \in V : d[v] = IF CanSwap(v, o) THEN SwapOnce(v, o) ELSE v
  OBVIOUS
<1>2. \A v \in V : d[v] \in V
  <2> SUFFICES ASSUME NEW v \in V PROVE d[v] \in V
    OBVIOUS
  <2>1. CASE CanSwap(v, o)
    <3>1. d[v] = SwapOnce(v, o)
      BY <2>1
    <3> HIDE DEF d
    <3>2. SwapsTo(st, o, d[v])
      BY <2>1, <3>1, SwapStep
    <3> QED
      BY <3>2 DEF SwapsTo, Sound, Shape
  <2>2. CASE ~ CanSwap(v, o)
    BY <2>2
  <2> QED
    BY <2>1, <2>2
<1>3. \A i \in 1 .. N : D[i] = d
  OBVIOUS
<1>4. N \in Nat
  BY DEF Sound, Shape, States
<1>5. st \in V
  BY DEF SwapsTo, Sound, Shape
<1> HIDE DEF d, D
<1>6. \A i \in 1 .. N : \A v \in V : D[i][v] \in V
  BY <1>2, <1>3
<1>7. PICK g : IsStepwise(g, N, V, st, D)
  <2> HIDE DEF V, N
  <2> QED
    BY <1>4, <1>5, <1>6, StepwiseFunction
<1>8. g \in [0 .. N -> V] /\ g[0] = st /\ \A i \in 1 .. N : g[i] = d[g[i - 1]] /\ g[i - 1] \in V
  <2> HIDE DEF V
  <2> QED
    BY <1>3, <1>4, <1>7 DEF IsStepwise
<1>9. RoundEquation(st, o, g)
  <2> HIDE DEF V
  <2>1. g = [n \in 0 .. N |-> g[n]]
    BY <1>8
  <2>2. ASSUME NEW n \in 0 .. N
        PROVE  g[n] = IF n = 0 THEN st
                      ELSE IF CanSwap(g[n - 1], o) THEN SwapOnce(g[n - 1], o) ELSE g[n - 1]
    <3>1. CASE n = 0
      BY <1>8, <3>1
    <3>2. CASE n # 0
      <4>1. n \in 1 .. N
        BY <3>2
      <4> QED
        BY <1>1, <1>8, <3>2, <4>1
    <3> QED
      BY <3>1, <3>2
  <2> QED
    BY <2>1, <2>2 DEF RoundEquation
<1> DEFINE u == CHOOSE f : RoundEquation(st, o, f)
<1>10. SwapWithParent(st, o) = u[N]
  BY DEF SwapWithParent, RoundEquation
<1>11. RoundEquation(st, o, u)
  BY <1>9
<1> HIDE DEF u
<1>12. u = [n \in 0 .. N |-> IF n = 0 THEN st
                             ELSE IF CanSwap(u[n - 1], o) THEN SwapOnce(u[n - 1], o) ELSE u[n - 1]]
  BY <1>11 DEF RoundEquation
<1>13. u[0] = st /\ u = [n \in 0 .. N |-> u[n]]
  <2> HIDE DEF N
  <2> QED
    BY <1>4, <1>12
<1>14. ASSUME NEW n \in 1 .. N
       PROVE  u[n] = IF CanSwap(u[n - 1], o) THEN SwapOnce(u[n - 1], o) ELSE u[n - 1]
  <2>1. n \in 0 .. N /\ n # 0
    BY <1>4
  <2> HIDE DEF N
  <2> QED
    BY <1>12, <2>1
<1>15. ASSUME NEW n \in 1 .. N, u[n - 1] \in V
       PROVE  u[n] = D[n][u[n - 1]]
  BY <1>1, <1>3, <1>14, <1>15
<1>16. IsStepwise(u, N, V, st, D)
  <2> HIDE DEF V, N
  <2> QED
    BY <1>4, <1>5, <1>6, <1>13, <1>15, StepwiseIs
<1>17. u \in [0 .. N -> V]
  BY <1>16 DEF IsStepwise
<1>18. \A i \in 0 .. N : SwapsTo(st, o, u[i])
  BY <1>17
<1> DEFINE f == [i \in 0 .. N |-> u[i].chain[o].forkpoint]
           S == {st.chain[b].forkpoint : b \in Objs(st)}
           r == [x \in S |-> x]
<1> HIDE DEF V
<1>19. S \subseteq Nat
  BY ObjectIs, Heights
<1>20. \A i \in 0 .. N : f[i] = u[i].chain[o].forkpoint /\ f[i] \in S
  <2> SUFFICES ASSUME NEW i \in 0 .. N PROVE f[i] = u[i].chain[o].forkpoint /\ f[i] \in S
    OBVIOUS
  <2>1. \E b \in Objs(st) : u[i].chain[o].forkpoint = st.chain[b].forkpoint
    BY <1>18 DEF SwapsTo
  <2> QED
    BY <2>1
<1>21. IsFiniteSet(S) /\ Cardinality(S) <= N
  <2> DEFINE h == [b \in 1 .. N |-> st.chain[b].forkpoint]
  <2>1. h \in Surjection(1 .. N, S)
    BY DEF Surjection, Objs
  <2>2. IsFiniteSet(1 .. N) /\ Cardinality(1 .. N) = N
    BY <1>4, FS_Interval
  <2> HIDE DEF h, S
  <2>3. IsFiniteSet(S) /\ Cardinality(S) <= Cardinality(1 .. N)
    BY <2>1, <2>2, FS_Surjection
  <2> QED
    BY <2>2, <2>3
<1>22. ASSUME NEW i \in 1 .. N, CanSwap(u[i - 1], o)
       PROVE  f[i] < f[i - 1]
  <2>1. i - 1 \in 0 .. N /\ i \in 0 .. N
    BY <1>4
  <2>2. u[i] = SwapOnce(u[i - 1], o)
    BY <1>14, <1>22
  <2>3. u[i].chain[o].forkpoint < u[i - 1].chain[o].forkpoint
    BY <1>18, <1>22, <2>1, <2>2, SwapStep
  <2> HIDE DEF f
  <2> QED
    BY <1>20, <2>1, <2>3
<1>23. \A i \in 1 .. N : f[i] = f[i - 1] \/ f[i] < f[i - 1]
  <2> SUFFICES ASSUME NEW i \in 1 .. N, ~ CanSwap(u[i - 1], o) PROVE f[i] = f[i - 1]
    BY <1>22
  <2>1. u[i] = u[i - 1]
    BY <1>14
  <2>2. i - 1 \in 0 .. N /\ i \in 0 .. N
    BY <1>4
  <2> HIDE DEF f
  <2> QED
    BY <1>20, <2>1, <2>2
<1>24. f \in [0 .. N -> S]
  <2>1. f = [i \in 0 .. N |-> f[i]]
    OBVIOUS
  <2> HIDE DEF f, S
  <2> QED
    BY <1>20, <2>1
<1>25. r \in [S -> Nat] /\ \A i \in 1 .. N : f[i] = f[i - 1] \/ r[f[i]] < r[f[i - 1]]
  <2>1. \A i \in 1 .. N : i - 1 \in 0 .. N /\ i \in 0 .. N
    BY <1>4
  <2>2. \A x \in S : r[x] = x
    OBVIOUS
  <2>3. r \in [S -> Nat]
    BY <1>19
  <2> HIDE DEF f, S, r, N
  <2>4. \A i \in 1 .. N : r[f[i]] = f[i] /\ r[f[i - 1]] = f[i - 1]
    BY <1>20, <2>1, <2>2
  <2> QED
    BY <1>23, <2>3, <2>4
<1>26. PICK j \in 1 .. N : f[j] = f[j - 1]
  <2> HIDE DEF f, S, r, N
  <2>1. \E i \in 1 .. N : f[i] = f[i - 1]
    <3>1. FallsTo(f, N, S, r)
      BY <1>4, <1>21, <1>24, <1>25 DEF FallsTo
    <3> QED
      BY <3>1, PathStays
  <2> QED
    BY <2>1
<1>27. ~ CanSwap(u[j - 1], o) /\ u[j] = u[j - 1]
  <2>1. f[j - 1] \in Nat
    <3>1. j - 1 \in 0 .. N
      BY <1>4
    <3> HIDE DEF f, S
    <3> QED
      BY <1>19, <1>20, <3>1
  <2> HIDE DEF f
  <2>2. ~ CanSwap(u[j - 1], o)
    BY <1>22, <1>26, <2>1
  <2> QED
    BY <1>14, <2>2
<1> DEFINE B == {m \in Nat : j + m <= N => u[j + m] = u[j]}
<1>28. B = Nat
  <2>1. 0 \in B
    OBVIOUS
  <2>2. ASSUME NEW m \in B
        PROVE  m + 1 \in B
    <3>1. CASE j + (m + 1) <= N
      <4>1. j + (m + 1) \in 1 .. N /\ j + (m + 1) - 1 = j + m /\ j + m <= N
        BY <1>4, <3>1
      <4> QED
        BY <1>14, <1>27, <4>1
    <3> QED
      BY <3>1
  <2>3. B \in SUBSET Nat
    OBVIOUS
  <2> HIDE DEF B
  <2> QED
    BY <2>1, <2>2, <2>3, SetInduction
<1>29. u[N] = u[j]
  <2>1. N - j \in B
    <3>1. N - j \in Nat
      BY <1>4
    <3> HIDE DEF B
    <3> QED
      BY <1>28, <3>1
  <2>2. j + (N - j) = N
    BY <1>4
  <2> QED
    BY <1>4, <2>1, <2>2
<1>30. N \in 0 .. N
  BY <1>4
<1> HIDE DEF f, S, r, B
<1> QED
  BY <1>10, <1>18, <1>27, <1>29, <1>30

LEMMA SwapLeavesNoneStronger ==
    ASSUME NEW st, Sound(st), Kept(st), NEW o \in Objs(st), Fine(st, o), NEW v, v = SwapWithParent(st, o)
    PROVE  NoneIsStronger(v) /\ ForksBelow(v) /\ ~ Raises(v, o)
<1>1. SwapsTo(st, o, v) /\ ~ CanSwap(v, o)
  BY SwapEnds
<1>2. Fine(v, o) /\ Objs(v) = Objs(st)
  BY <1>1 DEF SwapsTo, Objs
<1>3. ~ Stronger(v, o)
  BY <1>1, <1>2 DEF CanSwap, Fine, ForksBelow, Stronger
<1>4. \A c \in Objs(v) : ~ Stronger(v, c)
  BY <1>2, <1>3 DEF Fine
<1> QED
  BY <1>2, <1>3, <1>4 DEF NoneIsStronger, Fine, Objs, Raises

-----------------------------------------------------------------------------
(*                        What is saved, and what forks                    *)

(* An object has become longer, and may have swapped. *)
Lengthened(st, v, o, t) ==
    /\ Sound(v) /\ Kept(v) /\ Len(v.chain) = Len(st.chain)
    /\ t \in Blocks /\ Below(Top(st, o), t) /\ Top(v, o) = t /\ File(v, o) # << >>
    /\ \A c \in Objs(st) : c # o => Top(v, c) = Top(st, c)
    /\ ForksBelow(st) /\ NoneIsStronger(st) => ForksBelow(v) /\ NoneIsStronger(v)

LEMMA GrownSwap ==
    ASSUME NEW st, Sound(st), Kept(st), NEW o \in Objs(st), NEW t \in Blocks, Below(Top(st, o), t),
           NEW g, Grows(st, g, o, t), NEW v, v = SwapWithParent(g, o)
    PROVE  Lengthened(st, v, o, t)
<1>1. Sound(g) /\ Kept(g) /\ Objs(g) = Objs(st) /\ g.chain = st.chain
  BY GrownSound, GrownKept DEF Grows, Objs
<1>2. SwapsTo(g, o, v)
  BY <1>1, SwapEnds
<1>3. Top(v, o) = t /\ \A c \in Objs(st) : c # o => Top(v, c) = Top(st, c)
  BY <1>1, <1>2 DEF SwapsTo, Grows
<1>4. File(v, o) # << >>
  <2>1. CASE v = g
    <3>1. st.chain[o].forkpoint \in 0 .. HeightOf[t]
      <4>1. st.chain[o].forkpoint \in 0 .. HeightOf[Top(st, o)] /\ Top(st, o) \in Blocks
        BY ObjectIs
      <4> QED
        BY <4>1, Heights DEF Below
    <3> DEFINE k == st.chain[o].forkpoint
    <3>2. Branch(k, t) # << >>
      <4> HIDE DEF k
      <4> QED
        BY <3>1, BranchIs DEF k
    <3> QED
      BY <2>1, <3>2 DEF Grows
  <2>2. CASE v # g
    <3>1. Len(v.chain) # 1 /\ Objs(v) = Objs(st) /\ Sound(v)
      BY <1>1, <1>2, <2>2 DEF SwapsTo, Objs
    <3> QED
      BY <3>1, ObjectIs
  <2> QED
    BY <2>1, <2>2
<1>5. ASSUME ForksBelow(st), NoneIsStronger(st)
      PROVE  Fine(g, o)
  <2>1. ForksBelow(g)
    BY <1>1, <1>5 DEF ForksBelow, ForksAbove
  <2>2. ASSUME NEW c \in Objs(st), c # o, Stronger(g, c)
        PROVE  FALSE
    <3> DEFINE x == st.chain[c].parent
    <3>1. x # 0 /\ Work(g, x) < Work(g, c)
      BY <1>1, <2>2 DEF Stronger
    <3>2. x \in Objs(st)
      BY <3>1, ObjectIs
    <3>3. Top(g, c) = Top(st, c)
      BY <2>2 DEF Grows
    <3>4. Work(g, c) = Work(st, c) /\ Work(st, c) \in Nat
      BY <1>1, <3>3, WorkIs
    <3>5. Work(st, x) <= Work(g, x) /\ Work(st, x) \in Nat /\ Work(g, x) \in Nat
      <4>1. HeightOf[Top(st, x)] <= HeightOf[Top(g, x)]
        <5>1. CASE x = o
          BY <5>1 DEF Grows, Below
        <5>2. CASE x # o
          <6>1. Top(g, x) = Top(st, x) /\ HeightOf[Top(st, x)] \in Nat
            BY <3>2, <5>2, ObjectIs, Heights DEF Grows
          <6> QED
            BY <6>1
        <5> QED
          BY <5>1, <5>2
      <4> QED
        BY <1>1, <3>2, <4>1, WorkIs
    <3>6. ~ (Work(st, x) < Work(st, c))
      BY <1>5, <3>1 DEF NoneIsStronger, Stronger, Objs
    <3> HIDE DEF x
    <3> QED
      BY <3>1, <3>4, <3>5, <3>6
  <2> QED
    BY <1>1, <2>1, <2>2 DEF Fine
<1>6. ForksBelow(st) /\ NoneIsStronger(st) => ForksBelow(v) /\ NoneIsStronger(v)
  BY <1>1, <1>5, SwapLeavesNoneStronger
<1> QED
  BY <1>1, <1>2, <1>3, <1>4, <1>6 DEF Lengthened, SwapsTo

LEMMA SaveHeaderIs ==
    ASSUME NEW st, Sound(st), Kept(st), NEW o \in Objs(st), NEW b \in Blocks, ConnectsToTip(st, o, b)
    PROVE  Lengthened(st, SaveHeader(st, o, b), o, b)
<1>1. Below(Top(st, o), b) /\ Grows(st, Written(st, o, b), o, b)
  BY WrittenGrows
<1> QED
  BY <1>1, GrownSwap DEF SaveHeader

LEMMA SaveChunkIs ==
    ASSUME NEW st, Sound(st), Kept(st), NEW o \in Objs(st), NEW index \in Nat, NEW hs, NEW x, NEW end,
           IsChunk(hs, x, index * ChunkSize, end), ChunkIsRight(st, o, index, hs), Tall(st, o) <= end
    PROVE  /\ Lengthened(st, SaveChunk(st, o, index, hs), o, BlockAt[x][end])
           /\ HeightOf[BlockAt[x][end]] = end
<1> DEFINE y == BlockAt[x][end]
<1>1. /\ Below(Top(st, o), y) /\ y \in Blocks /\ HeightOf[y] = end
      /\ Grows(st, ChunkWritten(st, o, index, hs), o, y)
  BY ChunkGrows
<1> HIDE DEF y
<1>2. Lengthened(st, SaveChunk(st, o, index, hs), o, y)
  BY <1>1, GrownSwap DEF SaveChunk
<1> QED
  BY <1>1, <1>2 DEF y

LEMMA NoSwap ==
    ASSUME NEW st, Len(st.chain) \in Nat, NEW o, ~ CanSwap(st, o)
    PROVE  SwapWithParent(st, o) = st
<1> DEFINE N == Len(st.chain)
           g == [n \in 0 .. N |-> st]
           u == CHOOSE f : RoundEquation(st, o, f)
<1>1. RoundEquation(st, o, g)
  <2>1. ASSUME NEW n \in 0 .. N
        PROVE  st = IF n = 0 THEN st
                    ELSE IF CanSwap(g[n - 1], o) THEN SwapOnce(g[n - 1], o) ELSE g[n - 1]
    <3>1. n # 0 => n - 1 \in 0 .. N
      OBVIOUS
    <3>2. n # 0 => g[n - 1] = st
      BY <3>1
    <3> HIDE DEF g
    <3> QED
      BY <3>2
  <2> QED
    BY <2>1 DEF RoundEquation
<1>2. RoundEquation(st, o, u)
  BY <1>1
<1>3. SwapWithParent(st, o) = u[N]
  BY DEF SwapWithParent, RoundEquation
<1> HIDE DEF u, g
<1>4. u = [n \in 0 .. N |-> IF n = 0 THEN st
                            ELSE IF CanSwap(u[n - 1], o) THEN SwapOnce(u[n - 1], o) ELSE u[n - 1]]
  BY <1>2 DEF RoundEquation
<1> DEFINE A == {m \in 0 .. N : u[m] = st}
<1>5. 0 .. N \subseteq A
  <2> HIDE DEF N
  <2>1. 0 \in A
    BY <1>4 DEF N
  <2>2. ASSUME NEW m \in 0 .. N - 1, m \in A
        PROVE  m + 1 \in A
    <3>1. PICK n \in 0 .. N : n = m + 1 /\ n # 0 /\ n - 1 = m
      BY DEF N
    <3>2. u[n] = IF CanSwap(u[n - 1], o) THEN SwapOnce(u[n - 1], o) ELSE u[n - 1]
      BY <1>4, <3>1
    <3>3. u[n - 1] = st
      BY <2>2, <3>1
    <3> QED
      BY <3>1, <3>2, <3>3
  <2>3. N \in Nat
    BY DEF N
  <2> HIDE DEF A
  <2> QED
    BY <2>1, <2>2, <2>3, IntervalInduction
<1> QED
  BY <1>3, <1>5

(* A new object, and nothing else *)
Forked(st, v, b) ==
    /\ Sound(v) /\ Kept(v) /\ Len(v.chain) = Len(st.chain) + 1
    /\ Top(v, Len(v.chain)) = b /\ File(v, Len(v.chain)) # << >>
    /\ \A c \in Objs(st) : Top(v, c) = Top(st, c)
    /\ NoneIsStronger(st) => NoneIsStronger(v)

LEMMA ForkIs ==
    ASSUME NEW st, Sound(st), Kept(st), NEW p \in Objs(st), File(st, p) # << >>,
           NEW b \in Blocks \ {Genesis}, Connects(st, p, b), Tall(st, p) # HeightOf[b] - 1,
           \A c \in Objs(st) : ~ HasHeader(st, c, b)
    PROVE  Forked(st, Fork(st, p, b), b) /\ Len(Fork(st, p, b).chain) = Len(st.chain) + 1
<1> DEFINE N == Len(st.chain)
           h == HeightOf[b]
           prev == PrevBlock[b]
           new == [parent |-> p, forkpoint |-> h, first |-> b, prev |-> HashAt(st, p, h - 1)]
           g == NewChain(st, p, b)
           v == Fork(st, p, b)
           D == Blocks \cup {Main}
<1>1. /\ Below(prev, Top(st, p)) /\ prev \in Blocks /\ HeightOf[prev] = h - 1
      /\ h \in Nat /\ HeightOf[prev] \in Nat /\ b \in Blocks /\ b # Genesis
  BY ConnectsIs, Heights
<1>2. HashAt(st, p, h - 1) = prev
  BY DEF Connects
<1>3. Tall(st, p) = HeightOf[Top(st, p)] /\ Top(st, p) \in Blocks /\ HeightOf[Top(st, p)] \in Nat
  BY ObjectIs, Heights
<1>4. h <= HeightOf[Top(st, p)] /\ h \in 1 .. HeightOf[b]
  <2>1. h - 1 <= HeightOf[Top(st, p)]
    BY <1>1 DEF Below
  <2> QED
    BY <1>1, <1>3, <2>1
<1>5. N \in Nat /\ p \in 1 .. N /\ p # 0 /\ st \in States /\ st.chain \in Seq(Chains)
      /\ st.file \in [D -> Seq(Blocks) \cup {None}] /\ Objs(st) = 1 .. N
  BY DEF Sound, Shape, States, Objs
<1>6. new \in Chains
  BY <1>1, <1>2, <1>5 DEF Chains
<1> HIDE DEF N, h, prev, new
<1>7. /\ g.chain = Append(st.chain, new) /\ g.order = st.order /\ g.file = [st.file EXCEPT ![b] = <<b>>]
      /\ g = [chain |-> g.chain, order |-> g.order, file |-> g.file]
  <2>1. PICK ch, ord, old : st = [chain |-> ch, order |-> ord, file |-> old]
    BY <1>5 DEF States
  <2>2. g = [st EXCEPT !.chain = Append(@, new), !.file = [@ EXCEPT ![b] = <<b>>]]
    BY DEF NewChain, new, h
  <2> HIDE DEF g
  <2>3. g = [chain |-> Append(ch, new), order |-> ord, file |-> [old EXCEPT ![b] = <<b>>]]
    BY <2>1, <2>2
  <2>4. st.chain = ch /\ st.order = ord /\ st.file = old
    BY <2>1
  <2>5. g.chain = Append(ch, new) /\ g.order = ord /\ g.file = [old EXCEPT ![b] = <<b>>]
    BY <2>3
  <2> QED
    BY <2>3, <2>4, <2>5
<1>8. /\ g.chain \in Seq(Chains) /\ Len(g.chain) = N + 1 /\ g.chain[N + 1] = new
      /\ \A c \in 1 .. N : g.chain[c] = st.chain[c]
  BY <1>5, <1>6, <1>7 DEF N
<1>9. /\ g.file \in [D -> Seq(Blocks) \cup {None}] /\ g.file[b] = <<b>>
      /\ \A n \in D \ {b} : g.file[n] = st.file[n]
  BY <1>1, <1>5, <1>7
<1>10. g \in States /\ Objs(g) = 1 .. N + 1
  BY <1>5, <1>7, <1>8, <1>9 DEF States, Objs
<1> HIDE DEF g
<1>11. \A c \in Objs(st) : b \notin Range(File(st, c))
  BY <1>1, FileHas, HasIs
<1>12. \A c \in Objs(st) : Path(st, c) # b /\ Path(st, c) \in D
  BY <1>1, <1>11, PathIs, ObjectIs, SpecialValues
<1>13. \A c \in Objs(st) : Path(g, c) = Path(st, c)
  BY <1>5, <1>8 DEF Path
<1>14. \A c \in Objs(st) : File(g, c) = File(st, c)
  BY <1>9, <1>12, <1>13 DEF File
<1>15. \A c \in Objs(st) : Top(g, c) = Top(st, c)
  BY <1>14 DEF Top
<1>16. new.parent = p /\ new.forkpoint = h /\ new.first = b /\ new.prev = prev
  BY <1>2 DEF new
<1>17. Path(g, N + 1) = b /\ File(g, N + 1) = <<b>> /\ Top(g, N + 1) = b
  <2>1. Path(g, N + 1) = b
    BY <1>5, <1>8, <1>16 DEF Path
  <2>2. File(g, N + 1) = <<b>>
    BY <1>9, <2>1 DEF File
  <2> QED
    BY <2>1, <2>2 DEF Top
<1>18. BlockAt[b][h] = b /\ BlockAt[b][h - 1] = prev
  <2>1. BlockAt[b][HeightOf[b]] = b
    BY <1>1, ChainsAreGrown
  <2>2. HeightOf[prev] \in 0 .. HeightOf[prev]
    BY <1>1
  <2>3. BlockAt[b][HeightOf[prev]] = BlockAt[prev][HeightOf[prev]]
    BY <1>1, <2>2, ChainsAreGrown DEF prev
  <2>4. BlockAt[prev][HeightOf[prev]] = prev
    BY <1>1, ChainsAreGrown
  <2> QED
    BY <1>1, <2>1, <2>3, <2>4 DEF h
<1>19. <<b>> = Branch(h, b)
  <2>1. <<b>> \in Seq(Blocks) /\ Len(<<b>>) = HeightOf[b] - h + 1 /\ h \in 0 .. HeightOf[b]
    BY <1>1 DEF h
  <2>2. \A i \in 1 .. 1 : <<b>>[i] = BlockAt[b][h + i - 1]
    BY <1>1, <1>18
  <2>3. Len(<<b>>) = 1
    OBVIOUS
  <2> QED
    BY <1>1, <2>1, <2>2, <2>3, BranchFrom
<1>20. BlockAt[Top(st, p)][h - 1] = prev
  BY <1>1 DEF Below
<1>21. IsBranch(g, N + 1)
  <2>1. g.chain[N + 1].parent = p /\ g.chain[N + 1].forkpoint = h /\ g.chain[N + 1].first = b
        /\ g.chain[N + 1].prev = prev
    BY <1>8, <1>16
  <2>2. p \in Objs(g) /\ Top(g, p) = Top(st, p)
    BY <1>5, <1>10, <1>15
  <2> QED
    BY <1>1, <1>4, <1>17, <1>18, <1>19, <1>20, <2>1, <2>2 DEF IsBranch
<1>22. ASSUME NEW c \in Objs(st)
       PROVE  IsRoot(g, c) \/ IsBranch(g, c)
  <2>1. g.chain[c] = st.chain[c] /\ File(g, c) = File(st, c) /\ Top(g, c) = Top(st, c)
    BY <1>5, <1>8, <1>14, <1>15
  <2>2. CASE st.chain[c].parent = 0
    <3>1. File(st, c) # << >>
      <4>1. CASE c = p
        BY <4>1
      <4>2. CASE c # p
        <5>1. Len(st.chain) # 1
          BY <4>2, TwoObjects
        <5> QED
          BY <5>1, ObjectIs
      <4> QED
        BY <4>1, <4>2
    <3>2. IsRoot(st, c)
      BY <2>2, RootOrBranch
    <3> QED
      BY <2>1, <3>1, <3>2 DEF IsRoot
  <2>3. CASE st.chain[c].parent # 0
    <3>1. IsBranch(st, c)
      BY <2>3, RootOrBranch
    <3>2. Objs(st) \subseteq Objs(g)
      BY <1>5, <1>10
    <3> QED
      BY <1>15, <2>1, <3>1, <3>2 DEF IsBranch
  <2> QED
    BY <2>2, <2>3
<1>23. \A c \in Objs(g) : c \in Objs(st) \/ c = N + 1
  BY <1>5, <1>10
<1>24. \E r \in [Objs(g) -> Nat] : Ranked(g, r)
  <2>1. PICK r \in [Objs(st) -> Nat] : Ranked(st, r)
    BY DEF Sound
  <2> DEFINE s == [c \in Objs(g) |-> IF c = N + 1 THEN r[p] + 1 ELSE r[c]]
  <2>2. \A c \in Objs(st) : r[c] \in Nat
    BY <2>1
  <2>3. s \in [Objs(g) -> Nat]
    BY <1>23, <2>2
  <2>4. s[N + 1] = r[p] + 1 /\ \A c \in Objs(st) : s[c] = r[c]
    BY <1>5, <1>10
  <2> HIDE DEF s
  <2>5. ASSUME NEW c \in Objs(g), g.chain[c].parent # 0
        PROVE  s[g.chain[c].parent] < s[c]
    <3>1. CASE c = N + 1
      <4>1. s[g.chain[c].parent] = r[p] /\ s[c] = r[p] + 1 /\ r[p] \in Nat
        BY <1>8, <1>16, <2>2, <2>4, <3>1
      <4> QED
        BY <4>1
    <3>2. CASE c \in Objs(st)
      <4>1. g.chain[c].parent = st.chain[c].parent
        BY <1>5, <1>8, <3>2
      <4>2. st.chain[c].parent \in Objs(st) /\ r[st.chain[c].parent] < r[c]
        BY <2>1, <2>5, <3>2, <4>1, ObjectIs DEF Ranked
      <4> QED
        BY <2>4, <3>2, <4>1, <4>2
    <3> QED
      BY <1>23, <3>1, <3>2
  <2> QED
    BY <2>3, <2>5 DEF Ranked
<1>25. Apart(g)
  <2>0. \A c, d \in Objs(st) : c # d => Range(File(st, c)) \cap Range(File(st, d)) = {}
    BY DEF Sound, Apart
  <2>1. Range(<<b>>) = {b}
    BY DEF Range
  <2>2. ASSUME NEW c \in Objs(st)
        PROVE  Range(File(g, c)) \cap Range(File(g, N + 1)) = {}
    BY <1>11, <1>14, <1>17, <2>1
  <2> SUFFICES ASSUME NEW c \in Objs(g), NEW d \in Objs(g), c # d
               PROVE  Range(File(g, c)) \cap Range(File(g, d)) = {}
    BY DEF Apart
  <2>3. CASE c \in Objs(st) /\ d \in Objs(st)
    BY <1>14, <2>0, <2>3
  <2>4. CASE c \in Objs(st) /\ d = N + 1
    BY <2>2, <2>4
  <2>5. CASE c = N + 1 /\ d \in Objs(st)
    BY <2>2, <2>5
  <2> QED
    BY <1>23, <2>3, <2>4, <2>5
<1>26. \A c, d \in Objs(g) : g.chain[c].parent = 0 /\ g.chain[d].parent = 0 => c = d
  <2>1. \A c \in Objs(g) : g.chain[c].parent = 0 => c \in Objs(st) /\ st.chain[c].parent = 0
    BY <1>5, <1>8, <1>16, <1>23
  <2> QED
    BY <2>1 DEF Sound
<1>27. Sound(g)
  <2>1. \A c \in Objs(g) : IsRoot(g, c) \/ IsBranch(g, c)
    BY <1>21, <1>22, <1>23
  <2>2. Shape(g)
    BY <1>5, <1>8, <1>10 DEF Shape
  <2> QED
    BY <1>24, <1>25, <1>26, <2>1, <2>2 DEF Sound
<1>28. \A c \in Objs(st) : Work(g, c) = Work(st, c)
  <2>1. \A c \in Objs(st) : c \in Objs(g)
    BY <1>5, <1>10
  <2> QED
    BY <1>15, <1>27, <2>1, WorkIs
<1>29. Work(g, N + 1) = h /\ ~ (Work(g, p) < Work(g, N + 1))
  <2>1. Work(g, N + 1) = h
    <3>1. N + 1 \in Objs(g)
      BY <1>5, <1>10
    <3> QED
      BY <1>17, <1>27, <3>1, WorkIs DEF h
  <2>2. Work(g, p) = HeightOf[Top(st, p)]
    BY <1>28, WorkIs
  <2> QED
    BY <1>1, <1>3, <1>4, <2>1, <2>2
<1>30. ~ Stronger(g, N + 1)
  BY <1>8, <1>16, <1>29 DEF Stronger
<1>31. SwapWithParent(g, N + 1) = g
  BY <1>5, <1>8, <1>30, NoSwap DEF CanSwap
<1>32. v = [g EXCEPT !.order = Append(st.order, N + 1)]
  <2>1. N + 1 \notin ToSet(g.order)
    <3>1. Range(st.order) = 1 .. N /\ ToSet(st.order) = Range(st.order)
      BY <1>5 DEF Kept, ToSet, Range
    <3>2. N + 1 \notin 1 .. N
      BY <1>5
    <3> QED
      BY <1>7, <3>1, <3>2
  <2>2. v = [g EXCEPT !.order = Append(@, N + 1)]
    BY <1>31, <2>1 DEF Fork, g, N
  <2> QED
    BY <1>7, <2>2
<1> HIDE DEF v
<1>33. v.chain = g.chain /\ v.file = g.file /\ v.order = Append(st.order, N + 1) /\ v \in States
  <2>1. Append(st.order, N + 1) \in Seq(Nat)
    BY <1>5 DEF States
  <2> QED
    BY <1>10, <1>32, <2>1 DEF States
<1>34. \A c : Path(v, c) = Path(g, c) /\ File(v, c) = File(g, c) /\ Top(v, c) = Top(g, c)
  <2>1. \A c : Path(v, c) = Path(g, c)
    BY <1>33 DEF Path
  <2>2. \A c : File(v, c) = File(g, c)
    BY <1>33, <2>1 DEF File
  <2> QED
    BY <2>1, <2>2 DEF Top
<1>35. Objs(v) = Objs(g)
  BY <1>33 DEF Objs
<1>36. Sound(v)
  <2>1. \A c \in Objs(v) : IsRoot(v, c) \/ IsBranch(v, c)
    <3> SUFFICES ASSUME NEW c \in Objs(g) PROVE IsRoot(v, c) \/ IsBranch(v, c)
      BY <1>35
    <3>1. IsRoot(g, c) => IsRoot(v, c)
      BY <1>33, <1>34 DEF IsRoot
    <3>2. IsBranch(g, c) => IsBranch(v, c)
      BY <1>33, <1>34, <1>35 DEF IsBranch
    <3> QED
      BY <1>27, <3>1, <3>2 DEF Sound
  <2>2. Shape(v)
    BY <1>5, <1>8, <1>33 DEF Shape
  <2>3. \A c, d \in Objs(v) : v.chain[c].parent = 0 /\ v.chain[d].parent = 0 => c = d
    BY <1>26, <1>33, <1>35
  <2>4. \E r \in [Objs(v) -> Nat] : Ranked(v, r)
    BY <1>24, <1>33, <1>35 DEF Ranked
  <2>5. Apart(v)
    BY <1>25, <1>34, <1>35 DEF Apart
  <2> QED
    BY <2>1, <2>2, <2>3, <2>4, <2>5 DEF Sound
<1>37. Range(v.order) = Objs(v) /\ \A i, j \in DOMAIN v.order : v.order[i] = v.order[j] => i = j
  <2> DEFINE q == st.order
             n == Len(q)
  <2>1. q \in Seq(Nat) /\ Range(q) = 1 .. N /\ \A i, j \in DOMAIN q : q[i] = q[j] => i = j
    BY <1>5 DEF Kept, States
  <2> HIDE DEF q
  <2>2. v.order = Append(q, N + 1)
    BY <1>33 DEF q
  <2>3. /\ DOMAIN q = 1 .. n /\ n \in Nat /\ DOMAIN v.order = 1 .. n + 1
        /\ \A i \in 1 .. n : v.order[i] = q[i]
        /\ v.order[n + 1] = N + 1
    BY <1>5, <2>1, <2>2
  <2>4. \A i \in 1 .. n : q[i] \in 1 .. N
    BY <2>1, <2>3 DEF Range
  <2>5. \A i, j \in DOMAIN v.order : v.order[i] = v.order[j] => i = j
    <3> SUFFICES ASSUME NEW i \in 1 .. n + 1, NEW j \in 1 .. n + 1, v.order[i] = v.order[j] PROVE i = j
      BY <2>3
    <3>1. \A m \in 1 .. n + 1 : m \in 1 .. n \/ m = n + 1
      BY <2>3
    <3>2. \A m \in 1 .. n : v.order[m] # N + 1
      BY <1>5, <2>3, <2>4
    <3> QED
      BY <2>1, <2>3, <3>1, <3>2
  <2>6. Range(v.order) = 1 .. N + 1
    <3>1. \A i \in 1 .. n + 1 : v.order[i] \in 1 .. N + 1
      BY <1>5, <2>3, <2>4
    <3>2. ASSUME NEW c \in 1 .. N + 1
          PROVE  \E i \in 1 .. n + 1 : v.order[i] = c
      <4>1. CASE c = N + 1
        BY <2>3, <4>1
      <4>2. CASE c # N + 1
        <5>1. c \in 1 .. N
          BY <1>5, <4>2
        <5>2. PICK i \in 1 .. n : q[i] = c
          BY <2>1, <2>3, <5>1 DEF Range
        <5> QED
          BY <2>3, <5>2
      <4> QED
        BY <4>1, <4>2
    <3> QED
      BY <2>3, <3>1, <3>2 DEF Range
  <2> QED
    BY <1>10, <1>35, <2>5, <2>6
<1>38. ASSUME NEW n \in Blocks, v.file[n] # None
       PROVE  \E c \in Objs(v) : Path(v, c) = n
  <2>1. CASE n = b
    <3>1. N + 1 \in Objs(v)
      BY <1>5, <1>10, <1>35
    <3> QED
      BY <1>17, <1>34, <2>1, <3>1
  <2>2. CASE n # b
    <3>1. st.file[n] # None
      BY <1>9, <1>33, <1>38, <2>2
    <3>2. PICK c \in Objs(st) : Path(st, c) = n
      BY <3>1 DEF Kept
    <3>3. c \in Objs(v)
      BY <1>5, <1>10, <1>35
    <3> QED
      BY <1>13, <1>34, <3>2, <3>3
  <2> QED
    BY <2>1, <2>2
<1>39. Kept(v)
  BY <1>37, <1>38 DEF Kept
<1>40. ASSUME NoneIsStronger(st)
       PROVE  NoneIsStronger(v)
  <2>1. \A c : Work(v, c) = Work(g, c)
    BY <1>33, <1>34 DEF Work, Tall
  <2>2. ASSUME NEW c \in Objs(g)
        PROVE  ~ Stronger(g, c)
    <3>1. CASE c = N + 1
      BY <1>30, <3>1
    <3>2. CASE c \in Objs(st)
      <4>1. g.chain[c].parent = st.chain[c].parent
        BY <1>5, <1>8, <3>2
      <4>2. ~ Stronger(st, c)
        BY <1>40, <3>2 DEF NoneIsStronger, Objs
      <4>3. st.chain[c].parent # 0 => st.chain[c].parent \in Objs(st)
        BY <3>2, ObjectIs
      <4> QED
        BY <1>28, <3>2, <4>1, <4>2, <4>3 DEF Stronger
    <3> QED
      BY <1>23, <3>1, <3>2
  <2> QED
    BY <1>33, <1>35, <2>1, <2>2 DEF NoneIsStronger, Stronger, Objs
<1>41. Len(v.chain) = N + 1
  BY <1>8, <1>33
<1>42. Top(v, N + 1) = b /\ File(v, N + 1) # << >> /\ \A c \in Objs(st) : Top(v, c) = Top(st, c)
  BY <1>15, <1>17, <1>34
<1> QED
  BY <1>36, <1>39, <1>40, <1>41, <1>42 DEF Forked, N, v

-----------------------------------------------------------------------------
(*                        What the objects have grown to                     *)

(* Every object has what it had, and perhaps more. *)
Extends(st, v) ==
    /\ Sound(v) /\ Kept(v) /\ Len(st.chain) <= Len(v.chain)
    /\ \A c \in Objs(st) : Below(Top(st, c), Top(v, c))
    /\ ForksBelow(st) /\ NoneIsStronger(st) => NoneIsStronger(v)

LEMMA ExtendsItself ==
    ASSUME NEW st, Sound(st), Kept(st)
    PROVE  Extends(st, st)
<1>1. \A c \in Objs(st) : Below(Top(st, c), Top(st, c)) BY ObjectIs, BelowItself
<1>2. Len(st.chain) <= Len(st.chain) BY DEF Sound, Shape, States
<1> QED BY <1>1, <1>2 DEF Extends

LEMMA ExtendsLengthened ==
    ASSUME NEW st, Sound(st), NEW o \in Objs(st), NEW t, NEW v, Lengthened(st, v, o, t)
    PROVE  Extends(st, v)
<1>1. \A c \in Objs(st) : Below(Top(st, c), Top(v, c))
  <2> TAKE c \in Objs(st)
  <2>1. CASE c = o BY <2>1 DEF Lengthened
  <2>2. CASE c # o
    <3>1. Top(v, c) = Top(st, c) BY <2>2 DEF Lengthened
    <3> QED BY <3>1, ObjectIs, BelowItself
  <2> QED BY <2>1, <2>2
<1>2. Len(st.chain) <= Len(v.chain) BY DEF Lengthened, Sound, Shape, States
<1> QED BY <1>1, <1>2 DEF Extends, Lengthened

LEMMA ExtendsForked ==
    ASSUME NEW st, Sound(st), NEW b, NEW v, Forked(st, v, b)
    PROVE  Extends(st, v)
<1>1. \A c \in Objs(st) : Below(Top(st, c), Top(v, c))
  <2> TAKE c \in Objs(st)
  <2>1. Top(v, c) = Top(st, c) BY DEF Forked
  <2> QED BY <2>1, ObjectIs, BelowItself
<1>2. Len(st.chain) <= Len(v.chain) BY DEF Forked, Sound, Shape, States
<1> QED BY <1>1, <1>2 DEF Extends, Forked

LEMMA ExtendsObjs ==
    ASSUME NEW st, Sound(st), NEW v, Extends(st, v), NEW o \in Objs(st)
    PROVE  o \in Objs(v) /\ Top(v, o) \in Blocks /\ Top(st, o) \in Blocks /\ Below(Top(st, o), Top(v, o))
<1>1. o \in Objs(v) BY DEF Extends, Objs, Sound, Shape, States
<1> QED BY <1>1, ObjectIs DEF Extends

LEMMA ExtendsHas ==
    ASSUME NEW st, Sound(st), NEW v, Extends(st, v), NEW o \in Objs(st), NEW b \in Blocks, HasHeader(st, o, b)
    PROVE  HasHeader(v, o, b)
<1>1. Below(b, Top(st, o)) BY HasIs
<1>2. Below(b, Top(v, o)) BY <1>1, ExtendsObjs, BelowAll
<1> QED BY <1>2, ExtendsObjs, HasIs DEF Extends

LEMMA ExtendsKeeps ==
    ASSUME NEW st, Sound(st), NEW v, Extends(st, v), NEW o \in Objs(st), NEW h \in 0 .. Tall(st, o)
    PROVE  HashAt(v, o, h) = HashAt(st, o, h)
<1>1. Tall(st, o) = HeightOf[Top(st, o)] BY ObjectIs
<1>2. h \in 0 .. HeightOf[Top(st, o)] BY <1>1
<1>3. HashAt(st, o, h) = BlockAt[Top(st, o)][h] BY <1>2, HashIs
<1>4. h <= HeightOf[Top(v, o)] /\ BlockAt[Top(v, o)][h] = BlockAt[Top(st, o)][h]
  BY <1>2, ExtendsObjs, BelowAgree
<1>5. HashAt(v, o, h) = BlockAt[Top(v, o)][h] BY <1>4, <1>2, ExtendsObjs, HashIs DEF Extends
<1> QED BY <1>3, <1>4, <1>5

(* The first object of the dict that passes *)
LEMMA LeastIs ==
    ASSUME NEW n \in Nat, NEW I \in SUBSET (1 .. n), I # {}
    PROVE  Min(I) \in I
<1> DEFINE B == {k \in Nat : \A m \in 0 .. k : m \notin I}
<1> SUFFICES ASSUME ~ \E x \in I : \A y \in I : x <= y PROVE FALSE BY DEF Min
<1>1. 0 \in B OBVIOUS
<1>2. ASSUME NEW k \in B PROVE k + 1 \in B
  <2> SUFFICES ASSUME k + 1 \in I PROVE FALSE
    <3>1. \A m \in 0 .. k + 1 : m \in 0 .. k \/ m = k + 1 OBVIOUS
    <3> QED BY <3>1
  <2>1. \A y \in I : k + 1 <= y OBVIOUS
  <2> QED BY <2>1
<1>3. B = Nat
  <2>1. B \in SUBSET Nat OBVIOUS
  <2> HIDE DEF B
  <2> QED BY <1>1, <1>2, <2>1, SetInduction
<1>4. PICK i \in I : TRUE OBVIOUS
<1>5. i \in B BY <1>3
<1> QED BY <1>5

LEMMA WithHeaderIs ==
    ASSUME NEW st, Sound(st), Kept(st), NEW b
    PROVE  \/ WithHeader(st, b) \in Objs(st) /\ WithHeader(st, b) # 0 /\ HasHeader(st, WithHeader(st, b), b)
           \/ WithHeader(st, b) = 0 /\ \A o \in Objs(st) : ~ HasHeader(st, o, b)
<1> DEFINE I == {i \in 1 .. Len(st.order) : HasHeader(st, st.order[i], b)}
<1> DEFINE i == IF I # {} THEN Min(I) ELSE 0
<1>1. WithHeader(st, b) = IF i = 0 THEN 0 ELSE st.order[i] BY DEF WithHeader, FirstThat, SelectInSeq
<1>2. st.order \in Seq(Nat) /\ Range(st.order) = Objs(st) BY DEF Sound, Shape, States, Kept
<1>3. \A k \in 1 .. Len(st.order) : st.order[k] \in Objs(st) BY <1>2 DEF Range
<1>4. 0 \notin Objs(st) BY DEF Objs
<1>5. CASE I # {}
  <2>1. Len(st.order) \in Nat /\ I \in SUBSET (1 .. Len(st.order)) BY <1>2
  <2>2. i \in I BY <1>5, <2>1, LeastIs
  <2>3. i # 0 BY <2>2
  <2> QED BY <1>1, <1>3, <1>4, <2>2, <2>3
<1>6. CASE I = {}
  <2>1. WithHeader(st, b) = 0 BY <1>1, <1>6
  <2>2. ASSUME NEW o \in Objs(st) PROVE ~ HasHeader(st, o, b)
    <3>1. PICK k \in DOMAIN st.order : st.order[k] = o BY <1>2 DEF Range
    <3>2. k \in 1 .. Len(st.order) BY <1>2
    <3> QED BY <3>1, <3>2, <1>6
  <2> QED BY <2>1, <2>2
<1> QED BY <1>5, <1>6

LEMMA WithTipBeforeIs ==
    ASSUME NEW st, Sound(st), Kept(st), NEW b
    PROVE  \/ WithTipBefore(st, b) \in Objs(st) /\ WithTipBefore(st, b) # 0 /\ ConnectsToTip(st, WithTipBefore(st, b), b)
           \/ WithTipBefore(st, b) = 0 /\ \A o \in Objs(st) : ~ ConnectsToTip(st, o, b)
<1> DEFINE I == {i \in 1 .. Len(st.order) : ConnectsToTip(st, st.order[i], b)}
<1> DEFINE i == IF I # {} THEN Min(I) ELSE 0
<1>1. WithTipBefore(st, b) = IF i = 0 THEN 0 ELSE st.order[i] BY DEF WithTipBefore, FirstThat, SelectInSeq
<1>2. st.order \in Seq(Nat) /\ Range(st.order) = Objs(st) BY DEF Sound, Shape, States, Kept
<1>3. \A k \in 1 .. Len(st.order) : st.order[k] \in Objs(st) BY <1>2 DEF Range
<1>4. 0 \notin Objs(st) BY DEF Objs
<1>5. CASE I # {}
  <2>1. Len(st.order) \in Nat /\ I \in SUBSET (1 .. Len(st.order)) BY <1>2
  <2>2. i \in I BY <1>5, <2>1, LeastIs
  <2>3. i # 0 BY <2>2
  <2> QED BY <1>1, <1>3, <1>4, <2>2, <2>3
<1>6. CASE I = {}
  <2>1. WithTipBefore(st, b) = 0 BY <1>1, <1>6
  <2>2. ASSUME NEW o \in Objs(st) PROVE ~ ConnectsToTip(st, o, b)
    <3>1. PICK k \in DOMAIN st.order : st.order[k] = o BY <1>2 DEF Range
    <3>2. k \in 1 .. Len(st.order) BY <1>2
    <3> QED BY <3>1, <3>2, <1>6
  <2> QED BY <2>1, <2>2
<1> QED BY <1>5, <1>6

(* The genesis is always known. *)
LEMMA GenesisIsKnown ==
    ASSUME NEW st, Sound(st), Kept(st)
    PROVE  WithHeader(st, Genesis) # 0
<1>1. 1 \in Objs(st) BY DEF Objs, Sound, Shape, States
<1>2. HasHeader(st, 1, Genesis) BY Heights DEF HasHeader, HashAt
<1> QED BY <1>1, <1>2, WithHeaderIs

(* There is a root, and it is the best chain. *)
LEMMA BestChainIs ==
    ASSUME NEW st, Sound(st), Kept(st)
    PROVE  BestChain(st) \in Objs(st) /\ BestChain(st) # 0
<1>1. 1 \in Objs(st) /\ 0 \notin Objs(st) BY DEF Objs, Sound, Shape, States
<1>2. Top(st, 1) \in Blocks /\ HeightOf[Top(st, 1)] \in Nat BY <1>1, ObjectIs, Heights
<1> DEFINE c == Holder(st, 1, 0)
<1>3. c \in Objs(st) /\ st.chain[c].forkpoint <= 0 BY <1>1, <1>2, HolderHas
<1> HIDE DEF c
<1>4. st.chain[c].forkpoint = 0 BY <1>3, Heights, ObjectIs
<1>5. IsRoot(st, c) BY <1>3, <1>4, ObjectIs
<1>6. st.chain[c].first = Genesis BY <1>5 DEF IsRoot
<1>7. ToSet(st.order) = Objs(st) BY DEF Kept, ToSet, Range
<1>8. BestChain(st) \in ToSet(st.order) BY <1>3, <1>6, <1>7 DEF BestChain
<1> QED BY <1>8, <1>7, <1>1

-----------------------------------------------------------------------------
(*                       What servers say, and chunks                        *)

LEMMA DivIs ==
    ASSUME NEW h \in Nat
    PROVE  /\ h \div ChunkSize \in Nat
           /\ (h \div ChunkSize) * ChunkSize \in Nat
           /\ (h \div ChunkSize) * ChunkSize <= h
           /\ h < (h \div ChunkSize) * ChunkSize + ChunkSize
<1>1. h \div ChunkSize \in Nat BY ChunksHaveHeaders
<1>2. (h \div ChunkSize) * ChunkSize <= h BY ChunksHaveHeaders
<1>3. h < (h \div ChunkSize) * ChunkSize + ChunkSize BY ChunksHaveHeaders
<1>4. (h \div ChunkSize) * ChunkSize \in Nat BY <1>1, ChunksHaveHeaders
<1> QED BY <1>1, <1>2, <1>3, <1>4

LEMMA TimesGrows ==
    ASSUME NEW m \in Nat, NEW n \in Nat, m <= n
    PROVE  /\ m * ChunkSize \in Nat /\ n * ChunkSize \in Nat
           /\ m * ChunkSize <= n * ChunkSize
           /\ m < n => m * ChunkSize + ChunkSize <= n * ChunkSize
<1>1. m * ChunkSize \in Nat /\ n * ChunkSize \in Nat BY ChunksHaveHeaders
<1>2. m * ChunkSize <= n * ChunkSize BY ChunksHaveHeaders
<1>3. m < n => m * ChunkSize + ChunkSize <= n * ChunkSize BY ChunksHaveHeaders
<1> QED BY <1>1, <1>2, <1>3

LEMMA ChunkEndIs ==
    ASSUME NEW s, Announced(s) \in Nat, NEW h \in 0 .. Announced(s)
    PROVE  /\ ChunkEnd(s, h) \in h .. Announced(s)
           /\ ChunkEnd(s, h) = Announced(s) \/ ChunkEnd(s, h) = (h \div ChunkSize) * ChunkSize + ChunkSize - 1
<1> DEFINE low == (h \div ChunkSize) * ChunkSize
<1>1. low \in Nat /\ low <= h /\ h < low + ChunkSize /\ ChunkSize \in Nat BY DivIs, ChunksHaveHeaders
<1>2. ChunkEnd(s, h) = IF low + ChunkSize - 1 < Announced(s) THEN low + ChunkSize - 1 ELSE Announced(s)
  BY DEF ChunkEnd
<1> HIDE DEF low
<1>3. ChunkEnd(s, h) \in h .. Announced(s) BY <1>1, <1>2
<1>4. ChunkEnd(s, h) = Announced(s) \/ ChunkEnd(s, h) = low + ChunkSize - 1 BY <1>2
<1> QED BY <1>3, <1>4 DEF low

LEMMA ChunkEndGrows ==
    ASSUME NEW s, Announced(s) \in Nat, NEW h \in 0 .. Announced(s), NEW k \in h .. Announced(s)
    PROVE  ChunkEnd(s, h) <= ChunkEnd(s, k)
<1>1. h \in Nat /\ k \in Nat /\ h <= k OBVIOUS
<1>2. h \div ChunkSize \in Nat /\ k \div ChunkSize \in Nat BY <1>1, DivIs
<1>3. h \div ChunkSize <= k \div ChunkSize BY <1>1, ChunksHaveHeaders
<1> DEFINE low == (h \div ChunkSize) * ChunkSize
           high == (k \div ChunkSize) * ChunkSize
<1>4. low \in Nat /\ high \in Nat /\ low <= high BY <1>2, <1>3, TimesGrows
<1>5. ChunkEnd(s, h) = IF low + ChunkSize - 1 < Announced(s) THEN low + ChunkSize - 1 ELSE Announced(s)
  BY DEF ChunkEnd
<1>6. ChunkEnd(s, k) = IF high + ChunkSize - 1 < Announced(s) THEN high + ChunkSize - 1 ELSE Announced(s)
  BY DEF ChunkEnd
<1> HIDE DEF low, high
<1> QED BY <1>4, <1>5, <1>6, ChunksHaveHeaders

(* A server that something is asked of *)
LEMMA AskedServer ==
    ASSUME Served, NEW s \in Servers, iface[s].waiting
    PROVE  /\ iface[s].tip \in Blocks /\ iface[s].tip # None /\ iface[s].up
           /\ Announced(s) \in Nat /\ Announced(s) \in 1 .. HeightOf[tip[s]] /\ HeightOf[iface[s].tip] = Announced(s)
           /\ tip[s] \in Blocks /\ HeightOf[tip[s]] \in Nat
           /\ iface[s].chain \in Objs(bc)
           /\ iface[s].queue = << >> => iface[s].tip = tip[s]
<1>1. ServerInv(s) BY DEF Served
<1>2. iface[s].tip # None /\ iface[s].tip \in Blocks /\ iface[s].up BY <1>1 DEF ServerInv
<1>3. tip[s] \in Blocks BY DEF Served
<1>4. HeightOf[iface[s].tip] \in Nat /\ HeightOf[tip[s]] \in Nat BY <1>2, <1>3, Heights
<1>5. HeightOf[iface[s].tip] \in 1 .. HeightOf[tip[s]] BY <1>1, <1>2 DEF ServerInv
<1>6. iface[s].chain \in Objs(bc) BY <1>1, <1>2 DEF ServerInv, Objs
<1>7. iface[s].queue = << >> => iface[s].tip = tip[s] BY <1>1, <1>2 DEF ServerInv
<1> QED BY <1>1, <1>2, <1>3, <1>4, <1>5, <1>6, <1>7 DEF Announced

LEMMA ServerHasIs ==
    ASSUME ShortBranches, Served, NEW s \in Servers, iface[s].waiting, NEW h \in 0 .. Announced(s)
    PROVE  Said(s, ServerHas(s, h)) /\ HeightOf[ServerHas(s, h)] = h
<1>1. /\ iface[s].tip \in Blocks /\ tip[s] \in Blocks /\ Announced(s) \in Nat
      /\ Announced(s) <= HeightOf[tip[s]] /\ HeightOf[tip[s]] \in Nat /\ HeightOf[iface[s].tip] = Announced(s)
      /\ iface[s].queue = << >> => iface[s].tip = tip[s]
  BY AskedServer
<1>2. h \in 0 .. HeightOf[tip[s]] BY <1>1
<1>3. ServerHas(s, h) \in Blocks /\ HeightOf[ServerHas(s, h)] = h BY <1>1, <1>2, InChain DEF ServerHas
<1>4. iface[s].queue = << >> => ServerHas(s, h) = BlockAt[iface[s].tip][h] BY <1>1 DEF ServerHas
<1>5. ASSUME h + FarFromTip + 2 <= Announced(s) PROVE ServerHas(s, h) = BlockAt[iface[s].tip][h]
  <2>1. h + FarFromTip + 2 <= HeightOf[iface[s].tip] /\ h + FarFromTip + 2 <= HeightOf[tip[s]] /\ h \in Nat
    BY <1>1, <1>5, ChunksHaveHeaders
  <2>2. BlockAt[iface[s].tip][h] = BlockAt[tip[s]][h] BY <2>1, <1>1 DEF ShortBranches
  <2> QED BY <2>2 DEF ServerHas
<1> QED BY <1>3, <1>4, <1>5 DEF Said

LEMMA WarmedIs ==
    ASSUME ShortBranches, Served, NEW s \in Servers, iface[s].waiting, NEW cache, SaidAll(s, cache),
           NEW from \in Nat, NEW to \in 0 .. Announced(s), NEW w, w = Warmed(cache, s, from, to)
    PROVE  SaidAll(s, w) /\ from .. to \subseteq DOMAIN w
<1>1. CASE from .. to \subseteq DOMAIN cache BY <1>1 DEF Warmed
<1>2. CASE ~ (from .. to \subseteq DOMAIN cache)
  <2>1. w = [h \in (from .. to) \cup DOMAIN cache |-> IF h \in from .. to THEN ServerHas(s, h) ELSE cache[h]]
    BY <1>2 DEF Warmed
  <2>2. DOMAIN w = (from .. to) \cup DOMAIN cache BY <2>1
  <2>3. Announced(s) \in Nat BY AskedServer
  <2>4. DOMAIN w \subseteq 0 .. Announced(s) BY <2>2, <2>3 DEF SaidAll
  <2>5. ASSUME NEW h \in DOMAIN w PROVE Said(s, w[h]) /\ HeightOf[w[h]] = h
    <3>1. CASE h \in from .. to
      <4>1. w[h] = ServerHas(s, h) BY <2>1, <3>1, <2>2
      <4>2. h \in 0 .. Announced(s) BY <3>1, <2>3
      <4> QED BY <4>1, <4>2, ServerHasIs
    <3>2. CASE h \notin from .. to
      <4>1. w[h] = cache[h] /\ h \in DOMAIN cache BY <2>1, <3>2, <2>2
      <4> QED BY <4>1 DEF SaidAll
    <3> QED BY <3>1, <3>2
  <2> QED BY <2>2, <2>4, <2>5 DEF SaidAll
<1> QED BY <1>1, <1>2

LEMMA AskedIs ==
    ASSUME ShortBranches, Served, NEW s \in Servers, iface[s].waiting, NEW cache, SaidAll(s, cache),
           NEW h \in 0 .. Announced(s)
    PROVE  Said(s, Asked(cache, s, h)) /\ HeightOf[Asked(cache, s, h)] = h
<1>1. CASE h \in DOMAIN cache BY <1>1 DEF Asked, SaidAll
<1>2. CASE h \notin DOMAIN cache BY <1>2, ServerHasIs DEF Asked
<1> QED BY <1>1, <1>2

(* A server of which nothing changes *)
LEMMA OthersKeep ==
    ASSUME Sound(bc), Extends(bc, bc'), Served, NEW s \in Servers, iface'[s] = iface[s], tip'[s] = tip[s]
    PROVE  ServerInv(s)' /\ Follows(s)'
<1>1. ServerInv(s) /\ Follows(s) BY DEF Served
<1>2. Len(bc.chain) <= Len(bc'.chain) /\ Len(bc.chain) \in Nat /\ Len(bc'.chain) \in Nat
  BY DEF Extends, Sound, Shape, States
<1>3. iface[s].chain \in 0 .. Len(bc'.chain) BY <1>1, <1>2 DEF ServerInv
<1>4. ServerInv(s)' BY <1>1, <1>3 DEF ServerInv, Off
<1>5. ASSUME iface[s].tip # None, HasHeader(bc, iface[s].chain, iface[s].tip)
      PROVE  HasHeader(bc', iface[s].chain, iface[s].tip)
  <2>1. iface[s].tip \in Blocks /\ iface[s].chain \in Objs(bc) BY <1>1, <1>5 DEF ServerInv, Objs
  <2> QED BY <2>1, <1>5, ExtendsHas
<1>6. Follows(s)' BY <1>1, <1>5 DEF Follows
<1> QED BY <1>4, <1>6

-----------------------------------------------------------------------------
(*                        Every step keeps the invariant                     *)

(* A sync that waits for the lock, or for an answer *)
LEMMA LockWaits ==
    ASSUME LockInv, lock' = lock, bc' = bc,
           lock # None => LET r == lock.srv IN
               /\ iface'[r].tip = iface[r].tip /\ iface'[r].chain = iface[r].chain
               /\ iface'[r].waiting = iface[r].waiting
               /\ iface'[r].queue = << >> => iface[r].queue = << >>
    PROVE  LockInv'
<1> SUFFICES ASSUME lock' # None PROVE LockInv' BY DEF LockInv
<1>0. PICK r : r = lock.srv OBVIOUS
<1>1. /\ r \in Servers /\ iface[r].waiting
      /\ DOMAIN lock = {"srv", "at", "height", "good", "bad", "delta", "last", "cache"}
      /\ SaidAll(r, lock.cache)
      /\ SyncInv(r) \/ BackwardInv(r) \/ BinaryInv(r)
  BY <1>0 DEF LockInv
<1>2. /\ iface'[r].tip = iface[r].tip /\ iface'[r].chain = iface[r].chain
      /\ iface'[r].waiting = iface[r].waiting
      /\ iface'[r].queue = << >> => iface[r].queue = << >>
  BY <1>0
<1>3. lock'.srv = r BY <1>0
<1>4. Announced(r)' = Announced(r) BY <1>2 DEF Announced
<1>5. \A b : Said(r, b) => Said(r, b)' BY <1>2, <1>4 DEF Said
<1>6. SaidAll(r, lock.cache)' BY <1>1, <1>4, <1>5 DEF SaidAll
<1>7. \A h : ChunkEnd(r, h)' = ChunkEnd(r, h) BY <1>4 DEF ChunkEnd
<1>8. SyncInv(r) => SyncInv(r)' BY <1>2, <1>4, <1>7 DEF SyncInv, Low
<1>9. BackwardInv(r) => BackwardInv(r)' BY <1>4, <1>5 DEF BackwardInv
<1>10. BinaryInv(r) => BinaryInv(r)' BY <1>4, <1>5 DEF BinaryInv
<1> QED BY <1>1, <1>2, <1>3, <1>6, <1>8, <1>9, <1>10 DEF LockInv

LEMMA OffIs == Off \in Interfaces /\ Off.up = FALSE /\ Off.chain = 0 /\ Off.tip = None /\ Off.queue = << >> /\ Off.waiting = FALSE
<1>1. << >> \in Seq(Blocks) OBVIOUS
<1> QED BY <1>1 DEF Off, Interfaces

(* A server that is not connected *)
LEMMA OffKeeps ==
    ASSUME Served, NEW s \in Servers, iface'[s] = Off, tip'[s] = tip[s], bc'.chain \in Seq(Chains)
    PROVE  ServerInv(s)' /\ Follows(s)'
<1>1. Len(bc'.chain) \in Nat OBVIOUS
<1>2. HeightOf[tip'[s]] >= 1 BY DEF Served, ServerInv
<1>3. Follows(s)' BY OffIs DEF Follows
<1>4. ServerInv(s)' BY <1>1, <1>2, OffIs DEF ServerInv
<1> QED BY <1>3, <1>4

LEMMA GoneKeeps ==
    ASSUME IInv, NEW s \in Servers, Gone(s), tip' = tip, Extends(bc, bc'),
           bc' = bc \/ (lock # None /\ lock.srv = s)
    PROVE  IInv'
<1>1. Sound(bc) /\ Kept(bc) /\ Served /\ LockInv BY DEF IInv
<1>2. Sound(bc)' /\ Kept(bc)' BY DEF Extends
<1>3. iface \in [Servers -> Interfaces] /\ iface' = [iface EXCEPT ![s] = Off]
  BY <1>1 DEF Served, Gone
<1>4. iface' \in [Servers -> Interfaces] BY <1>3, OffIs
<1>5. ASSUME NEW r \in Servers PROVE ServerInv(r)' /\ Follows(r)'
  <2>1. CASE r = s
    <3>1. iface'[s] = Off BY <1>3
    <3>2. bc'.chain \in Seq(Chains) BY <1>2 DEF Sound, Shape, States
    <3> QED BY <3>1, <3>2, <2>1, <1>1, OffKeeps
  <2>2. CASE r # s
    <3>1. iface'[r] = iface[r] BY <2>2, <1>3
    <3> QED BY <3>1, <1>1, OthersKeep
  <2> QED BY <2>1, <2>2
<1>6. Served' BY <1>1, <1>4, <1>5 DEF Served
<1>7. LockInv'
  <2>1. CASE lock # None /\ lock.srv = s BY <2>1 DEF Gone, LockInv
  <2>2. CASE ~ (lock # None /\ lock.srv = s)
    <3>1. lock' = lock /\ bc' = bc BY <2>2 DEF Gone
    <3>2. lock # None => lock.srv \in Servers /\ iface'[lock.srv] = iface[lock.srv]
      BY <2>2, <1>1, <1>3 DEF LockInv
    <3> QED BY <3>1, <3>2, <1>1, LockWaits
  <2> QED BY <2>1, <2>2
<1> QED BY <1>2, <1>6, <1>7 DEF IInv

(* A server whose chain and state of waiting change, and nothing else *)
LEMMA RecordChanges ==
    ASSUME NEW B, NEW C, NEW T, NEW Q, NEW r \in [up : B, chain : C, tip : T, queue : Q, waiting : B],
           NEW o \in C, NEW w \in B
    PROVE  [r EXCEPT !.chain = o, !.waiting = w] \in [up : B, chain : C, tip : T, queue : Q, waiting : B]
OBVIOUS

LEMMA RecordReads ==
    ASSUME NEW B, NEW C, NEW T, NEW Q, NEW r \in [up : B, chain : C, tip : T, queue : Q, waiting : B],
           NEW o, NEW w, NEW g, g = [r EXCEPT !.chain = o, !.waiting = w]
    PROVE  g.up = r.up /\ g.tip = r.tip /\ g.queue = r.queue /\ g.chain = o /\ g.waiting = w
OBVIOUS

On(r, o, w) == [r EXCEPT !.chain = o, !.waiting = w]

LEMMA InterfaceReads ==
    ASSUME NEW r \in Interfaces, NEW o, NEW w
    PROVE  /\ On(r, o, w).up = r.up /\ On(r, o, w).tip = r.tip /\ On(r, o, w).queue = r.queue
           /\ On(r, o, w).chain = o /\ On(r, o, w).waiting = w
BY RecordReads DEF Interfaces, On

LEMMA InterfaceChanges ==
    ASSUME NEW r \in Interfaces, NEW o \in Nat, NEW w \in BOOLEAN
    PROVE  [r EXCEPT !.chain = o, !.waiting = w] \in Interfaces
BY RecordChanges DEF Interfaces

LEMMA ChainChanges ==
    ASSUME Sound(bc), Extends(bc, bc'), Served, NEW s \in Servers, iface[s].waiting, tip' = tip,
           NEW o \in Objs(bc'), NEW w \in BOOLEAN,
           iface' = [iface EXCEPT ![s].chain = o, ![s].waiting = w],
           ~ w /\ iface[s].queue = << >> => HasHeader(bc', o, iface[s].tip)
    PROVE  Served' /\ iface'[s] = [iface[s] EXCEPT !.chain = o, !.waiting = w]
<1>1. iface \in [Servers -> Interfaces] /\ tip \in [Servers -> Blocks] BY DEF Served
<1>2. iface'[s] = [iface[s] EXCEPT !.chain = o, !.waiting = w] BY <1>1
<1>3. \A r \in Servers \ {s} : iface'[r] = iface[r] BY <1>1
<1>4. Len(bc'.chain) \in Nat BY DEF Extends, Sound, Shape, States
<1>5. o \in Nat /\ o \in 0 .. Len(bc'.chain) /\ o # 0 BY <1>4 DEF Objs
<1>6. iface[s] \in Interfaces BY <1>1
<1>7. iface'[s] \in Interfaces
  <2>1. o \in Nat BY <1>5
  <2>2. [iface[s] EXCEPT !.chain = o, !.waiting = w] \in Interfaces BY <1>6, <2>1, InterfaceChanges
  <2> QED BY <1>2, <2>2
<1>8. DOMAIN iface' = Servers /\ iface' = [r \in Servers |-> iface'[r]] BY <1>1
<1>9. iface' \in [Servers -> Interfaces] BY <1>1, <1>3, <1>7, <1>8
<1>10. /\ iface'[s].up = iface[s].up /\ iface'[s].tip = iface[s].tip /\ iface'[s].queue = iface[s].queue
       /\ iface'[s].chain = o /\ iface'[s].waiting = w
  <2>1. iface'[s] = On(iface[s], o, w) BY <1>2 DEF On
  <2> QED BY <1>6, <2>1, InterfaceReads
<1>11. iface[s].tip # None /\ iface[s].up BY AskedServer
<1>12. ServerInv(s)' /\ Follows(s)'
  <2>1. ServerInv(s) BY DEF Served
  <2>2. ServerInv(s)' BY <2>1, <1>5, <1>10, <1>11 DEF ServerInv
  <2>3. Follows(s)' BY <1>10 DEF Follows
  <2> QED BY <2>2, <2>3
<1>13. \A r \in Servers : ServerInv(r)' /\ Follows(r)' BY <1>3, <1>12, OthersKeep
<1> QED BY <1>1, <1>2, <1>9, <1>13 DEF Served

(* What sync_until goes on with *)
LEMMA GoOnKeeps ==
    ASSUME IInv, NEW s \in Servers, lock # None, lock.srv = s, tip' = tip, Extends(bc, bc'),
           NEW last, NEW height \in 1 .. Announced(s) + 1, NEW o \in Objs(bc'), NEW cache,
           GoOn(s, last, height, o, cache), SaidAll(s, cache),
           height > Announced(s) /\ iface[s].queue = << >> => HasHeader(bc', o, iface[s].tip),
           Low(s, bc', o, height)
    PROVE  IInv'
<1>1. Sound(bc) /\ Kept(bc) /\ Served /\ LockInv /\ iface[s].waiting BY DEF IInv, LockInv
<1>2. CASE last = lock.last /\ height = lock.height
  BY <1>2, GoneKeeps DEF GoOn
<1>3. CASE ~ (last = lock.last /\ height = lock.height)
  <2> DEFINE w == height <= Announced(s)
  <2>1. /\ iface' = [iface EXCEPT ![s].chain = o, ![s].waiting = w]
        /\ lock' = IF height > Announced(s) THEN None
                    ELSE [srv |-> s, at |-> "step", height |-> height, good |-> 0,
                          bad |-> None, delta |-> 2, last |-> last, cache |-> cache]
    BY <1>3 DEF GoOn
  <2>2. Announced(s) \in Nat BY <1>1, AskedServer
  <2>3. w \in BOOLEAN /\ (~ w => height > Announced(s)) BY <2>2
  <2>4. Served' /\ iface'[s] = [iface[s] EXCEPT !.chain = o, !.waiting = w]
    <3> HIDE DEF w
    <3>1. w \in BOOLEAN /\ iface' = [iface EXCEPT ![s].chain = o, ![s].waiting = w] BY <2>1, <2>3
    <3>2. ~ w /\ iface[s].queue = << >> => HasHeader(bc', o, iface[s].tip) BY <2>3
    <3>3. Sound(bc) /\ Served /\ iface[s].waiting BY <1>1
    <3>4. Served' BY <3>1, <3>2, <3>3, ChainChanges
    <3>5. iface'[s] = [iface[s] EXCEPT !.chain = o, !.waiting = w] BY <3>1, <3>3 DEF Served
    <3> QED BY <3>4, <3>5
  <2>5. Sound(bc)' /\ Kept(bc)' BY DEF Extends
  <2>6. LockInv'
    <3> SUFFICES ASSUME lock' # None PROVE LockInv' BY DEF LockInv
    <3>1. height <= Announced(s) BY <2>1, <2>2
    <3>2. lock' = [srv |-> s, at |-> "step", height |-> height, good |-> 0,
                          bad |-> None, delta |-> 2, last |-> last, cache |-> cache]
      BY <2>1, <2>2, <3>1
    <3>3. iface[s] \in Interfaces BY <1>1 DEF Served
    <3>4. /\ iface'[s].tip = iface[s].tip /\ iface'[s].queue = iface[s].queue /\ iface'[s].chain = o
          /\ iface'[s].waiting = w
      BY <2>4, <3>3 DEF Interfaces
    <3>5. Announced(s)' = Announced(s) BY <3>4 DEF Announced
    <3>6. \A b : Said(s, b) => Said(s, b)' BY <3>4, <3>5 DEF Said
    <3>7. SaidAll(s, cache)' BY <3>5, <3>6 DEF SaidAll
    <3>8. \A h : ChunkEnd(s, h)' = ChunkEnd(s, h) BY <3>5 DEF ChunkEnd
    <3>9. Low(s, bc, o, height)' BY <3>4, <3>5, <3>8 DEF Low
    <3>10. lock'.srv = s /\ lock'.at = "step" /\ lock'.height = height /\ lock'.cache = cache
      BY <3>2
    <3>11. SyncInv(s)' BY <3>1, <3>4, <3>5, <3>9, <3>10, <2>2 DEF SyncInv
    <3>12. DOMAIN lock' = {"srv", "at", "height", "good", "bad", "delta", "last", "cache"} BY <3>2
    <3> QED BY <3>1, <3>4, <3>7, <3>10, <3>11, <3>12 DEF LockInv
  <2> QED BY <2>4, <2>5, <2>6 DEF IInv
<1> QED BY <1>2, <1>3

(* After its last header has come to an object, from the server *)
LEMMA TopLow ==
    ASSUME Served, NEW s \in Servers, iface[s].waiting, NEW v, Sound(v), NEW o \in Objs(v), NEW b, Said(s, b),
           HeightOf[b] <= Announced(s), Top(v, o) = b, File(v, o) # << >>
    PROVE  /\ HeightOf[b] + 1 \in 1 .. Announced(s) + 1
           /\ HeightOf[b] + 1 > Announced(s) /\ iface[s].queue = << >> => HasHeader(v, o, iface[s].tip)
           /\ Low(s, v, o, HeightOf[b] + 1)
<1>1. b \in Blocks /\ HeightOf[b] \in Nat BY Heights DEF Said
<1>2. Announced(s) \in Nat /\ iface[s].tip \in Blocks /\ HeightOf[iface[s].tip] = Announced(s) BY AskedServer
<1>3. HasHeader(v, o, b) BY <1>1, HasIs, BelowItself
<1>4. HeightOf[b] + 1 \in 1 .. Announced(s) + 1 BY <1>1, <1>2
<1>5. ASSUME HeightOf[b] + 1 > Announced(s), iface[s].queue = << >>
      PROVE  HasHeader(v, o, iface[s].tip)
  <2>1. HeightOf[b] = Announced(s) BY <1>5, <1>1, <1>2
  <2>2. b = BlockAt[iface[s].tip][HeightOf[b]] BY <1>5 DEF Said
  <2>3. b = iface[s].tip BY <2>1, <2>2, <1>2, ChainsAreGrown
  <2> QED BY <2>3, <1>3
<1> DEFINE h == HeightOf[b] + 1
<1>6. ASSUME h <= Announced(s) PROVE Tall(v, o) <= ChunkEnd(s, h)
  <2>1. Tall(v, o) = HeightOf[b] BY ObjectIs
  <2>2. h \in 0 .. Announced(s) BY <1>6, <1>1
  <2>3. ChunkEnd(s, h) \in h .. Announced(s) BY <2>2, <1>2, ChunkEndIs
  <2> QED BY <2>1, <2>3, <1>1
<1>7. ASSUME h + FarFromTip + 2 <= Announced(s), NEW c \in Objs(v), HasHeader(v, c, BlockAt[iface[s].tip][h])
      PROVE  FALSE
  <2>1. h \in 0 .. HeightOf[iface[s].tip] /\ HeightOf[b] \in 0 .. HeightOf[iface[s].tip]
        /\ HeightOf[b] + FarFromTip + 2 <= Announced(s)
    BY <1>7, <1>1, <1>2, ChunksHaveHeaders
  <2>2. b = BlockAt[iface[s].tip][HeightOf[b]] BY <2>1 DEF Said
  <2> DEFINE x == BlockAt[iface[s].tip][h]
  <2>3. x \in Blocks /\ HeightOf[x] = h /\ Below(x, iface[s].tip) BY <2>1, <1>2, BelowAt
  <2>4. Below(b, iface[s].tip) BY <2>1, <2>2, <1>2 DEF Below
  <2>5. Below(b, x) BY <2>3, <2>4, <1>1, <1>2, BelowBoth
  <2>6. Top(v, c) \in Blocks BY ObjectIs
  <2>7. Below(x, Top(v, c)) BY <1>7, <2>3, HasIs
  <2>8. Below(b, Top(v, c)) BY <2>5, <2>6, <2>7, <2>3, <1>1, BelowAll
  <2>9. c = o BY <2>8, TopIsOwn
  <2>10. HeightOf[x] <= HeightOf[b] BY <2>7, <2>9 DEF Below
  <2> QED BY <2>10, <2>3, <1>1
<1>8. Low(s, v, o, h)
  <2>1. h + FarFromTip + 1 <= Announced(s) => h <= Announced(s) BY <1>1, <1>2, ChunksHaveHeaders
  <2> HIDE DEF h
  <2> QED BY <2>1, <1>6, <1>7 DEF Low
<1> QED BY <1>4, <1>5, <1>8

LEMMA SaveKeeps ==
    ASSUME IInv, NEW s \in Servers, lock # None, lock.srv = s, tip' = tip,
           NEW o \in Objs(bc), NEW b, ConnectsToTip(bc, o, b), Said(s, b), HeightOf[b] <= Announced(s),
           NEW cache, SaidAll(s, cache), Save(s, o, b, cache)
    PROVE  IInv' /\ Extends(bc, bc')
<1>1. Sound(bc) /\ Kept(bc) /\ Served /\ LockInv /\ iface[s].waiting BY DEF IInv, LockInv
<1>2. b \in Blocks BY DEF Said
<1> DEFINE st == SaveHeader(bc, o, b)
<1>3. Lengthened(bc, st, o, b) BY <1>1, <1>2, SaveHeaderIs
<1>4. bc' = st /\ (IF Raises(st, o) THEN Gone(s) ELSE GoOn(s, "catchup", HeightOf[b] + 1, o, cache))
  BY DEF Save
<1> HIDE DEF st
<1>5. Extends(bc, bc') BY <1>1, <1>3, <1>4, ExtendsLengthened
<1>6. CASE Raises(st, o)
  BY <1>4, <1>5, <1>6, GoneKeeps
<1>7. CASE ~ Raises(st, o)
  <2>1. GoOn(s, "catchup", HeightOf[b] + 1, o, cache) BY <1>4, <1>7
  <2>2. Sound(bc') /\ Top(bc', o) = b /\ File(bc', o) # << >> BY <1>3, <1>4 DEF Lengthened
  <2>3. o \in Objs(bc') BY <1>1, <1>5, ExtendsObjs
  <2>4. /\ HeightOf[b] + 1 \in 1 .. Announced(s) + 1
        /\ HeightOf[b] + 1 > Announced(s) /\ iface[s].queue = << >> => HasHeader(bc', o, iface[s].tip)
        /\ Low(s, bc', o, HeightOf[b] + 1)
    BY <2>2, <2>3, <1>1, TopLow
  <2> QED BY <2>1, <2>3, <2>4, <1>5, GoOnKeeps
<1> QED BY <1>5, <1>6, <1>7

(* What an object has of a far header is no bar to going on above it. *)
LEMMA KnownLow ==
    ASSUME Served, NEW s \in Servers, iface[s].waiting, Sound(bc), NEW h \in 1 .. Announced(s),
           Low(s, bc, iface[s].chain, h), NEW b, Said(s, b), HeightOf[b] = h,
           NEW o \in Objs(bc), HasHeader(bc, o, b)
    PROVE  /\ h + 1 > Announced(s) /\ iface[s].queue = << >> => HasHeader(bc, o, iface[s].tip)
           /\ Low(s, bc, o, h + 1)
<1>1. b \in Blocks BY DEF Said
<1>2. Announced(s) \in Nat /\ iface[s].tip \in Blocks /\ HeightOf[iface[s].tip] = Announced(s) BY AskedServer
<1>3. ASSUME h + 1 > Announced(s), iface[s].queue = << >>
      PROVE  HasHeader(bc, o, iface[s].tip)
  <2>1. h = Announced(s) BY <1>3, <1>2
  <2>2. b = BlockAt[iface[s].tip][h] BY <1>3 DEF Said
  <2>3. b = iface[s].tip BY <2>1, <2>2, <1>2, ChainsAreGrown
  <2> QED BY <2>3
<1>4. ASSUME h + FarFromTip + 2 <= Announced(s), NEW c \in Objs(bc), HasHeader(bc, c, b)
      PROVE  Tall(bc, c) <= ChunkEnd(s, h + 1)
  <2>1. b = BlockAt[iface[s].tip][h] BY <1>4 DEF Said
  <2>2. Tall(bc, c) <= ChunkEnd(s, h) BY <2>1, <1>4 DEF Low
  <2>3. h \in 0 .. Announced(s) /\ h + 1 \in h .. Announced(s) BY <1>2, <1>4, ChunksHaveHeaders
  <2>4. ChunkEnd(s, h) <= ChunkEnd(s, h + 1) BY <2>3, <1>2, ChunkEndGrows
  <2>5. ChunkEnd(s, h) \in Int BY <2>3, <1>2, ChunkEndIs
  <2>6. ChunkEnd(s, h + 1) \in Int
    <3>1. h + 1 \in 0 .. Announced(s) BY <2>3, <1>2
    <3> QED BY <3>1, <1>2, ChunkEndIs
  <2>7. Tall(bc, c) \in Int
    <3>1. HeightOf[Top(bc, c)] \in Nat BY ObjectIs, Heights
    <3> QED BY <3>1, ObjectIs
  <2> QED BY <2>2, <2>4, <2>5, <2>6, <2>7
<1>5. ASSUME h + 1 + FarFromTip + 2 <= Announced(s), NEW c \in Objs(bc),
             HasHeader(bc, c, BlockAt[iface[s].tip][h + 1])
      PROVE  HasHeader(bc, c, b)
  <2>1. h + FarFromTip + 2 <= Announced(s) BY <1>5, <1>2, ChunksHaveHeaders
  <2>2. b = BlockAt[iface[s].tip][h] BY <2>1 DEF Said
  <2> DEFINE x == BlockAt[iface[s].tip][h + 1]
  <2>3. h + 1 \in 0 .. HeightOf[iface[s].tip] /\ h \in 0 .. HeightOf[iface[s].tip] BY <2>1, <1>2, ChunksHaveHeaders
  <2>4. x \in Blocks /\ HeightOf[x] = h + 1 /\ Below(x, iface[s].tip) BY <2>3, <1>2, BelowAt
  <2>5. Below(b, iface[s].tip) BY <2>2, <2>3, <1>2 DEF Below
  <2>6. Below(b, x) BY <2>4, <2>5, <1>1, <1>2, BelowBoth
  <2>7. Top(bc, c) \in Blocks BY ObjectIs
  <2>8. Below(x, Top(bc, c)) BY <1>5, <2>4, HasIs
  <2>9. Below(b, Top(bc, c)) BY <2>6, <2>7, <2>8, <2>4, <1>1, BelowAll
  <2> QED BY <2>9, <1>1, HasIs
<1>6. Low(s, bc, o, h + 1)
  <2>1. h + 1 + FarFromTip + 1 <= Announced(s) => h + FarFromTip + 2 <= Announced(s) BY <1>2, ChunksHaveHeaders
  <2>2. h + 1 + FarFromTip + 2 <= Announced(s) => h + FarFromTip + 2 <= Announced(s) BY <1>2, ChunksHaveHeaders
  <2> QED BY <2>1, <2>2, <1>4, <1>5 DEF Low
<1> QED BY <1>3, <1>6

LEMMA HeightsBounded == \E m \in Nat : \A b \in Blocks : HeightOf[b] <= m
<1> DEFINE A == {B \in SUBSET Blocks : \E m \in Nat : \A b \in B : HeightOf[b] <= m}
<1>1. {} \in A
  <2>1. 0 \in Nat /\ \A b \in {} : HeightOf[b] <= 0 OBVIOUS
  <2> QED BY <2>1
<1>2. ASSUME NEW B \in SUBSET Blocks, NEW x \in B, B \ {x} \in A PROVE B \in A
  <2>1. PICK m \in Nat : \A b \in B \ {x} : HeightOf[b] <= m BY <1>2
  <2>2. HeightOf[x] \in Nat /\ \A b \in B : HeightOf[b] \in Nat BY Heights
  <2>3. CASE HeightOf[x] <= m BY <2>3, <2>1
  <2>4. CASE m < HeightOf[x]
    <3>1. \A b \in B : HeightOf[b] <= HeightOf[x] BY <2>1, <2>2, <2>4
    <3> QED BY <3>1, <2>2
  <2> QED BY <2>2, <2>3, <2>4
<1>3. SUBSET Blocks \subseteq A
  <2>1. \A B \in SUBSET Blocks : B # {} => \E x \in B : B \ {x} \in A => B \in A BY <1>2
  <2> HIDE DEF A
  <2> QED BY <1>1, <2>1, BlocksLinked, SubsetInduction
<1>4. Blocks \in A BY <1>3
<1> QED BY <1>4

(* The highest of the chains *)
LEMMA TopHeightIs ==
    ASSUME NEW st, Sound(st), Kept(st)
    PROVE  Largest({0} \cup {Tall(st, o) : o \in ToSet(st.order)}) \in Int
<1> DEFINE S == {0} \cup {Tall(st, o) : o \in ToSet(st.order)}
<1>1. ToSet(st.order) = Objs(st) BY DEF Kept, ToSet, Range
<1>2. PICK m \in Nat : \A b \in Blocks : HeightOf[b] <= m BY HeightsBounded
<1>3. ASSUME NEW o \in Objs(st) PROVE Tall(st, o) \in Int /\ Tall(st, o) <= m
  <2>1. Top(st, o) \in Blocks /\ (Tall(st, o) = HeightOf[Top(st, o)] \/ Tall(st, o) = -1) BY ObjectIs
  <2>2. HeightOf[Top(st, o)] \in Nat /\ HeightOf[Top(st, o)] <= m BY <2>1, <1>2, Heights
  <2> QED BY <2>1, <2>2
<1>4. S \in SUBSET Int /\ 0 \in S /\ \A x \in S : x <= m BY <1>1, <1>3
<1>5. Largest(S) \in S
  <2> HIDE DEF S
  <2> QED BY <1>4, LargestIs
<1> QED BY <1>4, <1>5

(* Who holds the lock, and how far it is *)
LEMMA HolderOfLock ==
    ASSUME IInv, NEW s, NEW at, Holds(s, at)
    PROVE  /\ lock # None /\ lock.srv = s /\ lock.at = at /\ s \in Servers
           /\ Sound(bc) /\ Kept(bc) /\ Served /\ LockInv /\ iface[s].waiting /\ SaidAll(s, lock.cache)
           /\ at = "step" \/ at = "single" => SyncInv(s)
           /\ at = "backward" => BackwardInv(s)
           /\ at = "binary" => BinaryInv(s)
<1>1. lock # None /\ lock.srv = s /\ lock.at = at BY DEF Holds
<1>2. SyncInv(s) \/ BackwardInv(s) \/ BinaryInv(s) BY <1>1 DEF IInv, LockInv
<1>3. at = "step" \/ at = "single" => SyncInv(s) BY <1>1, <1>2 DEF BackwardInv, BinaryInv
<1>4. at = "backward" => BackwardInv(s) BY <1>1, <1>2 DEF SyncInv, BinaryInv
<1>5. at = "binary" => BinaryInv(s) BY <1>1, <1>2 DEF SyncInv, BackwardInv
<1> QED BY <1>1, <1>3, <1>4, <1>5 DEF IInv, LockInv

(* The lock is held on, with other chains for the interface or not. *)
LEMMA LockStays ==
    ASSUME IInv, NEW s \in Servers, lock # None, lock.srv = s, Extends(bc, bc'), tip' = tip,
           NEW o \in Objs(bc'), iface' = [iface EXCEPT ![s].chain = o],
           NEW l, lock' = l, l.srv = s,
           DOMAIN l = {"srv", "at", "height", "good", "bad", "delta", "last", "cache"},
           SaidAll(s, l.cache),
           \/ l.at = "backward" /\ l.height \in Int /\ l.height < HeightOf[l.bad] /\ l.delta \in Nat \ {0}
           \/ l.at = "binary" /\ l.good \in Nat /\ l.good < HeightOf[l.bad] /\ bc'.file[Main] # << >>
           \/ l.at \in {"step", "single"} /\ l.height \in 1 .. Announced(s) /\ Low(s, bc', o, l.height),
           l.at \notin {"step", "single"} => Said(s, l.bad) /\ HeightOf[l.bad] \in 1 .. Announced(s)
    PROVE  IInv'
<1>1. Sound(bc) /\ Kept(bc) /\ Served /\ LockInv /\ iface[s].waiting BY DEF IInv, LockInv
<1>2. iface \in [Servers -> Interfaces] /\ iface[s] \in Interfaces BY <1>1 DEF Served
<1>3. iface' = [iface EXCEPT ![s].chain = o, ![s].waiting = TRUE]
  <2>1. iface[s] = [iface[s] EXCEPT !.waiting = TRUE] BY <1>1, <1>2 DEF Interfaces
  <2>2. [iface[s] EXCEPT !.chain = o] = [iface[s] EXCEPT !.chain = o, !.waiting = TRUE] BY <2>1, <1>2, <1>1 DEF Interfaces
  <2>3. iface' = [iface EXCEPT ![s] = [iface[s] EXCEPT !.chain = o]] BY <1>2
  <2>4. [iface EXCEPT ![s].chain = o, ![s].waiting = TRUE]
        = [iface EXCEPT ![s] = [iface[s] EXCEPT !.chain = o, !.waiting = TRUE]] BY <1>2
  <2> QED BY <2>2, <2>3, <2>4
<1>4. Served' /\ iface'[s] = [iface[s] EXCEPT !.chain = o, !.waiting = TRUE]
  BY <1>1, <1>3, ChainChanges
<1>5. /\ iface'[s].tip = iface[s].tip /\ iface'[s].queue = iface[s].queue /\ iface'[s].chain = o
      /\ iface'[s].waiting
  BY <1>2, <1>4 DEF Interfaces
<1>6. Announced(s)' = Announced(s) BY <1>5 DEF Announced
<1>7. \A b : Said(s, b) => Said(s, b)' BY <1>5, <1>6 DEF Said
<1>8. SaidAll(s, lock.cache)' BY <1>6, <1>7 DEF SaidAll
<1>9. \A h : ChunkEnd(s, h)' = ChunkEnd(s, h) BY <1>6 DEF ChunkEnd
<1>10. SyncInv(s)' \/ BackwardInv(s)' \/ BinaryInv(s)'
  <2>1. CASE l.at = "backward" /\ l.height \in Int /\ l.height < HeightOf[l.bad] /\ l.delta \in Nat \ {0}
    BY <2>1, <1>6, <1>7 DEF BackwardInv
  <2>2. CASE l.at = "binary" /\ l.good \in Nat /\ l.good < HeightOf[l.bad] /\ bc'.file[Main] # << >>
    BY <2>2, <1>6, <1>7 DEF BinaryInv
  <2>3. CASE l.at \in {"step", "single"} /\ l.height \in 1 .. Announced(s) /\ Low(s, bc', o, l.height)
    <3>1. Low(s, bc, o, l.height)' BY <2>3, <1>5, <1>6, <1>9 DEF Low
    <3> QED BY <3>1, <2>3, <1>5, <1>6 DEF SyncInv
  <2> QED BY <2>1, <2>2, <2>3
<1>11. LockInv' BY <1>5, <1>8, <1>10 DEF LockInv
<1>12. Sound(bc)' /\ Kept(bc)' BY DEF Extends
<1> QED BY <1>4, <1>11, <1>12 DEF IInv

(* A server's chain changes to itself. *)
LEMMA SameInterface ==
    ASSUME Served, NEW s \in Servers, iface' = iface
    PROVE  iface' = [iface EXCEPT ![s].chain = iface[s].chain]
<1>1. iface \in [Servers -> Interfaces] /\ iface[s] \in Interfaces BY DEF Served
<1>2. [iface[s] EXCEPT !.chain = iface[s].chain] = iface[s] BY <1>1 DEF Interfaces
<1>3. [iface EXCEPT ![s] = iface[s]] = iface BY <1>1
<1> QED BY <1>1, <1>2, <1>3

(* A main file without headers *)
LEMMA EmptyRoot ==
    ASSUME NEW st, Sound(st), Kept(st), st.file[Main] = << >>
    PROVE  Objs(st) = {1} /\ File(st, 1) = << >> /\ Top(st, 1) = Genesis /\ Tall(st, 1) = -1
<1>1. 1 \in Objs(st) /\ 0 \notin Objs(st) BY DEF Objs, Sound, Shape, States
<1>2. Top(st, 1) \in Blocks /\ HeightOf[Top(st, 1)] \in Nat BY <1>1, ObjectIs, Heights
<1> DEFINE c == Holder(st, 1, 0)
<1>3. c \in Objs(st) /\ st.chain[c].forkpoint <= 0 BY <1>1, <1>2, HolderHas
<1> HIDE DEF c
<1>4. st.chain[c].forkpoint \in 0 .. HeightOf[Top(st, c)] /\ HeightOf[Top(st, c)] \in Nat BY <1>3, ObjectIs, Heights
<1>5. st.chain[c].forkpoint = 0 BY <1>3, <1>4
<1>6. st.chain[c].parent = 0 BY <1>3, <1>5, ObjectIs
<1>7. File(st, c) = << >> BY <1>6 DEF File, Path
<1>8. Len(st.chain) = 1 /\ Top(st, c) = Genesis /\ Tall(st, c) = -1 BY <1>3, <1>7, ObjectIs
<1>9. Objs(st) = {1} BY <1>8 DEF Objs
<1>10. c = 1 BY <1>3, <1>9
<1> QED BY <1>7, <1>8, <1>9, <1>10

LEMMA StepKeeps ==
    ASSUME ShortBranches, IInv, NEW s \in Servers, Step(s)
    PROVE  IInv' /\ Extends(bc, bc')
<1> DEFINE cache == Warmed(lock.cache, s, lock.height, Announced(s))
           b     == cache[lock.height]
           known == WithHeader(bc, b)
           under == WithTipBefore(bc, b)
           top   == Largest({0} \cup {Tall(bc, o) : o \in ToSet(bc.order)})
<1>1. /\ lock # None /\ lock.srv = s /\ lock.at \in {"step", "single"}
      /\ Sound(bc) /\ Kept(bc) /\ Served /\ LockInv /\ iface[s].waiting /\ SaidAll(s, lock.cache) /\ SyncInv(s)
  BY HolderOfLock DEF Step, Holds
<1>2. Announced(s) \in Nat BY <1>1, AskedServer
<1>3. lock.height \in 1 .. Announced(s) /\ Low(s, bc, iface[s].chain, lock.height) BY <1>1 DEF SyncInv
<1>4. SaidAll(s, cache) /\ lock.height \in DOMAIN cache
  <2>1. lock.height \in Nat /\ Announced(s) \in 0 .. Announced(s) BY <1>2, <1>3
  <2>2. SaidAll(s, cache) /\ lock.height .. Announced(s) \subseteq DOMAIN cache
    <3> HIDE DEF cache
    <3>1. cache = Warmed(lock.cache, s, lock.height, Announced(s)) BY DEF cache
    <3> QED BY <3>1, <2>1, <1>1, WarmedIs
  <2> HIDE DEF cache
  <2>3. lock.height \in lock.height .. Announced(s) BY <1>2, <1>3
  <2> QED BY <2>2, <2>3
<1>5. CASE known # 0 /\ GoOn(s, "catchup", lock.height + 1, known, cache) /\ bc' = bc
  <2> HIDE DEF cache
  <2>1. Said(s, b) /\ HeightOf[b] = lock.height BY <1>4 DEF SaidAll
  <2> HIDE DEF b
  <2>2. known \in Objs(bc) /\ HasHeader(bc, known, b) BY <1>1, <1>5, WithHeaderIs
  <2> HIDE DEF known
  <2>3. Extends(bc, bc') BY <1>1, <1>5, ExtendsItself
  <2>4. /\ lock.height + 1 > Announced(s) /\ iface[s].queue = << >> => HasHeader(bc', known, iface[s].tip)
        /\ Low(s, bc', known, lock.height + 1)
    BY <1>1, <1>3, <1>5, <2>1, <2>2, KnownLow
  <2>5. lock.height + 1 \in 1 .. Announced(s) + 1 /\ known \in Objs(bc') BY <1>2, <1>3, <1>5, <2>2
  <2>6. tip' = tip BY DEF Step
  <2>7. IInv' BY <1>1, <1>4, <1>5, <2>3, <2>4, <2>5, <2>6, GoOnKeeps
  <2> QED BY <2>3, <2>7
<1>6. CASE known = 0 /\ under # 0 /\ Save(s, under, b, cache)
  <2> HIDE DEF cache
  <2>1. Said(s, b) /\ HeightOf[b] = lock.height BY <1>4 DEF SaidAll
  <2> HIDE DEF b
  <2>2. under \in Objs(bc) /\ ConnectsToTip(bc, under, b) BY <1>1, <1>6, WithTipBeforeIs
  <2> HIDE DEF under
  <2>3. HeightOf[b] <= Announced(s) BY <1>2, <1>3, <2>1
  <2>4. tip' = tip BY DEF Step
  <2> QED BY <1>1, <1>4, <1>6, <2>1, <2>2, <2>3, <2>4, SaveKeeps
<1>7. CASE /\ known = 0 /\ under = 0
           /\ lock' = [lock EXCEPT !.at = "backward", !.bad = b, !.cache = cache, !.delta = 2,
                                   !.height = IF top + 1 < @ THEN top + 1 ELSE @ - 1]
           /\ bc' = bc /\ iface' = iface
  <2>1. top \in Int BY <1>1, TopHeightIs
  <2> HIDE DEF cache, top, known, under
  <2>2. Said(s, b) /\ HeightOf[b] = lock.height BY <1>4 DEF SaidAll
  <2> HIDE DEF b
  <2> DEFINE h == IF top + 1 < lock.height THEN top + 1 ELSE lock.height - 1
  <2>3. h \in Int /\ h < lock.height BY <2>1, <1>2, <1>3
  <2>4. DOMAIN lock = {"srv", "at", "height", "good", "bad", "delta", "last", "cache"}
    BY <1>1 DEF LockInv
  <2>5. lock' = [lock EXCEPT !.at = "backward", !.bad = b, !.cache = cache, !.delta = 2, !.height = h]
    BY <1>7
  <2> HIDE DEF h
  <2>6. /\ DOMAIN lock' = {"srv", "at", "height", "good", "bad", "delta", "last", "cache"}
        /\ lock'.srv = s /\ lock'.at = "backward" /\ lock'.height = h /\ lock'.bad = b /\ lock'.delta = 2
        /\ lock'.cache = cache
    BY <2>4, <2>5, <1>1
  <2>7. Extends(bc, bc') BY <1>1, <1>7, ExtendsItself
  <2>8. iface[s].chain \in Objs(bc') BY <1>1, <1>7, AskedServer
  <2>9. iface' = [iface EXCEPT ![s].chain = iface[s].chain] BY <1>1, <1>7, SameInterface
  <2>10. tip' = tip BY DEF Step
  <2>11. lock'.height \in Int /\ lock'.height < HeightOf[lock'.bad] /\ lock'.delta \in Nat \ {0}
    BY <2>2, <2>3, <2>6
  <2>12. Said(s, lock'.bad) /\ HeightOf[lock'.bad] \in 1 .. Announced(s) BY <2>2, <2>6, <1>3
  <2>13. SaidAll(s, lock'.cache) BY <2>6, <1>4
  <2>14. IInv' BY <1>1, <2>6, <2>7, <2>8, <2>9, <2>10, <2>11, <2>12, <2>13, LockStays
  <2> QED BY <2>7, <2>14
<1>8. \/ known # 0 /\ GoOn(s, "catchup", lock.height + 1, known, cache) /\ bc' = bc
      \/ known = 0 /\ under # 0 /\ Save(s, under, b, cache)
      \/ /\ known = 0 /\ under = 0
         /\ lock' = [lock EXCEPT !.at = "backward", !.bad = b, !.cache = cache, !.delta = 2,
                                   !.height = IF top + 1 < @ THEN top + 1 ELSE @ - 1]
         /\ bc' = bc /\ iface' = iface
  BY DEF Step
<1> QED BY <1>5, <1>6, <1>7, <1>8

LEMMA BackwardKeeps ==
    ASSUME ShortBranches, IInv, NEW s \in Servers, Backward(s)
    PROVE  IInv' /\ Extends(bc, bc')
<1> DEFINE h     == IF lock.height < 0 THEN 0 ELSE lock.height
           low   == IF h > 10 THEN h - 10 ELSE 0
           cache == IF lock.delta = 2 THEN Warmed(lock.cache, s, low, h) ELSE lock.cache
           b     == Asked(cache, s, h)
           known == WithHeader(bc, b)
           under == WithTipBefore(bc, b)
<1>1. /\ lock # None /\ lock.srv = s /\ lock.at = "backward"
      /\ Sound(bc) /\ Kept(bc) /\ Served /\ LockInv /\ iface[s].waiting /\ SaidAll(s, lock.cache) /\ BackwardInv(s)
  BY HolderOfLock DEF Backward
<1>2. Announced(s) \in Nat BY <1>1, AskedServer
<1>3. /\ lock.height \in Int /\ lock.height < HeightOf[lock.bad] /\ lock.delta \in Nat \ {0}
      /\ Said(s, lock.bad) /\ HeightOf[lock.bad] \in 1 .. Announced(s)
  BY <1>1 DEF BackwardInv
<1>4. h \in 0 .. Announced(s) /\ h < HeightOf[lock.bad] /\ h < Announced(s) /\ h \in Nat /\ low \in Nat BY <1>2, <1>3
<1>5. SaidAll(s, cache)
  <2>1. CASE lock.delta = 2
    <3> HIDE DEF h, low
    <3> DEFINE w == Warmed(lock.cache, s, low, h)
    <3>1. SaidAll(s, w)
      <4>1. w = Warmed(lock.cache, s, low, h) OBVIOUS
      <4> HIDE DEF w
      <4> QED BY <4>1, <1>1, <1>4, WarmedIs
    <3> QED BY <2>1, <3>1
  <2>2. CASE lock.delta # 2 BY <2>2, <1>1
  <2> QED BY <2>1, <2>2
<1>6. Said(s, b) /\ HeightOf[b] = h
  <2> HIDE DEF cache, h
  <2> QED BY <1>1, <1>4, <1>5, AskedIs
<1>7. tip' = tip BY DEF Backward
<1>8. \/ /\ known = 0 /\ under = 0
         /\ lock' = [lock EXCEPT !.bad = b, !.height = h - lock.delta,
                                          !.delta = 2 * @, !.cache = cache]
         /\ bc' = bc /\ iface' = iface
      \/ under # 0 /\ Save(s, under, b, cache)
      \/ /\ known # 0 /\ under = 0
         /\ lock' = [lock EXCEPT !.at = "binary", !.good = h, !.cache = cache]
         /\ iface' = [iface EXCEPT ![s].chain = known]
         /\ bc' = bc
  BY DEF Backward
<1>9. DOMAIN lock = {"srv", "at", "height", "good", "bad", "delta", "last", "cache"}
  BY <1>1 DEF LockInv
<1> HIDE DEF cache, h, b
<1>10. CASE /\ known = 0 /\ under = 0
            /\ lock' = [lock EXCEPT !.bad = b, !.height = h - lock.delta,
                                          !.delta = 2 * @, !.cache = cache]
            /\ bc' = bc /\ iface' = iface
  <2>1. b # Genesis BY <1>1, <1>10, GenesisIsKnown
  <2>2. h # 0 BY <1>6, <2>1, GenesisIsLowest DEF Said
  <2>3. /\ DOMAIN lock' = {"srv", "at", "height", "good", "bad", "delta", "last", "cache"}
        /\ lock'.srv = s /\ lock'.at = "backward" /\ lock'.height = h - lock.delta /\ lock'.bad = b
        /\ lock'.delta = 2 * lock.delta /\ lock'.cache = cache
    BY <1>9, <1>10, <1>1
  <2>4. Extends(bc, bc') BY <1>1, <1>10, ExtendsItself
  <2>5. iface[s].chain \in Objs(bc') BY <1>1, <1>10, AskedServer
  <2>6. iface' = [iface EXCEPT ![s].chain = iface[s].chain] BY <1>1, <1>10, SameInterface
  <2>7. lock'.height \in Int /\ lock'.height < HeightOf[lock'.bad] /\ lock'.delta \in Nat \ {0}
    BY <1>3, <1>4, <1>6, <2>3
  <2>8. Said(s, lock'.bad) /\ HeightOf[lock'.bad] \in 1 .. Announced(s) BY <1>4, <1>6, <2>2, <2>3
  <2>9. SaidAll(s, lock'.cache) BY <1>5, <2>3
  <2>10. IInv' BY <1>1, <1>7, <2>3, <2>4, <2>5, <2>6, <2>7, <2>8, <2>9, LockStays
  <2> QED BY <2>4, <2>10
<1>11. CASE under # 0 /\ Save(s, under, b, cache)
  <2>1. under \in Objs(bc) /\ ConnectsToTip(bc, under, b) BY <1>1, <1>11, WithTipBeforeIs
  <2> HIDE DEF under
  <2>2. HeightOf[b] <= Announced(s) BY <1>2, <1>4, <1>6
  <2> QED BY <1>1, <1>5, <1>6, <1>7, <1>11, <2>1, <2>2, SaveKeeps
<1>12. CASE /\ known # 0 /\ under = 0
            /\ lock' = [lock EXCEPT !.at = "binary", !.good = h, !.cache = cache]
            /\ iface' = [iface EXCEPT ![s].chain = known]
            /\ bc' = bc
  <2>1. known \in Objs(bc) /\ HasHeader(bc, known, b) BY <1>1, <1>12, WithHeaderIs
  <2>2. \A o \in Objs(bc) : ~ ConnectsToTip(bc, o, b) BY <1>1, <1>12, WithTipBeforeIs
  <2> HIDE DEF known, under
  <2>3. bc.file[Main] # << >>
    <3> SUFFICES ASSUME bc.file[Main] = << >> PROVE FALSE OBVIOUS
    <3>1. Objs(bc) = {1} /\ Top(bc, 1) = Genesis /\ Tall(bc, 1) = -1 BY <1>1, EmptyRoot
    <3>2. known = 1 BY <2>1, <3>1
    <3>3. b \in Blocks /\ Below(b, Genesis) BY <1>1, <1>6, <2>1, <3>1, <3>2, HasIs DEF Said
    <3>4. b = Genesis /\ HeightOf[b] = 0 BY <3>3, Heights, GenesisIsLowest DEF Below
    <3>5. ConnectsToTip(bc, 1, b) BY <3>1, <3>4 DEF ConnectsToTip, Connects
    <3> QED BY <2>2, <3>1, <3>5
  <2>4. /\ DOMAIN lock' = {"srv", "at", "height", "good", "bad", "delta", "last", "cache"}
        /\ lock'.srv = s /\ lock'.at = "binary" /\ lock'.good = h /\ lock'.bad = lock.bad
        /\ lock'.cache = cache
    BY <1>9, <1>12, <1>1
  <2>5. Extends(bc, bc') BY <1>1, <1>12, ExtendsItself
  <2>6. known \in Objs(bc') BY <1>12, <2>1
  <2>7. lock'.good \in Nat /\ lock'.good < HeightOf[lock'.bad] /\ bc'.file[Main] # << >>
    BY <1>4, <1>12, <2>3, <2>4
  <2>8. Said(s, lock'.bad) /\ HeightOf[lock'.bad] \in 1 .. Announced(s) BY <1>3, <2>4
  <2>9. SaidAll(s, lock'.cache) BY <1>5, <2>4
  <2>10. IInv' BY <1>1, <1>7, <1>12, <2>4, <2>5, <2>6, <2>7, <2>8, <2>9, LockStays
  <2> QED BY <2>5, <2>10
<1> QED BY <1>8, <1>10, <1>11, <1>12

(* What is done with a header that does not connect to what is known *)
LEMMA ResolveKeeps ==
    ASSUME IInv, NEW s \in Servers, lock # None, lock.srv = s, tip' = tip, bc.file[Main] # << >>,
           NEW good \in Nat, NEW bad, Said(s, bad), good + 1 = HeightOf[bad], HeightOf[bad] <= Announced(s),
           NEW o \in Objs(bc), NEW cache, SaidAll(s, cache), Resolve(s, good, bad, o, cache)
    PROVE  IInv' /\ Extends(bc, bc')
<1>1. Sound(bc) /\ Kept(bc) /\ Served /\ iface[s].waiting BY DEF IInv, LockInv
<1>2. bad \in Blocks /\ Announced(s) \in Nat BY <1>1, AskedServer DEF Said
<1>3. CASE Gone(s) /\ bc' = bc
  <2>1. Extends(bc, bc') BY <1>1, <1>3, ExtendsItself
  <2> QED BY <1>3, <2>1, GoneKeeps
<1>4. CASE /\ Connects(bc, o, bad) /\ WithHeader(bc, bad) = 0 /\ Tall(bc, o) = good
           /\ GoOn(s, "noFork", good + 1, o, cache) /\ bc' = bc
  <2>1. Extends(bc, bc') BY <1>1, <1>4, ExtendsItself
  <2>2. good + 1 \in 0 .. Announced(s) /\ good + 1 \in 1 .. Announced(s) + 1 /\ ~ (good + 1 > Announced(s))
    BY <1>2
  <2>3. \A c \in Objs(bc) : ~ HasHeader(bc, c, bad) BY <1>1, <1>4, WithHeaderIs
  <2>4. good <= ChunkEnd(s, good + 1)
    <3>1. ChunkEnd(s, good + 1) \in (good + 1) .. Announced(s) BY <1>2, <2>2, ChunkEndIs
    <3> HIDE DEF ChunkEnd
    <3> QED BY <1>2, <3>1
  <2>5. good + 1 + FarFromTip + 2 <= Announced(s) => bad = BlockAt[iface[s].tip][good + 1] BY DEF Said
  <2>6. Low(s, bc', o, good + 1) BY <1>4, <2>3, <2>4, <2>5 DEF Low
  <2>7. o \in Objs(bc') BY <1>4
  <2>8. IInv' BY <1>4, <2>1, <2>2, <2>6, <2>7, GoOnKeeps
  <2> QED BY <2>1, <2>8
<1>5. CASE /\ Connects(bc, o, bad) /\ WithHeader(bc, bad) = 0 /\ Tall(bc, o) # good
           /\ bc' = Fork(bc, o, bad) /\ GoOn(s, "fork", HeightOf[bad] + 1, Len(Fork(bc, o, bad).chain), cache)
  <2>1. bad # Genesis /\ Tall(bc, o) # HeightOf[bad] - 1
    <3>1. HeightOf[bad] # 0 /\ HeightOf[bad] - 1 = good OBVIOUS
    <3> QED BY <1>5, <3>1, Heights
  <2>2. File(bc, o) # << >>
    <3>1. File(bc, o) = << >> => bc.chain[o].parent = 0 BY <1>1, ObjectIs
    <3> QED BY <3>1 DEF File, Path
  <2>3. \A c \in Objs(bc) : ~ HasHeader(bc, c, bad) BY <1>1, <1>5, WithHeaderIs
  <2> DEFINE v == Fork(bc, o, bad)
  <2>4. Forked(bc, v, bad) BY <1>1, <1>2, <1>5, <2>1, <2>2, <2>3, ForkIs
  <2>5. bc' = v /\ GoOn(s, "fork", HeightOf[bad] + 1, Len(v.chain), cache) BY <1>5
  <2> HIDE DEF v
  <2>6. Extends(bc, bc') BY <1>1, <2>4, <2>5, ExtendsForked
  <2> DEFINE n == Len(v.chain)
  <2>7. n \in Objs(v) /\ Sound(v)
    <3>1. Sound(v) BY <2>4 DEF Forked
    <3>2. n \in Nat /\ n >= 1 BY <3>1 DEF Sound, Shape, States
    <3>3. Objs(v) = 1 .. n BY DEF Objs
    <3> HIDE DEF n
    <3> QED BY <3>1, <3>2, <3>3
  <2>8. Top(v, n) = bad /\ File(v, n) # << >> BY <2>4 DEF Forked
  <2>a. GoOn(s, "fork", HeightOf[bad] + 1, n, cache) BY <2>5
  <2> HIDE DEF n
  <2>9. /\ HeightOf[bad] + 1 \in 1 .. Announced(s) + 1
        /\ HeightOf[bad] + 1 > Announced(s) /\ iface[s].queue = << >> => HasHeader(v, n, iface[s].tip)
        /\ Low(s, v, n, HeightOf[bad] + 1)
    BY <1>1, <2>7, <2>8, TopLow
  <2>10. IInv' BY <2>5, <2>6, <2>7, <2>9, <2>a, GoOnKeeps
  <2> QED BY <2>6, <2>10
<1> QED BY <1>3, <1>4, <1>5 DEF Resolve

LEMMA BinaryKeeps ==
    ASSUME ShortBranches, IInv, NEW s \in Servers, Binary(s)
    PROVE  IInv' /\ Extends(bc, bc')
<1> DEFINE low   == lock.good
           high  == HeightOf[lock.bad]
           mid   == (low + high) \div 2
           cache == Warmed(lock.cache, s, low, high)
           b     == Asked(cache, s, mid)
           known == WithHeader(bc, b)
           good  == IF known # 0 THEN mid ELSE low
           bad   == IF known # 0 THEN lock.bad ELSE b
           o     == IF known # 0 THEN known ELSE iface[s].chain
<1>1. /\ lock # None /\ lock.srv = s /\ lock.at = "binary"
      /\ Sound(bc) /\ Kept(bc) /\ Served /\ LockInv /\ iface[s].waiting /\ SaidAll(s, lock.cache) /\ BinaryInv(s)
  BY HolderOfLock DEF Binary
<1>2. Announced(s) \in Nat BY <1>1, AskedServer
<1>3. /\ low \in Nat /\ low < high /\ high \in 1 .. Announced(s) /\ Said(s, lock.bad) /\ bc.file[Main] # << >>
  BY <1>1 DEF BinaryInv
<1>4. tip' = tip BY DEF Binary
<1>5. IF good + 1 = HeightOf[bad] THEN Resolve(s, good, bad, o, cache)
      ELSE IF good >= HeightOf[bad] THEN Gone(s) /\ bc' = bc
      ELSE /\ lock' = [lock EXCEPT !.good = good, !.bad = bad, !.cache = cache]
           /\ iface' = [iface EXCEPT ![s].chain = o]
           /\ bc' = bc
  BY DEF Binary
<1> HIDE DEF low, high
<1>6. mid \in Nat /\ mid \in 0 .. Announced(s) BY <1>2, <1>3
<1> HIDE DEF mid
<1>7. SaidAll(s, cache)
  <2>1. high \in 0 .. Announced(s) BY <1>2, <1>3
  <2> HIDE DEF cache
  <2>2. cache = Warmed(lock.cache, s, low, high) BY DEF cache
  <2> QED BY <1>1, <1>3, <2>1, <2>2, WarmedIs
<1> HIDE DEF cache
<1>8. Said(s, b) /\ HeightOf[b] = mid BY <1>1, <1>6, <1>7, AskedIs
<1> HIDE DEF b
<1>9. \/ known \in Objs(bc) /\ known # 0
      \/ known = 0 /\ \A c \in Objs(bc) : ~ HasHeader(bc, c, b)
  BY <1>1, WithHeaderIs
<1>10. known = 0 => b # Genesis BY <1>1, GenesisIsKnown
<1>11. b \in Blocks BY <1>8 DEF Said
<1> HIDE DEF known
<1>12. known = 0 => HeightOf[b] \in 1 .. Announced(s)
  <2>1. known = 0 => HeightOf[b] # 0 BY <1>10, <1>11, GenesisIsLowest
  <2> QED BY <1>6, <1>8, <2>1
<1>13. good \in Nat BY <1>3, <1>6
<1>14. Said(s, bad) /\ HeightOf[bad] \in 1 .. Announced(s) BY <1>3, <1>8, <1>12 DEF high
<1>15. o \in Objs(bc) BY <1>1, <1>9, AskedServer
<1> HIDE DEF good, bad, o
<1>16. CASE good + 1 = HeightOf[bad]
  <2>1. Resolve(s, good, bad, o, cache) BY <1>5, <1>16
  <2>2. HeightOf[bad] <= Announced(s) BY <1>2, <1>14
  <2> QED BY <1>1, <1>3, <1>4, <1>7, <1>13, <1>14, <1>15, <1>16, <2>1, <2>2, ResolveKeeps
<1>17. CASE good + 1 # HeightOf[bad] /\ good >= HeightOf[bad]
  <2>1. Gone(s) /\ bc' = bc BY <1>5, <1>17
  <2>2. Extends(bc, bc') BY <1>1, <2>1, ExtendsItself
  <2> QED BY <1>4, <2>1, <2>2, GoneKeeps
<1>18. CASE good + 1 # HeightOf[bad] /\ ~ (good >= HeightOf[bad])
  <2>1. /\ lock' = [lock EXCEPT !.good = good, !.bad = bad, !.cache = cache]
        /\ iface' = [iface EXCEPT ![s].chain = o]
        /\ bc' = bc
    BY <1>5, <1>18
  <2>2. DOMAIN lock = {"srv", "at", "height", "good", "bad", "delta", "last", "cache"}
    BY <1>1 DEF LockInv
  <2>3. /\ DOMAIN lock' = {"srv", "at", "height", "good", "bad", "delta", "last", "cache"}
        /\ lock'.srv = s /\ lock'.at = "binary" /\ lock'.good = good /\ lock'.bad = bad
        /\ lock'.cache = cache
    BY <1>1, <2>1, <2>2
  <2>4. Extends(bc, bc') BY <1>1, <2>1, ExtendsItself
  <2>5. o \in Objs(bc') BY <1>15, <2>1
  <2>6. good < HeightOf[bad] BY <1>13, <1>14, <1>18
  <2>7. lock'.good \in Nat /\ lock'.good < HeightOf[lock'.bad] /\ bc'.file[Main] # << >>
    BY <1>3, <1>13, <2>1, <2>3, <2>6
  <2>8. Said(s, lock'.bad) /\ HeightOf[lock'.bad] \in 1 .. Announced(s) BY <1>14, <2>3
  <2>9. SaidAll(s, lock'.cache) BY <1>7, <2>3
  <2>10. IInv' BY <1>1, <1>4, <2>1, <2>3, <2>4, <2>5, <2>7, <2>8, <2>9, LockStays
  <2> QED BY <2>4, <2>10
<1> QED BY <1>16, <1>17, <1>18

-----------------------------------------------------------------------------
(*                        Going forward, chunk by chunk                      *)

(* The first height of a chunk; after the last chunk that of the next header *)
From(s, i) == IF i * ChunkSize <= Announced(s) THEN i * ChunkSize ELSE Announced(s) + 1

LEMMA FromIs ==
    ASSUME NEW s, Announced(s) \in Nat, NEW i \in Nat
    PROVE  /\ From(s, i) \in 0 .. Announced(s) + 1
           /\ From(s, i + 1) \in 0 .. Announced(s) + 1
           /\ From(s, i) <= From(s, i + 1)
           /\ i * ChunkSize <= Announced(s) =>
                 /\ From(s, i) = i * ChunkSize /\ From(s, i) < From(s, i + 1)
                 /\ From(s, i + 1) - 1 = IF i * ChunkSize + ChunkSize - 1 < Announced(s)
                                         THEN i * ChunkSize + ChunkSize - 1 ELSE Announced(s)
<1> DEFINE low == i * ChunkSize
           high == (i + 1) * ChunkSize
<1>1. low \in Nat /\ high \in Nat
  <2>1. i + 1 \in Nat OBVIOUS
  <2> QED BY <2>1, TimesGrows
<1>2. high = low + ChunkSize BY ChunksHaveHeaders
<1>3. /\ From(s, i) = IF low <= Announced(s) THEN low ELSE Announced(s) + 1
      /\ From(s, i + 1) = IF high <= Announced(s) THEN high ELSE Announced(s) + 1
  BY DEF From
<1> HIDE DEF low, high
<1>4. ChunkSize \in Nat /\ 1 <= ChunkSize BY ChunksHaveHeaders
<1>5. From(s, i) \in 0 .. Announced(s) + 1 BY <1>1, <1>3
<1>6. From(s, i + 1) \in 0 .. Announced(s) + 1 BY <1>1, <1>3
<1>7. From(s, i) <= From(s, i + 1) BY <1>1, <1>2, <1>3, <1>4
<1>8. ASSUME low <= Announced(s)
      PROVE  /\ From(s, i) = low /\ From(s, i) < From(s, i + 1)
             /\ From(s, i + 1) - 1 = IF low + ChunkSize - 1 < Announced(s)
                                     THEN low + ChunkSize - 1 ELSE Announced(s)
  BY <1>1, <1>2, <1>3, <1>4, <1>8
<1> QED BY <1>5, <1>6, <1>7, <1>8 DEF low

(* The chunk that a server sends *)
LEMMA ChunkOfIs ==
    ASSUME Served, NEW s \in Servers, iface[s].waiting, NEW i \in Nat, i * ChunkSize <= Announced(s)
    PROVE  /\ IsChunk(ChunkOf(s, i), tip[s], i * ChunkSize, From(s, i + 1) - 1)
           /\ Len(ChunkOf(s, i)) = From(s, i + 1) - From(s, i)
<1> DEFINE low == i * ChunkSize
           end == IF low + ChunkSize - 1 < Announced(s) THEN low + ChunkSize - 1 ELSE Announced(s)
           hs == ChunkOf(s, i)
<1>1. /\ Announced(s) \in Nat /\ Announced(s) <= HeightOf[tip[s]]
      /\ tip[s] \in Blocks /\ HeightOf[tip[s]] \in Nat
  BY AskedServer
<1>2. low \in Nat /\ ChunkSize \in Nat /\ 1 <= ChunkSize BY TimesGrows, ChunksHaveHeaders
<1>3. From(s, i) = low /\ From(s, i + 1) - 1 = end /\ From(s, i + 1) \in Nat
  <2>1. From(s, i) = low /\ From(s, i + 1) - 1 = end BY <1>1, FromIs
  <2>2. From(s, i + 1) \in 0 .. Announced(s) + 1 BY <1>1, FromIs
  <2> QED BY <2>1, <2>2, <1>1
<1>4. hs = [k \in 1 .. end - low + 1 |-> BlockAt[tip[s]][low + k - 1]]
  BY DEF ChunkOf, ServerHas
<1>5. low <= Announced(s) OBVIOUS
<1> HIDE DEF low, hs
<1>6. end \in low .. HeightOf[tip[s]] BY <1>1, <1>2, <1>5
<1> HIDE DEF end
<1>7. end - low + 1 \in Nat BY <1>1, <1>2, <1>6
<1>8. ASSUME NEW k \in 1 .. end - low + 1
      PROVE  BlockAt[tip[s]][low + k - 1] \in Blocks
  <2>1. low + k - 1 \in 0 .. HeightOf[tip[s]] BY <1>1, <1>2, <1>6
  <2> QED BY <1>1, <2>1, InChain
<1> DEFINE n == end - low + 1
<1>9. hs \in [1 .. n -> Blocks] BY <1>4, <1>8
<1>10. hs \in Seq(Blocks) /\ Len(hs) = n
  <2> HIDE DEF n
  <2>1. n \in Nat BY <1>7 DEF n
  <2> QED BY <1>9, <2>1
<1>11. \A k \in 1 .. Len(hs) : hs[k] = BlockAt[tip[s]][low + k - 1] BY <1>4, <1>10
<1>12. IsChunk(hs, tip[s], low, end) BY <1>1, <1>2, <1>6, <1>10, <1>11 DEF IsChunk
<1>13. Len(hs) = From(s, i + 1) - From(s, i)
  <2>1. From(s, i + 1) = end + 1 BY <1>3, <1>1, <1>2, <1>6
  <2> QED BY <2>1, <1>3, <1>10, <1>2, <1>6, <1>1
<1> QED BY <1>3, <1>12, <1>13 DEF low, end, hs

(* A state that follows another, in which one object has grown *)
Continues(st, v, o) ==
    /\ Sound(v) /\ Kept(v) /\ Len(v.chain) = Len(st.chain)
    /\ Below(Top(st, o), Top(v, o))
    /\ \A c \in Objs(st) : c # o => Top(v, c) = Top(st, c)
    /\ ForksBelow(st) /\ NoneIsStronger(st) => ForksBelow(v) /\ NoneIsStronger(v)

LEMMA ContinuesItself ==
    ASSUME NEW st, Sound(st), Kept(st), NEW o \in Objs(st)
    PROVE  Continues(st, st, o)
<1>1. Top(st, o) \in Blocks BY TopIs
<1> QED BY <1>1, BelowItself DEF Continues

LEMMA ContinuesOn ==
    ASSUME NEW st, Sound(st), NEW o \in Objs(st), NEW v, Continues(st, v, o), NEW t, NEW w, Lengthened(v, w, o, t)
    PROVE  Continues(st, w, o)
<1>1. Objs(v) = Objs(st) /\ Len(v.chain) = Len(st.chain) BY SameObjs DEF Continues
<1>2. Top(st, o) \in Blocks BY TopIs
<1>3. Top(v, o) \in Blocks BY <1>1, TopIs DEF Continues
<1>4. Below(Top(st, o), Top(v, o)) BY DEF Continues
<1>5. t \in Blocks /\ Below(Top(v, o), t) /\ Top(w, o) = t BY DEF Lengthened
<1>6. Below(Top(st, o), Top(w, o)) BY <1>2, <1>3, <1>4, <1>5, BelowAll
<1>7. \A c \in Objs(st) : c # o => Top(w, c) = Top(st, c) BY <1>1 DEF Continues, Lengthened
<1>8. ForksBelow(st) /\ NoneIsStronger(st) => ForksBelow(w) /\ NoneIsStronger(w) BY DEF Continues, Lengthened
<1>9. Sound(w) /\ Kept(w) /\ Len(w.chain) = Len(st.chain) BY <1>1 DEF Lengthened
<1> QED BY <1>6, <1>7, <1>8, <1>9 DEF Continues

LEMMA ContinuesExtends ==
    ASSUME NEW st, Sound(st), NEW o \in Objs(st), NEW v, Continues(st, v, o)
    PROVE  Extends(st, v)
<1>1. ASSUME NEW c \in Objs(st) PROVE Below(Top(st, c), Top(v, c))
  <2>1. CASE c = o BY <2>1 DEF Continues
  <2>2. CASE c # o
    <3>1. Top(v, c) = Top(st, c) /\ Top(st, c) \in Blocks BY <2>2, TopIs DEF Continues
    <3> QED BY <3>1, BelowItself
  <2> QED BY <2>1, <2>2
<1>2. Len(v.chain) = Len(st.chain) /\ Len(st.chain) \in Nat BY DEF Continues, Sound, Shape, States
<1>3. Len(st.chain) <= Len(v.chain) BY <1>2
<1> QED BY <1>1, <1>3 DEF Continues, Extends

(* How far _fast_forward_chain is: the objects, whether it goes on, and the     *)
(* headers that have connected                                               *)
Progress(st, on, count) == [st |-> st, on |-> on, count |-> count]

(* One round of its loop *)
Round(s, o, i, a) ==
    LET hs == ChunkOf(s, i)
    IN  IF a.on /\ ConnectsChunk(a.st, o, i, hs)
          THEN Progress(SaveChunk(a.st, o, i, hs), TRUE, a.count + Len(hs))
        ELSE IF a.on /\ ChunkIsRight(a.st, o, i, hs)
          THEN Progress(SaveChunk(a.st, o, i, hs), FALSE, a.count)
        ELSE Progress(a.st, FALSE, a.count)

Values == [st : States, on : BOOLEAN, count : Int]

Goes(a, st, count) ==
    /\ a.st = st /\ a.on /\ a.count = count
    /\ st \in States /\ count \in Int => a \in Values
Stops(a, st, count) ==
    /\ a.st = st /\ ~ a.on /\ a.count = count
    /\ st \in States /\ count \in Int => a \in Values

LEMMA ProgressIs ==
    ASSUME NEW st, NEW count
    PROVE  Goes(Progress(st, TRUE, count), st, count) /\ Stops(Progress(st, FALSE, count), st, count)
<1>1. Progress(st, TRUE, count).st = st BY DEF Progress
<1>2. Progress(st, TRUE, count).count = count BY DEF Progress
<1>3. Progress(st, TRUE, count).on BY DEF Progress
<1>4. ASSUME st \in States, count \in Int PROVE Progress(st, TRUE, count) \in Values
  BY <1>4 DEF Progress, Values
<1>5. Progress(st, FALSE, count).st = st BY DEF Progress
<1>6. Progress(st, FALSE, count).count = count BY DEF Progress
<1>7. ~ Progress(st, FALSE, count).on BY DEF Progress
<1>8. ASSUME st \in States, count \in Int PROVE Progress(st, FALSE, count) \in Values
  BY <1>8 DEF Progress, Values
<1> QED BY <1>1, <1>2, <1>3, <1>4, <1>5, <1>6, <1>7, <1>8, Zenon DEF Goes, Stops

LEMMA RoundIs ==
    ASSUME NEW s, NEW o, NEW i, NEW a, NEW v, v = Round(s, o, i, a)
    PROVE  LET hs == ChunkOf(s, i)
               w == SaveChunk(a.st, o, i, hs) IN
           /\ v.st \in States /\ v.count \in Int => v \in Values
           /\ \/ a.on /\ ChunkIsRight(a.st, o, i, hs) /\ v.st = w /\ v.on /\ v.count = a.count + Len(hs)
              \/ a.on /\ ChunkIsRight(a.st, o, i, hs) /\ v.st = w /\ ~ v.on /\ v.count = a.count
              \/ v.st = a.st /\ ~ v.on /\ v.count = a.count
<1> DEFINE hs == ChunkOf(s, i)
           w == SaveChunk(a.st, o, i, hs)
           right == ChunkIsRight(a.st, o, i, hs)
           connects == ConnectsChunk(a.st, o, i, hs)
           more == Progress(w, TRUE, a.count + Len(hs))
           raised == Progress(w, FALSE, a.count)
           rest == Progress(a.st, FALSE, a.count)
<1>1. v = IF a.on /\ connects THEN more ELSE IF a.on /\ right THEN raised ELSE rest
  BY DEF Round
<1>2. Goes(more, w, a.count + Len(hs)) BY ProgressIs
<1>3. Stops(raised, w, a.count) BY ProgressIs
<1>4. Stops(rest, a.st, a.count) BY ProgressIs
<1>5. connects => right BY DEF ConnectsChunk
<1> HIDE DEF more, raised, rest, hs, w, right, connects
<1>6. v.st \in States /\ v.count \in Int => v \in Values
  BY <1>1, <1>2, <1>3, <1>4 DEF Goes, Stops
<1>7. \/ a.on /\ right /\ v.st = w /\ v.on /\ v.count = a.count + Len(hs)
      \/ a.on /\ right /\ v.st = w /\ ~ v.on /\ v.count = a.count
      \/ v.st = a.st /\ ~ v.on /\ v.count = a.count
  <2>1. CASE a.on /\ connects BY <2>1, <1>1, <1>2, <1>5 DEF Goes
  <2>2. CASE ~ (a.on /\ connects) /\ a.on /\ right BY <2>2, <1>1, <1>3 DEF Stops
  <2>3. CASE ~ (a.on /\ connects) /\ ~ (a.on /\ right) BY <2>3, <1>1, <1>4 DEF Stops
  <2> QED BY <2>1, <2>2, <2>3
<1> QED BY <1>6, <1>7 DEF hs, w, right

(* An object has the headers of a server up to a height. *)
Reached(s, v, o, e) ==
    e \in 0 .. Announced(s) /\ File(v, o) # << >> /\ Top(v, o) = BlockAt[tip[s]][e]

(* Before a chunk: which was the first that did not connect, if it was not    *)
(* this one; that one may still have been written.                            *)
Forward(s, o, first, i, a) ==
    \E k \in first .. i :
        /\ a.on => k = i
        /\ a.count = From(s, k) - From(s, first)
        /\ Continues(bc, a.st, o)
        /\ \/ k = first /\ a.st = bc
           \/ \E e \in 0 .. Announced(s) :
                 /\ Reached(s, a.st, o, e)
                 /\ From(s, k) - 1 <= e /\ e <= From(s, k + 1) - 1
                 /\ a.on => e = From(s, k) - 1

(* A chunk that is right *)
LEMMA ChunkKeeps ==
    ASSUME Served, NEW s \in Servers, iface[s].waiting, NEW st, Sound(st), Kept(st), NEW o \in Objs(st),
           NEW i \in Nat, i * ChunkSize <= Announced(s), Tall(st, o) <= From(s, i + 1) - 1,
           ChunkIsRight(st, o, i, ChunkOf(s, i)), NEW e, e = From(s, i + 1) - 1,
           NEW w, w = SaveChunk(st, o, i, ChunkOf(s, i))
    PROVE  Lengthened(st, w, o, BlockAt[tip[s]][e]) /\ Reached(s, w, o, e)
<1>1. Announced(s) \in Nat BY AskedServer
<1>2. From(s, i) \in Nat /\ From(s, i + 1) \in 0 .. Announced(s) + 1 /\ From(s, i) < From(s, i + 1)
  BY <1>1, FromIs
<1>3. e \in 0 .. Announced(s) BY <1>1, <1>2
<1>4. IsChunk(ChunkOf(s, i), tip[s], i * ChunkSize, e) BY ChunkOfIs
<1>5. Tall(st, o) <= e OBVIOUS
<1>6. Lengthened(st, w, o, BlockAt[tip[s]][e]) BY <1>4, <1>5, SaveChunkIs
<1>7. File(w, o) # << >> /\ Top(w, o) = BlockAt[tip[s]][e] BY <1>6 DEF Lengthened
<1> QED BY <1>3, <1>6, <1>7 DEF Reached

LEMMA ReachedIs ==
    ASSUME Served, NEW s \in Servers, iface[s].waiting, NEW st, Sound(st), NEW o \in Objs(st), NEW e, Reached(s, st, o, e)
    PROVE  Tall(st, o) = e /\ HeightOf[Top(st, o)] = e
<1>1. /\ Announced(s) \in Nat /\ Announced(s) <= HeightOf[tip[s]] /\ HeightOf[tip[s]] \in Nat /\ tip[s] \in Blocks
  BY AskedServer
<1>2. e \in 0 .. Announced(s) /\ File(st, o) # << >> /\ Top(st, o) = BlockAt[tip[s]][e] BY DEF Reached
<1>3. e \in 0 .. HeightOf[tip[s]] BY <1>1, <1>2
<1>4. HeightOf[Top(st, o)] = e BY <1>1, <1>2, <1>3, InChain
<1>5. Tall(st, o) = HeightOf[Top(st, o)] BY <1>2, ObjectIs
<1> QED BY <1>4, <1>5

(* One round *)
LEMMA RoundKeeps ==
    ASSUME IInv, NEW s \in Servers, iface[s].waiting, NEW first \in Nat, NEW i \in Nat, first <= i,
           i * ChunkSize <= Announced(s),
           NEW o \in Objs(bc), Tall(bc, o) <= From(s, first + 1) - 1,
           NEW a, Forward(s, o, first, i, a), NEW v, v = Round(s, o, i, a)
    PROVE  Forward(s, o, first, i + 1, v) /\ v \in Values
<1>0. Sound(bc) /\ Kept(bc) /\ Served BY DEF IInv
<1>1. Announced(s) \in Nat BY <1>0, AskedServer
<1> DEFINE st == a.st
<1>3. PICK k \in first .. i :
        /\ a.on => k = i
        /\ a.count = From(s, k) - From(s, first)
        /\ Continues(bc, st, o)
        /\ \/ k = first /\ st = bc
           \/ \E e \in 0 .. Announced(s) :
                 /\ Reached(s, st, o, e)
                 /\ From(s, k) - 1 <= e /\ e <= From(s, k + 1) - 1
                 /\ a.on => e = From(s, k) - 1
  BY DEF Forward
<1> DEFINE hs == ChunkOf(s, i)
           w == SaveChunk(st, o, i, hs)
           e == From(s, i + 1) - 1
<1>9. /\ v.st \in States /\ v.count \in Int => v \in Values
      /\ \/ a.on /\ ChunkIsRight(st, o, i, hs) /\ v.st = w /\ v.on /\ v.count = a.count + Len(hs)
         \/ a.on /\ ChunkIsRight(st, o, i, hs) /\ v.st = w /\ ~ v.on /\ v.count = a.count
         \/ v.st = st /\ ~ v.on /\ v.count = a.count
  BY RoundIs
<1> HIDE DEF st
<1>4. Sound(st) /\ Kept(st) /\ Objs(st) = Objs(bc) BY <1>3, SameObjs DEF Continues
<1>5. /\ From(s, i) \in Nat /\ From(s, i + 1) \in 0 .. Announced(s) + 1 /\ From(s, i) < From(s, i + 1)
      /\ From(s, first) \in Nat /\ From(s, k) \in Nat
  <2>1. k \in Nat BY <1>3
  <2> QED BY <2>1, <1>1, FromIs
<1>6. e \in 0 .. Announced(s) /\ e <= From(s, i + 1) - 1 /\ From(s, i) - 1 <= e BY <1>1, <1>5
<1>7. ASSUME a.on PROVE k = i /\ Tall(st, o) <= e
  <2>1. k = i BY <1>3, <1>7
  <2>2. CASE k = first /\ st = bc BY <2>1, <2>2
  <2>3. CASE ~ (k = first /\ st = bc)
    <3>1. PICK x \in 0 .. Announced(s) : Reached(s, st, o, x) /\ x = From(s, k) - 1 BY <1>3, <1>7, <2>3
    <3>2. Tall(st, o) = x BY <3>1, <1>0, <1>4, ReachedIs
    <3> QED BY <2>1, <3>1, <3>2, <1>5
  <2> QED BY <2>1, <2>2, <2>3
<1>8. ASSUME a.on, ChunkIsRight(st, o, i, hs)
      PROVE  /\ Continues(bc, w, o) /\ Reached(s, w, o, e) /\ w \in States
  <2>1. Lengthened(st, w, o, BlockAt[tip[s]][e]) /\ Reached(s, w, o, e)
    BY <1>0, <1>4, <1>7, <1>8, ChunkKeeps
  <2>2. Continues(bc, w, o) BY <2>1, <1>0, <1>3, ContinuesOn
  <2>3. w \in States BY <2>2 DEF Continues, Sound, Shape
  <2> QED BY <2>1, <2>2, <2>3
<1> HIDE DEF w
<1>10. CASE a.on /\ ChunkIsRight(st, o, i, hs) /\ v.st = w /\ v.on /\ v.count = a.count + Len(hs)
  <2>1. Len(hs) = From(s, i + 1) - From(s, i) BY <1>0, ChunkOfIs
  <2>2. v.count = From(s, i + 1) - From(s, first) /\ v.count \in Int
    BY <2>1, <1>3, <1>5, <1>7, <1>10
  <2>3. i + 1 \in first .. i + 1 OBVIOUS
  <2>4. e <= From(s, i + 1 + 1) - 1
    <3>1. i + 1 \in Nat OBVIOUS
    <3>2. From(s, i + 1) <= From(s, i + 1 + 1) /\ From(s, i + 1 + 1) \in Int BY <3>1, <1>1, FromIs
    <3> QED BY <3>2, <1>5
  <2>5. From(s, i + 1) - 1 <= e /\ e = From(s, i + 1) - 1 BY <1>5
  <2> HIDE DEF e, hs
  <2>6. Forward(s, o, first, i + 1, v)
    BY <1>8, <1>10, <1>6, <2>2, <2>3, <2>4, <2>5 DEF Forward
  <2> QED BY <1>8, <1>9, <1>10, <2>2, <2>6
<1>11. CASE a.on /\ ChunkIsRight(st, o, i, hs) /\ v.st = w /\ ~ v.on /\ v.count = a.count
  <2>1. i \in first .. i + 1 /\ k = i BY <1>7, <1>11
  <2>2. e <= From(s, i + 1) - 1 /\ From(s, i) - 1 <= e BY <1>6
  <2>3. v.count \in Int BY <1>3, <1>5, <1>11
  <2> HIDE DEF e, hs
  <2>4. Forward(s, o, first, i + 1, v)
    BY <1>8, <1>11, <1>6, <1>3, <2>1, <2>2 DEF Forward
  <2> QED BY <1>8, <1>9, <1>11, <2>3, <2>4
<1>12. CASE v.st = st /\ ~ v.on /\ v.count = a.count
  <2>1. k \in first .. i + 1 BY <1>3
  <2>2. v.count \in Int BY <1>3, <1>5, <1>12
  <2>3. v.st \in States BY <1>12, <1>3 DEF Continues, Sound, Shape
  <2>4. Forward(s, o, first, i + 1, v) BY <1>3, <1>12, <2>1 DEF Forward
  <2> QED BY <1>9, <2>2, <2>3, <2>4
<1> QED BY <1>9, <1>10, <1>11, <1>12

(* All rounds *)
AfterEquation(s, o, first, n, u) ==
    u = [m \in 0 .. n |-> IF m = 0 THEN Progress(bc, TRUE, 0) ELSE Round(s, o, first + m - 1, u[m - 1])]

MayGo(s, o, first, n) ==
    /\ IInv /\ s \in Servers /\ iface[s].waiting /\ first \in Nat /\ n \in Nat /\ o \in Objs(bc)
    /\ Tall(bc, o) <= From(s, first + 1) - 1
    /\ \A i \in first .. first + n - 1 : i * ChunkSize <= Announced(s)

LEMMA StartsForward ==
    ASSUME NEW s, NEW o, NEW first, NEW n, MayGo(s, o, first, n)
    PROVE  Forward(s, o, first, first, Progress(bc, TRUE, 0)) /\ Progress(bc, TRUE, 0) \in Values
<1> DEFINE a == Progress(bc, TRUE, 0)
<1>1. Goes(a, bc, 0) BY ProgressIs
<1> HIDE DEF a
<1>2. Sound(bc) /\ Kept(bc) /\ Served /\ o \in Objs(bc) /\ first \in Nat BY DEF MayGo, IInv
<1>3. Continues(bc, bc, o) BY <1>2, ContinuesItself
<1>4. first \in first .. first BY <1>2
<1>5. From(s, first) \in Int
  <2>1. Announced(s) \in Nat BY <1>2, AskedServer DEF MayGo
  <2> QED BY <2>1, <1>2, FromIs
<1>6. 0 = From(s, first) - From(s, first) BY <1>5
<1>7. bc \in States BY <1>2 DEF Sound, Shape
<1>8. Forward(s, o, first, first, a) BY <1>1, <1>3, <1>4, <1>6 DEF Forward, Goes
<1>9. a \in Values BY <1>1, <1>7 DEF Goes
<1> QED BY <1>8, <1>9 DEF a

LEMMA RoundsKeep ==
    ASSUME NEW s, NEW o, NEW first, NEW n, MayGo(s, o, first, n), NEW u, u[0] = Progress(bc, TRUE, 0),
           \A m \in 1 .. n : Round(s, o, first + m - 1, u[m - 1]) \in Values =>
               u[m] = Round(s, o, first + m - 1, u[m - 1])
    PROVE  \A m \in 0 .. n : Forward(s, o, first, first + m, u[m])
<1> DEFINE A == {m \in Nat : Forward(s, o, first, first + m, u[m])}
<1>1. IInv /\ s \in Servers /\ iface[s].waiting /\ first \in Nat /\ n \in Nat /\ o \in Objs(bc)
  BY DEF MayGo
<1>2. 0 \in A
  <2>1. first + 0 = first BY <1>1
  <2> QED BY <2>1, StartsForward
<1>3. ASSUME NEW m \in 0 .. n - 1, m \in A PROVE m + 1 \in A
  <2>1. PICK i \in Nat : i = first + m BY <1>1
  <2>2. Forward(s, o, first, i, u[m]) BY <1>3, <2>1
  <2>3. i \in first .. first + n - 1 /\ first <= i BY <1>1, <2>1
  <2>4. i * ChunkSize <= Announced(s) /\ Tall(bc, o) <= From(s, first + 1) - 1 BY <2>3 DEF MayGo
  <2>5. PICK v : v = Round(s, o, i, u[m]) OBVIOUS
  <2>6. Forward(s, o, first, i + 1, v) /\ v \in Values BY <1>1, <2>2, <2>3, <2>4, <2>5, RoundKeeps
  <2>7. PICK k \in 1 .. n : k = m + 1 BY <1>1
  <2>8. first + k - 1 = i /\ k - 1 = m /\ first + k = i + 1 BY <1>1, <2>1, <2>7
  <2>9. u[k] = v
    <3>1. Round(s, o, first + k - 1, u[k - 1]) = v BY <2>5, <2>8
    <3> QED BY <3>1, <2>6
  <2>10. Forward(s, o, first, first + k, u[k]) BY <2>6, <2>8, <2>9
  <2> QED BY <2>7, <2>10
<1> HIDE DEF A
<1>4. 0 .. n \subseteq A BY <1>1, <1>2, <1>3, IntervalInduction
<1> QED BY <1>4 DEF A

LEMMA AfterIs ==
    ASSUME NEW s, NEW o, NEW first, NEW n, MayGo(s, o, first, n),
           NEW u, u = CHOOSE f : AfterEquation(s, o, first, n, f)
    PROVE  Forward(s, o, first, first + n, u[n])
<1> DEFINE start == Progress(bc, TRUE, 0)
           V == Values
           R(i, v) == Round(s, o, first + i - 1, v)
           D == [i \in 1 .. n |-> [v \in V |-> IF R(i, v) \in V THEN R(i, v) ELSE v]]
<1>1. n \in Nat BY DEF MayGo
<1>2. start \in V BY StartsForward
<1> HIDE DEF start, V, R
<1>3. \A i \in 1 .. n : \A v \in V : D[i][v] = IF R(i, v) \in V THEN R(i, v) ELSE v OBVIOUS
<1> HIDE DEF D
<1>4. \A i \in 1 .. n : \A v \in V : D[i][v] \in V BY <1>3
<1>5. PICK g : IsStepwise(g, n, V, start, D) BY <1>1, <1>2, <1>4, StepwiseFunction
<1>6. g \in [0 .. n -> V] /\ g[0] = start /\ \A i \in 1 .. n : g[i] = D[i][g[i - 1]] BY <1>5 DEF IsStepwise
<1>7. ASSUME NEW m \in 1 .. n, R(m, g[m - 1]) \in V
      PROVE  g[m] = R(m, g[m - 1])
  <2>1. m - 1 \in 0 .. n BY <1>1
  <2>2. g[m - 1] \in V BY <1>6, <2>1
  <2> QED BY <1>3, <1>6, <1>7, <2>2
<1>8. \A m \in 0 .. n : Forward(s, o, first, first + m, g[m])
  BY <1>6, <1>7, RoundsKeep DEF start, V, R
<1>9. ASSUME NEW m \in 1 .. n PROVE R(m, g[m - 1]) \in V
  <2>1. IInv /\ s \in Servers /\ iface[s].waiting /\ first \in Nat /\ o \in Objs(bc) BY DEF MayGo
  <2>2. PICK i \in Nat : i = first + m - 1 BY <2>1, <1>1
  <2>3. PICK k \in 0 .. n : k = m - 1 BY <1>1
  <2>4. first + k = i /\ i \in first .. first + n - 1 /\ first <= i BY <2>1, <2>2, <2>3, <1>1
  <2>5. Forward(s, o, first, i, g[k]) BY <1>8, <2>4
  <2>6. i * ChunkSize <= Announced(s) /\ Tall(bc, o) <= From(s, first + 1) - 1 BY <2>4 DEF MayGo
  <2>7. Round(s, o, i, g[k]) \in Values BY <2>1, <2>4, <2>5, <2>6, RoundKeeps
  <2> QED BY <2>2, <2>3, <2>7 DEF R, V
<1>10. AfterEquation(s, o, first, n, g)
  <2>1. g = [m \in 0 .. n |-> g[m]] BY <1>6
  <2>2. ASSUME NEW m \in 0 .. n PROVE g[m] = IF m = 0 THEN start ELSE R(m, g[m - 1])
    <3>1. CASE m = 0 BY <3>1, <1>6
    <3>2. CASE m # 0
      <4>1. m \in 1 .. n BY <3>2
      <4> QED BY <4>1, <3>2, <1>7, <1>9
    <3> QED BY <3>1, <3>2
  <2>3. g = [m \in 0 .. n |-> IF m = 0 THEN start ELSE R(m, g[m - 1])] BY <2>1, <2>2
  <2> QED BY <2>3 DEF AfterEquation, start, R
<1>11. AfterEquation(s, o, first, n, u) BY <1>10
<1>12. u = [m \in 0 .. n |-> IF m = 0 THEN start ELSE R(m, u[m - 1])] BY <1>11 DEF AfterEquation, start, R
<1>13. u[0] = start
  <2>1. 0 \in 0 .. n BY <1>1
  <2> QED BY <2>1, <1>12
<1>14. ASSUME NEW m \in 1 .. n PROVE u[m] = R(m, u[m - 1])
  <2>1. m \in 0 .. n /\ m # 0 BY <1>1
  <2> QED BY <2>1, <1>12
<1>15. \A m \in 0 .. n : Forward(s, o, first, first + m, u[m])
  BY <1>13, <1>14, RoundsKeep DEF start, V, R
<1>16. n \in 0 .. n BY <1>1
<1> QED BY <1>15, <1>16

LEMMA FromGrows ==
    ASSUME NEW s, Announced(s) \in Nat, NEW i \in Nat, NEW j \in Nat, i <= j
    PROVE  From(s, i) <= From(s, j)
<1> DEFINE low == i * ChunkSize
           high == j * ChunkSize
<1>1. low \in Nat /\ high \in Nat /\ low <= high BY TimesGrows
<1>2. /\ From(s, i) = IF low <= Announced(s) THEN low ELSE Announced(s) + 1
      /\ From(s, j) = IF high <= Announced(s) THEN high ELSE Announced(s) + 1
  BY DEF From
<1> HIDE DEF low, high
<1> QED BY <1>1, <1>2

LEMMA ChunkEndFrom ==
    ASSUME NEW s, Announced(s) \in Nat, NEW h \in 0 .. Announced(s), NEW i \in Nat, i = h \div ChunkSize
    PROVE  ChunkEnd(s, h) = From(s, i + 1) - 1 /\ From(s, i) = i * ChunkSize /\ i * ChunkSize <= h
<1> DEFINE low == i * ChunkSize
<1>1. low \in Nat /\ low <= h BY DivIs
<1>2. ChunkEnd(s, h) = IF low + ChunkSize - 1 < Announced(s) THEN low + ChunkSize - 1 ELSE Announced(s)
  BY DEF ChunkEnd
<1>3. low <= Announced(s) => From(s, i) = low /\ From(s, i + 1) - 1 = IF low + ChunkSize - 1 < Announced(s)
                                         THEN low + ChunkSize - 1 ELSE Announced(s)
  BY FromIs
<1> HIDE DEF low
<1>4. low <= Announced(s) BY <1>1
<1> QED BY <1>1, <1>2, <1>3, <1>4 DEF low

(* Where an interface goes on after a chunk, no object is longer than the next. *)
LEMMA ForwardLow ==
    ASSUME IInv, NEW s \in Servers, iface[s].waiting, NEW h \in 1 .. Announced(s), NEW o \in Objs(bc),
           Low(s, bc, o, h), NEW v, Continues(bc, v, o), NEW k \in h .. Announced(s) + 1,
           k <= Announced(s) => Tall(v, o) <= ChunkEnd(s, k)
    PROVE  Low(s, v, o, k)
<1>0. Sound(bc) /\ Kept(bc) /\ Served BY DEF IInv
<1>1. /\ Announced(s) \in Nat /\ iface[s].tip \in Blocks /\ HeightOf[iface[s].tip] = Announced(s)
  BY <1>0, AskedServer
<1>2. Sound(v) /\ Objs(v) = Objs(bc) BY SameObjs DEF Continues
<1>3. k + FarFromTip + 1 <= Announced(s) => k <= Announced(s) BY <1>1, ChunksHaveHeaders
<1>4. ASSUME k + FarFromTip + 2 <= Announced(s), NEW c \in Objs(v), HasHeader(v, c, BlockAt[iface[s].tip][k])
      PROVE  Tall(v, c) <= ChunkEnd(s, k)
  <2>0. k <= Announced(s) /\ h + FarFromTip + 2 <= Announced(s) BY <1>1, <1>4, ChunksHaveHeaders
  <2>1. CASE c = o BY <2>0, <2>1
  <2>2. CASE c # o
    <3> DEFINE x == BlockAt[iface[s].tip][k]
               y == BlockAt[iface[s].tip][h]
    <3>1. k \in 0 .. HeightOf[iface[s].tip] /\ h \in 0 .. HeightOf[iface[s].tip] BY <1>1, <2>0
    <3>2. /\ Below(x, iface[s].tip) /\ x \in Blocks /\ HeightOf[x] = k
          /\ Below(y, iface[s].tip) /\ y \in Blocks /\ HeightOf[y] = h
      BY <1>1, <3>1, BelowAt
    <3>3. HasHeader(v, c, x) BY <1>4
    <3> HIDE DEF x, y
    <3>4. h <= k OBVIOUS
    <3>5. Below(y, x) BY <1>1, <3>2, <3>4, BelowBoth
    <3>6. c \in Objs(bc) /\ Top(v, c) = Top(bc, c) /\ Top(bc, c) \in Blocks
      BY <1>0, <1>2, <2>2, TopIs DEF Continues
    <3>7. Below(x, Top(v, c)) BY <1>2, <3>2, <3>3, HasIs
    <3>8. Below(y, Top(bc, c)) BY <3>2, <3>5, <3>6, <3>7, BelowAll
    <3>9. HasHeader(bc, c, y) BY <1>0, <3>2, <3>6, <3>8, HasIs
    <3>10. Tall(bc, c) <= ChunkEnd(s, h) BY <3>6, <3>9, <2>0 DEF Low, y
    <3>11. Tall(v, c) = Tall(bc, c) /\ Tall(bc, c) \in Nat
      <4>1. Len(bc.chain) # 1 BY <2>2, <3>6, TwoObjects
      <4>2. Len(v.chain) # 1 BY <4>1 DEF Continues
      <4>3. Tall(bc, c) = HeightOf[Top(bc, c)] BY <4>1, <1>0, <3>6, ObjectIs
      <4>4. Tall(v, c) = HeightOf[Top(v, c)] BY <4>2, <1>2, ObjectIs
      <4> QED BY <4>3, <4>4, <3>6, Heights
    <3>12. h \in 0 .. Announced(s) /\ k \in h .. Announced(s) /\ k \in 0 .. Announced(s) BY <2>0, <1>1
    <3>13. ChunkEnd(s, h) <= ChunkEnd(s, k) BY <1>1, <3>12, ChunkEndGrows
    <3>14. ChunkEnd(s, h) \in Int /\ ChunkEnd(s, k) \in Int
      <4>1. ChunkEnd(s, h) \in h .. Announced(s) BY <1>1, <3>12, ChunkEndIs
      <4>2. ChunkEnd(s, k) \in k .. Announced(s) BY <1>1, <3>12, ChunkEndIs
      <4> QED BY <4>1, <4>2
    <3> QED BY <3>10, <3>11, <3>13, <3>14
  <2> QED BY <2>1, <2>2
<1> QED BY <1>3, <1>4 DEF Low

(* What FastForward does, once its loop is done *)
Forwards(s, h, o, done, number) ==
    /\ bc' = done.st
    /\ IF number > 0 THEN GoOn(s, "catchup", h + number, o, lock.cache)
       ELSE lock' = [lock EXCEPT !.at = "single"] /\ UNCHANGED iface

LEMMA ForwardsTo ==
    ASSUME NEW s, FastForward(s)
    PROVE  LET first == lock.height \div ChunkSize
               n == Announced(s) \div ChunkSize - first + 1
               o == iface[s].chain
               u == CHOOSE f : AfterEquation(s, o, first, n, f) IN
           /\ Forwards(s, lock.height, o, u[n], u[n].count - (lock.height - first * ChunkSize))
           /\ tip' = tip
<1> QED BY DEF FastForward, AfterEquation, Round, Progress, Forwards

LEMMA FastForwardKeeps ==
    ASSUME IInv, NEW s \in Servers, FastForward(s)
    PROVE  IInv' /\ Extends(bc, bc')
<1>1. /\ lock # None /\ lock.srv = s /\ lock.at = "step"
      /\ Sound(bc) /\ Kept(bc) /\ Served /\ LockInv /\ iface[s].waiting /\ SaidAll(s, lock.cache)
      /\ SyncInv(s)
  <2>1. Holds(s, "step") BY DEF FastForward
  <2> QED BY <2>1, HolderOfLock
<1>2. /\ Announced(s) \in Nat /\ iface[s].tip \in Blocks /\ HeightOf[iface[s].tip] = Announced(s)
      /\ iface[s].chain \in Objs(bc)
      /\ iface[s].queue = << >> => iface[s].tip = tip[s]
  BY <1>1, AskedServer
<1> DEFINE h == lock.height
           A == Announced(s)
           o == iface[s].chain
           first == h \div ChunkSize
           last == A \div ChunkSize
           n == last - first + 1
           u == CHOOSE f : AfterEquation(s, o, first, n, f)
<1>3. h \in 1 .. A /\ Low(s, bc, o, h) BY <1>1 DEF SyncInv
<1>4. h + FarFromTip + 1 <= A
  <2>1. Announced(s) > lock.height + FarFromTip BY DEF FastForward, Far
  <2> QED BY <2>1, <1>2, <1>3, ChunksHaveHeaders
<1>5. tip' = tip /\ Forwards(s, h, o, u[n], u[n].count - (h - first * ChunkSize)) BY ForwardsTo
<1>6. first \in Nat /\ last \in Nat /\ first <= last /\ last * ChunkSize <= A
  <2>1. h \in Nat /\ A \in Nat /\ h <= A BY <1>2, <1>3
  <2>2. first \in Nat /\ last \in Nat /\ last * ChunkSize <= A BY <2>1, DivIs
  <2>3. first <= last BY <2>1, ChunksHaveHeaders
  <2> QED BY <2>2, <2>3
<1>7. ChunkEnd(s, h) = From(s, first + 1) - 1 /\ From(s, first) = first * ChunkSize /\ first * ChunkSize <= h
  <2>1. h \in 0 .. A BY <1>3
  <2> QED BY <2>1, <1>2, <1>6, ChunkEndFrom
<1>8. MayGo(s, o, first, n)
  <2>1. Tall(bc, o) <= ChunkEnd(s, h) BY <1>3, <1>4 DEF Low
  <2>2. n \in Nat /\ first + n - 1 = last BY <1>6
  <2> HIDE DEF first, last, h, o, A
  <2>3. ASSUME NEW i \in first .. first + n - 1 PROVE i * ChunkSize <= Announced(s)
    <3>1. i \in Nat /\ i <= last BY <2>2, <1>6
    <3>2. i * ChunkSize \in Nat /\ last * ChunkSize \in Nat /\ i * ChunkSize <= last * ChunkSize BY <3>1, <1>6, TimesGrows
    <3> QED BY <3>2, <1>6, <1>2 DEF A
  <2> QED BY <2>1, <2>2, <2>3, <1>1, <1>2, <1>6, <1>7 DEF MayGo, o
<1> DEFINE d == u[n]
<1>9. Forward(s, o, first, first + n, d) BY <1>8, AfterIs
<1>10. Forwards(s, h, o, d, d.count - (h - first * ChunkSize)) BY <1>5
<1>11. n \in Nat /\ first + n = last + 1 BY <1>6
<1> HIDE DEF u, d, first, last, n
<1>12. PICK k \in first .. last + 1 :
        /\ d.on => k = last + 1
        /\ d.count = From(s, k) - From(s, first)
        /\ Continues(bc, d.st, o)
        /\ \/ k = first /\ d.st = bc
           \/ \E e \in 0 .. Announced(s) :
                 /\ Reached(s, d.st, o, e)
                 /\ From(s, k) - 1 <= e /\ e <= From(s, k + 1) - 1
                 /\ d.on => e = From(s, k) - 1
  BY <1>9, <1>11 DEF Forward
<1>13. bc' = d.st BY <1>10 DEF Forwards
<1>14. Continues(bc, bc', o) /\ Sound(bc') /\ Objs(bc') = Objs(bc) BY <1>12, <1>13, SameObjs DEF Continues
<1>15. Extends(bc, bc') BY <1>1, <1>2, <1>14, ContinuesExtends
<1>16. /\ k \in Nat /\ From(s, k) \in 0 .. A + 1 /\ From(s, k + 1) \in Nat /\ From(s, first) \in Nat /\ From(s, first + 1) \in Nat
       /\ first + 1 \in Nat
  <2>1. k \in Nat /\ first + 1 \in Nat BY <1>6, <1>12
  <2>2. From(s, k) \in 0 .. A + 1 /\ From(s, k + 1) \in 0 .. A + 1 BY <2>1, <1>2, FromIs
  <2>3. From(s, first) \in 0 .. A + 1 /\ From(s, first + 1) \in 0 .. A + 1 BY <1>2, <1>6, FromIs
  <2> QED BY <2>1, <2>2, <2>3, <1>2
<1>17. ASSUME NEW e, Reached(s, bc', o, e) PROVE Tall(bc', o) = e /\ HeightOf[Top(bc', o)] = e
  BY <1>1, <1>2, <1>14, <1>17, ReachedIs
<1> DEFINE number == d.count - (h - first * ChunkSize)
<1>18. h + number = From(s, k) /\ number \in Int BY <1>3, <1>7, <1>12, <1>16
<1>19. CASE k = first
  <2>1. ~ (number > 0) BY <1>18, <1>19, <1>3, <1>7, <1>16
  <2>2. lock' = [lock EXCEPT !.at = "single"] /\ iface' = iface BY <2>1, <1>10 DEF Forwards
  <2>3. Tall(bc', o) <= ChunkEnd(s, h)
    <3>1. CASE d.st = bc BY <3>1, <1>3, <1>4, <1>13 DEF Low
    <3>2. CASE d.st # bc
      <4>1. PICK e \in 0 .. A : Reached(s, bc', o, e) /\ e <= From(s, k + 1) - 1 BY <3>2, <1>12, <1>13
      <4> QED BY <4>1, <1>7, <1>17, <1>19
    <3> QED BY <3>1, <3>2
  <2>4. h \in h .. A + 1 BY <1>2, <1>3
  <2>5. Low(s, bc', o, h) BY <2>3, <2>4, <1>1, <1>2, <1>3, <1>14, ForwardLow
  <2>6. iface' = [iface EXCEPT ![s].chain = o] BY <2>2, <1>1, SameInterface
  <2> DEFINE l == [lock EXCEPT !.at = "single"]
  <2>7. /\ lock' = l /\ l.srv = s /\ l.at = "single" /\ l.height = h /\ l.cache = lock.cache
        /\ DOMAIN l = {"srv", "at", "height", "good", "bad", "delta", "last", "cache"}
    <3>1. DOMAIN lock = {"srv", "at", "height", "good", "bad", "delta", "last", "cache"} BY <1>1 DEF LockInv
    <3> QED BY <3>1, <2>2, <1>1
  <2> HIDE DEF l
  <2>8. o \in Objs(bc') BY <1>2, <1>14
  <2>9. l.at \in {"step", "single"} /\ l.height \in 1 .. Announced(s) /\ Low(s, bc', o, l.height) BY <2>5, <2>7, <1>3
  <2>10. SaidAll(s, l.cache) BY <2>7, <1>1
  <2>11. l.at \notin {"step", "single"} => Said(s, l.bad) /\ HeightOf[l.bad] \in 1 .. Announced(s) BY <2>9
  <2> HIDE DEF o, h, A
  <2> QED BY <2>11, <2>6, <2>7, <2>8, <2>9, <2>10, <1>1, <1>5, <1>15, LockStays
<1>20. CASE k # first
  <2>1. From(s, first + 1) <= From(s, k)
    <3>1. first + 1 <= k BY <1>6, <1>12, <1>20
    <3> QED BY <3>1, <1>2, <1>16, FromGrows
  <2>2. h < From(s, k)
    <3>1. ChunkEnd(s, h) \in h .. A
      <4>1. h \in 0 .. A BY <1>3
      <4> QED BY <4>1, <1>2, ChunkEndIs
    <3> QED BY <3>1, <2>1, <1>7, <1>16, <1>3
  <2>3. number > 0 BY <2>2, <1>18, <1>3
  <2> DEFINE H1 == From(s, k)
  <2>4. GoOn(s, "catchup", H1, o, lock.cache) BY <2>3, <1>10, <1>18 DEF Forwards
  <2>5. PICK e \in 0 .. A : Reached(s, bc', o, e) /\ H1 - 1 <= e /\ e <= From(s, k + 1) - 1
    BY <1>12, <1>13, <1>20
  <2>6. H1 \in 1 .. A + 1 /\ H1 \in h .. A + 1 BY <2>2, <1>16, <1>3, <1>2
  <2>7. ASSUME H1 <= A PROVE Tall(bc', o) <= ChunkEnd(s, H1)
    <3>1. k * ChunkSize = H1 BY <2>7, <1>16, <1>2 DEF From
    <3>2. H1 \div ChunkSize = k BY <3>1, <1>16, ChunksHaveHeaders
    <3>3. H1 \in 0 .. A BY <2>6, <2>7
    <3>4. ChunkEnd(s, H1) = From(s, k + 1) - 1 BY <3>2, <3>3, <1>2, <1>16, ChunkEndFrom
    <3> QED BY <3>4, <2>5, <1>17
  <2>8. ASSUME H1 > A, iface[s].queue = << >> PROVE HasHeader(bc', o, iface[s].tip)
    <3>1. e = A BY <2>8, <2>5, <1>2, <1>16
    <3>2. Top(bc', o) = BlockAt[tip[s]][A] BY <3>1, <2>5 DEF Reached
    <3>3. tip[s] = iface[s].tip BY <2>8, <1>2
    <3>4. Top(bc', o) = iface[s].tip BY <3>2, <3>3, <1>2, ChainsAreGrown
    <3>5. Below(iface[s].tip, Top(bc', o)) BY <3>4, <1>2, BelowItself
    <3>6. o \in Objs(bc') BY <1>2, <1>14
    <3> QED BY <3>5, <3>6, <1>2, <1>14, HasIs
  <2>9. Low(s, bc', o, H1) BY <2>6, <2>7, <1>1, <1>2, <1>3, <1>14, ForwardLow
  <2>10. o \in Objs(bc') BY <1>2, <1>14
  <2> HIDE DEF H1, o, h, A
  <2>11. H1 \in 1 .. Announced(s) + 1 BY <2>6 DEF A
  <2>12. H1 > Announced(s) /\ iface[s].queue = << >> => HasHeader(bc', o, iface[s].tip) BY <2>8 DEF A
  <2> QED BY <2>4, <2>9, <2>10, <2>11, <2>12, <1>1, <1>5, <1>15, GoOnKeeps
<1> QED BY <1>15, <1>19, <1>20

-----------------------------------------------------------------------------
(*                        Servers and connections                            *)

(* One interface changes, and no header and no lock. *)
LEMMA InterfaceKeeps ==
    ASSUME IInv, NEW s \in Servers, bc' = bc, NEW t \in Blocks, tip' = [tip EXCEPT ![s] = t],
           NEW me \in Interfaces, iface' = [iface EXCEPT ![s] = me],
           ServerInv(s)', Follows(s)', LockInv'
    PROVE  IInv' /\ Extends(bc, bc')
<1>1. Sound(bc) /\ Kept(bc) /\ Served BY DEF IInv
<1>2. Extends(bc, bc') /\ Sound(bc)' /\ Kept(bc)' BY <1>1, ExtendsItself
<1>3. tip \in [Servers -> Blocks] /\ iface \in [Servers -> Interfaces] BY <1>1 DEF Served
<1>4. tip' \in [Servers -> Blocks] /\ iface' \in [Servers -> Interfaces] BY <1>3
<1>5. ASSUME NEW r \in Servers PROVE ServerInv(r)' /\ Follows(r)'
  <2>1. CASE r = s BY <2>1
  <2>2. CASE r # s
    <3>1. iface'[r] = iface[r] /\ tip'[r] = tip[r] BY <1>3, <2>2
    <3> QED BY <3>1, <1>1, <1>2, OthersKeep
  <2> QED BY <2>1, <2>2
<1>6. Served' BY <1>4, <1>5 DEF Served
<1> QED BY <1>2, <1>6 DEF IInv

LEMMA QueueChanges ==
    ASSUME NEW B, NEW C, NEW T, NEW Q, NEW r \in [up : B, chain : C, tip : T, queue : Q, waiting : B], NEW q \in Q
    PROVE  [r EXCEPT !.queue = q] \in [up : B, chain : C, tip : T, queue : Q, waiting : B]
OBVIOUS

LEMMA ServerMovesKeeps ==
    ASSUME IInv, NEW s \in Servers, NEW b \in Blocks, ServerMoves(s, b)
    PROVE  IInv' /\ Extends(bc, bc')
<1>1. Sound(bc) /\ Kept(bc) /\ Served /\ LockInv /\ ServerInv(s) BY DEF IInv, Served
<1>2. iface \in [Servers -> Interfaces] /\ tip \in [Servers -> Blocks] BY <1>1 DEF Served
<1> DEFINE q == IF iface[s].up THEN Append(iface[s].queue, b) ELSE iface[s].queue
           me == [iface[s] EXCEPT !.queue = q]
<1>3. iface[s] \in Interfaces /\ iface[s].queue \in Seq(Blocks) BY <1>2 DEF Interfaces
<1>4. q \in Seq(Blocks) BY <1>3
<1>5. /\ bc' = bc /\ lock' = lock /\ tip' = [tip EXCEPT ![s] = b] /\ HeightOf[b] > HeightOf[tip[s]]
      /\ iface' = [iface EXCEPT ![s] = me]
  BY <1>2 DEF ServerMoves
<1>6. me \in Interfaces
  <2> HIDE DEF q
  <2> QED BY <1>3, <1>4, QueueChanges DEF Interfaces
<1>7. /\ me.up = iface[s].up /\ me.tip = iface[s].tip /\ me.chain = iface[s].chain /\ me.queue = q
      /\ me.waiting = iface[s].waiting
  BY <1>3 DEF Interfaces
<1>8. iface'[s] = me /\ tip'[s] = b BY <1>2, <1>5
<1>9. tip[s] \in Blocks /\ HeightOf[tip[s]] \in Nat /\ HeightOf[b] \in Nat BY <1>2, Heights
<1>10. ~ iface[s].up => me = iface[s]
  <2>1. iface[s] = [iface[s] EXCEPT !.queue = iface[s].queue] BY <1>3 DEF Interfaces
  <2> QED BY <2>1
<1> HIDE DEF me
<1>11. \A i \in DOMAIN q : HeightOf[q[i]] \in 1 .. HeightOf[b]
  <2>1. \A i \in DOMAIN iface[s].queue : HeightOf[iface[s].queue[i]] \in 1 .. HeightOf[tip[s]] BY <1>1 DEF ServerInv
  <2>2. 1 <= HeightOf[tip[s]] BY <1>1 DEF ServerInv
  <2>3. \A i \in DOMAIN iface[s].queue : HeightOf[iface[s].queue[i]] \in 1 .. HeightOf[b] BY <2>1, <1>5, <1>9
  <2>4. CASE iface[s].up
    <3>1. \A i \in DOMAIN q : (i \in DOMAIN iface[s].queue /\ q[i] = iface[s].queue[i]) \/ q[i] = b BY <2>4, <1>3
    <3> QED BY <3>1, <2>2, <2>3, <1>5, <1>9
  <2>5. CASE ~ iface[s].up BY <2>5, <2>3
  <2> QED BY <2>4, <2>5
<1>12. iface[s].up => q # << >> /\ q[Len(q)] = b BY <1>3
<1>13. q # << >> => iface[s].up /\ q[Len(q)] = b
  <2>1. iface[s].queue # << >> => iface[s].up BY <1>1 DEF ServerInv
  <2> QED BY <2>1, <1>12
<1> HIDE DEF q
<1>14. ServerInv(s)'
  <2>1. HeightOf[b] >= 1
    <3>1. HeightOf[tip[s]] >= 1 BY <1>1 DEF ServerInv
    <3> QED BY <3>1, <1>5, <1>9
  <2>2. me.tip # None => /\ me.up /\ me.chain # 0 /\ me.tip \in Blocks /\ HeightOf[me.tip] \in 1 .. HeightOf[b]
                         /\ me.queue # << >>
    <3>1. me.tip # None => /\ iface[s].up /\ iface[s].chain # 0 /\ iface[s].tip \in Blocks
                           /\ HeightOf[iface[s].tip] \in 1 .. HeightOf[tip[s]]
      BY <1>1, <1>7 DEF ServerInv
    <3> QED BY <3>1, <1>5, <1>7, <1>9, <1>12
  <2>3. me.chain \in 0 .. Len(bc.chain) /\ (me.waiting => me.tip # None) BY <1>1, <1>7 DEF ServerInv
  <2>4. ~ me.up => me = Off BY <1>1, <1>7, <1>10 DEF ServerInv
  <2> QED BY <2>1, <2>2, <2>3, <2>4, <1>5, <1>7, <1>8, <1>11, <1>13 DEF ServerInv
<1>15. Follows(s)'
  <2>1. iface[s].tip # None => iface[s].up BY <1>1 DEF ServerInv
  <2> QED BY <2>1, <1>7, <1>8, <1>12 DEF Follows
<1>16. LockInv'
  <2>1. ASSUME lock # None, NEW r, r = lock.srv
        PROVE  /\ iface'[r].tip = iface[r].tip /\ iface'[r].chain = iface[r].chain
               /\ iface'[r].waiting = iface[r].waiting
               /\ iface'[r].queue = << >> => iface[r].queue = << >>
    <3>1. r \in Servers BY <1>1, <2>1 DEF LockInv
    <3>2. CASE r = s
      <4>1. q = << >> => iface[s].queue = << >> BY <1>12 DEF q
      <4> QED BY <3>2, <4>1, <1>7, <1>8
    <3>3. CASE r # s
      <4>1. iface'[r] = iface[r] BY <3>1, <3>3, <1>2, <1>5
      <4> QED BY <4>1
    <3> QED BY <3>2, <3>3
  <2> QED BY <2>1, <1>1, <1>5, LockWaits
<1> QED BY <1>5, <1>6, <1>14, <1>15, <1>16, InterfaceKeeps

(* Who holds the lock waits. *)
LEMMA OthersLock ==
    ASSUME IInv, NEW s \in Servers, ~ iface[s].waiting, lock' = lock, bc' = bc, NEW me, iface' = [iface EXCEPT ![s] = me]
    PROVE  LockInv'
<1>1. LockInv /\ iface \in [Servers -> Interfaces] BY DEF IInv, Served
<1>2. ASSUME lock # None, NEW r, r = lock.srv
      PROVE  iface'[r] = iface[r]
  <2>1. r \in Servers /\ iface[r].waiting BY <1>1, <1>2 DEF LockInv
  <2>2. r # s BY <2>1
  <2> QED BY <2>1, <2>2, <1>1
<1> QED BY <1>1, <1>2, LockWaits

LEMMA ConnectKeeps ==
    ASSUME IInv, NEW s \in Servers, Connect(s)
    PROVE  IInv' /\ Extends(bc, bc')
<1>1. Sound(bc) /\ Kept(bc) /\ Served /\ LockInv /\ ServerInv(s) BY DEF IInv, Served
<1>2. iface \in [Servers -> Interfaces] /\ tip \in [Servers -> Blocks] BY <1>1 DEF Served
<1> DEFINE me == [up |-> TRUE, chain |-> 0, tip |-> None, queue |-> <<tip[s]>>, waiting |-> FALSE]
<1>3. /\ bc' = bc /\ lock' = lock /\ tip' = tip /\ ~ iface[s].up /\ iface' = [iface EXCEPT ![s] = me]
  BY DEF Connect
<1>4. tip[s] \in Blocks /\ HeightOf[tip[s]] \in Nat /\ HeightOf[tip[s]] >= 1
  BY <1>1, <1>2, Heights DEF ServerInv
<1>6. me \in Interfaces BY <1>4 DEF Interfaces
<1>7. me.up /\ me.chain = 0 /\ me.tip = None /\ me.queue = <<tip[s]>> /\ ~ me.waiting OBVIOUS
<1> HIDE DEF me
<1>8. iface'[s] = me /\ tip'[s] = tip[s] BY <1>2, <1>3
<1>9. \A i \in DOMAIN <<tip[s]>> : HeightOf[<<tip[s]>>[i]] \in 1 .. HeightOf[tip[s]] BY <1>4
<1>10. <<tip[s]>> # << >> /\ <<tip[s]>>[Len(<<tip[s]>>)] = tip[s] BY <1>4
<1>11. Len(bc.chain) \in Nat BY <1>1 DEF Sound, Shape, States
<1>12. 0 \in 0 .. Len(bc.chain) BY <1>11
<1>13. ServerInv(s)' BY <1>3, <1>4, <1>7, <1>8, <1>9, <1>10, <1>12 DEF ServerInv
<1>14. Follows(s)' BY <1>7, <1>8 DEF Follows
<1>15. ~ iface[s].waiting
  <2>1. iface[s].waiting => iface[s].up BY <1>1 DEF ServerInv
  <2> QED BY <2>1, <1>3
<1>16. LockInv' BY <1>3, <1>15, OthersLock
<1>17. tip' = [tip EXCEPT ![s] = tip[s]] BY <1>2, <1>3
<1> QED BY <1>3, <1>4, <1>6, <1>13, <1>14, <1>16, <1>17, InterfaceKeeps

LEMMA TakeHeaderKeeps ==
    ASSUME IInv, NEW s \in Servers, TakeHeader(s)
    PROVE  IInv' /\ Extends(bc, bc')
<1>1. Sound(bc) /\ Kept(bc) /\ Served /\ LockInv /\ ServerInv(s) BY DEF IInv, Served
<1>2. iface \in [Servers -> Interfaces] /\ tip \in [Servers -> Blocks] BY <1>1 DEF Served
<1> DEFINE b == Head(iface[s].queue)
           q == Tail(iface[s].queue)
           c == IF iface[s].chain # 0 THEN iface[s].chain
                ELSE IF WithHeader(bc, b) # 0 THEN WithHeader(bc, b) ELSE BestChain(bc)
           me == [iface[s] EXCEPT !.tip = b, !.queue = q, !.chain = c, !.waiting = TRUE]
<1>3. /\ bc' = bc /\ lock' = lock /\ tip' = tip /\ ~ iface[s].waiting /\ iface[s].queue # << >>
      /\ iface' = [iface EXCEPT ![s].tip = b, ![s].queue = q, ![s].chain = c, ![s].waiting = TRUE]
  BY DEF TakeHeader
<1>4. tip[s] \in Blocks /\ HeightOf[tip[s]] \in Nat BY <1>2, Heights
<1>5. iface[s] \in Interfaces /\ iface[s].queue \in Seq(Blocks) BY <1>2 DEF Interfaces
<1>6. c \in Objs(bc) /\ c # 0
  <2>1. CASE iface[s].chain # 0 BY <2>1, <1>1 DEF ServerInv, Objs
  <2>2. CASE iface[s].chain = 0 BY <2>2, <1>1, WithHeaderIs, BestChainIs
  <2> QED BY <2>1, <2>2
<1>7. b \in Blocks /\ q \in Seq(Blocks) /\ b = iface[s].queue[1] BY <1>3, <1>5
<1>8. iface' = [iface EXCEPT ![s] = me] BY <1>2, <1>3
<1> HIDE DEF c
<1>9. c \in Nat /\ c \in 0 .. Len(bc.chain)
  <2>1. Len(bc.chain) \in Nat BY <1>1 DEF Sound, Shape, States
  <2> QED BY <2>1, <1>6 DEF Objs
<1>10. DOMAIN iface[s].queue = 1 .. Len(iface[s].queue) /\ Len(iface[s].queue) \in Nat \ {0} BY <1>3, <1>5
<1>11. HeightOf[b] \in 1 .. HeightOf[tip[s]] BY <1>1, <1>7, <1>10 DEF ServerInv
<1>12. \A i \in DOMAIN q : i + 1 \in DOMAIN iface[s].queue /\ q[i] = iface[s].queue[i + 1] BY <1>3, <1>5
<1>13. \A i \in DOMAIN q : HeightOf[q[i]] \in 1 .. HeightOf[tip[s]]
  <2>1. \A j \in DOMAIN iface[s].queue : HeightOf[iface[s].queue[j]] \in 1 .. HeightOf[tip[s]] BY <1>1 DEF ServerInv
  <2> HIDE DEF q
  <2> QED BY <2>1, <1>12
<1>14. iface[s].up /\ iface[s].queue[Len(iface[s].queue)] = tip[s] BY <1>1, <1>3 DEF ServerInv
<1>15. q # << >> => q[Len(q)] = tip[s]
  <2>1. q # << >> => q[Len(q)] = iface[s].queue[Len(iface[s].queue)] BY <1>3, <1>5
  <2> QED BY <2>1, <1>14
<1>16. q = << >> => b = tip[s]
  <2>1. q = << >> => Len(iface[s].queue) = 1
    <3>1. Len(q) = Len(iface[s].queue) - 1
      <4>1. \A M : \A x \in Seq(M) : x # << >> => Len(Tail(x)) = Len(x) - 1 OBVIOUS
      <4>2. \A x \in Seq(Blocks) : x # << >> => Len(Tail(x)) = Len(x) - 1 BY <4>1, Zenon
      <4>3. PICK x \in Seq(Blocks) : x = iface[s].queue BY <1>5
      <4>4. Len(Tail(x)) = Len(x) - 1 BY <4>2, <4>3, <1>3
      <4>5. q = Tail(x) BY <4>3
      <4> HIDE DEF q
      <4>6. Len(q) = Len(x) - 1 BY <4>4, <4>5
      <4> QED BY <4>3, <4>6, Zenon
    <3>2. \A x : x = << >> => Len(x) = 0 OBVIOUS
    <3> HIDE DEF q
    <3>3. q = << >> => Len(q) = 0 BY <3>2, Zenon
    <3> QED BY <3>1, <3>3, <1>10
  <2> QED BY <2>1, <1>7, <1>14
<1> HIDE DEF q, b
<1>17. me \in Interfaces
  <2>1. b \in Blocks \cup {None} BY <1>7
  <2> QED BY <2>1, <1>5, <1>7, <1>9 DEF Interfaces
<1>18. me.up /\ me.tip = b /\ me.queue = q /\ me.chain = c /\ me.waiting BY <1>5, <1>14 DEF Interfaces
<1> HIDE DEF me
<1>19. iface'[s] = me /\ tip'[s] = tip[s] BY <1>2, <1>3, <1>8
<1>20. b # None BY <1>7, SpecialValues
<1>21. HeightOf[tip[s]] >= 1 BY <1>1 DEF ServerInv
<1>22. ServerInv(s)'
  BY <1>3, <1>6, <1>7, <1>9, <1>11, <1>13, <1>15, <1>16, <1>18, <1>19, <1>20, <1>21 DEF ServerInv
<1>23. Follows(s)' BY <1>18, <1>19 DEF Follows
<1>24. LockInv' BY <1>3, <1>8, OthersLock
<1>25. tip' = [tip EXCEPT ![s] = tip[s]] BY <1>2, <1>3
<1> QED BY <1>3, <1>4, <1>8, <1>17, <1>22, <1>23, <1>24, <1>25, InterfaceKeeps

LEMMA StartSyncKeeps ==
    ASSUME IInv, NEW s \in Servers, StartSync(s)
    PROVE  IInv' /\ Extends(bc, bc')
<1>1. Sound(bc) /\ Kept(bc) /\ Served /\ LockInv /\ ServerInv(s) BY DEF IInv, Served
<1>2. /\ lock = None /\ iface[s].waiting /\ bc' = bc /\ tip' = tip
  BY DEF StartSync
<1>3. /\ Announced(s) \in Nat /\ Announced(s) >= 1 /\ iface[s].tip \in Blocks
      /\ HeightOf[iface[s].tip] = Announced(s) /\ iface[s].chain \in Objs(bc)
  BY <1>1, <1>2, AskedServer
<1>4. Extends(bc, bc') BY <1>1, <1>2, ExtendsItself
<1> DEFINE known == Tall(bc, iface[s].chain) >= Announced(s) /\ HasHeader(bc, iface[s].chain, iface[s].tip)
<1>5. CASE known
  <2>1. iface' = [iface EXCEPT ![s].waiting = FALSE] /\ lock' = lock BY <1>5 DEF StartSync
  <2>2. iface \in [Servers -> Interfaces] BY <1>1 DEF Served
  <2>3. PICK w \in BOOLEAN : ~ w /\ w = FALSE BY Zenon
  <2>4. iface' = [iface EXCEPT ![s].chain = iface[s].chain, ![s].waiting = w]
    <3>1. iface' = [iface EXCEPT ![s].waiting = w] BY <2>1, <2>3
    <3>2. [iface[s] EXCEPT !.waiting = w] = [iface[s] EXCEPT !.chain = iface[s].chain, !.waiting = w]
      BY <2>2 DEF Interfaces
    <3>3. [iface EXCEPT ![s].waiting = w] = [iface EXCEPT ![s] = [iface[s] EXCEPT !.waiting = w]] BY <2>2
    <3>4. [iface EXCEPT ![s].chain = iface[s].chain, ![s].waiting = w]
             = [iface EXCEPT ![s] = [iface[s] EXCEPT !.chain = iface[s].chain, !.waiting = w]]
      BY <2>2
    <3> QED BY <3>1, <3>2, <3>3, <3>4
  <2>5. HasHeader(bc', iface[s].chain, iface[s].tip) BY <1>5, <1>2
  <2>6. iface[s].chain \in Objs(bc') BY <1>2, <1>3
  <2> HIDE DEF known
  <2>7. Served' BY <1>1, <1>2, <1>4, <2>3, <2>4, <2>5, <2>6, ChainChanges
  <2>8. LockInv' BY <1>2, <2>1 DEF LockInv
  <2> QED BY <1>1, <1>2, <1>4, <2>7, <2>8 DEF IInv
<1>6. CASE ~ known
  <2>0. PICK cache : cache = [h \in {Announced(s)} |-> iface[s].tip] OBVIOUS
  <2> DEFINE l == [srv |-> s, at |-> "step", height |-> Announced(s), good |-> 0,
                   bad |-> None, delta |-> 2, last |-> "none", cache |-> cache]
  <2>1. iface' = iface /\ lock' = l BY <1>6, <2>0 DEF StartSync
  <2>2. Served'
    <3>1. \A r \in Servers : ServerInv(r)' /\ Follows(r)' BY <1>1, <1>2, <1>4, <2>1, OthersKeep
    <3>2. tip' \in [Servers -> Blocks] /\ iface' \in [Servers -> Interfaces] BY <1>1, <1>2, <2>1 DEF Served
    <3> QED BY <3>1, <3>2 DEF Served
  <2>3. /\ l.srv = s /\ l.at = "step" /\ l.height = Announced(s) /\ l.cache = cache
        /\ DOMAIN l = {"srv", "at", "height", "good", "bad", "delta", "last", "cache"}
    OBVIOUS
  <2>4. SaidAll(s, cache)
    <3>1. DOMAIN cache \subseteq 0 .. Announced(s) BY <1>3, <2>0
    <3>2. BlockAt[iface[s].tip][HeightOf[iface[s].tip]] = iface[s].tip BY <1>3, ChainsAreGrown
    <3>3. Said(s, iface[s].tip) BY <1>3, <3>2 DEF Said
    <3>4. \A h \in DOMAIN cache : cache[h] = iface[s].tip /\ h = Announced(s) BY <2>0
    <3> QED BY <3>1, <3>3, <3>4, <1>3 DEF SaidAll
  <2> HIDE DEF known
  <2>5. Announced(s)' = Announced(s) BY <2>1 DEF Announced
  <2>6. SaidAll(s, cache)'
    <3>1. ASSUME NEW b, Said(s, b) PROVE Said(s, b)' BY <3>1, <2>1, <2>5 DEF Said
    <3> QED BY <3>1, <2>4, <2>1, <2>5 DEF SaidAll
  <2>7. SyncInv(s)'
    <3>1. ~ (Announced(s) + FarFromTip + 1 <= Announced(s)) /\ ~ (Announced(s) + FarFromTip + 2 <= Announced(s))
      BY <1>3, ChunksHaveHeaders
    <3>2. Low(s, bc, iface[s].chain, Announced(s)) BY <3>1 DEF Low
    <3>3. Low(s, bc, iface[s].chain, Announced(s))' BY <3>1, <2>5 DEF Low
    <3> QED BY <2>1, <2>3, <2>5, <3>3, <1>3 DEF SyncInv
  <2>9. LockInv'
    <3>1. lock'.srv = s /\ lock'.cache = cache BY <2>1, <2>3
    <3>2. iface'[s].waiting BY <1>2, <2>1
    <3>3. DOMAIN lock' = {"srv", "at", "height", "good", "bad", "delta", "last", "cache"} BY <2>1, <2>3
    <3> QED BY <3>1, <3>2, <3>3, <2>6, <2>7 DEF LockInv
  <2> QED BY <1>1, <1>2, <1>4, <2>2, <2>9 DEF IInv
<1> QED BY <1>5, <1>6

LEMMA DisconnectKeeps ==
    ASSUME IInv, NEW s \in Servers, Disconnect(s)
    PROVE  IInv' /\ Extends(bc, bc')
<1>1. Sound(bc) /\ Kept(bc) BY DEF IInv
<1>2. Gone(s) /\ bc' = bc /\ tip' = tip BY DEF Disconnect
<1>3. Extends(bc, bc') BY <1>1, <1>2, ExtendsItself
<1> QED BY <1>2, <1>3, GoneKeeps

-----------------------------------------------------------------------------
(*                        What a restart finds, and loads                    *)

LEMMA StateIs ==
    ASSUME NEW st \in States
    PROVE  /\ st.chain \in Seq(Chains) /\ st.order \in Seq(Nat)
           /\ st.file \in [Blocks \cup {Main} -> Seq(Blocks) \cup {None}]
           /\ st = [chain |-> st.chain, order |-> st.order, file |-> st.file]
BY DEF States

(* An object that is added to others, which stay as they are *)
LEMMA AddedSound ==
    ASSUME NEW st, Sound(st), NEW g \in States, NEW m, m = Len(st.chain) + 1, Len(g.chain) = m,
           \A c \in Objs(st) : g.chain[c] = st.chain[c] /\ File(g, c) = File(st, c) /\ File(st, c) # << >>,
           IsBranch(g, m), g.chain[m].parent \in Objs(st),
           \A c \in Objs(st) : Range(File(g, c)) \cap Range(File(g, m)) = {}
    PROVE  Sound(g)
<1> DEFINE N == Len(st.chain)
           p == g.chain[m].parent
<1>1. N \in Nat /\ Objs(st) = 1 .. N /\ Objs(g) = 1 .. N + 1 /\ m = N + 1 /\ p # 0
  BY DEF Objs, Sound, Shape, States
<1> HIDE DEF N
<1>2. \A c \in Objs(g) : c \in Objs(st) \/ c = m
  BY <1>1
<1>3. m \in Objs(g) /\ \A c \in Objs(st) : c \in Objs(g) /\ c # m
  BY <1>1
<1>4. \A c \in Objs(st) : Top(g, c) = Top(st, c)
  BY DEF Top
<1>5. ASSUME NEW c \in Objs(st)
      PROVE  IsRoot(g, c) \/ IsBranch(g, c)
  <2>1. g.chain[c] = st.chain[c] /\ File(g, c) = File(st, c) /\ Top(g, c) = Top(st, c) /\ File(st, c) # << >>
    BY <1>4
  <2>2. CASE st.chain[c].parent = 0
    <3>1. IsRoot(st, c)
      BY <2>2, RootOrBranch
    <3> QED
      BY <2>1, <3>1 DEF IsRoot
  <2>3. CASE st.chain[c].parent # 0
    <3>1. IsBranch(st, c)
      BY <2>3, RootOrBranch
    <3> QED
      BY <1>3, <1>4, <2>1, <3>1 DEF IsBranch
  <2> QED
    BY <2>2, <2>3
<1>6. \E r \in [Objs(g) -> Nat] : Ranked(g, r)
  <2>1. PICK r \in [Objs(st) -> Nat] : Ranked(st, r)
    BY DEF Sound
  <2> DEFINE s == [c \in Objs(g) |-> IF c = m THEN r[p] + 1 ELSE r[c]]
  <2>2. \A c \in Objs(st) : r[c] \in Nat
    BY <2>1
  <2>a. p \in Objs(st)
    BY <1>2
  <2>b. \A c \in Objs(g) : c = m \/ c \in Objs(st)
    BY <1>2
  <2>c. ASSUME NEW c \in Objs(g)
        PROVE  (IF c = m THEN r[p] + 1 ELSE r[c]) \in Nat
    <3>1. CASE c = m
      <4>1. r[p] \in Nat
        BY <2>2, <2>a
      <4> QED
        BY <3>1, <4>1
    <3>2. CASE c # m
      BY <2>2, <2>b, <3>2
    <3> QED
      BY <3>1, <3>2
  <2>3. s \in [Objs(g) -> Nat]
    BY <2>c
  <2>4. s[m] = r[p] + 1 /\ \A c \in Objs(st) : s[c] = r[c]
    BY <1>3
  <2> HIDE DEF s
  <2>5. ASSUME NEW c \in Objs(g), g.chain[c].parent # 0
        PROVE  s[g.chain[c].parent] < s[c]
    <3>1. CASE c = m
      <4>1. s[g.chain[c].parent] = r[p] /\ s[c] = r[p] + 1 /\ r[p] \in Nat
        BY <2>2, <2>4, <3>1
      <4> QED
        BY <4>1
    <3>2. CASE c \in Objs(st)
      <4>1. g.chain[c].parent = st.chain[c].parent
        BY <3>2
      <4>2. st.chain[c].parent \in Objs(st) /\ r[st.chain[c].parent] < r[c]
        BY <2>1, <2>5, <3>2, <4>1, ObjectIs DEF Ranked
      <4> QED
        BY <2>4, <3>2, <4>1, <4>2
    <3> QED
      BY <1>2, <3>1, <3>2
  <2> QED
    BY <2>3, <2>5 DEF Ranked
<1>7. Apart(g)
  <2>1. \A c, d \in Objs(st) : c # d => Range(File(st, c)) \cap Range(File(st, d)) = {}
    BY DEF Sound, Apart
  <2> SUFFICES ASSUME NEW c \in Objs(g), NEW d \in Objs(g), c # d
               PROVE  Range(File(g, c)) \cap Range(File(g, d)) = {}
    BY DEF Apart
  <2>2. CASE c \in Objs(st) /\ d \in Objs(st)
    BY <2>1, <2>2
  <2>3. CASE c \in Objs(st) /\ d = m
    BY <2>3
  <2>4. CASE c = m /\ d \in Objs(st)
    BY <2>4
  <2> QED
    BY <1>2, <2>2, <2>3, <2>4
<1>8. \A c, d \in Objs(g) : g.chain[c].parent = 0 /\ g.chain[d].parent = 0 => c = d
  <2>1. \A c \in Objs(g) : g.chain[c].parent = 0 => c \in Objs(st) /\ st.chain[c].parent = 0
    BY <1>1, <1>2
  <2> QED
    BY <2>1 DEF Sound
<1>9. \A c \in Objs(g) : IsRoot(g, c) \/ IsBranch(g, c)
  BY <1>2, <1>5
<1>10. Shape(g)
  BY <1>1 DEF Shape
<1> QED
  BY <1>6, <1>7, <1>8, <1>9, <1>10 DEF Sound

(* The dict has all objects, and each once. *)
InDict(st) ==
    /\ Range(st.order) = Objs(st)
    /\ \A i, j \in DOMAIN st.order : st.order[i] = st.order[j] => i = j

LEMMA NotBeyond == \A N \in Nat : \A v \in 1 .. N : v # N + 1
OBVIOUS

LEMMA AddedInDict ==
    ASSUME NEW st, Shape(st), InDict(st), NEW m, m = Len(st.chain) + 1, NEW g, Len(g.chain) = m,
           g.order = Append(st.order, m)
    PROVE  InDict(g)
<1> DEFINE N == Len(st.chain)
           q == st.order
           n == Len(q)
<1>1. N \in Nat /\ m = N + 1 /\ Objs(g) = 1 .. N + 1 /\ Objs(st) = 1 .. N
  BY DEF Objs, Shape, States
<1> HIDE DEF N
<1>2. q \in Seq(Nat) /\ Range(q) = 1 .. N /\ \A i, j \in DOMAIN q : q[i] = q[j] => i = j
  BY <1>1 DEF InDict, Shape, States
<1>3. g.order = Append(q, m) /\ m \in Nat
  BY <1>1
<1> HIDE DEF q
<1>4. /\ DOMAIN q = 1 .. n /\ n \in Nat /\ DOMAIN g.order = 1 .. n + 1
      /\ \A i \in 1 .. n : g.order[i] = q[i]
      /\ g.order[n + 1] = m
  BY <1>2, <1>3
<1>5. \A i \in 1 .. n : q[i] \in 1 .. N
  BY <1>2, <1>4 DEF Range
<1>6. \A i, j \in DOMAIN g.order : g.order[i] = g.order[j] => i = j
  <2> SUFFICES ASSUME NEW i \in 1 .. n + 1, NEW j \in 1 .. n + 1, g.order[i] = g.order[j] PROVE i = j
    BY <1>4
  <2>1. \A k \in 1 .. n + 1 : k \in 1 .. n \/ k = n + 1
    BY <1>4
  <2>2. \A k \in 1 .. n : g.order[k] # N + 1
    <3> SUFFICES ASSUME NEW k \in 1 .. n PROVE g.order[k] # N + 1
      OBVIOUS
    <3>1. g.order[k] \in 1 .. N
      BY <1>4, <1>5
    <3>2. N \in Nat
      BY <1>1
    <3> QED
      BY <3>1, <3>2, NotBeyond
  <2>3. g.order[n + 1] = N + 1
    BY <1>1, <1>4
  <2> QED
    BY <1>2, <1>4, <2>1, <2>2, <2>3
<1>7. Range(g.order) = 1 .. N + 1
  <2>1. \A i \in 1 .. n + 1 : g.order[i] \in 1 .. N + 1
    BY <1>1, <1>4, <1>5
  <2>2. ASSUME NEW c \in 1 .. N + 1
        PROVE  \E i \in 1 .. n + 1 : g.order[i] = c
    <3>1. CASE c = N + 1
      <4>1. c = m /\ n + 1 \in 1 .. n + 1
        BY <1>1, <1>4, <3>1
      <4> QED
        BY <1>4, <4>1
    <3>2. CASE c # N + 1
      <4>1. c \in 1 .. N
        BY <1>1, <3>2
      <4>2. PICK i \in 1 .. n : q[i] = c
        BY <1>2, <4>1, <1>4 DEF Range
      <4> QED
        BY <1>4, <4>2
    <3> QED
      BY <3>1, <3>2
  <2> QED
    BY <1>4, <2>1, <2>2 DEF Range
<1> QED
  BY <1>1, <1>6, <1>7 DEF InDict

(* An object is as it was if its headers are. *)
LEMMA SoundAlike ==
    ASSUME NEW st, Sound(st), NEW g \in States, g.chain = st.chain,
           \A c \in Objs(st) : File(g, c) = File(st, c)
    PROVE  Sound(g)
<1>1. Objs(g) = Objs(st) /\ \A c \in Objs(st) : Top(g, c) = Top(st, c)
  BY DEF Objs, Top
<1>2. ASSUME NEW c \in Objs(st)
      PROVE  IsRoot(g, c) \/ IsBranch(g, c)
  <2>1. IsRoot(st, c) => IsRoot(g, c)
    BY <1>1 DEF IsRoot
  <2>2. IsBranch(st, c) => IsBranch(g, c)
    BY <1>1 DEF IsBranch
  <2> QED
    BY <2>1, <2>2 DEF Sound
<1>3. Shape(g) /\ \E r \in [Objs(g) -> Nat] : Ranked(g, r)
  BY <1>1 DEF Sound, Shape, Ranked
<1>4. \A c, d \in Objs(g) : g.chain[c].parent = 0 /\ g.chain[d].parent = 0 => c = d
  BY <1>1 DEF Sound
<1>5. Apart(g)
  BY <1>1 DEF Sound, Apart
<1> QED
  BY <1>1, <1>2, <1>3, <1>4, <1>5 DEF Sound

(* The last header of a file *)
End(f) == IF f = << >> THEN Genesis ELSE f[Len(f)]

(* The files that have a name that a restart accepts *)
Named(F) == {n \in Blocks : F[n] # None /\ F[n][1] = n}

(* The files that the program can leave behind: the headers of each are a     *)
(* branch, no two have a header in common, and none goes on where another     *)
(* ends; only those whose name is wrong can be anything.                      *)
OnDisk(F) ==
    /\ F \in [Blocks \cup {Main} -> Seq(Blocks) \cup {None}]
    /\ F[Main] # None
    /\ F[Main] = << >> => \A n \in Blocks : F[n] = None
    /\ F[Main] # << >> => F[Main] = Branch(0, End(F[Main]))
    /\ \A n \in Blocks : F[n] # None => n # Genesis /\ F[n] # << >>
    /\ \A n \in Named(F) : HeightOf[n] <= HeightOf[End(F[n])] /\ F[n] = Branch(HeightOf[n], End(F[n]))
    /\ \A m, n \in Named(F) \cup {Main} : m # n => Range(F[m]) \cap Range(F[n]) = {}
    /\ \A m \in Named(F) \cup {Main} : \A n \in Named(F) : End(F[m]) # PrevBlock[n]

(* A file that is deleted *)
LEMMA DeletedOnDisk ==
    ASSUME NEW F, OnDisk(F), NEW b \in Blocks, NEW G, G = [F EXCEPT ![b] = None]
    PROVE  OnDisk(G)
<1>1. F \in [Blocks \cup {Main} -> Seq(Blocks) \cup {None}] /\ Main \notin Blocks /\ Main # b
  BY SpecialValues DEF OnDisk
<1>2. /\ G \in [Blocks \cup {Main} -> Seq(Blocks) \cup {None}] /\ G[b] = None
      /\ \A n \in Blocks \cup {Main} : n # b => G[n] = F[n]
  BY <1>1
<1>3. G[Main] = F[Main]
  BY <1>1, <1>2
<1>4. Named(G) \subseteq Named(F) /\ \A n \in Named(G) : G[n] = F[n]
  BY <1>2 DEF Named
<1>5. \A n \in Named(G) \cup {Main} : n \in Named(F) \cup {Main} /\ G[n] = F[n]
  BY <1>3, <1>4
<1>6. \A m, n \in Named(G) \cup {Main} : m # n => Range(G[m]) \cap Range(G[n]) = {}
  <2>1. \A m, n \in Named(F) \cup {Main} : m # n => Range(F[m]) \cap Range(F[n]) = {}
    BY DEF OnDisk
  <2> QED
    BY <1>5, <2>1
<1>7. \A m \in Named(G) \cup {Main} : \A n \in Named(G) : End(G[m]) # PrevBlock[n]
  <2>1. \A m \in Named(F) \cup {Main} : \A n \in Named(F) : End(F[m]) # PrevBlock[n]
    BY DEF OnDisk
  <2>2. ASSUME NEW m \in Named(G) \cup {Main}, NEW n \in Named(G)
        PROVE  End(G[m]) # PrevBlock[n]
    <3>1. G[m] = F[m] /\ m \in Named(F) \cup {Main} /\ n \in Named(F)
      BY <1>4, <1>5
    <3> QED
      BY <2>1, <3>1
  <2> QED
    BY <2>2
<1>8. \A n \in Named(G) : HeightOf[n] <= HeightOf[End(G[n])] /\ G[n] = Branch(HeightOf[n], End(G[n]))
  BY <1>4 DEF OnDisk
<1>9. \A n \in Blocks : G[n] # None => n # Genesis /\ G[n] # << >>
  BY <1>2 DEF OnDisk
<1>10. G[Main] = << >> => \A n \in Blocks : G[n] = None
  BY <1>2, <1>3 DEF OnDisk
<1>11. G[Main] # None /\ (G[Main] # << >> => G[Main] = Branch(0, End(G[Main])))
  BY <1>3 DEF OnDisk
<1> QED
  BY <1>2, <1>6, <1>7, <1>8, <1>9, <1>10, <1>11 DEF OnDisk

(* The parent that a file is given *)
FirstWith(st, h, b) == FirstThat(st, LAMBDA o : HashAt(st, o, h) = b)

LEMMA FirstWithIs ==
    ASSUME NEW st, Shape(st), InDict(st), NEW h, NEW b
    PROVE  \/ FirstWith(st, h, b) \in Objs(st) /\ FirstWith(st, h, b) # 0 /\ HashAt(st, FirstWith(st, h, b), h) = b
           \/ FirstWith(st, h, b) = 0
<1> DEFINE I == {i \in 1 .. Len(st.order) : HashAt(st, st.order[i], h) = b}
<1> DEFINE i == IF I # {} THEN Min(I) ELSE 0
<1>1. FirstWith(st, h, b) = IF i = 0 THEN 0 ELSE st.order[i] BY DEF FirstWith, FirstThat, SelectInSeq
<1>2. st.order \in Seq(Nat) /\ Range(st.order) = Objs(st) BY DEF Shape, States, InDict
<1>3. \A k \in 1 .. Len(st.order) : st.order[k] \in Objs(st) BY <1>2 DEF Range
<1>4. 0 \notin Objs(st) BY DEF Objs
<1>5. CASE I # {}
  <2>1. Len(st.order) \in Nat /\ I \in SUBSET (1 .. Len(st.order)) BY <1>2
  <2>2. i \in I BY <1>5, <2>1, LeastIs
  <2>3. i # 0 BY <2>2
  <2> QED BY <1>1, <1>3, <1>4, <2>2, <2>3
<1>6. CASE I = {} BY <1>1, <1>6
<1> QED BY <1>5, <1>6

(* What is loaded of a file *)
Loads(st, g, b) ==
    /\ Sound(g) /\ InDict(g) /\ OnDisk(g.file)
    /\ \A n \in Blocks : n # b => g.file[n] = st.file[n]
    /\ \A o \in Objs(st) : o \in Objs(g) /\ Path(g, o) = Path(st, o)
    /\ \A o \in Objs(g) : Path(g, o) = b \/ (o \in Objs(st) /\ Path(g, o) = Path(st, o))
    /\ g.file[b] # None => \E o \in Objs(g) : Path(g, o) = b

LEMMA DeletedLoads ==
    ASSUME NEW st, Sound(st), InDict(st), OnDisk(st.file), NEW b \in Blocks,
           \A o \in Objs(st) : Path(st, o) # b, NEW g, g = [st EXCEPT !.file[b] = None]
    PROVE  Loads(st, g, b)
<1>1. st \in States BY DEF Sound, Shape
<1>2. /\ st.chain \in Seq(Chains) /\ st.order \in Seq(Nat)
      /\ st.file \in [Blocks \cup {Main} -> Seq(Blocks) \cup {None}]
      /\ st = [chain |-> st.chain, order |-> st.order, file |-> st.file]
  BY <1>1, StateIs
<1>3. g = [st EXCEPT !.file = [@ EXCEPT ![b] = None]] OBVIOUS
<1>4. g \in States
  <2>1. b \in Blocks \cup {Main} /\ None \in Seq(Blocks) \cup {None} OBVIOUS
  <2>2. [st EXCEPT !.file = [@ EXCEPT ![b] = None]] \in States BY <1>1, <2>1, FileChanges
  <2> QED BY <1>3, <2>2
<1>5. g.chain = st.chain /\ g.order = st.order /\ g.file = [st.file EXCEPT ![b] = None]
  BY <1>2, <1>3
<1>6. OnDisk(g.file) BY <1>5, DeletedOnDisk
<1>7. g.file[b] = None /\ \A n \in Blocks \cup {Main} : n # b => g.file[n] = st.file[n] BY <1>2, <1>5
<1>8. Objs(g) = Objs(st) /\ \A o \in Objs(st) : Path(g, o) = Path(st, o) BY <1>5 DEF Objs, Path
<1>9. \A o \in Objs(st) : Path(st, o) \in Blocks \cup {Main} BY ObjectIs
<1>10. \A o \in Objs(st) : File(g, o) = File(st, o) BY <1>7, <1>8, <1>9 DEF File
<1>11. Sound(g) BY <1>4, <1>5, <1>10, SoundAlike
<1>12. InDict(g) BY <1>5, <1>8 DEF InDict
<1> QED BY <1>6, <1>7, <1>8, <1>11, <1>12 DEF Loads

(* The files of objects are named. *)
LEMMA PathsAreNamed ==
    ASSUME NEW st, Sound(st), NEW o \in Objs(st)
    PROVE  /\ Path(st, o) \in Named(st.file) \cup {Main} /\ Top(st, o) = End(st.file[Path(st, o)])
           /\ Path(st, o) # Main => st.chain[o].parent # 0
<1>1. Top(st, o) = End(st.file[Path(st, o)]) BY DEF Top, File, End
<1>2. Path(st, o) # Main => st.chain[o].parent # 0 BY DEF Path
<1>3. CASE st.chain[o].parent = 0 BY <1>1, <1>2, <1>3 DEF Path
<1>4. CASE st.chain[o].parent # 0
  <2>1. /\ IsBranch(st, o) /\ Path(st, o) = st.chain[o].first
    BY <1>4, RootOrBranch DEF Path
  <2> DEFINE t == Top(st, o)
             k == st.chain[o].forkpoint
  <2>2. t \in Blocks /\ HeightOf[t] \in Nat /\ k \in 0 .. HeightOf[t] /\ File(st, o) = Branch(k, t)
    BY <2>1, Heights DEF IsBranch
  <2>3. st.chain[o].first = BlockAt[t][k] BY <2>1 DEF IsBranch
  <2> HIDE DEF t, k
  <2>4. Branch(k, t)[1] = BlockAt[t][k] /\ Branch(k, t) \in Seq(Blocks) BY <2>2, BranchIs
  <2>5. BlockAt[t][k] \in Blocks BY <2>2, InChain
  <2>6. st.file[Path(st, o)] = Branch(k, t) BY <2>2 DEF File
  <2>7. Branch(k, t) # None BY <2>4, NoFileIsNone
  <2> QED BY <1>1, <1>2, <2>1, <2>3, <2>4, <2>5, <2>6, <2>7 DEF Named
<1> QED BY <1>3, <1>4

WithObject(st, b, p) ==
    [st EXCEPT !.chain = Append(@, [parent |-> p, first |-> b, prev |-> PrevBlock[b],
                                    forkpoint |-> HeightOf[b]]),
               !.order = Append(@, Len(st.chain) + 1)]

(* A file whose first header goes on from what an object has becomes an object. *)
LEMMA NamedLoads ==
    ASSUME NEW st, Sound(st), InDict(st), OnDisk(st.file), NEW b \in Named(st.file),
           \A o \in Objs(st) : Path(st, o) # b, NEW p \in Objs(st),
           HashAt(st, p, HeightOf[b] - 1) = PrevBlock[b],
           NEW g, g = WithObject(st, b, p)
    PROVE  Loads(st, g, b)
<1> DEFINE h == HeightOf[b]
           prev == PrevBlock[b]
           new == [parent |-> p, first |-> b, prev |-> prev, forkpoint |-> h]
           t == End(st.file[b])
<1>1. st \in States /\ Len(st.chain) \in Nat /\ Objs(st) = 1 .. Len(st.chain)
  BY DEF Sound, Shape, States, Objs
<1>2. /\ st.chain \in Seq(Chains) /\ st.order \in Seq(Nat)
      /\ st.file \in [Blocks \cup {Main} -> Seq(Blocks) \cup {None}]
      /\ st = [chain |-> st.chain, order |-> st.order, file |-> st.file]
  BY <1>1, StateIs
<1>3. b \in Blocks /\ st.file[b] # None /\ b # Genesis /\ st.file[b] # << >>
  BY DEF Named, OnDisk
<1>4. h \in Nat /\ prev \in Blocks /\ HeightOf[prev] \in Nat /\ h = HeightOf[prev] + 1
  BY <1>3, BlocksLinked, Heights
<1>5. st.file[b] \in Seq(Blocks)
  BY <1>2, <1>3
<1>6. t \in Blocks
  BY <1>3, <1>5 DEF End
<1>7. h <= HeightOf[t] /\ st.file[b] = Branch(h, t) /\ HeightOf[t] \in Nat
  BY <1>6, Heights DEF OnDisk
<1> HIDE DEF t
<1>8. BlockAt[t][h] = b
  <2>1. h \in 0 .. HeightOf[t]
    BY <1>4, <1>7
  <2>2. Branch(h, t)[1] = BlockAt[t][h]
    BY <1>6, <2>1, BranchIs
  <2>3. st.file[b][1] = b
    BY DEF Named
  <2> QED
    BY <1>7, <2>2, <2>3
<1>9. BlockAt[t][h - 1] = prev
  <2>1. h \in 1 .. HeightOf[t]
    BY <1>4, <1>7
  <2> QED
    BY <1>6, <1>8, <2>1, BeforeInChain
<1>10. p \in Nat /\ p # 0 /\ Top(st, p) \in Blocks /\ HeightOf[Top(st, p)] \in Nat
  BY <1>1, TopIs
<1>11. h - 1 <= HeightOf[Top(st, p)] /\ BlockAt[Top(st, p)][h - 1] = prev
  <2>1. PICK k \in Nat : k = h - 1
    BY <1>4
  <2>2. HashAt(st, p, k) = IF k <= HeightOf[Top(st, p)] THEN BlockAt[Top(st, p)][k] ELSE None
    BY <2>1, HashIs
  <2>3. HashAt(st, p, k) = prev /\ prev # None
    BY <1>4, <2>1, SpecialValues
  <2> QED
    BY <2>1, <2>2, <2>3
<1>12. h <= HeightOf[Top(st, p)]
  <2> SUFFICES ASSUME h - 1 = HeightOf[Top(st, p)] PROVE FALSE
    BY <1>4, <1>10, <1>11
  <2>1. Top(st, p) = prev
    BY <1>10, <1>11, ChainsAreGrown
  <2>2. Path(st, p) \in Named(st.file) \cup {Main} /\ Top(st, p) = End(st.file[Path(st, p)])
    BY PathsAreNamed
  <2>3. End(st.file[Path(st, p)]) # PrevBlock[b]
    BY <2>2 DEF OnDisk
  <2> QED
    BY <2>1, <2>2, <2>3
<1>13. new \in Chains
  BY <1>3, <1>4, <1>10 DEF Chains
<1>14. new.parent = p /\ new.forkpoint = h /\ new.first = b /\ new.prev = prev
  OBVIOUS
<1> DEFINE m == Len(st.chain) + 1
<1>15. g = [chain |-> Append(st.chain, new), order |-> Append(st.order, m), file |-> st.file]
  <2>1. PICK ch, ord, fl : st = [chain |-> ch, order |-> ord, file |-> fl]
    BY <1>2
  <2>2. g = [st EXCEPT !.chain = Append(@, new), !.order = Append(@, m)]
    BY DEF WithObject
  <2> HIDE DEF new, m
  <2>3. g = [chain |-> Append(ch, new), order |-> Append(ord, m), file |-> fl]
    BY <2>1, <2>2
  <2>4. st.chain = ch /\ st.order = ord /\ st.file = fl
    BY <2>1
  <2> QED
    BY <2>3, <2>4
<1> HIDE DEF new, h, prev
<1>16. g.chain = Append(st.chain, new) /\ g.order = Append(st.order, m) /\ g.file = st.file
  BY <1>15
<1>17. m \in Nat /\ m \notin Objs(st) /\ m # 0
  BY <1>1
<1>18. /\ g.chain \in Seq(Chains) /\ Len(g.chain) = m /\ g.chain[m] = new
       /\ \A c \in Objs(st) : g.chain[c] = st.chain[c]
  BY <1>1, <1>2, <1>13, <1>16
<1>19. g \in States
  <2>1. Append(st.order, m) \in Seq(Nat)
    BY <1>2, <1>17
  <2> QED
    BY <1>2, <1>15, <1>18, <1>16, <2>1 DEF States
<1>20. Objs(g) = Objs(st) \cup {m}
  BY <1>1, <1>18 DEF Objs
<1> HIDE DEF m
<1>21. \A c \in Objs(st) : Path(g, c) = Path(st, c) /\ File(g, c) = File(st, c)
  <2>1. \A c \in Objs(st) : Path(g, c) = Path(st, c)
    BY <1>18 DEF Path
  <2> QED
    BY <1>16, <2>1 DEF File
<1>22. Path(g, m) = b /\ File(g, m) = Branch(h, t) /\ Top(g, m) = t
  <2>1. Path(g, m) = b
    BY <1>10, <1>14, <1>18 DEF Path
  <2>2. File(g, m) = st.file[b]
    BY <1>16, <2>1 DEF File
  <2> QED
    BY <1>7, <2>1, <2>2 DEF Top, t, End
<1>23. Top(g, p) = Top(st, p)
  BY <1>21 DEF Top
<1>24. IsBranch(g, m)
  <2>1. g.chain[m].parent = p /\ g.chain[m].forkpoint = h /\ g.chain[m].first = b /\ g.chain[m].prev = prev
    BY <1>14, <1>18
  <2>2. p \in Objs(g)
    BY <1>20
  <2>3. h \in 1 .. HeightOf[t]
    BY <1>4, <1>7
  <2> QED
    BY <1>6, <1>8, <1>9, <1>11, <1>12, <1>22, <1>23, <2>1, <2>2, <2>3 DEF IsBranch
<1>25. \A c \in Objs(st) : File(st, c) # << >>
  <2>1. st.file[Main] # << >>
    BY <1>3 DEF OnDisk
  <2>2. ASSUME NEW c \in Objs(st) PROVE File(st, c) # << >>
    <3>1. CASE Path(st, c) = Main
      BY <2>1, <3>1 DEF File
    <3>2. CASE Path(st, c) # Main
      <4>1. Path(st, c) \in Blocks /\ st.file[Path(st, c)] # None
        BY <3>2, PathsAreNamed DEF Named
      <4> QED
        BY <4>1 DEF OnDisk, File
    <3> QED
      BY <3>1, <3>2
  <2> QED
    BY <2>2
<1>26. ASSUME NEW c \in Objs(st)
       PROVE  Range(File(g, c)) \cap Range(File(g, m)) = {}
  <2>1. Path(st, c) \in Named(st.file) \cup {Main} /\ Path(st, c) # b
    BY PathsAreNamed
  <2>2. Range(st.file[Path(st, c)]) \cap Range(st.file[b]) = {}
    BY <2>1 DEF OnDisk
  <2> QED
    BY <1>7, <1>21, <1>22, <2>2 DEF File
<1>27. Sound(g)
  <2>1. g.chain[m].parent \in Objs(st)
    BY <1>14, <1>18
  <2>2. m = Len(st.chain) + 1
    BY DEF m
  <2>3. \A c \in Objs(st) : g.chain[c] = st.chain[c] /\ File(g, c) = File(st, c) /\ File(st, c) # << >>
    BY <1>18, <1>21, <1>25
  <2> QED
    BY <1>18, <1>19, <1>24, <1>26, <2>1, <2>2, <2>3, AddedSound
<1>28. InDict(g)
  <2>1. m = Len(st.chain) + 1 /\ Shape(st)
    BY DEF m, Sound
  <2>2. g.order = Append(st.order, m) /\ Len(g.chain) = m
    BY <1>16, <1>18
  <2> QED
    BY <2>1, <2>2, AddedInDict
<1>29. \A o \in Objs(g) : Path(g, o) = b \/ (o \in Objs(st) /\ Path(g, o) = Path(st, o))
  BY <1>20, <1>21, <1>22
<1>30. \A o \in Objs(st) : o \in Objs(g) /\ Path(g, o) = Path(st, o)
  BY <1>20, <1>21
<1> QED
  BY <1>16, <1>20, <1>22, <1>27, <1>28, <1>29, <1>30 DEF Loads

LEMMA LoadChainIs ==
    ASSUME NEW st, Sound(st), InDict(st), OnDisk(st.file), NEW b \in Blocks, st.file[b] # None,
           \A o \in Objs(st) : Path(st, o) # b
    PROVE  Loads(st, LoadChain(st, b), b)
<1> DEFINE p == FirstWith(st, HeightOf[b] - 1, PrevBlock[b])
<1>1. LoadChain(st, b) = IF p = 0 \/ Head(st.file[b]) # b THEN [st EXCEPT !.file[b] = None]
                         ELSE WithObject(st, b, p)
  BY DEF LoadChain, FirstWith, WithObject
<1>2. p = 0 \/ (p \in Objs(st) /\ p # 0 /\ HashAt(st, p, HeightOf[b] - 1) = PrevBlock[b])
  <2>1. Shape(st)
    BY DEF Sound
  <2> QED
    BY <2>1, FirstWithIs
<1> HIDE DEF p
<1>3. st.file[b] \in Seq(Blocks) /\ st.file[b] # << >>
  BY DEF OnDisk
<1>4. Head(st.file[b]) = st.file[b][1]
  BY <1>3
<1>5. CASE p = 0 \/ Head(st.file[b]) # b
  <2>1. LoadChain(st, b) = [st EXCEPT !.file[b] = None]
    BY <1>1, <1>5
  <2> QED
    BY <2>1, DeletedLoads
<1>6. CASE p # 0 /\ Head(st.file[b]) = b
  <2>1. b \in Named(st.file)
    BY <1>4, <1>6 DEF Named
  <2>2. p \in Objs(st) /\ HashAt(st, p, HeightOf[b] - 1) = PrevBlock[b]
    BY <1>2, <1>6
  <2>3. PICK g : g = LoadChain(st, b)
    OBVIOUS
  <2>4. g = WithObject(st, b, p)
    BY <1>1, <1>6, <2>3
  <2> QED
    BY <2>1, <2>2, <2>3, <2>4, NamedLoads
<1> QED
  BY <1>5, <1>6

(* The root alone *)
LEMMA LoadedIs ==
    ASSUME NEW F, OnDisk(F)
    PROVE  Sound(Loaded(F)) /\ InDict(Loaded(F)) /\ Loaded(F).file = F
           /\ \A o \in Objs(Loaded(F)) : Path(Loaded(F), o) = Main
<1> DEFINE st == Loaded(F)
<1>1. F \in [Blocks \cup {Main} -> Seq(Blocks) \cup {None}] /\ F[Main] # None
  BY DEF OnDisk
<1>2. st.chain = <<Root>> /\ st.order = <<1>> /\ st.file = F
  BY DEF Loaded
<1>3. Genesis \in Blocks /\ Root \in Chains
  BY BlocksLinked DEF Root, Chains
<1>4. Root.parent = 0 /\ Root.forkpoint = 0 /\ Root.first = Genesis
  BY DEF Root
<1> HIDE DEF Root
<1>5. st.chain \in Seq(Chains) /\ Len(st.chain) = 1 /\ st.chain[1] = Root /\ st.order \in Seq(Nat)
      /\ DOMAIN st.order = {1} /\ st.order[1] = 1
  BY <1>2, <1>3
<1>6. st \in States
  <2>1. Seq(Chains) \in {Seq(Chains)} /\ <<Root>> \in Seq(Chains) /\ <<1>> \in Seq(Nat)
    BY <1>2, <1>5
  <2> QED
    BY <1>1, <2>1 DEF Loaded, States
<1> HIDE DEF st
<1>7. Objs(st) = {1}
  BY <1>5 DEF Objs
<1>8. Path(st, 1) = Main /\ File(st, 1) = F[Main] /\ Top(st, 1) = End(F[Main])
  <2>1. Path(st, 1) = Main
    BY <1>4, <1>5 DEF Path
  <2>2. File(st, 1) = F[Main]
    BY <1>2, <2>1 DEF File
  <2> QED
    BY <2>1, <2>2 DEF Top, End
<1>9. End(F[Main]) \in Blocks
  <2>1. F[Main] \in Seq(Blocks)
    BY <1>1
  <2> QED
    BY <1>3, <2>1 DEF End
<1>10. F[Main] = Branch(0, End(F[Main])) \/ F[Main] = << >>
  BY DEF OnDisk
<1>11. IsRoot(st, 1)
  BY <1>4, <1>5, <1>8, <1>9, <1>10 DEF IsRoot
<1>12. \E r \in [Objs(st) -> Nat] : Ranked(st, r)
  <2> DEFINE r == [o \in Objs(st) |-> 0]
  <2>1. r \in [Objs(st) -> Nat]
    OBVIOUS
  <2>2. \A o \in Objs(st) : st.chain[o].parent = 0
    BY <1>4, <1>5, <1>7
  <2> HIDE DEF r
  <2> QED
    BY <2>1, <2>2 DEF Ranked
<1>13. Sound(st)
  <2>1. Shape(st)
    BY <1>5, <1>6 DEF Shape
  <2>2. Apart(st)
    BY <1>7 DEF Apart
  <2> QED
    BY <1>7, <1>11, <1>12, <2>1, <2>2 DEF Sound
<1>14. InDict(st)
  BY <1>5, <1>7 DEF InDict, Range
<1> QED
  BY <1>2, <1>7, <1>8, <1>13, <1>14 DEF st

(* An order in which all named files are loaded *)
IsLoadOrder(F, q) ==
    /\ q \in Seq(Blocks)
    /\ \A i \in 1 .. Len(q) : F[q[i]] # None
    /\ \A i, j \in 1 .. Len(q) : q[i] = q[j] => i = j
    /\ \A n \in Blocks : F[n] # None => \E i \in 1 .. Len(q) : q[i] = n

LoadedTo(q, m, st) ==
    /\ Sound(st) /\ InDict(st) /\ OnDisk(st.file)
    /\ \A i \in 1 .. Len(q) : i > m => st.file[q[i]] # None /\ \A o \in Objs(st) : Path(st, o) # q[i]
    /\ \A i \in 1 .. Len(q) : i <= m /\ st.file[q[i]] # None => \E o \in Objs(st) : Path(st, o) = q[i]
    /\ \A n \in Blocks : st.file[n] # None => \E i \in 1 .. Len(q) : q[i] = n

LEMMA LoadStarts ==
    ASSUME NEW F, OnDisk(F), NEW q, IsLoadOrder(F, q)
    PROVE  LoadedTo(q, 0, Loaded(F))
<1> DEFINE st == Loaded(F)
<1>1. Sound(st) /\ InDict(st) /\ st.file = F /\ \A o \in Objs(st) : Path(st, o) = Main
  BY LoadedIs
<1>2. \A i \in 1 .. Len(q) : q[i] \in Blocks /\ q[i] # Main /\ F[q[i]] # None
  BY SpecialValues DEF IsLoadOrder
<1> HIDE DEF st
<1>3. \A i \in 1 .. Len(q) : ~ (i <= 0)
  OBVIOUS
<1> QED
  BY <1>1, <1>2, <1>3 DEF LoadedTo, IsLoadOrder, st

LEMMA LoadGoesOn ==
    ASSUME NEW F, NEW q, IsLoadOrder(F, q), NEW m \in 1 .. Len(q), NEW st, LoadedTo(q, m - 1, st)
    PROVE  LoadedTo(q, m, LoadChain(st, q[m]))
<1>1. PICK b \in Blocks : b = q[m]
  BY DEF IsLoadOrder
<1>2. Sound(st) /\ InDict(st) /\ OnDisk(st.file)
  BY DEF LoadedTo
<1>3. m > m - 1 /\ Len(q) \in Nat
  BY DEF IsLoadOrder
<1>4. st.file[b] # None /\ \A o \in Objs(st) : Path(st, o) # b
  BY <1>1, <1>3 DEF LoadedTo
<1>5. PICK g : g = LoadChain(st, b)
  OBVIOUS
<1>6. Loads(st, g, b)
  BY <1>2, <1>4, <1>5, LoadChainIs
<1>7. \A i \in 1 .. Len(q) : q[i] \in Blocks /\ (i # m => q[i] # b)
  BY <1>1 DEF IsLoadOrder
<1>8. ASSUME NEW i \in 1 .. Len(q), i > m
      PROVE  g.file[q[i]] # None /\ \A o \in Objs(g) : Path(g, o) # q[i]
  <2>1. i > m - 1 /\ q[i] # b /\ q[i] \in Blocks
    BY <1>7, <1>8
  <2>2. st.file[q[i]] # None /\ \A o \in Objs(st) : Path(st, o) # q[i]
    BY <2>1 DEF LoadedTo
  <2> QED
    BY <1>6, <2>1, <2>2 DEF Loads
<1>9. ASSUME NEW i \in 1 .. Len(q), i <= m, g.file[q[i]] # None
      PROVE  \E o \in Objs(g) : Path(g, o) = q[i]
  <2>1. CASE i = m
    BY <1>1, <1>6, <1>9, <2>1 DEF Loads
  <2>2. CASE i # m
    <3>1. i <= m - 1 /\ q[i] # b /\ q[i] \in Blocks
      BY <1>7, <1>9, <2>2
    <3>2. st.file[q[i]] # None
      BY <1>6, <1>9, <3>1 DEF Loads
    <3>3. \E o \in Objs(st) : Path(st, o) = q[i]
      BY <3>1, <3>2 DEF LoadedTo
    <3> QED
      BY <1>6, <3>3 DEF Loads
  <2> QED
    BY <2>1, <2>2
<1>10. ASSUME NEW n \in Blocks, g.file[n] # None
       PROVE  \E i \in 1 .. Len(q) : q[i] = n
  <2>1. CASE n = b
    BY <1>1, <2>1
  <2>2. CASE n # b
    BY <1>6, <1>10, <2>2 DEF Loads, LoadedTo
  <2> QED
    BY <2>1, <2>2
<1>11. LoadedTo(q, m, g)
  BY <1>6, <1>8, <1>9, <1>10 DEF LoadedTo, Loads
<1> QED
  BY <1>1, <1>5, <1>11

LEMMA LoadsKeep ==
    ASSUME NEW F, OnDisk(F), NEW q, IsLoadOrder(F, q), NEW u, u[0] = Loaded(F),
           \A m \in 1 .. Len(q) : LoadChain(u[m - 1], q[m]) \in States => u[m] = LoadChain(u[m - 1], q[m])
    PROVE  \A m \in 0 .. Len(q) : LoadedTo(q, m, u[m])
<1> DEFINE A == {m \in Nat : LoadedTo(q, m, u[m])}
<1>1. Len(q) \in Nat
  BY DEF IsLoadOrder
<1>2. 0 \in A
  BY LoadStarts
<1>3. ASSUME NEW m \in 0 .. Len(q) - 1, m \in A PROVE m + 1 \in A
  <2>1. PICK k \in 1 .. Len(q) : k = m + 1 /\ k - 1 = m
    BY <1>1
  <2>2. LoadedTo(q, k - 1, u[m])
    BY <1>3, <2>1
  <2>3. PICK st : st = u[m]
    OBVIOUS
  <2>4. LoadedTo(q, k, LoadChain(st, q[k]))
    BY <2>2, <2>3, LoadGoesOn
  <2>5. LoadChain(st, q[k]) \in States
    BY <2>4 DEF LoadedTo, Sound, Shape
  <2>6. u[k] = LoadChain(u[k - 1], q[k])
    BY <2>1, <2>3, <2>5
  <2>7. LoadedTo(q, k, u[k])
    BY <2>1, <2>3, <2>4, <2>6
  <2> QED
    BY <2>1, <2>7
<1> HIDE DEF A
<1>4. 0 .. Len(q) \subseteq A
  BY <1>1, <1>2, <1>3, IntervalInduction
<1> QED
  BY <1>4 DEF A

LoadEquation(F, q, u) ==
    u = [n \in 0 .. Len(q) |-> IF n = 0 THEN Loaded(F) ELSE LoadChain(u[n - 1], q[n])]

LEMMA LoadedInOrderIs ==
    ASSUME NEW F, OnDisk(F), NEW q, IsLoadOrder(F, q)
    PROVE  LoadedTo(q, Len(q), LoadedInOrder(F, q))
<1> DEFINE start == Loaded(F)
           n == Len(q)
           V == States
           R(i, v) == LoadChain(v, q[i])
           D == [i \in 1 .. n |-> [v \in V |-> IF R(i, v) \in V THEN R(i, v) ELSE v]]
<1>1. n \in Nat BY DEF IsLoadOrder
<1>2. start \in V BY LoadedIs DEF Sound, Shape
<1> HIDE DEF start, V, R, n
<1>3. \A i \in 1 .. n : \A v \in V : D[i][v] = IF R(i, v) \in V THEN R(i, v) ELSE v OBVIOUS
<1> HIDE DEF D
<1>4. \A i \in 1 .. n : \A v \in V : D[i][v] \in V BY <1>3
<1>5. PICK g : IsStepwise(g, n, V, start, D) BY <1>1, <1>2, <1>4, StepwiseFunction
<1>6. g \in [0 .. n -> V] /\ g[0] = start /\ \A i \in 1 .. n : g[i] = D[i][g[i - 1]] BY <1>5 DEF IsStepwise
<1>7. ASSUME NEW m \in 1 .. n, R(m, g[m - 1]) \in V
      PROVE  g[m] = R(m, g[m - 1])
  <2>1. m - 1 \in 0 .. n BY <1>1
  <2>2. g[m - 1] \in V BY <1>6, <2>1
  <2> QED BY <1>3, <1>6, <1>7, <2>2
<1>8. \A m \in 0 .. n : LoadedTo(q, m, g[m])
  BY <1>6, <1>7, LoadsKeep DEF start, V, R, n
<1>9. ASSUME NEW m \in 1 .. n PROVE R(m, g[m - 1]) \in V
  <2>1. PICK k \in 0 .. n : k = m - 1 BY <1>1
  <2>2. LoadedTo(q, k, g[k]) BY <1>8
  <2>3. PICK v : v = g[k] OBVIOUS
  <2>4. LoadedTo(q, m - 1, v) BY <2>1, <2>2, <2>3
  <2>5. LoadedTo(q, m, LoadChain(v, q[m])) BY <2>4, LoadGoesOn DEF n
  <2>6. LoadChain(v, q[m]) \in V BY <2>5 DEF LoadedTo, Sound, Shape, V
  <2> QED BY <2>1, <2>3, <2>6 DEF R
<1>10. LoadEquation(F, q, g)
  <2>1. g = [m \in 0 .. n |-> g[m]] BY <1>6
  <2>2. ASSUME NEW m \in 0 .. n PROVE g[m] = IF m = 0 THEN start ELSE R(m, g[m - 1])
    <3>1. CASE m = 0 BY <3>1, <1>6
    <3>2. CASE m # 0
      <4>1. m \in 1 .. n BY <3>2
      <4> QED BY <4>1, <3>2, <1>7, <1>9
    <3> QED BY <3>1, <3>2
  <2>3. g = [m \in 0 .. n |-> IF m = 0 THEN start ELSE R(m, g[m - 1])] BY <2>1, <2>2
  <2> QED BY <2>3 DEF LoadEquation, start, R, n
<1> DEFINE u == CHOOSE f : LoadEquation(F, q, f)
<1>11. LoadedInOrder(F, q) = u[n]
  BY DEF LoadedInOrder, LoadEquation, n
<1>12. LoadEquation(F, q, u) BY <1>10
<1> HIDE DEF u
<1>13. u = [m \in 0 .. n |-> IF m = 0 THEN start ELSE R(m, u[m - 1])] BY <1>12 DEF LoadEquation, start, R, n
<1>14. u[0] = start
  <2>1. 0 \in 0 .. n BY <1>1
  <2> QED BY <2>1, <1>13
<1>15. ASSUME NEW m \in 1 .. n PROVE u[m] = R(m, u[m - 1])
  <2>1. m \in 0 .. n /\ m # 0 BY <1>1
  <2> QED BY <2>1, <1>13
<1>16. \A m \in 0 .. n : LoadedTo(q, m, u[m])
  BY <1>14, <1>15, LoadsKeep DEF start, V, R, n
<1>17. n \in 0 .. n BY <1>1
<1> QED BY <1>11, <1>16, <1>17 DEF n

LEMMA LoadOrderIs ==
    ASSUME NEW F, OnDisk(F), NEW q \in LoadOrders(F)
    PROVE  IsLoadOrder(F, q)
<1> DEFINE S == {b \in Blocks : F[b] # None}
           n == Cardinality(S)
<1>1. IsFiniteSet(S) /\ n \in Nat
  <2>1. IsFiniteSet(Blocks) /\ S \in SUBSET Blocks
    BY BlocksLinked
  <2>2. IsFiniteSet(S)
    BY <2>1, FS_Subset
  <2> QED
    BY <2>2, FS_CardinalityType
<1>2. q \in [1 .. n -> S] /\ \A i, j \in 1 .. n : i # j => q[i] # q[j]
  BY DEF LoadOrders, SetToSeqs
<1>3. \A b \in Blocks : F[b] # None => b \in S
  OBVIOUS
<1>4. S \subseteq Blocks /\ \A b \in S : F[b] # None
  OBVIOUS
<1> HIDE DEF S, n
<1>5. q \in Injection(1 .. n, S)
  BY <1>2 DEF Injection, IsInjective
<1>6. Cardinality(1 .. n) = n
  BY <1>1, FS_Interval
<1>7. Cardinality(1 .. n) = Cardinality(S)
  BY <1>6 DEF n
<1>8. q \in Surjection(1 .. n, S)
  BY <1>1, <1>5, <1>7, FS_Injection
<1>9. \A b \in S : \E i \in 1 .. n : q[i] = b
  BY <1>8 DEF Surjection
<1>10. q \in Seq(Blocks) /\ Len(q) = n
  <2>1. q \in [1 .. n -> Blocks]
    BY <1>2, <1>4
  <2> QED
    BY <1>1, <2>1
<1>11. \A i \in 1 .. n : F[q[i]] # None
  BY <1>2, <1>4
<1>12. \A i, j \in 1 .. n : q[i] = q[j] => i = j
  BY <1>2
<1>13. \A b \in Blocks : F[b] # None => \E i \in 1 .. n : q[i] = b
  BY <1>3, <1>9
<1> QED
  BY <1>10, <1>11, <1>12, <1>13 DEF IsLoadOrder

(* What is loaded is sound, and all files that are left are those of objects. *)
LEMMA LoadedSound ==
    ASSUME NEW F, OnDisk(F), NEW q \in LoadOrders(F)
    PROVE  Sound(LoadedInOrder(F, q)) /\ Kept(LoadedInOrder(F, q))
<1> DEFINE st == LoadedInOrder(F, q)
<1>1. IsLoadOrder(F, q)
  BY LoadOrderIs
<1>2. LoadedTo(q, Len(q), st)
  BY <1>1, LoadedInOrderIs
<1> HIDE DEF st
<1>3. \A i \in 1 .. Len(q) : i <= Len(q)
  BY <1>1 DEF IsLoadOrder
<1>4. ASSUME NEW n \in Blocks, st.file[n] # None
      PROVE  \E o \in Objs(st) : Path(st, o) = n
  <2>1. PICK i \in 1 .. Len(q) : q[i] = n
    BY <1>2, <1>4 DEF LoadedTo
  <2> QED
    BY <1>2, <1>3, <1>4, <2>1 DEF LoadedTo
<1>5. Sound(st) /\ InDict(st)
  BY <1>2 DEF LoadedTo
<1>6. Kept(st)
  BY <1>4, <1>5 DEF Kept, InDict
<1> QED
  BY <1>5, <1>6 DEF st

(* There is a root. *)
LEMMA RootIs ==
    ASSUME NEW st, Sound(st)
    PROVE  \E o \in Objs(st) : st.chain[o].parent = 0 /\ Path(st, o) = Main
<1>1. 1 \in Objs(st) BY DEF Objs, Sound, Shape, States
<1>2. Top(st, 1) \in Blocks /\ HeightOf[Top(st, 1)] \in Nat BY <1>1, TopIs
<1> DEFINE c == Holder(st, 1, 0)
<1>3. c \in Objs(st) /\ st.chain[c].forkpoint <= 0 BY <1>1, <1>2, HolderHas
<1> HIDE DEF c
<1>4. st.chain[c].forkpoint = 0
  <2>1. st.chain[c].forkpoint \in Nat BY <1>3, ForkpointIs
  <2> QED BY <1>3, <2>1
<1>5. st.chain[c].parent = 0 BY <1>3, <1>4, ObjectIs
<1> QED BY <1>3, <1>5 DEF Path

(* The named files are those of objects. *)
LEMMA NamedIsPath ==
    ASSUME NEW st, Sound(st), Kept(st), NEW n \in Blocks \cup {Main}, n # Main => st.file[n] # None
    PROVE  \E o \in Objs(st) : Path(st, o) = n
BY RootIs DEF Kept

(* A branch has the name of its first header. *)
LEMMA BranchPathIs ==
    ASSUME NEW st, Sound(st), NEW o \in Objs(st), Path(st, o) # Main
    PROVE  LET n == Path(st, o) IN
           /\ n \in Blocks \ {Genesis} /\ IsBranch(st, o) /\ HeightOf[n] = st.chain[o].forkpoint
           /\ File(st, o) # << >> /\ File(st, o)[1] = n /\ PrevBlock[n] = st.chain[o].prev
<1> DEFINE n == Path(st, o)
           t == Top(st, o)
           k == st.chain[o].forkpoint
<1>1. IsBranch(st, o) /\ n = st.chain[o].first
  BY RootOrBranch DEF Path
<1>2. /\ t \in Blocks /\ HeightOf[t] \in Nat /\ k \in 1 .. HeightOf[t] /\ File(st, o) = Branch(k, t)
      /\ st.chain[o].first = BlockAt[t][k] /\ st.chain[o].prev = BlockAt[t][k - 1]
  BY <1>1, Heights DEF IsBranch
<1>3. n = BlockAt[t][k]
  BY <1>1, <1>2
<1> HIDE DEF n, t, k
<1>4. k \in 0 .. HeightOf[t]
  BY <1>2
<1>5. Branch(k, t) # << >> /\ Branch(k, t)[1] = BlockAt[t][k]
  BY <1>2, <1>4, BranchIs
<1>6. n \in Blocks /\ HeightOf[n] = k
  BY <1>2, <1>3, <1>4, InChain
<1>7. n # Genesis /\ PrevBlock[n] = BlockAt[t][k - 1]
  BY <1>2, <1>3, BeforeInChain
<1> QED
  BY <1>1, <1>2, <1>3, <1>5, <1>6, <1>7 DEF n, k

LEMMA SoundOnDisk ==
    ASSUME NEW st, Sound(st), Kept(st)
    PROVE  OnDisk(st.file)
<1> DEFINE F == st.file
<1>1. F \in [Blocks \cup {Main} -> Seq(Blocks) \cup {None}] /\ Main \notin Blocks
  BY SpecialValues DEF Sound, Shape, States
<1>2. PICK r \in Objs(st) : st.chain[r].parent = 0 /\ Path(st, r) = Main
  BY RootIs
<1>3. File(st, r) = F[Main] /\ Top(st, r) = End(F[Main]) /\ IsRoot(st, r)
  BY <1>2, RootOrBranch DEF File, Top, End
<1>4. F[Main] \in Seq(Blocks)
  BY <1>2, <1>3, ObjectIs
<1>5. F[Main] # None
  BY <1>4, NoFileIsNone
<1>6. F[Main] # << >> => F[Main] = Branch(0, End(F[Main]))
  BY <1>3 DEF IsRoot
<1>7. ASSUME NEW n \in Blocks, F[n] # None
      PROVE  \E o \in Objs(st) : Path(st, o) = n /\ n # Main /\ IsBranch(st, o)
  <2>1. PICK o \in Objs(st) : Path(st, o) = n
    BY <1>7, NamedIsPath
  <2> QED
    BY <1>1, <2>1, BranchPathIs
<1>8. ASSUME F[Main] = << >>, NEW n \in Blocks, F[n] # None
      PROVE  FALSE
  <2>1. PICK o \in Objs(st) : Path(st, o) = n /\ n # Main
    BY <1>7, <1>8
  <2>2. File(st, o) # << >>
    BY <2>1, BranchPathIs
  <2>3. o = 1 /\ File(st, 1) = << >>
    BY <1>8, EmptyRoot
  <2> QED
    BY <2>2, <2>3
<1>9. \A n \in Blocks : F[n] # None => n # Genesis /\ F[n] # << >>
  <2> SUFFICES ASSUME NEW n \in Blocks, F[n] # None PROVE n # Genesis /\ F[n] # << >>
    OBVIOUS
  <2>1. PICK o \in Objs(st) : Path(st, o) = n /\ n # Main
    BY <1>7
  <2>2. n \in Blocks \ {Genesis} /\ File(st, o) # << >>
    BY <2>1, BranchPathIs
  <2> QED
    BY <2>1, <2>2 DEF File
<1>10. ASSUME NEW n \in Named(F)
       PROVE  \E o \in Objs(st) : /\ Path(st, o) = n /\ n # Main /\ IsBranch(st, o) /\ End(F[n]) = Top(st, o)
                                  /\ F[n] = File(st, o) /\ HeightOf[n] = st.chain[o].forkpoint
  <2>1. n \in Blocks /\ F[n] # None
    BY DEF Named
  <2>2. PICK o \in Objs(st) : Path(st, o) = n /\ n # Main /\ IsBranch(st, o)
    BY <1>7, <2>1
  <2>3. F[n] = File(st, o) /\ End(F[n]) = Top(st, o)
    BY <2>2 DEF File, Top, End
  <2>4. HeightOf[n] = st.chain[o].forkpoint
    BY <2>2, BranchPathIs
  <2> QED
    BY <2>2, <2>3, <2>4
<1>11. ASSUME NEW n \in Named(F) \cup {Main}
       PROVE  \E o \in Objs(st) : Path(st, o) = n /\ End(F[n]) = Top(st, o) /\ F[n] = File(st, o)
  BY <1>2, <1>3, <1>10
<1> HIDE DEF F
<1>12. \A n \in Named(F) : HeightOf[n] <= HeightOf[End(F[n])] /\ F[n] = Branch(HeightOf[n], End(F[n]))
  <2> SUFFICES ASSUME NEW n \in Named(F)
               PROVE  HeightOf[n] <= HeightOf[End(F[n])] /\ F[n] = Branch(HeightOf[n], End(F[n]))
    OBVIOUS
  <2>1. PICK o \in Objs(st) : /\ IsBranch(st, o) /\ End(F[n]) = Top(st, o)
                              /\ F[n] = File(st, o) /\ HeightOf[n] = st.chain[o].forkpoint
    BY <1>10
  <2>2. st.chain[o].forkpoint \in 1 .. HeightOf[Top(st, o)] /\ File(st, o) = Branch(st.chain[o].forkpoint, Top(st, o))
    BY <2>1 DEF IsBranch
  <2>3. HeightOf[n] <= HeightOf[Top(st, o)]
    BY <2>1, <2>2
  <2> QED
    BY <2>1, <2>2, <2>3
<1>13. \A m, n \in Named(F) \cup {Main} : m # n => Range(F[m]) \cap Range(F[n]) = {}
  <2> SUFFICES ASSUME NEW m \in Named(F) \cup {Main}, NEW n \in Named(F) \cup {Main}, m # n
               PROVE  Range(F[m]) \cap Range(F[n]) = {}
    OBVIOUS
  <2>1. PICK o \in Objs(st) : Path(st, o) = m /\ F[m] = File(st, o)
    BY <1>11
  <2>2. PICK c \in Objs(st) : Path(st, c) = n /\ F[n] = File(st, c)
    BY <1>11
  <2> QED
    BY <2>1, <2>2 DEF Sound, Apart
<1>14. \A m \in Named(F) \cup {Main} : \A n \in Named(F) : End(F[m]) # PrevBlock[n]
  <2> SUFFICES ASSUME NEW m \in Named(F) \cup {Main}, NEW n \in Named(F), End(F[m]) = PrevBlock[n]
               PROVE  FALSE
    OBVIOUS
  <2>1. PICK o \in Objs(st) : Path(st, o) = m /\ End(F[m]) = Top(st, o)
    BY <1>11
  <2>2. PICK c \in Objs(st) : Path(st, c) = n /\ n # Main /\ IsBranch(st, c)
    BY <1>10
  <2> DEFINE p == st.chain[c].parent
             k == st.chain[c].forkpoint
  <2>3. PrevBlock[n] = st.chain[c].prev /\ n \in Blocks \ {Genesis} /\ HeightOf[n] = k /\ File(st, c) # << >>
    BY <2>2, BranchPathIs
  <2>4. p \in Objs(st) /\ k <= HeightOf[Top(st, p)] /\ st.chain[c].prev = BlockAt[Top(st, p)][k - 1]
    BY <2>2 DEF IsBranch
  <2> HIDE DEF p, k
  <2>5. Top(st, o) = BlockAt[Top(st, p)][k - 1]
    BY <2>1, <2>3, <2>4
  <2>6. Top(st, p) \in Blocks /\ HeightOf[Top(st, p)] \in Nat /\ Top(st, o) \in Blocks
    BY <2>4, TopIs
  <2>7. k \in Nat /\ k >= 1
    <3>1. k = HeightOf[PrevBlock[n]] + 1 /\ HeightOf[PrevBlock[n]] \in Nat
      BY <2>3, Heights, BlocksLinked
    <3> QED
      BY <3>1
  <2>8. k - 1 \in 0 .. HeightOf[Top(st, p)]
    BY <2>4, <2>6, <2>7
  <2>9. Below(Top(st, o), Top(st, p)) /\ HeightOf[Top(st, o)] = k - 1
    BY <2>5, <2>6, <2>8, BelowAt
  <2>10. File(st, o) # << >>
    <3>1. File(st, o) = << >> => Len(st.chain) = 1
      BY ObjectIs
    <3>2. Len(st.chain) = 1 => o = c
      BY TwoObjects
    <3> QED
      BY <2>3, <3>1, <3>2
  <2>11. p = o
    BY <2>4, <2>9, <2>10, TopIsOwn
  <2> QED
    BY <2>4, <2>7, <2>9, <2>11
<1> QED
  BY <1>1, <1>5, <1>6, <1>8, <1>9, <1>12, <1>13, <1>14 DEF OnDisk, F

(* A file whose name is not that of its first header *)
LEMMA UnnamedOnDisk ==
    ASSUME NEW F, OnDisk(F), NEW b \in Blocks, F[b] # None, NEW f \in Seq(Blocks), f # << >>, f[1] # b,
           NEW G, G = [F EXCEPT ![b] = f]
    PROVE  OnDisk(G) /\ Named(G) = Named(F) \ {b}
<1>1. F \in [Blocks \cup {Main} -> Seq(Blocks) \cup {None}] /\ Main \notin Blocks /\ Main # b
  BY SpecialValues DEF OnDisk
<1>2. /\ G \in [Blocks \cup {Main} -> Seq(Blocks) \cup {None}] /\ G[b] = f
      /\ \A n \in Blocks \cup {Main} : n # b => G[n] = F[n]
  BY <1>1
<1>3. G[Main] = F[Main]
  BY <1>1, <1>2
<1>4. Named(G) = Named(F) \ {b} /\ \A n \in Named(G) : G[n] = F[n]
  <2>1. \A n \in Blocks : n # b => G[n] = F[n]
    BY <1>2
  <2>2. b \notin Named(G)
    BY <1>2 DEF Named
  <2> QED
    BY <2>1, <2>2 DEF Named
<1>5. \A n \in Named(G) \cup {Main} : n \in Named(F) \cup {Main} /\ G[n] = F[n]
  BY <1>3, <1>4
<1>6. \A m, n \in Named(G) \cup {Main} : m # n => Range(G[m]) \cap Range(G[n]) = {}
  <2>1. \A m, n \in Named(F) \cup {Main} : m # n => Range(F[m]) \cap Range(F[n]) = {}
    BY DEF OnDisk
  <2> QED
    BY <1>5, <2>1
<1>7. \A m \in Named(G) \cup {Main} : \A n \in Named(G) : End(G[m]) # PrevBlock[n]
  <2>1. \A m \in Named(F) \cup {Main} : \A n \in Named(F) : End(F[m]) # PrevBlock[n]
    BY DEF OnDisk
  <2>2. ASSUME NEW m \in Named(G) \cup {Main}, NEW n \in Named(G)
        PROVE  End(G[m]) # PrevBlock[n]
    <3>1. G[m] = F[m] /\ m \in Named(F) \cup {Main} /\ n \in Named(F)
      BY <1>4, <1>5
    <3> QED
      BY <2>1, <3>1
  <2> QED
    BY <2>2
<1>8. \A n \in Named(G) : HeightOf[n] <= HeightOf[End(G[n])] /\ G[n] = Branch(HeightOf[n], End(G[n]))
  BY <1>4 DEF OnDisk
<1>9. \A n \in Blocks : G[n] # None => n # Genesis /\ G[n] # << >>
  <2>1. \A n \in Blocks : F[n] # None => n # Genesis /\ F[n] # << >>
    BY DEF OnDisk
  <2> QED
    BY <1>2, <2>1
<1>10. G[Main] # << >>
  BY <1>3 DEF OnDisk
<1>11. G[Main] # None /\ (G[Main] # << >> => G[Main] = Branch(0, End(G[Main])))
  BY <1>3 DEF OnDisk
<1> QED
  BY <1>2, <1>4, <1>6, <1>7, <1>8, <1>9, <1>10, <1>11 DEF OnDisk

(* The files after the writes of a swap *)
LEMMA WritesAre ==
    ASSUME NEW st, Sound(st), NEW o \in Objs(st), CanSwap(st, o)
    PROVE  LET p == st.chain[o].parent IN
           /\ SwapFirstWrite(st, o).file = [st.file EXCEPT ![Path(st, o)] = ParentBranch(st, o)]
           /\ SwapSecondWrite(st, o).file = [SwapFirstWrite(st, o).file EXCEPT ![Path(st, p)] = ChildBranch(st, o)]
<1> DEFINE p == st.chain[o].parent
           branch == ParentBranch(st, o)
           whole == ChildBranch(st, o)
           A == Path(st, o)
           B == Path(st, p)
           wr == SwapSecondWrite(st, o)
<1>8. st \in States
  BY DEF Sound, Shape
<1> HIDE DEF branch, whole, A, B
<1>9. SwapFirstWrite(st, o).file = [st.file EXCEPT ![A] = branch]
  <2>1. SwapFirstWrite(st, o) = [st EXCEPT !.file = [@ EXCEPT ![A] = branch]]
    BY DEF SwapFirstWrite, A, branch
  <2> QED
    BY <1>8, <2>1 DEF States
<1>10. wr.file = [SwapFirstWrite(st, o).file EXCEPT ![B] = whole]
  <2>1. wr = [SwapFirstWrite(st, o) EXCEPT !.file[B] = whole]
    BY DEF SwapSecondWrite, ChildBranch, B, whole
  <2>2. SwapFirstWrite(st, o) = [st EXCEPT !.file = [@ EXCEPT ![A] = branch]]
    BY DEF SwapFirstWrite, A, branch
  <2>3. "file" \in DOMAIN SwapFirstWrite(st, o)
    BY <1>8, <2>2 DEF States
  <2> QED
    BY <2>1, <2>3
<1> QED
  BY <1>9, <1>10 DEF A, B, branch, whole

(* A crash between the writes of a swap *)
LEMMA CrashOnDisk ==
    ASSUME NEW st, Sound(st), Kept(st), NEW o \in Objs(st), CanSwap(st, o)
    PROVE  OnDisk(SwapFirstWrite(st, o).file) /\ OnDisk(SwapSecondWrite(st, o).file)
<1> DEFINE p == st.chain[o].parent
           k == st.chain[o].forkpoint
           low == st.chain[p].forkpoint
           t == Top(st, o)
           q == Top(st, p)
           branch == ParentBranch(st, o)
           whole == ChildBranch(st, o)
           A == Path(st, o)
           B == Path(st, p)
           F == SwapFirstWrite(st, o).file
           G == SwapSecondWrite(st, o).file
<1>0. branch = Branch(k, q) /\ whole = Branch(low, t)
  <2>1. branch = Branch(k, q)
    BY SwapMoves
  <2>2. whole = Branch(low, t)
    BY SwapMoves
  <2> QED
    BY <2>1, <2>2
<1>1. /\ p \in Objs(st) /\ p # o /\ k \in Nat /\ low \in Nat /\ low < k
      /\ k <= HeightOf[q] /\ HeightOf[q] < HeightOf[t]
  BY SwapMoves
<1>m. \A m \in 0 .. k - 1 : BlockAt[t][m] = BlockAt[q][m]
  BY SwapMoves
<1>2. t \in Blocks /\ q \in Blocks /\ HeightOf[t] \in Nat /\ HeightOf[q] \in Nat
  BY <1>1, TopIs
<1>p. p # 0
  BY <1>1 DEF Objs
<1>3. F = [st.file EXCEPT ![A] = branch] /\ G = [F EXCEPT ![B] = whole]
  BY WritesAre
<1>4. A # B /\ A \in Blocks \cup {Main} /\ B \in Blocks \cup {Main}
  BY <1>1, PathsDiffer, ObjectIs
<1>f. /\ File(st, o) # << >> /\ File(st, o) = st.file[A] /\ t = End(st.file[A])
      /\ File(st, p) = st.file[B]
  <2>1. Len(st.chain) # 1
    BY <1>1, TwoObjects
  <2>2. File(st, o) # << >>
    BY <2>1, ObjectIs
  <2> QED
    BY <2>2 DEF File, Top, End
<1>5. A # Main /\ A \in Blocks /\ A \in Named(st.file)
  <2>1. A = Main => o = p
    <3>1. PICK r \in Objs(st) : st.chain[r].parent = 0 /\ Path(st, r) = Main
      BY RootIs
    <3>2. A = Main => o = r
      BY <3>1, PathsDiffer
    <3> QED
      BY <1>p, <3>1, <3>2
  <2>2. A \in Named(st.file) \cup {Main}
    BY PathsAreNamed
  <2> QED
    BY <1>1, <1>4, <2>1, <2>2
<1>6. BlockAt[q][k] # A
  BY SwapWrites DEF SwapFiles
<1> HIDE DEF p, k, low, t, q, A, B, F, G, branch, whole
<1>7. k \in 0 .. HeightOf[q] /\ low \in 0 .. HeightOf[t] /\ low \in 0 .. HeightOf[q]
  BY <1>1, <1>2
<1>8. branch \in Seq(Blocks) /\ branch # << >> /\ branch[1] # A
  <2>1. Branch(k, q) \in Seq(Blocks) /\ Branch(k, q) # << >> /\ Branch(k, q)[1] = BlockAt[q][k]
    BY <1>2, <1>7, BranchIs
  <2> QED
    BY <1>0, <1>6, <2>1
<1>9. OnDisk(st.file) /\ st.file[A] # None
  BY <1>5, SoundOnDisk DEF Named
<1>10. OnDisk(F) /\ Named(F) = Named(st.file) \ {A}
  BY <1>3, <1>5, <1>8, <1>9, UnnamedOnDisk
<1>11. F \in [Blocks \cup {Main} -> Seq(Blocks) \cup {None}] /\ F[B] = st.file[B]
       /\ \A n \in Blocks \cup {Main} : n # A => F[n] = st.file[n]
  <2>1. st.file \in [Blocks \cup {Main} -> Seq(Blocks) \cup {None}]
    BY <1>9 DEF OnDisk
  <2> QED
    BY <1>3, <1>4, <1>8, <2>1
<1>12. whole \in Seq(Blocks) /\ whole # << >> /\ whole[1] = BlockAt[t][low] /\ whole # None /\ End(whole) = t
  <2>1. Branch(low, t) \in Seq(Blocks) /\ Branch(low, t) # << >> /\ Branch(low, t)[1] = BlockAt[t][low]
        /\ Branch(low, t)[Len(Branch(low, t))] = t
    BY <1>2, <1>7, BranchIs
  <2>2. Branch(low, t) # None
    BY <2>1, NoFileIsNone
  <2> QED
    BY <1>0, <2>1, <2>2 DEF End
<1>13. /\ G \in [Blocks \cup {Main} -> Seq(Blocks) \cup {None}] /\ G[B] = whole
       /\ \A n \in Blocks \cup {Main} : n # B => G[n] = F[n]
  BY <1>3, <1>4, <1>11, <1>12
<1>14. B = Main => low = 0
  <2>1. PICK r \in Objs(st) : st.chain[r].parent = 0 /\ Path(st, r) = Main
    BY RootIs
  <2>2. B = Main => p = r
    BY <1>1, <2>1, PathsDiffer DEF B
  <2>3. st.chain[p].parent = 0 => st.chain[p].forkpoint = 0
    BY <1>1, RootOrBranch DEF IsRoot
  <2> QED
    BY <2>1, <2>2, <2>3 DEF low, p
<1>15. B # Main => B \in Blocks /\ B # Genesis /\ whole[1] = B /\ HeightOf[B] = low /\ B \in Named(st.file)
  <2> SUFFICES ASSUME B # Main
               PROVE  B \in Blocks /\ B # Genesis /\ whole[1] = B /\ HeightOf[B] = low /\ B \in Named(st.file)
    OBVIOUS
  <2>1. /\ B \in Blocks \ {Genesis} /\ IsBranch(st, p) /\ HeightOf[B] = low /\ File(st, p)[1] = B
    BY <1>1, BranchPathIs DEF B, low
  <2>2. B \in Named(st.file)
    BY <1>1, PathsAreNamed DEF B
  <2>3. File(st, p) = Branch(low, q)
    BY <2>1 DEF IsBranch, low, q
  <2>4. Branch(low, q)[1] = BlockAt[q][low]
    BY <1>2, <1>7, BranchIs
  <2>5. BlockAt[t][low] = BlockAt[q][low]
    <3>1. low \in 0 .. k - 1
      BY <1>1
    <3> QED
      BY <1>m, <3>1
  <2> QED
    BY <1>12, <2>1, <2>2, <2>3, <2>4, <2>5
<1>16. \A n \in Blocks : F[n] # None => n # Genesis /\ F[n] # << >>
  BY <1>10 DEF OnDisk
<1>17. Named(G) = Named(F)
  <2>1. ASSUME NEW n \in Blocks
        PROVE  n \in Named(G) <=> n \in Named(F)
    <3>1. CASE n # B
      <4>1. G[n] = F[n]
        BY <1>13, <3>1
      <4> QED
        BY <4>1 DEF Named
    <3>2. CASE n = B
      <4>1. B # Main
        BY <3>2, SpecialValues
      <4>2. B \in Named(F)
        BY <1>4, <1>10, <1>15, <4>1
      <4>3. G[B] # None /\ G[B][1] = B
        BY <1>12, <1>13, <1>15, <4>1
      <4> QED
        BY <3>2, <4>2, <4>3 DEF Named
    <3> QED
      BY <3>1, <3>2
  <2>2. \A n : n \in Named(G) \/ n \in Named(F) => n \in Blocks
    BY DEF Named
  <2> QED
    BY <2>1, <2>2
<1>18. \A n \in Named(F) \cup {Main} : n \in Blocks \cup {Main} /\ n \in Named(st.file) \cup {Main} /\ n # A
  BY <1>5, <1>10 DEF Named
<1>19. \A n \in Named(F) \cup {Main} : n # B => G[n] = st.file[n]
  BY <1>11, <1>13, <1>18
<1>20. ASSUME NEW n \in Named(F) \cup {Main}, n # B
       PROVE  Range(G[n]) \cap Range(whole) = {}
  <2>1. n # Main => st.file[n] # None
    BY <1>18 DEF Named
  <2>2. PICK c \in Objs(st) : Path(st, c) = n
    BY <1>18, <2>1, NamedIsPath
  <2>3. c # o /\ c # p /\ G[n] = File(st, c)
    BY <1>18, <1>19, <1>20, <2>2 DEF A, B, File
  <2>4. Range(File(st, c)) \cap Range(File(st, o)) = {} /\ Range(File(st, c)) \cap Range(File(st, p)) = {}
    BY <1>1, <2>3 DEF Sound, Apart
  <2>5. ASSUME NEW x \in Range(whole)
        PROVE  x \in Range(File(st, o)) \cup Range(File(st, p))
    <3>1. x \in Blocks
      BY <1>12 DEF Range
    <3>2. HeightOf[x] \in low .. HeightOf[t] /\ BlockAt[t][HeightOf[x]] = x
      BY <1>0, <1>2, <1>7, <3>1, BranchIs
    <3>3. CASE HeightOf[x] >= k
      <4>1. Below(x, t) /\ k <= HeightOf[x]
        BY <1>1, <3>2, <3>3 DEF Below
      <4> QED
        BY <1>f, <3>1, <4>1, FileHas DEF t, k
    <3>4. CASE ~ (HeightOf[x] >= k)
      <4>1. HeightOf[x] \in 0 .. k - 1 /\ HeightOf[x] <= HeightOf[q] /\ low <= HeightOf[x]
        BY <1>1, <1>2, <3>2, <3>4
      <4>2. Below(x, q)
        BY <1>m, <3>2, <4>1 DEF Below
      <4>3. File(st, p) # << >>
        <5>1. Len(st.chain) # 1
          BY <1>1, TwoObjects
        <5> QED
          BY <1>1, <5>1, ObjectIs
      <4> QED
        BY <1>1, <3>1, <4>1, <4>2, <4>3, FileHas DEF q, low
    <3> QED
      BY <3>3, <3>4
  <2> QED
    BY <2>3, <2>4, <2>5
<1>21. \A m, n \in Named(G) \cup {Main} : m # n => Range(G[m]) \cap Range(G[n]) = {}
  <2> SUFFICES ASSUME NEW m \in Named(F) \cup {Main}, NEW n \in Named(F) \cup {Main}, m # n
               PROVE  Range(G[m]) \cap Range(G[n]) = {}
    BY <1>17
  <2>1. CASE m = B
    BY <1>13, <1>20, <2>1
  <2>2. CASE n = B
    BY <1>13, <1>20, <2>2
  <2>3. CASE m # B /\ n # B
    <3>1. G[m] = st.file[m] /\ G[n] = st.file[n]
      BY <1>19, <2>3
    <3> QED
      BY <1>9, <1>18, <3>1 DEF OnDisk
  <2> QED
    BY <2>1, <2>2, <2>3
<1>22. \A m \in Named(G) \cup {Main} : \A n \in Named(G) : End(G[m]) # PrevBlock[n]
  <2>1. \A m \in Named(st.file) \cup {Main} : \A n \in Named(st.file) : End(st.file[m]) # PrevBlock[n]
    BY <1>9 DEF OnDisk
  <2> SUFFICES ASSUME NEW m \in Named(F) \cup {Main}, NEW n \in Named(F)
               PROVE  End(G[m]) # PrevBlock[n]
    BY <1>17
  <2>2. n \in Named(st.file)
    BY <1>10
  <2>3. CASE m = B
    <3>1. End(G[m]) = End(st.file[A])
      BY <1>12, <1>13, <1>f, <2>3
    <3> QED
      BY <1>5, <2>1, <2>2, <3>1
  <2>4. CASE m # B
    <3>1. G[m] = st.file[m]
      BY <1>19, <2>4
    <3> QED
      BY <1>18, <2>1, <2>2, <3>1
  <2> QED
    BY <2>3, <2>4
<1>23. ASSUME NEW n \in Named(G)
       PROVE  HeightOf[n] <= HeightOf[End(G[n])] /\ G[n] = Branch(HeightOf[n], End(G[n]))
  <2>1. CASE n = B
    <3>1. B # Main
      BY <2>1, SpecialValues DEF Named
    <3>2. G[n] = Branch(HeightOf[n], End(G[n])) /\ End(G[n]) = t
      BY <1>0, <1>12, <1>13, <1>15, <2>1, <3>1
    <3>3. HeightOf[n] <= HeightOf[t]
      BY <1>7, <1>15, <2>1, <3>1
    <3> QED
      BY <3>2, <3>3
  <2>2. CASE n # B
    <3>1. n \in Named(F) /\ G[n] = st.file[n] /\ n \in Named(st.file)
      BY <1>10, <1>17, <1>19, <2>2
    <3> QED
      BY <1>9, <3>1 DEF OnDisk
  <2> QED
    BY <2>1, <2>2
<1>24. \A n \in Blocks : G[n] # None => n # Genesis /\ G[n] # << >>
  <2> SUFFICES ASSUME NEW n \in Blocks, G[n] # None PROVE n # Genesis /\ G[n] # << >>
    OBVIOUS
  <2>1. CASE n = B
    BY <1>12, <1>13, <1>15, <2>1, SpecialValues
  <2>2. CASE n # B
    <3>1. G[n] = F[n]
      BY <1>13, <2>2
    <3> QED
      BY <1>16, <3>1
  <2> QED
    BY <2>1, <2>2
<1>25. G[Main] # None /\ G[Main] # << >> /\ G[Main] = Branch(0, End(G[Main]))
  <2>1. CASE Main = B
    BY <1>0, <1>12, <1>13, <1>14, <2>1
  <2>2. CASE Main # B
    <3>1. G[Main] = st.file[Main]
      BY <1>19, <2>2
    <3>2. st.file[Main] # << >>
      BY <1>5, <1>9 DEF OnDisk
    <3> QED
      BY <1>9, <3>1, <3>2 DEF OnDisk
  <2> QED
    BY <2>1, <2>2
<1>26. OnDisk(G)
  BY <1>13, <1>21, <1>22, <1>23, <1>24, <1>25 DEF OnDisk
<1> QED
  BY <1>10, <1>26 DEF F, G

(* A start with files that the program has left *)
LEMMA RestartKeeps ==
    ASSUME Served, NEW F, OnDisk(F), RestartWith(F)
    PROVE  IInv'
<1>1. PICK q \in LoadOrders(F) : bc' = LoadedInOrder(F, q)
  BY DEF RestartWith
<1>2. Sound(bc') /\ Kept(bc')
  BY <1>1, LoadedSound
<1>3. iface' = [s \in Servers |-> Off] /\ lock' = None /\ tip' = tip
  BY DEF RestartWith
<1>4. iface' \in [Servers -> Interfaces] /\ tip' \in [Servers -> Blocks]
  BY <1>3, OffIs DEF Served
<1>5. bc'.chain \in Seq(Chains)
  BY <1>2 DEF Sound, Shape, States
<1>6. ASSUME NEW s \in Servers
      PROVE  ServerInv(s)' /\ Follows(s)'
  <2>1. iface'[s] = Off /\ tip'[s] = tip[s]
    BY <1>3
  <2> QED
    BY <1>5, <2>1, OffKeeps
<1>7. Served'
  BY <1>4, <1>6 DEF Served
<1>8. LockInv'
  BY <1>3 DEF LockInv
<1>9. Sound(bc)' /\ Kept(bc)'
  BY <1>2
<1> QED
  BY <1>7, <1>8, <1>9 DEF IInv

LEMMA CrashKeeps ==
    ASSUME ShortBranches, IInv, NEW s \in Servers, CrashInSwap(s)
    PROVE  IInv'
<1> DEFINE cache == Warmed(lock.cache, s, lock.height, Announced(s))
           b == cache[lock.height]
           o == WithTipBefore(bc, b)
           st == Written(bc, o, b)
<1>1. /\ lock # None /\ lock.srv = s
      /\ Sound(bc) /\ Kept(bc) /\ Served /\ LockInv /\ iface[s].waiting /\ SaidAll(s, lock.cache) /\ SyncInv(s)
  BY HolderOfLock DEF CrashInSwap
<1>2. Announced(s) \in Nat /\ lock.height \in 1 .. Announced(s)
  BY <1>1, AskedServer DEF SyncInv
<1>3. SaidAll(s, cache) /\ lock.height \in DOMAIN cache
  <2>1. lock.height \in Nat /\ Announced(s) \in 0 .. Announced(s)
    BY <1>2
  <2>2. SaidAll(s, cache) /\ lock.height .. Announced(s) \subseteq DOMAIN cache
    <3> HIDE DEF cache
    <3>1. cache = Warmed(lock.cache, s, lock.height, Announced(s))
      BY DEF cache
    <3> QED
      BY <1>1, <2>1, <3>1, WarmedIs
  <2> HIDE DEF cache
  <2>3. lock.height \in lock.height .. Announced(s)
    BY <1>2
  <2> QED
    BY <2>2, <2>3
<1>4. /\ o # 0 /\ CanSwap(st, o)
      /\ \/ RestartWith(st.file)
         \/ RestartWith(SwapFirstWrite(st, o).file)
         \/ RestartWith(SwapSecondWrite(st, o).file)
  BY DEF CrashInSwap
<1> HIDE DEF cache
<1>5. b \in Blocks
  BY <1>3 DEF SaidAll, Said
<1> HIDE DEF b
<1>6. o \in Objs(bc) /\ ConnectsToTip(bc, o, b)
  BY <1>1, <1>4, WithTipBeforeIs
<1> HIDE DEF o
<1>7. Below(Top(bc, o), b) /\ Grows(bc, st, o, b)
  BY <1>1, <1>5, <1>6, WrittenGrows
<1> HIDE DEF st
<1>8. Sound(st) /\ Kept(st)
  BY <1>1, <1>5, <1>6, <1>7, GrownSound, GrownKept
<1>9. o \in Objs(st)
  BY <1>6, <1>7 DEF Grows, Objs
<1>10. OnDisk(st.file)
  BY <1>8, SoundOnDisk
<1>11. OnDisk(SwapFirstWrite(st, o).file) /\ OnDisk(SwapSecondWrite(st, o).file)
  BY <1>4, <1>8, <1>9, CrashOnDisk
<1>12. CASE RestartWith(st.file)
  BY <1>1, <1>10, <1>12, RestartKeeps
<1>13. CASE RestartWith(SwapFirstWrite(st, o).file)
  BY <1>1, <1>11, <1>13, RestartKeeps
<1>14. CASE RestartWith(SwapSecondWrite(st, o).file)
  BY <1>1, <1>11, <1>14, RestartKeeps
<1> QED
  BY <1>4, <1>12, <1>13, <1>14

-----------------------------------------------------------------------------
(*                                The theorems                               *)

LEMMA InitSound == Init => IInv
<1> SUFFICES ASSUME Init PROVE IInv
  OBVIOUS
<1> DEFINE F == [n \in Blocks \cup {Main} |-> IF n = Main THEN << >> ELSE None]
<1>1. bc = Loaded(F) /\ tip \in [Servers -> {b \in Blocks : HeightOf[b] = 1}]
      /\ iface = [s \in Servers |-> Off] /\ lock = None
  BY DEF Init
<1>2. /\ F \in [Blocks \cup {Main} -> Seq(Blocks) \cup {None}] /\ F[Main] = << >>
      /\ \A n \in Blocks : F[n] = None
  <2>1. << >> \in Seq(Blocks)
    OBVIOUS
  <2> QED
    BY <2>1, SpecialValues
<1>3. << >> # None
  <2>1. << >> \in Seq(Blocks)
    OBVIOUS
  <2> QED
    BY <2>1, NoFileIsNone
<1> HIDE DEF F
<1>4. OnDisk(F)
  <2>1. Named(F) = {}
    BY <1>2 DEF Named
  <2> QED
    BY <1>2, <1>3, <2>1 DEF OnDisk
<1>5. Sound(bc) /\ InDict(bc) /\ bc.file = F
  BY <1>1, <1>4, LoadedIs
<1>6. Kept(bc)
  BY <1>2, <1>5 DEF Kept, InDict
<1>7. \A s \in Servers : iface[s] = Off /\ tip[s] \in Blocks /\ HeightOf[tip[s]] = 1
  BY <1>1
<1>8. tip \in [Servers -> Blocks] /\ iface \in [Servers -> Interfaces]
  BY <1>1, OffIs
<1>9. ASSUME NEW s \in Servers
      PROVE  ServerInv(s) /\ Follows(s)
  <2>1. Len(bc.chain) \in Nat
    BY <1>5 DEF Sound, Shape, States
  <2>2. ServerInv(s)
    BY <1>7, <2>1, OffIs DEF ServerInv
  <2>3. Follows(s)
    BY <1>7, OffIs DEF Follows
  <2> QED
    BY <2>2, <2>3
<1>10. Served
  BY <1>8, <1>9 DEF Served
<1>11. LockInv
  BY <1>1 DEF LockInv
<1> QED
  BY <1>5, <1>6, <1>10, <1>11 DEF IInv

Counted == faults \in [restarts : Nat, losses : Nat]

(* Every step keeps the invariant, and without a restart every object extends *)
(* what it was.                                                              *)
LEMMA NextKeeps ==
    ASSUME ShortBranches, IInv, Counted, Next
    PROVE  IInv' /\ Counted' /\ (faults'.restarts = faults.restarts => Extends(bc, bc'))
<1> DEFINE Good == IInv' /\ Extends(bc, bc')
<1>1. ASSUME NEW s \in Servers, NEW b \in Blocks, ServerMoves(s, b)
      PROVE  Good /\ faults' = faults
  BY <1>1, ServerMovesKeeps DEF ServerMoves
<1>2. ASSUME NEW s \in Servers, Connect(s) \/ TakeHeader(s) \/ StartSync(s)
      PROVE  Good /\ faults' = faults
  <2>1. CASE Connect(s)
    BY <2>1, ConnectKeeps DEF Connect
  <2>2. CASE TakeHeader(s)
    BY <2>2, TakeHeaderKeeps DEF TakeHeader
  <2>3. CASE StartSync(s)
    BY <2>3, StartSyncKeeps DEF StartSync
  <2> QED
    BY <1>2, <2>1, <2>2, <2>3
<1>3. ASSUME NEW s \in Servers, Step(s) \/ Backward(s) \/ Binary(s) \/ FastForward(s)
      PROVE  Good /\ faults' = faults
  <2>1. CASE Step(s)
    BY <2>1, StepKeeps DEF Step
  <2>2. CASE Backward(s)
    BY <2>2, BackwardKeeps DEF Backward
  <2>3. CASE Binary(s)
    BY <2>3, BinaryKeeps DEF Binary
  <2>4. CASE FastForward(s)
    BY <2>4, FastForwardKeeps DEF FastForward
  <2> QED
    BY <1>3, <2>1, <2>2, <2>3, <2>4
<1>4. ASSUME NEW s \in Servers, Disconnect(s)
      PROVE  Good /\ Counted'
  <2>1. Good
    BY <1>4, DisconnectKeeps
  <2>2. faults' = [faults EXCEPT !.losses = @ + 1]
    BY <1>4 DEF Disconnect
  <2> QED
    BY <2>1, <2>2 DEF Counted
<1>5. ASSUME NEW F, RestartWith(F)
      PROVE  Counted' /\ faults'.restarts # faults.restarts
  <2>1. faults' = [faults EXCEPT !.restarts = @ + 1]
    BY <1>5 DEF RestartWith
  <2> QED
    BY <2>1 DEF Counted
<1>6. ASSUME NEW s \in Servers, CrashInSwap(s)
      PROVE  IInv' /\ Counted' /\ faults'.restarts # faults.restarts
  <2>1. IInv'
    BY <1>6, CrashKeeps
  <2>2. \E F : RestartWith(F)
    BY <1>6 DEF CrashInSwap
  <2> QED
    BY <1>5, <2>1, <2>2
<1>7. ASSUME Restart
      PROVE  IInv' /\ Counted' /\ faults'.restarts # faults.restarts
  <2>1. RestartWith(bc.file)
    BY <1>7 DEF Restart
  <2>2. OnDisk(bc.file) /\ Served
    BY SoundOnDisk DEF IInv
  <2>3. IInv'
    BY <2>1, <2>2, RestartKeeps
  <2> QED
    BY <1>5, <2>1, <2>3
<1>8. faults' = faults => Counted'
  BY DEF Counted
<1> HIDE DEF Good
<1>9. Good => IInv' /\ Extends(bc, bc')
  BY DEF Good
<1> QED
  BY <1>1, <1>2, <1>3, <1>4, <1>6, <1>7, <1>8, <1>9 DEF Next

LEMMA StutterKeeps ==
    ASSUME IInv, Counted, UNCHANGED vars
    PROVE  IInv' /\ Counted' /\ Extends(bc, bc')
<1>1. bc' = bc /\ tip' = tip /\ iface' = iface /\ lock' = lock /\ faults' = faults
  BY DEF vars
<1>2. Sound(bc) /\ Kept(bc) /\ Served /\ LockInv
  BY DEF IInv
<1>3. Extends(bc, bc')
  BY <1>1, <1>2, ExtendsItself
<1>4. Served'
  <2>1. ASSUME NEW s \in Servers
        PROVE  ServerInv(s)' /\ Follows(s)'
    BY <1>1, <1>2, <1>3, OthersKeep
  <2> QED
    BY <1>1, <1>2, <2>1 DEF Served
<1>5. LockInv'
  BY <1>1, <1>2, LockWaits
<1>6. Sound(bc)' /\ Kept(bc)'
  BY <1>1, <1>2
<1> QED
  BY <1>1, <1>3, <1>4, <1>5, <1>6 DEF IInv, Counted

(* The invariant is inductive. *)
THEOREM HeadersInvariant ==
    ASSUME ShortBranches
    PROVE  Spec => [](IInv /\ Counted)
<1>1. Init => IInv /\ Counted
  BY InitSound DEF Init, Counted
<1>2. IInv /\ Counted /\ [Next]_vars => (IInv /\ Counted)'
  BY NextKeeps, StutterKeeps
<1> QED
  BY <1>1, <1>2, PTL DEF Spec

(* What the variables hold.  (The records of the objects, whose parents are    *)
(* among them, the files, and what the interfaces and the lock point at.)     *)
LEMMA SoundTypes == IInv /\ Counted => TypeOK
<1> SUFFICES ASSUME IInv, Counted PROVE TypeOK
  OBVIOUS
<1>1. Sound(bc) /\ Kept(bc) /\ Served /\ LockInv /\ bc \in States
  BY DEF IInv, Sound, Shape
<1>2. Objects = Objs(bc) /\ Len(bc.chain) \in Nat
  BY <1>1 DEF Objects, Objs, States
<1>3. ASSUME NEW o \in Objects
      PROVE  bc.chain[o] \in [parent : 0 .. Len(bc.chain), forkpoint : Nat, first : Blocks, prev : Blocks \cup {None}]
  <2>1. bc.chain[o] \in Chains
    BY <1>1, <1>2 DEF States, Objs
  <2>2. bc.chain[o].parent = 0 \/ bc.chain[o].parent \in Objs(bc)
    BY <1>1, <1>2, ObjectIs
  <2>3. bc.chain[o].parent \in 0 .. Len(bc.chain)
    BY <1>2, <2>2 DEF Objs
  <2> QED
    BY <2>1, <2>3 DEF Chains
<1>4. bc.order \in Seq(Objects)
  <2>1. bc.order \in Seq(Nat) /\ \A i \in 1 .. Len(bc.order) : bc.order[i] \in Objects
    BY <1>1, <1>2 DEF Kept, Range, States
  <2>2. PICK n \in Nat : n = Len(bc.order) /\ DOMAIN bc.order = 1 .. n
    BY <2>1
  <2>3. bc.order \in [1 .. n -> Objects]
    BY <2>1, <2>2
  <2> QED
    BY <2>2, <2>3
<1>5. \A n \in DOMAIN bc.file : bc.file[n] = None \/ bc.file[n] \in Seq(Blocks)
  BY <1>1 DEF States
<1>6. \A s \in Servers : iface[s].chain \in 0 .. Len(bc.chain)
  BY <1>1 DEF Served, ServerInv
<1> QED
  BY <1>1, <1>3, <1>4, <1>5, <1>6 DEF TypeOK, Served, LockInv, Counted

THEOREM HeaderTypes ==
    ASSUME ShortBranches
    PROVE  Spec => []TypeOK
BY HeadersInvariant, SoundTypes, PTL

(* HeadersConnect: whatever forks, is saved, swapped or loaded again, the      *)
(* headers that an object reads, in its file and those of its parents, name   *)
(* each other down to the genesis.                                            *)
THEOREM HeadersAlwaysConnect ==
    ASSUME ShortBranches
    PROVE  Spec => []HeadersConnect
<1>1. IInv => HeadersConnect
  BY SoundConnects DEF IInv
<1> QED
  BY <1>1, HeadersInvariant, PTL

(* HeldOnce: no header is in the files of two objects: the file of a fork has  *)
(* what its parent does not have, also after swaps and a crash between their  *)
(* writes.                                                                    *)
THEOREM HeadersHeldOnce ==
    ASSUME ShortBranches
    PROVE  Spec => []HeldOnce
<1>1. IInv => HeldOnce
  BY SoundHeldOnce DEF IInv
<1> QED
  BY <1>1, HeadersInvariant, PTL

(* LastCommonIsCommon: as long as forks are above what they fork from, two     *)
(* chains have the same headers up to the height that                         *)
(* get_height_of_last_common_block_with_chain returns.                        *)
THEOREM CommonIsShared ==
    ASSUME ShortBranches
    PROVE  Spec => []LastCommonIsCommon
<1>1. IInv => LastCommonIsCommon
  BY SoundLastCommon DEF IInv
<1> QED
  BY <1>1, HeadersInvariant, PTL

(* FollowsItsServer: an interface that waits for nothing follows an object     *)
(* that has its server's tip.                                                 *)
THEOREM InterfacesFollow ==
    ASSUME ShortBranches
    PROVE  Spec => []FollowsItsServer
<1>1. IInv => FollowsItsServer
  BY DEF IInv, Served, Follows, FollowsItsServer
<1> QED
  BY <1>1, HeadersInvariant, PTL

(* ObjectsKeepHeaders: until a restart an object keeps each of its headers,    *)
(* though it changes its parent, its forkpoint and its file.                  *)
THEOREM ObjectsKeep ==
    ASSUME ShortBranches
    PROVE  Spec => ObjectsKeepHeaders
<1>1. ASSUME IInv, Counted, [Next]_vars, faults'.restarts = faults.restarts,
             NEW o \in Objects, NEW h \in 0 .. Tall(bc, o)
      PROVE  HashAt(bc', o, h) = HashAt(bc, o, h)
  <2>1. Extends(bc, bc')
    BY <1>1, NextKeeps, StutterKeeps
  <2>2. Sound(bc) /\ o \in Objs(bc)
    BY <1>1 DEF IInv, Objects, Objs
  <2> QED
    BY <2>1, <2>2, ExtendsKeeps
<1>2. IInv /\ Counted /\ [Next]_vars =>
        [faults'.restarts = faults.restarts =>
            \A o \in Objects : \A h \in 0 .. Tall(bc, o) : HashAt(bc', o, h) = HashAt(bc, o, h)]_vars
  BY <1>1
<1> QED
  BY <1>2, HeadersInvariant, PTL DEF Spec, ObjectsKeepHeaders

(* BestStaysStrongest: until a restart no chain becomes stronger than the one  *)
(* it forks from, as long as each fork is above what it forks from: the loop  *)
(* of swap_with_parent ends only when no swap is left to make.                *)
THEOREM NoneBecomesStronger ==
    ASSUME ShortBranches
    PROVE  Spec => BestStaysStrongest
<1>1. ASSUME IInv, Counted, [Next]_vars, faults'.restarts = faults.restarts, ParentForksBelow, NoneIsStronger(bc)
      PROVE  NoneIsStronger(bc')
  <2>1. Extends(bc, bc')
    BY <1>1, NextKeeps, StutterKeeps
  <2>2. ForksBelow(bc)
    BY <1>1 DEF ParentForksBelow, ForksBelow, Objects, Objs
  <2> QED
    BY <1>1, <2>1, <2>2 DEF Extends
<1>2. IInv /\ Counted /\ [Next]_vars =>
        [faults'.restarts = faults.restarts /\ ParentForksBelow /\ NoneIsStronger(bc) => NoneIsStronger(bc')]_vars
  BY <1>1
<1> QED
  BY <1>2, HeadersInvariant, PTL DEF Spec, BestStaysStrongest
=============================================================================

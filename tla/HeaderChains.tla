---------------------------- MODULE HeaderChains ----------------------------
(***************************************************************************)
(* The header chains (blockchain.py) and the interfaces that extend them   *)
(* (interface.py, with the part of network.py that connects them).         *)
(*                                                                         *)
(* A Blockchain object holds the headers of a branch from its forkpoint    *)
(* on, in a file of its own, and reads those below it from its parent.     *)
(* The root is the best chain.  A branch that becomes stronger than its    *)
(* parent swaps places and files with it.  Every interface follows the     *)
(* chain of its server: it learns new tips, and under one lock that all    *)
(* share asks for the headers between, while servers may reorganise.       *)
(*                                                                         *)
(* All headers are valid and none is below a checkpoint; each has the same *)
(* work, as the targets that get_chainwork looks up are all the same.      *)
(***************************************************************************)
EXTENDS Integers, Sequences, FiniteSets, SequencesExt, TLC

CONSTANTS
    Blocks,         \* the headers that exist
    Genesis,        \* constants.net.GENESIS
    PrevBlock,      \* the block before, for each but the genesis
    Servers,
    ChunkSize,      \* CHUNK_SIZE: headers in a chunk
    FarFromTip,     \* the 144 blocks of sync_until
    None,           \* no block, no server, no file
    Main,           \* the file 'blockchain_headers'
    MaxQueued,      \* bound: tips that an interface has not looked at
    MaxFaults       \* bound: restarts and lost connections

ASSUME BlocksLinked ==                      \* every block is on a chain from the genesis
    /\ IsFiniteSet(Blocks)
    /\ Genesis \in Blocks /\ PrevBlock \in [Blocks \ {Genesis} -> Blocks]
    /\ \A B \in SUBSET (Blocks \ {Genesis}) : B # {} => \E b \in B : PrevBlock[b] \notin B
ASSUME ChunksHaveHeaders == ChunkSize \in Nat \ {0, 1} /\ FarFromTip \in Nat
ASSUME SpecialValues == None \notin Blocks \cup Servers /\ Main \notin Blocks \cup {None}
ASSUME NoFileIsNone == None \notin Seq(Blocks)
ASSUME BoundsAreNat == MaxQueued \in Nat /\ MaxFaults \in Nat

VARIABLES
    bc,         \* blockchain.py: [chain, order, file], see below
    tip,        \* the tip of each server's chain
    iface,      \* the interfaces: [up, chain, tip, queue, waiting]
    lock,       \* who holds network.bhi_lock, and how far it is; or None
    faults      \* how many [restarts, losses] of connections there were

vars == <<bc, tip, iface, lock, faults>>

(* bc.chain: the Blockchain objects, [parent, forkpoint, first, prev], where*)
(*     the parent is the index of an object, or 0                           *)
(* bc.order: the values of the dict blockchains, in its order               *)
(* bc.file:  the files, by name: their headers, or None                     *)

Largest(S) == CHOOSE x \in S : \A y \in S : y <= x

HeightOf == LET h[b \in Blocks] == IF b = Genesis THEN 0 ELSE h[PrevBlock[b]] + 1
            IN  [b \in Blocks |-> h[b]]

(* The chain that ends in a block: BlockAt[b][h] is its block at height h. *)
BlockAt ==
    LET at[b \in Blocks] ==
            [h \in 0 .. HeightOf[b] |-> IF h = HeightOf[b] THEN b ELSE at[PrevBlock[b]][h]]
    IN  [b \in Blocks |-> at[b]]

-----------------------------------------------------------------------------
(*                          Reading a Blockchain                           *)

Path(st, o) == IF st.chain[o].parent = 0 THEN Main ELSE st.chain[o].first
File(st, o) == st.file[Path(st, o)]
Tall(st, o) == st.chain[o].forkpoint + Len(File(st, o)) - 1             \* height()

(* The object from which read_header reads the header at a height. *)
Holder(st, o, h) ==
    LET up[n \in 0 .. Len(st.chain)] ==
            IF n = 0 THEN o
            ELSE LET c == up[n - 1]
                 IN  IF h < st.chain[c].forkpoint THEN st.chain[c].parent ELSE c
    IN  up[Len(st.chain)]

(* read_header *)
Header(st, o, h) ==
    LET c == Holder(st, o, h)
    IN  IF h < 0 \/ h > Tall(st, c) THEN None
        ELSE File(st, c)[h - st.chain[c].forkpoint + 1]

(* get_hash *)
HashAt(st, o, h) == IF h = 0 THEN Genesis ELSE Header(st, o, h)

HasHeader(st, o, b) == HashAt(st, o, HeightOf[b]) = b              \* check_header

ConnectsByHeight(st, o, b) ==           \* mutant: the hash is not looked at
    b = Genesis \/ HashAt(st, o, HeightOf[b] - 1) # None

(* can_connect *)
Connects(st, o, b) ==
    b = Genesis \/ HashAt(st, o, HeightOf[b] - 1) = PrevBlock[b]
ConnectsToTip(st, o, b) == Tall(st, o) = HeightOf[b] - 1 /\ Connects(st, o, b)

(* The first object of the dict that passes, or 0. *)
FirstThat(st, Test(_)) ==
    LET i == SelectInSeq(st.order, Test) IN IF i = 0 THEN 0 ELSE st.order[i]

WithHeader(st, b) == FirstThat(st, LAMBDA o : HasHeader(st, o, b))
WithTipBefore(st, b) == FirstThat(st, LAMBDA o : ConnectsToTip(st, o, b))

Work(st, o) == IF Tall(st, o) > 0 THEN Tall(st, o) ELSE 0       \* get_chainwork
BestChain(st) == CHOOSE o \in ToSet(st.order) : st.chain[o].first = Genesis

ParentHeightsOffByOne(st, o) ==         \* mutant: with the first header of the child
    [c \in {o, st.chain[o].parent} \ {0} |->
        IF c = o THEN Tall(st, o) ELSE st.chain[o].forkpoint]

(* The object, its parent, the parent of that, and so on; 0 after the root *)
Ancestor(st, o) ==
    LET up[n \in 0 .. Len(st.chain)] ==
            IF n = 0 THEN o
            ELSE IF up[n - 1] = 0 THEN 0 ELSE st.chain[up[n - 1]].parent
    IN  [n \in 0 .. Len(st.chain) |-> up[n]]

(* get_parent_heights, as a function on the objects up to the root *)
ParentHeights(st, o) ==
    LET up == Ancestor(st, o)
    IN  [c \in Range(up) \ {0} |->
            IF c = o THEN Tall(st, o)
            ELSE st.chain[CHOOSE b \in Range(up) \ {0} : st.chain[b].parent = c].forkpoint - 1]

(* get_height_of_last_common_block_with_chain *)
LastCommon(st, o, other) ==
    LET ours == ParentHeights(st, o)
        theirs == ParentHeights(st, other)
    IN  Largest({0} \cup {IF ours[c] <= theirs[c] THEN ours[c] ELSE theirs[c]
                            : c \in DOMAIN ours \cap DOMAIN theirs})

-----------------------------------------------------------------------------
(*                          Writing a Blockchain                           *)

Stronger(st, o) ==
    st.chain[o].parent # 0 /\ Work(st, st.chain[o].parent) < Work(st, o)

(* The assertion of _swap_with_parent on the forkpoints. *)
ForksAbove(st, o, p) == st.chain[o].forkpoint > st.chain[p].forkpoint

(* What the parent has from the forkpoint of the child on. *)
ParentBranch(st, o) ==
    LET p == st.chain[o].parent
    IN  SubSeq(File(st, p), st.chain[o].forkpoint - st.chain[p].forkpoint + 1,
               Len(File(st, p)))

(* The two writes of _swap_with_parent: the parent's branch to the file of  *)
(* the child ...                                                            *)
SwapFirstWrite(st, o) ==
    [st EXCEPT !.file[Path(st, o)] = ParentBranch(st, o)]

(* ... and the child's to that of the parent. *)
SwapSecondWrite(st, o) ==
    LET p == st.chain[o].parent
        below == st.chain[o].forkpoint - st.chain[p].forkpoint
    IN  [SwapFirstWrite(st, o) EXCEPT
            !.file[Path(st, p)] = SubSeq(File(st, p), 1, below) \o File(st, o)]

(* A value leaves the dict. *)
Popped(order, o) ==
    IF \E i \in DOMAIN order : order[i] = o
      THEN RemoveAt(order, CHOOSE i \in DOMAIN order : order[i] = o)
      ELSE order

(* _swap_with_parent: also the parameters, the file name and the dict *)
SwapKeepsSiblings(st, o) ==
    LET p == st.chain[o].parent
        branch == ParentBranch(st, o)
        first == Head(branch)
        wr == SwapSecondWrite(st, o)
        me == st.chain[o]
    IN  [chain |-> [st.chain EXCEPT
                        ![o] = st.chain[p],
                        ![p] = [me EXCEPT !.parent = o, !.first = first]],
         order |-> Popped(Popped(st.order, o), p) \o <<o, p>>,
         file  |-> [[wr.file EXCEPT ![Path(st, o)] = None]
                        EXCEPT ![first] = wr.file[Path(st, o)]]]

(* One round of swap_with_parent: the siblings that branch off below become *)
(* children of the object that has the common headers now.                  *)
SwapOnce(st, o) ==
    LET p == st.chain[o].parent
        sw == SwapKeepsSiblings(st, o)
        mine(s) == /\ s \in ToSet(sw.order)
                   /\ sw.chain[s].parent = p
                   /\ HashAt(sw, o, sw.chain[s].forkpoint - 1) = sw.chain[s].prev
    IN  [sw EXCEPT !.chain = [s \in DOMAIN @ |->
                                IF mine(s) THEN [@[s] EXCEPT !.parent = o] ELSE @[s]]]

CanSwap(st, o) == Stronger(st, o) /\ ForksAbove(st, o, st.chain[o].parent)

SwapOnlyOnce(st, o) ==                  \* mutant: the loop ends too early
    IF CanSwap(st, o) THEN SwapOnce(st, o) ELSE st

(* swap_with_parent; if the assertion fails, the object stays stronger *)
SwapWithParent(st, o) ==
    LET round[n \in 0 .. Len(st.chain)] ==
            IF n = 0 THEN st
            ELSE IF CanSwap(round[n - 1], o) THEN SwapOnce(round[n - 1], o)
            ELSE round[n - 1]
    IN  round[Len(st.chain)]

Raises(st, o) == Stronger(st, o)

Written(st, o, b) == [st EXCEPT !.file[Path(st, o)] = Append(@, b)]

(* save_header *)
SaveHeader(st, o, b) == SwapWithParent(Written(st, o, b), o)

(* fork *)
NewChain(st, p, b) ==
    LET new == [parent |-> p, forkpoint |-> HeightOf[b], first |-> b,
                prev |-> HashAt(st, p, HeightOf[b] - 1)]
    IN  [st EXCEPT !.chain = Append(@, new),
                   !.file[b] = <<b>>]

Fork(st, p, b) ==
    LET o == Len(st.chain) + 1
        sw == SwapWithParent(NewChain(st, p, b), o)
    IN  IF o \in ToSet(sw.order) THEN sw ELSE [sw EXCEPT !.order = Append(@, o)]

(* verify_chunk *)
ChunkIsRight(st, o, index, hs) ==
    LET start == index * ChunkSize
    IN  \A i \in 1 .. Len(hs) :
            /\ HashAt(st, o, start + i - 1) \in {None, hs[i]}
            /\ IF i = 1 THEN start = 0 \/ HashAt(st, o, start - 1) = PrevBlock[hs[1]]
                        ELSE hs[i - 1] = PrevBlock[hs[i]]

ChunkWrittenWhole(st, o, index, hs) ==  \* mutant: with what is below the forkpoint
    LET delta == index * ChunkSize - st.chain[o].forkpoint
        keep  == IF delta < 0 THEN 0 ELSE delta
    IN  [st EXCEPT !.file[Path(st, o)] = SubSeq(@, 1, keep) \o hs]

(* The writing of save_chunk, without what is below the forkpoint *)
ChunkWritten(st, o, index, hs) ==
    LET delta == index * ChunkSize - st.chain[o].forkpoint
        chunk == IF delta < 0 THEN SubSeq(hs, 1 - delta, Len(hs)) ELSE hs
        keep  == IF delta < 0 THEN 0 ELSE delta
    IN  [st EXCEPT !.file[Path(st, o)] = SubSeq(@, 1, keep) \o chunk]

SaveChunk(st, o, index, hs) == SwapWithParent(ChunkWritten(st, o, index, hs), o)

(* connect_chunk *)
ConnectsChunk(st, o, index, hs) ==
    /\ ChunkIsRight(st, o, index, hs)
    /\ ~ Raises(SaveChunk(st, o, index, hs), o)

-----------------------------------------------------------------------------
(*                        An interface that syncs                          *)

Off == [up |-> FALSE, chain |-> 0, tip |-> None, queue |-> << >>, waiting |-> FALSE]
Announced(s) == HeightOf[iface[s].tip]
ServerHas(s, h) == BlockAt[tip[s]][h]

(* _maybe_warm_headers_cache *)
Warmed(cache, s, from, to) ==
    IF from .. to \subseteq DOMAIN cache THEN cache
    ELSE [h \in (from .. to) \cup DOMAIN cache |->
            IF h \in from .. to THEN ServerHas(s, h) ELSE cache[h]]

(* get_block_header: what it asks for alone it does not remember *)
Asked(cache, s, h) == IF h \in DOMAIN cache THEN cache[h] ELSE ServerHas(s, h)

(* The interface is gone, with its lock; what it wrote stays. *)
Gone(s) ==
    /\ iface' = [iface EXCEPT ![s] = Off]
    /\ lock' = IF lock # None /\ lock.srv = s THEN None ELSE lock

(* sync_until goes on with the next height, or has done its work.  The      *)
(* assertion on a loop that makes no progress disconnects.                  *)
GoOn(s, last, height, chain, cache) ==
    IF last = lock.last /\ height = lock.height THEN Gone(s)
    ELSE /\ iface' = [iface EXCEPT ![s].chain = chain,
                                   ![s].waiting = height <= Announced(s)]
         /\ lock' = IF height > Announced(s) THEN None
                    ELSE [srv |-> s, at |-> "step", height |-> height, good |-> 0,
                          bad |-> None, delta |-> 2, last |-> last, cache |-> cache]

(* A header that extends a known chain is saved. *)
Save(s, o, b, cache) ==
    LET st == SaveHeader(bc, o, b)
    IN  /\ bc' = st
        /\ IF Raises(st, o) THEN Gone(s)
           ELSE GoOn(s, "catchup", HeightOf[b] + 1, o, cache)

Holds(s, at) == lock # None /\ lock.srv = s /\ lock.at = at
Far(s) == Announced(s) > lock.height + FarFromTip

(* step: the header is known, or extends a chain, or the search begins. *)
Step(s) ==
    /\ Holds(s, "single") \/ (Holds(s, "step") /\ ~ Far(s))
    /\ LET cache == Warmed(lock.cache, s, lock.height, Announced(s))
           b     == cache[lock.height]
           known == WithHeader(bc, b)
           under == WithTipBefore(bc, b)
           top   == Largest({0} \cup {Tall(bc, o) : o \in ToSet(bc.order)})
       IN  CASE known # 0 -> /\ GoOn(s, "catchup", lock.height + 1, known, cache)
                             /\ UNCHANGED bc
             [] known = 0 /\ under # 0 -> Save(s, under, b, cache)
             [] OTHER -> /\ lock' = [lock EXCEPT !.at = "backward", !.bad = b,
                                                 !.cache = cache, !.delta = 2,
                                                 !.height = IF top + 1 < @ THEN top + 1
                                                                           ELSE @ - 1]
                         /\ UNCHANGED <<bc, iface>>
    /\ UNCHANGED <<tip, faults>>

(* One iteration of _search_headers_backwards, and what step does after it. *)
Backward(s) ==
    /\ Holds(s, "backward")
    /\ LET h     == IF lock.height < 0 THEN 0 ELSE lock.height
           low   == IF h > 10 THEN h - 10 ELSE 0
           cache == IF lock.delta = 2 THEN Warmed(lock.cache, s, low, h) ELSE lock.cache
           b     == Asked(cache, s, h)
           known == WithHeader(bc, b)
           under == WithTipBefore(bc, b)
       IN  CASE known = 0 /\ under = 0 ->
                  /\ lock' = [lock EXCEPT !.bad = b, !.height = h - lock.delta,
                                          !.delta = 2 * @, !.cache = cache]
                  /\ UNCHANGED <<bc, iface>>
             [] under # 0 -> Save(s, under, b, cache)
             [] OTHER ->
                  /\ lock' = [lock EXCEPT !.at = "binary", !.good = h, !.cache = cache]
                  /\ iface' = [iface EXCEPT ![s].chain = known]
                  /\ UNCHANGED bc
    /\ UNCHANGED <<tip, faults>>

(* _resolve_potential_chain_fork_given_forkpoint, and the check before it *)
Resolve(s, good, bad, o, cache) ==
    IF ~ Connects(bc, o, bad) \/ WithHeader(bc, bad) # 0
      THEN Gone(s) /\ UNCHANGED bc
    ELSE IF Tall(bc, o) = good
      THEN GoOn(s, "noFork", good + 1, o, cache) /\ UNCHANGED bc
    ELSE LET st == Fork(bc, o, bad)
         IN  /\ bc' = st
             /\ GoOn(s, "fork", HeightOf[bad] + 1, Len(st.chain), cache)

(* One iteration of _search_headers_binary, and the assertion on good and   *)
(* bad of the next.                                                         *)
Binary(s) ==
    /\ Holds(s, "binary")
    /\ LET low   == lock.good
           high  == HeightOf[lock.bad]
           mid   == (low + high) \div 2
           cache == Warmed(lock.cache, s, low, high)
           b     == Asked(cache, s, mid)
           known == WithHeader(bc, b)
           good  == IF known # 0 THEN mid ELSE low
           bad   == IF known # 0 THEN lock.bad ELSE b
           o     == IF known # 0 THEN known ELSE iface[s].chain
       IN  IF good + 1 = HeightOf[bad]
             THEN Resolve(s, good, bad, o, cache)
           ELSE IF good >= HeightOf[bad]
             THEN Gone(s) /\ UNCHANGED bc
             ELSE /\ lock' = [lock EXCEPT !.good = good, !.bad = bad, !.cache = cache]
                  /\ iface' = [iface EXCEPT ![s].chain = o]
                  /\ UNCHANGED bc
    /\ UNCHANGED <<tip, faults>>

(* The headers that the server has of a chunk, up to the tip it announced. *)
ChunkOf(s, index) ==
    LET start == index * ChunkSize
        end   == IF start + ChunkSize - 1 < Announced(s) THEN start + ChunkSize - 1
                                                         ELSE Announced(s)
    IN  [i \in 1 .. end - start + 1 |-> ServerHas(s, start + i - 1)]

(* _fast_forward_chain, to its first chunk that does not connect *)
FastForward(s) ==
    /\ Holds(s, "step") /\ Far(s)
    /\ LET o      == iface[s].chain
           first  == lock.height \div ChunkSize
           last   == Announced(s) \div ChunkSize
           after[n \in 0 .. last - first + 1] ==
               IF n = 0 THEN [st |-> bc, on |-> TRUE, count |-> 0]
               ELSE LET a     == after[n - 1]
                        index == first + n - 1
                        hs    == ChunkOf(s, index)
                    IN  IF a.on /\ ConnectsChunk(a.st, o, index, hs)
                          THEN [st |-> SaveChunk(a.st, o, index, hs), on |-> TRUE,
                                count |-> a.count + Len(hs)]
                        ELSE IF a.on /\ ChunkIsRight(a.st, o, index, hs)
                          THEN [st |-> SaveChunk(a.st, o, index, hs), on |-> FALSE,
                                count |-> a.count]
                        ELSE [st |-> a.st, on |-> FALSE, count |-> a.count]
           done   == after[last - first + 1]
           number == done.count - (lock.height - first * ChunkSize)
       IN  IF number > 0
             THEN bc' = done.st /\ GoOn(s, "catchup", lock.height + number, o, lock.cache)
             ELSE /\ bc' = done.st
                  /\ lock' = [lock EXCEPT !.at = "single"]
                  /\ UNCHANGED iface
    /\ UNCHANGED <<tip, faults>>

-----------------------------------------------------------------------------
(*                   Servers, connections and restarts                     *)

(* A server's chain grows, or is replaced by a longer one; who is connected *)
(* hears of it.                                                             *)
ServerMoves(s, b) ==
    /\ HeightOf[b] > HeightOf[tip[s]]
    /\ Len(iface[s].queue) < MaxQueued
    /\ tip' = [tip EXCEPT ![s] = b]
    /\ iface' = [iface EXCEPT ![s].queue = IF iface[s].up THEN Append(@, b) ELSE @]
    /\ UNCHANGED <<bc, lock, faults>>

(* A new interface, up to the subscription of run_fetch_blocks. *)
Connect(s) ==
    /\ ~ iface[s].up
    /\ iface' = [iface EXCEPT ![s] = [up |-> TRUE, chain |-> 0, tip |-> None,
                                      queue |-> <<tip[s]>>, waiting |-> FALSE]]
    /\ UNCHANGED <<bc, tip, lock, faults>>

(* run_fetch_blocks takes the next tip, _mark_ready chooses a chain. *)
TakeHeader(s) ==
    /\ iface[s].queue # << >> /\ ~ iface[s].waiting
    /\ LET b == Head(iface[s].queue)
           chain == IF iface[s].chain # 0 THEN iface[s].chain
                    ELSE IF WithHeader(bc, b) # 0 THEN WithHeader(bc, b) ELSE BestChain(bc)
       IN  iface' = [iface EXCEPT ![s].tip = b, ![s].queue = Tail(@), ![s].chain = chain,
                                  ![s].waiting = TRUE]
    /\ UNCHANGED <<bc, tip, lock, faults>>

StartSyncByHeight(s) ==                 \* mutant: a chain as high will do
    /\ lock = None
    /\ iface[s].waiting
    /\ IF Tall(bc, iface[s].chain) >= Announced(s)
         THEN /\ iface' = [iface EXCEPT ![s].waiting = FALSE]
              /\ UNCHANGED lock
         ELSE /\ lock' = [srv |-> s, at |-> "step", height |-> Announced(s), good |-> 0,
                          bad |-> None, delta |-> 2, last |-> "none",
                          cache |-> [h \in {Announced(s)} |-> iface[s].tip]]
              /\ UNCHANGED iface
    /\ UNCHANGED <<bc, tip, faults>>

(* _process_header_at_tip, which has got the lock *)
StartSync(s) ==
    /\ lock = None
    /\ iface[s].waiting
    /\ IF Tall(bc, iface[s].chain) >= Announced(s) /\ HasHeader(bc, iface[s].chain, iface[s].tip)
         THEN /\ iface' = [iface EXCEPT ![s].waiting = FALSE]
              /\ UNCHANGED lock
         ELSE /\ lock' = [srv |-> s, at |-> "step", height |-> Announced(s), good |-> 0,
                          bad |-> None, delta |-> 2, last |-> "none",
                          cache |-> [h \in {Announced(s)} |-> iface[s].tip]]
              /\ UNCHANGED iface
    /\ UNCHANGED <<bc, tip, faults>>

MayFail == faults.restarts + faults.losses < MaxFaults

(* The connection is lost, or the network has closed it. *)
Disconnect(s) ==
    /\ MayFail
    /\ iface[s].up
    /\ Gone(s)
    /\ faults' = [faults EXCEPT !.losses = @ + 1]
    /\ UNCHANGED <<bc, tip>>

LoadChainByName(st, b) ==               \* mutant: the first header is not looked at
    LET prev == PrevBlock[b]
        parent == FirstThat(st, LAMBDA o : HashAt(st, o, HeightOf[b] - 1) = prev)
    IN  IF parent = 0 THEN [st EXCEPT !.file[b] = None]
        ELSE [st EXCEPT !.chain = Append(@, [parent |-> parent, first |-> b, prev |-> prev,
                                             forkpoint |-> HeightOf[b]]),
                        !.order = Append(@, Len(st.chain) + 1)]

(* read_blockchains: the forks in an order that their forkpoints allow.     *)
(* Those without a parent, and those whose name is not that of their first  *)
(* header, are deleted.                                                     *)
LoadChain(st, b) ==
    LET prev == PrevBlock[b]
        parent == FirstThat(st, LAMBDA o : HashAt(st, o, HeightOf[b] - 1) = prev)
    IN  IF parent = 0 \/ Head(st.file[b]) # b
          THEN [st EXCEPT !.file[b] = None]
          ELSE [st EXCEPT !.chain = Append(@, [parent |-> parent, first |-> b, prev |-> prev,
                                               forkpoint |-> HeightOf[b]]),
                          !.order = Append(@, Len(st.chain) + 1)]

Root == [parent |-> 0, forkpoint |-> 0, first |-> Genesis, prev |-> None]
Loaded(file) == [chain |-> <<Root>>, order |-> <<1>>, file |-> file]

LoadedInOrder(file, q) ==
    LET after[n \in 0 .. Len(q)] ==
            IF n = 0 THEN Loaded(file) ELSE LoadChain(after[n - 1], q[n])
    IN  after[Len(q)]

LoadOrders(file) ==
    {q \in SetToSeqs({b \in Blocks : file[b] # None}) :
        \A i, j \in 1 .. Len(q) : i < j => HeightOf[q[i]] <= HeightOf[q[j]]}

(* The program ends with these files, and is started again. *)
RestartWith(file) ==
    /\ MayFail
    /\ \E q \in LoadOrders(file) : bc' = LoadedInOrder(file, q)
    /\ iface' = [s \in Servers |-> Off]
    /\ lock' = None
    /\ faults' = [faults EXCEPT !.restarts = @ + 1]
    /\ UNCHANGED tip

Restart == RestartWith(bc.file)

(* A crash while step saves a header, between the writes of a swap. *)
CrashInSwap(s) ==
    /\ Holds(s, "step")
    /\ LET b == Warmed(lock.cache, s, lock.height, Announced(s))[lock.height]
           o == WithTipBefore(bc, b)
       IN  /\ WithHeader(bc, b) = 0 /\ o # 0
           /\ LET st == Written(bc, o, b)
              IN  /\ CanSwap(st, o)
                  /\ \/ RestartWith(st.file)
                     \/ RestartWith(SwapFirstWrite(st, o).file)
                     \/ RestartWith(SwapSecondWrite(st, o).file)

Init ==
    /\ bc = Loaded([n \in Blocks \cup {Main} |-> IF n = Main THEN << >> ELSE None])
    /\ tip \in [Servers -> {b \in Blocks : HeightOf[b] = 1}]
    /\ iface = [s \in Servers |-> Off]
    /\ lock = None
    /\ faults = [restarts |-> 0, losses |-> 0]

Next ==
    \/ \E s \in Servers, b \in Blocks : ServerMoves(s, b)
    \/ \E s \in Servers :
          \/ Connect(s) \/ TakeHeader(s) \/ StartSync(s)
          \/ Step(s) \/ Backward(s) \/ Binary(s) \/ FastForward(s)
          \/ Disconnect(s) \/ CrashInSwap(s)
    \/ Restart

Spec == Init /\ [][Next]_vars

-----------------------------------------------------------------------------
(*                               Properties                                *)

Objects == 1 .. Len(bc.chain)

TypeOK ==
    /\ \A o \in Objects : bc.chain[o] \in [parent : 0 .. Len(bc.chain), forkpoint : Nat,
                                           first : Blocks,
                                           prev : Blocks \cup {None}]
    /\ bc.order \in Seq(Objects)
    /\ \A n \in DOMAIN bc.file : bc.file[n] = None \/ bc.file[n] \in Seq(Blocks)
    /\ tip \in [Servers -> Blocks]
    /\ \A s \in Servers : iface[s].chain \in 0 .. Len(bc.chain)
    /\ lock = None \/ lock.srv \in Servers
    /\ faults \in [restarts : Nat, losses : Nat]

(* The headers of an object connect: each names the one below it, down to   *)
(* the genesis, whoever holds them.                                         *)
HeadersConnect ==
    \A o \in Objects : \A h \in 1 .. Tall(bc, o) :
        LET b == Header(bc, o, h)
        IN  b # None /\ HeightOf[b] = h /\ HashAt(bc, o, h - 1) = PrevBlock[b]

(* No header is held twice.  *)
HeldOnce ==
    \A o, c \in Objects : o # c => ToSet(File(bc, o)) \cap ToSet(File(bc, c)) = {}

(* The assertion of _swap_with_parent: the forkpoint of a chain is above    *)
(* that of its parent.                                                      *)
ParentForksBelow ==
    \A o \in Objects : bc.chain[o].parent # 0 => ForksAbove(bc, o, bc.chain[o].parent)

(* No chain becomes stronger than the one it branches off, so that the root *)
(* is and stays the best chain (the comment at `blockchains'): as long as    *)
(* the assertion of _swap_with_parent could not fail.                        *)
NoneIsStronger(st) == \A o \in 1 .. Len(st.chain) : ~ Stronger(st, o)
BestStaysStrongest ==
    [][faults'.restarts = faults.restarts /\ ParentForksBelow /\ NoneIsStronger(bc) =>
        NoneIsStronger(bc')]_vars

(* What two chains are said to have in common they have in common, so that  *)
(* the verifications above it are undone when a wallet changes its chain:   *)
(* as long as no chain has become the parent of one that forks off lower.   *)
LastCommonIsCommon ==
    ParentForksBelow =>
        \A o, c \in Objects : \A h \in 0 .. LastCommon(bc, o, c) :
            HashAt(bc, o, h) = HashAt(bc, c, h)

(* An interface that has looked at all that its server announced follows a  *)
(* chain with its server's tip.                                             *)
FollowsItsServer ==
    \A s \in Servers :
        iface[s].tip # None /\ ~ iface[s].waiting /\ iface[s].queue = << >> =>
            HasHeader(bc, iface[s].chain, iface[s].tip)

(* A Blockchain object keeps its headers, whatever is swapped: who holds on *)
(* to an object, as an interface or the verifier does, does not see another *)
(* chain in it.                                                             *)
ObjectsKeepHeaders ==
    [][faults'.restarts = faults.restarts =>
        \A o \in Objects : \A h \in 0 .. Tall(bc, o) : HashAt(bc', o, h) = HashAt(bc, o, h)]_vars
=============================================================================

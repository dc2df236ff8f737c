----------------------------- MODULE WalletSync -----------------------------
(***************************************************************************)
(* How a wallet learns its on-chain history from a server.  The            *)
(* Synchronizer (synchronizer.py) subscribes to the wallet's addresses,    *)
(* asks for the histories whose status has changed and for transactions    *)
(* that are missing.  The AddressSynchronizer (address_synchronizer.py)    *)
(* keeps what it is told, and at most one of several transactions that     *)
(* spend the same coin.  SPV (verifier.py) asks for proofs that the        *)
(* transactions are in the blocks of the header chain that the network     *)
(* follows, and undoes what it verified when that chain is replaced.       *)
(*                                                                         *)
(* The server is external: it has a chain, that grows or is replaced by a  *)
(* longer one, and a mempool, and answers requests in their order.         *)
(***************************************************************************)
EXTENDS Integers, Sequences, FiniteSets, SequencesExt, TLC

CONSTANTS
    Addrs,          \* the wallet's addresses
    Txs,            \* the transactions there may be
    Foreign,        \* outpoints of transactions that are not the wallet's
    Inputs,         \* what each transaction spends: foreign coins, or the output of another
    Pays,           \* the addresses that the output of each transaction pays
    Blocks, Genesis, PrevBlock,
    BlockTxs,       \* the transactions in each block
    ChainOf,        \* the Blockchain object that holds the header of a block
    None,
    Rare,           \* what a run lets happen, see below
    MaxMoves,       \* bound: what happens to the server's chain and mempool
    MaxFaults       \* bound: lost connections and restarts

(* "return":    an address gets a history back that it had before, while    *)
(*              what the client asked for it then has not come              *)
(* "contended": other interfaces hold the lock on the header chains, so that*)
(*              a proof is looked at before the headers that came before it *)
(* "synced":    the network's chain is another when the verifier is started *)
(*              than when it last looked: the new main server's chain was   *)
(*              followed before, by the interface that is connected to it   *)
(* "swung":     the network's chain is another again before the verifier,   *)
(*              that looks every 0.1 s, has seen that it was another        *)

ASSUME FinitelyMany == IsFiniteSet(Addrs) /\ IsFiniteSet(Txs) /\ IsFiniteSet(Blocks)
ASSUME BlocksLinked ==                      \* every block is on a chain from the genesis
    /\ Genesis \in Blocks /\ PrevBlock \in [Blocks \ {Genesis} -> Blocks]
    /\ \A S \in SUBSET (Blocks \ {Genesis}) : S # {} => \E b \in S : PrevBlock[b] \notin S
ASSUME TxsTyped ==
    /\ Inputs \in [Txs -> SUBSET (Foreign \cup Txs)]
    /\ Pays \in [Txs -> SUBSET Addrs] /\ BlockTxs \in [Blocks -> SUBSET Txs]
ASSUME NoneIsNothing == None \notin Txs \cup Blocks /\ Foreign \cap Txs = {}
ASSUME RareIsKnown == Rare \subseteq {"return", "contended", "synced", "swung"}
ASSUME BoundsAreNat == MaxMoves \in Nat /\ MaxFaults \in Nat

VARIABLES
    server,     \* [tip, pool, subs]; subs: the addresses that the client subscribed to
    wire,       \* [asked, inbox]: requests on their way, and what was sent to the client
    wallet,     \* the wallet file and the memory that goes with it, see Empty
    sync,       \* the Synchronizer, see Off
    spv,        \* the verifier: [chain, roots, requested, proofs]
    net,        \* the network: [local, headers], the tip followed and those announced
    used        \* [moves, faults]

vars == <<server, wire, wallet, sync, spv, net, used>>

Outpoints == Foreign \cup Txs               \* a transaction stands for its output
Local == -2                                 \* TX_HEIGHT_LOCAL
InMempool == 0                              \* TX_HEIGHT_UNCONFIRMED

HeightOf == LET h[b \in Blocks] == IF b = Genesis THEN 0 ELSE h[PrevBlock[b]] + 1
            IN  [b \in Blocks |-> h[b]]

(* The blocks of the chain that ends in a block. *)
ChainTo == LET c[b \in Blocks] ==
                   IF b = Genesis THEN {b} ELSE c[PrevBlock[b]] \cup {b}
           IN  [b \in Blocks |-> c[b]]

(* The headers of an object follow one another, or headers below its        *)
(* forkpoint: no two of its blocks are on different branches.               *)
ASSUME ObjectsAreBranches ==
    \A b, c \in Blocks : ChainOf[b] = ChainOf[c] => b \in ChainTo[c] \/ c \in ChainTo[b]

BlockWith(b, t) == {k \in ChainTo[b] : t \in BlockTxs[k]}
Mined(b) == UNION {BlockTxs[k] : k \in ChainTo[b]}
HeaderAt(b, h) == {k \in ChainTo[b] : HeightOf[k] = h}

(* read_header, and LastCommon as get_height_of_last_common_block_with_chain *)
LastCommon(b, c) ==
    CHOOSE h \in 0 .. HeightOf[b] :
        /\ HeaderAt(b, h) = HeaderAt(c, h)
        /\ \A k \in h + 1 .. HeightOf[b] : HeaderAt(b, k) # HeaderAt(c, k)

-----------------------------------------------------------------------------
(*                                The server                               *)

Touched(t, have) == Pays[t] \cup UNION {Pays[p] : p \in Inputs[t] \cap have}

(* A history: pairs of a transaction and the height that the server says. *)
HistoryAt(tip, pool, a) ==
    {<<t, InMempool>> : t \in {x \in pool : a \in Touched(x, Txs)}} \cup
    {<<at[1], HeightOf[at[2]]>> : at \in
        {m \in Txs \X ChainTo[tip] : m[1] \in BlockTxs[m[2]] /\ a \in Touched(m[1], Txs)}}

Conflict(t, u) == t # u /\ Inputs[t] \cap Inputs[u] # {}

Possible(tip, pool) ==
    /\ pool \cap Mined(tip) = {}
    /\ \A t \in pool : /\ Inputs[t] \cap Txs \subseteq pool \cup Mined(tip)
                       /\ \A u \in pool \cup Mined(tip) : ~ Conflict(t, u)

NewHistories(tip, pool) ==
    {a \in Addrs : HistoryAt(tip, pool, a) # HistoryAt(server.tip, server.pool, a)}

Status(a, h) == [kind |-> "status", addr |-> a, hist |-> h]
Header(b) == [kind |-> "header", block |-> b]

(* The status was announced, and not all that it caused is done. *)
BeingHandled(a, h) ==
    \/ Status(a, h) \in ToSet(wire.inbox)
    \/ \E k \in sync.tasks : k.addr = a /\ k.status = h

(* The chain or the mempool changes; the client hears of its addresses.     *)
ServerMoves(tip, pool) ==
    /\ used.moves < MaxMoves
    /\ tip # server.tip => HeightOf[tip] > HeightOf[server.tip]
    /\ <<tip, pool>> # <<server.tip, server.pool>> /\ Possible(tip, pool)
    /\ LET changed == NewHistories(tip, pool)
           new(a)  == HistoryAt(tip, pool, a)
       IN  /\ "return" \in Rare \/ \A a \in changed : ~ BeingHandled(a, new(a))
           /\ \E order \in SetToSeqs(changed \cap server.subs) :
                wire' = [wire EXCEPT !.inbox =
                    @ \o (IF sync.phase # "off" /\ tip # server.tip THEN <<Header(tip)>> ELSE << >>)
                      \o [i \in 1 .. Len(order) |-> Status(order[i], new(order[i]))]]
    /\ server' = [server EXCEPT !.tip = tip, !.pool = pool]
    /\ used' = [used EXCEPT !.moves = @ + 1]
    /\ UNCHANGED <<wallet, sync, spv, net>>

(* The server answers the first request. *)
ServerAnswers ==
    /\ wire.asked # << >>
    /\ LET q == Head(wire.asked)
           now(a) == HistoryAt(server.tip, server.pool, a)
           at == IF q.kind = "proof"
                   THEN BlockWith(server.tip, q.tx) \cap HeaderAt(server.tip, q.height) ELSE {}
           answer ==
               CASE q.kind = "subscribe" -> Status(q.addr, now(q.addr))
                 [] q.kind = "history" -> [kind |-> "history", addr |-> q.addr,
                                           status |-> q.status, hist |-> now(q.addr)]
                 [] q.kind = "tx" -> [kind |-> "tx", tx |-> q.tx, mayMiss |-> q.mayMiss,
                                      found |-> q.tx \in server.pool \cup Mined(server.tip)]
                 [] q.kind = "proof" -> [kind |-> "proof", tx |-> q.tx, height |-> q.height,
                                         block |-> IF at = {} THEN None
                                                   ELSE CHOOSE b \in at : TRUE]
       IN  /\ wire' = [asked |-> Tail(wire.asked), inbox |-> Append(wire.inbox, answer)]
           /\ server' = IF q.kind = "subscribe"
                          THEN [server EXCEPT !.subs = @ \cup {q.addr}] ELSE server
    /\ UNCHANGED <<wallet, sync, spv, net, used>>


-----------------------------------------------------------------------------
(*                         The AddressSynchronizer                         *)

(* hist, txs, spent and verified are kept in the file; unverified and       *)
(* unconfirmed are rebuilt from it.  A verified transaction has its block.  *)
Empty == [hist |-> [a \in Addrs |-> {}], txs |-> {}, spent |-> [o \in Outpoints |-> None],
          verified |-> [t \in Txs |-> None], unverified |-> [t \in Txs |-> None],
          unconfirmed |-> {}]

Without(f, S) == [x \in DOMAIN f |-> IF x \in S THEN None ELSE f[x]]

(* get_tx_height, of a transaction that may be missing *)
SaidHeight(w, t) ==
    CASE w.verified[t] # None   -> HeightOf[w.verified[t]]
      [] w.verified[t] = None /\ w.unverified[t] # None -> w.unverified[t]
      [] w.verified[t] = None /\ w.unverified[t] = None ->
            IF t \in w.unconfirmed THEN InMempool ELSE Local

TxHeight(w, t) == IF t \in w.txs THEN SaidHeight(w, t) ELSE Local

(* _history_local: what is known to spend from, or to pay to, an address *)
LocalHistory(w, a) == {t \in w.txs : a \in Touched(t, w.txs)}

(* Transactions and all that get_depending_transactions returns for them *)
WithDepending(w, S) ==
    LET more(T, n) == T \cup ({w.spent[u] : u \in T} \ {None})
    IN  FoldLeft(more, S, [n \in 1 .. Cardinality(Txs) |-> n])

(* remove_transaction, of each of several *)
RemoveTransactions(w, S) ==
    LET gone == WithDepending(w, S)
    IN  [w EXCEPT !.txs = @ \ gone, !.spent = Without(@, UNION {Inputs[u] : u \in gone}),
                  !.verified = Without(@, gone), !.unverified = Without(@, gone),
                  !.unconfirmed = @ \ gone]

(* get_conflicting_transactions *)
Conflicting(w, t) == {w.spent[o] : o \in Inputs[t]} \ {None, t}

(* What add_transaction drops for those it conflicts with *)
Refused(w, t) ==
    LET heights == {TxHeight(w, u) : u \in Conflicting(w, t)}
    IN  \/ SaidHeight(w, t) <= InMempool /\ \E h \in heights : h > 0
        \/ SaidHeight(w, t) = Local /\ InMempool \in heights

AddBeside(w, t) ==                      \* mutant: those it conflicts with stay
    IF Refused(w, t) THEN w
    ELSE [w EXCEPT !.txs = @ \cup {t},
                   !.spent = [o \in Outpoints |-> IF o \in Inputs[t] THEN t ELSE @[o]]]

(* add_transaction, with allow_unrelated *)
AddTransaction(w, t) ==
    IF Refused(w, t) THEN w
    ELSE [RemoveTransactions(w, Conflicting(w, t)) EXCEPT
            !.txs = @ \cup {t},
            !.spent = [o \in Outpoints |-> IF o \in Inputs[t] THEN t ELSE @[o]]]

(* add_unverified_or_unconfirmed_tx, for all of a history *)
AddUnverified(w, hist) ==
    LET pooled == {p[1] : p \in {p \in hist : p[2] <= 0}}
        mined  == {p \in hist : p[2] > 0 /\ w.verified[p[1]] = None}
        at(t)  == {p \in mined : p[1] = t}
    IN  [w EXCEPT !.verified = Without(@, pooled),
                  !.unconfirmed = @ \cup pooled,
                  !.unverified = [t \in Txs |-> IF at(t) = {} THEN @[t]
                                                ELSE (CHOOSE p \in at(t) : TRUE)[2]]]

(* What receive_history_callback makes local. *)
NowLocal(w, a, hist) == {t \in LocalHistory(w, a) : <<t, TxHeight(w, t)>> \notin hist}

MadeLocal(w, gone) ==
    [w EXCEPT !.verified = Without(@, gone), !.unverified = Without(@, gone),
              !.unconfirmed = @ \ gone]

(* receive_history_callback.  To add a stored transaction again changes      *)
(* nothing, unless there is a conflict.                                     *)
ReceiveHistory(w, a, hist) ==
    LET said == AddUnverified([MadeLocal(w, NowLocal(w, a, hist)) EXCEPT !.hist[a] = hist], hist)
        more(v, t) == IF t \in v.txs THEN AddTransaction(v, t) ELSE v
    IN  IF \A t \in w.txs : Conflicting(w, t) = {} THEN said
        ELSE FoldLeft(more, said, SetToSeq({p[1] : p \in hist}))

(* The transactions that it calls remove_spv_proof_for_tx for *)
ProofsDropped(w, a, hist) ==
    NowLocal(w, a, hist) \cup {t \in Txs : w.verified[t] # None /\ <<t, InMempool>> \in hist}

(* load_unverified_transactions *)
Loaded(w, order) ==
    LET load(v, a) == AddUnverified(v, w.hist[a])
    IN  FoldLeft(load, [w EXCEPT !.unverified = Empty.unverified, !.unconfirmed = {}], order)

UndoneAboveNext(w, b, above) ==         \* mutant: one block too few
    {t \in Txs : /\ w.verified[t] # None
                 /\ HeightOf[w.verified[t]] > above + 1
                 /\ w.verified[t] \notin ChainTo[b]}

(* undo_verifications *)
Undone(w, b, above) ==
    {t \in Txs : /\ w.verified[t] # None
                 /\ HeightOf[w.verified[t]] > above
                 /\ w.verified[t] \notin ChainTo[b]}

UndoneMadeLocal(w, b, above) ==         \* mutant: not put into unverified_tx
    [w EXCEPT !.verified = Without(@, Undone(w, b, above))]

UndoVerifications(w, b, above) ==
    LET redo == Undone(w, b, above)
    IN  [w EXCEPT !.verified = Without(@, redo),
                  !.unverified = [t \in Txs |-> IF t \in redo THEN HeightOf[w.verified[t]] ELSE @[t]]]

-----------------------------------------------------------------------------
(*                            The Synchronizer                             *)

(* phase: main has not begun, asks for transactions, or has its addresses;  *)
(* wait: the transactions it asked for; addrs: requested_addrs; tasks: the  *)
(* calls of _on_address_status that wait for a history, or transactions;    *)
(* stale: the addresses of _stale_histories                                 *)
Off == [phase |-> "off", wait |-> {}, addrs |-> {}, tasks |-> {}, stale |-> {}]
Idle(chain) == [chain |-> chain, roots |-> {}, requested |-> {}, proofs |-> {}]

RequestedTx(s) == s.wait \cup UNION {k.wait : k \in s.tasks}
RequestedHistories(s) == {<<k.addr, k.status>> : k \in s.tasks}
Missing(w, s, hist) == {p[1] : p \in hist} \ (w.txs \cup RequestedTx(s))

Asks(kind, S) ==
    LET ask(x) ==
          CASE kind = "subscribe" -> [kind |-> kind, addr |-> x]
              [] kind = "tx"        -> [kind |-> kind, tx |-> x, mayMiss |-> FALSE]
              [] kind = "txOrNot"   -> [kind |-> "tx", tx |-> x, mayMiss |-> TRUE]
              [] kind = "proof"     -> [kind |-> kind, tx |-> x, height |-> wallet'.unverified[x]]
    IN  SetToSeq({ask(x) : x \in S})

Took == [wire EXCEPT !.inbox = Tail(@)]
NextIs(kind) == wire.inbox # << >> /\ Head(wire.inbox).kind = kind

(* The interface, and the jobs on it, end; a new one starts them again. *)
Closed ==
    /\ "synced" \in Rare \/ spv.chain = ChainOf[net.local]
    /\ sync' = Off
    /\ spv' = Idle(spv.chain)
    /\ wire' = [asked |-> << >>, inbox |-> << >>]
    /\ server' = [server EXCEPT !.subs = {}]
    /\ net' = [net EXCEPT !.headers = << >>]

(* Synchronizer.main asks for missing transactions, and then subscribes. *)
Connect ==
    /\ sync.phase = "off"
    /\ LET wait == Missing(wallet, Off, UNION {wallet.hist[a] : a \in Addrs})
       IN  IF wait = {}
             THEN /\ sync' = [Off EXCEPT !.phase = "on", !.addrs = Addrs]
                  /\ wire' = [wire EXCEPT !.asked = Asks("subscribe", Addrs)]
             ELSE /\ sync' = [Off EXCEPT !.phase = "txs", !.wait = wait]
                  /\ wire' = [wire EXCEPT !.asked = Asks("txOrNot", wait)]
    /\ \/ net' = [net EXCEPT !.headers = IF server.tip = net.local THEN << >> ELSE <<server.tip>>]
       \/ "synced" \in Rare /\ net' = [local |-> server.tip, headers |-> << >>]
    /\ spv' = Idle(ChainOf[net'.local])
    /\ UNCHANGED <<server, wallet, used>>

(* The history of an address is known, for a status that was announced: it  *)
(* is stored, and the transactions that are missing are asked for.          *)
Store(s, k, hist, sent) ==
    /\ wallet' = ReceiveHistory(wallet, k.addr, hist)
    /\ LET rest == [s EXCEPT !.tasks = @ \ {k}, !.stale = @ \ {k.addr}]
           miss == Missing(wallet', rest, hist)
           drop == ProofsDropped(wallet, k.addr, hist)
       IN  /\ sync' = IF miss = {} THEN rest
                      ELSE [rest EXCEPT !.tasks = @ \cup {[k EXCEPT !.wait = miss]}]
           /\ wire' = [sent EXCEPT !.asked = @ \o Asks("tx", miss)]
           /\ spv' = [spv EXCEPT !.roots = @ \ drop, !.requested = @ \ drop]

TipAnnounced == IF net.headers = << >> THEN net.local ELSE Last(net.headers)

AskedForAddress(a, status) ==           \* mutant: whatever the status was
    wallet.hist[a] = status \/ \E k \in sync.tasks : k.addr = a

NothingToAsk(a, status) ==
    wallet.hist[a] = status \/ <<a, status>> \in RequestedHistories(sync)

(* handle_status and _on_address_status, up to the request.  A history is   *)
(* guessed if what was in the mempool may be in the block at the tip.       *)
TakeStatus ==
    /\ NextIs("status")
    /\ LET a == Head(wire.inbox).addr
           status == Head(wire.inbox).hist
           known == [sync EXCEPT !.addrs = @ \ {a}]
           asked == [known EXCEPT !.stale = @ \ {a}]
           guess == {<<p[1], IF p[2] = InMempool THEN HeightOf[TipAnnounced] ELSE p[2]>>
                        : p \in wallet.hist[a]}
           task  == [addr |-> a, status |-> status, wait |-> {}]
       IN  IF NothingToAsk(a, status)
             THEN sync' = known /\ wire' = Took /\ UNCHANGED <<wallet, spv>>
           ELSE IF guess = status
             THEN Store(asked, task, guess, Took)
           ELSE /\ sync' = [asked EXCEPT !.tasks = @ \cup {task}]
                /\ wire' = [Took EXCEPT !.asked =
                              Append(@, [kind |-> "history", addr |-> a, status |-> status])]
                /\ UNCHANGED <<wallet, spv>>
    /\ UNCHANGED <<server, net, used>>

(* The rest of _on_address_status *)
TakeHistory ==
    /\ NextIs("history")
    /\ LET m == Head(wire.inbox)
           k == CHOOSE k \in sync.tasks : k.addr = m.addr /\ k.status = m.status
       IN  IF m.hist = m.status
             THEN Store(sync, k, m.hist, Took)
             ELSE /\ sync' = [sync EXCEPT !.tasks = @ \ {k}, !.stale = @ \cup {k.addr}]
                  /\ wire' = Took
                  /\ UNCHANGED <<wallet, spv>>
    /\ UNCHANGED <<server, net, used>>

(* disconnect_if_still_stale *)
StaleTimeout ==
    /\ sync.stale # {}
    /\ Closed
    /\ UNCHANGED <<wallet, used>>

(* A transaction came, or can be missed: main, or the task, goes on. *)
Came(s, t) ==
    LET told == {[k EXCEPT !.wait = @ \ {t}] : k \in {k \in s.tasks : t \in k.wait}}
    IN  [s EXCEPT !.wait = @ \ {t},
                  !.tasks = {k \in @ : t \notin k.wait} \cup {k \in told : k.wait # {}},
                  !.phase = IF s.wait = {t} THEN "on" ELSE @,
                  !.addrs = IF s.wait = {t} THEN Addrs ELSE @]

(* _get_transaction, with receive_tx_callback *)
TakeTx ==
    /\ NextIs("tx")
    /\ LET m == Head(wire.inbox)
       IN  IF m.found \/ m.mayMiss
             THEN /\ sync' = Came(sync, m.tx)
                  /\ wallet' = IF m.found THEN AddTransaction(wallet, m.tx) ELSE wallet
                  /\ wire' = IF sync.wait = {m.tx}
                               THEN [Took EXCEPT !.asked = @ \o Asks("subscribe", Addrs)]
                               ELSE Took
                  /\ UNCHANGED <<server, spv, net>>
             ELSE Closed /\ UNCHANGED wallet
    /\ UNCHANGED used

-----------------------------------------------------------------------------
(*                     The header chain and the verifier                   *)

TakeHeader ==
    /\ NextIs("header")
    /\ net' = [net EXCEPT !.headers = Append(@, Head(wire.inbox).block)]
    /\ wire' = Took
    /\ UNCHANGED <<server, wallet, sync, spv, used>>

(* The interface has caught up with a header (see HeaderChains). *)
Follow ==
    /\ net.headers # << >>
    /\ \/ "swung" \in Rare \/ spv.chain = ChainOf[net.local]
       \/ ChainOf[Head(net.headers)] = ChainOf[net.local]
    /\ net' = [local |-> Head(net.headers), headers |-> Tail(net.headers)]
    /\ UNCHANGED <<server, wire, wallet, sync, spv, used>>

(* A block of an object that is above all forks from it. *)
TopOf(chain) ==
    CHOOSE b \in Blocks : ChainOf[b] = chain
                          /\ \A k \in Blocks : ChainOf[k] = chain => HeightOf[k] <= HeightOf[b]

(* A round of SPV.main: _maybe_undo_verifications and _request_proofs *)
Poll ==
    /\ sync.phase # "off"
    /\ LET above == LastCommon(net.local, TopOf(spv.chain))
           moved == ChainOf[net.local] # spv.chain
           redo  == IF moved THEN Undone(wallet, net.local, above) ELSE {}
           kept  == [spv EXCEPT !.chain = ChainOf[net.local], !.roots = @ \ redo,
                                !.requested = @ \ redo]
           free  == Txs \ (kept.requested \cup kept.roots)
       IN  /\ wallet' = IF moved THEN UndoVerifications(wallet, net.local, above) ELSE wallet
           /\ LET ask == {t \in free : wallet'.unverified[t] \in 1 .. HeightOf[net.local]}
              IN  /\ moved \/ ask # {}
                  /\ spv' = [kept EXCEPT !.requested = @ \cup ask]
                  /\ wire' = [wire EXCEPT !.asked = @ \o Asks("proof", ask)]
    /\ UNCHANGED <<server, sync, net, used>>

NotThereStaysAsked(m) == spv            \* mutant: the transaction is not asked for again
NotThere(m) == [spv EXCEPT !.requested = @ \ {m.tx}]

(* _request_and_verify_single_proof: the answer.  For an error,             *)
(* remove_unverified_tx; else the proof has to wait for the lock.           *)
TakeProof ==
    /\ NextIs("proof")
    /\ LET m == Head(wire.inbox)
       IN  IF m.block = None
             THEN /\ wallet' = IF wallet.unverified[m.tx] = m.height
                                 THEN [wallet EXCEPT !.unverified[m.tx] = None] ELSE wallet
                  /\ spv' = NotThere(m)
             ELSE /\ spv' = [spv EXCEPT !.proofs = @ \cup {m}]
                  /\ UNCHANGED wallet
    /\ wire' = Took
    /\ UNCHANGED <<server, sync, net, used>>

(* add_verified_tx *)
AddVerified(m) == [wallet EXCEPT !.verified[m.tx] = m.block, !.unverified[m.tx] = None]

(* It has the lock, and looks at the header that is there now. *)
Verify ==
    /\ "contended" \in Rare \/ net.headers = << >>
    /\ \E m \in spv.proofs :
          IF HeaderAt(net.local, m.height) = {m.block}
            THEN /\ spv' = [spv EXCEPT !.proofs = @ \ {m}, !.roots = @ \cup {m.tx},
                                       !.requested = @ \ {m.tx}]
                 /\ wallet' = AddVerified(m)
                 /\ UNCHANGED <<server, wire, sync, net>>
            ELSE Closed /\ UNCHANGED wallet
    /\ UNCHANGED used

-----------------------------------------------------------------------------

MayFail == used.faults < MaxFaults
Fault == used' = [used EXCEPT !.faults = @ + 1]

(* The connection is lost, or another server becomes the main one. *)
Disconnect ==
    /\ MayFail /\ Fault
    /\ sync.phase # "off"
    /\ Closed
    /\ UNCHANGED wallet

(* The program is stopped and started: load_and_cleanup *)
Restart ==
    /\ MayFail /\ Fault
    /\ \E order \in SetToSeqs(Addrs) : wallet' = Loaded(wallet, order)
    /\ Closed

Init ==
    /\ server = [tip |-> Genesis, pool |-> {}, subs |-> {}]
    /\ wire = [asked |-> << >>, inbox |-> << >>]
    /\ wallet = Empty
    /\ sync = Off
    /\ spv = Idle(ChainOf[Genesis])
    /\ net = [local |-> Genesis, headers |-> << >>]
    /\ used = [moves |-> 0, faults |-> 0]

Receive == TakeHeader \/ TakeStatus \/ TakeHistory \/ TakeTx \/ TakeProof

Next ==
    \/ \E tip \in Blocks, pool \in SUBSET Txs : ServerMoves(tip, pool)
    \/ ServerAnswers
    \/ Connect \/ Disconnect \/ Restart
    \/ TakeHeader \/ TakeStatus \/ TakeHistory \/ TakeTx \/ TakeProof
    \/ Follow \/ Poll \/ Verify \/ StaleTimeout

Spec == Init /\ [][Next]_vars

(* The server answers, messages arrive, and tasks run. *)
Work == ServerAnswers \/ Receive \/ Follow \/ Poll \/ Verify

FairSpec == Spec /\ WF_vars(Work) /\ WF_vars(Connect) /\ WF_vars(StaleTimeout)

-----------------------------------------------------------------------------
(*                               Properties                                *)

Histories == SUBSET (Txs \X Nat)

TypeOK ==
    /\ server.tip \in Blocks /\ server.pool \subseteq Txs /\ server.subs \subseteq Addrs
    /\ wallet.hist \in [Addrs -> Histories] /\ wallet.txs \subseteq Txs
    /\ wallet.spent \in [Outpoints -> Txs \cup {None}]
    /\ wallet.verified \in [Txs -> Blocks \cup {None}]
    /\ sync.phase \in {"off", "txs", "on"} /\ RequestedTx(sync) \subseteq Txs
    /\ spv.roots \subseteq Txs /\ spv.requested \subseteq Txs
    /\ net.local \in Blocks

SynchronizerUpToDate ==
    sync.phase = "on" /\ sync.addrs = {} /\ sync.tasks = {} /\ sync.stale = {}
VerifierUpToDate == spv.requested = {} /\ wallet.unverified = Empty.unverified
UpToDate == SynchronizerUpToDate /\ VerifierUpToDate                \* is_up_to_date

AllArrived == wire.asked = << >> /\ wire.inbox = << >>
Settled == /\ UpToDate /\ AllArrived /\ net.headers = << >>
           /\ spv.chain = ChainOf[net.local]

ServerSays(t) ==
    IF t \in server.pool THEN InMempool
    ELSE IF t \in Mined(server.tip)
      THEN HeightOf[CHOOSE b \in BlockWith(server.tip, t) : TRUE] ELSE Local

(* A wallet that says it is up to date, and to which nothing more is on its *)
(* way, has the histories that the server has.                              *)
UpToDateIsTrue ==
    SynchronizerUpToDate /\ AllArrived =>
        \A a \in Addrs : wallet.hist[a] = HistoryAt(server.tip, server.pool, a)

(* ... and the transactions in them *)
HasTransactions ==
    SynchronizerUpToDate /\ AllArrived => \A a \in Addrs : \A p \in wallet.hist[a] : p[1] \in wallet.txs

(* The heights shown for transactions are those that the server says. *)
ShowsTrueHeights == Settled => \A t \in wallet.txs : TxHeight(wallet, t) = ServerSays(t)

(* At most one of the transactions that spend a coin is in the wallet, and  *)
(* it is the one that the coin is marked with.                              *)
NoConflicts == \A t \in wallet.txs : \A o \in Inputs[t] : wallet.spent[o] = t

(* What is verified is in the chain that the verifier knows of. *)
VerifiedIsOnChain ==
    spv.chain = ChainOf[net.local] =>
        \A t \in Txs : wallet.verified[t] # None => wallet.verified[t] \in ChainTo[net.local]

(* ... and once all is settled no transaction is left that was verified on  *)
(* another chain: undo_verifications is "used by the verifier when a reorg  *)
(* has happened" (address_synchronizer.py), the same height or not.         *)
UndoneAfterReorg ==
    Settled => \A t \in Txs : wallet.verified[t] # None => wallet.verified[t] \in ChainTo[net.local]

(* A wallet that is connected is up to date in the end. *)
EventuallyUpToDate == <>[](UpToDate /\ AllArrived /\ net.local = server.tip)
=============================================================================

------------------------------ MODULE TxBatcher ------------------------------
(***************************************************************************)
(* TxBatch (txbatcher.py): payments and sweeps are put into one            *)
(* transaction, which is replaced (RBF) as long as it is not mined by one  *)
(* that does what was asked for meanwhile as well.  If an older version is *)
(* mined, what it leaves out is done by a child of it, so that the newer   *)
(* versions stay impossible: `It ensures that we do not send a payment     *)
(* twice.'                                                                 *)
(*                                                                         *)
(* With it the parts of the wallet that this relies on: the choice of      *)
(* inputs (wallet.py), and which transactions the wallet keeps             *)
(* (address_synchronizer.py).  The network is external.  A transaction has *)
(* one output that may be ours, its change; fees are left out, but that a  *)
(* fee is raised makes another transaction.                                *)
(***************************************************************************)
EXTENDS Integers, Sequences, FiniteSets, FiniteSetsExt, SequencesExt

CONSTANTS
    Coins,      \* mined outputs of ours
    Sweeps,     \* outputs that can be swept: of channels, of swaps
    Payments,   \* the outputs that are asked for
    Value,      \* of each coin and sweep
    Amount,     \* of each payment
    None,
    Cases,      \* what a run lets happen, see below
    MaxEvents   \* bound: fees raised, broadcasts and signatures refused,
                \*        restarts, evictions, reorganisations

(* "slow":   an iteration starts before the wallet has heard from the server  *)
(*           of what the one before has broadcast                             *)
(* "unsure": the broadcast of a replacement is reported to have failed though *)
(*           it has not                                                       *)

ASSUME ThingsDiffer == Coins \cap Sweeps = {} /\ None \notin Coins \cup Sweeps
ASSUME CoinsAreNoTxs == (Coins \cup Sweeps) \cap Nat = {}
ASSUME ValuesTyped == /\ Value \in [Coins \cup Sweeps -> Nat \ {0}]
                      /\ Amount \in [Payments -> Nat \ {0}]
ASSUME AmountsDiffer == \A p, q \in Payments : Amount[p] = Amount[q] => p = q
ASSUME CasesKnown == Cases \subseteq {"slow", "unsure"}
ASSUME BoundIsNat == MaxEvents \in Nat

VARIABLES
    txs,     \* the transactions that were made; a position is a txid
    batch,   \* the TxBatch
    job,     \* run_iteration, where it awaits: [at, base, tx]
    wallet,  \* the transactions of the wallet, each "local", "mempool" or "mined"
    net,     \* [sent, pool, mined, news]: what the network was ever given, what it
             \* has, and what it took from us without the wallet having heard of it
    events,  \* how much of the bound is used
    asked,   \* the payments and sweeps that were ever asked for
    happened \* history: what may lose payments, see Happens

vars == <<txs, batch, job, wallet, net, events, asked, happened>>

Txids == 1 .. Len(txs)
Fresh == [payments |-> {}, sweeps |-> {},   \* batch_payments, batch_inputs
          blocked |-> {},                   \* _unconfirmed_sweeps
          prevout |-> None,                 \* the first input of the current transaction
          txids |-> {}, parent |-> None]
NoJob == [at |-> "idle", base |-> None, tx |-> None]

Init ==
    /\ txs = << >>
    /\ batch = Fresh
    /\ job = NoJob
    /\ wallet = << >>
    /\ net = [sent |-> {}, pool |-> {}, mined |-> {}, news |-> {}]
    /\ events = 0
    /\ asked = {}
    /\ happened = {}

-----------------------------------------------------------------------------
(*                              Transactions                               *)

(* An outpoint is a coin, a sweep, or a txid, that stands for its change.   *)
ValueOf(o) == IF o \in Nat THEN txs[o].change ELSE Value[o]
Total(outpoints) == MapThenSumSet(ValueOf, outpoints)
ToPay(payments) == MapThenSumSet(LAMBDA p : Amount[p], payments)

(* A transaction and those it descends from; those that descend from it.    *)
Ancestry == LET a[t \in Txids] == {t} \cup UNION {a[p] : p \in txs[t].ins \cap Nat}
            IN  [t \in Txids |-> a[t]]
Descent(t) == {u \in Txids : t \in Ancestry[u]}

Conflict(t, u) == t # u /\ txs[t].ins \cap txs[u].ins # {}
Incompatible(t, u) == \E a \in Ancestry[t], b \in Ancestry[u] : Conflict(a, b)

Known(w) == DOMAIN w
SpentBy(w, o) == {t \in Known(w) : o \in txs[t].ins}

-----------------------------------------------------------------------------
(*                    The wallet (address_synchronizer)                    *)

RemoveTransaction(w, t) == [u \in Known(w) \ Descent(t) |-> w[u]]

(* add_transaction, of one with these inputs that the batch has made. *)
AddLocal(w, t, ins) ==
    LET against == {u \in Known(w) \ {t} : txs[u].ins \cap ins # {}}
        kept    == Known(w) \ UNION {Descent(u) : u \in against}
    IN  IF \E u \in against : w[u] # "local" THEN w
        ELSE [u \in kept \cup {t} |-> IF u \in Known(w) THEN w[u] ELSE "local"]

(* The histories of the wallet's addresses come from the server, and the    *)
(* transactions in them: others that conflict with them are removed.        *)
Synced(w) ==
    LET there == net.pool \cup net.mined
        gone(u) == \E t \in there : Incompatible(t, u)
    IN  [u \in there \cup {v \in Known(w) : ~ gone(v)} |->
            IF u \in net.mined THEN "mined" ELSE IF u \in net.pool THEN "mempool" ELSE "local"]

(* get_spendable_coins(nonlocal_only=True) *)
Spendable(w) ==
    {o \in Coins \cup {t \in Known(w) : w[t] # "local" /\ txs[t].change > 0} : SpentBy(w, o) = {}}

(* _create_inputs_from_tx_change: what is unspent at the parent's change    *)
(* address, be it of another transaction.                                   *)
ParentCoins(w, parent) ==
    IF parent = None THEN {}
    ELSE {t \in Known(w) : /\ txs[t].change > 0 /\ txs[t].addr = txs[parent].addr
                           /\ SpentBy(w, t) = {}}

(* The first change address that no transaction of the wallet uses.         *)
UnusedAddress(w) == LET taken == {txs[t].addr : t \in Known(w)}
                    IN  CHOOSE a \in 1 .. Len(txs) + 1 :
                            a \notin taken /\ \A b \in 1 .. a - 1 : b \in taken

-----------------------------------------------------------------------------
(*                                TxBatch                                  *)

PaysOf(t) == IF t = None THEN {} ELSE txs[t].pays
InsOf(t) == IF t = None THEN {} ELSE txs[t].ins

ToPayAfter(b, t) == b.payments \ PaysOf(t)

ToSweepAfter(b, w, t) ==
    {s \in b.sweeps \ InsOf(t) : \A u \in SpentBy(w, s) : w[u] = "local"}

StartNewBatchAnywhere(b, w, t) ==      \* mutant: not a child of the old base
    [Fresh EXCEPT !.payments = ToPayAfter(b, t), !.sweeps = ToSweepAfter(b, w, t),
                  !.blocked = b.blocked]

StartNewBatchEmpty(b, w, t) ==         \* mutant: what the old base leaves out is forgotten
    [Fresh EXCEPT !.sweeps = ToSweepAfter(b, w, t), !.blocked = b.blocked]

StartNewBatch(b, w, t) ==
    LET useChange == t # None /\ txs[t].change > 0 /\ PaysOf(t) \cap b.payments # {}
    IN  [Fresh EXCEPT !.payments = ToPayAfter(b, t), !.sweeps = ToSweepAfter(b, w, t),
                      !.blocked = b.blocked, !.parent = IF useChange THEN t ELSE None]

NewBaseTx(b, w, t) ==
    IF txs[t].change > 0
      THEN [b EXCEPT !.prevout = txs[t].first, !.txids = @ \cup {t}]
      ELSE StartNewBatch(b, w, t)

(* The end of an iteration: when all is done the TxBatch is deleted.        *)
IsDone(b) == b.payments = {} /\ b.sweeps = {} /\ b.txids = {}
EndIteration(b) == batch' = IF IsDone(b) THEN Fresh ELSE b

(* find_base_tx, as far as it is known what it will return: the batch and   *)
(* the base.                                                                *)
FindBase ==
    LET spender == IF batch.prevout = None THEN {} ELSE SpentBy(wallet, batch.prevout)
    IN  IF spender = {} THEN [batch |-> batch, base |-> None]
        ELSE LET t == CHOOSE u \in spender : TRUE
                 b == IF t \in batch.txids THEN batch ELSE NewBaseTx(batch, wallet, t)
             IN  IF wallet[t] = "mined"
                   THEN [batch |-> StartNewBatch([b EXCEPT !.blocked = @ \ txs[t].ins], wallet, t),
                         base |-> None]
                   ELSE [batch |-> b, base |-> IF t \in b.txids THEN t ELSE None]

(* make_unsigned_transaction: the inputs of the base and those that are     *)
(* asked for, and as many coins as it takes.                                *)
Fixed(b, base, sweeps) == InsOf(base) \cup sweeps \cup ParentCoins(wallet, b.parent)
Others(fixed, base) == Spendable(wallet) \ (fixed \cup {base})

Suffice(ins, pays) == ins # {} /\ Total(ins) >= ToPay(pays)

(* Coins that are mined, if they are enough; then no more than it takes for *)
(* the outputs of the base and the new ones.                                *)
Candidates(fixed, base, pays) ==
    LET confirmed == {o \in Others(fixed, base) : o \in Coins \/ wallet[o] = "mined"}
    IN  IF Suffice(fixed \cup confirmed, pays) THEN confirmed ELSE Others(fixed, base)

Selections(fixed, base, pays) ==
    {c \in SUBSET Candidates(fixed, base, pays) :
        Suffice(fixed \cup c, pays) /\ \A o \in c : ~ Suffice(fixed \cup (c \ {o}), pays)}

(* create_next_transaction leaves the largest payments out until the funds  *)
(* are enough.                                                              *)
Affordable(b, base, fixed) ==
    {p \in ToPayAfter(b, base) :
        Suffice(fixed \cup Others(fixed, base),
                PaysOf(base) \cup {q \in ToPayAfter(b, base) : Amount[q] <= Amount[p]})}

Put(tx) == IF tx \in ToSet(txs) THEN txs ELSE Append(txs, tx)
IdOf(tx, list) == CHOOSE i \in DOMAIN list : list[i] = tx

(* inputs()[0]: the sweeps come first, then the parent's change. *)
Firsts(base, sweeps, fixed, c) ==
    IF base # None THEN {txs[base].first}
    ELSE IF sweeps # {} THEN sweeps
    ELSE IF fixed # {} THEN fixed
    ELSE c

Event == /\ events < MaxEvents
         /\ events' = events + 1
Happens(what) == happened' = happened \cup what
Forgets(known) == IF known THEN {} ELSE {"forgotten"}

(* The transaction is put into the wallet, and its signature waited for.    *)
Make(base, tx) ==
    /\ txs' = Put(tx)
    /\ \E t \in {IdOf(tx, txs')} :
          /\ wallet' = AddLocal(wallet, t, tx.ins)
          /\ job' = [at |-> "sign", base |-> base, tx |-> t]

Batched(base, pays, ins, first) ==
    LET paid == PaysOf(base) \cup pays
    IN  [ins |-> ins, first |-> first, pays |-> paid, change |-> Total(ins) - ToPay(paid),
         addr |-> IF base = None THEN UnusedAddress(wallet) ELSE txs[base].addr,
         version |-> IF base = None THEN 0 ELSE txs[base].version]

(* The rest of run_iteration up to the next await, for a batch and a base.  *)
(* Without a base, what is left out is not in batch_payments any more.      *)
CreateNextTransaction(b, base) ==
    \E sweeps \in {ToSweepAfter(b, wallet, base)} :
    \E fixed \in {Fixed(b, base, sweeps)} :
    \E pays \in {Affordable(b, base, fixed)} :
    \E kept \in {IF base = None THEN [b EXCEPT !.payments = pays] ELSE b} :
        /\ \/ /\ pays \cup sweeps = {}
              /\ EndIteration(kept)
              /\ job' = NoJob
              /\ UNCHANGED <<txs, wallet, events>>
           \/ /\ pays \cup sweeps = {} /\ base # None   \* _should_bump_fee
              /\ Event
              /\ Make(base, [txs[base] EXCEPT !.version = @ + 1])
              /\ batch' = kept
           \/ /\ pays \cup sweeps # {}
              /\ \E c \in Selections(fixed, base, PaysOf(base) \cup pays) :
                   \E first \in Firsts(base, sweeps, fixed, c) :
                     Make(base, Batched(base, pays, fixed \cup c, first))
              /\ batch' = kept
              /\ UNCHANGED events
        /\ Happens((IF kept # b THEN {"dropped"} ELSE {}) \cup
                   Forgets(/\ batch.prevout = None \/ SpentBy(wallet, batch.prevout) # {}
                           /\ batch.parent \in Known(wallet) \cup {None}))
        /\ UNCHANGED <<net, asked>>

-----------------------------------------------------------------------------
(*                                 Actions                                 *)

AddPayment(p) ==
    /\ p \notin asked
    /\ batch' = [batch EXCEPT !.payments = @ \cup {p}]
    /\ asked' = asked \cup {p}
    /\ UNCHANGED <<txs, job, wallet, net, events, happened>>

(* Sweeps are asked for again and again (lnwatcher, swaps). *)
AddSweep(s) ==
    /\ s \notin batch.blocked
    /\ \A t \in SpentBy(wallet, s) : wallet[t] # "mined"
    /\ batch' = [batch EXCEPT !.blocked = @ \cup {s}, !.sweeps = @ \cup {s}]
    /\ asked' = asked \cup {s}
    /\ UNCHANGED <<txs, job, wallet, net, events, happened>>

StartIteration ==
    /\ job = NoJob /\ ~ IsDone(batch)
    /\ net.news = {} \/ "slow" \in Cases
    /\ \E f \in {FindBase} :
          IF f.base # None /\ wallet[f.base] = "local"
             THEN /\ job' = [at |-> "rebroadcast", base |-> f.base, tx |-> None]
                  /\ batch' = f.batch
                  /\ UNCHANGED <<txs, wallet, net, events, asked, happened>>
             ELSE CreateNextTransaction(f.batch, f.base)

(* What is broadcast again has been stripped of its signatures (from_tx),   *)
(* and serialises to what a server does not take: the network never gets it.*)
Rebroadcasted ==
    /\ job.at = "rebroadcast"
    /\ CreateNextTransaction(batch, job.base)

Signed ==
    /\ job.at = "sign"
    /\ batch' = NewBaseTx(batch, wallet, job.tx)
    /\ job' = [job EXCEPT !.at = "broadcast"]
    /\ Happens(IF txs[job.tx].change = 0 THEN {"noChange"} ELSE {})
    /\ UNCHANGED <<txs, wallet, net, events, asked>>

(* The password is not given. *)
NotSigned ==
    /\ job.at = "sign"
    /\ Event
    /\ wallet' = RemoveTransaction(wallet, job.tx)
    /\ EndIteration(batch)
    /\ job' = NoJob
    /\ UNCHANGED <<txs, net, asked, happened>>

(* The network takes a transaction, and drops those it replaces.            *)
Available(t) == txs[t].ins \cap Nat \subseteq net.pool \cup net.mined
Replaced(t) == UNION {Descent(u) : u \in {v \in net.pool : Conflict(t, v)}}
Acceptable(t) ==
    /\ Available(t)
    /\ \A u \in net.mined : ~ Conflict(t, u)
    /\ Ancestry[t] \cap Replaced(t) = {}
Taken(t) == [net EXCEPT !.sent = @ \cup {t}, !.news = @ \cup {t},
                        !.pool = (@ \ Replaced(t)) \cup ({t} \ net.mined)]

Accepted ==
    /\ job.at = "broadcast" /\ Acceptable(job.tx)
    /\ net' = Taken(job.tx)
    /\ EndIteration(batch)
    /\ job' = NoJob
    /\ UNCHANGED <<txs, wallet, events, asked, happened>>

(* try_broadcasting returns False. *)
Refused ==
    /\ job.at = "broadcast"
    /\ IF Acceptable(job.tx) THEN Event ELSE UNCHANGED events
    /\ \/ UNCHANGED net
       \/ /\ Acceptable(job.tx)
          /\ job.base = None \/ "unsure" \in Cases
          /\ net' = Taken(job.tx)
    /\ IF job.base = None THEN UNCHANGED wallet /\ EndIteration(batch)
       ELSE LET w == RemoveTransaction(wallet, job.tx)
            IN  wallet' = w /\ EndIteration(StartNewBatch(batch, w, job.base))
    /\ job' = NoJob
    /\ Happens({"refused"} \cup Forgets(job.base \in Known(wallet) \cup {None}))
    /\ UNCHANGED <<txs, asked>>

(* The wallet hears from the server. *)
Sync ==
    /\ wallet' = Synced(wallet)
    /\ net' = [net EXCEPT !.news = {}]
    /\ <<wallet', net'>> # <<wallet, net>>
    /\ UNCHANGED <<txs, batch, job, events, asked, happened>>

(* Batches are deleted at the start if no transaction of theirs is known.   *)
Restart ==
    /\ Event
    /\ batch' = IF batch.txids = {} THEN Fresh
                ELSE [Fresh EXCEPT !.txids = batch.txids, !.prevout = batch.prevout]
    /\ job' = NoJob
    /\ Happens({"restart"})
    /\ UNCHANGED <<txs, wallet, net, asked>>

(* The user raises the fee of a transaction. *)
UserBumps(t) ==
    /\ t \in net.pool /\ t \in Known(wallet) /\ wallet[t] = "mempool"
    /\ Event
    /\ LET new == [txs[t] EXCEPT !.version = @ + 1]
       IN  /\ new \notin ToSet(txs)
           /\ txs' = Append(txs, new)
           /\ net' = [net EXCEPT !.sent = @ \cup {Len(txs')},
                                 !.pool = (@ \ Descent(t)) \cup {Len(txs')}]
    /\ UNCHANGED <<batch, job, wallet, asked, happened>>

(* Any version that was ever sent may be mined. *)
Mine(t) ==
    /\ txs[t].ins \cap Nat \subseteq net.mined
    /\ \A u \in net.mined : ~ Conflict(t, u)
    /\ net' = [net EXCEPT !.mined = @ \cup {t},
                          !.pool = @ \ ({t} \cup Replaced(t))]
    /\ UNCHANGED <<txs, batch, job, wallet, events, asked, happened>>

Evict(t) ==
    /\ Event
    /\ net' = [net EXCEPT !.pool = @ \ Descent(t)]
    /\ Happens({"evicted"})
    /\ UNCHANGED <<txs, batch, job, wallet, asked>>

(* Another chain becomes the best: other transactions are mined. *)
Reorg(new) ==
    /\ Event
    /\ ~ net.mined \subseteq new
    /\ \A t \in new : txs[t].ins \cap Nat \subseteq new /\ \A u \in new : ~ Conflict(t, u)
    /\ net' = [net EXCEPT
                 !.mined = new,
                 !.pool = {t \in (net.pool \cup net.mined) \ new :
                             \A u \in new : ~ Incompatible(t, u)}]
    /\ Happens({"reorg"})
    /\ UNCHANGED <<txs, batch, job, wallet, asked>>

Iterate == StartIteration \/ Rebroadcasted \/ Signed \/ Accepted \/ Refused
MineSome == \E t \in net.pool : Mine(t)
SweepAgain == \E s \in asked \cap Sweeps : AddSweep(s)

Next ==
    \/ \E p \in Payments : AddPayment(p)
    \/ \E s \in Sweeps : AddSweep(s)
    \/ Iterate \/ NotSigned
    \/ Sync \/ Restart
    \/ \E t \in net.sent \ net.mined : Mine(t)
    \/ \E t \in net.pool : UserBumps(t) \/ Evict(t)
    \/ \E new \in SUBSET net.sent : Reorg(new)

Spec == Init /\ [][Next]_vars
FairSpec == /\ Spec /\ WF_vars(Iterate) /\ WF_vars(Sync) /\ WF_vars(MineSome)
            /\ WF_vars(SweepAgain)

-----------------------------------------------------------------------------
(*                                Properties                               *)

(* Of the payments in transactions that are in the mempool or mined, none   *)
(* is in two: the TxBatch "ensures that we do not send a payment twice"     *)
(* (txbatcher.py:2), also when a reorganisation brings an older or a newer  *)
(* version back.                                                            *)
NeverPaidTwice ==
    \A t, u \in net.pool \cup net.mined : t # u => txs[t].pays \cap txs[u].pays = {}

(* Every transaction pays something.  If one sweeps only, what is built on  *)
(* it need not be its child (use_change in _start_new_batch).               *)
PaysSomething == \A t \in Txids : txs[t].pays # {}

(* Two transactions that were ever broadcast and pay the same can never be  *)
(* in one chain: they spend the same coin, or descend from transactions     *)
(* that do (tx1' and tx2(tx1|o2) of txbatcher.py:14).  This needs that the  *)
(* TxBatch still knows what it has made: there was no restart, no version   *)
(* without change, no reorganisation yet, and the wallet has not lost what  *)
(* the next version builds on.                                              *)
ReorgProof ==
    happened \cap {"restart", "noChange", "reorg", "forgotten"} # {} \/ ~ PaysSomething \/
    \A t, u \in net.sent :
        t # u /\ txs[t].pays \cap txs[u].pays # {} => Incompatible(t, u)

(* What is asked for is done in the end, whichever versions are mined, and  *)
(* when the wallet hears of them: what the mined version leaves out is put  *)
(* into the next batch.  Unless something happened that loses payments.     *)
Done(x) == \E t \in net.mined : x \in txs[t].pays \cup txs[t].ins
EverythingIsDone == <>[](happened # {} \/ \A x \in asked : Done(x))
=============================================================================

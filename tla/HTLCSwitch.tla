----------------------------- MODULE HTLCSwitch -----------------------------
(***************************************************************************)
(* Received HTLCs: Peer.htlc_switch (lnpeer.py) over the sets of HTLCs     *)
(* that LNWallet keeps (lnworker.py), forwarding and hold invoices.        *)
(*                                                                         *)
(* Every peer runs its own switch.  An iteration first puts each new HTLC  *)
(* of the peer's channel into a set, by payment key, or fails it, and then *)
(* looks at every set, of which it settles or fails only the HTLCs of its  *)
(* own channel.  The sets are shared and are kept in the wallet file.      *)
(*                                                                         *)
(* An iteration is not interrupted by another task, but the process may    *)
(* end in it: each of its steps is an action, and `job' is what is left.   *)
(* A channel's own protocol is LNChannel's subject: here an HTLC has been  *)
(* added irrevocably, then a fulfill or a fail has been sent for it.       *)
(***************************************************************************)
EXTENDS Integers, FiniteSets, FiniteSetsExt

CONSTANTS
    Peer, Htlc, Key, None,
    Scenarios,      \* what is being paid; one is chosen at the start
    MaxAttempts,    \* bound: HTLCs offered downstream for one set
    MaxCrashes,     \* bound: restarts
    MaxFaults       \* bound: restarts, disconnects, stale tips, and jumps of the height, together

Attempt == 1 .. MaxAttempts
Kinds == {"invoice",      \* we are the recipient
          "part",         \* one part, by the outer secret, of a trampoline payment to us
          "forward",      \* an HTLC for the next hop
          "trampoline"}   \* trampoline forwarding

(* parent[k] is the invoice of a part.  A payment hash stands for the key   *)
(* of its invoice or forwarding.                                            *)
IsScenario(c) ==
    /\ c.peers \subseteq Peer /\ c.peer \in [Htlc -> c.peers] /\ c.key \in [Htlc -> Key]
    /\ c.amount \in [Htlc -> Nat] /\ c.total \in [Key -> Nat]
    /\ c.kind \in [Key -> Kinds] /\ c.parent \in [Key -> Key \cup {None}]
    /\ c.mpp \subseteq Key /\ c.hold \subseteq Key
    /\ c.dontExpire \subseteq c.hold /\ c.bundle \subseteq Key
    /\ c.sent \subseteq Htlc
    /\ \A k \in c.hold \cup c.bundle : c.kind[k] = "invoice"
    /\ \A k \in Key : c.kind[k] = "part" =>
          /\ c.parent[k] \in Key
          /\ c.kind[c.parent[k]] = "invoice"
    /\ \A h \in c.sent : c.kind[c.key[h]] = "forward" =>    \* it has a set of its own
          /\ c.amount[h] = c.total[c.key[h]]
          /\ \A g \in c.sent : c.key[g] = c.key[h] => g = h

ASSUME ScenariosAreScenarios == \A c \in Scenarios : IsScenario(c)
ASSUME HtlcsAreFinite == IsFiniteSet(Htlc)
ASSUME NoneIsNoKey == None \notin Key \cup Peer
ASSUME MaxAttemptsIsNat == MaxAttempts \in Nat
ASSUME BoundsAreNat == MaxCrashes \in Nat /\ MaxFaults \in Nat

VARIABLES
    sc,        \* the scenario
    store,     \* what the wallet file keeps, in memory
    disk,      \* the same, as the file has it
    job,       \* the iteration that is running
    conn,      \* per peer: "down", "up", or "ready": its channel can be updated
    mem,       \* what is only in memory
    env,       \* time and the chain
    used,      \* how much of each bound is used
    doomed,    \* history: HTLCs whose set was marked as failed or expired
    revealed,  \* history: HTLCs for which a preimage was sent
    again      \* history: HTLCs put into a set after they were failed

vars == <<sc, store, disk, job, conn, mem, env, used, doomed, revealed, again>>

NoSet == [res |-> "none", htlcs |-> {}, parent |-> None]
NewSet == [res |-> "waiting", htlcs |-> {}, parent |-> None]   \* ReceivedMPPStatus
NoJob == [peer |-> None, unf |-> {}, todo |-> {}, snap |-> [k \in Key |-> NoSet]]

(* The payment hash, by the key that stands for it. *)
HashOf(k) == IF sc.kind[k] = "part" THEN sc.parent[k] ELSE k
IsForward(k) == sc.kind[k] \in {"forward", "trampoline"}
Existing == {k \in Key : store.sets[k] # NoSet}

Init ==
    /\ sc \in Scenarios
    /\ store = [log |-> [h \in Htlc |-> "none"],        \* the channels' logs
                unf |-> {},                             \* unfulfilled_htlcs
                sets |-> [k \in Key |-> NoSet],         \* received_mpp_htlcs
                pre |-> {k \in Key : sc.kind[k] = "invoice"} \ sc.hold, \* _preimages
                info |-> {k \in Key : sc.kind[k] = "invoice"},   \* payment_info
                paid |-> {},                            \* ... with PR_PAID
                dontExpire |-> sc.dontExpire,           \* dont_expire_htlcs
                active |-> [k \in Key |-> {0}],         \* active_forwardings; {0}: no entry
                failure |-> [k \in Key |-> "none"],     \* forwarding_failures
                down |-> [k \in Key |-> [d \in Attempt |-> "none"]], \* downstream HTLCs
                swaps |-> sc.hold \ sc.dontExpire]     \* submarine_swaps
    /\ disk = store
    /\ job = NoJob
    /\ conn = [p \in Peer |-> IF p \in sc.peers THEN "ready" ELSE "down"]
    /\ mem = [tasks |-> {},          \* callbacks that were created and have not run
              callback |-> sc.hold \ sc.dontExpire,     \* hold_invoice_callbacks
              bundle |-> sc.bundle,                     \* _payment_bundles_*
              session |-> {},                           \* pay_to_node is running
              batch |-> {},                             \* TxBatch.batch_payments
              reasons |-> {},                           \* Channel._receive_fail_reasons
              raised |-> {}]                            \* history: see ForwardRaises
    /\ env = [close |-> {}, old |-> {}, stale |-> FALSE, expired |-> FALSE,
              locktime |-> FALSE,                       \* that of the swap has passed
              funding |-> [k \in Key |-> "none"],       \* the swap's output on the chain
              late |-> {}]                              \* ... broadcast after the locktime
    /\ used = [crashes |-> 0, faults |-> 0]
    /\ doomed = {}
    /\ revealed = {}
    /\ again = {}

-----------------------------------------------------------------------------
(*                       Saving, and running an iteration                   *)

CanFail == used.faults < MaxFaults
CanCrash == CanFail /\ used.crashes < MaxCrashes
Fails == used' = [used EXCEPT !.faults = @ + 1]

(* The file after a step that has left one of `written' in it.  When no     *)
(* crash is left, the file follows the memory.                              *)
File(written) ==
    disk' \in IF CanCrash THEN written ELSE {store'}

Idle == job = NoJob
CanUpdate(p) == conn[p] = "ready"

(* The iteration of p goes on with its second step, over the sets of s. *)
SecondStep(p, s) ==
    LET keys == {k \in Key : s.sets[k] # NoSet}
    IN  IF keys = {} THEN NoJob
        ELSE [peer |-> p, unf |-> {}, todo |-> keys, snap |-> s.sets]

(* The loop over unfulfilled_htlcs: `left' is what it has not seen yet. *)
FirstStep(p, left, s) ==
    IF left = {} THEN SecondStep(p, s)
    ELSE [NoJob EXCEPT !.peer = p, !.unf = left]

StartIteration(p) ==
    LET mine == {h \in store.unf : sc.peer[h] = p /\ CanUpdate(p)}
    IN  /\ Idle /\ conn[p] # "down"
        /\ mine # {} \/ Existing # {}
        /\ job' = FirstStep(p, mine, store)
        /\ UNCHANGED <<sc, store, disk, conn, mem, env, used, doomed, revealed, again>>

(* _check_unfulfilled_htlc raises.  An HTLC for the next hop is checked     *)
(* when it is forwarded, any other one pays us in its outer onion.          *)
Refused(h) ==
    LET k == sc.key[h]  hash == HashOf(k) IN
    \/ env.stale
    \/ sc.kind[k] # "forward" /\ h \in env.close
    \/ /\ ~ IsForward(k)
       /\ \/ hash \notin store.info
          \/ hash \in store.paid
          \/ env.expired
          \/ hash \notin sc.mpp /\ sc.amount[h] < sc.total[hash]

SetLog(s, hs, what) == [s EXCEPT !.log = [h \in Htlc |-> IF h \in hs THEN what ELSE @[h]]]

(* update_or_create_mpp_with_received_htlc, when the set takes the HTLC. *)
Collect(h) ==
    /\ h \in job.unf
    /\ LET k   == sc.key[h]
           old == IF store.sets[k] = NoSet THEN NewSet ELSE store.sets[k]
       IN  /\ ~ Refused(h) /\ old.res = "waiting"
           /\ store' = [store EXCEPT !.sets[k] = [old EXCEPT !.htlcs = old.htlcs \cup {h}],
                                     !.unf = @ \ {h}]
    /\ job' = FirstStep(job.peer, job.unf \ {h}, store')
    /\ again' = IF store.log[h] = "added" THEN again ELSE again \cup {h}
    /\ File({disk})
    /\ UNCHANGED <<sc, conn, mem, env, used, doomed, revealed>>

IsRefused(h) == Refused(h) \/ store.sets[sc.key[h]].res \notin {"none", "waiting"}

(* The HTLC is failed by itself, and belongs to no set.  fail_htlc may sign *)
(* a commitment, which saves, before the HTLC is taken off the list.        *)
Refuse(h) ==
    /\ h \in job.unf
    /\ IsRefused(h) /\ store.log[h] = "added"
    /\ store' = [SetLog(store, {h}, "failed") EXCEPT !.unf = @ \ {h}]
    /\ job' = FirstStep(job.peer, job.unf \ {h}, store')
    /\ File({disk, SetLog(store, {h}, "failed")})
    /\ UNCHANGED <<sc, conn, mem, env, used, doomed, revealed, again>>

(* An exception ends the iteration, and the connection with its peer. *)
Abort ==
    /\ job' = NoJob
    /\ conn' = [conn EXCEPT ![job.peer] = "down"]

(* The log does not let an HTLC be removed twice. *)
RefuseRaises(h) ==
    /\ h \in job.unf
    /\ IsRefused(h) /\ store.log[h] # "added"
    /\ store' = [store EXCEPT !.unf = @ \ {h}]
    /\ Abort
    /\ File({disk})
    /\ UNCHANGED <<sc, mem, env, used, doomed, revealed, again>>

-----------------------------------------------------------------------------
(*                             The sets of HTLCs                            *)

Amount(hs) == MapThenSumSet(LAMBDA h : sc.amount[h], hs)
Enough(k, s) == Amount(s.htlcs) >= sc.total[k]

(* The part of _check_unfulfilled_htlc_set that marks a set that is         *)
(* complete; a complete part is tagged with its parent.                     *)
Marked(k, s) ==
    IF ~ (s.res = "waiting" /\ s.parent = None /\ s.htlcs # {} /\ Enough(k, s)) THEN store
    ELSE IF sc.kind[k] = "part" THEN [store EXCEPT !.sets[k].parent = sc.parent[k]]
    ELSE [store EXCEPT !.sets[k].res = "complete"]

IsBundleThere(k, s) ==                  \* mutant: the sets only have to exist
    k \in mem.bundle => \A b \in mem.bundle : s.sets[b].res # "none"

IsBundleComplete(k, s) ==
    k \in mem.bundle => \A b \in mem.bundle : s.sets[b].res \in {"complete", "settling"}

FinalVerdictForgetsFailed(k, s) ==      \* mutant: a failed set is looked at again
    LET hash == HashOf(k) IN
    IF s.htlcs = {} THEN "wait"
    ELSE IF s.res = "expired" THEN "expire"
    ELSE IF s.parent # None THEN "move"
    ELSE IF s.res # "settling" THEN "go on"
    ELSE IF store.failure[k] = "reason" THEN "fail"
    ELSE IF hash \in store.pre THEN "settle" ELSE "wait"

FinalVerdictTimesOut(k, s) ==           \* mutant: a settling set may still be failed
    LET hash == HashOf(k) IN
    IF s.htlcs = {} THEN "wait"
    ELSE IF s.res = "failed" THEN "fail"
    ELSE IF s.res = "expired" THEN "expire"
    ELSE IF s.parent # None THEN "move"
    ELSE IF s.res # "settling" \/ env.stale THEN "go on"
    ELSE IF store.failure[k] = "reason" THEN "fail"
    ELSE IF hash \in store.pre THEN "settle" ELSE "wait"

FinalVerdictForgetsExpired(k, s) ==     \* mutant: an expired set is looked at again
    LET hash == HashOf(k) IN
    IF s.htlcs = {} THEN "wait"
    ELSE IF s.res = "failed" THEN "fail"
    ELSE IF s.parent # None THEN "move"
    ELSE IF s.res # "settling" THEN "go on"
    ELSE IF store.failure[k] = "reason" THEN "fail"
    ELSE IF hash \in store.pre THEN "settle" ELSE "wait"

FinalVerdictPaidOnce(k, s) ==           \* mutant: a paid invoice is left alone
    LET hash == HashOf(k) IN
    IF s.htlcs = {} THEN "wait"
    ELSE IF s.res = "failed" THEN "fail"
    ELSE IF s.res = "expired" THEN "expire"
    ELSE IF s.parent # None THEN "move"
    ELSE IF s.res # "settling" THEN "go on"
    ELSE IF store.failure[k] = "reason" THEN "fail"
    ELSE IF hash \in store.pre \ store.paid THEN "settle" ELSE "wait"

(* _check_final_mpp_set_state; "go on" stands for None. *)
FinalVerdict(k, s) ==
    LET hash == HashOf(k) IN
    IF s.htlcs = {} THEN "wait"
    ELSE IF s.res = "failed" THEN "fail"
    ELSE IF s.res = "expired" THEN "expire"
    ELSE IF s.parent # None THEN "move"
    ELSE IF s.res # "settling" THEN "go on"
    ELSE IF store.failure[k] = "reason" THEN "fail"
    ELSE IF hash \in store.pre THEN "settle" ELSE "wait"

OngoingVerdictTooEarly(k, s) ==         \* mutant: does not wait for the other parts
    LET hash == HashOf(k)
        m    == Marked(k, s)
        complete == m.sets[k].res = "complete"
    IN
    IF env.stale THEN "fail"
    ELSE IF sc.kind[k] = "forward" THEN "call"
    ELSE IF s.htlcs \cap env.close # {} THEN "fail"
    ELSE IF sc.kind[k] = "trampoline" THEN (IF complete THEN "call" ELSE "wait")
    ELSE IF hash \notin store.info THEN "fail"
    ELSE IF hash \notin sc.mpp /\ Cardinality(s.htlcs) > 1 THEN "fail"
    ELSE IF hash \notin store.pre /\ hash \in store.dontExpire THEN "wait"
    ELSE IF hash \notin store.pre \cup mem.callback THEN "fail"
    ELSE IF ~ IsBundleComplete(k, m) THEN "wait"
    ELSE IF hash \in store.pre THEN "settle" ELSE "call"

(* The rest of _check_unfulfilled_htlc_set. *)
OngoingVerdict(k, s) ==
    LET hash == HashOf(k)
        m    == Marked(k, s)
        complete == m.sets[k].res = "complete"
    IN
    IF env.stale THEN "fail"
    ELSE IF sc.kind[k] = "forward" THEN "call"
    ELSE IF s.htlcs \cap env.close # {} THEN "fail"
    ELSE IF (s.res = "waiting" \/ ~ IsBundleComplete(k, store)) /\ s.htlcs \cap env.old # {}
         THEN "expire"
    ELSE IF sc.kind[k] = "trampoline" THEN (IF complete THEN "call" ELSE "wait")
    ELSE IF hash \notin store.info THEN "fail"
    ELSE IF hash \notin sc.mpp /\ Cardinality(s.htlcs) > 1 THEN "fail"
    ELSE IF ~ complete THEN (IF env.expired THEN "fail" ELSE "wait")
    ELSE IF hash \notin store.pre /\ hash \in store.dontExpire THEN "wait"
    ELSE IF hash \notin store.pre \cup mem.callback THEN "fail"
    ELSE IF ~ IsBundleComplete(k, m) THEN "wait"
    ELSE IF hash \in store.pre THEN "settle" ELSE "call"

Verdict(k) ==
    LET s == job.snap[k]  final == FinalVerdict(k, s)
    IN  IF final = "go on" THEN OngoingVerdict(k, s) ELSE final

(* The iteration is done with the set k; a set without HTLCs is deleted,    *)
(* with what is known of its forwarding (maybe_cleanup_forwarding).         *)
Cleaned(s, k) ==
    IF s.sets[k].htlcs # {} THEN s
    ELSE [s EXCEPT !.sets[k] = NoSet, !.active[k] = {0}, !.failure[k] = "none"]

DoneWith(k) == job' = IF job.todo = {k} THEN NoJob ELSE [job EXCEPT !.todo = @ \ {k}]

(* The HTLCs of a set that this peer can settle or fail. *)
Mine(k) == {h \in store.sets[k].htlcs : sc.peer[h] = job.peer /\ CanUpdate(job.peer)}

SetWaits(k) ==
    /\ k \in job.todo /\ Verdict(k) = "wait"
    /\ store' = Cleaned(Marked(k, job.snap[k]), k)
    /\ DoneWith(k)
    /\ File(IF store'.sets[k].res # store.sets[k].res THEN {store'} ELSE {disk})
    /\ UNCHANGED <<sc, conn, mem, env, used, doomed, revealed, again>>

(* A complete part: its HTLCs go to the set of the invoice. *)
SetMoves(k) ==
    /\ k \in job.todo /\ Verdict(k) = "move"
    /\ LET up  == sc.parent[k]
           old == IF store.sets[up] = NoSet THEN NewSet ELSE store.sets[up]
       IN  store' = Cleaned([store EXCEPT
                        !.sets[up] = [old EXCEPT !.htlcs = old.htlcs \cup job.snap[k].htlcs],
                        !.sets[k].htlcs = {}], k)
    /\ DoneWith(k)
    /\ File({disk})
    /\ UNCHANGED <<sc, conn, mem, env, used, doomed, revealed, again>>

(* set_htlc_set_error, which saves, and _fail_htlc_set.  Each fail_htlc may *)
(* save before the set is written back.                                     *)
SetFails(k) ==
    /\ k \in job.todo /\ Verdict(k) \in {"fail", "expire"}
    /\ LET res  == IF Verdict(k) = "fail" THEN "failed" ELSE "expired"
           base == [store EXCEPT !.sets[k].res = res]
           now  == {h \in Mine(k) : store.log[h] # "failed"}
       IN  /\ store' = Cleaned([SetLog(base, now, "failed") EXCEPT !.sets[k].htlcs = @ \ Mine(k)], k)
           /\ File({SetLog(base, hs, "failed") : hs \in SUBSET now}
                     \cup (IF base = store THEN {disk} ELSE {}))
    /\ doomed' = doomed \cup store.sets[k].htlcs
    /\ DoneWith(k)
    /\ UNCHANGED <<sc, conn, mem, env, used, revealed, again>>

SetCallsAndMayExpire(k) ==              \* mutant: the set stays as it is
    /\ k \in job.todo /\ Verdict(k) = "call"
    /\ store' = Marked(k, job.snap[k])
    /\ mem' = [mem EXCEPT !.tasks = @ \cup {k},
                          !.bundle = IF k \in @ THEN {} ELSE @]
    /\ DoneWith(k)
    /\ File({store'})
    /\ UNCHANGED <<sc, conn, env, used, doomed, revealed, again>>

(* A callback is started: forwarding, or the hold invoice's. *)
SetCalls(k) ==
    /\ k \in job.todo /\ Verdict(k) = "call"
    /\ store' = [store EXCEPT !.sets[k].res = "settling"]
    /\ mem' = [mem EXCEPT !.tasks = @ \cup {k},
                          !.bundle = IF k \in @ THEN {} ELSE @]
    /\ DoneWith(k)
    /\ File({store'})
    /\ UNCHANGED <<sc, conn, env, used, doomed, revealed, again>>

(* The invoice is paid, and the set is SETTLING. *)
Settling(k) ==
    [store EXCEPT !.sets[k].res = "settling",
                  !.paid = IF HashOf(k) \in store.info THEN @ \cup {HashOf(k)} ELSE @,
                  !.dontExpire = @ \ {HashOf(k)}]

(* _fulfill_htlc_set, for the HTLCs `now' of this peer; save_preimage may   *)
(* save after each settle_htlc.                                             *)
SetSettles(k) ==
    /\ k \in job.todo /\ Verdict(k) = "settle"
    /\ \A h \in Mine(k) : store.log[h] # "failed"
    /\ LET base == Settling(k)
           now  == {h \in Mine(k) : store.log[h] # "fulfilled"}
       IN  /\ store' = Cleaned([SetLog(base, now, "fulfilled") EXCEPT !.sets[k].htlcs = @ \ Mine(k)], k)
           /\ File({SetLog(base, hs, "fulfilled") : hs \in SUBSET now}
                     \cup (IF base = store THEN {disk} ELSE {}))
           /\ revealed' = revealed \cup now
    /\ mem' = [mem EXCEPT !.bundle = IF k \in @ THEN {} ELSE @]
    /\ DoneWith(k)
    /\ UNCHANGED <<sc, conn, env, used, doomed, again>>

(* The HTLC that the log has failed cannot be settled. *)
SettleRaises(k) ==
    /\ k \in job.todo /\ Verdict(k) = "settle"
    /\ \E h \in Mine(k) : store.log[h] = "failed"
    /\ \E hs \in SUBSET {h \in Mine(k) : store.log[h] = "added"} :
          /\ store' = SetLog(Settling(k), hs, "fulfilled")
          /\ revealed' = revealed \cup hs
    /\ mem' = [mem EXCEPT !.bundle = IF k \in @ THEN {} ELSE @]
    /\ Abort
    /\ File({store'})
    /\ UNCHANGED <<sc, env, used, doomed, again>>

-----------------------------------------------------------------------------
(*                     Forwarding and the downstream channels               *)

Unused(k) == {d \in Attempt : store.down[k][d] = "none"}

(* send_htlc of the downstream peer, and the note that it was sent; a       *)
(* commitment may be signed and saved between the two.                      *)
Offer(k, entered) ==
    LET d == CHOOSE d \in Unused(k) : TRUE
        sent == [entered EXCEPT !.down[k][d] = "offered"]
    IN  /\ Unused(k) # {}
        /\ store' = [sent EXCEPT !.active[k] = @ \cup {d}]
        /\ File({disk, sent})

(* maybe_forward_htlc_set: the task runs. *)
RunForward(k) ==
    LET entered == [store EXCEPT !.active[k] = {}] IN
    /\ Idle /\ k \in mem.tasks /\ IsForward(k)
    /\ mem' = [mem EXCEPT !.tasks = @ \ {k},
                          !.session = IF sc.kind[k] = "trampoline" THEN @ \cup {k} ELSE @]
    /\ IF sc.kind[k] = "trampoline"
       THEN store' = entered /\ File({disk})
       ELSE \/ Offer(k, entered)
            \/ /\ store' = [entered EXCEPT !.failure[k] = "reason"]      \* it cannot be forwarded
               /\ File({disk})
    /\ UNCHANGED <<sc, job, conn, env, used, doomed, revealed, again>>

(* pay_to_node, for a trampoline forwarding: the next attempt. *)
SessionSends(k) ==
    /\ Idle /\ k \in mem.session
    /\ store.active[k] = {} /\ k \notin store.pre
    /\ Offer(k, store)
    /\ UNCHANGED <<sc, job, conn, mem, env, used, doomed, revealed, again>>

SessionGivesUp(k) ==                    \* mutant: does not wait for the last attempt
    /\ Idle /\ k \in mem.session
    /\ k \notin store.pre
    /\ store' = [store EXCEPT !.failure[k] = "reason"]
    /\ mem' = [mem EXCEPT !.session = @ \ {k}]
    /\ File({disk})
    /\ UNCHANGED <<sc, job, conn, env, used, doomed, revealed, again>>

(* pay_to_node gives up. *)
SessionFails(k) ==
    /\ Idle /\ k \in mem.session
    /\ store.active[k] = {} /\ k \notin store.pre
    /\ store' = [store EXCEPT !.failure[k] = "reason"]
    /\ mem' = [mem EXCEPT !.session = @ \ {k}]
    /\ File({disk})
    /\ UNCHANGED <<sc, job, conn, env, used, doomed, revealed, again>>

(* Any exception but an OnionRoutingFailure ends the forwarding, and nothing *)
(* is recorded.  (`raised': nothing is left downstream either, whose failure *)
(* htlc_failed could record.)                                                *)
ForwardRaises(k) ==
    /\ Idle /\ IsForward(k) /\ k \in mem.tasks \cup mem.session
    /\ store' = [store EXCEPT !.active[k] = IF k \in mem.tasks THEN {} ELSE @]
    /\ mem' = [mem EXCEPT !.tasks = @ \ {k},
                          !.session = IF k \in mem.tasks THEN @ ELSE @ \ {k},
                          !.raised = IF store'.active[k] = {} THEN @ \cup {k} ELSE @]
    /\ File({disk})
    /\ UNCHANGED <<sc, job, conn, env, used, doomed, revealed, again>>

(* Downstream reveals the preimage: receive_htlc_settle saves it. *)
DownstreamFulfills(k, d) ==
    /\ Idle /\ store.down[k][d] = "offered"
    /\ store' = [store EXCEPT !.down[k][d] = "fulfilled", !.pre = @ \cup {k}]
    /\ File({store'})
    /\ UNCHANGED <<sc, job, conn, mem, env, used, doomed, revealed, again>>

(* htlc_fulfilled, when the HTLC is irrevocably removed; pay_to_node ends. *)
DownstreamFulfilled(k, d) ==
    /\ Idle /\ store.down[k][d] = "fulfilled"
    /\ d \in store.active[k] \/ k \in mem.session
    /\ store' = [store EXCEPT !.active[k] = @ \ {d}]
    /\ mem' = [mem EXCEPT !.session = @ \ {k}]
    /\ File({disk})
    /\ UNCHANGED <<sc, job, conn, env, used, doomed, revealed, again>>

(* receive_fail_htlc keeps the reason in memory. *)
DownstreamFails(k, d) ==
    /\ Idle /\ store.down[k][d] = "offered"
    /\ store' = [store EXCEPT !.down[k][d] = "failing"]
    /\ mem' = [mem EXCEPT !.reasons = @ \cup {<<k, d>>}]
    /\ File({disk, store'})
    /\ UNCHANGED <<sc, job, conn, env, used, doomed, revealed, again>>

(* htlc_failed, when the HTLC is irrevocably removed. *)
DownstreamFailed(k, d) ==
    LET reason == IF <<k, d>> \in mem.reasons THEN "reason" ELSE "empty"
        last   == store.active[k] = {d} /\ k \notin mem.session
    IN  /\ Idle /\ store.down[k][d] = "failing"
        /\ store' = [store EXCEPT !.down[k][d] = "failed",
                                  !.active[k] = @ \ {d},
                                  !.failure[k] = IF last THEN reason ELSE @]
        /\ mem' = [mem EXCEPT !.reasons = @ \ {<<k, d>>}]
        /\ File({disk})
        /\ UNCHANGED <<sc, job, conn, env, used, doomed, revealed, again>>

-----------------------------------------------------------------------------
(*                               Hold invoices                              *)

IsFunded(k) == env.funding[k] # "none"

(* SwapManager.hold_invoice_callback has the swap funded by the batcher. *)
RunHold(k) ==
    /\ Idle /\ k \in mem.tasks /\ ~ IsForward(k)
    /\ mem' = [mem EXCEPT !.tasks = @ \ {k},
                          !.batch = IF k \in store.swaps /\ ~ IsFunded(k) THEN @ \cup {k} ELSE @]
    /\ UNCHANGED <<sc, store, disk, job, conn, env, used, doomed, revealed, again>>

(* TxBatch broadcasts the funding; then the client claims it, with the      *)
(* preimage, or we get it back after the locktime.                          *)
Fund(k) ==
    /\ Idle /\ k \in mem.batch
    /\ mem' = [mem EXCEPT !.batch = @ \ {k}]
    /\ env' = [env EXCEPT !.funding[k] = "unspent",
                          !.late = IF env.locktime THEN @ \cup {k} ELSE @]
    /\ UNCHANGED <<sc, store, disk, job, conn, used, doomed, revealed, again>>

Spend(k) ==
    /\ Idle /\ env.funding[k] = "unspent"
    /\ \E how \in {"claimed"} \cup (IF env.locktime /\ k \notin store.pre THEN {"refunded"} ELSE {}) :
          env' = [env EXCEPT !.funding[k] = how]
    /\ UNCHANGED <<sc, store, disk, job, conn, mem, used, doomed, revealed, again>>

(* The preimage is found: _claim_swap sees that the funding was claimed, or *)
(* the user gives it (settle_hold_invoice).                                 *)
Reveal(k) ==
    /\ Idle /\ k \in sc.hold \ store.pre
    /\ \/ env.funding[k] = "claimed" /\ k \in mem.callback
       \/ /\ k \in store.dontExpire \cap store.info
          /\ store.sets[k].res \in {"complete", "settling"}
    /\ store' = [store EXCEPT !.pre = @ \cup {k}]
    /\ File({store'})
    /\ UNCHANGED <<sc, job, conn, mem, env, used, doomed, revealed, again>>

(* _fail_swap: the swap was not funded in time, or was refunded.            *)
(* unregister_hold_invoice saves if there is a set to fail.  A swap that    *)
(* was not funded is deleted, and so is its prepayment if it is not paid.   *)
FailSwap(k) ==
    LET hasSet   == store.sets[k] # NoSet
        base     == IF hasSet THEN [store EXCEPT !.sets[k].res = "failed"] ELSE store
        unfunded == ~ IsFunded(k) /\ k \notin mem.batch
        prepay   == IF k \in sc.bundle THEN sc.bundle \ {k} ELSE {}
    IN  /\ Idle /\ k \in mem.callback \ store.pre
        /\ (env.locktime /\ ~ IsFunded(k)) \/ env.funding[k] = "refunded"
        /\ store' = [base EXCEPT !.info = @ \ ({k} \cup (IF unfunded THEN prepay \ store.paid ELSE {})),
                                 !.swaps = IF unfunded THEN @ \ {k} ELSE @]
        /\ mem' = [mem EXCEPT !.callback = @ \ {k},
                              !.bundle = IF unfunded /\ prepay \ store.paid # {} THEN {} ELSE @]
        /\ File(IF base = store THEN {disk} ELSE {base})
        /\ doomed' = doomed \cup store.sets[k].htlcs
        /\ UNCHANGED <<sc, job, conn, env, used, revealed, again>>

(* cancel_hold_invoice, before it waits. *)
CancelHold(k) ==
    /\ Idle /\ k \in (store.dontExpire \cap store.info) \ store.pre
    /\ store' = [store EXCEPT !.info = @ \ {k}, !.dontExpire = @ \ {k}]
    /\ File({disk})
    /\ UNCHANGED <<sc, job, conn, mem, env, used, doomed, revealed, again>>

-----------------------------------------------------------------------------
(*                     Channels, time, chain, and restarts                  *)

(* An HTLC is irrevocably added. *)
Arrive(h) ==
    /\ Idle /\ h \in sc.sent /\ CanUpdate(sc.peer[h]) /\ store.log[h] = "none"
    /\ store' = [store EXCEPT !.log[h] = "added", !.unf = @ \cup {h}]
    /\ File({store'})
    /\ UNCHANGED <<sc, job, conn, mem, env, used, doomed, revealed, again>>

(* Any other handler saves the wallet. *)
SaveDb ==
    /\ Idle /\ CanCrash /\ disk # store
    /\ disk' = store
    /\ UNCHANGED <<sc, store, job, conn, mem, env, used, doomed, revealed, again>>

Disconnect(p) ==
    /\ Idle /\ conn[p] # "down" /\ CanFail
    /\ conn' = [conn EXCEPT ![p] = "down"]
    /\ Fails
    /\ UNCHANGED <<sc, store, disk, job, mem, env, doomed, revealed, again>>

(* The connection is initialised, then the channel is reestablished. *)
Connect(p) ==
    /\ Idle /\ p \in sc.peers /\ conn[p] # "ready"
    /\ conn' = [conn EXCEPT ![p] = IF @ = "down" THEN "up" ELSE "ready"]
    /\ UNCHANGED <<sc, store, disk, job, mem, env, used, doomed, revealed, again>>

Pending == {h \in Htlc : store.log[h] = "added"}

(* MPP_EXPIRY passes; invoices expire; blocks bring every HTLC close to its *)
(* timeout; the tip becomes stale, or is fresh again.                       *)
Elapse ==
    /\ Idle /\ ~ Pending \subseteq env.old
    /\ env' = [env EXCEPT !.old = Pending]
    /\ UNCHANGED <<sc, store, disk, job, conn, mem, used, doomed, revealed, again>>

Expire ==
    /\ Idle /\ ~ env.expired /\ Pending # {}
    /\ env' = [env EXCEPT !.expired = TRUE]
    /\ UNCHANGED <<sc, store, disk, job, conn, mem, used, doomed, revealed, again>>

Blocks ==
    /\ Idle /\ ~ Pending \subseteq env.close /\ CanFail
    /\ env.locktime \/ store.swaps = {}
    /\ env' = [env EXCEPT !.close = Pending]
    /\ Fails
    /\ UNCHANGED <<sc, store, disk, job, conn, mem, doomed, revealed, again>>

(* The locktime of a swap passes, long before its HTLCs time out. *)
LocktimePasses ==
    /\ Idle /\ ~ env.locktime /\ store.swaps # {}
    /\ env' = [env EXCEPT !.locktime = TRUE]
    /\ UNCHANGED <<sc, store, disk, job, conn, mem, used, doomed, revealed, again>>

TipChanges ==
    /\ Idle
    /\ \/ env.stale /\ UNCHANGED used
       \/ ~ env.stale /\ CanFail /\ Fails
    /\ env' = [env EXCEPT !.stale = ~ @]
    /\ UNCHANGED <<sc, store, disk, job, conn, mem, doomed, revealed, again>>

(* The process ends, and starts again with the file.  SwapManager registers *)
(* its hold invoices again.                                                 *)
Crash ==
    /\ CanCrash
    /\ used' = [crashes |-> used.crashes + 1, faults |-> used.faults + 1]
    /\ store' = disk
    /\ job' = NoJob
    /\ conn' = [p \in Peer |-> "down"]
    /\ mem' = [tasks |-> {}, bundle |-> {}, session |-> {}, batch |-> {}, reasons |-> {},
               raised |-> {}, callback |-> disk.swaps \ disk.pre]
    /\ UNCHANGED <<sc, disk, env, doomed, revealed, again>>

FirstStepNext == \E h \in Htlc : Collect(h) \/ Refuse(h) \/ RefuseRaises(h)
SetNext(k) == \/ SetWaits(k) \/ SetMoves(k) \/ SetFails(k)
              \/ SetCalls(k) \/ SetSettles(k) \/ SettleRaises(k)
JobNext == FirstStepNext \/ \E k \in Key : SetNext(k)
ForwardNext(k) ==
    \/ RunForward(k) \/ SessionSends(k) \/ SessionFails(k) \/ ForwardRaises(k)
    \/ \E d \in Attempt : DownstreamFulfills(k, d) \/ DownstreamFulfilled(k, d)
                            \/ DownstreamFails(k, d) \/ DownstreamFailed(k, d)
HoldNext(k) == \/ RunHold(k) \/ Fund(k) \/ Spend(k)
               \/ Reveal(k) \/ FailSwap(k) \/ CancelHold(k)

Next ==
    \/ JobNext
    \/ \E p \in Peer : StartIteration(p) \/ Disconnect(p) \/ Connect(p)
    \/ \E k \in Key : ForwardNext(k) \/ HoldNext(k)
    \/ \E h \in Htlc : Arrive(h)
    \/ SaveDb \/ Elapse \/ Expire \/ Blocks \/ LocktimePasses \/ TipChanges \/ Crash

Spec == Init /\ [][Next]_vars

(* asyncio runs every task that is ready in its turn, whatever the switches *)
(* of other peers do meanwhile; a peer comes back, time passes, a tip is    *)
(* found, whoever has to resolve an HTLC downstream, or a hold invoice,     *)
(* does.  Each of these can happen only finitely often, so that one strong  *)
(* fairness condition for all of them is enough.                            *)
Progress ==
    \/ \E p \in Peer : Connect(p)
    \/ \E k \in Key : ForwardNext(k) \/ HoldNext(k)
    \/ Elapse \/ LocktimePasses \/ (env.stale /\ TipChanges)
Fairness ==
    /\ WF_vars(JobNext)
    /\ \A p \in Peer : SF_vars(StartIteration(p))
    /\ SF_vars(Progress)
FairSpec == Spec /\ Fairness

-----------------------------------------------------------------------------
(*                                Properties                                *)

Resolutions == {"waiting", "expired", "complete", "failed", "settling"}
SetRecord == [res : Resolutions, htlcs : SUBSET Htlc, parent : Key \cup {None}] \cup {NoSet}
Store == [log : [Htlc -> {"none", "added", "fulfilled", "failed"}],
          unf : SUBSET Htlc,
          sets : [Key -> SetRecord],
          pre : SUBSET Key, info : SUBSET Key, paid : SUBSET Key, dontExpire : SUBSET Key,
          active : [Key -> SUBSET (Attempt \cup {0})],
          failure : [Key -> {"none", "reason", "empty"}],
          down : [Key -> [Attempt -> {"none", "offered", "fulfilled", "failing", "failed"}]],
          swaps : SUBSET Key]

TypeOK ==
    /\ IsScenario(sc)
    /\ store \in Store /\ disk \in Store
    /\ job \in [peer : Peer \cup {None}, unf : SUBSET Htlc, todo : SUBSET Key,
                snap : [Key -> SetRecord]]
    /\ conn \in [Peer -> {"down", "up", "ready"}]
    /\ mem \in [tasks : SUBSET Key, callback : SUBSET Key, bundle : SUBSET Key,
                session : SUBSET Key, batch : SUBSET Key, reasons : SUBSET (Key \X Attempt),
                raised : SUBSET Key]
    /\ env \in [close : SUBSET Htlc, old : SUBSET Htlc, stale : BOOLEAN, expired : BOOLEAN,
                locktime : BOOLEAN, funding : [Key -> {"none", "unspent", "claimed", "refunded"}],
                late : SUBSET Key]
    /\ used \in [crashes : 0 .. MaxCrashes, faults : 0 .. MaxFaults]
    /\ doomed \subseteq Htlc /\ revealed \subseteq Htlc /\ again \subseteq Htlc

(* "A set marked as failed once must never settle any htlcs associated to   *)
(* it", whatever peers come and go, and over a restart.  Only a part that   *)
(* joined a set which was paid without it is an exception: that it did may  *)
(* be forgotten in a restart, and its own set expires then.                 *)
FailedNeverSettles ==
    \A h \in doomed \cap revealed : used.crashes > 0 /\ sc.kind[sc.key[h]] = "part"

(* What was received for k and cannot be lost any more: the HTLCs that are  *)
(* settled, or that wait in the SETTLING set for their peer.                *)
SecuredIn(s, k) ==
    {h \in Htlc : /\ HashOf(sc.key[h]) = k
                  /\ \/ s.log[h] = "fulfilled"
                     \/ /\ s.log[h] = "added"
                        /\ s.sets[k].res = "settling" /\ h \in s.sets[k].htlcs}
Covered(s, k) == Amount(SecuredIn(s, k)) >= sc.total[k]

(* Once a preimage was revealed for an invoice, all of it is secured: no    *)
(* part of the set is failed, or was never there, when another is settled.  *)
PaidInFull ==
    \A k \in Key :
        /\ sc.kind[k] = "invoice" /\ again = {}
        /\ \E h \in revealed : HashOf(sc.key[h]) = k
        => Covered(store, k)

(* As long as a downstream HTLC can be claimed, or was, the incoming HTLCs  *)
(* that pay for it are secured: whatever expires, or disconnects, or when   *)
(* the process ends, we do not pay for a forwarding from our own pocket.    *)
ForwardingIsCovered ==
    again = {} =>
        \A k \in Key : (\E d \in Attempt : store.down[k][d] \in {"offered", "fulfilled"})
                          => Covered(store, k)

(* The same for the funding of a swap, until it is given back to us: while  *)
(* it can be claimed, or was, the swap's HTLCs are secured.  This is so for *)
(* a funding that is broadcast before the locktime (see the hazards).       *)
FundingIsCovered ==
    again = {} => \A k \in Key \ env.late :
                      env.funding[k] \in {"unspent", "claimed"} => Covered(store, k)

(* An HTLC for the next hop is offered downstream once, over a restart too.  *)
(* "if we segfault in-between and restart, we might forward an HTLC twice"    *)
(* (_maybe_forward_htlc) is not what happens: the set is SETTLING in every    *)
(* file that has the downstream HTLC, and a set is not forwarded from that.   *)
(* What is lost in between is the entry in active_forwardings, and with it    *)
(* the failure of the downstream HTLC.                                        *)
ForwardedOnce ==
    \A k \in Key : sc.kind[k] = "forward" => Cardinality(Attempt \ Unused(k)) <= 1

(* Until a bundle is known to be paid, none of its payments is acted upon:  *)
(* the first set of it that starts to settle, or to swap, finds all of them *)
(* complete.  (It is deleted then, and it is not kept over a restart.)      *)
Started(s) == {k \in sc.bundle : s.sets[k].res = "settling" \/ k \in s.paid}
BundleStartsComplete ==
    [][mem.bundle # {} /\ Started(store) = {} /\ Started(store') # {}
          => \A k \in sc.bundle : /\ store'.sets[k].res \in {"complete", "settling"} \/ k \in store'.paid
                                  /\ store.sets[k].htlcs \subseteq Pending
                                  /\ Enough(k, store.sets[k])]_vars

(* Unless the process is restarted, every HTLC that was added is settled or *)
(* failed, though sets wait for parts, peers, forwardings and users; but    *)
(* when an unexpected exception ended a forwarding that had nothing left    *)
(* downstream, "the inc-HTLC gets stuck until expiry and then the           *)
(* inc-channel will get force-closed" (maybe_forward_htlc_set).             *)
Stuck(h) ==
    LET k == sc.key[h] IN k \in mem.raised /\ h \in store.sets[k].htlcs

EveryHTLCResolved ==
    \A h \in Htlc : store.log[h] = "added" ~> (store.log[h] # "added" \/ Stuck(h))

(* ... and every HTLC of a paid set is settled, though its peer was away.   *)
PaidIsCollected ==
    \A h \in Htlc : (h \in store.sets[HashOf(sc.key[h])].htlcs /\ HashOf(sc.key[h]) \in store.paid)
                        ~> store.log[h] = "fulfilled"

-----------------------------------------------------------------------------
(*          The inductive invariant behind FailedNeverSettles               *)

(* An HTLC waits for the first loop, or is in one set, or neither; in both  *)
(* cases it is neither settled nor failed.                                  *)
EachInOnePlace ==
    /\ job.unf \subseteq store.unf
    /\ \A h \in store.unf : store.log[h] = "added" /\ \A k \in Key : h \notin store.sets[k].htlcs
    /\ \A k \in Key : \A h \in store.sets[k].htlcs :
          store.log[h] = "added" /\ \A j \in Key \ {k} : h \notin store.sets[j].htlcs

(* What the second loop has copied of a set is still so, but that HTLCs may *)
(* have been moved to it.                                                   *)
CopiesAreCurrent ==
    \A k \in job.todo :
        /\ job.snap[k].res = store.sets[k].res /\ job.snap[k] # NoSet
        /\ job.snap[k].parent = store.sets[k].parent
        /\ job.snap[k].htlcs \subseteq store.sets[k].htlcs

OnlyPartsAreTagged == \A k \in Key : store.sets[k].parent # None => sc.kind[k] = "part"

DoomedAreLost ==
    \A h \in doomed :
        \/ store.log[h] = "failed"
        \/ \E k \in Key : h \in store.sets[k].htlcs /\ store.sets[k].res \in {"failed", "expired"}

RevealedAreFulfilled == \A h \in revealed : store.log[h] = "fulfilled"

(* All but the copies only until the first restart *)
Inv == /\ TypeOK /\ CopiesAreCurrent
       /\ used.crashes = 0 =>
            EachInOnePlace /\ OnlyPartsAreTagged /\ DoomedAreLost /\ RevealedAreFulfilled

-----------------------------------------------------------------------------
(*               What comments of the source say of the program             *)

(* "htlcs in SETTLING will not get failed automatically, ... so either a    *)
(* forwarding failure or preimage has to be set" (lnpeer.py): so it is when *)
(* every downstream HTLC has failed and no task forwards the set any more.  *)
EndedForwardingIsDecided ==
    \A k \in Key :
        /\ IsForward(k) /\ store.sets[k].res = "settling"
        /\ Unused(k) # Attempt
        /\ \A d \in Attempt \ Unused(k) : store.down[k][d] = "failed"
        /\ k \notin mem.tasks \cup mem.session
        => store.failure[k] = "reason" \/ k \in store.pre

(* "for atomicity, so that either - all gets fulfilled, or - none of them   *)
(* gets fulfilled" (bundle_payments in lnworker.py).                        *)
BundleIsAtomic ==
    (\E k \in sc.bundle : k \in store.paid)
        => \A h \in doomed : sc.key[h] \notin sc.bundle

(* "Each htlc is only supposed to go through this first loop once when      *)
(* being received" (lnpeer.py).                                             *)
FirstLoopOnce == Idle => \A h \in store.unf : store.log[h] = "added"
=============================================================================

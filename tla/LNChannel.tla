----------------------------- MODULE LNChannel -----------------------------
(***************************************************************************)
(* A Lightning channel between two Electrum wallets: the handlers of       *)
(* electrum_grs/lnpeer.py and the methods of lnchannel.py they call, over  *)
(* the update logs of HTLCLog.  The parties exchange messages over a       *)
(* transport that keeps their order and loses what is in flight when it    *)
(* breaks; a party may crash, and comes back with what it last wrote to    *)
(* its wallet file.                                                        *)
(*                                                                         *)
(* Handlers run to completion on the asyncio thread, so each is one        *)
(* action.  What a handler does is described by a step: a record of the    *)
(* party's log and wallet file and of the messages it has sent so far.     *)
(* Operators from sets of steps to sets of steps are the statements of the *)
(* handler; a statement with a choice (has the time come to sign?) returns *)
(* more steps than it was given.                                           *)
(***************************************************************************)
EXTENDS HTLCLog, SequencesExt

CONSTANTS
    Initiator,      \* the party that funded the channel and sets the feerate
    Amount,         \* Amount[p]: the amount of the HTLCs that p offers
    Feerates,       \* the feerates the fee estimates may call for
    MaxAccepted,    \* max_accepted_htlcs, the same in both configs
    MaxHtlcs,       \* bound: MaxHtlcs[p] HTLCs that p offers
    MaxFeeUpdates,  \* bound: update_fee messages
    MaxUpdates,     \* bound: HTLCs that both offer, fee updates, and copies of
                    \* a wallet file, all together
    MaxDisconnects, \* bound: disconnections that no error causes
    MaxCrashes,     \* bound: crashes
    MaxMidSaves,    \* bound: crashes in the middle of a handler, after the
                    \* wallet was saved there (see CrashInHandler)
    MaxRestores,    \* bound: restorations of an old copy of a wallet file
    MaxFaults       \* bound: all of these faults together

ASSUME InitiatorAssumption == Initiator \in Owner
ASSUME BoundAssumption ==
    /\ MaxAccepted \in Nat /\ Feerates \subseteq Nat /\ Feerates # {}
    /\ MaxHtlcs \in [Owner -> Nat]
    /\ {MaxFeeUpdates, MaxUpdates, MaxDisconnects, MaxCrashes, MaxMidSaves,
        MaxRestores, MaxFaults} \subseteq Nat

VARIABLES
    log,        \* log[p]: the HTLCManager of p
    disk,       \* disk[p]: its log in the wallet file
    backup,     \* backup[p]: an old copy of the wallet file, or None
    net,        \* net[p]: the messages on their way to p
    up,         \* is there a transport between the two?
    peerState,  \* peerState[p]: PeerState of the channel object of p
    chanState,  \* chanState[p]: ChannelState (OPEN and what may follow here)
    sentReest,  \* sentReest[p]: p has sent channel_reestablish
    reest,      \* reest[p]: what p makes of the channel_reestablish it got
    signed,     \* signed[p]: contents of the ctxs of p that were ever signed
    reported,   \* reported[p]: payments p's wallet was told the outcome of
    refused,    \* refused[p]: why p dropped, or raised an exception at, a message
    used        \* how often each bounded event happened

vars == <<log, disk, backup, net, up, peerState, chanState, sentReest, reest,
          signed, reported, refused, used>>

(* channel_reestablish_msg, a future: without a result, with a result, or     *)
(* with an exception.                                                         *)
Reest(state, nextLocal, resend) ==
    [state |-> state, nextLocal |-> nextLocal, resend |-> resend]
NoReest  == Reest("pending", 0, FALSE)
BadReest == Reest("exception", 0, FALSE)

-----------------------------------------------------------------------------
(* The commitment transaction of `owner' at n as the party `me' builds it:   *)
(* what a signature covers.  Balances are relative to the channel's opening. *)
MakeCommitment(l, me, owner, n) ==
    [ ctn     |-> n,
      htlcs   |-> Htlcs(l, owner, n),
      feerate |-> Feerate(l, owner, n),
      balance |-> BalanceDelta(l, me, Initiator, owner, n) ]

CanUpdateCtx(p) == chanState[p] = "OPEN" /\ peerState[p] = "GOOD"

(* htlc_slots_left: strict for our own HTLCs, as BOLT-02 has it for theirs.  *)
(* Strict counts may exceed the limit: then fewer than no slots are left.    *)
SlotsLeft(l, me, proposer) ==
    LET receiver == Other(proposer)
        n        == CtnNext(l, receiver)
    IN  MaxAccepted - IF proposer = me
                        THEN Cardinality(Htlcs(l, receiver, n))
                        ELSE Cardinality(HtlcsByProposer(l, receiver, n, proposer))

-----------------------------------------------------------------------------
(*                                 Steps                                   *)

Begin(p) == [log |-> log[p], disk |-> disk[p], out |-> << >>, reports |-> {}]

Save(s)      == [s EXCEPT !.disk = Stored(s.log)]
Send(s, msg) == [s EXCEPT !.out = Append(@, msg)]

(* send_message for an update_* message: stored for replay, then sent. *)
SendUpdate(s, p, msg) ==
    Send([s EXCEPT !.log = StoreRawMsg(@, p, msg, FALSE)], msg)

(* Messages.  commitment_signed stands for what its signatures cover. *)
AddMsg(id, amount) == [type |-> "update_add_htlc", id |-> id, amount |-> amount]
RemoveMsg(kind, id) == [type |-> "update_remove_htlc", kind |-> kind, id |-> id]
FeeMsg(rate) == [type |-> "update_fee", rate |-> rate]
CommitMsg(ctx) == [type |-> "commitment_signed", ctx |-> ctx]
RevokeMsg(n) == [type |-> "revoke_and_ack", revoked |-> n]
ReestMsg(nextLocal, oldestRemote) ==
    [type |-> "channel_reestablish", nextLocal |-> nextLocal,
     oldestRemote |-> oldestRemote]

(* maybe_send_commitment when all its conditions hold: sign_next_commitment,  *)
(* then store the raw message, save the channel, and send.                    *)
SignCommitmentUnsaved(p, s) ==      \* mutant: sends what it has not saved
    LET q   == Other(p)
        msg == CommitMsg(MakeCommitment(s.log, p, q, CtnNext(s.log, q)))
    IN  Send([s EXCEPT !.log = StoreRawMsg(SendCtx(@, p), p, msg, TRUE)], msg)

SignCommitment(p, s) ==
    LET q   == Other(p)
        msg == CommitMsg(MakeCommitment(s.log, p, q, CtnNext(s.log, q)))
        l   == StoreRawMsg(SendCtx(s.log, p), p, msg, TRUE)
    IN  Send(Save([s EXCEPT !.log = l]), msg)

(* send_revoke_and_ack: revoke_current_commitment, save, send. *)
RevokeAndAck(p, s) ==
    Send(Save([s EXCEPT !.log = SendRev(@, p)]), RevokeMsg(s.log.ctn[p]))

(* receive_revocation, which tells the wallet which of its HTLCs are now gone *)
(* from the ctx of the other, and save.                                       *)
RemovalReports(p, l, n) ==
    UNION {{<<id, k>> : id \in RemovedExactlyAt(l, k, Other(p), n, p)} :
             k \in RemovalKind}

ReceiveRevocationUnsaved(p, s) ==   \* mutant: does not save what it received
    LET l == RecvRev(s.log, p)
    IN  [s EXCEPT !.log = l,
                  !.reports = RemovalReports(p, l, CtnLatest(s.log, Other(p)))]

ReceiveRevocation(p, s) ==
    LET l == RecvRev(s.log, p)
    IN  Save([s EXCEPT
                !.log = l,
                !.reports = RemovalReports(p, l, CtnLatest(s.log, Other(p)))])

CanSign(p, l) ==
    /\ ~ l.revack_pending[Other(p)]
    /\ HasPendingChanges(l, Other(p))

(* maybe_send_commitment: whether MIN_TIME_BETWEEN_SENDING_COMMITSIGS has     *)
(* passed is left open.                                                       *)
MaybeSendCommitment(p, S) ==
    S \cup {SignCommitment(p, s) : s \in {s \in S : CanSign(p, s.log)}}

(* Bound: room for one more HTLC, fee update or copy. *)
UpdateRoom(l) ==
    LET q == Other(Initiator)
    IN  Len(l.fee_updates[Initiator]) - 1 + l.next_htlc_id[Initiator]
          + log[q].next_htlc_id[q]
          + Cardinality({x \in Owner : backup[x] # None}) < MaxUpdates

(* Bound: room for one more update_fee. *)
FeeRoom(l) ==
    /\ UpdateRoom(l)
    /\ Len(l.fee_updates[Initiator]) <= MaxFeeUpdates
    /\ LET raw == FlattenSeq([i \in 1..Cardinality(DOMAIN l.unacked_updates) |->
                     l.unacked_updates[SetToSeq(DOMAIN l.unacked_updates)[i]]])
       IN  Cardinality({i \in DOMAIN raw : raw[i].type = "update_fee"}) < MaxFeeUpdates

(* maybe_update_fee: the fee estimates call for the present feerate, or for  *)
(* some other one.                                                           *)
MaybeUpdateFee(p, S) ==
    S \cup UNION {
        LET next == Feerate(s.log, Other(p), CtnNext(s.log, Other(p)))
        IN  MaybeSendCommitment(p,
              {SendUpdate([s EXCEPT !.log = UpdateFee(@, p, rate)], p, FeeMsg(rate)) :
                  rate \in Feerates \ {next}})
        : s \in {s \in S : p = Initiator /\ FeeRoom(s.log)}}

(* What a step does to the state of p and to the messages to the other. *)
Perform(p, s, inbox) ==
    /\ log'  = [log EXCEPT ![p] = s.log]
    /\ disk' = [disk EXCEPT ![p] = s.disk]
    /\ net'  = [net EXCEPT ![p] = inbox, ![Other(p)] = @ \o s.out]
    /\ signed' = [signed EXCEPT ![Other(p)] = @ \cup
                    {s.out[i].ctx : i \in {i \in DOMAIN s.out :
                                             s.out[i].type = "commitment_signed"}}]
    /\ reported' = [reported EXCEPT ![p] = @ \cup s.reports]

(* peer_closed, on both sides. *)
DropTransport ==
    /\ up' = FALSE
    /\ net' = [p \in Owner |-> << >>]
    /\ peerState' = [p \in Owner |-> "DISCONNECTED"]
    /\ sentReest' = [p \in Owner |-> FALSE]
    /\ reest' = [p \in Owner |-> NoReest]

-----------------------------------------------------------------------------
Init ==
    /\ log  = [p \in Owner |-> NewLog(Initiator, Min(Feerates))]
    /\ disk = [p \in Owner |-> Stored(NewLog(Initiator, Min(Feerates)))]
    /\ backup = [p \in Owner |-> None]
    /\ net = [p \in Owner |-> << >>]
    /\ up = TRUE
    /\ peerState = [p \in Owner |-> "GOOD"]
    /\ chanState = [p \in Owner |-> "OPEN"]
    /\ sentReest = [p \in Owner |-> FALSE]
    /\ reest = [p \in Owner |-> NoReest]
    /\ signed = [p \in Owner |-> {}]
    /\ reported = [p \in Owner |-> {}]
    /\ refused = [p \in Owner |-> {}]
    /\ used = [disconnects |-> 0, crashes |-> 0, midSaves |-> 0, restores |-> 0]

-----------------------------------------------------------------------------
(*                    What a party does of its own accord                  *)

(* Bound: one more fault. *)
Left(event, max) ==
    /\ used[event] < max
    /\ used.disconnects + used.crashes + used.midSaves + used.restores < MaxFaults

(* Own(p, S): a task of p does one of the steps S. *)
Own(p, S) ==
    /\ \E s \in S : Perform(p, s, net[p])
    /\ UNCHANGED <<backup, up, peerState, chanState, sentReest, reest, refused, used>>

(* Bound: room for one more HTLC. *)
HtlcRoom(p) ==
    /\ log[p].next_htlc_id[p] < MaxHtlcs[p]
    /\ UpdateRoom(log[Initiator])

SendHtlc(p) ==
    /\ CanUpdateCtx(p)
    /\ HtlcRoom(p)
    /\ SlotsLeft(log[p], p, p) # 0
    /\ LET msg == AddMsg(log[p].next_htlc_id[p], Amount[p])
           s   == [Begin(p) EXCEPT !.log = AddHtlc(@, p, Amount[p])]
       IN  Own(p, MaybeSendCommitment(p, {SendUpdate(s, p, msg)}))

(* Removing an HTLC of `proposer'. *)
Removed(p, kind, proposer, id) ==
    [Begin(p) EXCEPT !.log = RemoveHtlc(@, kind, proposer, id)]

(* save_preimage: saves the wallet, unless it has the preimage as a public    *)
(* one already, from another HTLC with the same payment hash.                 *)
SavePreimage(S) == S \cup {Save(s) : s \in S}

(* _fulfill_htlc.  settle_htlc ends with save_preimage, so that the settle is *)
(* in the wallet file before its raw message is stored; and storing that does *)
(* not save.                                                                  *)
FulfillHtlc(p) ==
    /\ CanUpdateCtx(p)
    /\ \E id \in DOMAIN log[p].locked_in[Other(p)] :
          /\ IsIrrevocablyAdded(log[p], Other(p), id)
          /\ ~ WasPreimageReleased(log[p], Other(p), id)
          /\ CanRemoveHtlc(log[p], Other(p), id)
          /\ Own(p, {SendUpdate(s, p, RemoveMsg("settles", id)) :
                       s \in SavePreimage({Removed(p, "settles", Other(p), id)})})

FailHtlc(p) ==
    /\ CanUpdateCtx(p)
    /\ \E id \in DOMAIN log[p].locked_in[Other(p)] :
          /\ IsIrrevocablyAdded(log[p], Other(p), id)
          /\ ~ WasFailed(log[p], Other(p), id)
          /\ CanRemoveHtlc(log[p], Other(p), id)
          /\ Own(p, MaybeSendCommitment(p,
                      {SendUpdate(Removed(p, "fails", Other(p), id), p, RemoveMsg("fails", id))}))

(* on_event_fee *)
UpdateFeerate(p) ==
    /\ CanUpdateCtx(p)
    /\ Own(p, MaybeUpdateFee(p, {Begin(p)}) \ {Begin(p)})

(* The poll of htlc_switch. *)
SendCommitment(p) ==
    /\ CanUpdateCtx(p)
    /\ CanSign(p, log[p])
    /\ Own(p, {SignCommitment(p, Begin(p))})

(* Anything else in the wallet that saves it, between two handlers (only of   *)
(* interest while a crash or a copy is still to come).                        *)
SaveDb(p) ==
    /\ Left("crashes", MaxCrashes) \/ Left("restores", MaxRestores)
    /\ disk[p] # Stored(log[p])
    /\ Own(p, {Save(Begin(p))})

-----------------------------------------------------------------------------
(*                             Message handlers                            *)

(* The next message to p is of this type; while p has the channel_reestablish *)
(* of the other but has not finished its own part, it processes no other.     *)
Incoming(p, type) ==
    /\ up
    /\ net[p] # << >>
    /\ Head(net[p]).type = type
    /\ reest[p].state = "done" => peerState[p] = "GOOD"

(* A message is handled; or dropped, where the channel's state makes it an   *)
(* illegal action; or answered by an exception, which ends the connection.   *)
Respond(p, reason, S) ==
    CASE reason = "none" ->
           /\ \E s \in S : Perform(p, s, Tail(net[p]))
           /\ UNCHANGED <<backup, up, peerState, chanState, sentReest, reest,
                          refused, used>>
      [] reason = "dropped" ->
           /\ refused' = [refused EXCEPT ![p] = @ \cup {reason}]
           /\ net' = [net EXCEPT ![p] = Tail(@)]
           /\ UNCHANGED <<log, disk, backup, up, peerState, chanState, sentReest,
                          reest, signed, reported, used>>
      [] OTHER ->
           /\ refused' = [refused EXCEPT ![p] = @ \cup {reason}]
           /\ DropTransport
           /\ UNCHANGED <<log, disk, backup, chanState, signed, reported, used>>

OnUpdateAddHtlc(p) ==
    /\ Incoming(p, "update_add_htlc")
    /\ LET m == Head(net[p])
           q == Other(p)
           reason == CASE chanState[p] # "OPEN" -> "channel is not open"
                       [] ~ CanUpdateCtx(p) -> "dropped"
                       [] SlotsLeft(log[p], p, q) = 0 -> "too many HTLCs"
                       [] m.id # log[p].next_htlc_id[q] -> "unexpected htlc_id"
                       [] OTHER -> "none"
       IN  Respond(p, reason, {[Begin(p) EXCEPT !.log = AddHtlc(@, q, m.amount)]})

(* on_update_fulfill_htlc, which ends with save_preimage, and                 *)
(* on_update_fail_htlc, on_update_fail_malformed_htlc, according to the kind  *)
(* of message.                                                                *)
OnUpdateRemoveHtlc(p, kind) ==
    /\ Incoming(p, "update_remove_htlc")
    /\ Head(net[p]).kind = kind
    /\ LET m == Head(net[p])
           reason == CASE ~ CanUpdateCtx(p) -> "dropped"
                       [] m.id \notin DOMAIN log[p].adds[p] -> "unknown htlc_id"
                       [] ~ CanRemoveHtlc(log[p], p, m.id) -> "htlc is not there"
                       [] OTHER -> "none"
           removed == {Removed(p, kind, p, m.id)}
       IN  Respond(p, reason, IF kind = "settles" THEN SavePreimage(removed) ELSE removed)

OnUpdateFee(p) ==
    /\ Incoming(p, "update_fee")
    /\ LET reason == CASE ~ CanUpdateCtx(p) -> "dropped"
                       [] p = Initiator -> "wrong initiator"
                       [] OTHER -> "none"
       IN  Respond(p, reason, {[Begin(p) EXCEPT
                        !.log = UpdateFee(@, Other(p), Head(net[p]).rate)]})

(* Why a commitment_signed is refused (on_commitment_signed and              *)
(* receive_new_commitment): the signature must cover our own next ctx, as we *)
(* build it.                                                                 *)
CommitmentRefusal(p, ctx) ==
    CASE ~ CanUpdateCtx(p) -> "dropped"
      [] ~ HasPendingChanges(log[p], p) -> "no pending changes"
      [] log[p].revack_pending[p] -> "not revoked previous ctx"
      [] ctx # MakeCommitment(log[p], p, p, CtnNext(log[p], p)) -> "bad sig"
      [] OTHER -> "none"

(* on_commitment_signed, receive_new_commitment and send_revoke_and_ack,      *)
(* which ends with maybe_send_commitment.                                     *)
OnCommitmentSigned(p) ==
    /\ Incoming(p, "commitment_signed")
    /\ LET received == [Begin(p) EXCEPT !.log = RecvCtx(@, p)]
       IN  Respond(p, CommitmentRefusal(p, Head(net[p]).ctx),
                   MaybeSendCommitment(p, {RevokeAndAck(p, received)}))

(* on_revoke_and_ack.  The secret must be that of the ctx we expect to be     *)
(* revoked.                                                                   *)
OnRevokeAndAck(p) ==
    /\ Incoming(p, "revoke_and_ack")
    /\ LET reason == CASE ~ CanUpdateCtx(p) -> "dropped"
                       [] Head(net[p]).revoked # log[p].ctn[Other(p)] -> "wrong secret"
                       [] OTHER -> "none"
       IN  Respond(p, reason, {ReceiveRevocation(p, Begin(p))})

-----------------------------------------------------------------------------
(*                          Channel reestablishment                        *)

Connect ==
    /\ ~ up
    /\ up' = TRUE
    /\ UNCHANGED <<log, disk, backup, net, peerState, chanState, sentReest,
                   reest, signed, reported, refused, used>>

(* The numbers in the channel_reestablish that p sends: in WE_ARE_TOXIC it   *)
(* asks the other to force-close (request_force_close).                      *)
OurReest(p) ==
    IF chanState[p] = "WE_ARE_TOXIC" THEN ReestMsg(0, 0)
    ELSE ReestMsg(CtnNext(log[p], p), log[p].ctn[Other(p)])

(* reestablish_channel up to the point where it awaits the other's message.  *)
StartReestablish(p) ==
    /\ up
    /\ ~ sentReest[p]
    /\ peerState[p] = "DISCONNECTED" \/ chanState[p] # "OPEN"
    /\ LET proper == chanState[p] = "OPEN"
           l == IF proper THEN DiscardUnsignedRemoteUpdates(log[p], p) ELSE log[p]
       IN  /\ Perform(p, Send([Begin(p) EXCEPT !.log = l], OurReest(p)), net[p])
           /\ peerState' = IF proper THEN [peerState EXCEPT ![p] = "REESTABLISHING"]
                                     ELSE peerState
    /\ sentReest' = [sentReest EXCEPT ![p] = TRUE]
    /\ UNCHANGED <<backup, up, chanState, reest, refused, used>>

(* The comparison of numbers in on_channel_reestablish: the state to put the  *)
(* channel in.  `With proof': the other knows a secret of a ctx that, for all *)
(* we know, is not revoked.  Of two honest parties nobody claims a secret     *)
(* that is wrong.                                                             *)
MustResend(l, p, m) == m.oldestRemote = l.ctn[p] - 1

LocalDiffers(l, p, m) ==
    LET q == Other(p)
        replayWillDo == m.nextLocal = CtnLatest(l, q) /\ l.revack_pending[q]
    IN  m.nextLocal # CtnNext(l, q) /\ ~ replayWillDo

RemoteDiffers(l, p, m) == m.oldestRemote # l.ctn[p] /\ ~ MustResend(l, p, m)

VerdictNoResend(l, p, m) ==         \* mutant: a lost revocation is not expected
    IF m.oldestRemote > l.ctn[p] THEN "WE_ARE_TOXIC"
    ELSE IF LocalDiffers(l, p, m) \/ m.oldestRemote # l.ctn[p] THEN "FORCE_CLOSING"
    ELSE "OPEN"

VerdictAheadFirst(l, p, m) ==       \* mutant: the checks in another order
    IF LocalDiffers(l, p, m) \/ m.oldestRemote < l.ctn[p] - 1 THEN "FORCE_CLOSING"
    ELSE IF RemoteDiffers(l, p, m) THEN "WE_ARE_TOXIC"
    ELSE "OPEN"

Verdict(l, p, m) ==
    IF RemoteDiffers(l, p, m) /\ m.oldestRemote > l.ctn[p] THEN "WE_ARE_TOXIC"
    ELSE IF LocalDiffers(l, p, m) \/ RemoteDiffers(l, p, m) THEN "FORCE_CLOSING"
    ELSE "OPEN"

(* on_channel_reestablish up to the point where it blocks.  A channel that is *)
(* not open any more drops the message.                                       *)
OnChannelReestablish(p) ==
    /\ Incoming(p, "channel_reestablish")
    /\ LET m == Head(net[p])
           l == log[p]
           state  == Verdict(l, p, m)
           result == IF state = "OPEN" THEN Reest("done", m.nextLocal, MustResend(l, p, m))
                                       ELSE BadReest
       IN  IF chanState[p] # "OPEN"
             THEN UNCHANGED <<chanState, reest, disk, peerState>>
             ELSE /\ chanState' = [chanState EXCEPT ![p] = state]
                  /\ reest' = [reest EXCEPT ![p] = result]
                  /\ disk' = IF state = "OPEN" THEN disk
                             ELSE [disk EXCEPT ![p] = Stored(l)]
                  /\ peerState' = IF state = "WE_ARE_TOXIC"
                                    THEN [peerState EXCEPT ![p] = "BAD"]
                                    ELSE peerState
    /\ net' = [net EXCEPT ![p] = Tail(@)]
    /\ UNCHANGED <<log, backup, up, sentReest, signed, reported, refused, used>>

(* The raw messages kept for ctns that the other does not have yet. *)
Replay(l, theirNext) ==
    LET KeptFor(c) == IF c \in DOMAIN l.unacked_updates /\ c >= theirNext
                        THEN l.unacked_updates[c] ELSE << >>
    IN  FlattenSeq([c \in 1 .. Max({0} \cup DOMAIN l.unacked_updates) |-> KeptFor(c)])

(* What is sent again: a revoke_and_ack that the other lacks keeps its place  *)
(* relative to the last commitment_signed.                                    *)
RevAck(l, p, resend) == IF resend THEN <<RevokeMsg(l.ctn[p] - 1)>> ELSE << >>

SentAgainRevokeFirst(l, p, r) ==    \* mutant: ignores was_revoke_last
    RevAck(l, p, r.resend) \o Replay(l, r.nextLocal)

SentAgainNoRevoke(l, p, r) ==       \* mutant: only our updates are replayed
    Replay(l, r.nextLocal)

SentAgain(l, p, r) ==
    LET revack == RevAck(l, p, r.resend)
        replay == Replay(l, r.nextLocal)
    IN  IF l.was_revoke_last THEN replay \o revack ELSE revack \o replay

(* The rest of reestablish_channel, which ends with maybe_update_fee. *)
FinishReestablish(p) ==
    /\ peerState[p] = "REESTABLISHING"
    /\ reest[p].state = "done"
    /\ LET s == [Begin(p) EXCEPT !.out = SentAgain(log[p], p, reest[p])]
       IN  \E t \in MaybeUpdateFee(p, {s}) : Perform(p, t, net[p])
    /\ peerState' = [peerState EXCEPT ![p] = "GOOD"]
    /\ UNCHANGED <<backup, up, chanState, sentReest, reest, refused, used>>

(* The exception of the future ends the connection, once p has sent its own. *)
AbortReestablish(p) ==
    /\ reest[p] = BadReest
    /\ sentReest[p]
    /\ DropTransport
    /\ UNCHANGED <<log, disk, backup, chanState, signed, reported, refused, used>>

-----------------------------------------------------------------------------
(*                              The environment                            *)

Use(event, max) ==
    /\ Left(event, max)
    /\ used' = [used EXCEPT ![event] = @ + 1]

Disconnect ==
    /\ up
    /\ Use("disconnects", MaxDisconnects)
    /\ DropTransport
    /\ UNCHANGED <<log, disk, backup, chanState, signed, reported, refused>>

(* The process of p ends, and starts again from a wallet file. *)
Restart(p, file) ==
    /\ log'  = [log EXCEPT ![p] = Load(file, p)]
    /\ disk' = [disk EXCEPT ![p] = file]
    /\ DropTransport
    /\ UNCHANGED <<backup, signed, refused>>

Crash(p) ==
    /\ Use("crashes", MaxCrashes)
    /\ Restart(p, disk[p])
    /\ UNCHANGED <<chanState, reported>>

(* The wallet is saved between two statements of a handler, each of which     *)
(* holds the lock of the database, and p crashes before the handler ends:     *)
(* after an update is in the log and before its raw message is, and between   *)
(* receiving a signature and revoking.  Only another thread saves it there,   *)
(* but for a settle, whose handler does (and which needs no crash inside the  *)
(* handler, see FulfillHtlc).                                                 *)
HalfDone(p) ==
    { SendCtx(l, p) : l \in {l \in {log[p]} : CanSign(p, l)} }
      \cup { AddHtlc(l, p, Amount[p]) :
               l \in {l \in {log[p]} : HtlcRoom(p) /\ SlotsLeft(l, p, p) # 0} }
      \cup { RemoveHtlc(log[p], kind, Other(p), id) :
               kind \in RemovalKind,
               id \in {id \in DOMAIN log[p].locked_in[Other(p)] :
                         /\ IsIrrevocablyAdded(log[p], Other(p), id)
                         /\ CanRemoveHtlc(log[p], Other(p), id)} }
      \cup { UpdateFee(l, p, rate) :
               l \in {l \in {log[p]} : p = Initiator /\ FeeRoom(l)},
               rate \in Feerates \ {Feerate(log[p], Other(p), CtnNext(log[p], Other(p)))} }
      \cup { RecvCtx(log[p], p) :
               m \in {m \in {Head(net[p]) : i \in 1..Len(net[p])} :
                        /\ m.type = "commitment_signed"
                        /\ CommitmentRefusal(p, m.ctx) = "none"} }

CrashInHandler(p) ==
    /\ CanUpdateCtx(p)
    /\ Use("midSaves", MaxMidSaves)
    /\ \E l \in HalfDone(p) : Restart(p, Stored(l))
    /\ UNCHANGED <<chanState, reported>>

(* A revocation may resolve several payments.  htlc_fulfilled saves the       *)
(* wallet when it marks an invoice as paid, and p crashes before the rest is  *)
(* reported: settles come first.                                              *)
CrashInReports(p) ==
    /\ CanUpdateCtx(p)
    /\ Use("midSaves", MaxMidSaves)
    /\ net[p] # << >> /\ Head(net[p]) = RevokeMsg(log[p].ctn[Other(p)])
    /\ LET s == ReceiveRevocation(p, Begin(p))
           settled == {r \in s.reports : r[2] = "settles"}
       IN  /\ \E told \in SUBSET s.reports :
                 /\ told \cap settled # {} /\ told # s.reports
                 /\ settled \subseteq told \/ told \subseteq settled
                 /\ reported' = [reported EXCEPT ![p] = @ \cup told]
           /\ Restart(p, s.disk)
    /\ UNCHANGED chanState

(* A copy is made of the wallet file, and used in its place later. *)
TakeBackup(p) ==
    /\ backup[p] = None
    /\ UpdateRoom(log[Initiator])
    /\ Left("restores", MaxRestores)
    /\ chanState[p] = "OPEN"
    /\ backup' = [backup EXCEPT ![p] = disk[p]]
    /\ UNCHANGED <<log, disk, net, up, peerState, chanState, sentReest, reest,
                   signed, reported, refused, used>>

RestoreBackup(p) ==
    /\ backup[p] # None
    /\ Use("restores", MaxRestores)
    /\ Restart(p, backup[p])
    /\ chanState' = [chanState EXCEPT ![p] = "OPEN"]
    /\ UNCHANGED reported

-----------------------------------------------------------------------------
Receive(p) ==
    \/ OnUpdateAddHtlc(p)
    \/ \E kind \in RemovalKind : OnUpdateRemoveHtlc(p, kind)
    \/ OnUpdateFee(p)
    \/ OnCommitmentSigned(p)
    \/ OnRevokeAndAck(p)
    \/ OnChannelReestablish(p)

Protocol(p) ==
    \/ Receive(p)
    \/ SendCommitment(p)
    \/ StartReestablish(p)
    \/ FinishReestablish(p)
    \/ AbortReestablish(p)

Wallet(p) ==
    \/ SendHtlc(p)
    \/ FulfillHtlc(p)
    \/ FailHtlc(p)
    \/ UpdateFeerate(p)
    \/ SaveDb(p)

Fault(p) ==
    \/ Crash(p)
    \/ CrashInHandler(p)
    \/ CrashInReports(p)
    \/ TakeBackup(p)
    \/ RestoreBackup(p)

Next ==
    \/ Connect
    \/ Disconnect
    \/ \E p \in Owner : Protocol(p) \/ Wallet(p) \/ Fault(p)

Spec == Init /\ [][Next]_vars

(* The message loop, the poll of htlc_switch, and the task that keeps peers  *)
(* connected and channels reestablished run for ever; so does htlc_switch    *)
(* for HTLCs that are to be fulfilled or failed.                             *)
Fairness ==
    /\ WF_vars(Connect)
    /\ \A p \in Owner : WF_vars(Protocol(p)) /\ WF_vars(FulfillHtlc(p) \/ FailHtlc(p))

FairSpec == Spec /\ Fairness

-----------------------------------------------------------------------------
(*                               Properties                                *)

(* The types of the variables. *)
TypeOK ==
    /\ \A p \in Owner : LogShape(log[p]) /\ LogShape(disk[p])
    /\ \A p \in Owner : backup[p] = None \/ LogShape(backup[p])
    /\ up \in BOOLEAN
    /\ peerState \in [Owner -> {"DISCONNECTED", "REESTABLISHING", "GOOD", "BAD"}]
    /\ chanState \in [Owner -> {"OPEN", "FORCE_CLOSING", "WE_ARE_TOXIC"}]
    /\ sentReest \in [Owner -> BOOLEAN]

(* Each party's log and wallet file keep what HTLCManager has on its own: the *)
(* handlers use its methods as they are meant to be used.                     *)
LogsAreSound ==
    \A p \in Owner :
        /\ LogInv(log[p])
        /\ StoredLogInv(disk[p])
        /\ backup[p] = None \/ StoredLogInv(backup[p])

(* "We need to be able to replay unacknowledged updates we sent to the       *)
(* remote in case of disconnections.  Hence, raw update and                  *)
(* commitment_signed messages are stored temporarily"                        *)
(* (store_local_update_raw_msg).  Lost(p): the messages that p will not send *)
(* (again) although its log has the update, or waits for the revocation, and *)
(* the other's log does not have it; or although it owes a revocation, which *)
(* only the handler of a commitment_signed sends for the first time.         *)
Lost(p) ==
    LET q    == Other(p)
        mine == log[p]
        its  == log[q]
        stored == UNION {Range(mine.unacked_updates[c]) : c \in DOMAIN mine.unacked_updates}
        adds == {AddMsg(id, mine.adds[p][id]) :
                   id \in DOMAIN mine.locked_in[p] \ DOMAIN its.locked_in[p]}
        removes == UNION {{RemoveMsg(k, id) :
                     id \in DOMAIN mine.removes[k][q] \ DOMAIN its.removes[k][q]} :
                       k \in RemovalKind}
        RateAt(l, i) == IF i \in DOMAIN l.fee_updates[p] THEN l.fee_updates[p][i].rate ELSE None
        fees == {FeeMsg(RateAt(mine, i)) :
                   i \in {i \in DOMAIN mine.fee_updates[p] : RateAt(mine, i) # RateAt(its, i)}}
        signatures == {CommitMsg(MakeCommitment(mine, p, q, n)) :
                   n \in {n \in {CtnLatest(mine, q)} :
                             mine.revack_pending[q] /\ n > CtnLatest(its, q)}}
        revocation == {RevokeMsg(n) : n \in {n \in {mine.ctn[p]} : mine.revack_pending[p]}}
    IN  (adds \cup removes \cup fees \cup signatures \cup revocation) \ stored

UpdatesCanBeReplayed == \A p \in Owner : Lost(p) = {}

(* A party drops, or raises an exception at, a message of the other only     *)
(* when a crash has made that one lose an update: otherwise, whatever        *)
(* disconnections and crashes there are, every commitment_signed covers the  *)
(* very ctx its receiver builds, although the two have handled different     *)
(* messages by then.                                                         *)
RefusedOnlyIfLost ==
    \A p \in Owner : refused[p] # {} => Lost(Other(p)) # {}

(* Nor does either close the channel at a channel_reestablish of the other.  *)
NeverClosed == chanState = [p \in Owner |-> "OPEN"]

(* "they could end up with two (or more) signed valid commitment             *)
(* transactions at the same ctn" (replay_updates_and_commitsig): they do not.*)
OneSignedCtxPerCtn ==
    \A p \in Owner : \A c, d \in signed[p] : c.ctn = d.ctn => c = d

(* What p believes of the ctxs of p and q never differs from what is so by   *)
(* more than messages in flight or lost can explain: the ctx of q that p     *)
(* last signed is at most one ahead of what q has and never behind, and p    *)
(* has never more revocations of q than q made.                              *)
CtnsAligned ==
    \A p \in Owner : LET q == Other(p) IN
        /\ CtnLatest(log[q], q) \in {CtnLatest(log[p], q), CtnLatest(log[p], q) - 1}
        /\ log[p].ctn[q] \in {log[q].ctn[q], log[q].ctn[q] - 1}

(* max_accepted_htlcs holds for the HTLCs that a party offers, in the next   *)
(* ctx of the other: "If proposer is LOCAL we apply stricter checks as that  *)
(* is behaviour we can control" (htlc_slots_left).                           *)
OffersWithinLimit ==
    \A p \in Owner : LET q == Other(p) IN
        Cardinality(HtlcsByProposer(log[p], q, CtnNext(log[p], q), p)) <= MaxAccepted

(* An HTLC that p fulfils, revealing the preimage, is in every ctx that      *)
(* either party could still publish or be held to.                           *)
FulfilledOnlyIfCommitted ==
    \A p \in Owner : LET q == Other(p) IN
        \A id \in DOMAIN log[p].removes["settles"][q] :
            /\ id \in DOMAIN log[q].locked_in[q]
            /\ \A o \in Owner : Reached(log[q].locked_in[q][id][o], CtnLatest(log[q], o))

(* When a wallet is told the outcome of a payment, the HTLC is in no ctx of  *)
(* either party that is not revoked, and never will be: the comment at       *)
(* sent_in_ctn says "we check only remote, because they are committed in the *)
(* local ctx first".                                                         *)
ReportedOnlyWhenGone ==
    \A p \in Owner : \A r \in reported[p] : \A x, o \in Owner :
        \A n \in log[x].ctn[o] .. CtnNext(log[x], o) :
            <<p, r[1]>> \notin Htlcs(log[x], o, n)

(* Every payment whose HTLC is gone for good has been reported, once and     *)
(* with one outcome; unless p crashed while it reported the payments that    *)
(* one revocation resolved, when it had saved that it received that.         *)
EveryRemovalReported ==
    \A p \in Owner : \A id \in DOMAIN log[p].adds[p] :
        LET Told(i) == Cardinality({r \in reported[p] : r[1] = i})
            Removal(i) == CtnOfRemoval(log[p], Other(p), p, i)
        IN  IsIrrevocablyRemoved(log[p], p, id) =>
              \/ Told(id) = 1
              \/ /\ Told(id) = 0 /\ used.midSaves > 0
                 /\ \E first \in DOMAIN log[p].adds[p] :
                       Told(first) = 1 /\ Removal(first) = Removal(id)

(* "which should contain a commitment_signed (due to is_revack_pending being *)
(* true)" (on_channel_reestablish): while we wait for a revocation, the      *)
(* signature that we wait for it to answer can be replayed; unless another   *)
(* thread saved the wallet between the two.                                  *)
CommitmentCanBeReplayed ==
    used.midSaves = 0 => \A p \in Owner : LET l == log[p] c == CtnLatest(l, Other(p)) IN
        l.revack_pending[Other(p)] =>
            /\ c \in DOMAIN l.unacked_updates
            /\ Last(l.unacked_updates[c]).type = "commitment_signed"

(* A party that restored an old copy of its wallet does not publish a ctx    *)
(* whose revocation secret the other has.                                    *)
NeverPublishesRevoked ==
    \A p \in Owner : chanState[p] = "FORCE_CLOSING" =>
        log[Other(p)].ctn[p] <= CtnLatest(log[p], p)

(* An HTLC once locked in by the party it was offered to stays so, until it  *)
(* is removed for good.                                                      *)
LockedInIsForGood ==
    [][\A p \in Owner : \A id \in DOMAIN log[p].locked_in[Other(p)] :
         IsIrrevocablyAdded(log[p], Other(p), id) =>
           /\ id \in DOMAIN log'[p].locked_in[Other(p)]
           /\ IsIrrevocablyAdded(log'[p], Other(p), id)]_log

(* The channel implements the ledger: a payment is offered once it is in the *)
(* log of the party that makes it, locked in once the other has it           *)
(* irrevocably, and resolved once the removal is irrevocable for its maker.  *)
PaymentState(p, id) ==
    LET q == Other(p)
        InLog(x) == id \in DOMAIN log[x].locked_in[p]
    IN  CASE InLog(p) /\ IsIrrevocablyRemoved(log[p], p, id) ->
               IF id \in DOMAIN log[p].removes["settles"][p] THEN "fulfilled" ELSE "failed"
          [] ~ InLog(p) /\ ~ InLog(q) -> "none"
          [] InLog(q) /\ IsIrrevocablyAdded(log[q], p, id) -> "locked"
          [] InLog(p) -> "offered"
          [] OTHER -> "none"

OutcomeOf == [settles |-> "fulfilled", fails |-> "failed"]

PaymentIds == 0..(Max({MaxHtlcs[p] : p \in Owner}) - 1)

Ledger == INSTANCE PaymentLedger WITH
            Party   <- Owner,
            Ids     <- PaymentIds,
            payment <- [p \in Owner |-> [id \in PaymentIds |-> PaymentState(p, id)]],
            told    <- [p \in Owner |-> {<<r[1], OutcomeOf[r[2]]>> : r \in reported[p]}]

ImplementsLedger == Ledger!LedgerSpec

(* In the end all updates are in the ctxs of both, and nobody waits; unless a *)
(* crash made a party lose an update, or it came back with an old copy.       *)
Settled ==
    /\ net = [p \in Owner |-> << >>]
    /\ \A p, o \in Owner :
         /\ ~ log[p].revack_pending[o]
         /\ ~ HasPendingChanges(log[p], o)
         /\ log[p].ctn[o] = log[o].ctn[o]
         /\ Htlcs(log[p], o, log[p].ctn[o]) = {}
EventuallySettled == <>[](Settled \/ ~ UpdatesCanBeReplayed \/ used.restores > 0)
=============================================================================

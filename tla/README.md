# A TLA+ model of Electrum-GRS

Electrum-GRS is a light wallet for Groestlcoin: an on-chain wallet that trusts
block headers and asks servers for the rest, and a Lightning node on top of it.
This directory holds TLA+ modules translated from its source, the TLC
configurations that check them, and TLAPS proofs about them. Paths below are
relative to `src/electrum_grs/`.

Modelled are the parts where a mistake costs money, or shows money that is not
there, and which tests reach least: the state machine of a Lightning channel, in
which two wallets exchange updates, signatures and revocations that cross each
other, get lost with the connection, and are interrupted by crashes; what is done
with received HTLCs, in sets that all peers share, when they are settled, failed
or forwarded; the wallet file, on which the restart after a crash relies; the
header chains, which several interfaces extend at once; the history of the
wallet, which it learns from a server that reorganises; and the batches of payments
and sweeps, which are replaced while older versions of them may be mined.

## 1. Inventory

| component | state it keeps | operations | hard behaviour | what makes it correct |
|---|---|---|---|---|
| **HTLC update log** `lnhtlc.py` | per owner: ctn, HTLCs added, the ctns at which they are locked in, settled, failed; fee updates; unacknowledged raw messages; a cache of ids that may still count | `send_x`/`recv_x` for add, settle, fail, fee, commitment, revocation; discard, store raw message; queries | updates of both sides interleave with commitments; ids are given again after a discard; the cache may lag | both sides assign each update to the same ctn; nothing irrevocable is undone; the cache hides nothing |
| **Channel and peer** `lnchannel.py`, `lnpeer.py` | the log, channel and peer state, revocation store, `channel_reestablish_msg` futures, ordered message queues | message handlers, `htlc_switch`, `maybe_send_commitment`, `reestablish_channel`, force-close | reordering between reestablishment and other messages, crash between save and send, replay, saves in the middle of a handler, by other threads or its own calls | no refused signature; one signed ctx per ctn; no money released for an HTLC that is not locked in; no revoked ctx published; payments are resolved |
| **Lightning wallet** `lnworker.py` | channels, payment sessions (`PaySession`, buckets), `received_mpp_htlcs`, `active_forwardings`, `forwarding_failures`, preimages, bundles | `update_or_create_mpp_with_received_htlc`, `maybe_forward_htlc_set`, `htlc_fulfilled/failed`, `pay_to_node`, tasks that keep channels connected | sets shared by all peers, timeouts against late parts, retries, a restart in the middle of settling a set | an invoice is paid in full or not at all; a failed set never settles; what is forwarded is covered by what was received |
| **Watching and sweeping** `lnwatcher.py`, `lnsweep.py` | on-chain state of each channel, sweep infos | `check_onchain_situation`, `sweep_commitment_transaction` | reorgs, breaches while offline, second-stage transactions | every output that is ours is swept in time |
| **Routing** `lnrouter.py`, `channel_db.py`, `mpp_split.py`, `trampoline.py` | gossip graph, liquidity hints | path finding, splitting | stale gossip | an edge is used within its limits; a split sums to the amount |
| **Transport, onion messages** `lntransport.py`, `onion_message.py` | handshake and cipher state; queues of requests | handshake, send/receive, retries | timeouts against late replies | order is kept |
| **Submarine swaps** `submarine_swaps.py` | `SwapData`, server offers | `hold_invoice_callback`, `_claim_swap`, `_fail_swap`, refund | lock times against confirmations, a funding that still waits in the batch, restart | either both legs happen or neither |
| **Wallet file** `json_db.py`, `stored_dict.py`, `storage.py`, `wallet_db.py` | a tree of dictionaries and stored objects, pending patches, `_modified`; the file, its expected size, whether it is encrypted | set/remove/add, `write`, `append`, `maybe_load_incomplete_data`, consolidation, change of password | crash in the middle of an append; saves by other threads; patches of detached objects; writes that raise | what is read back was in memory at some moment since the last completed write; the file can be opened |
| **History** `wallet.py`, `address_synchronizer.py` | histories, transactions, verified/unverified heights, spent outpoints, labels | `add_transaction`, `remove_transaction`, `receive_history_callback`, `undo_verifications` | conflicting transactions, reorgs | balances and conflicts agree with the transactions kept |
| **Synchronisation** `synchronizer.py`, `verifier.py` | subscriptions, requests in flight | status notifications, history and proof requests | answers that are stale after a reorg | `is_up_to_date` only when it is |
| **Header chains and servers** `blockchain.py`, `interface.py` | header files, forkpoints, parents; per interface its chain, its tip, a cache of headers | `save_header`, `save_chunk`, `fork`, `swap_with_parent`, `read_blockchains`; `step`, search backwards, binary search, fast-forward | forks that overtake, several servers at once, servers that reorganise during a search, a crash between the two writes of a swap | headers connect; each is held by one file; the root is the strongest; an interface follows its server |
| **Network** `network.py` etc. | interfaces, the main one | switching, reconnecting | servers that lag or lie | follows the best chain known |
| **Transaction batching** `txbatcher.py` (with `coinchooser.py`, `transaction.py`) | batches, payments and sweeps queued | `add_payment_output`, `find_base_tx`, `run_iteration` | replacement against confirmation of an older version | each payment is in exactly one confirmed transaction |
| keys and cryptography; invoices; daemon, commands, configuration; user interfaces, hardware wallets and plugins; vendored code | | | | not state machines of interest, or not ours |

How the components interact. The peer's handlers run on one asyncio thread and run
to completion except where they `await` (in a channel: only reestablishment).
They call the methods of the channel, which call those of the log under the
database's lock. Each change of the log is a patch of the wallet file, written to
disk by `save_channel` -- and by any other save of the wallet, from the GUI's thread or
by a call within the handler (`save_preimage`, `set_invoice_status`). The channel reports to the Lightning wallet (`htlc_fulfilled`,
`htlc_failed`), which resolves payments and forwards. `htlc_switch` polls the
channels of a peer, several times a second, to sign pending updates and to fulfil
or fail HTLCs. A task of the Lightning wallet reconnects peers and reestablishes
channels. On-chain, the watcher sees the address history that the synchroniser
and the verifier keep, above the header chain that the interfaces maintain.

## 2. Modules

    HTLCLog ------ HTLCManager ------ MCHTLCManager
       |                |
       |           HTLCManagerProofs --- HTLCLogProofs
       |                |                    |
       |                +--------------------|----------- Recursion
       |                                     |               |
    LNChannel ---------------------- LNChannelProofs --------+
       |  \                                                  |
       |   PaymentLedger  (LNChannel implements it)          |
    MCLNChannel                                              |
                                                             |
    HTLCSwitch --- HTLCSwitchProofs -------------------------+
        |                                                    |
    MCHTLCSwitch                                             |
                                                             |
    WalletSync --- WalletSyncProofs -------------------------+
        |
    MCWalletSync

    HeaderChains --- HeaderChainsProofs ---------------------+
        |
    MCHeaderChains

    TxBatcher ------ MCTxBatcher

    StoredTree --- WalletFile --- MCWalletFile
                    |      \
                    |       DurableMap  (WalletFile implements it)
                    WalletFileProofs --- Recursion

Where one module needs another it takes its result for granted: `HTLCSwitch` an
HTLC that has been added irrevocably and can be settled or failed (`LNChannel`),
both a save that is atomic (`WalletFile`), `WalletSync` a chain of headers that is
the server's after a while, in objects that keep their headers (`HeaderChains`),
`TxBatcher` histories that are the server's after a while (`WalletSync`).

### The channel

**HTLCLog** is the data type: a record with the fields of `HTLCManager.log` and its
two caches, and one operator per method. The source writes methods in pairs
(`send_htlc`, `recv_htlc`); as the log is indexed by owner, a pair is one operator
that takes the owner it acts for.

| operator | source |
|---|---|
| `NewLog`, `Load`, `Stored` | `__init__` and template, `channel_open_finished`, `_init_maybe_active_htlc_ids` |
| `CtnLatest`, `CtnNext` | `ctn_latest`, `get_next_ctn` |
| `IsActiveAt`, `Htlcs`, `HtlcsByProposer` | `is_htlc_active_at_ctn`, `htlcs`, `htlcs_by_direction` |
| `IsIrrevocablyAdded`, `IsIrrevocablyRemoved` | the two methods of that name |
| `RemovedExactlyAt` | `_get_htlcs_that_got_removed_exactly_at_ctn` (`sent_in_ctn`, `failed_in_ctn`) |
| `BalanceDelta`, `Feerate` | `get_balance_msat` (relative to the opening), `get_feerate` with its binary search |
| `AddHtlc`, `CanRemoveHtlc`/`RemoveHtlc`, `UpdateFee` | send/recv of htlc, settle, fail, update_fee |
| `SendCtx`, `RecvCtx`, `SendRev`, `RecvRev` | `send_ctx` ... `recv_rev`, with `UpdateMaybeActive` at the end |
| `DiscardUnsignedRemoteUpdates`, `StoreRawMsg` | the two methods of that name |

The module ends with the named parts of the log's invariant, `LogInv`.

**HTLCManager** is the class on its own: one variable, the log, and one action per
method, guarded by the method's assertions and the checks `lnchannel.py` makes in
front of it. There is no peer: revocations may come unasked, discards and reloads
at any time. What holds here holds whatever the other party sends.

**LNChannel** is a channel between two parties that both run this code. A handler
is one action. Since a handler is a sequence of statements, some of which choose
(has `MIN_TIME_BETWEEN_SENDING_COMMITSIGS` passed?), its statements are operators
from sets of *steps* to sets of steps; a step holds the party's log, its wallet
file, what it has sent, and what it has reported. `Perform` turns a step into
primed variables. Where a handler saves before it is through (`FulfillHtlc`: the settle
is in the log, `SavePreimage` saves, then `SendUpdate` stores the raw message), the step
holds in its file what was saved then, which a later `Crash` comes back with.

| action | source |
|---|---|
| `SendHtlc`, `FulfillHtlc`, `FailHtlc` | `Peer.send_htlc`, `_fulfill_htlc_set` and `_fulfill_htlc` with `settle_htlc` and `save_preimage`, `_fail_htlc_set` and `fail_htlc`/`fail_malformed_htlc` |
| `SendCommitment`, `UpdateFeerate` | the poll of `htlc_switch`, `on_event_fee` |
| `OnUpdateAddHtlc` ... `OnRevokeAndAck` | the `on_...` handler with the `Channel.receive_...` method it calls |
| `StartReestablish`, `OnChannelReestablish`, `FinishReestablish`, `AbortReestablish` | `reestablish_channel` up to its `await`, the handler up to its own, the rest of the former, and its exception |
| `Connect`, `Disconnect` | `reestablish_peers_and_channels`, `peer_closed` |
| `Crash`, `SaveDb` | a restart from what was last saved; any other save |
| `CrashInHandler` | a restart from a file that was saved in the middle of a handler: by another thread, or, of a settle, by the handler itself |
| `CrashInReports` | a restart from the file that `htlc_fulfilled` saved (`set_invoice_status`) when only some of the payments that a revocation resolved were reported |
| `TakeBackup`, `RestoreBackup` | an old copy of the wallet file put in place of the new one |

A handler that raises ends the connection and leaves the reason in `refused`; so
does a message dropped as an "illegal action". `signed` and `reported` record
every signed ctx and every payment outcome the wallet was told; no action reads
them.

**PaymentLedger** is what a channel promises: a payment is offered, perhaps lost
again, locked in, then fulfilled or failed for ever, and its maker is told in the
very step that makes the outcome final. `LNChannel!ImplementsLedger` is the
refinement.

What is abstracted in the channel: amounts are small numbers and the amount a party can afford is
not checked (balances are relative to the channel's opening); a signature stands
for the ctx that it covers; the secret of a ctx for its number (both parties are
honest, so a claimed secret is right); onions, expiries and payment hashes are left
out, and whether an HTLC is fulfilled or failed is open. Delays are open. Not
modelled: opening, shutdown and cooperative close (`SHUTDOWN`, and with it
`set_can_send_ctx_updates`), `channel_ready` and announcements, zero-conf, the
on-chain part of a force-close. That a save is atomic and that what was saved is
read back is taken for granted here; it is what the next modules are about.

### The wallet file

**StoredTree** is the database in memory: a `StoredDict` of stored objects, and the
patches that `JsonDB` records. An object has a key and a parent of its own
(`place`), from which the path of its patches is built; that this agrees with where
the object is (`slot`) is a matter of proof. `StoredObject.__setattr__` first adds
the patch and then assigns, without a lock, so it is two operators.

**WalletFile** adds `WalletStorage`, the file, and the process that has it open.

| operator or action | source |
|---|---|
| `Content`, `AddPatch`, `PutNothing` | `JsonDB.dump`, `add_patch`, `put` |
| `SetItem`, `DelItem`, `Clear` | `StoredDict.__setitem__`; `__delitem__` and `pop`; `dict.clear`, which is inherited |
| `ChangeItem`; `StartSetAttr`, `FinishSetAttr` | changes of a nested dictionary or list; `StoredObject.__setattr__` |
| `Loaded` | `load_data` with `maybe_load_incomplete_data` |
| `Save`, `SaveRaises` | `JsonDB.write`: `WriteAll` is `write_and_force_consolidation` with `WalletStorage.write`, `AppendPending` is `_append_pending_changes` with `append`, `ShouldWriteAll` is `should_do_full_write_next` |
| `StartUpdatePassword`, `EndUpdatePassword` | `update_password` up to `set_password`, and from there on |
| `Exit`, `ExitInAppend` | a process that ends, perhaps while it appends |
| `Create`, `Open` | `WalletStorage.__init__` and `JsonDB.__init__`, with the rewriting of a file in which patches were found |

The constant `Cases` says which hard cases an instance includes: steps of other
threads between two statements (`threads`), the callers of `dict.clear` that do not
set `_modified` (`clear`) and the one that does (`history`), appends that a crash
cuts in a patch (`cut`) or in a separator (`comma`), full writes that raise
(`noSpace`); `history` and `noSpace` are of processes that write in full. Whether a
process does (`partial`) is chosen from `Modes` when it opens or creates the file:
the setting is read then, and may change from one session to the next.
`KeepReplaced` says whether somebody goes on changing an object after
another has taken its place. Section 5 says what fails in which case; the
passing runs and the theorems say what holds without it, or in spite of it.

**DurableMap** is what the file promises: a map that changes in memory, and that
after a stop is what it was at some moment no earlier than the last completed save.
The history variable `since` of `WalletFile` holds these moments; no action reads
it.

What is abstracted in the wallet file: there is one dictionary, and one field per
object; a patch has size 1 and a full content `BaseSize`; the content of a file is
the base and the list of patches, of which the last, or one that was appended
behind, may be cut in the patch itself or in the separator (the code tells no more
apart: it counts braces). A full write is one step because `os.replace` is; that
the directory entry is not synced is left out, and so is a full content that was
itself incomplete. Changes whose value does not serialise are dropped with an error
in the log (`PutNothing` covers their effect). Upgrades of old wallet versions,
`wallet_db`'s conversion of values, and the warning about saves from a daemon thread
are left out. Encryption is a flag: the file is read with the right password.

### Received HTLCs

**HTLCSwitch** is what happens to an HTLC between its irrevocable addition and its
settlement or failure. The `htlc_switch` of a peer runs an iteration that no other
task interrupts, but the process may end in it and find in the file what one of its
calls has saved; so each step of an iteration is an action, and `job` is what is
left of it. `sc` is the scenario, one of the constant `Scenarios`, chosen in `Init`:
which HTLCs are sent for which payments, and of what kind these are (an invoice of
our own, paid in parts or not, a hold invoice, a swap with its prepayment, parts of
a trampoline payment to us, an HTLC for the next hop, trampoline forwarding).
`store` is what the wallet file keeps, `disk` its last saved copy, `mem` what a
restart forgets (tasks, bundles, sessions, the batcher's queue, reasons of
failures), `conn` the state of each peer, `env` time and chain. The histories
`doomed`, `revealed`, `again` and `mem.raised` are read by properties only.

| action | source |
|---|---|
| `StartIteration`, `Collect`, `Refuse`, `RefuseRaises` | the first loop of `_run_htlc_switch_iteration`, `_check_unfulfilled_htlc`, `update_or_create_mpp_with_received_htlc`, `fail_htlc` |
| `SetWaits`, `SetMoves`, `SetFails`, `SetCalls`, `SetSettles`, `SettleRaises` | the second loop: `_check_unfulfilled_htlc_set` (`Verdict`), `_check_final_mpp_set_state` (`FinalVerdict`), `_fail_htlc_set`, `_fulfill_htlc_set`; a payment of parts moves to the set of its invoice; callbacks and forwardings become tasks |
| `RunForward`, `SessionSends`, `SessionFails` | `maybe_forward_htlc_set`, `_maybe_forward_htlc`, `_maybe_forward_trampoline` with `pay_to_node`; they end with an `OnionRoutingFailure`, which is recorded |
| `ForwardRaises` | any other exception out of these: nothing is recorded |
| `DownstreamFulfills`, `DownstreamFulfilled`, `DownstreamFails`, `DownstreamFailed` | `receive_htlc_settle`, `htlc_fulfilled`, `receive_fail_htlc`, `htlc_failed` |
| `RunHold`, `Fund`, `Spend`, `Reveal`, `FailSwap`, `CancelHold` | `hold_invoice_callback`, the batch that pays it, the claim or refund, `_claim_swap` and `settle_hold_invoice`, `_fail_swap`, `cancel_hold_invoice` |
| `Arrive`, `Connect`, `Disconnect`, `SaveDb`, `Crash` | an HTLC that is irrevocably added; connections; any other save; a restart from `disk` |
| `Elapse`, `Expire`, `Blocks`, `LocktimePasses`, `TipChanges` | `MPP_EXPIRY`, the expiry of invoices, blocks, the swap's locktime, `is_stale` |

### Header chains

**HeaderChains** is `blockchain.py` and the part of `interface.py` that follows a
server. `bc` holds the `Blockchain` objects (`chain`), the dictionary of them in its
order (`order`, which decides which chain is found first), and the files (`file`);
`iface` per server the chain, the tip, and what it has announced and was not looked
at; `lock` is `network.bhi_lock`, with the search that its holder is in; `tip` is
the server's chain, that may change at any time.

| operator or action | source |
|---|---|
| `Header`, `HashAt`, `HasHeader`, `Connects`, `LastCommon` | `read_header`, `get_hash`, `check_header`, `can_connect`, `get_height_of_last_common_block_with_chain` |
| `SaveHeader`, `SaveChunk`, `Fork` | the methods of that name, `connect_chunk` |
| `SwapWithParent` | `swap_with_parent`, `_swap_with_parent`, of which `SwapFirstWrite` and `SwapSecondWrite` are the two writes |
| `LoadChain`, `LoadOrders` | `read_blockchains`, in any order of files of the same forkpoint |
| `TakeHeader`, `StartSync` | the queue of `run_fetch_blocks` and `_process_header_at_tip` |
| `Step`, `Backward`, `Binary`, `FastForward` | `step`, `_search_headers_backwards`, `_search_headers_binary` with `_resolve_potential_chain_fork_given_forkpoint`, `_fast_forward` |
| `Connect`, `Disconnect`, `Restart`, `CrashInSwap`, `ServerMoves` | a connection made or lost, a restart, one between the two writes of a swap, another chain of the server |

Each request of a search is answered in a step of its own, from the chain that the
server then has; the headers that come along are cached as in the code.

Assumed of the constants are, besides types, that there are finitely many headers and
all come from the genesis (`BlocksLinked`), that a chunk has two headers or more
(`ChunksHaveHeaders`), and that what stands for a missing file is not a list of headers
(`NoFileIsNone`).

### Synchronisation

**WalletSync** is `synchronizer.py`, `verifier.py`, and what
`address_synchronizer.py` does with what they bring. `server` has a chain, a mempool
and subscriptions; `wire` holds requests (answered in order) and what is on its way
back; `wallet` histories, transactions, the spenders of coins, heights unverified
and verified; `sync` and `spv` the state of the two tasks; `net` the chain that the
network follows and the headers announced but not yet connected.

| action | source |
|---|---|
| `TakeStatus`, `TakeHistory`, `StaleTimeout` | `_on_address_status` before and after its `await`, with `receive_history_callback` (`ReceiveHistory`); the timeout of `disconnect_if_still_stale` |
| `TakeTx` | `_get_transaction` with `add_transaction`; `Refused` and `RemoveTransactions` are its treatment of conflicts |
| `TakeHeader`, `Follow` | a header announced, and taken into the chain (`HeaderChains`) |
| `Poll`, `TakeProof`, `Verify` | `SPV._main`: `_maybe_undo_verifications` with `undo_verifications`, `_request_proofs`; `_request_and_verify_single_proof` up to and behind its `await`; `add_verified_tx` |
| `Connect`, `Disconnect`, `Restart` | the tasks start again; `_reset`, `on_blockchain_updated`; load with `check_history` |
| `ServerMoves`, `ServerAnswers` | the server, external |

The constant `Rare` names four cases in which a property is known to fail: an
address gets a history back that it had before (`return`), the lock on the header
chains is contended (`contended`), the network has changed to a chain that was
already followed (`synced`), it changes its chain twice before the verifier looks
(`swung`). Section 5 says what happens in each.

Assumed of the constants are, besides types, that every block comes from the genesis
(`BlocksLinked`), that an object has no two blocks on different branches
(`ObjectsAreBranches`, which is what an object of `blockchain.py` is), and that there
are finitely many addresses, transactions and blocks.

### Batches

**TxBatcher** is a `TxBatch` of `txbatcher.py`, with what it relies on: the choice
of inputs and of the change address (`wallet.py`, `coinchooser.py`), and which
transactions the wallet keeps (`address_synchronizer.py`). `txs` is the list of all
transactions made; one has inputs, payments, one change output and a version, and
its position in the list stands for its txid and for its change. `batch` has the fields of the class,
`job` is `run_iteration` where it awaits, `wallet` says which transactions the wallet
has and whether it takes them for local, unconfirmed or mined. `net` is external: what was ever broadcast, what
is in the mempool and in the chain, and what the wallet has not heard of yet.

| operator or action | source |
|---|---|
| `AddLocal`, `RemoveTransaction`, `Synced` | `add_transaction`, `remove_transaction`, `receive_history_callback` with the transactions that come with it |
| `Spendable`, `Candidates`, `Selections` | `get_spendable_coins`; the coin chooser: mined coins first, any minimal choice |
| `ParentCoins`, `UnusedAddress` | `_create_inputs_from_tx_change`, `_get_change_addresses_we_can_use_now` |
| `ToPayAfter`, `ToSweepAfter`, `StartNewBatch`, `NewBaseTx`, `FindBase` | the methods of these names |
| `AddPayment`, `AddSweep` | `add_payment_output`, `add_sweep_input` |
| `StartIteration`, `Rebroadcasted`, `Signed`, `NotSigned`, `Accepted`, `Refused` | `run_iteration` from one `await` to the next: `find_base_tx` with its rebroadcast, `create_next_transaction` (`CreateNextTransaction`) with a fee that is raised, the password, the broadcast; the end of an iteration that leaves nothing to do deletes the batch |
| `Restart` | what of a batch is persisted, and what is deleted at the start |
| `Sync`, `UserBumps` | the wallet hears from the server; `bump_fee` |
| `Mine`, `Evict`, `Reorg` | the network |

Fees are not modelled; that one is raised makes another version of a transaction,
and that one is not enough is an iteration `Refused` though it would be acceptable.
`happened` records what may lose payments or what the batch builds on; only
properties read it. `Cases` has two: the broadcast of a replacement is said to have
failed though it has not (`unsure`; of a first version it always may), and an
iteration begins before the wallet has heard of the last broadcast (`slow`: iterations are a second
apart).

## 3. Runs

All with TLC, breadth first, complete within the bounds. `None`, parties, peers,
HTLCs, keys and servers are model values. Symmetry is used in `Headers` only, of the
two servers, and no liveness is checked there: the parties of a channel differ (one
funds), so do peers and keys in the scenarios.

| run | bounds | states | shows |
|---|---|---|---|
| `HTLCManager` | 4 ctns; 1 HTLC each way, or no HTLC and 2 feerates in a log of 3 updates (`Unmixed`) | 104k | cache, balance, irrevocability in every order of calls; the binary search finds the last feerate in force |
| `ChannelCrossed` | 2 updates, each an HTLC of either party or a change of the feerate, with 1 fault: a crash, or a crash in the middle of a handler | 526k | messages are refused only if a crash made the other lose an update, the channel stays open, one signed ctx per ctn, outcomes reported in time, locked in is for good, the ledger is implemented |
| `ChannelLive` | 1 HTLC, 1 old copy of a wallet; 2 faults of: a disconnection, a crash, a restored backup | 91k | everything settles, unless an update was lost or a backup restored; no revoked ctx is published, the logs stay sound |
| `LostFulfill` | 1 HTLC, 1 crash | violation | finding 1 |
| `WalletFile` | both settings of partial writes, changing from one process to the next; 2 names, 2 objects, 2 values, 2 pending patches, 2 patches in the file; cases `history`, `noSpace` | 558k | the file is a durable map, can be opened, is up to date with the pending patches |
| `Switch` | 7 scenarios of 1 to 3 HTLCs over 2 peers, 2 downstream attempts; 2 faults, at most 1 a restart | 1.05M | failed sets never settle, invoices are paid in full, forwardings and swaps are covered, no HTLC is forwarded twice, bundles start complete |
| `SwitchLive` | 6 scenarios (a user may hold an invoice for ever), 1 fault, no restart | 32k | every HTLC is resolved, unless its forwarding ended with an exception that is not caught; every paid one is collected |
| `Headers` | 2 servers, 8 headers in 4 branches, chunks of 3, 1 announcement waiting, 1 restart or lost connection | 193k | chains connect, none becomes stronger than what it forks from, each header is held once, what is common is common, interfaces follow, objects keep headers |
| `WalletSync` | 2 addresses, 3 transactions (two conflict, one spends another), 9 blocks in 5 chains, 2 changes of the server, 1 fault | 279k | up to date is true, heights and conflicts are right, what is verified is on the chain, up to date in the end |
| `ForkSwitch` | the same, with case `synced` | violation | finding 2 |
| `TxBatcher` | 2 coins, 1 sweep, 2 payments, 1 event of: a fee raised, a broadcast or a password refused, an eviction, a restart, a reorganisation; case `unsure` | 316k | transactions that pay the same exclude each other; everything asked for is done |
| `PaidTwice` | the same without the sweep, any history | violation | finding 3 |

Why the bounds are enough to be of interest. Ctns are not bounded in `LNChannel`:
they follow from the number of updates. One HTLC passes six commitments and
revocations in each direction (add and remove, each in two ctxs), and each can
cross those of the other party's HTLC; a fault can strike between any two of them.
Two HTLCs of one party are needed for batching and for a slot that is freed; two
in each direction do not add a kind of message order. The cache's margin of one
ctn is passed in all of these runs. `MaxUpdates` bounds HTLCs, changes of the feerate
and copies of the file together, `MaxFaults` faults of all kinds, so that a run can have
any of several without having all. `ChannelCrossed` needs no `Disconnect`: a party that
crashes with its wallet just saved (`SaveDb`, `Crash`) comes back with the log it had and
loses the connection, which is what a disconnection leaves behind. Disconnections as such,
also together with a crash or a restored backup, are in `ChannelLive`. `Unmixed` is a state constraint of `MCHTLCManager` to the same end; no liveness
property is checked under it.

In `WalletFile` the number of sessions, crashes, saves and changes of password is
not bounded. `MaxPending` bounds the changes between two writes (two are enough for
a patch that depends on another, such as a removal after an addition, and for an
append that a crash divides), `MaxTail` the patches in the file. `BaseSize` is small
compared with `MaxTail`, so that partial writes reach the size at which the next is
a full one. One object in the dictionary, one that is replaced or removed and then
stored again under another name: two names and two objects suffice for that.

In `HTLCSwitch` a set needs two HTLCs of different peers to be resolved in parts,
and a third, late or refused, to meet a set that is already decided; a second
attempt downstream is the first retry. Two faults are, for instance, a disconnection
that makes one peer miss the decision, and the restart that follows. Iterations
are not bounded, nor how often tips are found to be fresh again.

In `HeaderChains` eight headers give branches that leave the genesis, one that
leaves a branch, and lengths that let a child overtake its parent after that has
overtaken the root: the loop of `swap_with_parent` runs twice. `ChunkSize` 3 and
`FarFromTip` 0 make catching up by chunks and by single headers both happen, with
forkpoints inside of a chunk. `MaxQueued` bounds what a server announces while its
interface is searching.

In `WalletSync` two changes of the server are a payment and the reorganisation that
undoes it, moves it to another height, leaves it at the same, or has it replaced by
the transaction that conflicts with it, while everything that the first has caused
is still under way. With two changes the network cannot return to a chain that it left,
so that `swung` makes no difference in these runs; with three it does.

In `TxBatcher` a second coin is what a payment could be made with that is not a child
of the first, and a second payment what a newer version does and an older one does
not. The amounts let one coin, or the sweep with its change, be enough or not. Which
versions are mined, and when the wallet hears of it, is not bounded by `MaxEvents`,
nor is the refusal of a version that cannot be mined any more. `ReorgProof` also holds
with two events, with three payments and no sweep, and there with an event and `slow`,
as long as none of what it excepts has happened (checked with that as a state
constraint, and not kept as runs).

The `TypeOK` of `LNChannel`, `HTLCSwitch`, `HeaderChains` and `WalletSync` holds on the
instances of these runs too, and is not checked again in each of them.

Deadlock is not checked (`CHECK_DEADLOCK FALSE`) in the runs of `LNChannel`,
`HTLCSwitch`, `HeaderChains`, `WalletSync` and `TxBatcher`: with no payment to make, nothing
announced and no fault left they have nothing to do. That they stop only then is
what the liveness properties say, and for `HeaderChains`, of which none is checked,
`FollowsItsServer`. The runs of `WalletFile` check that there is always a step, and
so that opening a wallet is never impossible.

## 4. Fairness

`ChannelLive` assumes weak fairness of reconnecting
(`reestablish_peers_and_channels` loops for ever), of the protocol's own steps (the
message loop and the poll of `htlc_switch` do), and of fulfilling or failing a
locked-in HTLC (`SwitchLive` is about that; `EventuallySettled` is for behaviours in which
no update was lost, finding 1, and no backup restored). Sending payments, changing fees, saving
and faults are not fair.

`SwitchLive` assumes weak fairness of an iteration that has begun (`JobNext`), strong
fairness of beginning one for each peer (the polls of the peers take turns; while
one runs the others are disabled), and strong fairness of `Progress`: a peer
reconnects, a task that was created runs, the downstream peer or the chain resolves
an HTLC or a funding, time passes, a stale tip is replaced. Each of these happens
finitely often, so that one condition for all is as good as one for each. New HTLCs,
saves and faults are not fair, nor that a forwarding raises an exception that is not
caught (`ForwardRaises`); nor is the user, whence the hold invoice is left out. An HTLC
whose forwarding raised with nothing left downstream is excepted (`Stuck`, section 5).

`WalletSync` assumes weak fairness of `Work` (the server answers, messages arrive,
tasks run, each in the order of its queue), of `Connect` (the network looks for
servers for ever), and of `StaleTimeout` (a timer). The server changes finitely often.

`TxBatcher` assumes weak fairness of `Iterate` (`TxBatch.run` loops every second until
the batch is done; the user gives the password in the end), of `Sync`, of `MineSome`
(something in the mempool is mined in the end: not a given transaction, as it may be
replaced), and of `SweepAgain` (the watcher and the swap manager ask for a sweep at
each block until it is done).

## 5. Findings

The violations that are kept as runs:

1. *A settle that is never sent* (`LostFulfill`). `settle_htlc` puts the settle into the
   log and then calls `save_preimage`, which saves the wallet (`lnchannel.py:1730`,
   `lnworker.py:2843`). The raw `update_fulfill_htlc` is stored only after that, by
   `send_message` (`lnpeer.py:2315`), which does not save. If the process ends before the
   next save, the file has the settle and not the message: after the restart the HTLC
   counts as settled (`lnpeer.py:2306` drops it from its set), nothing is there to
   replay, and the party's next `commitment_signed` is for a ctx without the HTLC, while
   the other has it in. The other refuses it, at each attempt, until the HTLC times out
   and the channel is closed on the chain. The docstring of `store_local_update_raw_msg`
   (`lnhtlc.py:274`), "We need to be able to replay unacknowledged updates we sent to the
   remote in case of disconnections", and the comment at `lnpeer.py:1708`, "We replay the
   local updates even if they were not yet committed", say otherwise. `Lost(p)` is what a
   party will never send although its log has it; that no other crash or disconnection
   gets a message refused, or a channel stuck, is `RefusedOnlyIfLost` and
   `EventuallySettled`, and that no money is at risk by it `FulfilledOnlyIfCommitted` and
   `ImplementsLedger`. An HTLC whose preimage was public before (another HTLC with the
   same hash) is not affected: `save_preimage` then returns early.
2. *A verification of the fork that was left* (`ForkSwitch`). When the main server
   changes, `_set_interface` restarts the verifier, whose `main` begins with
   `self.blockchain = self.network.blockchain()` (`verifier.py:70`). If the new
   server follows another fork, that was known already,
   `_maybe_undo_verifications` compares the new chain with itself and undoes
   nothing, though `switch_unwanted_fork_interface` changes forks on purpose. Most
   transactions are put right by the status of their address; one that is at the
   same height on both forks is not, as the comment in `undo_verifications` says
   itself. It stays verified by a header of the old fork, in the wallet file too.
   What the model shows is the small case: verified in block 1 of one fork, and in
   block 1 of the other.
3. *A payment made twice* (`PaidTwice`). The header of `txbatcher.py` promises "that we
   do not send a payment twice", and explains for which reorganisation: tx1(o1) was
   mined, tx2(tx1|o2) broadcast, then a chain with tx1'(o1,o2) becomes the best. tx2 being
   a child of tx1, it is gone with it. But the code then goes on: o2 is still in
   `batch_payments`, nothing spends `_prevout` any more, so there is no base and all
   payments are to be made; their inputs are what is at the change address of tx1
   (`_create_inputs_from_tx_change`), which tx1' has too. The new transaction is a
   child of tx1' and pays o2 again.

What was found with TLC and is not kept as a run. Each can be reproduced by a cfg
that differs from the one named as said.

*The channel* (from `ChannelCrossed`):

- *Replay order*: `RefusedOnlyIfLost`, `MaxAccepted` 1, `MaxHtlcs <- MCTwoFromAlice`,
  `MaxDisconnects` 1 and no crash. `reestablish_channel` replays the lost `revoke_and_ack` last if it
  was sent after the last `commitment_signed`, "without loss of generality". But
  the updates that are replayed include those not yet committed, sent after the
  revocation. One that relies on it (an HTLC in the slot it frees) reaches the other
  before it and is refused, at each attempt.
- *Save by another thread*: `UpdatesCanBeReplayed`, `MaxCrashes` 0, `MaxMidSaves` 1. The
  log is changed (`hm.send_htlc`, `hm.send_ctx` and the like) and the raw message stored
  under the database's lock one after the other, so that what finding 1 says of a settle
  may happen to any update or `commitment_signed` if the GUI's thread saves in between.
  After a crash the channel waits for a revocation and has no `commitment_signed` to
  replay, contrary to the comment in `on_channel_reestablish`; `CommitmentCanBeReplayed`
  is stated for behaviours without such a save. A signature that was received, in the
  file, and not yet answered is not answered after a restart either (`Lost`).
- *A payment that is not reported* (`EveryRemovalReported` without its second case,
  `MCTwoFromAlice`, `MaxMidSaves` 1). A revocation may resolve several payments.
  `htlc_fulfilled` of the first saves the wallet (`set_invoice_status`, `lnworker.py:3190`),
  the revocation included; if the process ends then, the others are not reported, and
  after the restart nothing looks for them: they stay pending. *Reported* means that
  `htlc_fulfilled` or `htlc_failed` was called in the life of the wallet, not that what
  they did of it is on disk.
- *Negative slots*: `OffersWithinLimit`, `MaxAccepted` 1, `MCTwoAndOne`, `MaxUpdates`
  3, no fault. The strict count of slots may go below zero when HTLCs cross, and the
  test is `== 0`: the party offers more than `max_accepted_htlcs`.

*The wallet file*:

- *Clearing*: `NothingSavedIsLost`, `Modes` {FALSE}, case `clear`. `dict.clear` is not
  overridden in `StoredDict` and neither `clear_invoices` nor `clear_requests` is a
  `@modifier`, so that their `save_db` writes nothing if nothing else has changed.
  With partial writes, no patch is recorded either.
- *Cut in a separator*: `CanBeOpened`, `Modes` {TRUE}, case `comma`.
  `maybe_load_incomplete_data` looks for an open brace. If the crash has cut in
  `,\n` there is none, and the wallet cannot be opened. Partial writes are off by
  default and described as experimental (`WALLET_PARTIAL_WRITES`).
- *Other threads*: case `threads`. `StoredObject.__setattr__` adds the patch, which
  sets `_modified`, and then assigns, not under the lock. A save by another thread
  in between writes the old value and unsets `_modified`; the save that follows the
  assignment has nothing to do (`NothingSavedIsLost`). And between `set_password`
  and the rewriting of the file `is_encrypted()` is already false, so that a partial
  write by another thread appends to an encrypted file (`AppendsOnlyToPlain`).
- *The first patch*: case `cut`. If the patch that a crash has cut is the first in the
  file, what is left of the file has no patches; it is not rewritten, and what the
  next session appends behind the cut one is not found by the session after it
  (`NothingSavedIsLost`).
- *Replaced objects*: `KeepReplaced`. An object that another has replaced in its
  dictionary keeps its key and parent and would go on writing patches, into the
  other's place (`PendingBringsUpToDate`). Nothing in the repository was found that
  changes an object after replacing it.

*Received HTLCs* (from `Switch`):

- *Failed, and again in a set*: `FirstLoopOnce`, `Scenarios <- MCInvoice`. The comment
  at `lnpeer.py:2846` says that an HTLC goes through the first loop once. `fail_htlc`
  may sign a commitment and save before the HTLC is taken off `unfulfilled_htlcs`;
  after a restart in between it goes through the loop again, and into a set if
  whatever it was refused for has changed. `again` records this; `PaidInFull` and
  the coverings are stated for behaviours without it, since an amount that has been
  failed is then counted.
- *One part too many*: `doomed \cap revealed = {}`, the scenario `Parts` with a third HTLC,
  1 restart. A part that arrives when the invoice is paid already is moved from its own
  set to the one that is being settled, and is settled there; the move may not have been
  saved. If the process ends then, the file has the part in a set of its own, which
  expires and is failed, though an HTLC of it was settled ("must never settle any htlcs
  associated to it"). Nothing is lost by it: the preimage was public and all of the invoice
  was paid. `FailedNeverSettles` makes an exception of such parts.
- *A failure nobody remembers*: `EndedForwardingIsDecided`, `Scenarios <- MCForward`,
  1 restart in 1 fault. The reason of a failure downstream is only in memory
  (`_receive_fail_reasons`, `lnchannel.py:812`), and so is the forwarding session. After
  a restart between `receive_fail_htlc` and `htlc_failed`, or while a session waits
  for its next attempt, the set stays in `SETTLING` with neither a preimage nor a
  failure, against the comment at `lnpeer.py:3252`, until the HTLC times out and the
  channel is closed. Hence `SwitchLive` has no restart.
- *A forwarding that raises*: `maybe_forward_htlc_set` catches `OnionRoutingFailure` only.
  After any other exception nothing is recorded, and by the comment there
  (`lnworker.py:3952-3957`) "the inc-HTLC gets stuck until expiry and then the inc-channel
  will get force-closed". This is `ForwardRaises`; `EveryHTLCResolved` excepts the sets
  of which nothing is left downstream at that moment (`Stuck`), and what is left
  downstream still resolves its set. `EndedForwardingIsDecided` fails of a trampoline
  forwarding then without a restart. The covering properties hold over it.
- *Forwarded twice?* A FIXME at `lnworker.py:3969-3972` says that the HTLC is forwarded first
  and "forwarding_info" persisted after that, "so if we segfault in-between and restart, we
  might forward an HTLC twice... (same for trampoline forwarding)". In this code it does
  not happen, and `ForwardedOnce` and `OfferedOnce` say so of just that case: `Offer` has
  for every crash the file `sent`, with the downstream HTLC and without its entry in
  `active_forwardings`. The set was moved to `SETTLING` (`lnpeer.py:3076`, `3150`) before the
  task was created, patches and full writes keep the order of changes, and a forwarding
  starts from `COMPLETE` only; so every file that has the downstream HTLC has `SETTLING`.
  For trampoline forwarding likewise no session is begun after a restart. What is lost is
  the entry in `active_forwardings`: if the downstream HTLC then fails, `htlc_failed` does
  not find what it belongs to, and the incoming HTLC is held until it times out.
- *Half a bundle*: `BundleIsAtomic`, the scenario `Swap`, no restart. The docstring of
  `bundle_payments` (`lnworker.py:2753`) has all payments of a bundle fulfilled or none.
  The prepayment is settled when both are complete; the swap's own HTLC, if it is
  never funded, is failed after the locktime, and the prepayment is kept.
- `lnworker.py:2977` compares what `_get_mpp_status` returns, a tuple, with
  `RecvMPPResolution.EXPIRED`: the test is never true (found while reading).
- *A funding after the locktime*: `_fail_swap` looks whether the funding is known, not
  whether it still waits in `TxBatch.batch_payments`; it may be broadcast afterwards,
  when the HTLCs it was to be paid by are failed. `env.late` keeps these apart from
  what `FundingIsCovered` says.

*Header chains* (from `Headers`): *parents that fork above* (`ParentForksBelow`, even
with `MaxFaults` 0). A fork of a fork that swaps with the root's branch leaves
siblings behind, one of which may end up below a parent whose forkpoint is above its
own. The assertion in `_swap_with_parent` (`blockchain.py:422`) then fails if it
becomes the stronger, and the last common height is overstated, as it is the least
of the heights at which the two leave their ancestors. `LastCommonIsCommon` and
`BestStaysStrongest` are stated for the states in which this is not so. That the best
chain *is* the strongest is not an invariant: where the assertion has failed the chunk or
the header is written and the connection gone, the stronger chain stays where it is, and
a later swap may make forks lie above again. What can be said is what a step may
not do: leave a chain stronger than the one it forks from where none was.

*Chunks of another chain* (found while proving, and confirmed with TLC on a larger
tree): `_fast_forward_chain` asks for chunks up to the tip that was announced, and
`save_chunk` truncates the file behind what it writes (`blockchain.py:378`). If the server
has moved meanwhile to a chain that the interface's object already has, and which is
longer there than what was announced, `connect_chunk` finds nothing wrong, and the headers
above the announced tip are cut off. An object has then lost headers, which another
one may have for its parent's. It takes a server that leaves one chain for another while
an interface is more than 144 headers behind on both. The theorems exclude it by
`ShortBranches`, as does the tree of the run `Headers`.

*A binary search that meets its own end* (found while proving): if the search starts with `good` and
`bad` next to each other it asks for `good` once more. A server that has reorganised
answers with a header that is not known, `bad` becomes `good`, and the assertion at the
head of the loop of `_search_headers_binary` (`interface.py:1224`) ends the connection.
So does the action `Binary`; nothing was written by then.

*Synchronisation* (from `WalletSync`):

- *A refused transaction*: `HasTransactions`, `MaxFaults` 0. One that conflicts with a
  mined one is refused by `add_transaction`. If a reorganisation makes it valid and
  its history has the same status by then, it is never asked for again.
- *A history that returns*: `UpToDateIsTrue`, `Rare <- MCReturn`, `MaxMoves` 3. The
  history is asked for at one status, another comes, then the first returns: the
  comment in `_on_address_status` ("However if we got announced a new status ...")
  relies on each status being new.
- *A contended lock*: `ShowsTrueHeights`, `Rare <- MCContended`. A proof is compared
  with a header that another one is about to replace, as the notification waits for
  `bhi_lock`.
- *A chain that returns*: `VerifiedIsOnChain`, `Rare <- {"swung"}`, `MaxMoves` 3 with a
  longer chain. `SPV` compares the network's chain with the one it last saw every 0.1 s
  (`_maybe_undo_verifications`). If the network leaves a chain and comes back to it in
  between, and a proof is compared with the other one meanwhile, what was verified
  there is never undone.
- Answers are in the order of the requests in the model. A server that answers out
  of order could have an old history kept.

*Batches* (from `TxBatcher`): `ReorgProof` and `EverythingIsDone` are stated for
behaviours in which certain things have not happened (`happened`). What they are:

- *What the batch builds on is lost* (`forgotten`). Inputs are chosen anew whenever the
  wallet knows no transaction that spends `_prevout`, or no change at the address of
  the parent. Besides a reorganisation: a base that is local (evicted, or its broadcast
  was said to have failed) is replaced in the wallet by the next version, and that one
  removed because no password was given or it was refused; or a batch that was started
  because its base could not be replaced loses it to an older version. The comment at
  `txbatcher.py:454`, that the next transaction will be incompatible with the one
  removed, is true only if the parent's change is there to be spent. With the case
  `slow`, three payments and a refused broadcast, payments are made twice without a
  reorganisation (`NeverPaidTwice`): the base is one version behind what was
  accepted.
- *After a restart* (`restart`) the base is known but not that its payments were in
  `batch_payments`, so `use_change` is false and the next batch is not its child. The
  same is so for a base that only sweeps (`PaysSomething`) and for a version without
  change, which ends its batch at once (`noChange`).
- *Payments that are lost*: those in memory at a restart (note 3 of the header); those
  dropped for want of funds while there is no base, since `_to_pay_after(None)` is
  `batch_payments` itself and not a copy (`dropped`); those of a base that was left
  behind as not replaceable, when an older version of it is mined (`refused`); those
  of a transaction without change that is evicted.
- *Broadcast again*: `find_base_tx` broadcasts what `PartialTransaction.from_tx` makes of
  a local base. That has no witnesses, and serialises to a partial transaction, which
  fails the assertion `is_hex_str` in `Interface.broadcast_transaction`; what is
  stored has not been signed in the first place (`run_iteration` adds it before). So
  a transaction whose broadcast failed is not rebroadcast "later", as the comment at
  `txbatcher.py:464` has it: it is replaced when there is something more to pay or the
  fee is raised (found while reading; in the model `Rebroadcasted` reaches nobody).

## 6. Proofs

The TLAPS proofs hold for any number of HTLCs, ctns, messages, peers and faults, and
for any values of the constants that satisfy the named assumptions (two owners,
`None` is not a number or a key, bounds are numbers, scenarios are scenarios).

*The log.* `TypeOK` is not inductive: that no compared ctn is `None` depends on the
order in which an update enters the two ctxs (`UpdatesInOrder`), that a discard
leaves no removal behind depends on removals coming after additions
(`RemovedAfterAdded`), that a reused id is harmless on `IdsAreFresh`. `LogInv` is
the conjunction of these and `CacheIsSound`, and is inductive. `HTLCLogProofs` has
one lemma per method, `...Inv`, that the method preserves `LogInv` under its guard;
`HTLCManagerProofs` assembles them (`Invariance`) and derives
`TypeCorrect`, `RemovalsAreSound`, `CacheIsCorrect` (the cached ids give the same
HTLCs as the whole log) and `OneCtxIsEnough` (what `sent_in_ctn` and its like rely
on).

*Nothing irrevocable is undone.* `HTLCLogProofs` defines when a log is *later* than
another (ctns do not decrease, an update below the revoked ctns keeps its
ctns, irrevocable removals stay), shows each method to give a later log, and that
later logs keep what is irrevocable. `NothingIrrevocableIsUndone` follows.

*Balances and feerates.* What `get_balance_msat` computes from the cache is right
(`BalancesAreKept`) because of `BalanceKept`: `balance_delta` is the difference between
what the two parties' HTLCs that are settled and not cached sum up to. That it is
preserved rests on `CacheIsSound`: what left the cache is removed from both ctxs, so it
is not removed again (`RemoveHtlc` is only for what is active), not discarded (it is
signed), and counted in the ctx of either owner at every ctn not revoked
(`SettledIsCounted`). A log that is read back has everything in the cache and forgets
the same HTLCs again. `FeeratesAreFound` is about the binary search of `get_feerate`:
`FeesInOrder` says that only the funder has a fee log, that it starts with the feerate
of the opening and is sorted by the ctns of both owners, those not known last. A new
update enters last, a revocation binds to the first updates only, a discard takes the
last ones. `SearchFinds` is the search itself: of updates of which the first `k` are in
force, for any length, it finds the `k`-th.

*The channel.* The inductive invariant `IInv` of `LNChannelProofs` has parts that are
about one party and parts that are about both.

- `PartiesKept`: each party's log satisfies `LogInv`, keeps the raw messages that it
  may have to replay (`MessagesKept`, `Replayable`), has not signed beyond what it
  knows to have signed, nor two ctxs with one ctn (`SignedBy`, `OneEach`), and its
  wallet was told of what is gone (`Gone`); its file satisfies the same and has all
  that is irrevocable in the log (`InFile`). A handler is a sequence of statements, each
  an operator on steps, so this is proved statement by statement and then for each
  action; a crash replaces the log by the file. `BackupsKept` says as much of every old
  copy of the file, as far as a copy can.
- `LinksKept` and the handshake `HInv`: what a party has of the other's ctxs, what is
  in the other's log, and what is on its way or will be replayed, differ by at most one
  commitment and one revocation at a time, in every phase of a reestablishment. Without
  it the numbers of a `channel_reestablish` could be anything.
- `Credited`, `Accepted` and `Agreed`, parts of `LinksKept`, relate what the two logs
  say of one HTLC. What a party takes for irrevocable rests on its own revocation and the
  other's; the other's log has the HTLC in the same ctxs, or the `commitment_signed` or
  `revoke_and_ack` that will put it there is on its way or kept for replay. `Covered` says
  it of a log and its file: what was signed and acknowledged is in the ctx.
- `NInv` is about one restored backup. As long as at most one old copy was put to use at
  most one of the two has forgotten revocations of its own (`Remembers`), and what a
  `channel_reestablish` on its way says of the other's ctn is not more than what is so, and
  no less if the other has forgotten (`Reports`). So a party that finds itself behind
  (`WE_ARE_TOXIC`) is the one that forgot, and one that force-closes is not.
- `Frames` and `InboxesKept` are types.

From it: `LogsStaySound` (logs, files and backups keep the log's invariant),
`CommitmentStaysReplayable`, `OneCtxIsSigned`, `RemovalsAreReported`, `CtnsStayAligned`,
`ChannelStaysOpen` (no reestablishment has a party close the channel),
`FulfilledStaysCommitted` (a preimage is revealed only for an HTLC that the payer is
irrevocably committed to as well), `RevokedStaysUnpublished` (for at most one restored backup; with two, both may have
forgotten, and it is false), and the action property `LockedInStays`. Most of the others are for behaviours in which no backup was restored
(`restores = 0`): after that a party *has* forgotten what it signed, and only the other
party's reestablishment protects it (`ChannelLive`). `CommitmentStaysReplayable` and
`RemovalsAreReported` are for those without a crash in the middle of a handler
(`midSaves = 0`; see section 5); the save that `FulfillHtlc` makes in its middle is in all
of them, and what it leaves in the file (a settle without its message) is one of the
cases of `InFile`.

*Folds and sums.* The folds of the community modules are recursive functions over the
subsets of a finite set, and which function is meant is a `CHOOSE`. `Recursion` proves,
by induction stated as a fact about sets of naturals (`SetInduction`), that a function
that is given step by step along an interval or over subsets exists and is the only one,
and from that what is needed of sequences of sequences, of induction over the subsets of
a finite set, and of sums: that a sum over a finite set is a number, is not less for a larger set, is the element's for a
singleton, and is added up for two disjoint sets.

*The wallet file.* The theorems of `WalletFileProofs` hold for any keys, objects,
values and sizes. That the file is a durable map (`FilesAreDurable`, a refinement of
`DurableMap`; `NothingIsLost` says the same of the opening alone), that it can be opened
(`FilesCanBeOpened`) and that the pending patches are what it lacks
(`PatchesAreComplete`) is proved for full and for partial writes, under the conditions
that the run `WalletFile` has too: no other threads, no `clear_invoices`, and where
patches are written no half patch or separator is left behind and callers do not change
what they have replaced (`Orderly`; section 5 says why each is needed, and
`WholeWritesAreDurable` that the last two are not where no patches are written). The
inductive invariant `DurableInv` has four parts: types (`MemTypeOK`); that a
stored object carries the key under which it is stored (`PlaceIsRight`; otherwise a
change of it might be taken for one of a detached object, and `_modified` not be
set, or its patch change another entry); that what is on disk was there since the last
write and is what is in memory unless `_modified` is set (`DiskInv`); and that the patches
in the file and those pending lead to what is in memory, and on the way only to what was
there since the last write (`PatchInv`, `InStep`), since a crash may leave any number of
them. While an assignment is half done its patch is there already, so they lead to what
is `Ahead`. A process that writes in full need not be in step, and is not after
`clear_history`. All this needs two facts of the fold `Replay`: one more patch is applied
to what the others have led to (`ReplayAppend`), and patches are applied to what earlier
ones have led to (`ReplayOn`). `SizeIsKnown` is proved with all cases but `noSpace`, from
`SizeInv`; `PatchesOnlyInPlainFiles` adds `SealInv`: outside of `update_password` the
storage and the file agree on whether it is encrypted.

*Received HTLCs.* `SwitchTypes` needs `CopiesAreCurrent`, that what the second loop
has copied of a set is still its state but for HTLCs moved to it: only because of it
an iteration does not act on a set that a previous step has removed. Both hold over
restarts. `FailedIsForGood`, that no HTLC of a failed or expired set is ever
settled, holds until the first restart, and needs three more: an HTLC is on
`unfulfilled_htlcs`, or in one set, or in none, and is not resolved while it is
in either (`EachInOnePlace`; without it a failed HTLC could be in a set that
settles); only parts of trampoline payments are moved (`OnlyPartsAreTagged`); and a
doomed HTLC is failed or in a failed set (`DoomedAreLost`), a revealed one is
fulfilled (`RevealedAreFulfilled`). After a restart the first is no longer true
(`FirstLoopOnce`, section 5): there the property is what `Switch` shows, and it has the
exception of section 5.

The second part of `HTLCSwitchProofs` is about restarts: it says the same of two stores,
the memory and the file, since the second becomes the first. `PlacedInv` says where an HTLC can be
(`Placed`), what sets look like (`Formed`), and that the only HTLC of a forwarding to the
next hop has left the first loop, for good, before anything was offered (`Once`): this is
`OfferedOnce`. `CoverInv` says what the resolution of a set stands for (`Collected`: a
complete set has the amount, a settling one is covered, what is settled had a preimage),
how a forwarding is related to what is downstream (`Downstream`: one that has an HTLC
there has only that one, is settling and has not failed), that memory and file have the
same preimages and that what settles in memory does so in the file (`Agree`: both are
saved before anything is sent), and what a running task may rely on (`Runs`,
`SwapRuns`). From it follow `InvoicesArePaidInFull`, `ForwardsAreCovered` and
`FundingsAreCovered`. `CoverInv` is for behaviours in which no HTLC that was failed went
through the first loop again (`again`), as the properties are. Each action is taken in
three layers: which of a few changes it makes to a store, or leaves in the file
(`...Changes`); what such a change keeps of any store (`...Legal`, `...Sound`); and that
memory, file, tasks and chain still fit together (`...Safe`). What is assumed of
scenarios beyond their types is what the code enforces: hold invoices, and what is
bundled (`submarine_swaps.py:803`), are invoices of our own, and an HTLC for the next hop has a set of its own and its own amount as the total
(`lnpeer.py:2187-2190`).

The last part is about one step. `BundlesStartComplete`, the action property
`BundleStartsComplete`: a set that starts to settle or calls the swap's callback was looked
at by a verdict that found the other sets of its bundle complete, not in the copies of the
iteration but in memory, and by `Collected` a complete set has its amount; by
`EachInOnePlace` none of its HTLCs is settled or failed. It needs `BundleInv`: while the
bundle is known none of it has started, neither in memory nor in the file, which a restart
would bring back, and no failed HTLC is collected again. That the bundle is not fulfilled
as a whole all the same is section 5's `BundleIsAtomic`.

*Chains and coins.* `WalletSyncProofs` starts with what the recursive `HeightOf` and
`ChainTo` return for any tree of blocks (`Heights`, `Chains`; from there that chains
nest, have a block at every height, and are the same up to the last common block), and
with what each operation of the wallet keeps: the folds over histories and dependent
transactions included. `CoinsAreSpentOnce` needs more than `NoConflicts`: that a coin is
marked by no other than a transaction that is stored and spends it (`CoinsMarked`), else
the removal of a transaction with all that depends on it would leave marks behind, or
take the mark of another. Types (`TypesHold`) need `Awaited`: for every request for a
history, and every answer to one, there is one task that waits, and one only; without
it `TakeHistory` would find no task. `VerifiedStaysOnChain` adds `Inv2`: the headers that
are followed, queued and on their way are one above the other (`Rising`), so that a
block of the same object is followed only by those above it; and what is verified is on
the network's chain or, if the verifier has not looked since that changed, on the one it
last saw (`OnChainOrUnseen`). What `undo_verifications` leaves alone is not above the
last common block, and so on both. This is proved without the cases `synced` and
`swung` of `Rare`, which section 5 shows to break it; the other two, and all else, may
happen.

*Header chains.* `HeaderChainsProofs` is for any tree of headers, any number of servers
and chains, and all actions. It starts with what `HeightOf` and `BlockAt` return
(`Recursion` has the facts about trees), and then says of every object the one
thing from which its reading follows (`Sound`): its file has the headers of one branch
of the tree, from its forkpoint to its top, and the parent has the header below
(`IsBranch`). Parents are ranked, so that reading ends; no header is in two files (`Apart`); there is one root; and
there are no files but those of the objects, all of which are in the dict (`Kept`). The
recursive functions are unfolded once, in `HolderIsOnWay`, `AncestorIs` and
`SwapOnceIs`; from there on a chain is its top (`HashIs`, `HasIs`).

- *What is written*. `GrownWrite` is any writing that extends a branch, and `SaveHeader`,
  `SaveChunk` and `Fork` are shown to be such. `SwapMoves` gives the effect of a swap on
  branches (two are cut at the fork and joined crosswise, so that both keep their tops),
  and `SwapKeepsFine`, `SwapStep` and `SwapEnds` take it through the loop of
  `swap_with_parent`: each swap leaves fewer chains that are stronger than their parents.
  All of them yield `Extends`: each object still has the chain it had, and perhaps more.
  From it come `ObjectsKeep` and `NoneBecomesStronger`.
- *What interfaces know*. `LockInv` says of the holder of the lock, for each phase of a
  search, what it has been told: what is cached, and the header where the search
  went wrong, are of the chain of the announced tip, unless a tip not looked at
  yet waits in the queue (`Said`), or, if they are far below the announced tip, in any
  case; and that no chunk it may write next ends below the end of an object that it
  may write to (`Low`). An interface that ends its synchronisation with nothing in its
  queue has therefore come to its server's tip (`Follows`), which is `InterfacesFollow`:
  if the queue is not empty it is not through. What servers announce in between only
  fills queues, and other interfaces are kept out by the lock (`OthersKeep`, `LockWaits`, `LockStays`).
- *Restarts*. `OnDisk` is what the program can leave behind, in one of the two writes of a
  swap too (`SoundOnDisk`, `CrashOnDisk`): of each file whose name is that of its first
  header, the headers are a branch; no two share a header, and none goes on where another
  ends. A file whose name is wrong can be anything: it is deleted when it is read.
  `LoadsKeep` takes the files in any order allowed, one by one, and what is loaded is
  sound (`LoadedSound`), so that the crash may come anywhere.

The theorems assume `ShortBranches`: chains that differ at some height are not both
`FarFromTip + 2` headers longer, 146 in the code. That is to say that no server reorganises
more than a day deep while its headers are fetched in chunks. Without it `HeadersConnect`
itself does not hold (section 5, chunks of another chain). `CommonIsShared` and
`NoneBecomesStronger` are further for states in which forks lie above what they fork from
(`ParentForksBelow`), as the properties are.

*Proved and not in a run*, as they would restate what the proofs contain: `HTLCSwitch`'s, `HeaderChains`'s and `WalletSync`'s `TypeOK`,
`HTLCManager`'s `Inv`, `TypeOK` and `RemovedOnce`, `LNChannel`'s `CtnsAligned`, and `KnowsItsSize` and
`AppendsOnlyToPlain` of `WalletFile`.

*Only model-checked*: liveness. In the channel, that the two parties
build the same ctx from their logs (`RefusedOnlyIfLost`) and what follows from it (the
refinement of `PaymentLedger`): for every ctn the whole contents of both logs would have
to be related, not only which HTLCs are irrevocable.
In `HTLCSwitch` `FailedNeverSettles` after a restart.
In `WalletSync` what is true of the server's answers in the end (`UpToDateIsTrue`,
`ShowsTrueHeights`): each status and height in flight would have to be related to the
server's past. `TxBatcher`, of which nothing is proved: `ReorgProof` is about the whole list of
transactions that were ever made, and needs an invariant of the wallet's view of the
mempool for each kind of what it excepts.

## 7. Not modelled

Of the components with a module:

- *The channel*: amounts a party can afford, opening, shutdown and cooperative
  close, force-close on the chain, `channel_ready`, announcements, zero-conf.
- *The wallet file*: an append that raises, which may leave a part of it behind and
  `pos` as it was (nothing in the repository says what should hold then); upgrades.
- *Received HTLCs*: `dont_settle_htlcs`, channels opened just in time and their
  fees, the parallel parts of a trampoline session (one attempt at a time is out),
  `stopping_soon`, force-closed channels, HTLCs of one payment that name different
  totals and malformed onions (refused like the others), the order in which sets are
  visited (all orders are), the client's side of a swap.
- *Header chains*: the loss of headers that were appended and not synced, a write
  that is cut, the region of the checkpoint, difficulty targets (all headers have the
  same work), answers that differ within one fast-forward, the choice of the main
  server, and threads that read a chain while it is swapped.
- *Synchronisation*: limits on requests, caches of raw transactions, the height −1
  (the same as 0 here), partial transactions, future transactions, values and
  balances, the gap limit, proofs by checkpoints, `NETWORK_SKIPMERKLECHECK`, servers
  that lie, the wallet file's going back at a crash, the `Notifier`.

- *Batches*: fees and sizes (and so payments put off because a transaction is too
  large), time locks and sweeps that have to wait for them, anchors, legacy HTLCs,
  equal outputs, exceptions that end a batch, coins that the user spends or freezes
  meanwhile, several batches at once (each has its own coins but for races), change
  split over several outputs.

Without a module:

- *Watching and sweeping*: needs scripts, sequence locks and fees.
- *Routing, gossip, payment splitting*: algorithms on graphs and random splits, without
  state that several actors share.
- *Transport, onion messages*: cryptography; that order is kept and a suffix is lost
  is what `LNChannel` takes from it.
- *Construction of transactions by the user, serialisation, scripts*.
- *Sending payments of our own*: the result of an HTLC is reported (`LNChannel`), what
  `PaySession` does with it is left out but for trampoline forwarding.
- *Keys, cryptography, scripts, invoices, parsing, commands, configuration, user
  interfaces, hardware wallets, vendored and generated code*, most of the source by
  lines: pure functions over bytes, input and output, or not ours.

## 8. Plan

What is left, in order:

1. *Channel life* (`lnchannel` states, shutdown and closing in `lnpeer`, `lnwatcher`):
   the table of state transitions against its callers, `set_can_send_ctx_updates`,
   cooperative close against HTLCs in flight, force-close and the watcher's view.
2. *Payment sessions* (`pay_to_node`, `PaySession`): parts, retries, late failures.
3. *Channel budget* (`available_to_spend`, reserves, fee spikes): two parties that
   accept each other's updates never build a ctx below the reserve. With it, a
   second change of the feerate.
4. *Payment splitting* (`mpp_split`) against a reference definition.
5. *Wallet file*: appends that raise.
6. Proofs: that the two logs of a channel give the same ctxs (`RefusedOnlyIfLost`, then the
   refinement); `ReorgProof` of `TxBatcher`; `UpToDateIsTrue` and `ShowsTrueHeights` of
   `WalletSync`; `FailedNeverSettles` after a restart.

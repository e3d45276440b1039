# TLA+ models of the stargate node

This directory holds TLA+ models of the off-chain channel node in
`src/node/node_internal/src/node.rs`, together with the TLC configurations that
check them, and of the mock ledger service in
`src/chain/chain_service/src/chain_service.rs`. `PROJECT.json` lists the components, the runs, the mutants that
show each property can fail, the line map from definitions to source, the
findings and the hazards.

## The system

A stargate node (`Node`, `NodeInner`) runs one serialized loop
(`Node::start`, node.rs 580-623). The loop `select!`s over three streams:

* network messages (`handle_network_msg`);
* local commands from the public API (`handle_node_msg`);
* a shutdown event.

Every item is handled to completion before the next one starts. The node holds
several collaborators:

* **Wallet** (sgwallet): builds, verifies, approves, rejects and applies
  channel transactions, and stores the pending request of each channel.
* **Network** (libp2p behind `NetworkService`): a transport that delivers
  in order on a link and may lose messages.
* **MessageProcessor<K>** (`message_processor`, `network_processor`): a
  correlation table from a request hash to the sender half of a one-shot
  channel. The caller awaits the receiving half, a `MessageFuture`. The loop
  completes it with `send_response` (on a response) or `future_error` (on an
  `ErrorMessage`).
* **Timer tasks**: `future_timeout` (1228-1238) spawns a task per
  registration. It runs on the executor concurrently with the loop and calls
  `remove_future` after the timeout. It spawns nothing when the timeout is 0.
* **InvoiceManager**: hash lock to preimage, and hash lock to the previous
  hop of a relayed HTLC. It is used only by the multi-hop paths.
* **Startup recovery** (`NodeInner::init`, 1240-1278): before the loop
  starts, init resends each channel's pending request to a reachable peer and
  awaits its future.

### The single-hop protocol

1. The requester proposes a transaction (open_channel, deposit, withdraw,
   off_chain_pay, execute_script). The wallet stores it as the channel's
   pending request. `send_channel_request` sends it and registers a future
   with a timer.
2. The responder verifies the request:
   * if the wallet already holds a response (a replay), it sends and applies
     that response again;
   * if verification fails, it sends an `ErrorMessage`;
   * without auto-approve, it leaves the proposal waiting for the user, with
     no reply;
   * with auto-approve, it approves and calls `apply_txn`.
3. `apply_txn` sends the response first and applies it afterwards. If the
   apply fails, it then also sends an `ErrorMessage`.
4. The requester verifies and applies the response, then completes its
   future with the channel sequence number.
5. Any error on this path is unwrapped by `handle_network_msg`, which panics
   the loop.
6. The user may later approve or reject a waiting proposal
   (`channel_transaction_proposal`). This applies or errors, and then
   registers a future on the responder too.

### The chain service

`ChainService` (`chain_service.rs`) is a mock ledger behind the gRPC `Chain`
service. It holds a bounded channel (`channel::new(1_024, ..)`) and two
stores, each behind a std `Mutex`: `tx_db` (transaction hashes) and
`state_db` (account states). `ChainService::new` spawns two tokio tasks:

* the **receiver** takes transactions off the channel one at a time. For
  each one, `submit_transaction_real` locks `tx_db` and skips a hash it
  already holds. Otherwise it locks `state_db` too, applies the write set and
  records the transaction with `insert_all`. A `Program` payload panics.
* the **genesis task** sends the genesis transaction into the channel.

gRPC handler threads run the RPCs concurrently with both tasks.
`submit_transaction` publishes the request's transaction to watchers, then
converts it with `SignedTransaction::from_proto(..).unwrap()`, sends it with
`block_on` and answers `Valid`. A request whose transaction does not convert
panics the handler after the publish.

The channel is a futures `mpsc` channel with a buffer of 1024. Every send
goes through a fresh `Sender` clone, which is never parked. So the send
always enqueues its message. When the channel then holds more than the
buffer, the sender parks, and the send's flush waits. Each message the
receiver takes unparks the oldest parked sender. Closing the channel wakes
them all, and a flush on a closed channel reports success. The channel can
therefore hold the buffer plus one message per sender. The two
account-state reads lock `state_db` and unwrap `get_account_state`.
`faucet` locks `state_db`, creates the account and reaches
`unimplemented!()`. `least_state_root` is `unimplemented!()`.

A thread that panics while it holds a guard poisons that `Mutex`, and every
later `lock().unwrap()` on it panics. When the receiver task ends, the
channel's receiving end is dropped. The queued messages are dropped with it,
every parked sender wakes and answers `Valid`, and every later send fails.

## Modules

| Module | Models | State | Actions |
|---|---|---|---|
| `Framing` | `add_message_type` and `parse_message_type` (1483-1495): a 2-byte big-endian tag, then the body | operators only | `ToBeBytes`, `FromBeBytes`, `AddMessageType`, `ParseMessageType` (the result `"panic"` for a short frame or an unknown tag), `Body`, `Decodes` |
| `MessageProcessor` | the correlation table (`add_future`, `send_response`, `future_error`, `remove_future`) | `table` (key to waiter), a parameter that `StarNode` instantiates per node | operators only: `AddFuture`, `DropPrevious`, `Deliver`, `RemoveFuture`; the waiters are passed in |
| `StarNode` | the run loop of a set of nodes, the single-hop protocol, user approval, SetTimeout, shutdown, startup recovery | `phase`, `chan` (FIFO per link), `mpTable`/`timers` (one MessageProcessor per node, through `MP(n) == INSTANCE MessageProcessor`), `waiters`, `timeout`, `reqSt`/`rspSt` (the wallet state of the requester and responder per request), `toRecover`/`recWait` (the progress of init) | `ProposeTxn`, `ProposeTxnPanics`, `ApproveProposal`, `RejectProposal`, `SetTimeout`, `Shutdown`, `HandleRequest`, `HandleResponse`, `HandleError` (grouped as `Dispatch`), `HandleForeignFrame` and `HandleBalanceQueryRequest` (grouped as `PeerFrame`, used by the composed models), `SendForeignFrame`, `TimerFire`, `LoseMsg`, `RecoverNext`, `RecoverAwait`, `RecoverDone`, `Halted` |
| `HtlcRelay` | multi-hop HTLC payments on top of `StarNode`: `off_chain_pay_htlc` with `get_multi_hop_request`, the relay step of `handle_multi_hop_receiver_channel`, and the HTLC resolution after `apply_txn` | `StarNode`'s state and `prevHop` (the InvoiceManager's hash lock to previous hop, per node) | `PayHtlc`, `HandleHtlcRequest`, `HandleMultiHop` (grouped with the responses, errors and `PeerFrame` as `HDispatch`), `SendForeignFrame`, the user, timer and loss steps of `StarNode` |
| `NodeApi` | the public API on top of `StarNode`: the `*_async` checks and command queueing for calls that propose a transaction (open, deposit, withdraw, pay) and for queries (`local_balance`, `get_txn_by_channel_sequence_number`), `handle_node_msg` with `chain_balance`/`tnx_by_sn`, callers that drop their receiver, the `*_oneshot` await, cancellation when the loop ends, links going up and down, and frames from peers | `StarNode`'s state and `callSt`/`callFut` (per API call), `cmdQ` (the command channel per node), `up` (connected links) | `ApiCall`, `Abandon`, `HandleCommand` (with `OpenCommand`, `PayCommand`, `AnswerQuery`), `AwaitResult`, `Cancel`, `LinkUp`, `LinkDown`, `DropOnDown`, `PeerFrame`, `SendForeignFrame` |
| `ChainService` | `chain_service.rs`: `ChainService::new` with its receiver and genesis tasks, `submit_transaction_real`, and the `Chain` RPCs | `queue` (the channel), `parkQ` (its parked senders, oldest first), `rxPc`/`rxTx` (the receiver task), `genesisPc`, `tx_db`, `state_db` (accounts that have a state), `poisoned` (the poisoned Mutexes), `hpc`/`hTx` (handler threads sending or parked), `notified` (published to watchers), `accepted` (answered Valid), `applied` (history: applications per write set), `calls` | `GenesisSend`, `GenesisResume`, `RxRecv`, `RxLockTx`, `RxApply`, `SubmitTransaction`, `SubmitSend`, `SubmitResume`, `GetAccountStateWithProof`, `StateByAccessPath`, `Faucet`, `LeastStateRoot`, `Quiescent` |
| `MC_*` | model values and constant definitions for TLC | | |

`StarNode` composes one MessageProcessor per node through
`MP(n)`. The table operators (`AddFuture`, `DropPrevious`, `Deliver`,
`RemoveFuture`) are written as values of the current table, so that every
node's table has one definition of the correlation semantics. The timer
tasks and the registrations are `StarNode` actions. `HtlcRelay` and `NodeApi`
`EXTEND` `StarNode`: they add variables and actions and reuse its handlers,
wallet outcomes and table operations unchanged.

### Refinement

No refinement is checked. The one abstract specification this code has is
the one-shot promise of a `MessageFuture`: it resolves at most once, to a
result that never changes. In this project that promise would be checked
against the model's own `MessageProcessor` operators, because
`message_processor.rs` is not in `src/`. A refinement check would then test
the model against itself, not the code.

### Code outside `src/`

`InvoiceManager` (`invoice.rs`) and `message_processor.rs` are not in `src/`.
`prevHop` follows spec.md 2. The table operators follow spec.md 4.2 and the
`add_future` overwrite behaviour that spec.md 9 describes. Both are marked
`spec_modelled` in the map. `add_previous_hop` stores under the hash lock
(823), while `get_previous_hop` is called with the preimage (902). The
model's `PreviousHopKey` assumes the InvoiceManager hashes its argument. The
mutant that keys the lookup by the raw preimage breaks
`PayeeAppliedSettles`: the payment then never settles back past the relay.

### Correspondence with the code

* **One dispatch is one action.** An action covers the whole dispatch: the
  handler, every wallet call, the messages it sends and the table
  operations.
  * `HandleRequest` covers the five outcomes of
    `handle_channel_transaction_request`.
  * `ApplyTxn` is the shared helper for `apply_txn`, which sends `Resp` and
    then either applies or also sends `Err`.
* **The wallet is an oracle.** `reqSt[r]` takes the values none, pending
  and applied. `rspSt[r]` takes none, waiting, approved, applied and
  rejected. A wallet call that can fail does so as a separate disjunct,
  enabled only when `WalletMayFail`.
* **Unwrapped errors panic.** Where the code unwraps an error, the node's
  phase becomes `panicked`. This covers lines 655-673, 858, 1292, 1309 and
  1326.
* **Timers are atomic steps.** A timer firing is an atomic step that
  interleaves with dispatches. This is sound because each dispatch reads or
  writes a node's table at most once.
* **Frames are byte sequences.** Every message carries the frame
  `AddMessageType(<< >>, kind)`, and a handler takes a message only when
  `ParseMessageType` of its frame names the handler's kind. Bodies are
  abstracted: the body this code serialises is the empty sequence, and any
  other body fails `from_proto_bytes` (`Decodes`).
* **Peers may send frames this code never builds** (`SendForeignFrame`, at
  most one in flight). `HandleForeignFrame` panics the loop on a short frame,
  an unknown tag, or a channel-transaction frame whose body does not decode.
  It drops every other frame: it logs a malformed ErrorMessage or balance
  frame, ignores a negotiate message, and drops a balance response that no
  future waits for. `HandleBalanceQueryRequest` answers a well-formed
  balance query with a zero-balance response. `StarNode`'s own `Next` has
  only peers that run this code. `HtlcRelay` and `NodeApi` add the peer
  frames.
* **Command answers.** `respond_with` logs when the caller has dropped its
  receiver (`RespondWith`). `chain_balance` and `tnx_by_sn` unwrap the send
  instead (`AnswerQuery`), which panics the loop.
* **Chain service critical sections.** A handler's critical section is one
  step: it holds one guard and waits on nothing while it holds it. The
  receiver holds `tx_db` while it waits for `state_db`, so `RxLockTx` and
  `RxApply` are separate steps. A panic with a guard held adds that lock to
  `poisoned`. A panicking handler ends its call. Whether grpcio's thread
  survives the panic is not modelled, and no later state depends on it.
  `SignedTransaction::from_proto` fails for the transactions in
  `BadProto`: the handler has published, and then panics. `AccountAddress::try_from` is taken to
  succeed. `apply_write_set` is taken
  to succeed, and a write set's effect is the set of accounts it creates
  (`Creates`).
* **The chain channel is its send discipline.** `Enqueue` appends the
  message and parks the sender when the channel held the buffer or more
  (`Parks`). `RxRecv` unparks the head of `parkQ`. `ReceiverDies` empties
  `queue` and `parkQ`. A parked handler or genesis task resumes
  (`SubmitResume`, `GenesisResume`) once it is no longer in `parkQ`.
* **Init covers the states an earlier run can leave.** A pending request
  may exist on the requester. The responder may have never seen it, may hold
  it for the user, or may have applied it.

## Runs

| Run | cfg | Expect | What it shows |
|---|---|---|---|
| `node_safety` | `MC_StarNode_safety.cfg` | pass | Two nodes, two requests in opposite directions, one auto-approving node, a failing wallet and a lossy network. A requester applies only approved proposals (`RequesterAppliesOnlyApproved`). Success reaches only the requester's caller, and only after its wallet applied (`OkOnlyAfterApply`). |
| `htlc_settles` | `MC_HtlcRelay_live.cfg` | pass | One payment along a, b, c. Every `MultiHopChannelRequest` carries exactly the rest of the path after its receiver (`HopsFollowPath`). With auto-approval everywhere, once the payee has applied the last transfer, the payer eventually applies the htlc receive of the first segment (`PayeeAppliedSettles`). A peer may send a malformed ErrorMessage and a well-formed balance query at any time. |
| `api_returns` | `MC_NodeApi.cfg` | pass | Two nodes with an `open` call, a `pay` call and a balance query. The wallet may fail, links go up and down, and callers may drop their receivers. Every API call returns unless its caller has gone (`EveryCallReturns`). |
| `chain_service` | `MC_ChainService.cfg` | pass | Three handler threads make six RPCs against the receiver and genesis tasks on a one-message buffer. The RPCs include duplicate submits, a `Program` submit, `faucet`, and reads of present and absent accounts. The channel never holds more than the buffer plus one message per sender (`CSTypeOK`). No write set is applied twice (`AppliedOnce`). Every `submit_transaction` call returns (`SubmitReturns`): a parked send is woken by a later receive or by the receiver's death. A read of an absent account (for instance of `assoc` before genesis is applied), or any `faucet` call, poisons `state_db`. The receiver then panics at its next `state_db` lock, and every later submit publishes its transaction before its send panics. `chain_poison` shows this as a failing property. |
| `chain_poison` | `MC_ChainService_poison.cfg` | violation | Every transaction a write set, so no `Program` payload kills the receiver. A transaction answered `Valid` is never recorded (`AcceptedEventuallyRecorded`). In TLC's trace, `faucet` poisons `state_db`, a submit is answered `Valid` and queued, and the receiver dies at its next `state_db` lock. A read of an absent account, such as `assoc` before genesis is applied, poisons the lock in the same way. A submit parked on the full channel when the receiver dies is also answered `Valid`, since the flush of a closed channel succeeds. |
| `chain_notify_malformed` | `MC_ChainService_malformed.cfg` | violation | `t1`'s proto does not convert. Every transaction published to watchers is eventually recorded unless the receiver died (`NotifiedEventuallyRecorded`). This fails: `submit_transaction` publishes `t1` at 187, and `from_proto(..).unwrap()` at 189 then panics the handler, with the receiver alive. |
| `commit_without_apply` | `MC_StarNode_commit.cfg` | violation | The responder's apply fails after its response has left, and the requester reports success (`CommittedOnlyIfApplied`; spec 4.3). |
| `startup_recovery` | `MC_StarNode_recovery.cfg` | violation | The peer answers a resent request, but init cannot receive the answer before the loop runs. The future times out and startup panics (`AnsweredRecoveryStarts`; spec 4.1). |
| `fail_soft` | `MC_NodeApi_failsoft.cfg` | violation | One bad item kills the loop (`FailSoftDispatch`; spec 4.1, 6, 7). Three kinds of item do it. A wallet error in open/deposit/withdraw does it, and that is the trace TLC reports, in three steps: the call is queued, `RecoverDone` starts the loop, and the command's dispatch panics. A frame from a peer that is too short, has an unknown tag or has a channel-transaction body that does not decode also does it. So does a `chain_balance`/`tnx_by_sn` answer to a caller that dropped its receiver. Each source is a finding in `PROJECT.json`. With `WalletMayFail = FALSE`, TLC reports a peer-frame trace instead. With no peer frames as well, it reports the abandoned-query trace. |
| `zero_timeout` | `MC_StarNode_zerotimeout.cfg` | violation | After `SetTimeout(0)`, the future that `channel_transaction_proposal` registers is never completed (`EveryWaiterCompletes`; spec 4.2). |
| `htlc_unfunded_forward` | `MC_HtlcRelay_unfunded.cfg` | violation | A relay forwards the HTLC to the next hop when the incoming transfer was left waiting for approval, failed verification or failed to apply (`ForwardOnlyWhenFunded`; spec 4.4). |
| `htlc_approved_unresolved` | `MC_HtlcRelay_unresolved.cfg` | violation | When the payee approves the transfer by hand, `channel_transaction_proposal` applies it but never sends the preimage back (`PayeeAppliedSettles`; spec 4.4). |

### Bounds

* **Nodes and requests.** Two nodes and two requests, one proposed by each
  node, which covers both roles on each node. Exactly one node
  auto-approves, so both the auto and the manual path of the request handler
  run.
* **MaxWaiters.** Three futures in the node model is enough for a request's
  future plus the responder's proposal future, plus one overwrite.
* **Timeouts.** The timeout values are {20000} for the passing runs and {0}
  for `zero_timeout`.
* **HTLC path.** Three nodes, so there is a payer, one relay and a payee.
  One relay is enough for both the forward step and the backward step.
  The request set holds the four segments. `HopsFollowPath` is checked in
  the `htlc_settles` instance (a reliable network, auto-approval, no wallet
  failure), which holds the whole forward and backward path. The
  manual-approval instances are the two violation runs. A lossy network and
  a failing wallet are checked against the node properties in `node_safety`.
* **API calls.** Three calls: `open` on a, `pay` on b and a query on a.
  These can register three futures: a's and b's requests, and b's approval
  of a's `open` (b does not auto-approve). `MaxWaiters = 2` cuts off the
  third: once two futures exist, no further proposal, approve or reject is
  enabled (`CanRegister`). So `EveryCallReturns` is not checked on
  behaviours where b approves by hand after both requests were sent. With
  `MaxWaiters = 3`, TLC did not finish within thirty minutes. The
  protocol properties are checked with three futures in `node_safety`.
* **Peer frames.** At most one frame from outside the protocol is in flight
  in the whole system. The fail-soft run draws frames from a set of eight:
  empty, one byte, an unknown tag, malformed response, malformed
  ErrorMessage, malformed balance query, negotiate, and well-formed balance
  query. `htlc_settles` uses the last two. The other passing runs send none,
  to keep them under five minutes.
* **Chain service.** Three transactions: genesis, creating `assoc`; `t1`,
  creating `alice`; and a `Program` transaction `t2`. Two accounts. Three
  handler threads and six calls, so a transaction can be submitted twice
  while its first copy is still in the channel, and several senders can be
  parked at once. The buffer is one message instead of 1024, so a sender
  parks as soon as the channel holds a message. Up to five messages are
  reachable: the buffer, the genesis task and the three handlers.
* **Malformed submits.** `BadProto` is empty in the passing run and
  `{t1}` in `chain_notify_malformed`.
* **No state constraint.** Every counter is bounded by `MaxWaiters`, or by
  `MaxCalls` in `ChainService`.

### Fairness

* **Dispatch:** weak fairness per link. The loop `select!`s over its
  streams and handles every item that is queued.
* **Startup recovery steps:** weak fairness. init runs to completion before
  the loop.
* **TimerFire:** weak fairness per node and key. A spawned tokio task runs
  after its delay.
* **NodeApi:** weak fairness for `HandleCommand` (the loop takes queued
  commands), `AwaitResult` (a caller polls its future) and `Cancel` (a
  dropped responder wakes its caller).
* **ChainService:** weak fairness for the genesis task's send and
  wake-up, for each receiver step, and for each handler's send and wake-up.
  The tokio tasks run whenever they can make progress. A handler thread
  inside a call keeps running. A parked `block_on(send)` resumes once it is
  woken. RPCs themselves come from clients and have no
  fairness.
* **No fairness:** user commands, new payments, shutdown, message loss,
  links going down, frames sent by peers, and callers dropping their
  receivers. In `HtlcRelay`, peer frames are handled under the fairness of
  `HDispatch`.

### Deadlock

Deadlock is checked in every run. The only state in which the system stops
is `Halted`: every node has stopped, panicked or failed to start, and no timer
task is left. In `ChainService` it is `Quiescent`: every call is spent, no
handler or genesis task is about to send, and the receiver is dead or waits
on an empty channel. A parked sender may remain. Whether it is woken is what
`SubmitReturns` checks. Any other state with no successor would
be a lock or channel deadlock.

## Not modelled

* **Balance query sender** (`_query_balance`, 1378-1404): it is never
  called. Only the two handlers are modelled.
* **`execute_script` and `install_package`** (1179-1226): they follow the
  single-hop path of `StarNode` with a different wallet call. They are
  `ProposeTxn` with the `open` kind.
* **The remaining API** (360-578): `channel_balance_async`,
  `deploy_module`, `install_package`, the invoice and router helpers, and
  `get_channel_transaction_proposal_async`. They read wallet state or
  forward to collaborators that are not in `src/`. Two of them are
  listed as hazards with no property. `deploy_package_oneshot` and
  `channel_transaction_proposal_async` unwrap the command send, so the
  caller panics once the loop has ended (450, 557). `install_package`'s
  spawned task unwraps the answer (431).
* **The router's path search:** the router is not in `src/`. `HtlcRelay`
  takes the path as the constant `Path`.
* **The mock star node and star chain client** (`mock_star_node.rs`,
  `star_chain_client.rs`). This second mock ledger is built on Libra's
  admission control, mempool and executor, whose behaviour is outside this
  repository. Its faucet reads the association's sequence number and then
  submits. That is a read-then-act race with the block timer.
* **Chain service details.** `watch_transaction` only
  registers a subscriber, and `notified` stands for what every watcher is
  told. The test-only `least_state_root_inner` is not modelled.
* **`PendingTransaction`** (`sgtypes/src/pending_txn.rs`). Nothing in
  `src/` uses it, and the file as written does not compile. `try_fullfill`
  returns `self.fullfilled()` from a function that returns `()`. The
  `WaitForApply` arm of `get_signature` reads a `signatures` binding that it
  never made. Its one transition is the guard of `try_fullfill` (59-62), so
  any property of a model of it would only restate that guard.
* **A stale timer of an earlier registration.** A timer removes by key
  (1235). After a second approve of one proposal, the first approve's timer
  can complete the second registration's future early. `node_safety`
  reaches two timers on one key. The model counts the timers of a key and
  does not tell one registration's timer from another's, so no property
  checks which registration a timeout belongs to.
* **The gRPC service** (`node_service/src/lib.rs`): a binding layer that
  forwards each RPC to one `Node` call.
* **The libp2p transport** (`p2p.rs` is unimplemented; `message.rs` only
  defines the message types). It is abstracted as lossy FIFO links. The
  network service's lifetime is not modelled, so the `unbounded_send(..)
  .unwrap()` calls toward it (for example at 1012) never fail in the model.
* **Account resource helpers and the storage test**: serialization code
  with no state machine.

------------------------------ MODULE StarNode ------------------------------
(***************************************************************************)
(* The node run loop of node_internal/src/node.rs (Node::start and         *)
(* NodeInner) on a set of nodes that exchange single-hop channel           *)
(* transactions: local commands that propose a transaction                 *)
(* (open_channel, deposit, withdraw, off_chain_pay, execute_script), the   *)
(* handlers of ChannelTransactionRequest, ChannelTransactionResponse and   *)
(* ErrorMessage, the user's approve/reject of a waiting proposal, the      *)
(* timeout tasks of future_timeout, SetTimeout, shutdown, and the startup  *)
(* recovery of NodeInner::init.                                            *)
(*                                                                         *)
(* Each dispatch of the run loop is one atomic step: the loop handles one  *)
(* item to completion before taking the next (Node::start, 600-621).       *)
(* Timer tasks run on the executor and interleave with it; each dispatch   *)
(* reads or writes the correlation table at most once, so a timer firing   *)
(* inside a dispatch is equivalent to one firing just before or after it.  *)
(*                                                                         *)
(* The wallet is an oracle.  Per request r the model keeps the requester's *)
(* wallet state reqSt[r] (none, pending: the request is built and stored,  *)
(* applied) and the responder's rspSt[r] (none, waiting: verified and      *)
(* waiting for the user, approved: a response is prepared, applied,        *)
(* rejected).  Wallet calls that may fail do so only when WalletMayFail.   *)
(***************************************************************************)
EXTENDS Naturals, Sequences, FiniteSets, Functions, Framing

CONSTANTS
    Nodes,          \* node addresses
    Reqs,           \* request ids (content hashes) of channel transactions
    Initiator,      \* Initiator[r]: the node that proposes r
    Responder,      \* Responder[r]: its channel counterparty
    AutoApprove,    \* nodes started with auto_approve = true
    TimeoutValues,  \* values a SetTimeout command may carry
    DefaultTimeout, \* default_future_timeout set by Node::new (20000)
    WalletMayFail,  \* whether wallet calls may return an error
    Lossy,          \* whether the transport may lose a message
    NoWaiter,       \* the empty correlation slot, 0
    MaxWaiters,     \* bound on registrations of the correlation tables
    ForeignFrames   \* frames a peer may send that this code never builds

ASSUME Initiator \in [Reqs -> Nodes] /\ Responder \in [Reqs -> Nodes]
ASSUME \A r \in Reqs : Initiator[r] # Responder[r]
ASSUME DefaultTimeout > 0

VARIABLES
    phase,     \* phase[n]: init, running, stopped, panicked, initFailed
    chan,      \* chan[<<p, q>>]: messages in flight from p to q, in order
    mpTable,   \* mpTable[n]: NodeInner.message_processor of node n
    timers,    \* timers[n][r]: pending future_timeout tasks of n for key r
    waiters,   \* every MessageFuture ever created, by creation order
    timeout,   \* timeout[n]: NodeInner.default_future_timeout
    reqSt,     \* requester wallet state of each request
    rspSt,     \* responder wallet state of each request
    toRecover, \* toRecover[n]: requests init still has to look at
    recWait    \* recWait[n]: the waiter init is blocked on, or NoWaiter

vars == <<phase, chan, mpTable, timers, waiters, timeout, reqSt, rspSt,
          toRecover, recWait>>

MP(n) == INSTANCE MessageProcessor
            WITH Keys <- Reqs, table <- mpTable[n]

MsgTypes == {"Req", "MReq", "Resp", "Err"}

(* The MessageType each message is framed with by add_message_type. *)
KindOf == [Req |-> "ChannelTransactionRequest",
           MReq |-> "MultiHopChannelTransactionRequest",
           Resp |-> "ChannelTransactionResponse",
           Err |-> "ErrorMessage"]

(* A message: its type, the link, its request id, for a                   *)
(* MultiHopChannelTransactionRequest the hops still to relay, and the     *)
(* frame on the wire.  The body is abstracted to the fields before it.    *)
Msg(t, p, q, r) == [type |-> t, from |-> p, to |-> q, key |-> r, hops |-> << >>,
                    data |-> AddMessageType(<< >>, KindOf[t])]

(* A frame f from p outside the channel-transaction protocol: one no node *)
(* of this code builds, or a balance query.  Its request id is irrelevant. *)
ForeignMsg(p, q, f) == [type |-> "Frame", from |-> p, to |-> q,
                        key |-> CHOOSE r \in Reqs : TRUE, hops |-> << >>, data |-> f]
Links == {l \in Nodes \X Nodes : l[1] # l[2]}

Send(ch, m) == [ch EXCEPT ![<<m.from, m.to>>] = Append(@, m)]

Running(n) == phase[n] = "running"

(* The message the run loop of q takes next from p: handle_network_msg    *)
(* routes it by parse_message_type, and its body decodes as a message of  *)
(* type t.                                                                 *)
Incoming(p, q, t) ==
    /\ chan[<<p, q>>] # << >>
    /\ ParseMessageType(chan[<<p, q>>][1].data) = KindOf[t]
    /\ chan[<<p, q>>][1].type = t

Pop(p, q) == [chan EXCEPT ![<<p, q>>] = Tail(@)]

SetRsp(r, s) == rspSt' = [rspSt EXCEPT ![r] = s]

(***************************************************************************)
(* Registration (send_channel_request 1039-1057, the tail of               *)
(* channel_transaction_proposal 1473-1477, future_timeout 1228-1238):      *)
(* add_future binds a new waiter to the key; a timer task is spawned       *)
(* unless the timeout is 0.                                                *)
(***************************************************************************)
CanRegister == Len(waiters) < MaxWaiters

NewWaiter == Len(waiters) + 1

Register(n, r) ==
    /\ waiters' = Append(MP(n)!DropPrevious(waiters, r),
                         [node |-> n, key |-> r, out |-> "pending"])
    /\ mpTable' = [mpTable EXCEPT ![n] = MP(n)!AddFuture(r, NewWaiter)]
    /\ timers' = IF timeout[n] = 0 THEN timers
                 ELSE [timers EXCEPT ![n][r] = @ + 1]

(* send_response / future_error / remove_future on key r of node n. *)
Complete(n, r, o) ==
    /\ waiters' = MP(n)!Deliver(waiters, mpTable[n][r], o)
    /\ mpTable' = [mpTable EXCEPT ![n] = MP(n)!RemoveFuture(r)]

(***************************************************************************)
(* apply_txn (931-961): send the response to the peer first, then ask the  *)
(* wallet to apply it; if applying fails, send an ErrorMessage as well.    *)
(* ch is the channel state the dispatch has produced so far.               *)
(***************************************************************************)
(* A set of outcomes when c holds, none otherwise. *)
Only(c, S) == IF c THEN S ELSE {}

(* Mutation: a failed apply forgets that the proposal was approved. *)
ApplyTxnUnrecorded(n, p, r, ch) ==
    LET withResp == Send(ch, Msg("Resp", n, p, r)) IN
    {[ch |-> withResp, rsp |-> "applied"]} \cup
    Only(WalletMayFail, {[ch |-> Send(withResp, Msg("Err", n, p, r)),
                          rsp |-> rspSt[r]]})

(* The outcomes of apply_txn: the channel contents and the responder's    *)
(* wallet state of r after it.                                             *)
ApplyTxn(n, p, r, ch) ==
    LET withResp == Send(ch, Msg("Resp", n, p, r)) IN
    {[ch |-> withResp, rsp |-> "applied"]} \cup
    Only(WalletMayFail, {[ch |-> Send(withResp, Msg("Err", n, p, r)),
                          rsp |-> IF rspSt[r] = "applied" THEN "applied"
                                  ELSE "approved"]})

(***************************************************************************)
(* Local commands.                                                         *)
(***************************************************************************)

(* open_channel / deposit / withdraw (1280-1334), off_chain_pay            *)
(* (1079-1096), execute_script (1179-1215): the wallet builds the request, *)
(* which it keeps as the channel's pending request, and                    *)
(* send_channel_request sends it and registers its future.                 *)
ProposeTxn(n, r) ==
    /\ Running(n)
    /\ Initiator[r] = n
    /\ reqSt[r] = "none"
    /\ CanRegister
    /\ reqSt' = [reqSt EXCEPT ![r] = "pending"]
    /\ chan' = Send(chan, Msg("Req", n, Responder[r], r))
    /\ Register(n, r)
    /\ UNCHANGED <<phase, timeout, rspSt, toRecover, recWait>>

(* open_channel, deposit and withdraw unwrap the wallet's result           *)
(* (1292, 1309, 1326): a wallet error panics the run loop.  (A wallet      *)
(* error in off_chain_pay or execute_script goes back to the caller and    *)
(* changes nothing.)                                                       *)
ProposeTxnPanics(n, r) ==
    /\ WalletMayFail
    /\ Running(n)
    /\ Initiator[r] = n
    /\ phase' = [phase EXCEPT ![n] = "panicked"]
    /\ UNCHANGED <<chan, mpTable, timers, waiters, timeout, reqSt, rspSt,
                   toRecover, recWait>>

(* channel_transaction_proposal (1411-1480): the user approves or rejects  *)
(* the proposal r.  approve_txn / reject_txn succeed only for a proposal   *)
(* that is waiting for approval; any failure, and a successful reject,     *)
(* send an ErrorMessage for r to the peer.  In every case a future is then *)
(* registered for r on this node.                                          *)
ApproveProposal(n, r) ==
    LET p == Initiator[r] IN
    /\ Running(n)
    /\ Responder[r] = n
    /\ CanRegister
    /\ \/ /\ rspSt[r] = "waiting"
          /\ \E o \in ApplyTxn(n, p, r, chan) : chan' = o.ch /\ SetRsp(r, o.rsp)
       \/ /\ rspSt[r] # "waiting" \/ WalletMayFail
          /\ chan' = Send(chan, Msg("Err", n, p, r))
          /\ UNCHANGED rspSt
    /\ Register(n, r)
    /\ UNCHANGED <<phase, timeout, reqSt, toRecover, recWait>>

RejectProposal(n, r) ==
    LET p == Initiator[r] IN
    /\ Running(n)
    /\ Responder[r] = n
    /\ CanRegister
    /\ chan' = Send(chan, Msg("Err", n, p, r))
    /\ \/ /\ rspSt[r] = "waiting"
          /\ SetRsp(r, "rejected")
       \/ /\ rspSt[r] # "waiting" \/ WalletMayFail
          /\ UNCHANGED rspSt
    /\ Register(n, r)
    /\ UNCHANGED <<phase, timeout, reqSt, toRecover, recWait>>

(* set_timeout (1407-1409): later registrations use the new timeout. *)
SetTimeout(n, v) ==
    /\ Running(n)
    /\ timeout' = [timeout EXCEPT ![n] = v]
    /\ UNCHANGED <<phase, chan, mpTable, timers, waiters, reqSt, rspSt,
                   toRecover, recWait>>

(* The shutdown event (614-619): close the network, stop the wallet and    *)
(* the router, leave the loop.                                             *)
Shutdown(n) ==
    /\ Running(n)
    /\ phase' = [phase EXCEPT ![n] = "stopped"]
    /\ UNCHANGED <<chan, mpTable, timers, waiters, timeout, reqSt, rspSt,
                   toRecover, recWait>>

(***************************************************************************)
(* Network messages: handle_network_msg (647-675).                         *)
(***************************************************************************)

(* handle_channel_transaction_request (842-877), up to and including      *)
(* apply_txn: verify the request r that p sent.  A response the wallet     *)
(* already prepared (a replay) is sent and applied again; otherwise        *)
(* verification fails (an ErrorMessage goes back), or the proposal waits   *)
(* for the user (no reply, Ok(())), or, with auto_approve, the wallet      *)
(* approves it (approve_txn(..).unwrap() at 858: a failure panics the      *)
(* loop) and it is sent and applied.  An outcome gives the channel         *)
(* contents, the responder's state of r, whether the loop panicked and     *)
(* whether apply_txn ran, after which the HTLC steps of 878-927 follow.    *)
VerifyTxn(n, p, r, ch) ==
    LET prepared == rspSt[r] \in {"approved", "applied"}
        Stop(c, s, panic) == [ch |-> c, rsp |-> s, panic |-> panic, applied |-> FALSE]
        Applied == {[ch |-> o.ch, rsp |-> o.rsp, panic |-> FALSE, applied |-> TRUE] :
                        o \in ApplyTxn(n, p, r, ch)}
        auto == n \in AutoApprove
    IN  Only(prepared, Applied)
        \cup Only(~prepared /\ WalletMayFail,
                  {Stop(Send(ch, Msg("Err", n, p, r)), rspSt[r], FALSE)})
        \cup Only(~prepared /\ ~auto, {Stop(ch, "waiting", FALSE)})
        \cup Only(~prepared /\ auto, Applied)
        \cup Only(~prepared /\ auto /\ WalletMayFail, {Stop(ch, rspSt[r], TRUE)})

(* The loop panics in the dispatch of n when panic holds. *)
PanicIf(n, panic) ==
    phase' = IF panic THEN [phase EXCEPT ![n] = "panicked"] ELSE phase

(* handle_receiver_channel (832-840) of a ChannelTransactionRequest. *)
HandleRequest(n, p) ==
    LET r == chan[<<p, n>>][1].key IN
    /\ Running(n)
    /\ Incoming(p, n, "Req")
    /\ \E o \in VerifyTxn(n, p, r, Pop(p, n)) :
        /\ chan' = o.ch
        /\ SetRsp(r, o.rsp)
        /\ PanicIf(n, o.panic)
    /\ UNCHANGED <<mpTable, timers, waiters, timeout, reqSt, toRecover, recWait>>

(* handle_sender_channel (963-983): verify the response against the        *)
(* pending request, apply it, read the channel sequence number and         *)
(* deliver it to the future of the request.  Any error is returned to      *)
(* handle_network_msg, which unwraps it (659-662): the loop panics.  The   *)
(* wallet verifies a response only for a request it holds as pending.      *)
(* Mutation: send_response before the wallet calls (swapped order). *)
HandleResponseEarlyOk(n, p) ==
    LET r == chan[<<p, n>>][1].key IN
    /\ Running(n)
    /\ Incoming(p, n, "Resp")
    /\ Complete(n, r, "ok")
    /\ \/ /\ reqSt[r] = "pending"
          /\ reqSt' = [reqSt EXCEPT ![r] = "applied"]
          /\ chan' = Pop(p, n)
          /\ UNCHANGED phase
       \/ /\ reqSt[r] # "pending" \/ WalletMayFail
          /\ phase' = [phase EXCEPT ![n] = "panicked"]
          /\ UNCHANGED <<chan, reqSt>>
    /\ UNCHANGED <<timers, timeout, rspSt, toRecover, recWait>>

HandleResponse(n, p) ==
    LET r == chan[<<p, n>>][1].key IN
    /\ Running(n)
    /\ Incoming(p, n, "Resp")
    /\ \/ /\ reqSt[r] = "pending"
          /\ reqSt' = [reqSt EXCEPT ![r] = "applied"]
          /\ chan' = Pop(p, n)
          /\ Complete(n, r, "ok")
          /\ UNCHANGED phase
       \/ /\ reqSt[r] # "pending" \/ WalletMayFail
          /\ phase' = [phase EXCEPT ![n] = "panicked"]
          /\ UNCHANGED <<chan, reqSt, mpTable, waiters>>
    /\ UNCHANGED <<timers, timeout, rspSt, toRecover, recWait>>

(* handle_error_message (985-996): fail the future of the embedded id. *)
HandleError(n, p) ==
    LET r == chan[<<p, n>>][1].key IN
    /\ Running(n)
    /\ Incoming(p, n, "Err")
    /\ chan' = Pop(p, n)
    /\ Complete(n, r, "err")
    /\ UNCHANGED <<phase, timers, timeout, reqSt, rspSt, toRecover, recWait>>

(***************************************************************************)
(* Tasks outside the loop and the environment.                             *)
(***************************************************************************)

(* The task of future_timeout (1232-1237): after the delay it calls        *)
(* remove_future(hash) unconditionally.  It runs whatever the loop does.   *)
(* Mutation: a timer task that fires without having been spawned. *)
TimerFireUnguarded(n, r) ==
    /\ timers' = [timers EXCEPT ![n][r] = @ - 1]
    /\ Complete(n, r, "timeout")
    /\ UNCHANGED <<phase, chan, timeout, reqSt, rspSt, toRecover, recWait>>

TimerFire(n, r) ==
    /\ timers[n][r] > 0
    /\ timers' = [timers EXCEPT ![n][r] = @ - 1]
    /\ Complete(n, r, "timeout")
    /\ UNCHANGED <<phase, chan, timeout, reqSt, rspSt, toRecover, recWait>>

(* The transport loses the next message on a link. *)
LoseMsg(p, q) ==
    /\ Lossy
    /\ chan[<<p, q>>] # << >>
    /\ chan' = Pop(p, q)
    /\ UNCHANGED <<phase, mpTable, timers, waiters, timeout, reqSt, rspSt,
                   toRecover, recWait>>

(***************************************************************************)
(* Startup recovery, NodeInner::init (1240-1278), run by Node::start       *)
(* (591-598) before the loop: for each channel whose wallet holds a        *)
(* pending request, skip an offline peer, else resend the request with     *)
(* send_channel_request and await its future.  An error of the future      *)
(* ends init with an error, and start panics.                              *)
(***************************************************************************)
RecoverNext(n) ==
    /\ phase[n] = "init"
    /\ recWait[n] = NoWaiter
    /\ \E r \in toRecover[n] :
        /\ toRecover' = [toRecover EXCEPT ![n] = @ \ {r}]
        /\ \/ /\ UNCHANGED <<chan, mpTable, timers, waiters, recWait>>
           \/ /\ CanRegister
              /\ chan' = Send(chan, Msg("Req", n, Responder[r], r))
              /\ Register(n, r)
              /\ recWait' = [recWait EXCEPT ![n] = NewWaiter]
    /\ UNCHANGED <<phase, timeout, reqSt, rspSt>>

RecoverAwait(n) ==
    /\ phase[n] = "init"
    /\ recWait[n] # NoWaiter
    /\ waiters[recWait[n]].out # "pending"
    /\ recWait' = [recWait EXCEPT ![n] = NoWaiter]
    /\ phase' = [phase EXCEPT ![n] =
                    IF waiters[recWait[n]].out = "ok" THEN "init" ELSE "initFailed"]
    /\ UNCHANGED <<chan, mpTable, timers, waiters, timeout, reqSt, rspSt,
                   toRecover>>

RecoverDone(n) ==
    /\ phase[n] = "init"
    /\ recWait[n] = NoWaiter
    /\ toRecover[n] = {}
    /\ phase' = [phase EXCEPT ![n] = "running"]
    /\ UNCHANGED <<chan, mpTable, timers, waiters, timeout, reqSt, rspSt,
                   toRecover, recWait>>

(***************************************************************************)
(* The specification.  A node may start with a pending request left by an *)
(* earlier run, which its peer may never have seen, may be holding for the *)
(* user, or may have applied.                                              *)
(***************************************************************************)
Init ==
    /\ reqSt \in [Reqs -> {"none", "pending"}]
    /\ rspSt \in {f \in [Reqs -> {"none", "waiting", "applied"}] :
                    \A r \in Reqs : reqSt[r] = "none" => f[r] = "none"}
    /\ phase = [n \in Nodes |-> "init"]
    /\ chan = [l \in Links |-> << >>]
    /\ mpTable = [n \in Nodes |-> [r \in Reqs |-> NoWaiter]]
    /\ timers = [n \in Nodes |-> [r \in Reqs |-> 0]]
    /\ waiters = << >>
    /\ timeout = [n \in Nodes |-> DefaultTimeout]
    /\ toRecover = [n \in Nodes |->
                     {r \in Reqs : Initiator[r] = n /\ reqSt[r] = "pending"}]
    /\ recWait = [n \in Nodes |-> NoWaiter]

(* Every node has left its loop and no timer task is left: the system    *)
(* has stopped, as it does after every node's shutdown.                   *)
Halted ==
    /\ \A n \in Nodes : phase[n] \in {"stopped", "panicked", "initFailed"}
    /\ \A n \in Nodes, r \in Reqs : timers[n][r] = 0
    /\ UNCHANGED vars

(* handle_network_msg (647-675) of any other frame.  parse_message_type   *)
(* panics on a short frame or an unknown tag; the channel-transaction     *)
(* handlers return a decode error, which is unwrapped; the ErrorMessage   *)
(* and balance handlers (998-1037) log a decode error and return, and     *)
(* OpenChannelNodeNegotiateMessage is ignored.  A BalanceQueryResponse    *)
(* that decodes goes to network_processor.send_response under a key no    *)
(* future is registered for (the only sender, _query_balance, is never    *)
(* called), which drops it.                                                *)
Unwrapped == {"ChannelTransactionRequest", "ChannelTransactionResponse",
              "MultiHopChannelTransactionRequest"}

(* The frames a peer sends outside the protocol carry a body that does    *)
(* not decode whenever a decodable one would be a protocol message.       *)
ASSUME \A f \in ForeignFrames :
          ParseMessageType(f) \in Unwrapped \cup {"ErrorMessage"} => ~Decodes(f)

IsBalanceQuery(f) ==
    ParseMessageType(f) = "BalanceQueryRequest" /\ Decodes(f)

HandleForeignFrame(n, p) ==
    LET f == chan[<<p, n>>][1].data IN
    /\ Running(n)
    /\ chan[<<p, n>>] # << >>
    /\ chan[<<p, n>>][1].type = "Frame"
    /\ ~IsBalanceQuery(f)
    /\ chan' = Pop(p, n)
    /\ PanicIf(n, ParseMessageType(f) \in {"panic"} \cup Unwrapped)
    /\ UNCHANGED <<mpTable, timers, waiters, timeout, reqSt, rspSt, toRecover, recWait>>

(* handle_balance_query_request (998-1019): answer a BalanceQueryRequest  *)
(* that decodes with a BalanceQueryResponse of zero balances.              *)
HandleBalanceQueryRequest(n, p) ==
    /\ Running(n)
    /\ chan[<<p, n>>] # << >>
    /\ chan[<<p, n>>][1].type = "Frame"
    /\ IsBalanceQuery(chan[<<p, n>>][1].data)
    /\ chan' = Send(Pop(p, n), ForeignMsg(n, p, AddMessageType(<< >>, "BalanceQueryResponse")))
    /\ UNCHANGED <<phase, mpTable, timers, waiters, timeout, reqSt, rspSt,
                   toRecover, recWait>>

(* handle_network_msg of a frame outside the channel-transaction          *)
(* protocol.  StarNode's own Next has peers that run this code only; the  *)
(* composed models (HtlcRelay, NodeApi) add these frames.                 *)
PeerFrame(n, p) == HandleForeignFrame(n, p) \/ HandleBalanceQueryRequest(n, p)

(* A peer sends frame f.  Bound: one such frame in flight at a time. *)
SendForeignFrame(p, q, f) ==
    /\ \A l \in Links : \A i \in DOMAIN chan[l] : chan[l][i].type # "Frame"
    /\ chan' = Send(chan, ForeignMsg(p, q, f))
    /\ UNCHANGED <<phase, mpTable, timers, waiters, timeout, reqSt, rspSt,
                   toRecover, recWait>>

(* Each link feeds the loop of its receiver. *)
Dispatch(n, p) ==
    \/ HandleRequest(n, p)
    \/ HandleResponse(n, p)
    \/ HandleError(n, p)

Next ==
    \/ \E n \in Nodes, r \in Reqs :
        \/ ProposeTxn(n, r)
        \/ ProposeTxnPanics(n, r)
        \/ ApproveProposal(n, r)
        \/ RejectProposal(n, r)
        \/ TimerFire(n, r)
    \/ \E n \in Nodes, v \in TimeoutValues : SetTimeout(n, v)
    \/ \E n \in Nodes : Shutdown(n) \/ RecoverNext(n) \/ RecoverAwait(n)
                                    \/ RecoverDone(n)
    \/ \E l \in Links : Dispatch(l[2], l[1]) \/ LoseMsg(l[1], l[2])
    \/ Halted

(* The loop drains its inputs, startup proceeds, and timer tasks run;      *)
(* user commands, shutdown and message loss need not happen.               *)
Fairness ==
    /\ \A l \in Links : WF_vars(Dispatch(l[2], l[1]))
    /\ \A n \in Nodes : WF_vars(RecoverNext(n) \/ RecoverAwait(n) \/ RecoverDone(n))
    /\ \A n \in Nodes, r \in Reqs : WF_vars(TimerFire(n, r))

Spec == Init /\ [][Next]_vars /\ Fairness

(***************************************************************************)
(* Properties.                                                             *)
(***************************************************************************)
Phases == {"init", "running", "stopped", "panicked", "initFailed"}

TypeOK ==
    /\ phase \in [Nodes -> Phases]
    /\ chan \in [Links -> Seq([type : MsgTypes \cup {"Frame"}, from : Nodes,
                               to : Nodes, key : Reqs, hops : Seq(Nodes),
                               data : Seq(0..255)])]
    /\ mpTable \in [Nodes -> [Reqs -> {NoWaiter} \cup 1..MaxWaiters]]
    /\ timers \in [Nodes -> [Reqs -> Nat]]
    /\ waiters \in Seq([node : Nodes, key : Reqs,
                        out : MP(CHOOSE n \in Nodes : TRUE)!Outcomes])
    /\ timeout \in [Nodes -> TimeoutValues \cup {DefaultTimeout}]
    /\ reqSt \in [Reqs -> {"none", "pending", "applied"}]
    /\ rspSt \in [Reqs -> {"none", "waiting", "approved", "applied", "rejected"}]
    /\ toRecover \in [Nodes -> SUBSET Reqs]
    /\ recWait \in [Nodes -> {NoWaiter} \cup 1..MaxWaiters]

(* A requester applies a response only to a request its counterparty has  *)
(* approved: handle_channel_transaction_request never answers a proposal  *)
(* that is waiting for the user or that failed verification.              *)
RequesterAppliesOnlyApproved ==
    \A r \in Reqs :
        reqSt[r] = "applied" => rspSt[r] \in {"approved", "applied"}

(* A future completes successfully only on the requester, and only after  *)
(* the requester's wallet applied the response.                           *)
OkOnlyAfterApply ==
    \A w \in DOMAIN waiters :
        waiters[w].out = "ok" =>
            /\ waiters[w].node = Initiator[waiters[w].key]
            /\ reqSt[waiters[w].key] = "applied"

(* Every future eventually completes (spec 4.2: a waiter is never left    *)
(* pending indefinitely), whatever messages are lost.                     *)
WaiterCompleted(w) == w \in DOMAIN waiters /\ waiters[w].out # "pending"

EveryWaiterCompletes ==
    \A w \in 1..MaxWaiters : (w \in DOMAIN waiters) ~> WaiterCompleted(w)

(* spec 4.3 step 2: a verified but unapplied transaction is never treated *)
(* as committed.  The requester's caller sees success only when the       *)
(* responder applied the transaction.                                     *)
CommittedOnlyIfApplied ==
    \A w \in DOMAIN waiters :
        waiters[w].out = "ok" => rspSt[waiters[w].key] = "applied"

(* spec 4.1: startup recovery resends a pending request to a reachable    *)
(* peer.  Once the peer's response to that request has reached the node,  *)
(* the node eventually completes startup and runs its loop.               *)
RecoveryAnswered(n, r) ==
    /\ phase[n] = "init"
    /\ Initiator[r] = n
    /\ Msg("Resp", Responder[r], n, r) \in Range(chan[<<Responder[r], n>>])

AnsweredRecoveryStarts ==
    \A n \in Nodes, r \in Reqs : RecoveryAnswered(n, r) ~> Running(n)

(* spec 4.1, 7: a failure while dispatching one message or command is     *)
(* logged and does not stop the loop.                                     *)
FailSoftDispatch == \A n \in Nodes : phase[n] # "panicked"

=============================================================================

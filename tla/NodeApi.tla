------------------------------- MODULE NodeApi -------------------------------
(***************************************************************************)
(* The public API of Node (node.rs 117-360) over the node model of         *)
(* StarNode: a caller of open_channel_oneshot, deposit_oneshot,            *)
(* withdraw_oneshot or off_chain_pay_oneshot checks its arguments and that *)
(* the receiver is connected, queues a NodeMessage on the command channel, *)
(* awaits the loop's one-shot answer (a MessageFuture) and then awaits     *)
(* that future.  The loop takes commands from the queue in order,          *)
(* interleaved with network messages (Node::start, 600-621).  When the     *)
(* loop has ended the command receiver is dropped: a queued command's     *)
(* responder goes with it, and a new command cannot be sent.               *)
(*                                                                         *)
(* Each call c of Calls is one API call on node Call[c].node.  Its kind   *)
(* says which: "open" (open_channel, deposit, withdraw: a wallet error is  *)
(* unwrapped and panics the loop) and "pay" (off_chain_pay: a wallet error *)
(* goes back to the caller) propose the request Call[c].req;  "query"      *)
(* (local_balance, get_txn_by_channel_sequence_number) reads the wallet.   *)
(* A caller may drop its receiver while its command is queued, as a        *)
(* cancelled future does.  The transport loses what is sent over a link   *)
(* that is down; is_connected reads the link's current state.              *)
(***************************************************************************)
EXTENDS StarNode

CONSTANTS Calls, Call

ASSUME \A c \in Calls :
          \/ Call[c].kind = "query" /\ Call[c].node \in Nodes
          \/ Call[c].kind \in {"open", "pay"} /\ Call[c].node = Initiator[Call[c].req]

VARIABLES
    callSt,   \* callSt[c]: idle, queued, awaiting, ok, err, gone
    callFut,  \* callFut[c]: the MessageFuture the caller of c awaits
    cmdQ,     \* cmdQ[n]: NodeMessages queued on n's command channel
    up        \* the links the network service reports as connected

aVars == <<vars, callSt, callFut, cmdQ, up>>

Pair(p, q) == {p, q}
Pairs == {Pair(l[1], l[2]) : l \in Links}

Ended(n) == phase[n] \in {"stopped", "panicked", "initFailed"}

Proposes(c) == Call[c].kind \in {"open", "pay"}

(* The *_async half of an API call (147-173, 207-222, 245-266, 296-315,   *)
(* 387-394, 486-500): open_channel first checks the amounts; a call that  *)
(* proposes a transaction checks is_connected(receiver); every call then   *)
(* queues its command, which fails once the loop has dropped the command  *)
(* receiver.  Any failure returns an error.                                *)
ApiCall(c) ==
    LET n == Call[c].node
        connected == IF Proposes(c) THEN Pair(n, Responder[Call[c].req]) \in up ELSE TRUE
    IN
    /\ callSt[c] = "idle"
    /\ \/ /\ connected
          /\ ~Ended(n)
          /\ cmdQ' = [cmdQ EXCEPT ![n] = Append(@, c)]
          /\ callSt' = [callSt EXCEPT ![c] = "queued"]
       \/ /\ \/ ~connected
             \/ Ended(n)
             \/ Call[c].kind = "open"
          /\ callSt' = [callSt EXCEPT ![c] = "err"]
          /\ UNCHANGED cmdQ
    /\ UNCHANGED <<vars, callFut, up>>

(* The caller of a queued command drops its receiver (its future is       *)
(* dropped or its task cancelled).                                         *)
Abandon(c) ==
    /\ callSt[c] = "queued"
    /\ callSt' = [callSt EXCEPT ![c] = "gone"]
    /\ UNCHANGED <<vars, callFut, cmdQ, up>>

(* respond_with (1516-1520): a receiver that is gone only makes it log. *)
RespondWith(c, s) ==
    callSt' = [callSt EXCEPT ![c] = IF @ = "gone" THEN "gone" ELSE s]

(* chain_balance and tnx_by_sn (1356-1375): the wallet's answer, a result *)
(* or an error, goes to the responder with responder.send(..).unwrap(),   *)
(* which panics the loop when the caller has dropped its receiver.         *)
AnswerQuery(n, c) ==
    /\ Running(n)
    /\ \/ /\ callSt[c] # "gone"
          /\ \E s \in {"ok"} \cup Only(WalletMayFail, {"err"}) :
                callSt' = [callSt EXCEPT ![c] = s]
          /\ UNCHANGED vars
       \/ /\ callSt[c] = "gone"
          /\ PanicIf(n, TRUE)
          /\ UNCHANGED <<chan, mpTable, timers, waiters, timeout, reqSt, rspSt,
                         toRecover, recWait, callSt>>
    /\ UNCHANGED callFut

(* send_channel_request for command c: propose its request and answer    *)
(* the responder with the future (respond_with).                           *)
SendCommandRequest(n, c) ==
    /\ ProposeTxn(n, Call[c].req)
    /\ RespondWith(c, "awaiting")
    /\ callFut' = [callFut EXCEPT ![c] = NewWaiter]

(* open_channel, deposit and withdraw (1280-1334): the wallet's answer is  *)
(* unwrapped, so a wallet error panics the loop.                           *)
OpenCommand(n, c) ==
    \/ SendCommandRequest(n, c)
    \/ /\ ProposeTxnPanics(n, Call[c].req)
       /\ UNCHANGED <<callSt, callFut>>

(* off_chain_pay (1079-1096), and execute_script (1179-1215) alike: a      *)
(* wallet error goes back to the caller.                                   *)
PayCommand(n, c) ==
    \/ SendCommandRequest(n, c)
    \/ /\ WalletMayFail
       /\ Running(n)
       /\ RespondWith(c, "err")
       /\ UNCHANGED <<vars, callFut>>

(* handle_node_msg (677-787) of the command at the head of n's queue. *)
HandleCommand(n) ==
    LET c == Head(cmdQ[n]) IN
    /\ cmdQ[n] # << >>
    /\ cmdQ' = [cmdQ EXCEPT ![n] = Tail(@)]
    /\ \/ Call[c].kind = "open" /\ OpenCommand(n, c)
       \/ Call[c].kind = "pay" /\ PayCommand(n, c)
       \/ Call[c].kind = "query" /\ AnswerQuery(n, c)
    /\ UNCHANGED up

(* Mutation: the caller only wakes for a successful future. *)
AwaitResultOkOnly(c) ==
    /\ callSt[c] = "awaiting"
    /\ waiters[callFut[c]].out = "ok"
    /\ callSt' = [callSt EXCEPT ![c] = "ok"]
    /\ UNCHANGED <<vars, callFut, cmdQ, up>>

(* The *_oneshot half (136-144 and its copies): await the MessageFuture   *)
(* and report success or the error it ended with.                          *)
AwaitResult(c) ==
    /\ callSt[c] = "awaiting"
    /\ waiters[callFut[c]].out # "pending"
    /\ callSt' = [callSt EXCEPT ![c] =
                    IF waiters[callFut[c]].out = "ok" THEN "ok" ELSE "err"]
    /\ UNCHANGED <<vars, callFut, cmdQ, up>>

(* The loop has ended (break at 618, or a panic): the command receiver    *)
(* and the responders of queued commands are dropped, and receiver.await? *)
(* returns Canceled to the caller.                                         *)
Cancel(c) ==
    /\ callSt[c] = "queued"
    /\ Ended(Call[c].node)
    /\ callSt' = [callSt EXCEPT ![c] = "err"]
    /\ UNCHANGED <<vars, callFut, cmdQ, up>>

(* The network service connects or disconnects a peer. *)
LinkUp(e) ==
    /\ e \notin up
    /\ up' = up \cup {e}
    /\ UNCHANGED <<vars, callSt, callFut, cmdQ>>

LinkDown(e) ==
    /\ e \in up
    /\ up' = up \ {e}
    /\ UNCHANGED <<vars, callSt, callFut, cmdQ>>

(* A message sent over a link that is down is lost. *)
DropOnDown(p, q) ==
    /\ Pair(p, q) \notin up
    /\ chan[<<p, q>>] # << >>
    /\ chan' = Pop(p, q)
    /\ UNCHANGED <<phase, mpTable, timers, waiters, timeout, reqSt, rspSt,
                   toRecover, recWait, callSt, callFut, cmdQ, up>>

(***************************************************************************)
(* The specification.  No request is pending at start; the loop is        *)
(* entered after an init with nothing to recover.  The user answers only  *)
(* proposals the wallet lists as waiting.                                  *)
(***************************************************************************)
AInit ==
    /\ Init
    /\ reqSt = [r \in Reqs |-> "none"]
    /\ callSt = [c \in Calls |-> "idle"]
    /\ callFut = [c \in Calls |-> NoWaiter]
    /\ cmdQ = [n \in Nodes |-> << >>]
    /\ up = Pairs

ANext ==
    \/ \E c \in Calls : ApiCall(c) \/ Abandon(c) \/ AwaitResult(c) \/ Cancel(c)
    \/ \E n \in Nodes : HandleCommand(n)
    \/ \E e \in Pairs : LinkUp(e) \/ LinkDown(e)
    \/ \E l \in Links : DropOnDown(l[1], l[2])
    \/ /\ \/ \E l \in Links : Dispatch(l[2], l[1]) \/ PeerFrame(l[2], l[1])
          \/ \E n \in Nodes, r \in Reqs :
                \/ rspSt[r] = "waiting" /\ ApproveProposal(n, r)
                \/ rspSt[r] = "waiting" /\ RejectProposal(n, r)
                \/ TimerFire(n, r)
          \/ \E n \in Nodes : Shutdown(n) \/ RecoverDone(n)
          \/ \E l \in Links, f \in ForeignFrames : SendForeignFrame(l[1], l[2], f)
          \/ Halted
       /\ UNCHANGED <<callSt, callFut, cmdQ, up>>

(* The loop serves its command stream as it serves the network, callers   *)
(* poll their futures, and a dropped responder wakes its caller.  Nothing  *)
(* makes a caller drop its receiver.                                       *)
AFairness ==
    /\ \A l \in Links : WF_aVars(Dispatch(l[2], l[1]) /\ UNCHANGED <<callSt, callFut, cmdQ, up>>)
    /\ \A n \in Nodes : WF_aVars(RecoverDone(n) /\ UNCHANGED <<callSt, callFut, cmdQ, up>>)
    /\ \A n \in Nodes, r \in Reqs :
          WF_aVars(TimerFire(n, r) /\ UNCHANGED <<callSt, callFut, cmdQ, up>>)
    /\ \A n \in Nodes : WF_aVars(HandleCommand(n))
    /\ \A c \in Calls : WF_aVars(AwaitResult(c)) /\ WF_aVars(Cancel(c))

ASpec == AInit /\ [][ANext]_aVars /\ AFairness

(***************************************************************************)
(* Properties.                                                             *)
(***************************************************************************)
ATypeOK ==
    /\ TypeOK
    /\ callSt \in [Calls -> {"idle", "queued", "awaiting", "ok", "err", "gone"}]
    /\ callFut \in [Calls -> {NoWaiter} \cup 1..MaxWaiters]
    /\ cmdQ \in [Nodes -> Seq(Calls)]
    /\ up \subseteq Pairs

(* Every API call returns: a queued command is answered or cancelled when *)
(* the loop ends, and the future it answers with completes by a response, *)
(* an error or its timer, whatever the links and the loop do, unless its  *)
(* caller has gone.                                                        *)
EveryCallReturns ==
    \A c \in Calls :
        callSt[c] \in {"queued", "awaiting"} ~> callSt[c] \in {"ok", "err", "gone"}

=============================================================================

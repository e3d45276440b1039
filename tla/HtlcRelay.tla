------------------------------ MODULE HtlcRelay ------------------------------
(***************************************************************************)
(* Multi-hop HTLC payments over the node model of StarNode: the payer's    *)
(* off_chain_pay_htlc and get_multi_hop_request (node.rs 1098-1177), the   *)
(* relay step of handle_multi_hop_receiver_channel (789-830) and the HTLC  *)
(* resolution at the end of handle_channel_transaction_request (878-927).  *)
(*                                                                         *)
(* One payment with one hash lock travels along Path.  Each segment of it  *)
(* is a single-hop channel transaction, identified by its operator and     *)
(* its two ends: an htlc transfer from Path[i] to Path[i+1], and the       *)
(* resolving htlc receive from Path[i+1] back to Path[i].  Reqs is that   *)
(* set of segments; Initiator and Responder are their two ends.            *)
(*                                                                         *)
(* InvoiceManager (invoice.rs, not in this repository's src/) is modelled  *)
(* from spec.md 2: the last node of Path holds the invoice, so its         *)
(* get_preimage finds the preimage; prevHop[n][k] is the previous hop     *)
(* recorded on n under key k.  add_previous_hop stores under the hash lock *)
(* (823); get_previous_hop is called with the preimage (902) and looks up  *)
(* PreviousHopKey(preimage), which the model takes to be its hash.         *)
(***************************************************************************)
EXTENDS StarNode

CONSTANTS
    Path,    \* the address path the router returns, payer first
    NoHop    \* no previous-hop entry

ASSUME /\ Path \in Seq(Nodes)
       /\ \A i, j \in DOMAIN Path : i # j => Path[i] # Path[j]

VARIABLES prevHop

(* The two values that name the payment: its hash lock and its preimage. *)
HashLock == "hashLock"
Preimage == "preimage"
LockKeys == {HashLock, Preimage}

(* Mutation: the table is keyed by what the caller passes, the preimage. *)
PreviousHopKeyRaw(x) == x

(* The key get_previous_hop(x) reads: the hash of the preimage. *)
PreviousHopKey(x) == IF x = Preimage THEN HashLock ELSE x

GetPreviousHop(n, x) == prevHop[n][PreviousHopKey(x)]

hVars == <<vars, prevHop>>

Segment(op, p, q) == [op |-> op, from |-> p, to |-> q]

Payer == Path[1]
Payee == Path[Len(Path)]

(* The hops a MultiHopChannelRequest to node q carries when the message   *)
(* follows Path: the nodes after q.                                        *)
HopsAfter(q) == LET i == CHOOSE j \in DOMAIN Path : Path[j] = q
                IN SubSeq(Path, i + 1, Len(Path))

(* A message with the hops still to relay. *)
MultiHopMsg(p, q, r, hops) == [Msg("MReq", p, q, r) EXCEPT !.hops = hops]

(***************************************************************************)
(* Sending a new request: the wallet builds it and keeps it as pending,    *)
(* send_channel_request / send_multi_hop_channel_request send it and       *)
(* register its future (1039-1077).                                        *)
(***************************************************************************)
SendRequest(n, m, ch) ==
    /\ CanRegister
    /\ reqSt' = [reqSt EXCEPT ![m.key] = "pending"]
    /\ chan' = Send(ch, m)
    /\ Register(n, m.key)

(* off_chain_pay_htlc (1098-1141) with get_multi_hop_request (1144-1177):  *)
(* the path must have at least two vertexes and start with this node; the *)
(* second vertex receives a single-hop htlc send and the rest become the  *)
(* hops.  If send_payment fails the error goes back to the caller and     *)
(* nothing changes.                                                        *)
PayHtlc(n) ==
    LET r == Segment("transfer", n, Path[2]) IN
    /\ Running(n)
    /\ Len(Path) >= 2
    /\ Path[1] = n
    /\ reqSt[r] = "none"
    /\ SendRequest(n, MultiHopMsg(n, Path[2], r, SubSeq(Path, 3, Len(Path))), chan)
    /\ UNCHANGED <<phase, timeout, rspSt, toRecover, recWait, prevHop>>

(***************************************************************************)
(* The HTLC steps after apply_txn (878-927), for request r from p that     *)
(* n has handled with outcome o.  An htlc transfer that reaches the node   *)
(* holding the preimage makes it send an htlc receive back to p; an htlc  *)
(* receive makes a node with a previous hop send an htlc receive to it.    *)
(* receive_payment may fail: the error is returned from the handler and    *)
(* unwrapped by handle_network_msg (655-673).                              *)
(* The result is the request to send, or none, and whether it panics.     *)
(***************************************************************************)
Resolution(n, p, r, o) ==
    LET back == IF r.op = "transfer" THEN p ELSE GetPreviousHop(n, Preimage)
        resolves == /\ o.applied
                    /\ \/ r.op = "transfer" /\ n = Payee
                       \/ r.op = "receive" /\ GetPreviousHop(n, Preimage) # NoHop
    IN  Only(~resolves, {[send |-> {}, panic |-> o.panic]})
        \cup Only(resolves, {[send |-> {Msg("Req", n, back, Segment("receive", n, back))},
                              panic |-> FALSE]})
        \cup Only(resolves /\ WalletMayFail, {[send |-> {}, panic |-> TRUE]})

(* Apply the outcome o of VerifyTxn and the resolution x, registering the *)
(* future of the request x sends, if any.                                  *)
Settle(n, r, o, x) ==
    /\ SetRsp(r, o.rsp)
    /\ \/ /\ x.send = {}
          /\ chan' = o.ch
          /\ UNCHANGED <<mpTable, timers, waiters, reqSt>>
       \/ \E m \in x.send : SendRequest(n, m, o.ch)

(* handle_receiver_channel (832-840) of an htlc receive request. *)
HandleHtlcRequest(n, p) ==
    LET r == chan[<<p, n>>][1].key IN
    /\ Running(n)
    /\ Incoming(p, n, "Req")
    /\ \E o \in VerifyTxn(n, p, r, Pop(p, n)) : \E x \in Resolution(n, p, r, o) :
        /\ Settle(n, r, o, x)
        /\ PanicIf(n, x.panic)
    /\ UNCHANGED <<timeout, toRecover, recWait, prevHop>>

(* Mutation: the relay forwards the hops it received, without removing   *)
(* the first.                                                              *)
NextHopsKeep(hops) == hops

(* hops.remove(0) at 799: the first hop is the next node. *)
NextHops(hops) == Tail(hops)

(* handle_multi_hop_receiver_channel (789-830): handle the request like a *)
(* single-hop one, resolution included (an error there is unwrapped at    *)
(* 670-673), then, whatever that did, if hops remain: ask the wallet for  *)
(* an htlc send to the first hop under the same hash lock, send it with   *)
(* the remaining hops, and record p as the previous hop.  A send_payment  *)
(* error is unwrapped as well.                                             *)
HandleMultiHop(n, p) ==
    LET m == chan[<<p, n>>][1]
        r == m.key
    IN
    /\ Running(n)
    /\ Incoming(p, n, "MReq")
    /\ \E o \in VerifyTxn(n, p, r, Pop(p, n)) : \E x \in Resolution(n, p, r, o) :
        \/ /\ x.panic \/ m.hops = << >>
           /\ Settle(n, r, o, x)
           /\ PanicIf(n, x.panic)
           /\ UNCHANGED prevHop
        \/ /\ ~x.panic
           /\ m.hops # << >>
           /\ x.send = {}
           /\ LET q == Head(m.hops) IN
              \/ /\ SetRsp(r, o.rsp)
                 /\ SendRequest(n, MultiHopMsg(n, q, Segment("transfer", n, q),
                                               NextHops(m.hops)), o.ch)
                 /\ prevHop' = [prevHop EXCEPT ![n][HashLock] = p]
                 /\ UNCHANGED phase
              \/ /\ WalletMayFail
                 /\ SetRsp(r, o.rsp)
                 /\ chan' = o.ch
                 /\ PanicIf(n, TRUE)
                 /\ UNCHANGED <<mpTable, timers, waiters, reqSt, prevHop>>
    /\ UNCHANGED <<timeout, toRecover, recWait>>

(***************************************************************************)
(* The specification.  Every node starts with no pending request; the     *)
(* loop is entered after an init with nothing to recover.                  *)
(***************************************************************************)
HInit ==
    /\ Init
    /\ reqSt = [r \in Reqs |-> "none"]
    /\ prevHop = [n \in Nodes |-> [k \in LockKeys |-> NoHop]]

HDispatch(n, p) ==
    \/ HandleHtlcRequest(n, p)
    \/ HandleMultiHop(n, p)
    \/ (HandleResponse(n, p) \/ HandleError(n, p) \/ PeerFrame(n, p))
       /\ UNCHANGED prevHop

(* The user answers only proposals the wallet lists as waiting            *)
(* (get_waiting_proposal); nodes may shut down, messages may be lost, and *)
(* peers may send frames this code does not build.                        *)
HNext ==
    \/ \E n \in Nodes : PayHtlc(n)
    \/ \E l \in Links : HDispatch(l[2], l[1])
    \/ /\ \/ \E n \in Nodes, r \in Reqs :
                \/ rspSt[r] = "waiting" /\ ApproveProposal(n, r)
                \/ rspSt[r] = "waiting" /\ RejectProposal(n, r)
                \/ TimerFire(n, r)
          \/ \E n \in Nodes : Shutdown(n) \/ RecoverDone(n)
          \/ \E l \in Links : LoseMsg(l[1], l[2])
          \/ \E l \in Links, f \in ForeignFrames : SendForeignFrame(l[1], l[2], f)
          \/ Halted
       /\ UNCHANGED prevHop

HFairness ==
    /\ \A l \in Links : WF_hVars(HDispatch(l[2], l[1]))
    /\ \A n \in Nodes : WF_hVars(RecoverDone(n) /\ UNCHANGED prevHop)
    /\ \A n \in Nodes, r \in Reqs : WF_hVars(TimerFire(n, r) /\ UNCHANGED prevHop)

HSpec == HInit /\ [][HNext]_hVars /\ HFairness

(***************************************************************************)
(* Properties.                                                             *)
(***************************************************************************)
HTypeOK ==
    /\ TypeOK
    /\ prevHop \in [Nodes -> [LockKeys -> Nodes \cup {NoHop}]]

(* spec 2: the hops of a MultiHopChannelRequest shrink by exactly one per *)
(* relay, so a request that reaches a node carries the rest of the path   *)
(* after it: get_multi_hop_request and the relay's hops.remove(0) agree.  *)
HopsFollowPath ==
    \A l \in Links : \A i \in DOMAIN chan[l] :
        chan[l][i].type = "MReq" => chan[l][i].hops = HopsAfter(chan[l][i].to)

(* spec 4.4: a relay forwards an htlc transfer only when the incoming one *)
(* was applied: once it has sent the next transfer, it holds the payer's  *)
(* locked funds and can claim them when the preimage comes back.          *)
ForwardOnlyWhenFunded ==
    \A i \in 2..Len(Path) - 1 :
        reqSt[Segment("transfer", Path[i], Path[i + 1])] # "none" =>
            rspSt[Segment("transfer", Path[i - 1], Path[i])] = "applied"

(* spec 4.4: once the node holding the invoice has applied the htlc       *)
(* transfer to it, the preimage travels back hop by hop and the payer     *)
(* eventually applies the htlc receive that settles the first segment,    *)
(* unless a node has left its loop.                                       *)
PayeeAppliedSettles ==
    rspSt[Segment("transfer", Path[Len(Path) - 1], Payee)] = "applied"
        ~> \/ rspSt[Segment("receive", Path[2], Payer)] = "applied"
           \/ \E n \in Nodes : phase[n] \in {"stopped", "panicked"}

=============================================================================

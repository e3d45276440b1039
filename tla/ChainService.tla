---------------------------- MODULE ChainService ----------------------------
(***************************************************************************)
(* The mock ledger of src/chain/chain_service/src/chain_service.rs.        *)
(*                                                                         *)
(* ChainService owns a bounded channel of signed transactions, a           *)
(* transaction store `tx_db` and a state store `state_db`, each behind a   *)
(* std Mutex.  `new` spawns two tokio tasks: the receiver, which takes     *)
(* transactions off the channel and applies them (submit_transaction_real) *)
(* and the genesis task, which sends the genesis transaction.  gRPC        *)
(* handler threads run the Chain RPCs concurrently with both.              *)
(*                                                                         *)
(* A std Mutex is poisoned when a thread panics while holding its guard;   *)
(* every later lock().unwrap() on it panics.  A panicking handler ends     *)
(* its call; a panicking receiver ends the receiver task and drops the     *)
(* channel's receiving end: the messages still queued are dropped, every   *)
(* parked sender is woken, and every later send fails.                     *)
(*                                                                         *)
(* channel::new wraps a futures mpsc channel of buffer ChanCap.  Every     *)
(* send here goes through a fresh Sender clone, which is never parked, so  *)
(* the send always enqueues; when the channel then holds more than the     *)
(* buffer the sender parks, and the send's flush waits until the receiver  *)
(* unparks it (one parked sender per message received, oldest first) or   *)
(* closes.  A flush that finds the channel closed reports success.         *)
(*                                                                         *)
(* A critical section of a handler is one step: it takes one lock and     *)
(* does not wait on anything while holding it.  The receiver holds tx_db   *)
(* while it waits for state_db, so that wait is a step of its own.         *)
(***************************************************************************)
EXTENDS Naturals, Sequences, FiniteSets, SequencesExt

CONSTANTS
    Txns,        \* signed transactions, told apart by their hash
    Genesis,     \* the transaction encode_genesis_transaction builds
    Payload,     \* [Txns -> {"WriteSet", "Program"}]
    BadProto,    \* submitted protos that SignedTransaction::from_proto rejects
    Creates,     \* [Txns -> SUBSET Accounts]: accounts its write set creates
    Accounts,    \* account addresses a client may name
    Handlers,    \* gRPC handler threads
    ChanCap,     \* capacity of channel::new(1_024, ..)
    MaxCalls,    \* bound on the RPCs clients make
    NoTxn

ASSUME
    /\ Genesis \in Txns /\ NoTxn \notin Txns
    /\ Payload \in [Txns -> {"WriteSet", "Program"}]
    /\ Payload[Genesis] = "WriteSet"
    /\ BadProto \subseteq Txns \ {Genesis}
    /\ Creates \in [Txns -> SUBSET Accounts]
    /\ ChanCap \in Nat \ {0} /\ MaxCalls \in Nat

Locks == {"tx_db", "state_db"}

(* The tasks that send on the channel: a handler thread or the genesis task. *)
Senders == Handlers \cup {"genesis"}

VARIABLES
    queue,      \* transactions in the channel, oldest first
    parkQ,      \* the channel's queue of parked senders, oldest first
    rxPc,       \* receiver task: "next", "tx_lock", "state_lock" or "dead"
    rxTx,       \* the transaction the receiver is handling
    genesisPc,  \* genesis task: "send", "parked", "done" or "panicked"
    tx_db,      \* hashes recorded by insert_all
    state_db,   \* accounts that have a state in StateStorage
    poisoned,   \* the Mutexes a thread panicked while holding
    hpc,        \* [Handlers -> {"idle", "send", "parked"}]
    hTx,        \* the transaction a submit_transaction handler is sending
    notified,   \* transactions pub_sub::send published to watchers
    accepted,   \* transactions answered with MempoolAddTransactionStatusCode::Valid
    applied,    \* history: how often each write set was applied
    calls       \* RPCs made so far

vars == <<queue, parkQ, rxPc, rxTx, genesisPc, tx_db, state_db, poisoned,
          hpc, hTx, notified, accepted, applied, calls>>
rxVars == <<rxPc, rxTx>>
chanVars == <<queue, parkQ>>
callVars == <<hpc, hTx, notified, accepted, calls>>
storeVars == <<tx_db, state_db, poisoned, applied>>

(* The receiving end of the channel lives in the receiver task. *)
ReceiverAlive == rxPc # "dead"

(* A handler thread takes an RPC. *)
StartCall(h) == hpc[h] = "idle" /\ calls < MaxCalls

Init ==
    /\ queue = << >> /\ parkQ = << >>
    /\ rxPc = "next" /\ rxTx = NoTxn
    /\ genesisPc = "send"
    /\ tx_db = {} /\ state_db = {} /\ poisoned = {}
    /\ hpc = [h \in Handlers |-> "idle"] /\ hTx = [h \in Handlers |-> NoTxn]
    /\ notified = {} /\ accepted = {}
    /\ applied = [t \in Txns |-> 0]
    /\ calls = 0

(***************************************************************************)
(* One send through a fresh Sender clone on a live channel: the message    *)
(* is enqueued, and the sender parks when the channel then holds more than *)
(* the buffer (futures mpsc inc_num_messages and park).                    *)
(***************************************************************************)
Parks == Len(queue) >= ChanCap

Enqueue(s, t) ==
    /\ queue' = Append(queue, t)
    /\ parkQ' = IF Parks THEN Append(parkQ, s) ELSE parkQ

(* A parked sender's flush completes once it is unparked or the channel   *)
(* has closed; either way the send reports success.                       *)
Unparked(s) == s \notin ToSet(parkQ)

(* The receiver panics: the task ends and its Receiver is dropped, which  *)
(* closes the channel, wakes every parked sender and drops the queue.     *)
ReceiverDies ==
    /\ rxPc' = "dead"
    /\ queue' = << >> /\ parkQ' = << >>

(* The genesis task: tx_sender_2.send(genesis_txn).await.unwrap(). *)
GenesisSend ==
    /\ genesisPc = "send"
    /\ IF ReceiverAlive
         THEN /\ Enqueue("genesis", Genesis)
              /\ genesisPc' = IF Parks THEN "parked" ELSE "done"
         ELSE /\ genesisPc' = "panicked"
              /\ UNCHANGED chanVars
    /\ UNCHANGED <<rxVars, storeVars, callVars>>

GenesisResume ==
    /\ genesisPc = "parked" /\ Unparked("genesis")
    /\ genesisPc' = "done"
    /\ UNCHANGED <<chanVars, rxVars, storeVars, callVars>>

(* Mutant: the receive does not unpark a waiting sender. *)
RxRecvNoUnpark ==
    /\ rxPc = "next" /\ queue # << >>
    /\ rxTx' = Head(queue) /\ queue' = Tail(queue)
    /\ UNCHANGED parkQ
    /\ rxPc' = "tx_lock"
    /\ UNCHANGED <<genesisPc, storeVars, callVars>>

(***************************************************************************)
(* The receiver task: while let Some(tx) = tx_receiver.next().await.  The  *)
(* receive unparks the oldest parked sender.                               *)
(***************************************************************************)
RxRecv ==
    /\ rxPc = "next" /\ queue # << >>
    /\ rxTx' = Head(queue) /\ queue' = Tail(queue)
    /\ parkQ' = IF parkQ = << >> THEN parkQ ELSE Tail(parkQ)
    /\ rxPc' = "tx_lock"
    /\ UNCHANGED <<genesisPc, storeVars, callVars>>

(* Mutant: the exist_signed_transaction check dropped. *)
RxLockTxNoDedup ==
    /\ rxPc = "tx_lock"
    /\ CASE "tx_db" \in poisoned ->
              ReceiverDies /\ UNCHANGED poisoned
         [] Payload[rxTx] = "Program" ->
              ReceiverDies /\ poisoned' = poisoned \cup {"tx_db"}
         [] OTHER ->
              rxPc' = "state_lock" /\ UNCHANGED <<chanVars, poisoned>>
    /\ UNCHANGED <<rxTx, genesisPc, tx_db, state_db, applied, callVars>>

(* submit_transaction_real up to the payload match: lock tx_db, skip a     *)
(* transaction whose hash it holds, panic on a Program payload.            *)
RxLockTx ==
    /\ rxPc = "tx_lock"
    /\ CASE "tx_db" \in poisoned ->
              ReceiverDies /\ UNCHANGED poisoned
         [] rxTx \in tx_db ->
              rxPc' = "next" /\ UNCHANGED <<chanVars, poisoned>>
         [] Payload[rxTx] = "Program" ->
              ReceiverDies /\ poisoned' = poisoned \cup {"tx_db"}
         [] OTHER ->
              rxPc' = "state_lock" /\ UNCHANGED <<chanVars, poisoned>>
    /\ UNCHANGED <<rxTx, genesisPc, tx_db, state_db, applied, callVars>>

(* The WriteSet arm, still holding tx_db: lock state_db, apply the write   *)
(* set, insert_all.  A poisoned state_db panics with tx_db held.           *)
RxApply ==
    /\ rxPc = "state_lock"
    /\ IF "state_db" \in poisoned
         THEN /\ ReceiverDies
              /\ poisoned' = poisoned \cup {"tx_db"}
              /\ UNCHANGED <<tx_db, state_db, applied>>
         ELSE /\ state_db' = state_db \cup Creates[rxTx]
              /\ applied' = [applied EXCEPT ![rxTx] = @ + 1]
              /\ tx_db' = tx_db \cup {rxTx}
              /\ rxPc' = "next"
              /\ UNCHANGED <<chanVars, poisoned>>
    /\ UNCHANGED <<rxTx, genesisPc, callVars>>

(***************************************************************************)
(* submit_transaction: publish the request's signed_txn to watchers, then  *)
(* convert it with SignedTransaction::from_proto(..).unwrap(), then        *)
(* block_on(sender.send(..)).unwrap(), then answer Valid.  A proto that    *)
(* does not convert panics the handler after the publish.                  *)
(***************************************************************************)
SubmitTransaction(h, t) ==
    /\ StartCall(h)
    /\ notified' = notified \cup {t}
    /\ IF t \in BadProto
         THEN UNCHANGED <<hpc, hTx>>
         ELSE hpc' = [hpc EXCEPT ![h] = "send"] /\ hTx' = [hTx EXCEPT ![h] = t]
    /\ calls' = calls + 1
    /\ UNCHANGED <<chanVars, rxVars, genesisPc, storeVars, accepted>>

(* The Valid answer that ends a submit_transaction call. *)
Answer(h) ==
    /\ accepted' = accepted \cup {hTx[h]}
    /\ hpc' = [hpc EXCEPT ![h] = "idle"] /\ hTx' = [hTx EXCEPT ![h] = NoTxn]

(* Mutant: a send that never parks its sender. *)
SubmitSendNoPark(h) ==
    /\ hpc[h] = "send"
    /\ IF ReceiverAlive
         THEN /\ queue' = Append(queue, hTx[h]) /\ UNCHANGED parkQ
              /\ Answer(h)
         ELSE /\ hpc' = [hpc EXCEPT ![h] = "idle"] /\ hTx' = [hTx EXCEPT ![h] = NoTxn]
              /\ UNCHANGED <<chanVars, accepted>>
    /\ UNCHANGED <<rxVars, genesisPc, storeVars, notified, calls>>

(* submit_transaction_inner: the send enqueues and, unless the sender      *)
(* parked, the handler answers Valid.  With the receiver gone the send     *)
(* fails and unwrap panics the handler.                                    *)
SubmitSend(h) ==
    /\ hpc[h] = "send"
    /\ IF ReceiverAlive
         THEN /\ Enqueue(h, hTx[h])
              /\ IF Parks
                   THEN /\ hpc' = [hpc EXCEPT ![h] = "parked"]
                        /\ UNCHANGED <<hTx, accepted>>
                   ELSE Answer(h)
         ELSE /\ hpc' = [hpc EXCEPT ![h] = "idle"] /\ hTx' = [hTx EXCEPT ![h] = NoTxn]
              /\ UNCHANGED <<chanVars, accepted>>
    /\ UNCHANGED <<rxVars, genesisPc, storeVars, notified, calls>>

(* A parked handler's block_on returns once the sender is unparked or the  *)
(* channel closed, and the handler answers Valid.                          *)
SubmitResume(h) ==
    /\ hpc[h] = "parked" /\ Unparked(h)
    /\ Answer(h)
    /\ UNCHANGED <<chanVars, rxVars, genesisPc, storeVars, notified, calls>>

(* A call that ends inside one critical section of state_db. *)
OneStepCall(h) ==
    /\ StartCall(h)
    /\ calls' = calls + 1
    /\ UNCHANGED <<chanVars, rxVars, genesisPc, hpc, hTx, notified, accepted, tx_db, applied>>

(* get_account_state_with_proof_by_state_root_inner and                    *)
(* state_by_access_path_inner: lock state_db, get_account_state().unwrap() *)
(* An absent account panics with the guard held.                           *)
ReadAccountState(a) ==
    IF "state_db" \notin poisoned /\ a \notin state_db
      THEN poisoned' = poisoned \cup {"state_db"}
      ELSE UNCHANGED poisoned

GetAccountStateWithProof(h, a) ==
    /\ OneStepCall(h)
    /\ ReadAccountState(a)
    /\ UNCHANGED state_db

StateByAccessPath(h, a) ==
    /\ OneStepCall(h)
    /\ ReadAccountState(a)
    /\ UNCHANGED state_db

(* faucet: lock state_db, create the account if it has no state, then      *)
(* unimplemented!() with the guard held.                                   *)
Faucet(h, a) ==
    /\ OneStepCall(h)
    /\ IF "state_db" \in poisoned
         THEN UNCHANGED <<state_db, poisoned>>
         ELSE /\ state_db' = state_db \cup {a}
              /\ poisoned' = poisoned \cup {"state_db"}

(* least_state_root: unimplemented!() before touching any lock. *)
LeastStateRoot(h) ==
    /\ OneStepCall(h)
    /\ UNCHANGED <<state_db, poisoned>>

(* Nothing is left to do: the calls are spent and every task that needs   *)
(* no wake-up waits.  Whether a parked sender is woken is SubmitReturns'   *)
(* question, not a deadlock.                                               *)
Quiescent ==
    /\ calls = MaxCalls
    /\ \A h \in Handlers : hpc[h] # "send"
    /\ genesisPc # "send"
    /\ rxPc \in {"next", "dead"}
    /\ rxPc = "next" => queue = << >>
    /\ UNCHANGED vars

Next ==
    \/ GenesisSend \/ GenesisResume \/ RxRecv \/ RxLockTx \/ RxApply
    \/ \E h \in Handlers :
         \/ \E t \in Txns \ {Genesis} : SubmitTransaction(h, t)
         \/ SubmitSend(h)
         \/ SubmitResume(h)
         \/ \E a \in Accounts : GetAccountStateWithProof(h, a)
         \/ \E a \in Accounts : StateByAccessPath(h, a)
         \/ \E a \in Accounts : Faucet(h, a)
         \/ LeastStateRoot(h)
    \/ Quiescent

(* The tokio tasks run whenever they can make progress, and a handler      *)
(* thread inside a call keeps running; a woken block_on resumes.  Nothing  *)
(* obliges a client to make a call.                                        *)
Fairness ==
    /\ WF_vars(GenesisSend) /\ WF_vars(GenesisResume) /\ WF_vars(RxRecv)
    /\ WF_vars(RxLockTx) /\ WF_vars(RxApply)
    /\ \A h \in Handlers : WF_vars(SubmitSend(h)) /\ WF_vars(SubmitResume(h))

Spec == Init /\ [][Next]_vars /\ Fairness

(***************************************************************************)
(* Properties.                                                             *)
(***************************************************************************)

(* Type invariant.  The channel holds at most the buffer plus one message  *)
(* per sender: a sender whose message went over the buffer is parked and   *)
(* sends nothing more until the receiver unparks it.                       *)
CSTypeOK ==
    /\ queue \in Seq(Txns) /\ Len(queue) <= ChanCap + Cardinality(Senders)
    /\ parkQ \in Seq(Senders)
    /\ rxPc \in {"next", "tx_lock", "state_lock", "dead"}
    /\ rxTx \in Txns \cup {NoTxn}
    /\ genesisPc \in {"send", "parked", "done", "panicked"}
    /\ tx_db \subseteq Txns /\ state_db \subseteq Accounts
    /\ poisoned \subseteq Locks
    /\ hpc \in [Handlers -> {"idle", "send", "parked"}]
    /\ hTx \in [Handlers -> Txns \cup {NoTxn}]
    /\ notified \subseteq Txns /\ accepted \subseteq Txns
    /\ applied \in [Txns -> 0..MaxCalls + 1]
    /\ calls \in 0..MaxCalls

(* A transaction submitted twice, and sitting in the channel twice, has    *)
(* its write set applied to state_db at most once: submit_transaction_real *)
(* checks exist_signed_transaction and records with insert_all under the   *)
(* same tx_db guard.                                                        *)
AppliedOnce == \A t \in Txns : applied[t] <= 1

(* Every submit_transaction call returns: a handler whose send parked it  *)
(* on a channel over its buffer is woken by a later receive or by the      *)
(* receiver closing the channel, so no gRPC thread stays in block_on.      *)
SubmitReturns == \A h \in Handlers : hpc[h] # "idle" ~> hpc[h] = "idle"

(* Every transaction that submit_transaction published to watchers is     *)
(* eventually recorded in tx_db, unless the receiver task has died: a      *)
(* watcher is never told of a transaction that a live ledger loses.        *)
NotifiedEventuallyRecorded ==
    \A t \in Txns : t \in notified ~> (t \in tx_db \/ rxPc = "dead")

(* A transaction answered MempoolAddTransactionStatusCode::Valid is       *)
(* eventually recorded in tx_db: the status tells the client the ledger    *)
(* took it, with no escape for a receiver task that a panic elsewhere      *)
(* ended.                                                                  *)
AcceptedEventuallyRecorded ==
    \A t \in Txns : t \in accepted ~> t \in tx_db
=============================================================================

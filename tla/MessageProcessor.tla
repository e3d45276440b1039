-------------------------- MODULE MessageProcessor --------------------------
(***************************************************************************)
(* MessageProcessor<K> of node_internal: a table from a correlation key to *)
(* one response slot (the sender half of a channel whose receiver is a     *)
(* MessageFuture).  message_processor.rs is not in this repository's src/, *)
(* so the operators follow spec.md 4.2, with the overwrite behaviour of    *)
(* add_future that spec.md 9 reports.                                      *)
(*                                                                         *)
(* A waiter is a record in the sequence `waiters`; its field `out` is what *)
(* its MessageFuture resolves to.  The table maps a key to the index of    *)
(* the waiter bound to it, or to NoWaiter.                                 *)
(*                                                                         *)
(* The operators below are values computed from the current table, so that *)
(* a module composing several nodes can instantiate this one per node:     *)
(* StarNode does, as MP(n), and its actions and properties are where the   *)
(* table is checked.                                                       *)
(***************************************************************************)
EXTENDS Naturals, Sequences

CONSTANTS
    Keys,         \* correlation keys (request ids)
    NoWaiter      \* the empty slot, 0

VARIABLE table

Outcomes == {"pending", "ok", "err", "timeout", "dropped"}

(* The waiter a delivery for key k reaches, if any. *)
Slot(k) == table[k]

(* Deliver outcome o to waiter w: what the channel send does to the        *)
(* MessageFuture.  A delivery to NoWaiter is the silent drop of spec 4.2.  *)
Deliver(ws, w, o) ==
    IF w = NoWaiter THEN ws
    ELSE [ws EXCEPT ![w].out = o]

(* add_future(k, tx): binds the slot of k to the new waiter w.  A waiter   *)
(* already bound to k loses its sender, so its future ends with an error.  *)
AddFuture(k, w) == [table EXCEPT ![k] = w]

DropPrevious(ws, k) == Deliver(ws, Slot(k), "dropped")

(* send_response(k, v) and future_error(msg): deliver to the slot of k and *)
(* empty it; remove_future(k), run by a timer task, does the same with the *)
(* timeout outcome.  All three are no-ops for an empty slot.               *)
RemoveFuture(k) == [table EXCEPT ![k] = NoWaiter]

=============================================================================

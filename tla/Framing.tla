------------------------------- MODULE Framing -------------------------------
(***************************************************************************)
(* The wire framing of node.rs (spec.md 6): a frame is a two-byte          *)
(* big-endian MessageType tag followed by the body.  add_message_type      *)
(* (1489-1495) builds a frame, parse_message_type (1483-1487) reads the    *)
(* tag back.  A frame is a sequence of bytes; the MessageType values are   *)
(* defined in sgtypes, outside this repository, and are a constant here.   *)
(***************************************************************************)
EXTENDS Naturals, Sequences

CONSTANT TypeTag  \* TypeTag[k]: MessageType::get_type() of the kind k

MessageKinds == DOMAIN TypeTag

ASSUME /\ TypeTag \in [MessageKinds -> 0..65535]
       /\ \A j, k \in MessageKinds : j # k => TypeTag[j] # TypeTag[k]

(* u16::to_be_bytes and u16::from_be_bytes. *)
ToBeBytes(t) == << t \div 256, t % 256 >>
FromBeBytes(b1, b2) == b1 * 256 + b2

AddMessageType(data, k) == ToBeBytes(TypeTag[k]) \o data

(* &data[0..2] panics on a frame shorter than two bytes, and              *)
(* MessageType::from_type(..).unwrap() on a tag no kind has: both are     *)
(* the result "panic".                                                     *)
ParseMessageType(data) ==
    IF Len(data) < 2 THEN "panic"
    ELSE LET t == FromBeBytes(data[1], data[2]) IN
         IF \E k \in MessageKinds : TypeTag[k] = t
         THEN CHOOSE k \in MessageKinds : TypeTag[k] = t
         ELSE "panic"

(* data[2..]: what handle_network_msg passes to the handler. *)
Body(data) == SubSeq(data, 3, Len(data))

(* The body of every message this code serialises is abstracted to the    *)
(* empty sequence; any other body fails from_proto_bytes.                  *)
Decodes(data) == Body(data) = << >>

=============================================================================

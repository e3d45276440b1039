----------------------------- MODULE MC_HtlcRelay -----------------------------
EXTENDS HtlcRelay, TLC, MC_Framing

CONSTANTS a, b, c

MCNodes == {a, b, c}
(* The route a -> b -> c of spec.md scenario B: c holds the invoice. *)
MCPath == <<a, b, c>>
MCReqs == {Segment(op, MCPath[i], MCPath[i + 1]) : op \in {"transfer"}, i \in 1..2}
          \cup {Segment("receive", MCPath[i + 1], MCPath[i]) : i \in 1..2}
MCInitiator == [r \in MCReqs |-> r.from]
MCResponder == [r \in MCReqs |-> r.to]
MCAllAuto == MCNodes
(* The relay leaves approval to its user. *)
MCRelayManual == {a, c}
(* The payee leaves approval to its user. *)
MCPayeeManual == {a, b}
=============================================================================

---------------------------- MODULE MC_StarNode ----------------------------
(* Two nodes, one request in each direction: a proposes r1 to b, which    *)
(* waits for its user (no auto_approve); b proposes r2 to a, which        *)
(* approves automatically.  Four futures are enough for a proposal, its   *)
(* resend at startup, and the user's approve and reject of it.            *)
EXTENDS StarNode, TLC, MC_Framing

CONSTANTS a, b, r1, r2

MCNodes == {a, b}
MCReqs == {r1, r2}
MCInitiator == (r1 :> a) @@ (r2 :> b)
MCResponder == (r1 :> b) @@ (r2 :> a)
MCAutoApprove == {a}
=============================================================================

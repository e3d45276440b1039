------------------------------ MODULE MC_NodeApi ------------------------------
EXTENDS NodeApi, TLC, MC_Framing

CONSTANTS a, b, r1, r2, c1, c2, c3

MCNodes == {a, b}
MCReqs == {r1, r2}
MCInitiator == (r1 :> a) @@ (r2 :> b)
MCResponder == (r1 :> b) @@ (r2 :> a)
MCAutoApprove == {a}
(* a opens a channel with b; b pays a; a reads its chain balance. *)
MCCalls == {c1, c2, c3}
MCCall == (c1 :> [kind |-> "open", node |-> a, req |-> r1])
       @@ (c2 :> [kind |-> "pay", node |-> b, req |-> r2])
       @@ (c3 :> [kind |-> "query", node |-> a])
=============================================================================

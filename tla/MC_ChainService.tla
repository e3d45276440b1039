--------------------------- MODULE MC_ChainService ---------------------------
(* Three handler threads, a genesis transaction creating the association      *)
(* account, a write set creating alice's account and a Program transaction. *)
EXTENDS ChainService, TLC

CONSTANTS g, t1, t2, assoc, alice, h1, h2, h3

MCTxns == {g, t1, t2}
MCPayload == [t \in MCTxns |-> IF t = t2 THEN "Program" ELSE "WriteSet"]
(* Every transaction a write set: no Program payload ends the receiver. *)
MCWriteSetsOnly == [t \in MCTxns |-> "WriteSet"]
MCCreates == (g :> {assoc}) @@ (t1 :> {alice}) @@ (t2 :> {})
MCHandlers == {h1, h2, h3}
=============================================================================

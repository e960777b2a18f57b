------------------------------ MODULE MCPipeline ------------------------------
(***************************************************************************)
(* An instance of Pipeline for TLC: with a base nonce of 1 the leader has  *)
(* the odd transactions.                                                   *)
(***************************************************************************)
EXTENDS Pipeline

MCTx == 0..5
MCNonce == [t \in MCTx |-> 1 + t]
=============================================================================

------------------------------ MODULE MCRestarts ------------------------------
(***************************************************************************)
(* An instance of Restarts for TLC: a transaction is its nonce.            *)
(***************************************************************************)
EXTENDS Restarts

MCTx == 0..1
MCNonce == [t \in MCTx |-> t]
=============================================================================

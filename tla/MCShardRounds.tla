--------------------------- MODULE MCShardRounds ---------------------------
(***************************************************************************)
(* Instances of ShardRounds for TLC.  A transaction is its nonce: with     *)
(* three shards and two transactions the leader and a follower have one    *)
(* each and the other follower's rounds are empty; with two shards and     *)
(* three transactions the leader has two of them.                          *)
(***************************************************************************)
EXTENDS ShardRoundsInv

MCTx == 0..2
MCNonce == [t \in MCTx |-> t]
TwoTx == 0..1
TwoNonce == [t \in TwoTx |-> t]
=============================================================================

------------------------------- MODULE BlockLog -------------------------------
(***************************************************************************)
(* What the shard workers and the assigner promise together: a batch is    *)
(* split among the shards, each transaction to the shard its nonce names   *)
(* and in the order of the batch, and the batches become blocks in the     *)
(* order they were dispatched, whole, each once.                           *)
(***************************************************************************)
EXTENDS Naturals, Selection

CONSTANTS
    NumShards,    \* the number of shards
    Nonce,        \* the nonce of each transaction
    Batches       \* the batches that may be dispatched

VARIABLES
    rounds,       \* the dispatched batches, each as one share per shard
    chain         \* the blocks, each as one share per shard

vars == <<rounds, chain>>

Mine(s) == {t \in DOMAIN Nonce : Nonce[t] % NumShards = s}

Share(batch, s) == [shard_id |-> s, txs |-> Chosen(batch, Mine(s))]

Split(batch) == {Share(batch, s) : s \in 0 .. NumShards - 1}

Init == rounds = <<>> /\ chain = <<>>

Dispatch(batch) ==
    /\ rounds' = Append(rounds, Split(batch))
    /\ UNCHANGED chain

Finalize ==
    /\ Len(chain) < Len(rounds)
    /\ chain' = Append(chain, rounds[Len(chain) + 1])
    /\ UNCHANGED rounds

Next == (\E batch \in Batches : Dispatch(batch)) \/ Finalize

SafeSpec == Init /\ [][Next]_vars

Spec == SafeSpec /\ WF_vars(Finalize)
=============================================================================

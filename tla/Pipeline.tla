------------------------------- MODULE Pipeline -------------------------------
(***************************************************************************)
(* The whole system: Submission and ShardRounds joined where the receiver  *)
(* calls shard_assigner_dispatch (src/src/receiver.c, run_election_and_    *)
(* dispatch): the drained transactions are what the assigner sends out,    *)
(* and the receiver answers no request before the dispatch has returned.   *)
(***************************************************************************)
EXTENDS Submission, ShardRoundsInv

CONSTANT base_nonce   \* --base-nonce

\* The generator numbers its transactions (main.c:173), both programs are given
\* the same --num-shards, and a drained block comes out of the mempool.
ASSUME NumberedAssumption ==
    /\ base_nonce \in Nat
    /\ Tx = 0 .. total_count - 1
    /\ Nonce = [t \in Tx |-> base_nonce + t]
ASSUME OneNumShards == NumShards = num_shards
ASSUME DrainedFit == MaxBatch >= capacity

pipelineVars == <<submissionVars, vars>>

\* The call: the drain feeds the assigner, whose first send it is.
CallDispatch ==
    /\ Dispatch
    /\ IF up' THEN SendDispatchHeader(Drained(mempool, Exact))
              ELSE UNCHANGED vars

\* The reply waits for the return.
ReplyAfterReturn == ~dispatching /\ SendReply /\ UNCHANGED vars

WorkerStep ==
    \/ AssignerStep
    \/ LeaderStep
    \/ \E f \in Followers : FollowerStep(f) \/ Subscribe(f)

\* The generator has ended and every process waits for input.
PipelineIdle ==
    Idle /\ ~dispatching /\ Len(blocks) = round_number /\ UNCHANGED vars

PipelineInit == SubmissionInit /\ Init

PipelineNext ==
    \/ \E t \in Threads : (ThreadStep(t) \/ RecvTimeout(t) \/ RecvBatch(t))
                          /\ UNCHANGED vars
    \/ CallDispatch
    \/ ReplyAfterReturn
    \/ WorkerStep /\ UNCHANGED submissionVars
    \/ PipelineIdle

\* The fairness of the two parts.
PipelineFairness ==
    /\ \A t \in Threads :
         /\ WF_pipelineVars(ThreadStep(t) /\ UNCHANGED vars)
         /\ WF_pipelineVars(RecvBatch(t) /\ UNCHANGED vars)
    /\ WF_pipelineVars(CallDispatch \/ ReplyAfterReturn)
    /\ WF_pipelineVars(AssignerStep /\ UNCHANGED submissionVars)
    /\ WF_pipelineVars(LeaderStep /\ UNCHANGED submissionVars)
    /\ \A f \in Followers :
         /\ WF_pipelineVars(FollowerStep(f) /\ UNCHANGED submissionVars)
         /\ WF_pipelineVars(Subscribe(f) /\ UNCHANGED submissionVars)

PipelineSpec == PipelineInit /\ [][PipelineNext]_pipelineVars /\ PipelineFairness

-----------------------------------------------------------------------------
\* Block r holds, for each shard, the transactions of the r-th drain whose nonce
\* names the shard, in the order the mempool took them.
BlocksMatchPool ==
    \A r \in 1..Len(blocks) : \A s \in Shards :
        \E i \in 1..Len(blocks[r].parts) :
            blocks[r].parts[i] = ShardSummary(s, Chosen(dispatched[r], Mine(s)))

\* No transaction is in two blocks, in two shards' parts of one, or twice in a
\* part: the mempool that is cleared, the streams that carry several rounds and
\* the summaries collected in any order, together.
InBlocksOnce ==
    \A r, q \in 1..Len(blocks) :
    \A i \in 1..Len(blocks[r].parts), j \in 1..Len(blocks[q].parts) :
        LET mine == blocks[r].parts[i].txs
            other == blocks[q].parts[j].txs
        IN  \A k \in 1..Len(mine), l \in 1..Len(other) :
                mine[k] = other[l] => <<r, i, k>> = <<q, j, l>>

\* A transaction the receiver accepted reaches a block, unless it stays behind
\* in a mempool that no longer fills: from the generator to the leader nothing
\* is lost when the sizes divide each other.
InBlock(t) ==
    \E r \in 1..Len(blocks) : \E i \in 1..Len(blocks[r].parts) :
        t \in ToSet(blocks[r].parts[i].txs)
EveryAcceptedInBlock ==
    <>[](\A t \in ToSet(added) \ ToSet(mempool) : InBlock(t))

\* The generator ends although the receiver answers only after a dispatch, and
\* a dispatch may wait for the workers.
GeneratorEnds == <>AllDone
=============================================================================

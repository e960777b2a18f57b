------------------------------- MODULE Restarts -------------------------------
(***************************************************************************)
(* The round protocol when the receiver or a follower ends and is started  *)
(* again (scripts/run_shards.sh starts them; nothing in the code recovers  *)
(* a round).  A new receiver counts rounds from 0 over a new connection;   *)
(* what its predecessor had delivered still waits at the workers, and a    *)
(* PULL socket takes from both connections in turn.  A new follower has an *)
(* empty socket; the assigner reconnects and goes on with what it had not  *)
(* delivered.                                                              *)
(***************************************************************************)
EXTENDS ShardRoundsInv, FiniteSets

CONSTANTS
    MaxDispatches,    \* bound: rounds dispatched by both receivers together
    MaxRestarts       \* bound: restarts of any process

ASSUME RestartBoundsAssumption == {MaxDispatches, MaxRestarts} \subseteq Nat

VARIABLES
    leftover,         \* delivered to each worker by the receiver that ended
    leftover_done,    \* the same, on the leader's pull_done
    sent_before,      \* history: what that receiver sent
    restarted         \* the processes that have been restarted, each once

restartVars == <<leftover, leftover_done, sent_before, restarted>>
allVars == <<vars, restartVars>>

Receiver == -1

\* What the workers do when they take from the old connection.
Old == INSTANCE ShardRounds WITH
    pull_tx <- leftover, pull_done <- leftover_done

\* A batch under way is lost with the mempool; of what was sent, a beginning
\* has arrived.
RestartReceiver ==
    /\ Receiver \notin restarted /\ Cardinality(restarted) < MaxRestarts
    /\ restarted' = restarted \cup {Receiver}
    /\ dispatching' = FALSE
    /\ round_number' = 0
    /\ drain_buf' = <<>>
    /\ assigned_counts' = FreshCounts
    /\ next_end' = 0
    /\ leftover' \in {q \in [Shards -> UNION {Prefixes(pull_tx[s]) : s \in Shards}] :
                        \A s \in Shards : IsPrefix(q[s], pull_tx[s])}
    /\ leftover_done' \in Prefixes(pull_done)
    /\ pull_tx' = [s \in Shards |-> <<>>]
    /\ pull_done' = <<>>
    /\ sent_before' = sent
    /\ sent' = <<>>
    /\ UNCHANGED <<sub, pull_results, subscribed, pc, announced, processVars,
                   leaderVars, reported>>

\* What had arrived is lost, and so is a summary that had not left.
RestartFollower(f) ==
    /\ f \notin restarted /\ Cardinality(restarted) < MaxRestarts
    /\ restarted' = restarted \cup {f}
    /\ pc' = [pc EXCEPT ![f] = "sub"]
    /\ subscribed' = subscribed \ {f}
    /\ sub' = [sub EXCEPT ![f] = <<>>]
    /\ \E q \in Suffixes(pull_tx[f]) : pull_tx' = [pull_tx EXCEPT ![f] = q]
    /\ leftover' = [leftover EXCEPT ![f] = <<>>]
    /\ \E q \in Prefixes(pull_results[f]) :
         pull_results' = [pull_results EXCEPT ![f] = q]
    /\ UNCHANGED <<assignerVars, pull_done, announced, processVars, leaderVars,
                   reported, leftover_done, sent_before>>

\* A worker's steps that may take from the old connection.
TakeOld ==
    /\ \E s \in Shards : Old!RecvTx(s)
       \/ Old!RecvDispatchHeader
       \/ Old!RecvDispatchDone
    /\ UNCHANGED <<pull_tx, pull_done, sent_before, restarted>>

RestartInit ==
    /\ Init
    /\ leftover = [s \in Shards |-> <<>>]
    /\ leftover_done = <<>>
    /\ sent_before = <<>>
    /\ restarted = {}

RestartNext ==
    \/ Next /\ Len(sent_before \o sent') <= MaxDispatches /\ UNCHANGED restartVars
    \/ TakeOld
    \/ RestartReceiver
    \/ \E f \in Followers : RestartFollower(f)

RestartSpec == RestartInit /\ [][RestartNext]_allVars

-----------------------------------------------------------------------------
\* The leader assembles a block from num_shards summaries by arrival and looks
\* at no shard_id (shard_worker.c:255); whatever restarts, they are of different
\* shards: a follower that was restarted never answers one announcement twice,
\* nor is an answer left over for a later round.
OneSummaryPerShard ==
    \A r \in 1..Len(blocks) :
        {blocks[r].parts[i].shard_id : i \in 1..Len(blocks[r].parts)} = Shards

\* Whatever restarts, the summaries the leader has are of different shards, its
\* own first.
CollectedOnce ==
    /\ pc[Leader] # "sub"
    /\ pc[Leader] # "collect" => summaries = <<>>
    /\ pc[Leader] = "collect" =>
         summaries # <<>> /\ summaries[1].shard_id = Leader
    /\ Len(summaries) <= NumShards
    /\ \A i \in 2..Len(summaries) : summaries[i].shard_id \in Followers
    /\ \A i, j \in 1..Len(summaries) :
         summaries[i].shard_id = summaries[j].shard_id => i = j

\* What a follower may do about the announced round while the leader lacks its
\* summary: hear of it, work on it, have answered.
Called(f) == pc[f] = "sub" /\ Len(sub[f]) = 1 /\ pull_results[f] = <<>>
Working(f) == pc[f] = "process" /\ sub[f] = <<>> /\ pull_results[f] = <<>>
Answered(f) ==
    /\ pc[f] = "sub"
    /\ sub[f] = <<>>
    /\ Len(pull_results[f]) = 1
    /\ Head(pull_results[f]).shard_id = f

\* It has answered and been counted, or was restarted, or heard of no round.
Silent(f) == pc[f] = "sub" /\ sub[f] = <<>> /\ pull_results[f] = <<>>

AnswersOnce ==
    \A f \in Followers :
        \/ Silent(f)
        \/ Announced /\ ~Collected(f) /\ (Called(f) \/ Working(f) \/ Answered(f))

\* The type of every variable, of those of the restarts too.
RestartTypeOK ==
    /\ TypeOK
    /\ leftover \in [Shards -> Seq(Message)]
    /\ leftover_done \in Seq(1..MaxRounds)
    /\ sent_before \in Seq([Shards -> Seq(Tx)])
    /\ restarted \subseteq Followers \cup {Receiver}

\* The inductive invariant: restarts mix rounds on the streams, but not on the
\* sockets between the leader and a follower.
AnswersInv == RestartTypeOK /\ CollectedOnce /\ AnswersOnce /\ OneSummaryPerShard

\* How often shard s was sent t, and how often its summaries count it.
Times(t, txs) == Cardinality({i \in 1..Len(txs) : txs[i] = t})
TimesSent(rounds, s, t) == Times(t, FlattenSeq([r \in 1..Len(rounds) |-> rounds[r][s]]))
PartOf(s, block) ==
    FlattenSeq([i \in 1..Len(block.parts) |->
                  IF block.parts[i].shard_id = s THEN block.parts[i].txs ELSE <<>>])
TimesInBlocks(s, t) ==
    Times(t, FlattenSeq([r \in 1..Len(blocks) |-> PartOf(s, blocks[r])]))

\* Rounds of two receivers may be mixed in one block after a restart, and
\* transactions lost; but none is counted more often than it was sent.
NothingTwice ==
    \A s \in Shards : \A t \in Tx :
        TimesInBlocks(s, t) <= TimesSent(sent_before, s, t) + TimesSent(sent, s, t)
=============================================================================

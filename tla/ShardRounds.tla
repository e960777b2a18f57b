----------------------------- MODULE ShardRounds -----------------------------
(***************************************************************************)
(* The round protocol between the receiver's shard assigner and the shard  *)
(* workers (src/src/shard_assigner.c, src/src/shard_worker.c): the assigner *)
(* streams a batch of transactions to the shards, the leader (shard 0)     *)
(* announces the round once everything is sent, every shard drains its     *)
(* stream up to the round's RoundEnd, and the leader assembles a block     *)
(* from one ShardSummary per shard.                                        *)
(*                                                                         *)
(* A ZMQ PUSH/PULL pair over one TCP connection is a lossless FIFO queue,  *)
(* and a PUB drops what it publishes for a SUB that has not joined yet.    *)
(* A transaction stands for its struct, its hash and its fee; a shard's    *)
(* merkle root is a hash chain over its transactions in order, so the      *)
(* sequence of transactions itself stands for it.                          *)
(***************************************************************************)
EXTENDS Integers, Sequences

CONSTANTS
    NumShards,        \* --num-shards, the same for receiver and workers
    Tx,               \* the transactions a mempool may hand to the assigner
    Nonce,            \* the nonce of each transaction
    MaxBatch,         \* bound: transactions drained in one round
    MaxRounds,        \* bound: rounds the assigner dispatches
    DoneHwm,          \* messages the done_sock pipe holds before a send blocks
    SubWaitSuffices   \* whether the leader's usleep outlasts every SUB connect

ASSUME NumShardsAssumption == NumShards \in Nat \ {0}
ASSUME NonceAssumption == Nonce \in [Tx -> Nat]
ASSUME BoundsAssumption ==
    /\ MaxBatch \in Nat \ {0}
    /\ MaxRounds \in Nat
    /\ DoneHwm \in Nat \ {0}
    /\ SubWaitSuffices \in BOOLEAN

Shards == 0 .. NumShards - 1
Leader == 0
Followers == Shards \ {Leader}

\* What mempool_drain can return: it is called only when the pool is not empty.
Batches == UNION {[1..n -> Tx] : n \in 1..MaxBatch}

VARIABLES
    \* ShardAssigner and the locals of shard_assigner_dispatch
    dispatching,      \* control is inside shard_assigner_dispatch
    round_number,     \* sa->round_number
    drain_buf,        \* the drained transactions still to be sent
    assigned_counts,  \* sa->assigned_counts
    next_end,         \* the shard whose RoundEnd is sent next
    \* queues, named after the socket that reads them
    pull_tx,          \* one per shard: assigner -> worker
    pull_done,        \* assigner -> leader
    sub,              \* one per follower: leader -> follower
    pull_results,     \* one per follower: follower -> leader
    subscribed,       \* the followers whose SUB the leader's PUB knows
    \* shard workers
    pc,               \* where each worker's loop is
    round,            \* the leader's round
    announced,        \* the round a follower parsed out of ROUND_START
    tx_buf,           \* locals of process_transactions, one set per worker
    expected,
    got_end,
    summaries,        \* the leader's array of ShardSummary
    \* history
    blocks,           \* the blocks the leader has finalized
    sent,             \* sent[r][s]: what round r sent to shard s
    reported          \* how many rounds each worker has completed

assignerVars == <<dispatching, round_number, drain_buf, assigned_counts,
                  next_end, sent>>
processVars == <<tx_buf, expected, got_end>>
leaderVars == <<round, summaries, blocks>>
vars == <<assignerVars, pull_tx, pull_done, sub, pull_results, subscribed,
          pc, announced, processVars, leaderVars, reported>>

-----------------------------------------------------------------------------
(***************************************************************************)
(* Messages on a shard's transaction stream.  The workers tell them apart  *)
(* by size alone; the fields round and n of a transaction message are      *)
(* auxiliary (the struct carries only the transaction and its key): they   *)
(* record that it is the n-th one round sent to this shard.                *)
(***************************************************************************)
DispatchHeader(r) == [kind |-> "header", round |-> r]
TxWithPubkey(t, r, n) == [kind |-> "tx", round |-> r, n |-> n, tx |-> t]
(***************************************************************************)
(* Seeded faults: variants of definitions below that a slip in the code    *)
(* could produce.  The specification does not use them; the runs of the    *)
(* project substitute them one at a time to show that each property fails. *)
(***************************************************************************)
FaultyRoundEndShort(r, n) == [kind |-> "end", round |-> r, n |-> n - 1]
FaultyStaleCounts == assigned_counts
FaultyTxHwm == 1
FaultyLoopDoneNoEnd(s) == Len(tx_buf[s]) >= expected[s]
FaultyAllCollected == Len(summaries) >= NumShards - 1
FaultyAllEndsSent == drain_buf = <<>>
FaultyEnterProcess(s) ==
    /\ pc' = [pc EXCEPT ![s] = "process"]
    /\ got_end' = [got_end EXCEPT ![s] = FALSE]
    /\ UNCHANGED <<tx_buf, expected>>
\* A follower that sends its summary again to be sure that one arrives.
FaultyPushSummary(f) ==
    /\ pc[f] = "process"
    /\ got_end[f] /\ Len(tx_buf[f]) >= expected[f]
    /\ pull_results' = [pull_results EXCEPT ![f] =
                          @ \o [i \in 1..2 |-> [shard_id |-> f, txs |-> tx_buf[f]]]]
    /\ reported' = [reported EXCEPT ![f] = @ + 1]
    /\ pc' = [pc EXCEPT ![f] = "sub"]
    /\ UNCHANGED <<assignerVars, pull_tx, pull_done, sub, subscribed,
                   announced, processVars, leaderVars>>

-----------------------------------------------------------------------------
RoundEnd(r, n) == [kind |-> "end", round |-> r, n |-> n]

ShardSummary(s, txs) == [shard_id |-> s, txs |-> txs]

Block(r, parts) == [block_number |-> r, parts |-> parts]

shard_for_tx(t) == Nonce[t] % NumShards

\* ZMQ_SNDHWM and ZMQ_RCVHWM of the transaction streams: 0 is unlimited.
TxHwm == 0

\* zmq_send on a PUSH socket blocks while the pipe is at its high-water mark.
CanSend(queue, hwm) == hwm = 0 \/ Len(queue) < hwm

Put(s, m) ==
    /\ CanSend(pull_tx[s], TxHwm)
    /\ pull_tx' = [pull_tx EXCEPT ![s] = Append(@, m)]

Take(s) == pull_tx' = [pull_tx EXCEPT ![s] = Tail(@)]

Goto(s, l) == pc' = [pc EXCEPT ![s] = l]

-----------------------------------------------------------------------------
(***************************************************************************)
(* shard_assigner_dispatch, one zmq_send at a time: the workers run        *)
(* between any two of them.                                                *)
(***************************************************************************)

\* The memset that opens a dispatch.
FreshCounts == [s \in Shards |-> 0]

SendDispatchHeader(batch) ==
    /\ ~dispatching
    /\ round_number < MaxRounds
    /\ dispatching' = TRUE
    /\ assigned_counts' = FreshCounts
    /\ round_number' = round_number + 1
    /\ Put(Leader, DispatchHeader(round_number'))
    /\ drain_buf' = batch
    /\ sent' = Append(sent, [s \in Shards |-> <<>>])
    /\ UNCHANGED <<next_end, pull_done, sub, pull_results, subscribed, pc,
                   announced, processVars, leaderVars, reported>>

SendTx ==
    /\ dispatching
    /\ drain_buf # <<>>
    /\ LET t == Head(drain_buf)
           s == shard_for_tx(t)
       IN  /\ Put(s, TxWithPubkey(t, round_number, assigned_counts[s] + 1))
           /\ assigned_counts' = [assigned_counts EXCEPT ![s] = @ + 1]
           /\ sent' = [sent EXCEPT ![round_number][s] = Append(@, t)]
    /\ drain_buf' = Tail(drain_buf)
    /\ UNCHANGED <<dispatching, round_number, next_end, pull_done, sub,
                   pull_results, subscribed, pc, announced, processVars,
                   leaderVars, reported>>

\* The end of the loop over the shards.
AllEndsSent == next_end >= NumShards

SendRoundEnd ==
    /\ dispatching
    /\ drain_buf = <<>>
    /\ ~AllEndsSent
    /\ Put(next_end, RoundEnd(round_number, assigned_counts[next_end]))
    /\ next_end' = next_end + 1
    /\ UNCHANGED <<dispatching, round_number, drain_buf, assigned_counts, sent,
                   pull_done, sub, pull_results, subscribed, pc, announced,
                   processVars, leaderVars, reported>>

SendDispatchDone ==
    /\ dispatching
    /\ AllEndsSent
    /\ CanSend(pull_done, DoneHwm)
    /\ pull_done' = Append(pull_done, round_number)
    /\ next_end' = 0
    /\ dispatching' = FALSE
    /\ UNCHANGED <<round_number, drain_buf, assigned_counts, sent, pull_tx,
                   sub, pull_results, subscribed, pc, announced, processVars,
                   leaderVars, reported>>

-----------------------------------------------------------------------------
(***************************************************************************)
(* process_transactions: shared by the leader and the followers.           *)
(***************************************************************************)

\* Entering it resets its locals.
EnterProcess(s) ==
    /\ Goto(s, "process")
    /\ tx_buf' = [tx_buf EXCEPT ![s] = <<>>]
    /\ expected' = [expected EXCEPT ![s] = 0]
    /\ got_end' = [got_end EXCEPT ![s] = FALSE]

\* The negation of the receive loop's condition.
LoopDone(s) == got_end[s] /\ Len(tx_buf[s]) >= expected[s]

\* One iteration; a message of any other size is dropped.
RecvTx(s) ==
    /\ pc[s] = "process"
    /\ ~LoopDone(s)
    /\ pull_tx[s] # <<>>
    /\ Take(s)
    /\ LET m == Head(pull_tx[s])
       IN  /\ expected' = IF m.kind = "end"
                          THEN [expected EXCEPT ![s] = m.n] ELSE expected
           /\ got_end' = IF m.kind = "end"
                         THEN [got_end EXCEPT ![s] = TRUE] ELSE got_end
           /\ tx_buf' = IF m.kind = "tx"
                        THEN [tx_buf EXCEPT ![s] = Append(@, m.tx)] ELSE tx_buf
    /\ UNCHANGED <<assignerVars, pull_done, sub, pull_results, subscribed, pc,
                   announced, leaderVars, reported>>

-----------------------------------------------------------------------------
(***************************************************************************)
(* run_leader.                                                             *)
(***************************************************************************)

\* The end of the usleep that gives the followers time to connect.
LeaderReady ==
    /\ pc[Leader] = "connect"
    /\ SubWaitSuffices => subscribed = Followers
    /\ Goto(Leader, "header")
    /\ UNCHANGED <<assignerVars, pull_tx, pull_done, sub, pull_results,
                   subscribed, announced, processVars, leaderVars, reported>>

\* Any message is taken for the start of a round, a DispatchHeader or not.
RecvDispatchHeader ==
    /\ pc[Leader] = "header"
    /\ pull_tx[Leader] # <<>>
    /\ LET m == Head(pull_tx[Leader])
       IN  round' = IF m.kind = "header" THEN m.round ELSE round + 1
    /\ Take(Leader)
    /\ Goto(Leader, "done")
    /\ UNCHANGED <<assignerVars, pull_done, sub, pull_results, subscribed,
                   announced, processVars, summaries, blocks, reported>>

RecvDispatchDone ==
    /\ pc[Leader] = "done"
    /\ pull_done # <<>>
    /\ pull_done' = Tail(pull_done)
    /\ Goto(Leader, "publish")
    /\ UNCHANGED <<assignerVars, pull_tx, sub, pull_results, subscribed,
                   announced, processVars, leaderVars, reported>>

\* A follower that has not joined misses the announcement for good.
PublishRoundStart ==
    /\ pc[Leader] = "publish"
    /\ sub' = [f \in Followers |->
                 IF f \in subscribed THEN Append(sub[f], round) ELSE sub[f]]
    /\ EnterProcess(Leader)
    /\ UNCHANGED <<assignerVars, pull_tx, pull_done, pull_results, subscribed,
                   announced, leaderVars, reported>>

OwnSummary ==
    /\ pc[Leader] = "process"
    /\ LoopDone(Leader)
    /\ summaries' = <<ShardSummary(Leader, tx_buf[Leader])>>
    /\ reported' = [reported EXCEPT ![Leader] = @ + 1]
    /\ Goto(Leader, "collect")
    /\ UNCHANGED <<assignerVars, pull_tx, pull_done, sub, pull_results,
                   subscribed, announced, processVars, round, blocks>>

\* The negation of the collecting loop's condition.
AllCollected == Len(summaries) >= NumShards

\* The PULL socket takes from whichever follower has a summary waiting.
CollectSummary(f) ==
    /\ pc[Leader] = "collect"
    /\ ~AllCollected
    /\ pull_results[f] # <<>>
    /\ summaries' = Append(summaries, Head(pull_results[f]))
    /\ pull_results' = [pull_results EXCEPT ![f] = Tail(@)]
    /\ UNCHANGED <<assignerVars, pull_tx, pull_done, sub, subscribed, pc,
                   announced, processVars, round, blocks, reported>>

FinalizeBlock ==
    /\ pc[Leader] = "collect"
    /\ AllCollected
    /\ blocks' = Append(blocks, Block(round, summaries))
    /\ summaries' = <<>>
    /\ Goto(Leader, "header")
    /\ UNCHANGED <<assignerVars, pull_tx, pull_done, sub, pull_results,
                   subscribed, announced, processVars, round, reported>>

-----------------------------------------------------------------------------
(***************************************************************************)
(* run_follower.                                                           *)
(***************************************************************************)

\* The subscription reaches the leader's PUB some time after zmq_connect.
Subscribe(f) ==
    /\ f \notin subscribed
    /\ subscribed' = subscribed \cup {f}
    /\ UNCHANGED <<assignerVars, pull_tx, pull_done, sub, pull_results, pc,
                   announced, processVars, leaderVars, reported>>

RecvRoundStart(f) ==
    /\ pc[f] = "sub"
    /\ sub[f] # <<>>
    /\ announced' = [announced EXCEPT ![f] = Head(sub[f])]
    /\ sub' = [sub EXCEPT ![f] = Tail(@)]
    /\ EnterProcess(f)
    /\ UNCHANGED <<assignerVars, pull_tx, pull_done, pull_results, subscribed,
                   leaderVars, reported>>

PushSummary(f) ==
    /\ pc[f] = "process"
    /\ LoopDone(f)
    /\ pull_results' = [pull_results EXCEPT
                          ![f] = Append(@, ShardSummary(f, tx_buf[f]))]
    /\ reported' = [reported EXCEPT ![f] = @ + 1]
    /\ Goto(f, "sub")
    /\ UNCHANGED <<assignerVars, pull_tx, pull_done, sub, subscribed,
                   announced, processVars, leaderVars>>

-----------------------------------------------------------------------------
Init ==
    /\ dispatching = FALSE
    /\ round_number = 0
    /\ drain_buf = <<>>
    /\ assigned_counts = [s \in Shards |-> 0]
    /\ next_end = 0
    /\ pull_tx = [s \in Shards |-> <<>>]
    /\ pull_done = <<>>
    /\ sub = [f \in Followers |-> <<>>]
    /\ pull_results = [f \in Followers |-> <<>>]
    /\ subscribed = {}
    /\ pc = [s \in Shards |-> IF s = Leader THEN "connect" ELSE "sub"]
    /\ round = 0
    /\ announced = [f \in Followers |-> 0]
    /\ tx_buf = [s \in Shards |-> <<>>]
    /\ expected = [s \in Shards |-> 0]
    /\ got_end = [s \in Shards |-> FALSE]
    /\ summaries = <<>>
    /\ blocks = <<>>
    /\ sent = <<>>
    /\ reported = [s \in Shards |-> 0]

AssignerStep == SendTx \/ SendRoundEnd \/ SendDispatchDone

LeaderStep ==
    \/ LeaderReady
    \/ RecvDispatchHeader
    \/ RecvDispatchDone
    \/ PublishRoundStart
    \/ RecvTx(Leader)
    \/ OwnSummary
    \/ \E f \in Followers : CollectSummary(f)
    \/ FinalizeBlock

FollowerStep(f) == RecvRoundStart(f) \/ RecvTx(f) \/ PushSummary(f)

\* The bound MaxRounds is reached and every process waits for input.
Quiescent ==
    /\ round_number = MaxRounds
    /\ Len(blocks) = MaxRounds
    /\ ~dispatching
    /\ UNCHANGED vars

Next ==
    \/ \E batch \in Batches : SendDispatchHeader(batch)
    \/ AssignerStep
    \/ LeaderStep
    \/ \E f \in Followers : FollowerStep(f) \/ Subscribe(f)
    \/ Quiescent

Spec == Init /\ [][Next]_vars

(***************************************************************************)
(* Each process is a loop over blocking calls that the operating system    *)
(* schedules, and libzmq keeps retrying a connect, so each process that    *)
(* can go on eventually does.  Nothing obliges a batch to be dispatched.   *)
(***************************************************************************)
Fairness ==
    /\ WF_vars(AssignerStep)
    /\ WF_vars(LeaderStep)
    /\ \A f \in Followers : WF_vars(FollowerStep(f)) /\ WF_vars(Subscribe(f))

FairSpec == Spec /\ Fairness
-----------------------------------------------------------------------------
Message ==
         [kind : {"header"}, round : 1..MaxRounds]
    \cup [kind : {"tx"}, round : 1..MaxRounds, n : Nat \ {0}, tx : Tx]
    \cup [kind : {"end"}, round : 1..MaxRounds, n : Nat]

Summary == [shard_id : Shards, txs : Seq(Tx)]

AssignerTypes ==
    /\ dispatching \in BOOLEAN
    /\ round_number \in 0..MaxRounds
    /\ dispatching => round_number > 0
    /\ drain_buf \in Seq(Tx)
    /\ assigned_counts \in [Shards -> Nat]
    /\ next_end \in 0..NumShards
    /\ sent \in Seq([Shards -> Seq(Tx)])
    /\ Len(sent) = round_number

QueueTypes ==
    /\ pull_tx \in [Shards -> Seq(Message)]
    /\ pull_done \in Seq(1..MaxRounds)
    /\ sub \in [Followers -> Seq(Nat)]
    /\ pull_results \in [Followers -> Seq(Summary)]

WorkerTypes ==
    /\ subscribed \subseteq Followers
    /\ pc \in [Shards -> {"connect", "header", "done", "publish",
                          "process", "collect", "sub"}]
    /\ announced \in [Followers -> Nat]
    /\ reported \in [Shards -> Nat]

ProcessTypes ==
    /\ tx_buf \in [Shards -> Seq(Tx)]
    /\ expected \in [Shards -> Nat]
    /\ got_end \in [Shards -> BOOLEAN]

LeaderTypes ==
    /\ round \in Nat
    /\ summaries \in Seq(Summary)
    /\ blocks \in Seq([block_number : Nat, parts : Seq(Summary)])

\* The type of every variable.
TypeOK ==
    AssignerTypes /\ QueueTypes /\ WorkerTypes /\ ProcessTypes /\ LeaderTypes

\* Block r is numbered r and made of one summary per shard, each of exactly the
\* transactions the assigner sent that shard in round r, although the leader
\* takes summaries in whatever order they come and never checks their origin.
BlocksExact ==
    \A r \in 1..Len(blocks) :
        /\ blocks[r].block_number = r
        /\ Len(blocks[r].parts) = NumShards
        /\ \A s \in Shards : \E i \in 1..NumShards :
               blocks[r].parts[i] = ShardSummary(s, sent[r][s])

\* A follower never compares the round it heard announced with the round of
\* the RoundEnd it stops at; still, what it has received of its stream is a
\* prefix of what that very round sent it, and all of it at the RoundEnd.
RoundAgreement ==
    \A f \in Followers : pc[f] = "process" =>
        /\ announced[f] \in 1..Len(sent)
        /\ LET all == sent[announced[f]][f]
           IN  /\ Len(tx_buf[f]) <= Len(all)
               /\ tx_buf[f] = SubSeq(all, 1, Len(tx_buf[f]))
               /\ got_end[f] => tx_buf[f] = all

\* The leader takes any message for a DispatchHeader when it waits for one, and
\* drops one met while processing; neither ever happens.
HeaderAligned ==
    pull_tx[Leader] # <<>> =>
        LET m == Head(pull_tx[Leader])
        IN  /\ pc[Leader] = "header" => m.kind = "header"
            /\ pc[Leader] = "process" /\ ~LoopDone(Leader) => m.kind # "header"

\* Waiting for DispatchDone before announcing takes dispatch out of the measured
\* processing time: whatever a worker still needs to end its round has been
\* sent before it starts.
NeverStarved ==
    \A s \in Shards : pc[s] = "process" => LoopDone(s) \/ pull_tx[s] # <<>>

\* The leader and each follower are in lock step: of an announcement, a round
\* in progress and a summary, at most one exists at a time, so the default
\* high-water marks of those sockets are never reached and no announcement is
\* dropped or left over for a later round.
LockStep ==
    \A f \in Followers :
        Len(sub[f]) + Len(pull_results[f])
            + (IF pc[f] = "process" THEN 1 ELSE 0) <= 1

\* "Wait for all followers to connect their SUB sockets before first publish":
\* the comment on the leader's usleep (shard_worker.c:197).
AllJoinedBeforePublish == pc[Leader] = "publish" => subscribed = Followers

\* Every round the assigner starts becomes a block: nobody waits forever.
EveryRoundFinalized ==
    \A r \in 1..MaxRounds : (round_number >= r) ~> (Len(blocks) >= r)

(***************************************************************************)
(* The abstract specification.  A round is dispatched when its             *)
(* DispatchDone is sent, and a block is the set of its summaries.          *)
(***************************************************************************)
Dispatched == Len(sent) - (IF dispatching THEN 1 ELSE 0)

DispatchedRounds ==
    [r \in 1..Dispatched |-> {ShardSummary(s, sent[r][s]) : s \in Shards}]

BlockParts ==
    [r \in 1..Len(blocks) |->
        {blocks[r].parts[i] : i \in 1..Len(blocks[r].parts)}]

Log == INSTANCE BlockLog WITH rounds <- DispatchedRounds, chain <- BlockParts

\* The round protocol implements BlockLog: batches become blocks in order,
\* whole and once, and no dispatched batch waits forever.
ImplementsBlockLog == Log!Spec
=============================================================================

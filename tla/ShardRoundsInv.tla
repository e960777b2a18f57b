---------------------------- MODULE ShardRoundsInv ----------------------------
(***************************************************************************)
(* The inductive invariant of ShardRounds, in named parts: TLC checks it   *)
(* on small instances, ShardRoundsProofs proves it inductive.              *)
(*                                                                         *)
(* The core is a notion of place on a shard's stream.  The place <<r, n>>  *)
(* is where the reader has n transactions of round r and not yet its       *)
(* RoundEnd; the leader's stream has a place <<r, -1>> before round r's    *)
(* header.  A queue is a chain of messages from the place of its reader to *)
(* the place of the assigner.                                              *)
(***************************************************************************)
EXTENDS ShardRounds, Selection

Start(s, r) == <<r, IF s = Leader THEN -1 ELSE 0>>

\* The message that may come at a place, and the place after it.
Fits(m, p) ==
    /\ m.round = p[1]
    /\ m.kind = "header" => p[2] = -1
    /\ m.kind = "tx" => p[2] >= 0 /\ m.n = p[2] + 1
    /\ m.kind = "end" => p[2] >= 0 /\ m.n = p[2]

After(s, m) ==
    IF m.kind = "header" THEN <<m.round, 0>>
    ELSE IF m.kind = "tx" THEN <<m.round, m.n>>
    ELSE Start(s, m.round + 1)

\* The place before the i-th message of queue q, when q starts at place a.
PlaceAt(s, q, a, i) == IF i = 1 THEN a ELSE After(s, q[i - 1])

\* q leads from place a to place b.
Chain(s, q, a, b) ==
    /\ \A i \in 1..Len(q) : Fits(q[i], PlaceAt(s, q, a, i))
    /\ PlaceAt(s, q, a, Len(q) + 1) = b

ReadPlace(s) ==
    IF pc[s] = "process"
    THEN IF got_end[s] THEN Start(s, reported[s] + 2)
                       ELSE <<reported[s] + 1, Len(tx_buf[s])>>
    ELSE IF pc[s] \in {"done", "publish"} THEN <<reported[s] + 1, 0>>
    ELSE Start(s, reported[s] + 1)

WritePlace(s) ==
    IF dispatching /\ next_end <= s THEN <<round_number, assigned_counts[s]>>
    ELSE Start(s, round_number + 1)

\* A message says what the round it belongs to sent.
Faithful(s, m) ==
    /\ m.round \in 1..round_number
    /\ m.kind = "tx" => /\ m.n <= Len(sent[m.round][s])
                        /\ m.tx = sent[m.round][s][m.n]
    /\ m.kind = "end" => /\ m.n = Len(sent[m.round][s])
                         /\ m.round < round_number \/ drain_buf = <<>>

StreamInv ==
    \A s \in Shards :
        /\ Chain(s, pull_tx[s], ReadPlace(s), WritePlace(s))
        /\ \A i \in 1..Len(pull_tx[s]) : Faithful(s, pull_tx[s][i])

AssignerInv ==
    /\ dispatching =>
         \A s \in Shards : assigned_counts[s] = Len(sent[round_number][s])
    /\ drain_buf # <<>> => dispatching /\ next_end = 0
    /\ ~dispatching => next_end = 0

\* The rounds whose DispatchDone the leader has taken.
Taken == IF pc[Leader] \in {"publish", "process"}
         THEN reported[Leader] + 1 ELSE reported[Leader]

DoneInv == Len(pull_done) = Dispatched - Taken

\* What a worker has of the round it processes, all of which has been sent.
ProcessInv ==
    \A s \in Shards : pc[s] = "process" =>
        /\ reported[s] + 1 \in 1..Dispatched
        /\ LET all == sent[reported[s] + 1][s]
           IN  IF got_end[s]
               THEN tx_buf[s] = all /\ expected[s] = Len(all)
               ELSE /\ Len(tx_buf[s]) <= Len(all)
                    /\ tx_buf[s] = SubSeq(all, 1, Len(tx_buf[s]))

LeaderInv ==
    /\ pc[Leader] # "sub"
    /\ pc[Leader] \in {"done", "publish", "process", "collect"} =>
         round = Len(blocks) + 1
    /\ reported[Leader] = Len(blocks) + (IF pc[Leader] = "collect" THEN 1 ELSE 0)

\* The summary a shard owes for the leader's round.
Owed(s) == ShardSummary(s, sent[Len(blocks) + 1][s])

SummariesInv ==
    /\ pc[Leader] # "collect" => summaries = <<>>
    /\ pc[Leader] = "collect" => summaries # <<>> /\ summaries[1] = Owed(Leader)
    /\ Len(summaries) <= NumShards
    /\ \A i \in 1..Len(summaries) :
         /\ summaries[i] = Owed(summaries[i].shard_id)
         /\ i > 1 => summaries[i].shard_id \in Followers
    /\ \A i, j \in 1..Len(summaries) :
         summaries[i].shard_id = summaries[j].shard_id => i = j

Collected(f) == \E i \in 1..Len(summaries) : summaries[i].shard_id = f

Announced == pc[Leader] \in {"process", "collect"}

\* The phases of a follower in the leader's round.
Waiting(f) ==
    /\ pc[f] = "sub"
    /\ reported[f] = Len(blocks)
    /\ sub[f] = <<>> \/ (Announced /\ sub[f] = <<round>>)
    /\ pull_results[f] = <<>>
    /\ ~Collected(f)

Processing(f) ==
    /\ pc[f] = "process"
    /\ Announced
    /\ announced[f] = round
    /\ reported[f] = Len(blocks)
    /\ sub[f] = <<>>
    /\ pull_results[f] = <<>>
    /\ ~Collected(f)

Reported(f) ==
    /\ pc[f] = "sub"
    /\ Announced
    /\ reported[f] = Len(blocks) + 1
    /\ sub[f] = <<>>
    /\ \/ pull_results[f] = <<Owed(f)>> /\ ~Collected(f)
       \/ pull_results[f] = <<>> /\ Collected(f)

FollowerInv == \A f \in Followers : Waiting(f) \/ Processing(f) \/ Reported(f)

\* The inductive invariant: each stream leads from its reader to the assigner,
\* and every follower is in a phase of the leader's round, so that rounds never
\* mix and blocks are exact.
Inv ==
    /\ TypeOK
    /\ AssignerInv
    /\ StreamInv
    /\ DoneInv
    /\ ProcessInv
    /\ LeaderInv
    /\ SummariesInv
    /\ FollowerInv
    /\ BlocksExact

\* The transactions whose nonce names a shard.
Mine(s) == {t \in Tx : shard_for_tx(t) = s}

\* What is sent and what is left of a dispatch make up the batch, and each shard
\* has been sent its own of the part that is sent.
Sharing(batch) ==
    \E k \in 0..Len(batch) :
        /\ drain_buf = SubSeq(batch, k + 1, Len(batch))
        /\ \A s \in Shards : sent[round_number][s] = Chosen(SubSeq(batch, 1, k), Mine(s))

ShareInv == dispatching => \E batch \in Batches : Sharing(batch)

\* The invariant with which a step of the round protocol is a step of BlockLog.
LogInv == Inv /\ ShareInv
=============================================================================

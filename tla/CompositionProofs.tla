-------------------------- MODULE CompositionProofs --------------------------
(***************************************************************************)
(* What the compositions promise.                                          *)
(*                                                                         *)
(* Restarts: whatever is restarted and whenever, what passes between the   *)
(* leader and a follower stays in step: a block has one summary of every   *)
(* shard, and the blocks together count nothing that was not sent as       *)
(* often.  Nothing of this rests on what Pipeline assumes.                 *)
(*                                                                         *)
(* Pipeline: the whole does what its parts do, so that what is proved of a *)
(* part holds in it; and every block is what one drain of the mempool      *)
(* holds, each transaction in one block and once.                          *)
(***************************************************************************)
EXTENDS Restarts, Pipeline, SubmissionProofs, ShardRoundsProofs

-----------------------------------------------------------------------------
(***************************************************************************)
(* Types.                                                                  *)
(***************************************************************************)

\* A beginning and an end of a sequence.
LEMMA PrefixType ==
  ASSUME NEW T, NEW q \in Seq(T), NEW p \in Prefixes(q) PROVE p \in Seq(T)
  BY DEF Prefixes

LEMMA SuffixType ==
  ASSUME NEW T, NEW q \in Seq(T), NEW p \in Suffixes(q) PROVE p \in Seq(T)
<1>1. CASE p = <<>>
  BY <1>1
<1>2. ASSUME NEW l \in 1..Len(q), p = SubSeq(q, l, Len(q)) PROVE p \in Seq(T)
  BY <1>2
<1>. QED
  BY <1>1, <1>2 DEF Suffixes

LEMMA RestartReceiverType ==
  ASSUME RestartTypeOK, RestartReceiver PROVE RestartTypeOK'
<1>1. AssignerTypes'
  <2>1. /\ dispatching' = FALSE /\ round_number' = 0 /\ next_end' = 0
        /\ drain_buf' = <<>> /\ sent' = <<>>
        /\ assigned_counts' = [s \in Shards |-> 0]
    BY DEF RestartReceiver, FreshCounts
  <2>2. 0 \in 0..NumShards /\ 0 \in 0..MaxRounds
    BY NumShardsAssumption, BoundsAssumption
  <2>3. assigned_counts' \in [Shards -> Nat]
    BY <2>1
  <2>4. drain_buf' \in Seq(Tx)
    BY <2>1
  <2>5. sent' \in Seq([Shards -> Seq(Tx)]) /\ Len(sent') = round_number'
    BY <2>1
  <2>. QED
    BY <2>1, <2>2, <2>3, <2>4, <2>5 DEF AssignerTypes
<1>2. QueueTypes'
  BY DEF RestartReceiver, RestartTypeOK, TypeOK, QueueTypes
<1>3. TypeOK'
  BY <1>1, <1>2, TypeFrame DEF RestartReceiver, RestartTypeOK, TypeOK
<1>4. leftover' \in [Shards -> Seq(Message)]
  <2>1. leftover' \in [Shards -> UNION {Prefixes(pull_tx[s]) : s \in Shards}]
    BY DEF RestartReceiver
  <2>2. \A s \in Shards : Prefixes(pull_tx[s]) \subseteq Seq(Message)
    BY PrefixType DEF RestartTypeOK, TypeOK, QueueTypes
  <2>. QED
    BY <2>1, <2>2
<1>5. leftover_done' \in Seq(1..MaxRounds)
  BY PrefixType DEF RestartReceiver, RestartTypeOK, TypeOK, QueueTypes
<1>6. sent_before' \in Seq([Shards -> Seq(Tx)])
  BY DEF RestartReceiver, RestartTypeOK, TypeOK, AssignerTypes
<1>7. restarted' \subseteq Followers \cup {Receiver}
  BY DEF RestartReceiver, RestartTypeOK
<1>. QED
  BY <1>3, <1>4, <1>5, <1>6, <1>7 DEF RestartTypeOK

LEMMA RestartFollowerType ==
  ASSUME RestartTypeOK, NEW f \in Followers, RestartFollower(f)
  PROVE  RestartTypeOK'
<1>1. f \in Shards
  BY DEF Followers
<1>2. TypeOK
  BY DEF RestartTypeOK
<1>3. PICK q \in Suffixes(pull_tx[f]) : pull_tx' = [pull_tx EXCEPT ![f] = q]
  BY DEF RestartFollower
<1>4. PICK p \in Prefixes(pull_results[f]) :
         pull_results' = [pull_results EXCEPT ![f] = p]
  BY DEF RestartFollower
<1>5. q \in Seq(Message) /\ p \in Seq(Summary)
  BY <1>1, <1>2, PrefixType, SuffixType DEF TypeOK, QueueTypes
<1>6. QueueTypes'
  BY <1>1, <1>2, <1>3, <1>4, <1>5 DEF RestartFollower, TypeOK, QueueTypes
<1>7. WorkerTypes'
  BY <1>1, <1>2 DEF RestartFollower, TypeOK, WorkerTypes
<1>8. TypeOK'
  BY <1>2, <1>6, <1>7, TypeFrame DEF RestartFollower, TypeOK
<1>. QED
  BY <1>1, <1>8 DEF RestartFollower, RestartTypeOK

LEMMA TakeOldType == ASSUME RestartTypeOK, TakeOld PROVE RestartTypeOK'
<1>1. TypeOK /\ leftover \in [Shards -> Seq(Message)]
      /\ leftover_done \in Seq(1..MaxRounds)
  BY DEF RestartTypeOK
<1>2. ASSUME TypeOK', leftover' \in [Shards -> Seq(Message)],
             leftover_done' \in Seq(1..MaxRounds)
      PROVE  RestartTypeOK'
  BY <1>2 DEF TakeOld, RestartTypeOK
<1>3. ASSUME NEW s \in Shards, Old!RecvTx(s) PROVE RestartTypeOK'
  <2>1. leftover[s] # <<>> /\ leftover' = [leftover EXCEPT ![s] = Tail(@)]
    BY <1>3 DEF Old!RecvTx, Old!Take
  <2>2. Head(leftover[s]) \in Message /\ leftover' \in [Shards -> Seq(Message)]
    BY <1>1, <2>1, TailAt
  <2>3. PICK m \in Message : m = Head(leftover[s])
    BY <2>2
  <2>4. /\ expected' = IF m.kind = "end"
                       THEN [expected EXCEPT ![s] = m.n] ELSE expected
        /\ got_end' = IF m.kind = "end"
                      THEN [got_end EXCEPT ![s] = TRUE] ELSE got_end
        /\ tx_buf' = IF m.kind = "tx"
                     THEN [tx_buf EXCEPT ![s] = Append(@, m.tx)] ELSE tx_buf
    BY <1>3, <2>3 DEF Old!RecvTx
  <2>5. ProcessTypes'
    <3>1. tx_buf' \in [Shards -> Seq(Tx)]
      BY <1>1, <2>4, MessageFields, AppendAt DEF TypeOK, ProcessTypes
    <3>2. expected' \in [Shards -> Nat]
      BY <1>1, <2>4, MessageFields DEF TypeOK, ProcessTypes
    <3>3. got_end' \in [Shards -> BOOLEAN]
      BY <1>1, <2>4 DEF TypeOK, ProcessTypes
    <3>. QED
      BY <3>1, <3>2, <3>3 DEF ProcessTypes
  <2>6. TypeOK' /\ UNCHANGED leftover_done
    BY <1>1, <1>3, <2>5, TypeFrame
    DEF TakeOld, Old!RecvTx, Old!assignerVars, Old!leaderVars, assignerVars,
        leaderVars, TypeOK
  <2>. QED
    BY <1>1, <1>2, <2>2, <2>6
<1>4. ASSUME Old!RecvDispatchHeader PROVE RestartTypeOK'
  <2>1. leftover[Leader] # <<>> /\ leftover' = [leftover EXCEPT ![Leader] = Tail(@)]
    BY <1>4 DEF Old!RecvDispatchHeader, Old!Take, Old!Leader, Leader
  <2>2. /\ Head(leftover[Leader]) \in Message
        /\ leftover' \in [Shards -> Seq(Message)]
    BY <1>1, <2>1, TailAt, LeaderIsShard
  <2>3. PICK m \in Message : m = Head(leftover[Leader])
    BY <2>2
  <2>4. LeaderTypes'
    <3>1. round' = IF m.kind = "header" THEN m.round ELSE round + 1
      BY <1>4, <2>3 DEF Old!RecvDispatchHeader, Old!Leader, Leader
    <3>2. m.round \in Nat
      BY MessageFields
    <3>. QED
      BY <1>1, <1>4, <3>1, <3>2 DEF Old!RecvDispatchHeader, TypeOK, LeaderTypes
  <2>5. WorkerTypes'
    BY <1>1, <1>4, LeaderIsShard
    DEF Old!RecvDispatchHeader, Old!Goto, Old!Leader, Leader, TypeOK, WorkerTypes
  <2>6. TypeOK' /\ UNCHANGED leftover_done
    BY <1>1, <1>4, <2>4, <2>5, TypeFrame
    DEF TakeOld, Old!RecvDispatchHeader, Old!assignerVars, Old!processVars,
        assignerVars, processVars, TypeOK
  <2>. QED
    BY <1>1, <1>2, <2>2, <2>6
<1>5. ASSUME Old!RecvDispatchDone PROVE RestartTypeOK'
  <2>1. leftover_done' \in Seq(1..MaxRounds) /\ UNCHANGED leftover
    BY <1>1, <1>5 DEF Old!RecvDispatchDone
  <2>2. WorkerTypes'
    BY <1>1, <1>5, LeaderIsShard
    DEF Old!RecvDispatchDone, Old!Goto, Old!Leader, Leader, TypeOK, WorkerTypes
  <2>3. TypeOK'
    BY <1>1, <1>5, <2>2, TypeFrame
    DEF TakeOld, Old!RecvDispatchDone, Old!assignerVars, Old!processVars,
        Old!leaderVars, assignerVars, processVars, leaderVars, TypeOK
  <2>. QED
    BY <1>1, <1>2, <2>1, <2>3
<1>. QED
  BY <1>3, <1>4, <1>5 DEF TakeOld, Old!Shards, Shards

LEMMA RestartTypeStep ==
  RestartTypeOK /\ [RestartNext]_allVars => RestartTypeOK'
<1>. SUFFICES ASSUME RestartTypeOK, [RestartNext]_allVars PROVE RestartTypeOK'
  OBVIOUS
<1>1. CASE Next /\ UNCHANGED restartVars
  BY <1>1, TypeStep DEF RestartTypeOK, restartVars
<1>2. CASE UNCHANGED allVars
  BY <1>2, TypeStep DEF RestartTypeOK, allVars, restartVars
<1>. QED
  BY <1>1, <1>2, TakeOldType, RestartReceiverType, RestartFollowerType
  DEF RestartNext

\* Every variable keeps its type, whatever restarts.
THEOREM RestartTypes == RestartSpec => []RestartTypeOK
<1>1. RestartInit => RestartTypeOK
  BY TypeInit DEF RestartInit, RestartTypeOK
<1>. QED
  BY <1>1, RestartTypeStep, PTL DEF RestartSpec

-----------------------------------------------------------------------------
(***************************************************************************)
(* The leader and its followers.                                           *)
(***************************************************************************)

\* A step that touches nothing between the leader and the followers.
LEMMA AnswersFrame ==
  ASSUME CollectedOnce, AnswersOnce, OneSummaryPerShard,
         UNCHANGED <<pc, sub, pull_results, summaries, blocks>>
  PROVE  CollectedOnce' /\ AnswersOnce' /\ OneSummaryPerShard'
<1>1. Announced' = Announced /\ \A f : Collected(f)' = Collected(f)
  BY DEF Announced, Collected
<1>2. AnswersOnce'
  BY <1>1 DEF AnswersOnce, Silent, Called, Working, Answered
<1>. QED
  BY <1>2 DEF CollectedOnce, OneSummaryPerShard

\* A step of the leader before it announces a round.
LEMMA WaitFrame ==
  ASSUME TypeOK, CollectedOnce, AnswersOnce, OneSummaryPerShard,
         NEW l \in {"header", "done", "publish"},
         ~Announced, pc' = [pc EXCEPT ![Leader] = l],
         UNCHANGED <<sub, pull_results, summaries, blocks>>
  PROVE  CollectedOnce' /\ AnswersOnce' /\ OneSummaryPerShard'
<1>1. pc'[Leader] = l /\ \A f \in Followers : pc'[f] = pc[f]
  BY LeaderIsShard DEF Followers, TypeOK, WorkerTypes
<1>2. \A f \in Followers : Silent(f)'
  BY <1>1 DEF AnswersOnce, Silent
<1>3. CollectedOnce'
  BY <1>1 DEF CollectedOnce, Announced
<1>. QED
  BY <1>2, <1>3 DEF AnswersOnce, OneSummaryPerShard

LEMMA AnnouncingKeeps ==
  ASSUME AnswersInv, PublishRoundStart
  PROVE  CollectedOnce' /\ AnswersOnce' /\ OneSummaryPerShard'
<1>1. /\ pc[Leader] = "publish" /\ pc'[Leader] = "process"
      /\ \A f \in Followers : pc'[f] = pc[f]
      /\ UNCHANGED <<pull_results, summaries, blocks>>
      /\ summaries = <<>>
  BY LeaderIsShard
  DEF PublishRoundStart, EnterProcess, Goto, leaderVars, Followers, AnswersInv,
      RestartTypeOK, TypeOK, WorkerTypes, CollectedOnce
<1>2. ASSUME NEW f \in Followers PROVE Silent(f)' \/ Called(f)'
  <2>1. Silent(f)
    BY <1>1 DEF AnswersInv, AnswersOnce, Announced
  <2>2. sub'[f] = Append(<<>>, round) \/ sub'[f] = <<>>
    BY <2>1 DEF PublishRoundStart, Silent
  <2>3. Len(Append(<<>>, round)) = 1
    BY DEF AnswersInv, RestartTypeOK, TypeOK, LeaderTypes
  <2>. QED
    BY <1>1, <2>1, <2>2, <2>3 DEF Silent, Called
<1>3. Announced' /\ \A f \in Followers : ~Collected(f)'
  BY <1>1 DEF Announced, Collected
<1>4. CollectedOnce'
  BY <1>1 DEF AnswersInv, CollectedOnce
<1>. QED
  BY <1>1, <1>2, <1>3, <1>4 DEF AnswersInv, AnswersOnce, OneSummaryPerShard

LEMMA OwnSummaryKeeps ==
  ASSUME AnswersInv, OwnSummary
  PROVE  CollectedOnce' /\ AnswersOnce' /\ OneSummaryPerShard'
<1>1. /\ pc[Leader] = "process" /\ pc'[Leader] = "collect"
      /\ \A f \in Followers : pc'[f] = pc[f]
      /\ UNCHANGED <<sub, pull_results, blocks>>
      /\ summaries' = <<ShardSummary(Leader, tx_buf[Leader])>>
  BY LeaderIsShard
  DEF OwnSummary, Goto, Followers, AnswersInv, RestartTypeOK, TypeOK, WorkerTypes
<1>2. Len(summaries') = 1 /\ summaries'[1].shard_id = Leader
  BY <1>1 DEF ShardSummary
<1>3. CollectedOnce'
  BY <1>1, <1>2, NumShardsAssumption DEF CollectedOnce
<1>4. Announced' /\ Announced /\ \A f \in Followers : ~Collected(f)'
  BY <1>1, <1>2, LeaderIsShard DEF Announced, Collected
<1>5. AnswersOnce'
  BY <1>1, <1>4 DEF AnswersInv, AnswersOnce, Silent, Called, Working, Answered
<1>. QED
  BY <1>1, <1>3, <1>5 DEF AnswersInv, OneSummaryPerShard

\* The summary taken is of a shard the leader lacked, which has nothing more.
LEMMA CollectKeeps ==
  ASSUME AnswersInv, NEW f \in Followers, CollectSummary(f)
  PROVE  CollectedOnce' /\ AnswersOnce' /\ OneSummaryPerShard'
<1>1. /\ pc[Leader] = "collect" /\ pull_results[f] # <<>>
      /\ Len(summaries) < NumShards
      /\ summaries' = Append(summaries, Head(pull_results[f]))
      /\ pull_results' = [pull_results EXCEPT ![f] = Tail(@)]
      /\ UNCHANGED <<pc, sub, blocks>>
      /\ summaries \in Seq(Summary)
      /\ pull_results \in [Followers -> Seq(Summary)]
  BY NumShardsAssumption
  DEF CollectSummary, AllCollected, AnswersInv, RestartTypeOK, TypeOK,
      LeaderTypes, QueueTypes
<1>2. Answered(f) /\ ~Collected(f)
  BY <1>1 DEF AnswersInv, AnswersOnce, Silent, Called, Working
<1>3. PICK x \in Summary : x = Head(pull_results[f])
  BY <1>1
<1>4. x.shard_id = f
  BY <1>2, <1>3 DEF Answered
<1>5. PICK n \in Nat : n = Len(summaries)
  BY <1>1
<1>6. /\ Len(summaries') = n + 1 /\ summaries'[n + 1] = x
      /\ \A i \in 1..n : summaries'[i] = summaries[i]
  BY <1>1, <1>3, <1>5
<1>7. \A i \in 1..n : summaries[i].shard_id # f
  BY <1>2, <1>5 DEF Collected
<1>8. CollectedOnce'
  <2>1. n >= 1
    BY <1>1, <1>5 DEF AnswersInv, CollectedOnce
  <2>2. summaries' # <<>> /\ summaries'[1].shard_id = Leader
    BY <1>1, <1>6, <2>1 DEF AnswersInv, CollectedOnce
  <2>3. n + 1 <= NumShards
    BY <1>1, <1>5, NumShardsAssumption
  <2>4. ASSUME NEW i \in 2..n + 1 PROVE summaries'[i].shard_id \in Followers
    <3>1. CASE i = n + 1
      BY <1>4, <1>6, <3>1
    <3>2. CASE i \in 2..n
      BY <1>5, <1>6, <3>2 DEF AnswersInv, CollectedOnce
    <3>. QED
      BY <3>1, <3>2
  <2>5. ASSUME NEW i \in 1..n + 1, NEW j \in 1..n + 1,
               summaries'[i].shard_id = summaries'[j].shard_id
        PROVE  i = j
    <3>1. CASE i \in 1..n /\ j \in 1..n
      BY <1>5, <1>6, <2>5, <3>1 DEF AnswersInv, CollectedOnce
    <3>2. CASE i = n + 1 \/ j = n + 1
      BY <1>4, <1>6, <1>7, <2>5, <3>2
    <3>. QED
      BY <3>1, <3>2
  <2>6. pc'[Leader] = "collect"
    BY <1>1
  <2>. QED
    BY <1>6, <2>2, <2>3, <2>4, <2>5, <2>6 DEF CollectedOnce
<1>9. AnswersOnce'
  <2>1. Announced /\ Announced'
    BY <1>1 DEF Announced
  <2>2. Silent(f)'
    <3>1. pull_results[f] \in Seq(Summary) /\ Len(pull_results[f]) = 1
      BY <1>1, <1>2 DEF Answered
    <3>2. pull_results'[f] = <<>>
      BY <1>1, <3>1
    <3>. QED
      BY <1>1, <1>2, <3>2 DEF Silent, Answered
  <2>3. ASSUME NEW g \in Followers \ {f}, ~Collected(g) PROVE ~Collected(g)'
    BY <1>4, <1>5, <1>6, <2>3 DEF Collected
  <2>4. ASSUME NEW g \in Followers \ {f}
        PROVE  \/ Silent(g)'
               \/ Announced' /\ ~Collected(g)'
                  /\ (Called(g) \/ Working(g) \/ Answered(g))'
    <3>1. pull_results'[g] = pull_results[g] /\ pc'[g] = pc[g] /\ sub'[g] = sub[g]
      BY <1>1
    <3>. QED
      BY <2>1, <2>3, <3>1
      DEF AnswersInv, AnswersOnce, Silent, Called, Working, Answered
  <2>. QED
    BY <2>2, <2>4 DEF AnswersOnce
<1>. QED
  BY <1>1, <1>8, <1>9 DEF AnswersInv, OneSummaryPerShard

\* With as many summaries as shards, no follower has anything to say.
LEMMA FinalizeKeeps ==
  ASSUME AnswersInv, FinalizeBlock
  PROVE  CollectedOnce' /\ AnswersOnce' /\ OneSummaryPerShard'
<1>1. /\ pc[Leader] = "collect" /\ pc'[Leader] = "header"
      /\ \A f \in Followers : pc'[f] = pc[f]
      /\ UNCHANGED <<sub, pull_results>>
      /\ summaries' = <<>>
      /\ blocks' = Append(blocks, Block(round, summaries))
      /\ blocks \in Seq([block_number : Nat, parts : Seq(Summary)])
      /\ Block(round, summaries) \in [block_number : Nat, parts : Seq(Summary)]
      /\ TypeOK
  BY LeaderIsShard
  DEF FinalizeBlock, Goto, Followers, AnswersInv, RestartTypeOK, TypeOK,
      WorkerTypes, LeaderTypes, Block
<1>2. Len(summaries) = NumShards
  <2>1. Len(summaries) \in Nat
    BY <1>1 DEF TypeOK, LeaderTypes
  <2>. QED
    BY <2>1, NumShardsAssumption
    DEF FinalizeBlock, AllCollected, AnswersInv, CollectedOnce
<1>3. /\ \A i \in 1..NumShards : summaries[i].shard_id \in Shards
      /\ \A s \in Shards : \E i \in 1..NumShards : summaries[i].shard_id = s
  BY <1>1, <1>2, SummaryShards, EveryoneIn DEF AnswersInv, CollectedOnce
<1>4. \A f \in Followers : Silent(f)'
  <2>1. \A f \in Followers : Collected(f)
    BY <1>2, <1>3 DEF Collected, Followers
  <2>. QED
    BY <1>1, <2>1 DEF AnswersInv, AnswersOnce, Silent
<1>5. OneSummaryPerShard'
  <2>1. /\ Len(blocks) \in Nat /\ Len(blocks') = Len(blocks) + 1
        /\ \A r \in 1..Len(blocks) : blocks'[r] = blocks[r]
        /\ blocks'[Len(blocks) + 1].parts = summaries
    BY <1>1 DEF Block
  <2>2. {summaries[i].shard_id : i \in 1..NumShards} = Shards
    BY <1>3
  <2>3. ASSUME NEW r \in 1..Len(blocks) + 1
        PROVE  {blocks'[r].parts[i].shard_id : i \in 1..Len(blocks'[r].parts)}
                 = Shards
    <3>1. CASE r \in 1..Len(blocks)
      BY <2>1, <3>1 DEF AnswersInv, OneSummaryPerShard
    <3>2. CASE r = Len(blocks) + 1
      BY <1>2, <2>1, <2>2, <3>2
    <3>. QED
      BY <2>1, <3>1, <3>2
  <2>. QED
    BY <2>1, <2>3 DEF OneSummaryPerShard
<1>6. CollectedOnce'
  BY <1>1, NumShardsAssumption DEF CollectedOnce
<1>. QED
  BY <1>4, <1>5, <1>6 DEF AnswersOnce

\* A follower passes from one thing to do about the round to the next.
LEMMA FollowerKeeps ==
  ASSUME AnswersInv, NEW f \in Followers,
         pc'[Leader] = pc[Leader], UNCHANGED <<summaries, blocks>>,
         \A g \in Followers \ {f} : /\ pc'[g] = pc[g] /\ sub'[g] = sub[g]
                                    /\ pull_results'[g] = pull_results[g],
         \/ Silent(f)'
         \/ ~Silent(f) /\ (Called(f) \/ Working(f) \/ Answered(f))'
  PROVE  CollectedOnce' /\ AnswersOnce' /\ OneSummaryPerShard'
<1>1. Announced' = Announced /\ \A g : Collected(g)' = Collected(g)
  BY DEF Announced, Collected
<1>2. AnswersOnce'
  <2>1. ASSUME NEW g \in Followers \ {f}
        PROVE  \/ Silent(g)'
               \/ Announced' /\ ~Collected(g)'
                  /\ (Called(g) \/ Working(g) \/ Answered(g))'
    BY <1>1 DEF AnswersInv, AnswersOnce, Silent, Called, Working, Answered
  <2>2. \/ Silent(f)'
        \/ Announced' /\ ~Collected(f)'
           /\ (Called(f) \/ Working(f) \/ Answered(f))'
    BY <1>1 DEF AnswersInv, AnswersOnce
  <2>. QED
    BY <2>1, <2>2 DEF AnswersOnce
<1>3. CollectedOnce'
  BY DEF AnswersInv, CollectedOnce
<1>. QED
  BY <1>2, <1>3 DEF AnswersInv, OneSummaryPerShard

LEMMA HearingKeeps ==
  ASSUME AnswersInv, NEW f \in Followers, RecvRoundStart(f)
  PROVE  CollectedOnce' /\ AnswersOnce' /\ OneSummaryPerShard'
<1>1. /\ pc[f] = "sub" /\ sub[f] # <<>>
      /\ sub' = [sub EXCEPT ![f] = Tail(@)] /\ sub \in [Followers -> Seq(Nat)]
      /\ pc' = [pc EXCEPT ![f] = "process"]
      /\ f \in Shards /\ f # Leader /\ DOMAIN pc = Shards
      /\ UNCHANGED <<pull_results, summaries, blocks>>
  BY DEF RecvRoundStart, EnterProcess, Goto, leaderVars, Followers, AnswersInv,
         RestartTypeOK, TypeOK, QueueTypes, WorkerTypes
<1>2. Called(f) /\ ~Silent(f)
  BY <1>1 DEF AnswersInv, AnswersOnce, Silent, Working, Answered
<1>3. sub'[f] = <<>>
  <2>1. sub[f] \in Seq(Nat) /\ Len(sub[f]) = 1
    BY <1>1, <1>2 DEF Called
  <2>. QED
    BY <1>1, <2>1
<1>4. Working(f)'
  BY <1>1, <1>2, <1>3 DEF Called, Working
<1>. QED
  BY <1>1, <1>2, <1>4, FollowerKeeps, LeaderIsShard DEF Followers

LEMMA AnsweringKeeps ==
  ASSUME AnswersInv, NEW f \in Followers, PushSummary(f)
  PROVE  CollectedOnce' /\ AnswersOnce' /\ OneSummaryPerShard'
<1>1. /\ pc[f] = "process"
      /\ pull_results' = [pull_results EXCEPT
                            ![f] = Append(@, ShardSummary(f, tx_buf[f]))]
      /\ pull_results \in [Followers -> Seq(Summary)]
      /\ pc' = [pc EXCEPT ![f] = "sub"]
      /\ f \in Shards /\ f # Leader /\ DOMAIN pc = Shards
      /\ UNCHANGED <<sub, summaries, blocks>>
  BY DEF PushSummary, Goto, leaderVars, Followers, AnswersInv,
         RestartTypeOK, TypeOK, QueueTypes, WorkerTypes
<1>2. Working(f) /\ ~Silent(f)
  BY <1>1 DEF AnswersInv, AnswersOnce, Silent, Called, Answered
<1>3. PICK x : x = ShardSummary(f, tx_buf[f])
  OBVIOUS
<1>4. pull_results'[f] = Append(<<>>, x)
  BY <1>1, <1>2, <1>3 DEF Working
<1>5. Len(Append(<<>>, x)) = 1 /\ Head(Append(<<>>, x)) = x
  OBVIOUS
<1>6. Answered(f)'
  BY <1>1, <1>2, <1>3, <1>4, <1>5 DEF Working, Answered, ShardSummary
<1>. QED
  BY <1>1, <1>2, <1>6, FollowerKeeps, LeaderIsShard DEF Followers

\* A follower that ends takes with it what it had to say, or has said it.
LEMMA RestartingKeeps ==
  ASSUME AnswersInv, NEW f \in Followers, RestartFollower(f)
  PROVE  CollectedOnce' /\ AnswersOnce' /\ OneSummaryPerShard'
<1>1. /\ pc' = [pc EXCEPT ![f] = "sub"]
      /\ sub' = [sub EXCEPT ![f] = <<>>]
      /\ sub \in [Followers -> Seq(Nat)]
      /\ pull_results \in [Followers -> Seq(Summary)]
      /\ f \in Shards /\ f # Leader /\ DOMAIN pc = Shards
      /\ UNCHANGED <<summaries, blocks>>
  BY DEF RestartFollower, leaderVars, Followers, AnswersInv,
         RestartTypeOK, TypeOK, QueueTypes, WorkerTypes
<1>2. PICK p \in Prefixes(pull_results[f]) :
         pull_results' = [pull_results EXCEPT ![f] = p]
  BY DEF RestartFollower
<1>3. pull_results[f] \in Seq(Summary) /\ pull_results'[f] = p
  BY <1>1, <1>2
<1>4. PICK l \in 0..Len(pull_results[f]) : p = SubSeq(pull_results[f], 1, l)
  BY DEF Prefixes
<1>5. CASE l = 0
  <2>1. p = <<>>
    BY <1>3, <1>4, <1>5
  <2>2. Silent(f)'
    BY <1>1, <1>3, <2>1 DEF Silent
  <2>. QED
    BY <1>1, <1>2, <2>2, FollowerKeeps, LeaderIsShard DEF Followers
<1>6. CASE l > 0
  <2>1. pull_results[f] # <<>>
    BY <1>3, <1>4, <1>6
  <2>2. Answered(f)
    BY <2>1 DEF AnswersInv, AnswersOnce, Silent, Called, Working
  <2>3. l = 1 /\ p = pull_results[f]
    BY <1>3, <1>4, <1>6, <2>2 DEF Answered
  <2>4. Answered(f)' /\ ~Silent(f)
    BY <1>1, <1>3, <2>1, <2>2, <2>3 DEF Answered, Silent
  <2>. QED
    BY <1>1, <1>2, <2>4, FollowerKeeps, LeaderIsShard DEF Followers
<1>. QED
  BY <1>4, <1>5, <1>6

\* A step of the leader or of the assigner that is none of the above.
LEMMA QuietKeeps ==
  ASSUME AnswersInv,
         \/ UNCHANGED <<pc, sub, pull_results, summaries, blocks>>
         \/ /\ ~Announced
            /\ \E l \in {"header", "done", "publish"} :
                 pc' = [pc EXCEPT ![Leader] = l]
            /\ UNCHANGED <<sub, pull_results, summaries, blocks>>
  PROVE  CollectedOnce' /\ AnswersOnce' /\ OneSummaryPerShard'
  BY AnswersFrame, WaitFrame DEF AnswersInv, RestartTypeOK

LEMMA AnswersStep == AnswersInv /\ [RestartNext]_allVars => AnswersInv'
<1>. SUFFICES ASSUME AnswersInv, [RestartNext]_allVars
              PROVE  CollectedOnce' /\ AnswersOnce' /\ OneSummaryPerShard'
  BY RestartTypeStep DEF AnswersInv
<1>1. CASE UNCHANGED <<pc, sub, pull_results, summaries, blocks>>
  BY <1>1, QuietKeeps
<1>2. ASSUME NEW batch \in Batches, SendDispatchHeader(batch)
      PROVE  CollectedOnce' /\ AnswersOnce' /\ OneSummaryPerShard'
  BY <1>1, <1>2 DEF SendDispatchHeader, leaderVars
<1>3. CASE AssignerStep
  BY <1>1, <1>3
  DEF AssignerStep, SendTx, SendRoundEnd, SendDispatchDone, leaderVars
<1>4. CASE LeaderReady \/ RecvDispatchHeader \/ RecvDispatchDone
  BY <1>4, QuietKeeps
  DEF LeaderReady, RecvDispatchHeader, RecvDispatchDone, Goto, Announced,
      leaderVars
<1>5. ASSUME NEW s \in Shards, RecvTx(s)
      PROVE  CollectedOnce' /\ AnswersOnce' /\ OneSummaryPerShard'
  BY <1>1, <1>5 DEF RecvTx, leaderVars
<1>6. CASE LeaderStep
  BY <1>4, <1>5, <1>6, AnnouncingKeeps, OwnSummaryKeeps, CollectKeeps,
     FinalizeKeeps, LeaderIsShard DEF LeaderStep
<1>7. ASSUME NEW f \in Followers, FollowerStep(f) \/ Subscribe(f)
      PROVE  CollectedOnce' /\ AnswersOnce' /\ OneSummaryPerShard'
  <2>1. CASE Subscribe(f)
    BY <1>1, <2>1 DEF Subscribe, leaderVars
  <2>2. f \in Shards
    BY DEF Followers
  <2>. QED
    BY <1>5, <1>7, <2>1, <2>2, HearingKeeps, AnsweringKeeps DEF FollowerStep
<1>8. CASE UNCHANGED vars
  BY <1>1, <1>8 DEF vars, leaderVars
<1>9. CASE Next
  BY <1>2, <1>3, <1>6, <1>7, <1>8, <1>9 DEF Next, Quiescent
<1>10. CASE TakeOld
  <2>1. ASSUME NEW s \in Shards, Old!RecvTx(s)
        PROVE  CollectedOnce' /\ AnswersOnce' /\ OneSummaryPerShard'
    BY <1>1, <2>1 DEF Old!RecvTx, Old!leaderVars
  <2>2. CASE Old!RecvDispatchHeader \/ Old!RecvDispatchDone
    BY <2>2, QuietKeeps
    DEF Old!RecvDispatchHeader, Old!RecvDispatchDone, Old!Goto, Old!Leader,
        Leader, Old!leaderVars, Announced
  <2>. QED
    BY <1>10, <2>1, <2>2 DEF TakeOld, Old!Shards, Shards
<1>11. CASE RestartReceiver
  BY <1>1, <1>11 DEF RestartReceiver, leaderVars
<1>12. CASE UNCHANGED allVars
  BY <1>8, <1>12 DEF allVars
<1>. QED
  BY <1>9, <1>10, <1>11, <1>12, RestartingKeeps DEF RestartNext

LEMMA AnswersInit == RestartInit => AnswersInv
<1>. SUFFICES ASSUME RestartInit PROVE AnswersInv
  OBVIOUS
<1>1. RestartTypeOK
  BY TypeInit DEF RestartInit, RestartTypeOK
<1>2. CollectedOnce /\ OneSummaryPerShard
  <2>1. pc[Leader] = "connect" /\ summaries = <<>> /\ blocks = <<>>
    BY LeaderIsShard DEF RestartInit, Init
  <2>. QED
    BY <2>1, NumShardsAssumption DEF CollectedOnce, OneSummaryPerShard
<1>3. AnswersOnce
  BY DEF RestartInit, Init, AnswersOnce, Silent, Followers
<1>. QED
  BY <1>1, <1>2, <1>3 DEF AnswersInv

\* AnswersInv holds whatever is restarted.
THEOREM AnswersInvariance == RestartSpec => []AnswersInv
  BY AnswersInit, AnswersStep, PTL DEF RestartSpec

\* The leader looks at no shard_id, and every block still has the summary of
\* every shard (shard_worker.c:255): OneSummaryPerShard.
THEOREM EveryShardInBlock == RestartSpec => []OneSummaryPerShard
<1>1. AnswersInv => OneSummaryPerShard
  BY DEF AnswersInv
<1>. QED
  BY <1>1, AnswersInvariance, PTL

\* No announcement is left over for a later round, restarts or not: LockStep.
THEOREM LockStepAcrossRestarts == RestartSpec => []LockStep
<1>1. ASSUME AnswersInv PROVE LockStep
  <2>1. Len(<<>>) = 0
    OBVIOUS
  <2>2. ASSUME NEW f \in Followers
        PROVE  Len(sub[f]) + Len(pull_results[f])
                 + (IF pc[f] = "process" THEN 1 ELSE 0) <= 1
    <3>1. CASE Silent(f)
      BY <2>1, <3>1 DEF Silent
    <3>2. CASE Called(f)
      BY <2>1, <3>2 DEF Called
    <3>3. CASE Working(f)
      BY <2>1, <3>3 DEF Working
    <3>4. CASE Answered(f)
      BY <2>1, <3>4 DEF Answered
    <3>. QED
      BY <1>1, <3>1, <3>2, <3>3, <3>4 DEF AnswersInv, AnswersOnce
  <2>. QED
    BY <2>2 DEF LockStep
<1>. QED
  BY <1>1, AnswersInvariance, PTL

-----------------------------------------------------------------------------
(***************************************************************************)
(* Counting: how many elements of a sequence are in a set, and what a      *)
(* concatenation of sequences has of them.                                 *)
(***************************************************************************)
\* How many elements of q are in M, and the images of its elements.
Marked(q, M) == Cardinality({i \in 1..Len(q) : q[i] \in M})
Image(F, q) == [i \in 1..Len(q) |-> F[q[i]]]
Lists(F, S, T) == F \in [S -> Seq(T)]

LEMMA MarkedType ==
  ASSUME NEW S, NEW q \in Seq(S), NEW M
  PROVE  /\ IsFiniteSet({i \in 1..Len(q) : q[i] \in M})
         /\ Marked(q, M) \in Nat
<1>. DEFINE P == {i \in 1..Len(q) : q[i] \in M}
            I == 1..Len(q)
<1>1. IsFiniteSet(I)
  <2>1. Len(q) \in Nat
    OBVIOUS
  <2>. QED
    BY <2>1, FS_Interval
<1>2. P \subseteq I
  OBVIOUS
<1>3. IsFiniteSet(P)
  <2>. HIDE DEF P, I
  <2>. QED
    BY <1>1, <1>2, FS_Subset
<1>4. Cardinality(P) \in Nat
  <2>. HIDE DEF P
  <2>. QED
    BY <1>3, FS_CardinalityType
<1>. QED
  BY <1>3, <1>4 DEF Marked

LEMMA MarkedEmpty == ASSUME NEW M PROVE Marked(<<>>, M) = 0
<1>1. {i \in 1..Len(<<>>) : <<>>[i] \in M} = {}
  OBVIOUS
<1>. QED
  BY <1>1, FS_EmptySet DEF Marked

LEMMA MarkedAppend ==
  ASSUME NEW S, NEW q \in Seq(S), NEW e \in S, NEW M
  PROVE  Marked(Append(q, e), M) = Marked(q, M) + (IF e \in M THEN 1 ELSE 0)
<1>. DEFINE r == Append(q, e)
            n == Len(q)
            P == {i \in 1..n : q[i] \in M}
            R == {i \in 1..Len(r) : r[i] \in M}
<1>1. n \in Nat /\ Len(r) = n + 1 /\ r[n + 1] = e /\ \A i \in 1..n : r[i] = q[i]
  OBVIOUS
<1>2. R = IF e \in M THEN P \cup {n + 1} ELSE P
  <2>. HIDE DEF r, n
  <2>. QED
    BY <1>1
<1>3. n + 1 \notin P
  OBVIOUS
<1>4. IsFiniteSet(P) /\ Cardinality(P) \in Nat
  BY MarkedType DEF Marked
<1>5. Cardinality(R) = Cardinality(P) + (IF e \in M THEN 1 ELSE 0)
  <2>. DEFINE k == n + 1
  <2>1. k \notin P /\ R = IF e \in M THEN P \cup {k} ELSE P
    BY <1>2, <1>3
  <2>. HIDE DEF P, R, k
  <2>2. Cardinality(P \cup {k}) = Cardinality(P) + 1
    BY <1>4, <2>1, FS_AddElement
  <2>. QED
    BY <1>4, <2>1, <2>2
<1>. QED
  BY <1>5 DEF Marked

LEMMA MarkedConcat ==
  ASSUME NEW S, NEW p \in Seq(S), NEW q \in Seq(S), NEW M
  PROVE  Marked(p \o q, M) = Marked(p, M) + Marked(q, M)
<1>. DEFINE P == {r \in Seq(S) : Marked(p \o r, M) = Marked(p, M) + Marked(r, M)}
<1>1. <<>> \in P
  <2>1. p \o <<>> = p
    BY ConcatEmptySeq
  <2>2. Marked(p, M) \in Nat
    BY MarkedType
  <2>. QED
    BY <2>1, <2>2, MarkedEmpty
<1>2. ASSUME NEW r \in Seq(S), NEW e \in S, r \in P PROVE Append(r, e) \in P
  <2>1. p \o Append(r, e) = Append(p \o r, e)
    <3>1. Append(r, e) = r \o <<e>> /\ <<e>> \in Seq(S)
      BY AppendIsConcat
    <3>2. p \o r \in Seq(S)
      BY ConcatProperties
    <3>3. Append(p \o r, e) = (p \o r) \o <<e>>
      BY <3>2, AppendIsConcat
    <3>4. (p \o r) \o <<e>> = p \o (r \o <<e>>)
      <4>. DEFINE o == <<e>>
      <4>1. o \in Seq(S)
        BY <3>1
      <4>. HIDE DEF o
      <4>2. (p \o r) \o o = p \o (r \o o)
        BY <4>1, ConcatAssociative
      <4>. QED
        BY <4>2 DEF o
    <3>. QED
      BY <3>1, <3>3, <3>4
  <2>2. p \o r \in Seq(S) /\ Append(r, e) \in Seq(S)
    BY ConcatProperties
  <2>. DEFINE k == IF e \in M THEN 1 ELSE 0
  <2>3. Marked(Append(p \o r, e), M) = Marked(p \o r, M) + k
    BY <2>2, MarkedAppend, Zenon
  <2>4. Marked(Append(r, e), M) = Marked(r, M) + k
    BY MarkedAppend, Zenon
  <2>5. Marked(p \o r, M) = Marked(p, M) + Marked(r, M)
    BY <1>2
  <2>6. Marked(p, M) \in Nat /\ Marked(r, M) \in Nat /\ k \in Nat
    BY MarkedType
  <2>. HIDE DEF k
  <2>7. Marked(p \o Append(r, e), M) = Marked(p, M) + Marked(Append(r, e), M)
    BY <2>1, <2>3, <2>4, <2>5, <2>6
  <2>. QED
    BY <2>2, <2>7
<1>3. Seq(S) \subseteq P
  <2>. HIDE DEF P
  <2>. QED
    BY <1>1, <1>2, SeqInduction
<1>. QED
  BY <1>3

LEMMA MarkedTail ==
  ASSUME NEW S, NEW q \in Seq(S), q # <<>>, NEW M
  PROVE  Marked(q, M) = (IF Head(q) \in M THEN 1 ELSE 0) + Marked(Tail(q), M)
<1>. DEFINE x == Head(q)
            r == Tail(q)
<1>1. x \in S /\ r \in Seq(S)
  BY HeadTailProperties
<1>2. q = <<x>> \o r
  OBVIOUS
<1>. HIDE DEF x, r
<1>3. <<x>> \in Seq(S) /\ <<x>> = Append(<<>>, x) /\ <<>> \in Seq(S)
  BY <1>1
<1>4. Marked(<<x>>, M) = Marked(<<>>, M) + (IF x \in M THEN 1 ELSE 0)
  BY <1>1, <1>3, MarkedAppend, Zenon
<1>5. Marked(<<x>>, M) = IF x \in M THEN 1 ELSE 0
  BY <1>4, MarkedEmpty
<1>6. Marked(q, M) = Marked(<<x>>, M) + Marked(r, M)
  BY <1>1, <1>2, <1>3, MarkedConcat, Zenon
<1>. QED
  BY <1>5, <1>6 DEF x, r

\* A beginning, and an end, has no more of them.
LEMMA MarkedPart ==
  ASSUME NEW S, NEW q \in Seq(S), NEW M, NEW p \in Prefixes(q) \cup Suffixes(q)
  PROVE  Marked(p, M) <= Marked(q, M)
<1>. DEFINE n == Len(q)
<1>1. n \in Nat
  OBVIOUS
<1>2. SubSeq(q, 1, n) = q
  OBVIOUS
<1>3. ASSUME NEW k \in 0..n
      PROVE  /\ Marked(SubSeq(q, 1, k), M) <= Marked(q, M)
             /\ Marked(SubSeq(q, k + 1, n), M) <= Marked(q, M)
  <2>. DEFINE a == SubSeq(q, 1, k)
              b == SubSeq(q, k + 1, n)
  <2>1. a \in Seq(S)
    BY <1>1
  <2>2. b \in Seq(S)
    BY <1>1
  <2>3. a \o b = q
    <3>1. k \in 1 - 1 .. n /\ n \in k .. n /\ 1 \in 1 .. n + 1
      BY <1>1
    <3>2. a \o b = SubSeq(q, 1, n)
      BY <3>1, ConcatAdjacentSubSeq
    <3>. QED
      BY <1>2, <3>2
  <2>. HIDE DEF a, b
  <2>4. Marked(q, M) = Marked(a, M) + Marked(b, M)
    BY <2>1, <2>2, <2>3, MarkedConcat
  <2>5. Marked(a, M) \in Nat /\ Marked(b, M) \in Nat
    BY <2>1, <2>2, MarkedType
  <2>6. Marked(a, M) <= Marked(q, M) /\ Marked(b, M) <= Marked(q, M)
    BY <2>4, <2>5
  <2>. QED
    BY <2>6 DEF a, b
<1>4. CASE p \in Prefixes(q)
  BY <1>3, <1>4 DEF Prefixes
<1>5. CASE p = <<>>
  <2>1. Marked(q, M) \in Nat
    BY MarkedType
  <2>. QED
    BY <1>5, <2>1, MarkedEmpty
<1>6. ASSUME NEW l \in 1..Len(q), p = SubSeq(q, l, Len(q))
      PROVE  Marked(p, M) <= Marked(q, M)
  <2>1. l - 1 \in 0..n /\ (l - 1) + 1 = l
    BY <1>1
  <2>2. Marked(SubSeq(q, (l - 1) + 1, n), M) <= Marked(q, M)
    BY <1>3, <2>1
  <2>. QED
    BY <1>6, <2>1, <2>2
<1>. QED
  BY <1>4, <1>5, <1>6 DEF Suffixes

LEMMA ImageType ==
  ASSUME NEW S, NEW T, NEW F \in [S -> T], NEW q \in Seq(S)
  PROVE  Image(F, q) \in Seq(T) /\ Len(Image(F, q)) = Len(q)
<1>1. Len(q) \in Nat /\ \A i \in 1..Len(q) : q[i] \in S
  OBVIOUS
<1>. QED
  BY <1>1 DEF Image

LEMMA ImageAppend ==
  ASSUME NEW S, NEW T, NEW F \in [S -> T], NEW q \in Seq(S), NEW e \in S
  PROVE  Image(F, Append(q, e)) = Append(Image(F, q), F[e])
<1>. DEFINE r == Append(q, e)
            a == Image(F, r)
            b == Append(Image(F, q), F[e])
            n == Len(q)
<1>1. r \in Seq(S) /\ n \in Nat /\ Len(r) = n + 1
  OBVIOUS
<1>2. r[n + 1] = e /\ \A i \in 1..n : r[i] = q[i]
  OBVIOUS
<1>. HIDE DEF r
<1>3. a \in Seq(T) /\ Len(a) = n + 1
  <2>1. Image(F, r) \in Seq(T) /\ Len(Image(F, r)) = Len(r)
    <3>1. Len(r) \in Nat /\ \A i \in 1..Len(r) : r[i] \in S
      BY <1>1
    <3>. QED
      BY <3>1 DEF Image
  <2>. QED
    BY <1>1, <2>1
<1>4. Image(F, q) \in Seq(T) /\ Len(Image(F, q)) = n /\ F[e] \in T
  <2>1. Image(F, q) \in Seq(T) /\ Len(Image(F, q)) = Len(q)
    <3>1. Len(q) \in Nat /\ \A i \in 1..Len(q) : q[i] \in S
      OBVIOUS
    <3>. QED
      BY <3>1 DEF Image
  <2>. QED
    BY <2>1
<1>5. b \in Seq(T) /\ Len(b) = n + 1 /\ b[n + 1] = F[e]
      /\ \A i \in 1..n : b[i] = Image(F, q)[i]
  BY <1>4, AppendProperties
<1>6. \A i \in 1 .. n + 1 : a[i] = b[i]
  <2>1. a[n + 1] = F[e]
    BY <1>1, <1>2 DEF Image
  <2>2. \A i \in 1..n : a[i] = F[q[i]] /\ Image(F, q)[i] = F[q[i]]
    BY <1>1, <1>2 DEF Image
  <2>. HIDE DEF a, b
  <2>. QED
    BY <1>1, <1>5, <2>1, <2>2
<1>7. a = b
  <2>. HIDE DEF a, b
  <2>. QED
    BY <1>3, <1>5, <1>6, SeqEqual
<1>. QED
  BY <1>7 DEF r

\* What a concatenation has of them, one sequence of it at a time.
LEMMA FlattenImage ==
  ASSUME NEW S, NEW T, NEW F, Lists(F, S, T), NEW q \in Seq(S)
  PROVE  FlattenSeq(Image(F, q)) \in Seq(T)
<1>1. Image(F, q) \in Seq(Seq(T))
  BY ImageType DEF Lists
<1>. QED
  BY <1>1, FlattenType

LEMMA MarkedFlatten ==
  ASSUME NEW S, NEW T, NEW F, Lists(F, S, T), NEW q \in Seq(S), NEW M
  PROVE  /\ Marked(FlattenSeq(Image(F, q)), M) \in Nat
         /\ \A e \in S :
              Marked(FlattenSeq(Image(F, Append(q, e))), M) =
                Marked(FlattenSeq(Image(F, q)), M) + Marked(F[e], M)
<1>1. Image(F, q) \in Seq(Seq(T))
  BY ImageType DEF Lists
<1>2. FlattenSeq(Image(F, q)) \in Seq(T)
  BY FlattenImage
<1>3. ASSUME NEW e \in S
      PROVE  Marked(FlattenSeq(Image(F, Append(q, e))), M) =
               Marked(FlattenSeq(Image(F, q)), M) + Marked(F[e], M)
  <2>1. F[e] \in Seq(T)
    BY DEF Lists
  <2>2. Image(F, Append(q, e)) = Append(Image(F, q), F[e])
    BY ImageAppend DEF Lists
  <2>3. FlattenSeq(Append(Image(F, q), F[e])) = FlattenSeq(Image(F, q)) \o F[e]
    BY <1>1, <2>1, FlattenAppend
  <2>4. Marked(FlattenSeq(Image(F, q)) \o F[e], M) =
          Marked(FlattenSeq(Image(F, q)), M) + Marked(F[e], M)
    BY <1>2, <2>1, MarkedConcat, Zenon
  <2>. QED
    BY <2>2, <2>3, <2>4
<1>. QED
  BY <1>2, <1>3, MarkedType

LEMMA MarkedFlattenEmpty ==
  ASSUME NEW F, NEW M PROVE Marked(FlattenSeq(Image(F, <<>>)), M) = 0
<1>1. Image(F, <<>>) = <<>>
  BY DEF Image
<1>. QED
  BY <1>1, FlattenEmpty, MarkedEmpty

-----------------------------------------------------------------------------
(***************************************************************************)
(* What was sent, what summaries count and what blocks count of a          *)
(* transaction, one round, one summary and one block at a time.            *)
(***************************************************************************)
\* The messages that bring t.
Bringing(t) == {m \in Message : m.kind = "tx" /\ m.tx = t}
\* What summaries count of shard s, and what blocks do.
Summed(s, parts) == PartOf(s, [parts |-> parts])
CountedIn(chain, s, t) ==
    Times(t, FlattenSeq([r \in 1..Len(chain) |-> PartOf(s, chain[r])]))

BlockType == [block_number : Nat, parts : Seq(Summary)]
Row(s) == [row \in [Shards -> Seq(Tx)] |-> row[s]]
Share(s) == [p \in Summary |-> IF p.shard_id = s THEN p.txs ELSE <<>>]
BlockPartsOf(s) == [b \in BlockType |-> PartOf(s, b)]

LEMMA TimesIsMarked == ASSUME NEW t, NEW q PROVE Times(t, q) = Marked(q, {t})
<1>1. {i \in 1..Len(q) : q[i] = t} = {i \in 1..Len(q) : q[i] \in {t}}
  OBVIOUS
<1>. QED
  BY <1>1 DEF Times, Marked

LEMMA RowType == ASSUME NEW s \in Shards PROVE Lists(Row(s), [Shards -> Seq(Tx)], Tx)
  BY DEF Row, Lists

LEMMA ShareType == ASSUME NEW s PROVE Lists(Share(s), Summary, Tx)
<1>1. \A p \in Summary : p.txs \in Seq(Tx)
  BY DEF Summary
<1>2. <<>> \in Seq(Tx)
  OBVIOUS
<1>. QED
  BY <1>1, <1>2 DEF Share, Lists

LEMMA TimesSentIs ==
  ASSUME NEW rounds \in Seq([Shards -> Seq(Tx)]), NEW s \in Shards, NEW t
  PROVE  TimesSent(rounds, s, t) = Marked(FlattenSeq(Image(Row(s), rounds)), {t})
<1>1. \A r \in 1..Len(rounds) : rounds[r] \in [Shards -> Seq(Tx)]
  OBVIOUS
<1>2. [r \in 1..Len(rounds) |-> rounds[r][s]] = Image(Row(s), rounds)
  BY <1>1 DEF Image, Row
<1>. QED
  BY <1>2, TimesIsMarked DEF TimesSent

\* What was sent, one round after the other.
LEMMA SentSum ==
  ASSUME NEW rounds \in Seq([Shards -> Seq(Tx)]), NEW s \in Shards, NEW t
  PROVE  /\ TimesSent(rounds, s, t) \in Nat
         /\ \A row \in [Shards -> Seq(Tx)] :
              TimesSent(Append(rounds, row), s, t) =
                TimesSent(rounds, s, t) + Times(t, row[s])
         /\ TimesSent(<<>>, s, t) = 0
<1>1. Lists(Row(s), [Shards -> Seq(Tx)], Tx)
  BY RowType
<1>2. TimesSent(rounds, s, t) \in Nat
  <2>1. Marked(FlattenSeq(Image(Row(s), rounds)), {t}) \in Nat
    BY <1>1, MarkedFlatten
  <2>. QED
    BY <2>1, TimesSentIs, Zenon
<1>3. ASSUME NEW row \in [Shards -> Seq(Tx)]
      PROVE  TimesSent(Append(rounds, row), s, t) =
                TimesSent(rounds, s, t) + Times(t, row[s])
  <2>1. Append(rounds, row) \in Seq([Shards -> Seq(Tx)])
    OBVIOUS
  <2>2. TimesSent(Append(rounds, row), s, t) =
          Marked(FlattenSeq(Image(Row(s), Append(rounds, row))), {t})
    BY <2>1, TimesSentIs, Zenon
  <2>3. Marked(FlattenSeq(Image(Row(s), Append(rounds, row))), {t}) =
          Marked(FlattenSeq(Image(Row(s), rounds)), {t}) + Marked(Row(s)[row], {t})
    BY <1>1, MarkedFlatten
  <2>4. Row(s)[row] = row[s]
    BY DEF Row
  <2>. QED
    BY <2>2, <2>3, <2>4, TimesSentIs, TimesIsMarked
<1>4. TimesSent(<<>>, s, t) = 0
  <2>1. <<>> \in Seq([Shards -> Seq(Tx)])
    OBVIOUS
  <2>2. TimesSent(<<>>, s, t) = Marked(FlattenSeq(Image(Row(s), <<>>)), {t})
    BY <2>1, TimesSentIs, Zenon
  <2>. QED
    BY <2>2, MarkedFlattenEmpty
<1>. QED
  BY <1>2, <1>3, <1>4

LEMMA SummedIs ==
  ASSUME NEW s, NEW parts \in Seq(Summary)
  PROVE  Summed(s, parts) = FlattenSeq(Image(Share(s), parts))
<1>1. \A i \in 1..Len(parts) : parts[i] \in Summary
  OBVIOUS
<1>2. [parts |-> parts].parts = parts
  OBVIOUS
<1>3. [i \in 1..Len(parts) |->
         IF parts[i].shard_id = s THEN parts[i].txs ELSE <<>>]
        = Image(Share(s), parts)
  BY <1>1 DEF Image, Share
<1>. QED
  BY <1>2, <1>3 DEF Summed, PartOf

\* What summaries count, one after the other.
LEMMA SummarySum ==
  ASSUME NEW parts \in Seq(Summary), NEW s, NEW t
  PROVE  /\ Summed(s, parts) \in Seq(Tx)
         /\ Times(t, Summed(s, parts)) \in Nat
         /\ \A p \in Summary :
              Times(t, Summed(s, Append(parts, p))) =
                Times(t, Summed(s, parts))
                  + (IF p.shard_id = s THEN Times(t, p.txs) ELSE 0)
         /\ Times(t, Summed(s, <<>>)) = 0
<1>1. Lists(Share(s), Summary, Tx)
  BY ShareType
<1>2. /\ Summed(s, parts) \in Seq(Tx)
      /\ Times(t, Summed(s, parts)) \in Nat
  <2>1. Summed(s, parts) = FlattenSeq(Image(Share(s), parts))
    BY SummedIs
  <2>2. FlattenSeq(Image(Share(s), parts)) \in Seq(Tx)
    BY <1>1, FlattenImage
  <2>3. Marked(Summed(s, parts), {t}) \in Nat
    BY <2>1, <2>2, MarkedType
  <2>. QED
    BY <2>1, <2>2, <2>3, TimesIsMarked
<1>3. ASSUME NEW p \in Summary
      PROVE  Times(t, Summed(s, Append(parts, p))) =
                Times(t, Summed(s, parts))
                  + (IF p.shard_id = s THEN Times(t, p.txs) ELSE 0)
  <2>1. Append(parts, p) \in Seq(Summary)
    OBVIOUS
  <2>2. Summed(s, Append(parts, p)) = FlattenSeq(Image(Share(s), Append(parts, p)))
    BY <2>1, SummedIs, Zenon
  <2>3. Marked(FlattenSeq(Image(Share(s), Append(parts, p))), {t}) =
          Marked(FlattenSeq(Image(Share(s), parts)), {t}) + Marked(Share(s)[p], {t})
    BY <1>1, MarkedFlatten
  <2>4. Marked(Share(s)[p], {t}) = IF p.shard_id = s THEN Times(t, p.txs) ELSE 0
    <3>1. Share(s)[p] = IF p.shard_id = s THEN p.txs ELSE <<>>
      BY DEF Share
    <3>. QED
      BY <3>1, TimesIsMarked, MarkedEmpty
  <2>. QED
    BY <2>2, <2>3, <2>4, SummedIs, TimesIsMarked
<1>4. Times(t, Summed(s, <<>>)) = 0
  <2>1. <<>> \in Seq(Summary)
    OBVIOUS
  <2>. QED
    BY <2>1, SummedIs, TimesIsMarked, MarkedFlattenEmpty
<1>. QED
  BY <1>2, <1>3, <1>4

LEMMA PartsOfType ==
  ASSUME NEW s
  PROVE  /\ Lists(BlockPartsOf(s), BlockType, Tx)
         /\ \A b \in BlockType : BlockPartsOf(s)[b] = Summed(s, b.parts)
<1>1. ASSUME NEW b \in BlockType
      PROVE  PartOf(s, b) = Summed(s, b.parts) /\ Summed(s, b.parts) \in Seq(Tx)
  <2>1. b.parts \in Seq(Summary)
    BY DEF BlockType
  <2>2. [parts |-> b.parts].parts = b.parts
    OBVIOUS
  <2>. QED
    BY <2>1, <2>2, SummarySum DEF Summed, PartOf
<1>. QED
  BY <1>1 DEF BlockPartsOf, Lists

LEMMA CountedIs ==
  ASSUME NEW chain \in Seq(BlockType), NEW s, NEW t
  PROVE  CountedIn(chain, s, t) = Marked(FlattenSeq(Image(BlockPartsOf(s), chain)), {t})
<1>1. \A r \in 1..Len(chain) : chain[r] \in BlockType
  OBVIOUS
<1>2. [r \in 1..Len(chain) |-> PartOf(s, chain[r])] = Image(BlockPartsOf(s), chain)
  BY <1>1 DEF Image, BlockPartsOf
<1>. QED
  BY <1>2, TimesIsMarked DEF CountedIn

\* What blocks count, one after the other.
LEMMA BlockSum ==
  ASSUME NEW chain \in Seq(BlockType), NEW s, NEW t
  PROVE  /\ CountedIn(chain, s, t) \in Nat
         /\ \A b \in BlockType :
              CountedIn(Append(chain, b), s, t) =
                CountedIn(chain, s, t) + Times(t, Summed(s, b.parts))
         /\ CountedIn(<<>>, s, t) = 0
<1>1. Lists(BlockPartsOf(s), BlockType, Tx)
  BY PartsOfType
<1>2. CountedIn(chain, s, t) \in Nat
  <2>1. Marked(FlattenSeq(Image(BlockPartsOf(s), chain)), {t}) \in Nat
    BY <1>1, MarkedFlatten
  <2>. QED
    BY <2>1, CountedIs, Zenon
<1>3. ASSUME NEW b \in BlockType
      PROVE  CountedIn(Append(chain, b), s, t) =
                CountedIn(chain, s, t) + Times(t, Summed(s, b.parts))
  <2>1. Append(chain, b) \in Seq(BlockType)
    OBVIOUS
  <2>2. CountedIn(Append(chain, b), s, t) =
          Marked(FlattenSeq(Image(BlockPartsOf(s), Append(chain, b))), {t})
    BY <2>1, CountedIs, Zenon
  <2>3. Marked(FlattenSeq(Image(BlockPartsOf(s), Append(chain, b))), {t}) =
          Marked(FlattenSeq(Image(BlockPartsOf(s), chain)), {t}) + Marked(BlockPartsOf(s)[b], {t})
    BY <1>1, MarkedFlatten
  <2>. QED
    BY <2>2, <2>3, CountedIs, TimesIsMarked, PartsOfType
<1>4. CountedIn(<<>>, s, t) = 0
  <2>1. <<>> \in Seq(BlockType)
    OBVIOUS
  <2>2. CountedIn(<<>>, s, t) = Marked(FlattenSeq(Image(BlockPartsOf(s), <<>>)), {t})
    BY <2>1, CountedIs, Zenon
  <2>. QED
    BY <2>2, MarkedFlattenEmpty
<1>. QED
  BY <1>2, <1>3, <1>4

\* What a worker has, with one transaction more.
LEMMA TimesAppend ==
  ASSUME NEW q \in Seq(Tx), NEW u \in Tx, NEW t
  PROVE  /\ Times(t, q) \in Nat
         /\ Times(t, Append(q, u)) = Times(t, q) + (IF u = t THEN 1 ELSE 0)
         /\ Times(t, <<>>) = 0
<1>1. Marked(Append(q, u), {t}) = Marked(q, {t}) + (IF u \in {t} THEN 1 ELSE 0)
  BY MarkedAppend
<1>. QED
  BY <1>1, TimesIsMarked, MarkedType, MarkedEmpty

-----------------------------------------------------------------------------
(***************************************************************************)
(* The ledger: what has become of the transactions a shard was sent.  A    *)
(* copy moves from the stream to the worker's hands, to its summary, to    *)
(* the leader's array and to a block; restarts lose copies and make none.  *)
(***************************************************************************)
Coming(q, t) == Marked(q, Bringing(t))
InAnswer(s, t) == IF s = Leader THEN 0 ELSE Times(t, Summed(s, pull_results[s]))
InHand(s, t) == IF pc[s] = "process" THEN Times(t, tx_buf[s]) ELSE 0

\* What has become of the copies of t that shard s was sent: they are in
\* blocks, in summaries the leader has, in the one the shard has pushed, in the
\* worker's hands, or on one of its streams.
Held(s, t) ==
    CountedIn(blocks, s, t) + Times(t, Summed(s, summaries)) + InAnswer(s, t)
        + InHand(s, t) + Coming(pull_tx[s], t) + Coming(leftover[s], t)
Given(s, t) == TimesSent(sent_before, s, t) + TimesSent(sent, s, t)
Balance(s, t) == Held(s, t) <= Given(s, t)

\* Before the receiver ends, nothing is left over.
NothingLeftOver ==
    Receiver \notin restarted =>
        sent_before = <<>> /\ \A s \in Shards : leftover[s] = <<>>

\* The inductive invariant: no copy is in two of these places.
LedgerInv ==
    AnswersInv /\ NothingLeftOver /\ \A s \in Shards : \A t \in Tx : Balance(s, t)

LEMMA ComingAppend ==
  ASSUME NEW q \in Seq(Message), NEW m \in Message, NEW t
  PROVE  Coming(Append(q, m), t) =
           Coming(q, t) + (IF m.kind = "tx" /\ m.tx = t THEN 1 ELSE 0)
<1>1. m \in Bringing(t) <=> m.kind = "tx" /\ m.tx = t
  BY DEF Bringing
<1>2. Marked(Append(q, m), Bringing(t)) =
        Marked(q, Bringing(t)) + (IF m \in Bringing(t) THEN 1 ELSE 0)
  BY MarkedAppend
<1>. QED
  BY <1>1, <1>2 DEF Coming

LEMMA ComingTail ==
  ASSUME NEW q \in Seq(Message), q # <<>>, NEW t
  PROVE  Coming(q, t) =
           (IF Head(q).kind = "tx" /\ Head(q).tx = t THEN 1 ELSE 0)
             + Coming(Tail(q), t)
<1>1. Head(q) \in Message
  OBVIOUS
<1>2. Head(q) \in Bringing(t) <=> Head(q).kind = "tx" /\ Head(q).tx = t
  BY <1>1 DEF Bringing
<1>3. Marked(q, Bringing(t)) =
        (IF Head(q) \in Bringing(t) THEN 1 ELSE 0) + Marked(Tail(q), Bringing(t))
  BY MarkedTail
<1>. QED
  BY <1>2, <1>3 DEF Coming

LEMMA ComingType ==
  ASSUME NEW q \in Seq(Message), NEW t
  PROVE  Coming(q, t) \in Nat /\ Coming(<<>>, t) = 0
  BY MarkedType, MarkedEmpty DEF Coming

LEMMA ComingPart ==
  ASSUME NEW q \in Seq(Message), NEW p \in Prefixes(q) \cup Suffixes(q), NEW t
  PROVE  Coming(p, t) <= Coming(q, t)
  BY MarkedPart DEF Coming

LEMMA TimesType ==
  ASSUME NEW q \in Seq(Tx), NEW t
  PROVE  Times(t, q) \in Nat /\ Times(t, <<>>) = 0
  BY TimesIsMarked, MarkedType, MarkedEmpty

PutLast(rounds, w, u) == [rounds EXCEPT ![Len(rounds)][w] = Append(@, u)]

\* The transaction a dispatch sends is the last of what it sent its shard.
LEMMA SentPut ==
  \A rounds \in Seq([Shards -> Seq(Tx)]) : rounds # <<>> =>
    \A w \in Shards, u \in Tx, s \in Shards : \A t :
      TimesSent(PutLast(rounds, w, u), s, t) =
        TimesSent(rounds, s, t) + (IF s = w /\ u = t THEN 1 ELSE 0)
<1>. SUFFICES ASSUME NEW rounds \in Seq([Shards -> Seq(Tx)]), rounds # <<>>,
                     NEW w \in Shards, NEW u \in Tx, NEW s \in Shards, NEW t
              PROVE  TimesSent(PutLast(rounds, w, u), s, t) =
                       TimesSent(rounds, s, t) + (IF s = w /\ u = t THEN 1 ELSE 0)
  OBVIOUS
<1>0. PICK n \in Nat \ {0} : n = Len(rounds)
  OBVIOUS
<1>. DEFINE R == [Shards -> Seq(Tx)]
            front == SubSeq(rounds, 1, n - 1)
            row == rounds[n]
            new == PutLast(rounds, w, u)
            more == [row EXCEPT ![w] = Append(@, u)]
<1>1. front \in Seq(R) /\ Len(front) = n - 1
  BY <1>0
<1>2. \A i \in 1 .. n - 1 : front[i] = rounds[i]
  BY <1>0
<1>3. row \in R
  BY <1>0
<1>4. more \in R
  BY <1>3
<1>5. /\ new \in Seq(R) /\ Len(new) = n /\ new[n] = more
      /\ \A i \in 1 .. n - 1 : new[i] = rounds[i]
  <2>0. new = [rounds EXCEPT ![n] = more]
    BY <1>0 DEF PutLast
  <2>. HIDE DEF more, row
  <2>1. new \in Seq(R)
    BY <1>0, <1>4, <2>0
  <2>2. Len(new) = n
    BY <1>0, <1>4, <2>0
  <2>. QED
    BY <1>0, <1>4, <2>0, <2>1, <2>2
<1>. HIDE DEF front, new
<1>7. rounds = Append(front, row)
  <2>. DEFINE a == Append(front, row)
  <2>1. a \in Seq(R) /\ Len(a) = n /\ a[n] = row
        /\ \A i \in 1 .. n - 1 : a[i] = front[i]
    BY <1>1, <1>3
  <2>2. ASSUME NEW i \in 1..n PROVE a[i] = rounds[i]
    <3>. HIDE DEF a
    <3>1. i = n \/ i \in 1 .. n - 1
      OBVIOUS
    <3>. QED
      BY <1>2, <2>1, <3>1
  <2>. HIDE DEF a, R
  <2>3. rounds \in Seq(R)
    BY DEF R
  <2>4. a = rounds
    BY <1>0, <2>1, <2>2, <2>3, SeqEqual
  <2>. QED
    BY <2>4 DEF a
<1>8. new = Append(front, more)
  <2>. DEFINE a == Append(front, more)
  <2>1. a \in Seq(R) /\ Len(a) = n /\ a[n] = more
        /\ \A i \in 1 .. n - 1 : a[i] = front[i]
    <3>. HIDE DEF more, R
    <3>. QED
      BY <1>1, <1>4
  <2>. HIDE DEF a, R, more, row
  <2>2. ASSUME NEW i \in 1..n PROVE a[i] = new[i]
    <3>1. i = n \/ i \in 1 .. n - 1
      OBVIOUS
    <3>. QED
      BY <1>2, <1>5, <2>1, <3>1
  <2>3. a = new
    BY <1>5, <2>1, <2>2, SeqEqual
  <2>. QED
    BY <2>3 DEF a
<1>9. TimesSent(rounds, s, t) = TimesSent(front, s, t) + Times(t, row[s])
  <2>1. TimesSent(Append(front, row), s, t) = TimesSent(front, s, t) + Times(t, row[s])
    <3>. HIDE DEF row
    <3>. QED
      BY <1>1, <1>3, SentSum
  <2>. QED
    BY <1>7, <2>1
<1>10. TimesSent(new, s, t) = TimesSent(front, s, t) + Times(t, more[s])
  <2>1. TimesSent(Append(front, more), s, t) = TimesSent(front, s, t) + Times(t, more[s])
    <3>. HIDE DEF more
    <3>. QED
      BY <1>1, <1>4, SentSum
  <2>. QED
    BY <1>8, <2>1
<1>11. Times(t, more[s]) = Times(t, row[s]) + (IF s = w /\ u = t THEN 1 ELSE 0)
  <2>1. row[s] \in Seq(Tx) /\ row[w] \in Seq(Tx)
    BY <1>3
  <2>2. Times(t, row[s]) \in Nat
    BY <2>1, TimesType
  <2>3. CASE s = w
    <3>1. more[s] = Append(row[s], u)
      BY <1>3, <2>3
    <3>2. Times(t, Append(row[s], u)) = Times(t, row[s]) + (IF u = t THEN 1 ELSE 0)
      BY <2>1, TimesAppend
    <3>. QED
      BY <2>3, <3>1, <3>2
  <2>4. CASE s # w
    <3>1. more[s] = row[s]
      BY <1>3, <2>4
    <3>. QED
      BY <2>2, <2>4, <3>1
  <2>. QED
    BY <2>3, <2>4
<1>12. TimesSent(front, s, t) \in Nat /\ Times(t, row[s]) \in Nat
  <2>1. row[s] \in Seq(Tx)
    BY <1>3
  <2>. HIDE DEF row
  <2>. QED
    BY <1>1, <2>1, SentSum, TimesType
<1>13. TimesSent(new, s, t) =
         TimesSent(rounds, s, t) + (IF s = w /\ u = t THEN 1 ELSE 0)
  <2>. HIDE DEF row, more
  <2>. QED
    BY <1>9, <1>10, <1>11, <1>12
<1>. QED
  BY <1>13 DEF new

-----------------------------------------------------------------------------
LEMMA LedgerNumbers ==
  ASSUME RestartTypeOK, NEW s \in Shards, NEW t
  PROVE  /\ CountedIn(blocks, s, t) \in Nat
         /\ Times(t, Summed(s, summaries)) \in Nat
         /\ InAnswer(s, t) \in Nat
         /\ InHand(s, t) \in Nat
         /\ Coming(pull_tx[s], t) \in Nat
         /\ Coming(leftover[s], t) \in Nat
         /\ TimesSent(sent_before, s, t) \in Nat
         /\ TimesSent(sent, s, t) \in Nat
<1>1. CountedIn(blocks, s, t) \in Nat
  BY BlockSum DEF RestartTypeOK, TypeOK, LeaderTypes, BlockType
<1>2. Times(t, Summed(s, summaries)) \in Nat
  BY SummarySum DEF RestartTypeOK, TypeOK, LeaderTypes
<1>3. InAnswer(s, t) \in Nat
  <2>1. CASE s # Leader
    <3>1. pull_results[s] \in Seq(Summary)
      BY <2>1 DEF RestartTypeOK, TypeOK, QueueTypes, Followers
    <3>. QED
      BY <2>1, <3>1, SummarySum DEF InAnswer
  <2>. QED
    BY <2>1 DEF InAnswer
<1>4. InHand(s, t) \in Nat
  <2>1. tx_buf[s] \in Seq(Tx)
    BY DEF RestartTypeOK, TypeOK, ProcessTypes
  <2>. QED
    BY <2>1, TimesType DEF InHand
<1>5. Coming(pull_tx[s], t) \in Nat /\ Coming(leftover[s], t) \in Nat
  BY ComingType DEF RestartTypeOK, TypeOK, QueueTypes
<1>6. TimesSent(sent_before, s, t) \in Nat /\ TimesSent(sent, s, t) \in Nat
  BY SentSum DEF RestartTypeOK, TypeOK, AssignerTypes
<1>. QED
  BY <1>1, <1>2, <1>3, <1>4, <1>5, <1>6

\* A step that puts a message on stream w, and records what it sent.
LEMMA PutBalance ==
  ASSUME RestartTypeOK, NEW w \in Shards, NEW m \in Message, Put(w, m),
         UNCHANGED <<pull_results, pc, processVars, leaderVars, restartVars>>,
         NEW s \in Shards, NEW t, Balance(s, t),
         TimesSent(sent', s, t) =
           TimesSent(sent, s, t)
             + (IF s = w /\ m.kind = "tx" /\ m.tx = t THEN 1 ELSE 0)
  PROVE  Balance(s, t)'
<1>1. /\ CountedIn(blocks', s, t) = CountedIn(blocks, s, t)
      /\ Summed(s, summaries') = Summed(s, summaries)
      /\ InAnswer(s, t)' = InAnswer(s, t) /\ InHand(s, t)' = InHand(s, t)
      /\ leftover' = leftover /\ sent_before' = sent_before
  BY DEF processVars, leaderVars, restartVars, InAnswer, InHand
<1>2. Coming(pull_tx'[s], t) =
        Coming(pull_tx[s], t)
          + (IF s = w /\ m.kind = "tx" /\ m.tx = t THEN 1 ELSE 0)
  <2>1. pull_tx \in [Shards -> Seq(Message)]
        /\ pull_tx' = [pull_tx EXCEPT ![w] = Append(@, m)]
    BY DEF Put, RestartTypeOK, TypeOK, QueueTypes
  <2>2. CASE s = w
    <3>1. pull_tx'[s] = Append(pull_tx[s], m) /\ pull_tx[s] \in Seq(Message)
      BY <2>1, <2>2
    <3>. QED
      BY <2>2, <3>1, ComingAppend
  <2>3. CASE s # w
    BY <2>1, <2>3, LedgerNumbers
  <2>. QED
    BY <2>2, <2>3
<1>. QED
  BY <1>1, <1>2, LedgerNumbers DEF Balance, Held, Given

LEMMA ComingTaken ==
  ASSUME NEW q \in [Shards -> Seq(Message)], NEW w \in Shards, q[w] # <<>>,
         NEW s \in Shards, NEW t
  PROVE  Coming(q[s], t) =
           Coming([q EXCEPT ![w] = Tail(@)][s], t)
             + (IF s = w /\ Head(q[w]).kind = "tx" /\ Head(q[w]).tx = t
                THEN 1 ELSE 0)
<1>1. q[s] \in Seq(Message)
  OBVIOUS
<1>2. Coming(q[s], t) \in Nat
  BY <1>1, ComingType
<1>3. CASE s = w
  <2>1. [q EXCEPT ![w] = Tail(@)][s] = Tail(q[s])
    BY <1>3
  <2>2. Coming(q[s], t) =
          (IF Head(q[s]).kind = "tx" /\ Head(q[s]).tx = t THEN 1 ELSE 0)
            + Coming(Tail(q[s]), t)
    BY <1>1, <1>3, ComingTail
  <2>3. Coming(Tail(q[s]), t) \in Nat
    <3>1. Tail(q[s]) \in Seq(Message)
      BY <1>1, <1>3
    <3>. QED
      BY <3>1, ComingType
  <2>. QED
    BY <1>3, <2>1, <2>2, <2>3
<1>4. CASE s # w
  <2>1. [q EXCEPT ![w] = Tail(@)][s] = q[s]
    BY <1>4
  <2>. QED
    BY <1>2, <1>4, <2>1
<1>. QED
  BY <1>3, <1>4

\* A worker that takes a message has what it brings in its hands.
LEMMA TakeBalance ==
  ASSUME RestartTypeOK, RestartTypeOK', NEW w \in Shards, NEW m \in Message,
         pc[w] = "process",
         tx_buf' = IF m.kind = "tx"
                   THEN [tx_buf EXCEPT ![w] = Append(@, m.tx)] ELSE tx_buf,
         UNCHANGED <<pull_results, pc, leaderVars, sent, sent_before>>,
         NEW s \in Shards, NEW t, Balance(s, t),
         Coming(pull_tx[s], t) + Coming(leftover[s], t) =
           Coming(pull_tx'[s], t) + Coming(leftover'[s], t)
             + (IF s = w /\ m.kind = "tx" /\ m.tx = t THEN 1 ELSE 0)
  PROVE  Balance(s, t)'
<1>1. /\ CountedIn(blocks', s, t) = CountedIn(blocks, s, t)
      /\ Summed(s, summaries') = Summed(s, summaries)
      /\ InAnswer(s, t)' = InAnswer(s, t)
      /\ sent' = sent /\ sent_before' = sent_before
  BY DEF leaderVars, InAnswer
<1>2. InHand(s, t)' =
        InHand(s, t) + (IF s = w /\ m.kind = "tx" /\ m.tx = t THEN 1 ELSE 0)
  <2>1. tx_buf \in [Shards -> Seq(Tx)] /\ tx_buf[s] \in Seq(Tx)
    BY DEF RestartTypeOK, TypeOK, ProcessTypes
  <2>2. InHand(s, t) \in Nat
    BY LedgerNumbers
  <2>3. CASE s = w /\ m.kind = "tx"
    <3>1. tx_buf'[s] = Append(tx_buf[s], m.tx) /\ m.tx \in Tx
      BY <2>1, <2>3, MessageFields
    <3>2. Times(t, Append(tx_buf[s], m.tx)) =
            Times(t, tx_buf[s]) + (IF m.tx = t THEN 1 ELSE 0)
      BY <2>1, <3>1, TimesAppend
    <3>3. pc'[s] = "process" /\ pc[s] = "process"
      BY <2>3
    <3>. QED
      BY <2>3, <3>1, <3>2, <3>3 DEF InHand
  <2>4. CASE s # w \/ m.kind # "tx"
    <3>1. tx_buf'[s] = tx_buf[s]
      BY <2>1, <2>4
    <3>2. InHand(s, t)' = InHand(s, t)
      BY <3>1 DEF InHand
    <3>. QED
      BY <2>2, <2>4, <3>2
  <2>. QED
    BY <2>3, <2>4
<1>3. /\ Coming(pull_tx'[s], t) \in Nat /\ Coming(leftover'[s], t) \in Nat
  BY ComingType DEF RestartTypeOK, TypeOK, QueueTypes
<1>. DEFINE d == IF s = w /\ m.kind = "tx" /\ m.tx = t THEN 1 ELSE 0
<1>4. d \in Nat /\ InHand(s, t)' = InHand(s, t) + d
      /\ Coming(pull_tx[s], t) + Coming(leftover[s], t) =
           Coming(pull_tx'[s], t) + Coming(leftover'[s], t) + d
  BY <1>2
<1>. HIDE DEF d
<1>5. Held(s, t)' = Held(s, t)
  <2>1. PICK n \in Nat : n = CountedIn(blocks, s, t) + Times(t, Summed(s, summaries))
                             + InAnswer(s, t)
    BY LedgerNumbers
  <2>2. PICK h \in Nat : h = InHand(s, t)
    BY LedgerNumbers
  <2>3. PICK p \in Nat : p = Coming(pull_tx[s], t)
    BY LedgerNumbers
  <2>4. PICK l \in Nat : l = Coming(leftover[s], t)
    BY LedgerNumbers
  <2>5. PICK p1 \in Nat : p1 = Coming(pull_tx'[s], t)
    BY <1>3
  <2>6. PICK l1 \in Nat : l1 = Coming(leftover'[s], t)
    BY <1>3
  <2>7. Held(s, t) = n + h + p + l
    BY <2>1, <2>2, <2>3, <2>4 DEF Held
  <2>8. Held(s, t)' = n + (h + d) + p1 + l1
    BY <1>1, <1>4, <2>1, <2>2, <2>5, <2>6 DEF Held
  <2>9. p + l = p1 + l1 + d
    BY <1>4, <2>3, <2>4, <2>5, <2>6
  <2>. QED
    BY <1>4, <2>7, <2>8, <2>9
<1>6. Given(s, t)' = Given(s, t)
  BY <1>1 DEF Given
<1>. QED
  BY <1>5, <1>6 DEF Balance

\* A step that loses messages, and sets aside what worker w had in its hands.
LEMMA LoseBalance ==
  ASSUME RestartTypeOK, RestartTypeOK',
         UNCHANGED <<pull_results, leaderVars, sent, sent_before>>,
         NEW s \in Shards, NEW t, Balance(s, t),
         Coming(pull_tx'[s], t) <= Coming(pull_tx[s], t),
         Coming(leftover'[s], t) <= Coming(leftover[s], t),
         InHand(s, t)' <= InHand(s, t)
  PROVE  Balance(s, t)'
<1>1. /\ CountedIn(blocks', s, t) = CountedIn(blocks, s, t)
      /\ Summed(s, summaries') = Summed(s, summaries)
      /\ InAnswer(s, t)' = InAnswer(s, t)
      /\ sent' = sent /\ sent_before' = sent_before
  BY DEF leaderVars, InAnswer
<1>2. /\ Coming(pull_tx'[s], t) \in Nat /\ Coming(leftover'[s], t) \in Nat
  BY ComingType DEF RestartTypeOK, TypeOK, QueueTypes
<1>3. InHand(s, t)' \in Nat
  <2>1. tx_buf'[s] \in Seq(Tx)
    BY DEF RestartTypeOK, TypeOK, ProcessTypes
  <2>. QED
    BY <2>1, TimesType DEF InHand
<1>. QED
  BY <1>1, <1>2, <1>3, LedgerNumbers DEF Balance, Held, Given

\* Entering process_transactions, a worker has nothing in its hands.
LEMMA EnterHand ==
  ASSUME RestartTypeOK, NEW w \in Shards, EnterProcess(w), NEW s \in Shards, NEW t
  PROVE  InHand(s, t)' <= InHand(s, t)
<1>1. /\ pc' = [pc EXCEPT ![w] = "process"] /\ DOMAIN pc = Shards
      /\ tx_buf' = [tx_buf EXCEPT ![w] = <<>>] /\ DOMAIN tx_buf = Shards
  BY DEF EnterProcess, Goto, RestartTypeOK, TypeOK, ProcessTypes, WorkerTypes
<1>2. InHand(s, t) \in Nat
  BY LedgerNumbers
<1>3. CASE s = w
  <2>1. InHand(s, t)' = 0
    <3>1. tx_buf'[s] = <<>> /\ pc'[s] = "process"
      BY <1>1, <1>3
    <3>2. <<>> \in Seq(Tx)
      OBVIOUS
    <3>. QED
      BY <3>1, <3>2, TimesType DEF InHand
  <2>. QED
    BY <1>2, <2>1
<1>4. CASE s # w
  <2>1. InHand(s, t)' = InHand(s, t)
    BY <1>1, <1>4 DEF InHand
  <2>. QED
    BY <1>2, <2>1
<1>. QED
  BY <1>3, <1>4

\* Whoever leaves it, or was not in it, has nothing there.
LEMMA LeaveHand ==
  ASSUME RestartTypeOK, NEW w \in Shards, NEW l, l # "process",
         pc' = [pc EXCEPT ![w] = l], UNCHANGED tx_buf, NEW s \in Shards, NEW t
  PROVE  /\ InHand(s, t)' <= InHand(s, t)
         /\ s = w => InHand(s, t)' = 0
         /\ s # w => InHand(s, t)' = InHand(s, t)
<1>1. DOMAIN pc = Shards
  BY DEF RestartTypeOK, TypeOK, WorkerTypes
<1>2. InHand(s, t) \in Nat
  BY LedgerNumbers
<1>3. s = w => InHand(s, t)' = 0
  BY <1>1 DEF InHand
<1>4. s # w => InHand(s, t)' = InHand(s, t)
  BY <1>1 DEF InHand
<1>. QED
  BY <1>2, <1>3, <1>4

-----------------------------------------------------------------------------
LEMMA DispatchBalance ==
  ASSUME LedgerInv, NEW batch \in Batches, SendDispatchHeader(batch),
         UNCHANGED restartVars, NEW s \in Shards, NEW t \in Tx
  PROVE  Balance(s, t)'
<1>0. RestartTypeOK /\ Balance(s, t)
  BY DEF LedgerInv, AnswersInv
<1>. DEFINE row == [w \in Shards |-> <<>>]
            m == DispatchHeader(round_number')
<1>1. m \in Message
  <2>1. round_number' \in 1..MaxRounds
    BY <1>0, BoundsAssumption
    DEF SendDispatchHeader, RestartTypeOK, TypeOK, AssignerTypes
  <2>. QED
    BY <2>1, HeaderType
<1>2. m.kind # "tx"
  BY DEF DispatchHeader
<1>3. sent' = Append(sent, row) /\ sent \in Seq([Shards -> Seq(Tx)])
      /\ row \in [Shards -> Seq(Tx)] /\ row[s] = <<>> /\ <<>> \in Seq(Tx)
  BY <1>0 DEF SendDispatchHeader, RestartTypeOK, TypeOK, AssignerTypes
<1>4. TimesSent(sent', s, t) = TimesSent(sent, s, t) + Times(t, row[s])
  <2>. HIDE DEF row
  <2>. QED
    BY <1>3, SentSum
<1>5. Times(t, row[s]) = 0 /\ TimesSent(sent, s, t) \in Nat
  BY <1>0, <1>3, TimesType, LedgerNumbers
<1>6. Leader \in Shards /\ Put(Leader, m)
      /\ UNCHANGED <<pull_results, pc, processVars, leaderVars, restartVars>>
  BY LeaderIsShard DEF SendDispatchHeader
<1>. HIDE DEF row, m
<1>7. TimesSent(sent', s, t) =
        TimesSent(sent, s, t)
          + (IF s = Leader /\ m.kind = "tx" /\ m.tx = t THEN 1 ELSE 0)
  BY <1>2, <1>4, <1>5
<1>. QED
  BY <1>0, <1>1, <1>6, <1>7, PutBalance

LEMMA SendTxBalance ==
  ASSUME LedgerInv, SendTx, UNCHANGED restartVars, NEW s \in Shards, NEW t \in Tx
  PROVE  Balance(s, t)'
<1>0. RestartTypeOK /\ Balance(s, t)
  BY DEF LedgerInv, AnswersInv
<1>1. PICK u \in Tx : u = Head(drain_buf)
  BY <1>0 DEF SendTx, RestartTypeOK, TypeOK, AssignerTypes
<1>2. PICK w \in Shards : w = shard_for_tx(u)
  BY ShardForTx
<1>3. PICK n \in Nat : n = assigned_counts[w]
  BY <1>0 DEF RestartTypeOK, TypeOK, AssignerTypes
<1>. DEFINE m == TxWithPubkey(u, round_number, n + 1)
<1>4. /\ Put(w, m)
      /\ sent' = [sent EXCEPT ![round_number][w] = Append(@, u)]
      /\ UNCHANGED <<pull_results, pc, processVars, leaderVars, restartVars>>
  BY <1>1, <1>2, <1>3 DEF SendTx
<1>5. /\ round_number \in 1..MaxRounds /\ round_number \in Nat \ {0}
      /\ round_number = Len(sent)
      /\ sent \in Seq([Shards -> Seq(Tx)])
  <2>1. dispatching /\ AssignerTypes
    BY <1>0 DEF SendTx, RestartTypeOK, TypeOK
  <2>2. /\ round_number \in 0..MaxRounds /\ round_number > 0
        /\ round_number = Len(sent)
        /\ sent \in Seq([Shards -> Seq(Tx)])
    BY <2>1 DEF AssignerTypes
  <2>3. round_number \in 1..MaxRounds /\ round_number \in Nat \ {0}
    BY <2>2, BoundsAssumption
  <2>. QED
    BY <2>2, <2>3
<1>6. m \in Message
  BY <1>5, TxType
<1>7. m.kind = "tx" /\ m.tx = u
  BY DEF TxWithPubkey
<1>. HIDE DEF m
<1>8. TimesSent([sent EXCEPT ![round_number][w] = Append(@, u)], s, t) =
        TimesSent(sent, s, t) + (IF s = w /\ u = t THEN 1 ELSE 0)
  <2>1. PICK rounds \in Seq([Shards -> Seq(Tx)]) : rounds = sent
    BY <1>5
  <2>2. round_number = Len(rounds) /\ rounds # <<>>
    BY <1>5, <2>1
  <2>3. TimesSent(PutLast(rounds, w, u), s, t) =
          TimesSent(rounds, s, t) + (IF s = w /\ u = t THEN 1 ELSE 0)
    <3>1. rounds # <<>>
      BY <2>2
    <3>2. \A v \in Shards, x \in Tx, z \in Shards : \A y :
            TimesSent(PutLast(rounds, v, x), z, y) =
              TimesSent(rounds, z, y) + (IF z = v /\ x = y THEN 1 ELSE 0)
      BY <3>1, SentPut
    <3>. QED
      BY ONLY <3>2
  <2>. QED
    BY <2>1, <2>2, <2>3 DEF PutLast
<1>9. TimesSent(sent', s, t) =
        TimesSent(sent, s, t)
          + (IF s = w /\ m.kind = "tx" /\ m.tx = t THEN 1 ELSE 0)
  BY <1>4, <1>7, <1>8
<1>. QED
  BY <1>0, <1>4, <1>6, <1>9, PutBalance

LEMMA SendRoundEndBalance ==
  ASSUME LedgerInv, SendRoundEnd, UNCHANGED restartVars,
         NEW s \in Shards, NEW t \in Tx
  PROVE  Balance(s, t)'
<1>0. RestartTypeOK /\ Balance(s, t)
  BY DEF LedgerInv, AnswersInv
<1>1. PICK w \in Shards : w = next_end
  <2>1. next_end \in 0..NumShards /\ ~(next_end >= NumShards)
    BY <1>0 DEF SendRoundEnd, AllEndsSent, RestartTypeOK, TypeOK, AssignerTypes
  <2>. QED
    BY <2>1, NumShardsAssumption DEF Shards
<1>2. PICK n \in Nat : n = assigned_counts[w]
  BY <1>0 DEF RestartTypeOK, TypeOK, AssignerTypes
<1>. DEFINE m == RoundEnd(round_number, n)
<1>3. /\ Put(w, m) /\ sent' = sent
      /\ UNCHANGED <<pull_results, pc, processVars, leaderVars, restartVars>>
  BY <1>1, <1>2 DEF SendRoundEnd
<1>4. round_number \in 1..MaxRounds
  BY <1>0, BoundsAssumption DEF SendRoundEnd, RestartTypeOK, TypeOK, AssignerTypes
<1>5. m \in Message
  BY <1>4, EndType
<1>6. m.kind # "tx"
  BY DEF RoundEnd
<1>. HIDE DEF m
<1>7. TimesSent(sent', s, t) =
        TimesSent(sent, s, t)
          + (IF s = w /\ m.kind = "tx" /\ m.tx = t THEN 1 ELSE 0)
  BY <1>0, <1>3, <1>6, LedgerNumbers
<1>. QED
  BY <1>0, <1>3, <1>5, <1>7, PutBalance

\* A step that moves no transaction.
LEMMA StillBalance ==
  ASSUME NEW s, NEW t, Balance(s, t),
         UNCHANGED <<pull_tx, leftover, pull_results, blocks, summaries, sent,
                     sent_before, tx_buf, pc>>
  PROVE  Balance(s, t)'
  BY DEF Balance, Held, Given, InAnswer, InHand

\* The leader waits for something and goes on.
LEMMA WaitBalance ==
  ASSUME RestartTypeOK, RestartTypeOK', NEW l \in {"header", "done", "publish"},
         pc' = [pc EXCEPT ![Leader] = l],
         UNCHANGED <<pull_results, blocks, summaries, tx_buf, sent, sent_before>>,
         NEW s \in Shards, NEW t, Balance(s, t),
         Coming(pull_tx'[s], t) <= Coming(pull_tx[s], t),
         Coming(leftover'[s], t) <= Coming(leftover[s], t)
  PROVE  Balance(s, t)'
<1>1. InHand(s, t)' <= InHand(s, t)
  BY LeaveHand, LeaderIsShard
<1>2. InHand(s, t)' \in Nat /\ InHand(s, t) \in Nat
  <2>1. tx_buf'[s] \in Seq(Tx)
    BY DEF RestartTypeOK, TypeOK, ProcessTypes
  <2>. QED
    BY <2>1, TimesType, LedgerNumbers DEF InHand
<1>3. /\ CountedIn(blocks', s, t) = CountedIn(blocks, s, t)
      /\ Summed(s, summaries') = Summed(s, summaries)
      /\ InAnswer(s, t)' = InAnswer(s, t)
      /\ sent' = sent /\ sent_before' = sent_before
  BY DEF InAnswer
<1>4. /\ Coming(pull_tx'[s], t) \in Nat /\ Coming(leftover'[s], t) \in Nat
  BY ComingType DEF RestartTypeOK, TypeOK, QueueTypes
<1>. QED
  BY <1>1, <1>2, <1>3, <1>4, LedgerNumbers DEF Balance, Held, Given

LEMMA TakenLess ==
  ASSUME NEW q \in [Shards -> Seq(Message)], NEW w \in Shards, q[w] # <<>>,
         NEW s \in Shards, NEW t
  PROVE  Coming([q EXCEPT ![w] = Tail(@)][s], t) <= Coming(q[s], t)
<1>. DEFINE p == [q EXCEPT ![w] = Tail(@)]
<1>1. p[s] \in Seq(Message)
  BY TailAt
<1>2. Coming(q[s], t) = Coming(p[s], t)
             + (IF s = w /\ Head(q[w]).kind = "tx" /\ Head(q[w]).tx = t
                THEN 1 ELSE 0)
  BY ComingTaken
<1>3. Coming(p[s], t) \in Nat
  BY <1>1, ComingType
<1>. HIDE DEF p
<1>4. Coming(p[s], t) <= Coming(q[s], t)
  BY <1>2, <1>3
<1>. QED
  BY <1>4 DEF p

LEMMA LeaderWaitsBalance ==
  ASSUME LedgerInv, RestartTypeOK',
         LeaderReady \/ RecvDispatchHeader \/ RecvDispatchDone,
         UNCHANGED restartVars, NEW s \in Shards, NEW t \in Tx
  PROVE  Balance(s, t)'
<1>0. RestartTypeOK /\ Balance(s, t) /\ pull_tx \in [Shards -> Seq(Message)]
  BY DEF LedgerInv, AnswersInv, RestartTypeOK, TypeOK, QueueTypes
<1>1. Coming(pull_tx'[s], t) <= Coming(pull_tx[s], t)
  <2>1. CASE RecvDispatchHeader
    <3>1. pull_tx' = [pull_tx EXCEPT ![Leader] = Tail(@)] /\ pull_tx[Leader] # <<>>
      BY <2>1 DEF RecvDispatchHeader, Take
    <3>. QED
      BY <1>0, <3>1, TakenLess, LeaderIsShard
  <2>2. CASE UNCHANGED pull_tx
    <3>1. Coming(pull_tx[s], t) \in Nat
      BY <1>0, LedgerNumbers
    <3>. QED
      BY <2>2, <3>1
  <2>. QED
    BY <2>1, <2>2 DEF LeaderReady, RecvDispatchDone
<1>2. Coming(leftover'[s], t) <= Coming(leftover[s], t)
  BY <1>0, LedgerNumbers DEF restartVars
<1>3. PICK l \in {"header", "done", "publish"} : pc' = [pc EXCEPT ![Leader] = l]
  BY DEF LeaderReady, RecvDispatchHeader, RecvDispatchDone, Goto
<1>4. UNCHANGED <<pull_results, blocks, summaries, tx_buf, sent, sent_before>>
  BY DEF LeaderReady, RecvDispatchHeader, RecvDispatchDone, leaderVars,
         processVars, assignerVars, restartVars
<1>. QED
  BY <1>0, <1>1, <1>2, <1>3, <1>4, WaitBalance

LEMMA RecvTxBalance ==
  ASSUME LedgerInv, RestartTypeOK', NEW w \in Shards, RecvTx(w),
         UNCHANGED restartVars, NEW s \in Shards, NEW t \in Tx
  PROVE  Balance(s, t)'
<1>0. RestartTypeOK /\ Balance(s, t) /\ pull_tx \in [Shards -> Seq(Message)]
  BY DEF LedgerInv, AnswersInv, RestartTypeOK, TypeOK, QueueTypes
<1>1. pull_tx' = [pull_tx EXCEPT ![w] = Tail(@)] /\ pull_tx[w] # <<>>
  BY DEF RecvTx, Take
<1>2. PICK m \in Message : m = Head(pull_tx[w])
  BY <1>0, <1>1, TailAt
<1>3. /\ pc[w] = "process"
      /\ tx_buf' = IF m.kind = "tx"
                   THEN [tx_buf EXCEPT ![w] = Append(@, m.tx)] ELSE tx_buf
      /\ UNCHANGED <<pull_results, pc, leaderVars, sent, sent_before>>
      /\ leftover' = leftover
  BY <1>2 DEF RecvTx, assignerVars, restartVars
<1>4. Coming(pull_tx[s], t) + Coming(leftover[s], t) =
           Coming(pull_tx'[s], t) + Coming(leftover'[s], t)
             + (IF s = w /\ m.kind = "tx" /\ m.tx = t THEN 1 ELSE 0)
  <2>1. PICK a \in Nat : a = Coming(pull_tx[s], t)
    BY <1>0, LedgerNumbers
  <2>2. PICK b \in Nat : b = Coming(leftover[s], t)
    BY <1>0, LedgerNumbers
  <2>3. PICK c \in Nat : c = Coming(pull_tx'[s], t)
    BY ComingType DEF RestartTypeOK, TypeOK, QueueTypes
  <2>4. a = c + (IF s = w /\ m.kind = "tx" /\ m.tx = t THEN 1 ELSE 0)
    <3>1. Coming(pull_tx[s], t) =
            Coming([pull_tx EXCEPT ![w] = Tail(@)][s], t)
              + (IF s = w /\ Head(pull_tx[w]).kind = "tx" /\ Head(pull_tx[w]).tx = t
                 THEN 1 ELSE 0)
      BY <1>0, <1>1, ComingTaken, ZenonT(60)
    <3>. QED
      BY <1>1, <1>2, <2>1, <2>3, <3>1
  <2>. QED
    BY <1>3, <2>1, <2>2, <2>3, <2>4
<1>. QED
  BY <1>0, <1>3, <1>4, TakeBalance

LEMMA OldRecvTxBalance ==
  ASSUME LedgerInv, RestartTypeOK', NEW w \in Shards, Old!RecvTx(w),
         UNCHANGED <<pull_tx, sent_before>>, NEW s \in Shards, NEW t \in Tx
  PROVE  Balance(s, t)'
<1>0. RestartTypeOK /\ Balance(s, t) /\ leftover \in [Shards -> Seq(Message)]
  BY DEF LedgerInv, AnswersInv, RestartTypeOK
<1>1. leftover' = [leftover EXCEPT ![w] = Tail(@)] /\ leftover[w] # <<>>
  BY DEF Old!RecvTx, Old!Take
<1>2. PICK m \in Message : m = Head(leftover[w])
  BY <1>0, <1>1, TailAt
<1>3. /\ pc[w] = "process"
      /\ tx_buf' = IF m.kind = "tx"
                   THEN [tx_buf EXCEPT ![w] = Append(@, m.tx)] ELSE tx_buf
      /\ UNCHANGED <<pull_results, pc, leaderVars, sent, sent_before>>
  BY <1>2 DEF Old!RecvTx, Old!assignerVars, Old!leaderVars, leaderVars
<1>4. Coming(pull_tx[s], t) + Coming(leftover[s], t) =
           Coming(pull_tx'[s], t) + Coming(leftover'[s], t)
             + (IF s = w /\ m.kind = "tx" /\ m.tx = t THEN 1 ELSE 0)
  <2>1. PICK a \in Nat : a = Coming(leftover[s], t)
    BY <1>0, LedgerNumbers
  <2>2. PICK b \in Nat : b = Coming(pull_tx[s], t)
    BY <1>0, LedgerNumbers
  <2>3. PICK c \in Nat : c = Coming(leftover'[s], t)
    BY ComingType DEF RestartTypeOK
  <2>4. a = c + (IF s = w /\ m.kind = "tx" /\ m.tx = t THEN 1 ELSE 0)
    <3>1. Coming(leftover[s], t) =
            Coming([leftover EXCEPT ![w] = Tail(@)][s], t)
              + (IF s = w /\ Head(leftover[w]).kind = "tx" /\ Head(leftover[w]).tx = t
                 THEN 1 ELSE 0)
      BY <1>0, <1>1, ComingTaken, ZenonT(60)
    <3>. QED
      BY <1>1, <1>2, <2>1, <2>3, <3>1
  <2>5. pull_tx' = pull_tx
    OBVIOUS
  <2>. QED
    BY <2>1, <2>2, <2>3, <2>4, <2>5
<1>. QED
  BY <1>0, <1>3, <1>4, TakeBalance

\* A worker enters process_transactions.
LEMMA EnterBalance ==
  ASSUME LedgerInv, RestartTypeOK', NEW w \in Shards, EnterProcess(w),
         UNCHANGED <<pull_tx, pull_results, leaderVars, sent, restartVars>>,
         NEW s \in Shards, NEW t \in Tx
  PROVE  Balance(s, t)'
<1>0. RestartTypeOK /\ Balance(s, t)
  BY DEF LedgerInv, AnswersInv
<1>1. InHand(s, t)' <= InHand(s, t)
  BY <1>0, EnterHand
<1>2. Coming(pull_tx'[s], t) <= Coming(pull_tx[s], t)
      /\ Coming(leftover'[s], t) <= Coming(leftover[s], t)
  BY <1>0, LedgerNumbers DEF restartVars
<1>3. sent_before' = sent_before
  BY DEF restartVars
<1>. QED
  BY <1>0, <1>1, <1>2, <1>3, LoseBalance

-----------------------------------------------------------------------------
LEMMA OwnSummaryBalance ==
  ASSUME LedgerInv, OwnSummary, UNCHANGED restartVars,
         NEW s \in Shards, NEW t \in Tx
  PROVE  Balance(s, t)'
<1>0. RestartTypeOK /\ Balance(s, t) /\ CollectedOnce
  BY DEF LedgerInv, AnswersInv
<1>1. /\ pc[Leader] = "process" /\ pc' = [pc EXCEPT ![Leader] = "collect"]
      /\ UNCHANGED <<tx_buf, pull_results, pull_tx, leftover, blocks, sent,
                     sent_before>>
      /\ summaries = <<>>
  BY <1>0 DEF OwnSummary, Goto, processVars, assignerVars, restartVars,
              CollectedOnce
<1>2. PICK x \in Summary : x = ShardSummary(Leader, tx_buf[Leader])
  BY <1>0, LeaderIsShard
  DEF ShardSummary, Summary, RestartTypeOK, TypeOK, ProcessTypes
<1>3. x.shard_id = Leader /\ x.txs = tx_buf[Leader]
  BY <1>2 DEF ShardSummary
<1>4. summaries' = Append(<<>>, x)
  BY <1>2 DEF OwnSummary
<1>5. Times(t, Summed(s, summaries')) =
        Times(t, Summed(s, <<>>)) + (IF s = Leader THEN Times(t, tx_buf[s]) ELSE 0)
  <2>1. <<>> \in Seq(Summary)
    OBVIOUS
  <2>2. Times(t, Summed(s, Append(<<>>, x))) =
          Times(t, Summed(s, <<>>))
            + (IF x.shard_id = s THEN Times(t, x.txs) ELSE 0)
    <3>1. \A p \in Summary :
            Times(t, Summed(s, Append(<<>>, p))) =
              Times(t, Summed(s, <<>>))
                + (IF p.shard_id = s THEN Times(t, p.txs) ELSE 0)
      BY <2>1, SummarySum
    <3>. QED
      BY <3>1
  <2>3. Times(t, Summed(s, <<>>)) \in Nat
    BY <2>1, SummarySum
  <2>4. CASE s = Leader
    BY <1>3, <1>4, <2>2, <2>4
  <2>5. CASE s # Leader
    BY <1>3, <1>4, <2>2, <2>5
  <2>. QED
    BY <2>4, <2>5
<1>6. /\ s = Leader => InHand(s, t)' = 0
      /\ s # Leader => InHand(s, t)' = InHand(s, t)
  <2>1. UNCHANGED tx_buf
    BY <1>1
  <2>. QED
    BY <1>0, <1>1, <2>1, LeaveHand, LeaderIsShard
<1>7. s = Leader => InHand(s, t) = Times(t, tx_buf[s])
  BY <1>1 DEF InHand
<1>8. Times(t, Summed(s, summaries)) + InHand(s, t) =
        Times(t, Summed(s, summaries')) + InHand(s, t)'
  <2>1. PICK a \in Nat : a = Times(t, Summed(s, <<>>))
    BY <1>0, <1>1, LedgerNumbers
  <2>2. PICK h \in Nat : h = InHand(s, t)
    BY <1>0, LedgerNumbers
  <2>3. CASE s = Leader
    BY <1>1, <1>5, <1>6, <1>7, <2>1, <2>2, <2>3
  <2>4. CASE s # Leader
    BY <1>1, <1>5, <1>6, <2>1, <2>2, <2>4
  <2>. QED
    BY <2>3, <2>4
<1>9. Held(s, t)' = Held(s, t)
  <2>1. PICK a \in Nat : a = Times(t, Summed(s, summaries))
    BY <1>0, LedgerNumbers
  <2>2. PICK h \in Nat : h = InHand(s, t)
    BY <1>0, LedgerNumbers
  <2>3. a + h = Times(t, Summed(s, summaries')) + InHand(s, t)'
    BY <1>8, <2>1, <2>2
  <2>4. InHand(s, t)' \in Nat /\ Times(t, Summed(s, summaries')) \in Nat
    <3>1. summaries' \in Seq(Summary)
      BY <1>2, <1>4
    <3>2. Times(t, Summed(s, summaries')) \in Nat
      BY <3>1, SummarySum
    <3>. QED
      BY <1>6, <2>2, <3>2
  <2>5. /\ CountedIn(blocks, s, t)' = CountedIn(blocks, s, t)
        /\ InAnswer(s, t)' = InAnswer(s, t)
        /\ Coming(pull_tx[s], t)' = Coming(pull_tx[s], t)
        /\ Coming(leftover[s], t)' = Coming(leftover[s], t)
    BY <1>1 DEF InAnswer
  <2>. QED
    BY <1>0, <2>1, <2>2, <2>3, <2>4, <2>5, LedgerNumbers DEF Held
<1>10. Given(s, t)' = Given(s, t)
  BY <1>1 DEF Given
<1>. QED
  BY <1>0, <1>9, <1>10 DEF Balance

LEMMA PushBalance ==
  ASSUME LedgerInv, NEW f \in Followers, PushSummary(f), UNCHANGED restartVars,
         NEW s \in Shards, NEW t \in Tx
  PROVE  Balance(s, t)'
<1>0. /\ RestartTypeOK /\ Balance(s, t)
      /\ f \in Shards /\ f # Leader
      /\ pull_results \in [Followers -> Seq(Summary)]
  BY DEF LedgerInv, AnswersInv, RestartTypeOK, TypeOK, QueueTypes, Followers
<1>1. /\ pc[f] = "process" /\ pc' = [pc EXCEPT ![f] = "sub"]
      /\ UNCHANGED <<tx_buf, summaries, pull_tx, leftover, blocks, sent,
                     sent_before>>
  BY DEF PushSummary, Goto, processVars, leaderVars, assignerVars, restartVars
<1>2. PICK x \in Summary : x = ShardSummary(f, tx_buf[f])
  BY <1>0 DEF ShardSummary, Summary, RestartTypeOK, TypeOK, ProcessTypes
<1>3. x.shard_id = f /\ x.txs = tx_buf[f]
  BY <1>2 DEF ShardSummary
<1>4. pull_results[f] = <<>>
  <2>1. Working(f)
    BY <1>1 DEF LedgerInv, AnswersInv, AnswersOnce, Silent, Called, Answered
  <2>. QED
    BY <2>1 DEF Working
<1>5. /\ pull_results'[f] = Append(<<>>, x)
      /\ \A g \in Followers \ {f} : pull_results'[g] = pull_results[g]
  BY <1>0, <1>2, <1>4 DEF PushSummary
<1>6. CASE s = f
  <2>1. /\ Times(t, Summed(s, <<>>)) = 0
        /\ \A p \in Summary :
             Times(t, Summed(s, Append(<<>>, p))) =
               Times(t, Summed(s, <<>>))
                 + (IF p.shard_id = s THEN Times(t, p.txs) ELSE 0)
    <3>1. <<>> \in Seq(Summary)
      OBVIOUS
    <3>. QED
      BY <3>1, SummarySum
  <2>2. Times(t, tx_buf[s]) \in Nat
    <3>1. tx_buf[s] \in Seq(Tx)
      BY <1>0 DEF RestartTypeOK, TypeOK, ProcessTypes
    <3>. QED
      BY <3>1, TimesType
  <2>3. Times(t, Summed(s, Append(<<>>, x))) = Times(t, tx_buf[s])
    BY <1>3, <1>6, <2>1, <2>2
  <2>4. InAnswer(s, t) = 0 /\ InAnswer(s, t)' = Times(t, tx_buf[s])
    BY <1>0, <1>4, <1>5, <1>6, <2>1, <2>3 DEF InAnswer
  <2>5. InHand(s, t) = Times(t, tx_buf[s])
    BY <1>1, <1>6 DEF InHand
  <2>6. InHand(s, t)' = 0
    BY <1>0, <1>1, <1>6, LeaveHand
  <2>7. /\ CountedIn(blocks', s, t) = CountedIn(blocks, s, t)
        /\ Summed(s, summaries') = Summed(s, summaries)
        /\ leftover' = leftover /\ pull_tx' = pull_tx
        /\ sent' = sent /\ sent_before' = sent_before
    BY <1>1
  <2>. QED
    BY <1>0, <2>2, <2>4, <2>5, <2>6, <2>7, LedgerNumbers DEF Balance, Held, Given
<1>7. CASE s # f
  <2>1. InAnswer(s, t)' = InAnswer(s, t)
    BY <1>5, <1>7 DEF InAnswer, Followers
  <2>2. InHand(s, t)' = InHand(s, t)
    BY <1>0, <1>1, <1>7, LeaveHand
  <2>3. /\ CountedIn(blocks', s, t) = CountedIn(blocks, s, t)
        /\ Summed(s, summaries') = Summed(s, summaries)
        /\ leftover' = leftover /\ pull_tx' = pull_tx
        /\ sent' = sent /\ sent_before' = sent_before
    BY <1>1
  <2>. QED
    BY <1>0, <2>1, <2>2, <2>3 DEF Balance, Held, Given
<1>. QED
  BY <1>6, <1>7

LEMMA CollectBalance ==
  ASSUME LedgerInv, NEW f \in Followers, CollectSummary(f),
         UNCHANGED restartVars, NEW s \in Shards, NEW t \in Tx
  PROVE  Balance(s, t)'
<1>0. /\ RestartTypeOK /\ Balance(s, t)
      /\ f \in Shards /\ f # Leader
      /\ pull_results \in [Followers -> Seq(Summary)]
      /\ summaries \in Seq(Summary)
  BY DEF LedgerInv, AnswersInv, RestartTypeOK, TypeOK, QueueTypes, LeaderTypes,
         Followers
<1>1. /\ pc[Leader] = "collect" /\ pull_results[f] # <<>>
      /\ summaries' = Append(summaries, Head(pull_results[f]))
      /\ pull_results' = [pull_results EXCEPT ![f] = Tail(@)]
      /\ UNCHANGED <<pc, tx_buf, pull_tx, leftover, blocks, sent, sent_before>>
  BY DEF CollectSummary, processVars, assignerVars, restartVars
<1>2. Answered(f)
  BY <1>1 DEF LedgerInv, AnswersInv, AnswersOnce, Silent, Called, Working
<1>3. PICK x \in Summary : x = Head(pull_results[f])
  BY <1>0, <1>1
<1>4. x.shard_id = f /\ x.txs \in Seq(Tx)
  BY <1>2, <1>3 DEF Answered, Summary
<1>5. pull_results[f] = Append(<<>>, x) /\ pull_results'[f] = <<>>
  <2>1. PICK q \in Seq(Summary) : q = pull_results[f]
    BY <1>0
  <2>2. Len(q) = 1 /\ x = Head(q)
    BY <1>2, <1>3, <2>1 DEF Answered
  <2>3. q = Append(<<>>, x)
    BY <2>2
  <2>4. Tail(q) = <<>>
    BY <2>2
  <2>. QED
    BY <1>0, <1>1, <2>1, <2>3, <2>4
<1>6. Times(t, Summed(s, summaries')) =
        Times(t, Summed(s, summaries)) + (IF s = f THEN Times(t, x.txs) ELSE 0)
  <2>1. \A p \in Summary :
          Times(t, Summed(s, Append(summaries, p))) =
            Times(t, Summed(s, summaries))
              + (IF p.shard_id = s THEN Times(t, p.txs) ELSE 0)
    BY <1>0, SummarySum
  <2>2. Times(t, Summed(s, Append(summaries, x))) =
          Times(t, Summed(s, summaries))
            + (IF x.shard_id = s THEN Times(t, x.txs) ELSE 0)
    BY <2>1
  <2>3. CASE s = f
    BY <1>1, <1>3, <1>4, <2>2, <2>3
  <2>4. CASE s # f
    BY <1>1, <1>3, <1>4, <2>2, <2>4
  <2>. QED
    BY <2>3, <2>4
<1>7. /\ CountedIn(blocks', s, t) = CountedIn(blocks, s, t)
      /\ InHand(s, t)' = InHand(s, t)
      /\ leftover' = leftover /\ pull_tx' = pull_tx
      /\ sent' = sent /\ sent_before' = sent_before
  BY <1>1 DEF InHand
<1>8. CASE s = f
  <2>1. /\ Times(t, Summed(s, <<>>)) = 0
        /\ \A p \in Summary :
             Times(t, Summed(s, Append(<<>>, p))) =
               Times(t, Summed(s, <<>>))
                 + (IF p.shard_id = s THEN Times(t, p.txs) ELSE 0)
    <3>1. <<>> \in Seq(Summary)
      OBVIOUS
    <3>. QED
      BY <3>1, SummarySum
  <2>2. Times(t, x.txs) \in Nat
    BY <1>4, TimesType
  <2>3. Times(t, Summed(s, Append(<<>>, x))) = Times(t, x.txs)
    BY <1>4, <1>8, <2>1, <2>2
  <2>4. InAnswer(s, t) = Times(t, x.txs) /\ InAnswer(s, t)' = 0
    BY <1>0, <1>5, <1>8, <2>1, <2>3 DEF InAnswer
  <2>5. Times(t, Summed(s, summaries')) =
          Times(t, Summed(s, summaries)) + Times(t, x.txs)
    BY <1>6, <1>8
  <2>. QED
    BY <1>0, <1>7, <2>2, <2>4, <2>5, LedgerNumbers DEF Balance, Held, Given
<1>9. CASE s # f
  <2>1. InAnswer(s, t)' = InAnswer(s, t)
    BY <1>0, <1>1, <1>9 DEF InAnswer, Followers
  <2>2. Times(t, Summed(s, summaries')) = Times(t, Summed(s, summaries))
    BY <1>0, <1>6, <1>9, LedgerNumbers
  <2>. QED
    BY <1>0, <1>7, <2>1, <2>2 DEF Balance, Held, Given
<1>. QED
  BY <1>8, <1>9

LEMMA FinalizeBalance ==
  ASSUME LedgerInv, FinalizeBlock, UNCHANGED restartVars,
         NEW s \in Shards, NEW t \in Tx
  PROVE  Balance(s, t)'
<1>0. /\ RestartTypeOK /\ Balance(s, t)
      /\ summaries \in Seq(Summary) /\ blocks \in Seq(BlockType)
      /\ round \in Nat
  BY DEF LedgerInv, AnswersInv, RestartTypeOK, TypeOK, LeaderTypes, BlockType
<1>1. /\ pc[Leader] = "collect" /\ pc' = [pc EXCEPT ![Leader] = "header"]
      /\ blocks' = Append(blocks, Block(round, summaries))
      /\ summaries' = <<>>
      /\ UNCHANGED <<tx_buf, pull_results, pull_tx, leftover, sent, sent_before>>
  BY DEF FinalizeBlock, Goto, processVars, assignerVars, restartVars
<1>2. PICK b \in BlockType : b = Block(round, summaries)
  BY <1>0 DEF Block, BlockType
<1>3. b.parts = summaries
  BY <1>2 DEF Block
<1>4. CountedIn(blocks', s, t) =
        CountedIn(blocks, s, t) + Times(t, Summed(s, summaries))
  <2>1. CountedIn(Append(blocks, b), s, t) =
          CountedIn(blocks, s, t) + Times(t, Summed(s, b.parts))
    BY <1>0, BlockSum
  <2>. QED
    BY <1>1, <1>2, <1>3, <2>1
<1>5. Times(t, Summed(s, summaries')) = 0
  BY <1>0, <1>1, SummarySum
<1>6. InHand(s, t)' = InHand(s, t)
  <2>1. CASE s = Leader
    BY <1>0, <1>1, <2>1, LeaderIsShard
    DEF InHand, RestartTypeOK, TypeOK, WorkerTypes
  <2>2. CASE s # Leader
    BY <1>0, <1>1, <2>2, LeaveHand, LeaderIsShard
  <2>. QED
    BY <2>1, <2>2
<1>7. /\ InAnswer(s, t)' = InAnswer(s, t)
      /\ leftover' = leftover /\ pull_tx' = pull_tx
      /\ sent' = sent /\ sent_before' = sent_before
  BY <1>1 DEF InAnswer
<1>. QED
  BY <1>0, <1>4, <1>5, <1>6, <1>7, LedgerNumbers DEF Balance, Held, Given

-----------------------------------------------------------------------------
\* Of the streams of the receiver that ended, beginnings are left over.
LEMMA RestartReceiverBalance ==
  ASSUME LedgerInv, RestartReceiver, NEW s \in Shards, NEW t \in Tx
  PROVE  Balance(s, t)'
<1>0. /\ RestartTypeOK /\ RestartTypeOK' /\ Balance(s, t)
      /\ pull_tx[s] \in Seq(Message)
  BY RestartReceiverType
  DEF LedgerInv, AnswersInv, RestartTypeOK, TypeOK, QueueTypes
<1>1. sent_before = <<>> /\ leftover[s] = <<>>
  BY DEF LedgerInv, NothingLeftOver, RestartReceiver
<1>2. /\ pull_tx'[s] = <<>> /\ sent_before' = sent /\ sent' = <<>>
      /\ UNCHANGED <<pc, tx_buf, pull_results, summaries, blocks>>
      /\ IsPrefix(leftover'[s], pull_tx[s])
  BY DEF RestartReceiver, processVars, leaderVars
<1>3. leftover'[s] \in Prefixes(pull_tx[s])
  <2>1. PICK q \in Seq(Message) : q = leftover'[s]
    BY <1>0 DEF RestartTypeOK
  <2>2. Len(q) <= Len(pull_tx[s])
        /\ SubSeq(q, 1, Len(q)) = SubSeq(pull_tx[s], 1, Len(q))
    BY <1>2, <2>1 DEF IsPrefix
  <2>3. SubSeq(q, 1, Len(q)) = q /\ Len(q) \in Nat /\ Len(pull_tx[s]) \in Nat
    BY <1>0
  <2>4. Len(q) \in 0..Len(pull_tx[s])
    BY <2>2, <2>3
  <2>. QED
    BY <2>1, <2>2, <2>3, <2>4 DEF Prefixes
<1>4. Coming(leftover'[s], t) <= Coming(pull_tx[s], t)
  BY <1>0, <1>3, ComingPart
<1>5. Coming(pull_tx'[s], t) = 0 /\ Coming(leftover[s], t) = 0
  BY <1>0, <1>1, <1>2, ComingType
<1>6. TimesSent(sent', s, t) = 0 /\ TimesSent(sent_before, s, t) = 0
  BY <1>0, <1>1, <1>2, SentSum DEF RestartTypeOK, TypeOK, AssignerTypes
<1>7. /\ CountedIn(blocks', s, t) = CountedIn(blocks, s, t)
      /\ Summed(s, summaries') = Summed(s, summaries)
      /\ InAnswer(s, t)' = InAnswer(s, t)
      /\ InHand(s, t)' = InHand(s, t)
  BY <1>2 DEF InAnswer, InHand
<1>8. Coming(leftover'[s], t) \in Nat
  BY <1>0, ComingType DEF RestartTypeOK
<1>. QED
  BY <1>0, <1>2, <1>4, <1>5, <1>6, <1>7, <1>8, LedgerNumbers
  DEF Balance, Held, Given

\* What a follower that ends had in its hands is lost, and what had arrived.
LEMMA RestartFollowerBalance ==
  ASSUME LedgerInv, NEW f \in Followers, RestartFollower(f),
         NEW s \in Shards, NEW t \in Tx
  PROVE  Balance(s, t)'
<1>0. /\ RestartTypeOK /\ RestartTypeOK' /\ Balance(s, t)
      /\ f \in Shards /\ f # Leader
      /\ pull_results \in [Followers -> Seq(Summary)]
      /\ pull_tx \in [Shards -> Seq(Message)]
      /\ leftover \in [Shards -> Seq(Message)]
  BY RestartFollowerType
  DEF LedgerInv, AnswersInv, RestartTypeOK, TypeOK, QueueTypes, Followers
<1>1. /\ pc' = [pc EXCEPT ![f] = "sub"]
      /\ leftover' = [leftover EXCEPT ![f] = <<>>]
      /\ UNCHANGED <<tx_buf, summaries, blocks, sent, sent_before>>
  BY DEF RestartFollower, processVars, leaderVars, assignerVars
<1>2. PICK q \in Suffixes(pull_tx[f]) : pull_tx' = [pull_tx EXCEPT ![f] = q]
  BY DEF RestartFollower
<1>3. PICK p \in Prefixes(pull_results[f]) :
         pull_results' = [pull_results EXCEPT ![f] = p]
  BY DEF RestartFollower
<1>4. Coming(pull_tx'[s], t) <= Coming(pull_tx[s], t)
      /\ Coming(leftover'[s], t) <= Coming(leftover[s], t)
  <2>1. Coming(pull_tx[s], t) \in Nat /\ Coming(leftover[s], t) \in Nat
    BY <1>0, LedgerNumbers
  <2>2. CASE s = f
    <3>1. pull_tx'[s] = q /\ leftover'[s] = <<>> /\ pull_tx[s] \in Seq(Message)
          /\ leftover[s] \in Seq(Message)
      BY <1>0, <1>1, <1>2, <2>2
    <3>2. Coming(q, t) <= Coming(pull_tx[s], t)
      BY <1>2, <2>2, <3>1, ComingPart
    <3>3. Coming(<<>>, t) = 0
      BY <3>1, ComingType
    <3>. QED
      BY <2>1, <3>1, <3>2, <3>3
  <2>3. CASE s # f
    <3>1. pull_tx'[s] = pull_tx[s] /\ leftover'[s] = leftover[s]
      BY <1>0, <1>1, <1>2, <2>3
    <3>. QED
      BY <2>1, <3>1
  <2>. QED
    BY <2>2, <2>3
<1>5. InAnswer(s, t)' <= InAnswer(s, t) /\ InAnswer(s, t)' \in Nat
  <2>1. InAnswer(s, t) \in Nat
    BY <1>0, LedgerNumbers
  <2>2. CASE s = f
    <3>1. PICK r \in Seq(Summary) : r = pull_results[f]
      BY <1>0
    <3>2. PICK l \in 0..Len(r) : p = SubSeq(r, 1, l)
      BY <1>3, <3>1 DEF Prefixes
    <3>3. Len(r) \in {0, 1}
      <4>1. Len(<<>>) = 0
        OBVIOUS
      <4>. QED
        BY <3>1, <4>1
        DEF LedgerInv, AnswersInv, AnswersOnce, Silent, Called, Working, Answered
    <3>4. p = <<>> \/ p = r
      <4>1. CASE l = 0
        BY <3>2, <4>1
      <4>2. CASE l = Len(r)
        BY <3>2, <4>2
      <4>. QED
        BY <3>2, <3>3, <4>1, <4>2
    <3>5. pull_results'[s] = p /\ pull_results[s] = r
      BY <1>0, <1>3, <2>2, <3>1
    <3>6. CASE p = r
      BY <2>1, <3>5, <3>6 DEF InAnswer
    <3>7. CASE p = <<>>
      <4>1. Times(t, Summed(s, <<>>)) = 0
        BY <3>1, SummarySum
      <4>2. InAnswer(s, t)' = 0
        BY <3>5, <3>7, <4>1 DEF InAnswer
      <4>. QED
        BY <2>1, <4>2
    <3>. QED
      BY <3>4, <3>6, <3>7
  <2>3. CASE s # f
    <3>1. InAnswer(s, t)' = InAnswer(s, t)
      BY <1>0, <1>3, <2>3 DEF InAnswer, Followers
    <3>. QED
      BY <2>1, <3>1
  <2>. QED
    BY <2>2, <2>3
<1>6. InHand(s, t)' <= InHand(s, t) /\ InHand(s, t)' \in Nat
  <2>1. UNCHANGED tx_buf
    BY <1>1
  <2>2. InHand(s, t)' <= InHand(s, t)
    BY <1>0, <1>1, <2>1, LeaveHand
  <2>3. InHand(s, t)' \in Nat
    <3>1. tx_buf'[s] \in Seq(Tx)
      BY <1>0 DEF RestartTypeOK, TypeOK, ProcessTypes
    <3>. QED
      BY <3>1, TimesType DEF InHand
  <2>. QED
    BY <2>2, <2>3
<1>7. /\ CountedIn(blocks', s, t) = CountedIn(blocks, s, t)
      /\ Summed(s, summaries') = Summed(s, summaries)
      /\ sent' = sent /\ sent_before' = sent_before
  BY <1>1
<1>8. Coming(pull_tx'[s], t) \in Nat /\ Coming(leftover'[s], t) \in Nat
  BY <1>0, ComingType DEF RestartTypeOK, TypeOK, QueueTypes
<1>. QED
  <2>1. PICK n \in Nat : n = CountedIn(blocks, s, t) + Times(t, Summed(s, summaries))
    BY <1>0, LedgerNumbers
  <2>2. /\ Held(s, t) = n + InAnswer(s, t) + InHand(s, t)
                          + Coming(pull_tx[s], t) + Coming(leftover[s], t)
        /\ Held(s, t)' = n + InAnswer(s, t)' + InHand(s, t)'
                          + Coming(pull_tx'[s], t) + Coming(leftover'[s], t)
    BY <1>7, <2>1 DEF Held
  <2>3. /\ InAnswer(s, t) \in Nat /\ InHand(s, t) \in Nat
        /\ Coming(pull_tx[s], t) \in Nat /\ Coming(leftover[s], t) \in Nat
    BY <1>0, LedgerNumbers
  <2>4. Held(s, t)' <= Held(s, t) /\ Held(s, t) \in Nat /\ Held(s, t)' \in Nat
    BY <1>4, <1>5, <1>6, <1>8, <2>2, <2>3
  <2>5. Given(s, t)' = Given(s, t) /\ Given(s, t) \in Nat
    BY <1>0, <1>7, LedgerNumbers DEF Given
  <2>. QED
    BY <1>0, <2>4, <2>5 DEF Balance

LEMMA NextBalance ==
  ASSUME LedgerInv, RestartTypeOK', Next, UNCHANGED restartVars,
         NEW s \in Shards, NEW t \in Tx
  PROVE  Balance(s, t)'
<1>0. Balance(s, t)
  BY DEF LedgerInv
<1>1. CASE UNCHANGED <<pull_tx, leftover, pull_results, blocks, summaries, sent,
                       sent_before, tx_buf, pc>>
  BY <1>0, <1>1, StillBalance
<1>2. CASE AssignerStep
  <2>1. CASE SendDispatchDone
    BY <1>1, <2>1 DEF SendDispatchDone, processVars, leaderVars, restartVars
  <2>. QED
    BY <1>2, <2>1, SendTxBalance, SendRoundEndBalance DEF AssignerStep
<1>3. CASE PublishRoundStart
  <2>1. /\ EnterProcess(Leader)
        /\ UNCHANGED <<pull_tx, pull_results, leaderVars, sent, restartVars>>
    BY <1>3 DEF PublishRoundStart, assignerVars
  <2>. QED
    BY <2>1, EnterBalance, LeaderIsShard
<1>4. CASE LeaderStep
  BY <1>3, <1>4, LeaderWaitsBalance, RecvTxBalance, OwnSummaryBalance,
     CollectBalance, FinalizeBalance, LeaderIsShard DEF LeaderStep
<1>5. ASSUME NEW f \in Followers, FollowerStep(f) \/ Subscribe(f)
      PROVE  Balance(s, t)'
  <2>1. f \in Shards
    BY DEF Followers
  <2>2. CASE Subscribe(f)
    BY <1>1, <2>2
    DEF Subscribe, assignerVars, processVars, leaderVars, restartVars
  <2>3. CASE RecvRoundStart(f)
    <3>1. /\ EnterProcess(f)
          /\ UNCHANGED <<pull_tx, pull_results, leaderVars, sent, restartVars>>
      BY <2>3 DEF RecvRoundStart, assignerVars
    <3>. QED
      BY <2>1, <3>1, EnterBalance
  <2>. QED
    BY <1>5, <2>1, <2>2, <2>3, RecvTxBalance, PushBalance DEF FollowerStep
<1>6. CASE UNCHANGED vars
  BY <1>1, <1>6 DEF vars, assignerVars, processVars, leaderVars, restartVars
<1>. QED
  BY <1>2, <1>4, <1>5, <1>6, DispatchBalance DEF Next, Quiescent

LEMMA TakeOldBalance ==
  ASSUME LedgerInv, RestartTypeOK', TakeOld, NEW s \in Shards, NEW t \in Tx
  PROVE  Balance(s, t)'
<1>0. RestartTypeOK /\ Balance(s, t) /\ UNCHANGED <<pull_tx, sent_before>>
      /\ leftover \in [Shards -> Seq(Message)]
  BY DEF TakeOld, LedgerInv, AnswersInv, RestartTypeOK
<1>1. ASSUME NEW w \in Shards, Old!RecvTx(w) PROVE Balance(s, t)'
  BY <1>0, <1>1, OldRecvTxBalance
<1>2. CASE Old!RecvDispatchHeader \/ Old!RecvDispatchDone
  <2>1. Coming(pull_tx'[s], t) <= Coming(pull_tx[s], t)
    <3>1. Coming(pull_tx[s], t) \in Nat
      BY <1>0, LedgerNumbers
    <3>. QED
      BY <1>0, <3>1
  <2>2. Coming(leftover'[s], t) <= Coming(leftover[s], t)
    <3>1. CASE Old!RecvDispatchHeader
      <4>1. leftover' = [leftover EXCEPT ![Leader] = Tail(@)] /\ leftover[Leader] # <<>>
        BY <3>1 DEF Old!RecvDispatchHeader, Old!Take, Old!Leader, Leader
      <4>. QED
        BY <1>0, <4>1, TakenLess, LeaderIsShard
    <3>2. CASE Old!RecvDispatchDone
      <4>1. leftover' = leftover
        BY <3>2 DEF Old!RecvDispatchDone
      <4>2. Coming(leftover[s], t) \in Nat
        BY <1>0, LedgerNumbers
      <4>. QED
        BY <4>1, <4>2
    <3>. QED
      BY <1>2, <3>1, <3>2
  <2>3. PICK l \in {"header", "done", "publish"} : pc' = [pc EXCEPT ![Leader] = l]
    BY <1>2 DEF Old!RecvDispatchHeader, Old!RecvDispatchDone, Old!Goto,
                Old!Leader, Leader
  <2>4. UNCHANGED <<pull_results, blocks, summaries, tx_buf, sent, sent_before>>
    BY <1>0, <1>2 DEF Old!RecvDispatchHeader, Old!RecvDispatchDone,
                      Old!leaderVars, Old!processVars, Old!assignerVars
  <2>. QED
    BY <1>0, <2>1, <2>2, <2>3, <2>4, WaitBalance
<1>. QED
  BY <1>1, <1>2 DEF TakeOld, Old!Shards, Shards

\* Only a new receiver finds something left over.
LEMMA LeftOverStep ==
  ASSUME LedgerInv, [RestartNext]_allVars PROVE NothingLeftOver'
<1>1. CASE UNCHANGED <<leftover, sent_before, restarted>>
  BY <1>1 DEF LedgerInv, NothingLeftOver
<1>2. CASE RestartReceiver
  BY <1>2 DEF RestartReceiver, NothingLeftOver
<1>3. ASSUME NEW f \in Followers, RestartFollower(f) PROVE NothingLeftOver'
  <2>1. leftover' = [leftover EXCEPT ![f] = <<>>] /\ sent_before' = sent_before
        /\ restarted' = restarted \cup {f} /\ DOMAIN leftover = Shards
    BY <1>3 DEF RestartFollower, LedgerInv, AnswersInv, RestartTypeOK
  <2>2. ASSUME Receiver \notin restarted' PROVE Receiver \notin restarted
    BY <2>1, <2>2
  <2>. QED
    BY <2>1, <2>2 DEF LedgerInv, NothingLeftOver
<1>4. CASE TakeOld
  <2>1. CASE UNCHANGED leftover
    BY <1>1, <1>4, <2>1 DEF TakeOld
  <2>2. ASSUME NEW w \in Shards, leftover[w] # <<>> PROVE NothingLeftOver'
    BY <1>4, <2>2 DEF TakeOld, LedgerInv, NothingLeftOver
  <2>3. CASE Old!RecvDispatchHeader
    BY <2>2, <2>3, LeaderIsShard DEF Old!RecvDispatchHeader, Old!Leader, Leader
  <2>4. CASE Old!RecvDispatchDone
    BY <2>1, <2>4 DEF Old!RecvDispatchDone
  <2>5. ASSUME NEW w \in Shards, Old!RecvTx(w) PROVE NothingLeftOver'
    BY <2>2, <2>5 DEF Old!RecvTx
  <2>. QED
    BY <1>4, <2>3, <2>4, <2>5 DEF TakeOld, Old!Shards, Shards
<1>. QED
  BY <1>1, <1>2, <1>3, <1>4 DEF RestartNext, allVars, restartVars

LEMMA LedgerStep == LedgerInv /\ [RestartNext]_allVars => LedgerInv'
<1>. SUFFICES ASSUME LedgerInv, [RestartNext]_allVars PROVE LedgerInv'
  OBVIOUS
<1>1. AnswersInv' /\ NothingLeftOver' /\ RestartTypeOK'
  BY AnswersStep, LeftOverStep DEF LedgerInv, AnswersInv
<1>2. ASSUME NEW s \in Shards, NEW t \in Tx PROVE Balance(s, t)'
  <2>1. CASE Next /\ UNCHANGED restartVars
    BY <1>1, <2>1, NextBalance
  <2>2. CASE UNCHANGED allVars
    <3>1. UNCHANGED <<pull_tx, leftover, pull_results, blocks, summaries, sent,
                      sent_before, tx_buf, pc>>
      BY <2>2 DEF allVars, restartVars, vars, assignerVars, processVars,
                  leaderVars
    <3>. QED
      BY <3>1, StillBalance DEF LedgerInv
  <2>. QED
    BY <1>1, <2>1, <2>2, TakeOldBalance, RestartReceiverBalance,
       RestartFollowerBalance DEF RestartNext
<1>. QED
  BY <1>1, <1>2 DEF LedgerInv

LEMMA LedgerInit == RestartInit => LedgerInv
<1>. SUFFICES ASSUME RestartInit PROVE LedgerInv
  OBVIOUS
<1>1. AnswersInv
  BY AnswersInit
<1>2. NothingLeftOver
  BY DEF RestartInit, NothingLeftOver
<1>3. ASSUME NEW s \in Shards, NEW t \in Tx PROVE Balance(s, t)
  <2>1. /\ blocks = <<>> /\ summaries = <<>> /\ pull_tx[s] = <<>>
        /\ leftover[s] = <<>> /\ pc[s] # "process"
        /\ s # Leader => pull_results[s] = <<>>
    BY DEF RestartInit, Init, Followers
  <2>2. /\ <<>> \in Seq(BlockType) /\ <<>> \in Seq(Summary) /\ <<>> \in Seq(Message)
    OBVIOUS
  <2>3. CountedIn(blocks, s, t) = 0
    BY <2>1, <2>2, BlockSum
  <2>4. Times(t, Summed(s, summaries)) = 0 /\ Times(t, Summed(s, <<>>)) = 0
    BY <2>1, <2>2, SummarySum
  <2>5. Coming(pull_tx[s], t) = 0 /\ Coming(leftover[s], t) = 0
    BY <2>1, <2>2, ComingType
  <2>6. InAnswer(s, t) = 0 /\ InHand(s, t) = 0
    BY <2>1, <2>4 DEF InAnswer, InHand
  <2>. QED
    BY <1>1, <2>3, <2>4, <2>5, <2>6, LedgerNumbers
    DEF AnswersInv, Balance, Held, Given
<1>. QED
  BY <1>1, <1>2, <1>3 DEF LedgerInv

\* What a shard was sent is in one place at a time.
THEOREM LedgerInvariance == RestartSpec => []LedgerInv
  BY LedgerInit, LedgerStep, PTL DEF RestartSpec

\* Whatever is restarted and whenever, no block and no two blocks count a
\* transaction of a shard more often than both receivers sent it: NothingTwice.
THEOREM CountedOnce == RestartSpec => []NothingTwice
<1>1. ASSUME LedgerInv PROVE NothingTwice
  <2>1. ASSUME NEW s \in Shards, NEW t \in Tx
        PROVE  TimesInBlocks(s, t) <= TimesSent(sent_before, s, t) + TimesSent(sent, s, t)
    <3>1. Balance(s, t) /\ RestartTypeOK
      BY <1>1 DEF LedgerInv, AnswersInv
    <3>2. TimesInBlocks(s, t) = CountedIn(blocks, s, t)
      BY DEF TimesInBlocks, CountedIn
    <3>. QED
      BY <3>1, <3>2, LedgerNumbers DEF Balance, Held, Given
  <2>. QED
    BY <2>1 DEF NothingTwice
<1>. QED
  BY <1>1, LedgerInvariance, PTL

-----------------------------------------------------------------------------
(***************************************************************************)
(* The pipeline.  Its steps are steps of both of its parts, so that what   *)
(* is proved of a part holds in the whole; what the whole adds is that the *)
(* batch a round sends out is the drain that started it.                   *)
(***************************************************************************)

\* A step of the pipeline, seen from the generator and the mempool.
LEMMA SubmissionSide ==
  ASSUME [PipelineNext]_pipelineVars PROVE [SubmissionNext]_submissionVars
  BY DEF PipelineNext, CallDispatch, ReplyAfterReturn, PipelineIdle, pipelineVars,
         SubmissionNext, ReceiverStep

\* The mempool holds transactions of the generator.
LEMMA PoolTxs == ASSUME OnceInv PROVE mempool \in Seq(Tx)
<1>1. /\ mempool \in Seq(Nat) /\ AllDispatched \in Seq(Nat)
      /\ handled \in Seq(BatchNumbers)
  BY SeenType DEF OnceInv, IInv, TypeInv, BatchesOnce
<1>2. ASSUME NEW i \in 1..Len(mempool) PROVE mempool[i] \in Tx
  <2>1. /\ Len(AllDispatched) + i \in 1..Len(Seen)
        /\ Seen[Len(AllDispatched) + i] = mempool[i]
    BY <1>1 DEF Seen
  <2>2. PICK k \in 1..Len(handled) : InBatch(mempool[i], handled[k])
    BY <2>1 DEF OnceInv, SeenHandled
  <2>3. PICK b \in BatchNumbers : b = handled[k]
    BY <1>1
  <2>4. PICK j \in 1..BatchCount(b) : mempool[i] = BatchTxs(b)[j]
    BY <2>2, <2>3 DEF InBatch
  <2>5. BatchTxs(b) \in Seq(AllTxs) /\ Len(BatchTxs(b)) = BatchCount(b)
    BY TxAt
  <2>6. BatchTxs(b)[j] \in AllTxs
    BY <2>5
  <2>. QED
    BY <2>4, <2>6, NumberedAssumption DEF AllTxs
<1>3. mempool \in Seq(Nat)
  BY <1>1
<1>. QED
  BY ONLY <1>2, <1>3

\* A drain is a batch the assigner can be handed: it is not empty, and it fits.
LEMMA DrainedIsBatch ==
  ASSUME OnceInv, BlockReady PROVE Drained(mempool, Exact) \in Batches
<1>. DEFINE n == SmallerOf(Exact, Len(mempool))
<1>0. SubmissionTypes
  BY DEF OnceInv, IInv, TypeInv
<1>1. /\ mempool \in Seq(Tx) /\ Len(mempool) \in Nat /\ Len(mempool) <= capacity
      /\ block_size \in Nat \ {0} /\ Len(mempool) >= block_size
      /\ capacity \in Nat /\ num_shards \in Nat \ {0} /\ MaxBatch \in Nat
  <2>1. mempool \in Seq(Tx)
    BY PoolTxs
  <2>2. Len(mempool) <= capacity /\ block_size \in Nat \ {0} /\ capacity \in Nat
        /\ num_shards \in Nat \ {0}
    BY <1>0, CountsAssumption DEF SubmissionTypes
  <2>3. Len(mempool) >= block_size /\ MaxBatch \in Nat
    BY BoundsAssumption DEF BlockReady
  <2>. QED
    BY <2>1, <2>2, <2>3
<1>2. Exact \in Nat /\ Exact >= 1
  <2>1. CASE block_size < num_shards
    BY <1>1, <2>1, SizeOfDrain
  <2>2. CASE ~(block_size < num_shards)
    BY <1>1, <2>2, SizeOfDrain
  <2>. QED
    BY <2>1, <2>2
<1>3. n \in 1..MaxBatch /\ n <= Len(mempool)
  BY <1>1, <1>2, DrainedFit DEF SmallerOf
<1>. HIDE DEF n
<1>4. SubSeq(mempool, 1, n) \in [1..n -> Tx]
  <2>1. n \in 0..Len(mempool)
    BY <1>1, <1>3
  <2>2. SubSeq(mempool, 1, n) \in Seq(Tx) /\ Len(SubSeq(mempool, 1, n)) = n
    BY <1>1, <2>1
  <2>. QED
    BY <2>2, LenProperties
<1>5. Drained(mempool, Exact) = SubSeq(mempool, 1, n)
  BY DEF Drained, n
<1>. QED
  BY <1>3, <1>4, <1>5 DEF Batches

\* A step of the pipeline, seen from the assigner and the workers.
LEMMA RoundsSide ==
  ASSUME OnceInv, [PipelineNext]_pipelineVars PROVE [Next]_vars
<1>1. CASE CallDispatch
  BY <1>1, DrainedIsBatch DEF CallDispatch, Dispatch, Next
<1>2. CASE WorkerStep
  BY <1>2 DEF WorkerStep, Next
<1>. QED
  BY <1>1, <1>2 DEF PipelineNext, ReplyAfterReturn, PipelineIdle, pipelineVars

\* The drain a round is made of.
DrainInv ==
    /\ dispatched \in Seq(Batches)
    /\ Len(dispatched) = round_number
    /\ dispatching => Sharing(dispatched[round_number])
    /\ \A r \in 1..Dispatched : \A s \in Shards :
           sent[r][s] = Chosen(dispatched[r], Mine(s))

PipelineInv == OnceInv /\ Inv /\ DrainInv

LEMMA RoundsKnown ==
  ASSUME Inv
  PROVE  /\ round_number \in Nat /\ Len(sent) = round_number
         /\ sent \in Seq([Shards -> Seq(Tx)])
         /\ dispatching => round_number > 0 /\ Dispatched = round_number - 1
         /\ ~dispatching => Dispatched = round_number
         /\ Len(blocks) \in 0..Dispatched
<1>1. TypeOK /\ DoneInv /\ LeaderInv
  BY DEF Inv
<1>. QED
  BY <1>1, Progress, BoundsAssumption DEF TypeOK, AssignerTypes

LEMMA OpeningDrains ==
  ASSUME PipelineInv, CallDispatch, up' PROVE DrainInv'
<1>1. PICK batch \in Batches : batch = Drained(mempool, Exact)
  BY DrainedIsBatch DEF PipelineInv, CallDispatch, Dispatch
<1>2. SendDispatchHeader(batch)
  BY <1>1 DEF CallDispatch
<1>3. dispatched' = Append(dispatched, batch)
  BY <1>1 DEF CallDispatch, Dispatch
<1>4. /\ ~dispatching /\ dispatching' = TRUE /\ round_number' = round_number + 1
      /\ sent' = Append(sent, [s \in Shards |-> <<>>])
  BY <1>2 DEF SendDispatchHeader
<1>5. Sharing(batch)'
  BY <1>1, <1>2, ShareOpens DEF PipelineInv
<1>6. /\ round_number \in Nat /\ Len(sent) = round_number /\ Dispatched = round_number
      /\ sent \in Seq([Shards -> Seq(Tx)])
      /\ dispatched \in Seq(Batches) /\ Len(dispatched) = round_number
  BY <1>4, RoundsKnown DEF PipelineInv, DrainInv
<1>7. /\ dispatched' \in Seq(Batches) /\ Len(dispatched') = round_number'
      /\ dispatched'[round_number'] = batch
      /\ \A r \in 1..round_number : dispatched'[r] = dispatched[r]
  BY <1>1, <1>3, <1>4, <1>6
<1>8. /\ Len(sent') = round_number + 1
      /\ \A r \in 1..round_number : sent'[r] = sent[r]
  BY <1>4, <1>6
<1>9. Dispatched' = round_number
  BY <1>4, <1>6, <1>8 DEF Dispatched
<1>10. \A r \in 1..Dispatched' : \A s \in Shards :
           sent'[r][s] = Chosen(dispatched'[r], Mine(s))
  BY <1>6, <1>7, <1>8, <1>9 DEF PipelineInv, DrainInv
<1>11. Sharing(dispatched[round_number])'
  BY <1>5, <1>7 DEF Sharing, Mine, shard_for_tx
<1>. QED
  BY <1>7, <1>10, <1>11 DEF DrainInv, Mine, shard_for_tx

LEMMA SendingDrains ==
  ASSUME PipelineInv, SendTx, UNCHANGED submissionVars PROVE DrainInv'
<1>1. /\ dispatching /\ dispatching' = TRUE /\ round_number' = round_number
      /\ dispatched' = dispatched
      /\ sent' = [sent EXCEPT ![round_number] = sent'[round_number]]
  BY DEF SendTx, submissionVars, receiverVars, PipelineInv, Inv, TypeOK, AssignerTypes
<1>2. /\ round_number \in Nat \ {0} /\ Len(sent) = round_number
      /\ Dispatched = round_number - 1
      /\ sent \in Seq([Shards -> Seq(Tx)])
      /\ dispatched \in Seq(Batches) /\ Len(dispatched) = round_number
  BY <1>1, RoundsKnown DEF PipelineInv, DrainInv
<1>3. PICK batch \in Batches : batch = dispatched[round_number]
  BY <1>2
<1>4. Sharing(batch)
  BY <1>1, <1>3 DEF PipelineInv, DrainInv
<1>5. Sharing(batch)'
  BY <1>4, ShareGrows DEF PipelineInv
<1>6. Len(sent') = round_number /\ \A r \in 1..round_number - 1 : sent'[r] = sent[r]
  BY <1>1, <1>2
<1>7. Dispatched' = round_number - 1
  BY <1>1, <1>2, <1>6 DEF Dispatched
<1>8. \A r \in 1..Dispatched' : \A s \in Shards :
          sent'[r][s] = Chosen(dispatched'[r], Mine(s))
  BY <1>1, <1>2, <1>6, <1>7 DEF PipelineInv, DrainInv
<1>9. Sharing(dispatched[round_number])'
  BY <1>1, <1>3, <1>5 DEF Sharing, Mine, shard_for_tx
<1>. QED
  BY <1>1, <1>2, <1>8, <1>9 DEF DrainInv, Mine, shard_for_tx

LEMMA ClosingDrains ==
  ASSUME PipelineInv, SendDispatchDone, UNCHANGED submissionVars PROVE DrainInv'
<1>1. /\ dispatching /\ dispatching' = FALSE /\ dispatched' = dispatched
      /\ UNCHANGED <<sent, round_number>>
      /\ drain_buf = <<>>
  BY NumShardsAssumption, BoundsAssumption
  DEF SendDispatchDone, AllEndsSent, submissionVars, receiverVars, PipelineInv, Inv,
      AssignerInv, TypeOK, AssignerTypes
<1>2. /\ round_number \in Nat \ {0} /\ Len(sent) = round_number
      /\ Dispatched = round_number - 1
      /\ dispatched \in Seq(Batches) /\ Len(dispatched) = round_number
  BY <1>1, RoundsKnown DEF PipelineInv, DrainInv
<1>3. PICK batch \in Batches : batch = dispatched[round_number]
  BY <1>2
<1>4. Sharing(batch)
  BY <1>1, <1>3 DEF PipelineInv, DrainInv
<1>5. \A s \in Shards : sent[round_number][s] = Chosen(batch, Mine(s))
  BY <1>1, <1>4, ShareComplete
<1>6. Dispatched' = round_number
  BY <1>1, <1>2 DEF Dispatched
<1>7. \A r \in 1..round_number : \A s \in Shards :
          sent[r][s] = Chosen(dispatched[r], Mine(s))
  BY <1>2, <1>3, <1>5 DEF PipelineInv, DrainInv
<1>. QED
  BY <1>1, <1>2, <1>6, <1>7 DEF DrainInv, Mine, shard_for_tx

LEMMA DrainFrame ==
  ASSUME DrainInv, UNCHANGED <<dispatched, dispatching, round_number, drain_buf, sent>>
  PROVE  DrainInv'
  BY DEF DrainInv, Sharing, Dispatched, Mine, shard_for_tx

LEMMA DrainStep ==
  ASSUME PipelineInv, [PipelineNext]_pipelineVars PROVE DrainInv'
<1>1. ASSUME UNCHANGED <<dispatched, assignerVars>> PROVE DrainInv'
  BY <1>1, DrainFrame DEF PipelineInv, assignerVars
<1>2. CASE CallDispatch
  <2>1. CASE up'
    BY <1>2, <2>1, OpeningDrains
  <2>2. CASE ~up'
    BY <1>1, <1>2, <2>2 DEF CallDispatch, Dispatch, vars, PipelineInv, OnceInv, IInv,
       TypeInv, SubmissionTypes
  <2>. QED
    BY <2>1, <2>2
<1>3. CASE WorkerStep /\ UNCHANGED submissionVars
  <2>1. dispatched' = dispatched
    BY <1>3 DEF submissionVars, receiverVars
  <2>2. CASE SendTx
    BY <1>3, <2>2, SendingDrains
  <2>3. CASE SendRoundEnd
    BY <2>1, <2>3, DrainFrame DEF SendRoundEnd, PipelineInv
  <2>4. CASE SendDispatchDone
    BY <1>3, <2>4, ClosingDrains
  <2>5. CASE LeaderStep
    BY <1>1, <2>1, <2>5
    DEF LeaderStep, LeaderReady, RecvDispatchHeader, RecvDispatchDone,
        PublishRoundStart, RecvTx, OwnSummary, CollectSummary, FinalizeBlock
  <2>6. ASSUME NEW f \in Followers, FollowerStep(f) \/ Subscribe(f) PROVE DrainInv'
    BY <1>1, <2>1, <2>6 DEF FollowerStep, RecvRoundStart, RecvTx, PushSummary, Subscribe
  <2>. QED
    BY <1>3, <2>2, <2>3, <2>4, <2>5, <2>6 DEF WorkerStep, AssignerStep
<1>4. CASE dispatched' = dispatched /\ UNCHANGED vars
  BY <1>1, <1>4 DEF vars
<1>5. ASSUME NEW t \in Threads, ThreadStep(t) \/ RecvTimeout(t) \/ RecvBatch(t)
      PROVE  dispatched' = dispatched
  BY <1>5 DEF ThreadStep, SendBatch, RecvReply, LeaveLoop, RecvTimeout, RecvBatch, receiverVars
<1>. QED
  BY <1>2, <1>3, <1>4, <1>5
  DEF PipelineNext, ReplyAfterReturn, SendReply, PipelineIdle, Idle, pipelineVars,
      submissionVars, receiverVars

LEMMA PipelineInitially == PipelineInit => PipelineInv
<1>. SUFFICES ASSUME SubmissionInit, Init PROVE PipelineInv
  BY DEF PipelineInit
<1>1. OnceInv /\ Inv
  BY OnceInit, InvInit
<1>2. /\ dispatched = <<>> /\ round_number = 0 /\ dispatching = FALSE /\ sent = <<>>
  BY DEF SubmissionInit, Init
<1>3. Dispatched = 0
  BY <1>2 DEF Dispatched
<1>4. DrainInv
  BY <1>2, <1>3 DEF DrainInv
<1>. QED
  BY <1>1, <1>4 DEF PipelineInv

LEMMA PipelineStep == PipelineInv /\ [PipelineNext]_pipelineVars => PipelineInv'
<1>. SUFFICES ASSUME PipelineInv, [PipelineNext]_pipelineVars PROVE PipelineInv'
  OBVIOUS
<1>1. OnceInv'
  BY SubmissionSide, OnceStep DEF PipelineInv
<1>2. Inv'
  BY RoundsSide, InvStep DEF PipelineInv
<1>. QED
  BY <1>1, <1>2, DrainStep DEF PipelineInv

\* In the whole system, too, no transaction is dispatched twice, the streams
\* lead from their readers to the assigner, and each round is the split of the
\* drain that started it: PipelineInv.
THEOREM PipelineInvariance == PipelineSpec => []PipelineInv
  BY PipelineInitially, PipelineStep, PTL DEF PipelineSpec

\* The whole is an implementation of each of its parts: what is proved of
\* SubmissionSpec and of Spec holds of the pipeline.
THEOREM PipelineImplementsParts == PipelineSpec => SubmissionSpec /\ Spec
<1>1. PipelineInit => SubmissionInit /\ Init
  BY DEF PipelineInit
<1>2. [PipelineNext]_pipelineVars => [SubmissionNext]_submissionVars
  BY SubmissionSide
<1>3. PipelineInv /\ [PipelineNext]_pipelineVars => [Next]_vars
  BY RoundsSide DEF PipelineInv
<1>. QED
  BY <1>1, <1>2, <1>3, PipelineInvariance, PTL DEF PipelineSpec, SubmissionSpec, Spec

\* Block r of the leader holds, for each shard, exactly the transactions of the
\* r-th drain of the mempool whose nonce names the shard, in the mempool's order.
THEOREM BlocksHoldDrains == PipelineSpec => []BlocksMatchPool
<1>1. ASSUME PipelineInv PROVE BlocksMatchPool
  <2>. SUFFICES ASSUME NEW r \in 1..Len(blocks), NEW s \in Shards
                PROVE  \E i \in 1..Len(blocks[r].parts) :
                          blocks[r].parts[i] = ShardSummary(s, Chosen(dispatched[r], Mine(s)))
    BY DEF BlocksMatchPool
  <2>1. r \in 1..Dispatched
    BY <1>1, RoundsKnown DEF PipelineInv
  <2>2. sent[r][s] = Chosen(dispatched[r], Mine(s))
    BY <1>1, <2>1 DEF PipelineInv, DrainInv
  <2>3. /\ Len(blocks[r].parts) = NumShards
        /\ \E i \in 1..NumShards : blocks[r].parts[i] = ShardSummary(s, sent[r][s])
    BY <1>1 DEF PipelineInv, Inv, BlocksExact
  <2>. QED
    BY <2>2, <2>3
<1>. QED
  BY <1>1, PipelineInvariance, PTL

\* No two drains share a transaction, and none holds one twice.
LEMMA DrainsApart == ASSUME OnceInv PROVE Apart(dispatched)
<1>1. /\ dispatched \in Seq(Seq(Nat)) /\ mempool \in Seq(Nat)
      /\ AllDispatched \in Seq(Nat) /\ IsInjective(AllDispatched \o mempool)
  BY SeenType DEF OnceInv, IInv, TypeInv, SubmissionTypes, Seen
<1>2. IsInjective(AllDispatched)
  BY <1>1, InjectiveFront
<1>. QED
  BY <1>1, <1>2, FlattenApart DEF AllDispatched

\* The parts of a block are the shares of its drain, each shard's once.
LEMMA PartsAreShares ==
  ASSUME PipelineInv, NEW r \in 1..Len(blocks)
  PROVE  /\ r \in 1..Len(dispatched)
         /\ \A i \in 1..Len(blocks[r].parts) : \E s \in Shards :
                blocks[r].parts[i] = ShardSummary(s, Chosen(dispatched[r], Mine(s)))
         /\ \A i, j \in 1..Len(blocks[r].parts) :
                blocks[r].parts[i].shard_id = blocks[r].parts[j].shard_id => i = j
<1>. DEFINE parts == blocks[r].parts
            At(s, i) == parts[i] = ShardSummary(s, Chosen(dispatched[r], Mine(s)))
            place == [s \in Shards |-> CHOOSE i \in 1..NumShards : At(s, i)]
<1>1. r \in 1..Dispatched /\ Dispatched \in Nat /\ Dispatched <= Len(dispatched)
  BY RoundsKnown DEF PipelineInv, DrainInv
<1>2. Len(parts) = NumShards
  BY DEF PipelineInv, Inv, BlocksExact
<1>3. \A s \in Shards : \E i \in 1..NumShards : At(s, i)
  <2>1. \A s \in Shards : sent[r][s] = Chosen(dispatched[r], Mine(s))
    BY <1>1 DEF PipelineInv, DrainInv
  <2>2. \A s \in Shards : \E i \in 1..NumShards : parts[i] = ShardSummary(s, sent[r][s])
    BY DEF PipelineInv, Inv, BlocksExact
  <2>. QED
    BY <2>1, <2>2
<1>4. \A s \in Shards, i \in 1..NumShards : At(s, i) => parts[i].shard_id = s
  BY DEF ShardSummary
<1>. HIDE DEF At, parts
<1>5. \A s \in Shards : place[s] \in 1..NumShards /\ At(s, place[s])
  BY <1>3
<1>6. place \in [Shards -> 1..NumShards]
  BY <1>5
<1>. HIDE DEF place
<1>7. place \in Injection(Shards, 1..NumShards)
  BY <1>4, <1>5, <1>6 DEF Injection, IsInjective
<1>8. /\ IsFiniteSet(1..NumShards)
      /\ Cardinality(Shards) = Cardinality(1..NumShards)
  BY FS_Interval, NumShardsAssumption DEF Shards
<1>9. place \in Surjection(Shards, 1..NumShards)
  BY <1>7, <1>8, FS_Injection
<1>10. \A i \in 1..NumShards : \E s \in Shards : place[s] = i
  BY <1>9 DEF Surjection
<1>11. \A i \in 1..NumShards : \E s \in Shards : At(s, i)
  BY <1>5, <1>10
<1>12. ASSUME NEW i \in 1..NumShards, NEW j \in 1..NumShards,
              parts[i].shard_id = parts[j].shard_id
       PROVE  i = j
  <2>1. PICK s \in Shards : place[s] = i
    BY <1>10
  <2>2. PICK u \in Shards : place[u] = j
    BY <1>10
  <2>3. s = parts[i].shard_id /\ u = parts[j].shard_id
    BY <1>4, <1>5, <2>1, <2>2
  <2>. QED
    BY <1>12, <2>1, <2>2, <2>3
<1>13. r \in 1..Len(dispatched)
  BY <1>1 DEF PipelineInv, DrainInv
<1>14. \A i \in 1..Len(parts) : \E s \in Shards :
          parts[i] = ShardSummary(s, Chosen(dispatched[r], Mine(s)))
  BY <1>2, <1>11 DEF At
<1>15. \A i, j \in 1..Len(parts) : parts[i].shard_id = parts[j].shard_id => i = j
  BY <1>2, <1>12
<1>. QED
  BY <1>13, <1>14, <1>15 DEF parts

\* No transaction is in two blocks, in two shards' parts of one block, or twice
\* in a part: what mempool_drain_batch takes out is gone from the mempool, a
\* worker keeps what is its own of one round, and the leader counts every shard
\* of a round once (mempool.c, shard_worker.c).
THEOREM NeverInTwoBlocks == PipelineSpec => []InBlocksOnce
<1>1. ASSUME PipelineInv PROVE InBlocksOnce
  <2>. SUFFICES ASSUME NEW r \in 1..Len(blocks), NEW q \in 1..Len(blocks),
                       NEW i \in 1..Len(blocks[r].parts), NEW j \in 1..Len(blocks[q].parts),
                       NEW k \in 1..Len(blocks[r].parts[i].txs),
                       NEW l \in 1..Len(blocks[q].parts[j].txs),
                       blocks[r].parts[i].txs[k] = blocks[q].parts[j].txs[l]
                PROVE  <<r, i, k>> = <<q, j, l>>
    BY DEF InBlocksOnce
  <2>1. r \in 1..Len(dispatched) /\ q \in 1..Len(dispatched)
    BY <1>1, PartsAreShares
  <2>2. PICK s \in Shards :
             blocks[r].parts[i] = ShardSummary(s, Chosen(dispatched[r], Mine(s)))
    BY <1>1, PartsAreShares
  <2>3. PICK u \in Shards :
             blocks[q].parts[j] = ShardSummary(u, Chosen(dispatched[q], Mine(u)))
    BY <1>1, PartsAreShares
  <2>4. PICK d \in Seq(Tx) : d = dispatched[r]
    BY <1>1, <2>1, BatchIsSeq DEF PipelineInv, DrainInv
  <2>5. PICK e \in Seq(Tx) : e = dispatched[q]
    BY <1>1, <2>1, BatchIsSeq DEF PipelineInv, DrainInv
  <2>. DEFINE c == Chosen(d, Mine(s))
              f == Chosen(e, Mine(u))
  <2>6. k \in 1..Len(c) /\ l \in 1..Len(f) /\ c[k] = f[l]
    BY <2>2, <2>3, <2>4, <2>5 DEF ShardSummary
  <2>7. /\ blocks[r].parts[i].shard_id = s
        /\ blocks[q].parts[j].shard_id = u
    BY <2>2, <2>3 DEF ShardSummary
  <2>8. c \in Seq(Tx \cap Mine(s)) /\ f \in Seq(Tx \cap Mine(u))
    BY ChosenIn
  <2>9. Apart(dispatched)
    BY <1>1, DrainsApart DEF PipelineInv
  <2>10. IsInjective(d) /\ IsInjective(e)
    BY <2>1, <2>4, <2>5, <2>9, ApartInjective
  <2>11. /\ IsInjective(c)
         /\ \E a \in 1..Len(d) : c[k] = d[a]
         /\ \E b \in 1..Len(e) : f[l] = e[b]
    <3>1. IsInjective(c)
      BY <2>10, ChosenInjective
    <3>2. \A x \in 1..Len(c) : \E a \in 1..Len(d) : c[x] = d[a]
      BY <2>10, ChosenInjective
    <3>3. \A x \in 1..Len(f) : \E b \in 1..Len(e) : f[x] = e[b]
      BY <2>10, ChosenInjective
    <3>. QED
      BY <2>6, <3>1, <3>2, <3>3
  <2>. HIDE DEF c, f
  <2>12. s = u
    <3>1. c[k] \in Mine(s) /\ f[l] \in Mine(u)
      BY <2>6, <2>8
    <3>. QED
      BY <2>6, <3>1 DEF Mine
  <2>13. r = q
    <3>1. PICK a \in 1..Len(d), b \in 1..Len(e) : d[a] = e[b]
      BY <2>6, <2>11
    <3>. QED
      BY <2>1, <2>4, <2>5, <2>9, <3>1 DEF Apart
  <2>14. i = j
    BY <1>1, <2>7, <2>12, <2>13, PartsAreShares
  <2>15. c = f
    BY <2>4, <2>5, <2>12, <2>13 DEF c, f
  <2>16. k = l
    <3>1. DOMAIN c = 1..Len(c)
      BY <2>8
    <3>. QED
      BY <2>6, <2>11, <2>15, <3>1 DEF IsInjective
  <2>. QED
    BY <2>13, <2>14, <2>16
<1>. QED
  BY <1>1, PipelineInvariance, PTL

\* When the sizes divide each other, the receiver behind which real workers run
\* drops no transaction of a drain either (transaction_recv_loop,
\* run_election_and_dispatch, mempool_drain_batch).
THEOREM AlignedPipelineDropsNothing ==
    ASSUME Aligned
    PROVE  PipelineSpec => []NothingDropped
  BY AlignedDropsNothing, PipelineImplementsParts

=============================================================================

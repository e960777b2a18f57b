-------------------------- MODULE ShardRoundsProofs --------------------------
(***************************************************************************)
(* Theorems about ShardRounds, for every number of shards, every set of    *)
(* transactions and every bound: types, the safety of the round protocol   *)
(* (Inv is inductive, and what MCShardRounds checks follows from it), and  *)
(* the steps of BlockLog that the protocol's steps are.                    *)
(***************************************************************************)
EXTENDS ShardRoundsInv, FoldLemmas, SequenceTheorems, TLAPS

-----------------------------------------------------------------------------
(***************************************************************************)
(* Types.                                                                  *)
(***************************************************************************)

\* A nonce names a shard.
LEMMA ShardForTx == ASSUME NEW t \in Tx PROVE shard_for_tx(t) \in Shards
  BY NumShardsAssumption, NonceAssumption DEF shard_for_tx, Shards

\* The leader is shard 0 and no follower.
LEMMA LeaderIsShard == Leader \in Shards /\ Leader \notin Followers
  BY NumShardsAssumption DEF Leader, Shards, Followers

\* A batch is a non-empty sequence of transactions.
LEMMA BatchIsSeq ==
  ASSUME NEW batch \in Batches PROVE batch \in Seq(Tx)
  BY BoundsAssumption DEF Batches

\* What the assigner puts on a stream is a message.
LEMMA HeaderType ==
  ASSUME NEW r \in 1..MaxRounds PROVE DispatchHeader(r) \in Message
  BY DEF DispatchHeader, Message

LEMMA TxType ==
  ASSUME NEW r \in 1..MaxRounds, NEW n \in Nat, NEW t \in Tx
  PROVE  TxWithPubkey(t, r, n + 1) \in Message
  BY DEF TxWithPubkey, Message

LEMMA EndType ==
  ASSUME NEW r \in 1..MaxRounds, NEW n \in Nat PROVE RoundEnd(r, n) \in Message
  BY DEF RoundEnd, Message

\* Appending to one of a family of sequences, and taking its head off.
LEMMA AppendAt ==
  ASSUME NEW S, NEW T, NEW q \in [S -> Seq(T)], NEW s \in S, NEW x \in T
  PROVE  [q EXCEPT ![s] = Append(@, x)] \in [S -> Seq(T)]
  OBVIOUS

LEMMA TailAt ==
  ASSUME NEW S, NEW T, NEW q \in [S -> Seq(T)], NEW s \in S, q[s] # <<>>
  PROVE  /\ Head(q[s]) \in T
         /\ [q EXCEPT ![s] = Tail(@)] \in [S -> Seq(T)]
  <1>1. q[s] \in Seq(T) /\ q[s] # <<>>
    OBVIOUS
  <1>2. Head(q[s]) \in T /\ Tail(q[s]) \in Seq(T)
    BY <1>1
  <1> QED
    BY <1>2

\* The fields of a message, by its kind.
LEMMA MessageFields ==
  ASSUME NEW m \in Message
  PROVE  /\ m.round \in 1..MaxRounds
         /\ m.kind = "tx" => m.tx \in Tx /\ m.n \in Nat
         /\ m.kind = "end" => m.n \in Nat
  BY DEF Message

-----------------------------------------------------------------------------
\* Type correctness of every reachable state.
LEMMA TypeInit == Init => TypeOK
<1> SUFFICES ASSUME Init PROVE TypeOK
  OBVIOUS
<1> USE LeaderIsShard
<1>1. AssignerTypes
  <2>1. 0 \in 0..NumShards /\ 0 \in 0..MaxRounds
    BY NumShardsAssumption, BoundsAssumption
  <2>2. assigned_counts \in [Shards -> Nat]
    BY DEF Init
  <2>3. drain_buf \in Seq(Tx)
    BY DEF Init
  <2>4. sent \in Seq([Shards -> Seq(Tx)]) /\ Len(sent) = 0
    BY DEF Init
  <2>5. dispatching = FALSE /\ round_number = 0 /\ next_end = 0
    BY DEF Init
  <2> QED
    BY <2>1, <2>2, <2>3, <2>4, <2>5 DEF AssignerTypes
<1>2. QueueTypes
  BY DEF Init, QueueTypes
<1>3. WorkerTypes
  BY DEF Init, WorkerTypes
<1>4. ProcessTypes
  BY DEF Init, ProcessTypes
<1>5. LeaderTypes
  BY DEF Init, LeaderTypes
<1> QED
  BY <1>1, <1>2, <1>3, <1>4, <1>5 DEF TypeOK

\* Which parts of TypeOK a step that leaves their variables alone keeps.
LEMMA TypeFrame ==
  ASSUME TypeOK
  PROVE  /\ UNCHANGED assignerVars => AssignerTypes'
         /\ UNCHANGED <<pull_tx, pull_done, sub, pull_results>> => QueueTypes'
         /\ UNCHANGED <<subscribed, pc, announced, reported>> => WorkerTypes'
         /\ UNCHANGED processVars => ProcessTypes'
         /\ UNCHANGED leaderVars => LeaderTypes'
  BY DEF TypeOK, AssignerTypes, QueueTypes, WorkerTypes, ProcessTypes,
         LeaderTypes, assignerVars, processVars, leaderVars

\* A step that puts a message of the right type on a stream keeps its type.
LEMMA PutType ==
  ASSUME TypeOK, NEW s \in Shards, NEW m \in Message, Put(s, m)
  PROVE  pull_tx' \in [Shards -> Seq(Message)]
  BY AppendAt DEF Put, TypeOK, QueueTypes

LEMMA TakeType ==
  ASSUME TypeOK, NEW s \in Shards, pull_tx[s] # <<>>, Take(s)
  PROVE  Head(pull_tx[s]) \in Message /\ pull_tx' \in [Shards -> Seq(Message)]
  BY TailAt DEF Take, TypeOK, QueueTypes

LEMMA AssignerTypeStep ==
  ASSUME TypeOK,
         (\E batch \in Batches : SendDispatchHeader(batch)) \/ AssignerStep
  PROVE  TypeOK'
<1> USE LeaderIsShard
<1> USE DEF TypeOK
<1>1. ASSUME NEW batch \in Batches, SendDispatchHeader(batch) PROVE TypeOK'
  <2>1. round_number' \in 1..MaxRounds /\ round_number' = round_number + 1
    BY <1>1, BoundsAssumption DEF SendDispatchHeader, AssignerTypes
  <2>2. pull_tx' \in [Shards -> Seq(Message)]
    <3>1. DispatchHeader(round_number') \in Message
      BY <2>1, HeaderType
    <3> QED
      BY <1>1, <3>1, PutType DEF SendDispatchHeader
  <2>3. sent' \in Seq([Shards -> Seq(Tx)]) /\ Len(sent') = round_number'
    <3>1. [s \in Shards |-> <<>>] \in [Shards -> Seq(Tx)]
      OBVIOUS
    <3> QED
      BY <1>1, <3>1 DEF SendDispatchHeader, AssignerTypes
  <2>4. AssignerTypes'
    BY <1>1, <2>1, <2>3, BatchIsSeq DEF SendDispatchHeader, AssignerTypes, FreshCounts
  <2>5. QueueTypes'
    BY <1>1, <2>2 DEF SendDispatchHeader, QueueTypes
  <2> QED
    BY <1>1, <2>4, <2>5, TypeFrame DEF SendDispatchHeader
<1>2. CASE SendTx
  <2> DEFINE t == Head(drain_buf)
             s == shard_for_tx(t)
             m == TxWithPubkey(t, round_number, assigned_counts[s] + 1)
  <2>1. t \in Tx /\ s \in Shards /\ drain_buf' \in Seq(Tx)
    <3>1. drain_buf \in Seq(Tx) /\ drain_buf # <<>> /\ drain_buf' = Tail(drain_buf)
      BY <1>2 DEF SendTx, AssignerTypes
    <3>2. t \in Tx /\ drain_buf' \in Seq(Tx)
      BY <3>1
    <3> QED
      BY <3>2, ShardForTx
  <2>2. round_number \in 1..MaxRounds
    BY <1>2, BoundsAssumption DEF SendTx, AssignerTypes
  <2>3. assigned_counts[s] \in Nat
    BY <2>1 DEF AssignerTypes
  <2>4. /\ Put(s, m)
        /\ assigned_counts' = [assigned_counts EXCEPT ![s] = @ + 1]
        /\ sent' = [sent EXCEPT ![round_number][s] = Append(@, t)]
    BY <1>2 DEF SendTx
  <2> HIDE DEF s, t
  <2>5. pull_tx' \in [Shards -> Seq(Message)]
    BY <2>1, <2>2, <2>3, <2>4, TxType, PutType
  <2>6. sent' \in Seq([Shards -> Seq(Tx)]) /\ Len(sent') = round_number
    <3>1. sent[round_number] \in [Shards -> Seq(Tx)]
      BY <2>2 DEF AssignerTypes
    <3>2. [sent[round_number] EXCEPT ![s] = Append(@, t)] \in [Shards -> Seq(Tx)]
      BY <2>1, <3>1, AppendAt
    <3> QED
      BY <2>2, <2>4, <3>2 DEF AssignerTypes
  <2>7. assigned_counts' \in [Shards -> Nat]
    BY <2>1, <2>4 DEF AssignerTypes
  <2>8. AssignerTypes'
    BY <1>2, <2>1, <2>6, <2>7 DEF SendTx, AssignerTypes
  <2>9. QueueTypes'
    BY <1>2, <2>5 DEF SendTx, QueueTypes
  <2> QED
    BY <1>2, <2>8, <2>9, TypeFrame DEF SendTx
<1>3. CASE SendRoundEnd
  <2> DEFINE m == RoundEnd(round_number, assigned_counts[next_end])
  <2>1. next_end \in Shards /\ next_end' \in 0..NumShards
    BY <1>3, NumShardsAssumption DEF SendRoundEnd, AllEndsSent, AssignerTypes, Shards
  <2>2. m \in Message
    <3>1. round_number \in 1..MaxRounds
      BY <1>3, BoundsAssumption DEF SendRoundEnd, AssignerTypes
    <3>2. assigned_counts[next_end] \in Nat
      BY <2>1 DEF AssignerTypes
    <3> QED
      BY <3>1, <3>2, EndType
  <2>3. pull_tx' \in [Shards -> Seq(Message)]
    BY <1>3, <2>1, <2>2, PutType DEF SendRoundEnd
  <2>4. AssignerTypes'
    BY <1>3, <2>1 DEF SendRoundEnd, AssignerTypes
  <2>5. QueueTypes'
    BY <1>3, <2>3 DEF SendRoundEnd, QueueTypes
  <2> QED
    BY <1>3, <2>4, <2>5, TypeFrame DEF SendRoundEnd
<1>4. CASE SendDispatchDone
  <2>1. round_number \in 1..MaxRounds
    BY <1>4, BoundsAssumption DEF SendDispatchDone, AssignerTypes
  <2>2. AssignerTypes'
    <3>1. 0 \in 0..NumShards
      BY NumShardsAssumption
    <3> QED
      BY <1>4, <3>1 DEF SendDispatchDone, AssignerTypes
  <2>3. QueueTypes'
    BY <1>4, <2>1 DEF SendDispatchDone, QueueTypes
  <2> QED
    BY <1>4, <2>2, <2>3, TypeFrame DEF SendDispatchDone
<1> QED
  BY <1>1, <1>2, <1>3, <1>4 DEF AssignerStep

LEMMA RecvTxTypeStep ==
  ASSUME TypeOK, NEW s \in Shards, RecvTx(s) PROVE TypeOK'
<1> DEFINE m == Head(pull_tx[s])
<1>1. m \in Message /\ pull_tx' \in [Shards -> Seq(Message)]
  BY TakeType DEF RecvTx
<1>2. ProcessTypes'
  <2>1. m.kind = "end" => m.n \in Nat
    BY <1>1, MessageFields
  <2>2. m.kind = "tx" => m.tx \in Tx
    BY <1>1, MessageFields
  <2>3. /\ expected' = IF m.kind = "end"
                       THEN [expected EXCEPT ![s] = m.n] ELSE expected
        /\ got_end' = IF m.kind = "end"
                      THEN [got_end EXCEPT ![s] = TRUE] ELSE got_end
        /\ tx_buf' = IF m.kind = "tx"
                     THEN [tx_buf EXCEPT ![s] = Append(@, m.tx)] ELSE tx_buf
    BY DEF RecvTx
  <2> HIDE DEF m
  <2>4. tx_buf' \in [Shards -> Seq(Tx)]
    BY <2>2, <2>3, AppendAt DEF TypeOK, ProcessTypes
  <2>5. expected' \in [Shards -> Nat]
    BY <2>1, <2>3 DEF TypeOK, ProcessTypes
  <2>6. got_end' \in [Shards -> BOOLEAN]
    BY <2>3 DEF TypeOK, ProcessTypes
  <2> QED
    BY <2>4, <2>5, <2>6 DEF ProcessTypes
<1>3. QueueTypes'
  BY <1>1 DEF RecvTx, TypeOK, QueueTypes
<1> QED
  BY <1>2, <1>3, TypeFrame DEF RecvTx, TypeOK

LEMMA LeaderTypeStep ==
  ASSUME TypeOK, LeaderStep PROVE TypeOK'
<1> USE LeaderIsShard
<1> USE DEF TypeOK
<1>1. CASE LeaderReady
  <2>1. WorkerTypes'
    BY <1>1 DEF LeaderReady, Goto, WorkerTypes
  <2> QED
    BY <1>1, <2>1, TypeFrame DEF LeaderReady
<1>2. CASE RecvDispatchHeader
  <2> DEFINE m == Head(pull_tx[Leader])
  <2>1. m \in Message /\ pull_tx' \in [Shards -> Seq(Message)]
    BY <1>2, TakeType DEF RecvDispatchHeader
  <2>2. m.round \in Nat
    BY <2>1, MessageFields
  <2>3. LeaderTypes'
    BY <1>2, <2>2 DEF RecvDispatchHeader, LeaderTypes
  <2>4. QueueTypes'
    BY <1>2, <2>1 DEF RecvDispatchHeader, QueueTypes
  <2>5. WorkerTypes'
    BY <1>2 DEF RecvDispatchHeader, Goto, WorkerTypes
  <2> QED
    BY <1>2, <2>3, <2>4, <2>5, TypeFrame DEF RecvDispatchHeader
<1>3. CASE RecvDispatchDone
  <2>1. QueueTypes'
    BY <1>3 DEF RecvDispatchDone, QueueTypes
  <2>2. WorkerTypes'
    BY <1>3 DEF RecvDispatchDone, Goto, WorkerTypes
  <2> QED
    BY <1>3, <2>1, <2>2, TypeFrame DEF RecvDispatchDone
<1>4. CASE PublishRoundStart
  <2>1. QueueTypes'
    BY <1>4 DEF PublishRoundStart, QueueTypes, LeaderTypes
  <2>2. WorkerTypes'
    BY <1>4 DEF PublishRoundStart, EnterProcess, Goto, WorkerTypes
  <2>3. ProcessTypes'
    BY <1>4 DEF PublishRoundStart, EnterProcess, ProcessTypes
  <2> QED
    BY <1>4, <2>1, <2>2, <2>3, TypeFrame DEF PublishRoundStart
<1>5. CASE OwnSummary
  <2>1. ShardSummary(Leader, tx_buf[Leader]) \in Summary
    BY DEF ShardSummary, Summary, ProcessTypes
  <2>2. LeaderTypes'
    BY <1>5, <2>1 DEF OwnSummary, LeaderTypes
  <2>3. WorkerTypes'
    BY <1>5 DEF OwnSummary, Goto, WorkerTypes
  <2> QED
    BY <1>5, <2>2, <2>3, TypeFrame DEF OwnSummary
<1>6. ASSUME NEW f \in Followers, CollectSummary(f) PROVE TypeOK'
  <2>1. /\ Head(pull_results[f]) \in Summary
        /\ pull_results' \in [Followers -> Seq(Summary)]
    BY <1>6, TailAt DEF CollectSummary, QueueTypes
  <2>2. LeaderTypes'
    BY <1>6, <2>1 DEF CollectSummary, LeaderTypes
  <2>3. QueueTypes'
    BY <1>6, <2>1 DEF CollectSummary, QueueTypes
  <2> QED
    BY <1>6, <2>2, <2>3, TypeFrame DEF CollectSummary
<1>7. CASE FinalizeBlock
  <2>1. Block(round, summaries) \in [block_number : Nat, parts : Seq(Summary)]
    BY DEF Block, LeaderTypes
  <2>2. LeaderTypes'
    BY <1>7, <2>1 DEF FinalizeBlock, LeaderTypes
  <2>3. WorkerTypes'
    BY <1>7 DEF FinalizeBlock, Goto, WorkerTypes
  <2> QED
    BY <1>7, <2>2, <2>3, TypeFrame DEF FinalizeBlock
<1> QED
  BY <1>1, <1>2, <1>3, <1>4, <1>5, <1>6, <1>7, RecvTxTypeStep DEF LeaderStep

LEMMA FollowerTypeStep ==
  ASSUME TypeOK, NEW f \in Followers, FollowerStep(f) \/ Subscribe(f)
  PROVE  TypeOK'
<1> USE DEF TypeOK
<1>1. f \in Shards
  BY DEF Followers
<1>2. CASE RecvRoundStart(f)
  <2>1. Head(sub[f]) \in Nat /\ sub' \in [Followers -> Seq(Nat)]
    BY <1>2, TailAt DEF RecvRoundStart, QueueTypes
  <2>2. QueueTypes'
    BY <1>2, <2>1 DEF RecvRoundStart, QueueTypes
  <2>3. WorkerTypes'
    BY <1>1, <1>2, <2>1 DEF RecvRoundStart, EnterProcess, Goto, WorkerTypes
  <2>4. ProcessTypes'
    BY <1>1, <1>2 DEF RecvRoundStart, EnterProcess, ProcessTypes
  <2> QED
    BY <1>2, <2>2, <2>3, <2>4, TypeFrame DEF RecvRoundStart
<1>3. CASE PushSummary(f)
  <2>1. ShardSummary(f, tx_buf[f]) \in Summary
    BY <1>1 DEF ShardSummary, Summary, ProcessTypes
  <2>2. QueueTypes'
    BY <1>3, <2>1, AppendAt DEF PushSummary, QueueTypes
  <2>3. WorkerTypes'
    BY <1>1, <1>3 DEF PushSummary, Goto, WorkerTypes
  <2> QED
    BY <1>3, <2>2, <2>3, TypeFrame DEF PushSummary
<1>4. CASE Subscribe(f)
  <2>1. WorkerTypes'
    BY <1>4 DEF Subscribe, WorkerTypes
  <2> QED
    BY <1>4, <2>1, TypeFrame DEF Subscribe
<1> QED
  BY <1>1, <1>2, <1>3, <1>4, RecvTxTypeStep DEF FollowerStep

LEMMA TypeStep == TypeOK /\ [Next]_vars => TypeOK'
<1> SUFFICES ASSUME TypeOK, [Next]_vars PROVE TypeOK'
  OBVIOUS
<1>1. CASE \E batch \in Batches : SendDispatchHeader(batch)
  BY <1>1, AssignerTypeStep
<1>2. CASE AssignerStep
  BY <1>2, AssignerTypeStep
<1>3. CASE LeaderStep
  BY <1>3, LeaderTypeStep
<1>4. CASE \E f \in Followers : FollowerStep(f) \/ Subscribe(f)
  BY <1>4, FollowerTypeStep
<1>5. CASE Quiescent \/ UNCHANGED vars
  BY <1>5, TypeFrame DEF Quiescent, vars, TypeOK
<1> QED
  BY <1>1, <1>2, <1>3, <1>4, <1>5 DEF Next

\* Every variable keeps its type.
THEOREM TypeCorrect == Spec => []TypeOK
  BY TypeInit, TypeStep, PTL DEF Spec

-----------------------------------------------------------------------------
(***************************************************************************)
(* Queues as chains of messages between two places.                        *)
(***************************************************************************)

\* A chain grows at its end by a message that fits there.
LEMMA ChainAppend ==
  ASSUME NEW s, NEW q \in Seq(Message), NEW m \in Message, NEW a, NEW b,
         Chain(s, q, a, b), Fits(m, b)
  PROVE  Chain(s, Append(q, m), a, After(s, m))
<1> DEFINE p == Append(q, m)
<1>1. Len(p) = Len(q) + 1 /\ p[Len(q) + 1] = m
  OBVIOUS
<1>2. \A i \in 1..Len(q) : p[i] = q[i]
  OBVIOUS
<1>3. Len(q) \in Nat
  OBVIOUS
<1> HIDE DEF p
<1>4. \A i \in 1..Len(q) + 1 : PlaceAt(s, p, a, i) = PlaceAt(s, q, a, i)
  BY <1>2, <1>3 DEF PlaceAt
<1>5. \A i \in 1..Len(p) : Fits(p[i], PlaceAt(s, p, a, i))
  <2>1. Fits(m, PlaceAt(s, q, a, Len(q) + 1))
    BY DEF Chain
  <2>2. \A i \in 1..Len(q) : Fits(q[i], PlaceAt(s, q, a, i))
    BY DEF Chain
  <2> QED
    BY <1>1, <1>2, <1>3, <1>4, <2>1, <2>2
<1>6. PlaceAt(s, p, a, Len(p) + 1) = After(s, m)
  BY <1>1, <1>3 DEF PlaceAt
<1> QED
  BY <1>5, <1>6 DEF Chain, p

\* A chain shrinks at its head, whose message fits the first place.
LEMMA ChainTail ==
  ASSUME NEW s, NEW q \in Seq(Message), q # <<>>, NEW a, NEW b,
         Chain(s, q, a, b)
  PROVE  /\ Fits(Head(q), a)
         /\ Chain(s, Tail(q), After(s, Head(q)), b)
<1> DEFINE p == Tail(q)
           c == After(s, Head(q))
<1>1. /\ Len(q) \in Nat \ {0}
      /\ Len(p) = Len(q) - 1
      /\ \A i \in 1..Len(p) : p[i] = q[i + 1]
      /\ Head(q) = q[1]
  OBVIOUS
<1> HIDE DEF p
<1>2. Fits(Head(q), a)
  <2>1. Fits(q[1], PlaceAt(s, q, a, 1))
    BY <1>1 DEF Chain
  <2> QED
    BY <1>1, <2>1 DEF PlaceAt
<1>3. \A i \in 1..Len(q) : PlaceAt(s, p, c, i) = PlaceAt(s, q, a, i + 1)
  <2> SUFFICES ASSUME NEW i \in 1..Len(q)
               PROVE  PlaceAt(s, p, c, i) = PlaceAt(s, q, a, i + 1)
    OBVIOUS
  <2>1. CASE i = 1
    BY <1>1, <2>1 DEF PlaceAt
  <2>2. CASE i > 1
    <3>1. i - 1 \in 1..Len(p)
      BY <1>1, <2>2
    <3>2. p[i - 1] = q[i]
      BY <1>1, <3>1
    <3> QED
      BY <1>1, <2>2, <3>2 DEF PlaceAt
  <2> QED
    BY <1>1, <2>1, <2>2
<1>4. \A i \in 1..Len(p) : Fits(p[i], PlaceAt(s, p, c, i))
  <2> SUFFICES ASSUME NEW i \in 1..Len(p)
               PROVE  Fits(p[i], PlaceAt(s, p, c, i))
    OBVIOUS
  <2>1. i + 1 \in 1..Len(q) /\ i \in 1..Len(q)
    BY <1>1
  <2>2. Fits(q[i + 1], PlaceAt(s, q, a, i + 1))
    BY <2>1 DEF Chain
  <2> QED
    BY <1>1, <1>3, <2>1, <2>2
<1>5. PlaceAt(s, p, c, Len(p) + 1) = b
  <2>1. PlaceAt(s, q, a, Len(q) + 1) = b
    BY DEF Chain
  <2> QED
    BY <1>1, <1>3, <2>1
<1> QED
  BY <1>2, <1>4, <1>5 DEF Chain, p

\* The places at the two ends of an empty queue are one.
LEMMA ChainEmpty ==
  ASSUME NEW s, NEW a, NEW b, Chain(s, <<>>, a, b) PROVE a = b
  BY DEF Chain, PlaceAt

\* Messages are of three kinds.
LEMMA MessageKinds ==
  ASSUME NEW m \in Message PROVE m.kind \in {"header", "tx", "end"}
  BY DEF Message

-----------------------------------------------------------------------------
(***************************************************************************)
(* What a step does to the streams.                                        *)
(***************************************************************************)

\* A worker's step leaves the assigner's side of every stream as it is.
LEMMA AssignerFrame ==
  ASSUME UNCHANGED assignerVars, NEW s
  PROVE  /\ WritePlace(s)' = WritePlace(s)
         /\ \A m \in Message : Faithful(s, m)' <=> Faithful(s, m)
         /\ Dispatched' = Dispatched
         /\ AssignerInv => AssignerInv'
  BY DEF assignerVars, WritePlace, Faithful, Dispatched, AssignerInv

\* StreamInv' with its parts spelled out.
LEMMA StreamIntro ==
  ASSUME \A s \in Shards : Chain(s, pull_tx'[s], ReadPlace(s)', WritePlace(s)'),
         \A s \in Shards : \A i \in 1..Len(pull_tx'[s]) : Faithful(s, pull_tx[s][i])'
  PROVE  StreamInv'
  BY DEF StreamInv, Chain, PlaceAt, Fits, After, Start

\* A step that leaves streams, reading places and the assigner alone.
LEMMA StreamSame ==
  ASSUME TypeOK, StreamInv, UNCHANGED <<assignerVars, pull_tx>>,
         \A s \in Shards : ReadPlace(s)' = ReadPlace(s)
  PROVE  StreamInv'
<1>1. ASSUME NEW s \in Shards
      PROVE  Chain(s, pull_tx'[s], ReadPlace(s)', WritePlace(s)')
  BY <1>1, AssignerFrame DEF StreamInv
<1>2. ASSUME NEW s \in Shards, NEW i \in 1..Len(pull_tx'[s])
      PROVE  Faithful(s, pull_tx[s][i])'
  BY <1>2 DEF StreamInv, Faithful, assignerVars
<1> QED
  BY <1>1, <1>2, StreamIntro

\* A worker takes the message its place asks for, and moves on to the next.
LEMMA StreamTake ==
  ASSUME TypeOK, StreamInv, UNCHANGED assignerVars,
         NEW s \in Shards, pull_tx[s] # <<>>, Take(s),
         ReadPlace(s)' = After(s, Head(pull_tx[s])),
         \A z \in Shards \ {s} : ReadPlace(z)' = ReadPlace(z)
  PROVE  StreamInv'
<1>1. ASSUME NEW z \in Shards
      PROVE  Chain(z, pull_tx'[z], ReadPlace(z)', WritePlace(z)')
  <2>1. CASE z = s
    <3>1. pull_tx'[s] = Tail(pull_tx[s]) /\ pull_tx[s] \in Seq(Message)
      BY DEF Take, TypeOK, QueueTypes
    <3>2. Chain(s, pull_tx[s], ReadPlace(s), WritePlace(s))
      BY DEF StreamInv
    <3> QED
      BY <2>1, <3>1, <3>2, ChainTail, AssignerFrame
  <2>2. CASE z # s
    <3>1. pull_tx'[z] = pull_tx[z]
      BY <2>2 DEF Take, TypeOK, QueueTypes
    <3> QED
      BY <2>2, <3>1, AssignerFrame DEF StreamInv
  <2> QED
    BY <2>1, <2>2
<1>2. ASSUME NEW z \in Shards, NEW i \in 1..Len(pull_tx'[z])
      PROVE  Faithful(z, pull_tx[z][i])'
  <2>1. pull_tx[z] \in Seq(Message) /\ pull_tx[s] \in Seq(Message)
    BY DEF TypeOK, QueueTypes
  <2>2. PICK j \in 1..Len(pull_tx[z]) : pull_tx'[z][i] = pull_tx[z][j]
    <3>1. CASE z = s
      <4>1. pull_tx'[s] = Tail(pull_tx[s])
        BY DEF Take, TypeOK, QueueTypes
      <4> QED
        BY <2>1, <3>1, <4>1
    <3>2. CASE z # s
      BY <3>2 DEF Take, TypeOK, QueueTypes
    <3> QED
      BY <3>1, <3>2
  <2>3. Faithful(z, pull_tx[z][j])
    BY DEF StreamInv
  <2> QED
    BY <2>2, <2>3 DEF Faithful, assignerVars
<1> QED
  BY <1>1, <1>2, StreamIntro

\* The assigner sends the message its place asks for, and moves on.
LEMMA StreamPut ==
  ASSUME TypeOK, StreamInv, NEW s \in Shards, NEW m \in Message, Put(s, m),
         Fits(m, WritePlace(s)),
         WritePlace(s)' = After(s, m),
         \A z \in Shards \ {s} : WritePlace(z)' = WritePlace(z),
         \A z \in Shards : ReadPlace(z)' = ReadPlace(z),
         \A z \in Shards : \A x \in Message : Faithful(z, x) => Faithful(z, x)',
         Faithful(s, m)'
  PROVE  StreamInv'
<1>0. pull_tx \in [Shards -> Seq(Message)]
  BY DEF TypeOK, QueueTypes
<1>1. pull_tx'[s] = Append(pull_tx[s], m)
  BY <1>0 DEF Put
<1>2. \A z \in Shards \ {s} : pull_tx'[z] = pull_tx[z]
  BY <1>0 DEF Put
<1>3. ASSUME NEW z \in Shards
      PROVE  Chain(z, pull_tx'[z], ReadPlace(z)', WritePlace(z)')
  <2>1. Chain(z, pull_tx[z], ReadPlace(z), WritePlace(z))
    BY DEF StreamInv
  <2>2. CASE z = s
    <3>1. Chain(s, Append(pull_tx[s], m), ReadPlace(s), After(s, m))
      BY <1>0, <2>1, <2>2, ChainAppend
    <3> QED
      BY <1>1, <2>2, <3>1
  <2>3. CASE z # s
    BY <1>2, <2>1, <2>3
  <2> QED
    BY <2>2, <2>3
<1>4. ASSUME NEW z \in Shards, NEW i \in 1..Len(pull_tx'[z])
      PROVE  Faithful(z, pull_tx[z][i])'
  <2>1. \A j \in 1..Len(pull_tx[z]) :
           pull_tx[z][j] \in Message /\ Faithful(z, pull_tx[z][j])
    BY <1>0 DEF StreamInv
  <2>2. CASE z = s /\ i = Len(pull_tx[s]) + 1
    <3>1. pull_tx'[z][i] = m
      BY <1>0, <1>1, <2>2
    <3> QED
      BY <2>2, <3>1 DEF Faithful
  <2>3. CASE ~(z = s /\ i = Len(pull_tx[s]) + 1)
    <3>1. i \in 1..Len(pull_tx[z]) /\ pull_tx'[z][i] = pull_tx[z][i]
      BY <1>0, <1>1, <1>2, <2>3, SMTT(30)
    <3>2. PICK x \in Message : x = pull_tx[z][i] /\ Faithful(z, x)
      BY <2>1, <3>1
    <3>3. Faithful(z, x)'
      BY <3>2
    <3> QED
      BY <3>1, <3>2, <3>3 DEF Faithful
  <2> QED
    BY <2>2, <2>3
<1> QED
  BY <1>3, <1>4, StreamIntro

-----------------------------------------------------------------------------
(***************************************************************************)
(* The assigner's steps.                                                   *)
(***************************************************************************)

\* How far the leader is behind the assigner.
LEMMA Progress ==
  ASSUME TypeOK, DoneInv, LeaderInv
  PROVE  /\ Dispatched \in 0..round_number
         /\ round_number = Len(sent)
         /\ dispatching => Dispatched = round_number - 1
         /\ ~dispatching => Dispatched = round_number
         /\ Taken \in 0..Dispatched
         /\ Len(blocks) \in 0..Dispatched
         /\ Announced => Len(blocks) + 1 \in 1..Dispatched
<1>1. /\ round_number \in Nat /\ round_number = Len(sent)
      /\ dispatching => round_number > 0
      /\ dispatching \in BOOLEAN
  BY BoundsAssumption DEF TypeOK, AssignerTypes
<1>2. Len(blocks) \in Nat /\ Len(pull_done) \in Nat
  BY DEF TypeOK, LeaderTypes, QueueTypes
<1>3. Dispatched \in 0..round_number
  BY <1>1 DEF Dispatched
<1>4. Taken \in Nat /\ Len(blocks) <= Taken /\ (Announced => Len(blocks) + 1 <= Taken)
  BY <1>2 DEF LeaderInv, Taken, Announced
<1>5. Taken <= Dispatched
  BY <1>2, <1>3, <1>4 DEF DoneInv
<1> QED
  BY <1>1, <1>2, <1>3, <1>4, <1>5 DEF Dispatched

\* A summary names a shard.
LEMMA SummaryShards ==
  ASSUME TypeOK
  PROVE  \A i \in 1..Len(summaries) : summaries[i].shard_id \in Shards
<1>1. summaries \in Seq(Summary)
  BY DEF TypeOK, LeaderTypes
<1>2. \A i \in 1..Len(summaries) : summaries[i] \in Summary
  BY <1>1
<1>3. \A x \in Summary : x.shard_id \in Shards
  BY DEF Summary
<1> QED
  BY <1>2, <1>3

\* A step of the assigner keeps what is said about rounds it has dispatched.
LEMMA HistoryFrame ==
  ASSUME Inv,
         \A r \in 1..Dispatched : sent'[r] = sent[r],
         Dispatched' \in Nat, Dispatched <= Dispatched',
         UNCHANGED <<pc, reported, processVars, announced, leaderVars, sub,
                     pull_results>>
  PROVE  /\ ProcessInv' /\ LeaderInv' /\ SummariesInv' /\ FollowerInv'
         /\ BlocksExact'
         /\ Taken' = Taken
         /\ \A s \in Shards : ReadPlace(s)' = ReadPlace(s)
<1> USE DEF Inv
<1>1. /\ Dispatched \in Nat
      /\ Len(blocks) \in 0..Dispatched
      /\ Announced => Len(blocks) + 1 \in 1..Dispatched
  BY Progress, BoundsAssumption DEF TypeOK, AssignerTypes
<1>2. ProcessInv'
  <2> SUFFICES ASSUME NEW s \in Shards, pc[s] = "process"
               PROVE  /\ reported[s] + 1 \in 1..Dispatched'
                      /\ sent'[reported[s] + 1][s] = sent[reported[s] + 1][s]
    BY DEF ProcessInv, processVars
  <2>1. reported[s] + 1 \in 1..Dispatched
    BY DEF ProcessInv
  <2> QED
    BY <1>1, <2>1
<1>3. LeaderInv'
  BY DEF LeaderInv, leaderVars
<1>4. /\ \A f : Collected(f)' = Collected(f)
      /\ Announced' = Announced
      /\ Announced => \A s \in Shards : Owed(s)' = Owed(s)
  BY <1>1 DEF Collected, Announced, Owed, leaderVars
<1>5. SummariesInv'
  <2>1. CASE Announced
    <3>1. \A i \in 1..Len(summaries) : summaries[i].shard_id \in Shards
      BY SummaryShards
    <3>2. \A s \in Shards : Owed(s)' = Owed(s)
      BY <1>4, <2>1
    <3>3. \A i \in 1..Len(summaries) :
             Owed(summaries[i].shard_id)' = Owed(summaries[i].shard_id)
      BY <3>1, <3>2 DEF Owed, leaderVars
    <3> QED
      BY <3>2, <3>3, LeaderIsShard DEF SummariesInv, leaderVars
  <2>2. CASE ~Announced
    BY <2>2 DEF SummariesInv, Announced, leaderVars
  <2> QED
    BY <2>1, <2>2
<1>6. FollowerInv'
  <2> SUFFICES ASSUME NEW f \in Followers
               PROVE  (Waiting(f) \/ Processing(f) \/ Reported(f))'
    BY DEF FollowerInv
  <2>1. f \in Shards
    BY DEF Followers
  <2>2. CASE Waiting(f)
    BY <1>4, <2>2 DEF Waiting, leaderVars
  <2>3. CASE Processing(f)
    BY <1>4, <2>3 DEF Processing, leaderVars
  <2>4. CASE Reported(f)
    BY <1>4, <2>1, <2>4 DEF Reported, leaderVars
  <2> QED
    BY <2>2, <2>3, <2>4 DEF FollowerInv
<1>7. BlocksExact'
  <2>1. \A r \in 1..Len(blocks) : sent'[r] = sent[r]
    BY <1>1
  <2> QED
    BY <2>1 DEF BlocksExact, leaderVars
<1>8. Taken' = Taken /\ \A s \in Shards : ReadPlace(s)' = ReadPlace(s)
  BY DEF Taken, ReadPlace, Start, processVars
<1> QED
  BY <1>2, <1>3, <1>5, <1>6, <1>7, <1>8

\* A message stays faithful while what its round sent the shard stays.
LEMMA FaithfulFrame ==
  ASSUME NEW z, NEW x, Faithful(z, x),
         round_number \in Nat, round_number' \in Nat,
         round_number' >= round_number,
         sent'[x.round][z] = sent[x.round][z],
         x.kind = "end" => x.round < round_number' \/ drain_buf' = <<>>
  PROVE  Faithful(z, x)'
  BY DEF Faithful

\* Opening a round keeps the invariant: only the leader's stream grows.
LEMMA DispatchHeaderStep ==
  ASSUME Inv, NEW batch \in Batches, SendDispatchHeader(batch) PROVE Inv'
<1> USE LeaderIsShard
<1>0. /\ TypeOK /\ AssignerInv /\ StreamInv /\ DoneInv /\ LeaderInv
      /\ ~dispatching /\ next_end = 0
      /\ round_number' = round_number + 1 /\ dispatching' = TRUE /\ next_end' = 0
      /\ drain_buf' = batch
      /\ assigned_counts' = [s \in Shards |-> 0]
      /\ sent' = Append(sent, [s \in Shards |-> <<>>])
      /\ Put(Leader, DispatchHeader(round_number + 1))
  BY DEF SendDispatchHeader, FreshCounts, Inv, AssignerInv
<1>1. TypeOK'
  BY <1>0, AssignerTypeStep
<1>2. /\ round_number \in Nat /\ round_number = Len(sent)
      /\ Dispatched = round_number
      /\ sent \in Seq([Shards -> Seq(Tx)])
  BY <1>0, Progress, BoundsAssumption DEF TypeOK, AssignerTypes
<1>3. /\ Len(sent') = round_number + 1
      /\ \A r \in 1..round_number : sent'[r] = sent[r]
      /\ sent'[round_number + 1] = [s \in Shards |-> <<>>]
  BY <1>0, <1>2
<1>4. Dispatched' = Dispatched
  BY <1>0, <1>2, <1>3 DEF Dispatched
<1>5. /\ ProcessInv' /\ LeaderInv' /\ SummariesInv' /\ FollowerInv'
      /\ BlocksExact'
      /\ Taken' = Taken
      /\ \A s \in Shards : ReadPlace(s)' = ReadPlace(s)
  BY <1>2, <1>3, <1>4, HistoryFrame DEF SendDispatchHeader
<1>6. AssignerInv'
  BY <1>0, <1>2, <1>3 DEF AssignerInv
<1>7. DoneInv'
  BY <1>0, <1>4, <1>5 DEF DoneInv, SendDispatchHeader
<1>8. StreamInv'
  <2>1. PICK m \in Message : m = DispatchHeader(round_number + 1)
    BY <1>0, <1>1, <1>2, HeaderType DEF TypeOK, AssignerTypes
  <2>m. m.kind = "header" /\ m.round = round_number + 1
    BY <2>1 DEF DispatchHeader
  <2>2. \A s \in Shards : WritePlace(s) = Start(s, round_number + 1)
    BY <1>0 DEF WritePlace
  <2>3. \A s \in Shards : WritePlace(s)' = <<round_number + 1, 0>>
    BY <1>0, <1>2 DEF WritePlace, Shards
  <2>4. Fits(m, WritePlace(Leader)) /\ WritePlace(Leader)' = After(Leader, m)
    BY <2>m, <2>2, <2>3 DEF Fits, After, Start
  <2>5. \A z \in Shards \ {Leader} : WritePlace(z)' = WritePlace(z)
    BY <2>2, <2>3 DEF Start
  <2>6. ASSUME NEW z \in Shards, NEW x \in Message, Faithful(z, x)
        PROVE  Faithful(z, x)'
    <3>1. x.round \in 1..round_number
      BY <2>6 DEF Faithful
    <3>2. sent'[x.round][z] = sent[x.round][z]
      BY <1>3, <3>1
    <3>3. /\ round_number' \in Nat /\ round_number' >= round_number
          /\ x.round < round_number'
      BY <1>0, <1>2, <3>1
    <3> QED
      BY <1>2, <2>6, <3>2, <3>3, FaithfulFrame
  <2>7. Faithful(Leader, m)'
    BY <1>0, <1>2, <2>m DEF Faithful
  <2> QED
    BY <1>0, <1>5, <2>1, <2>4, <2>5, <2>6, <2>7, StreamPut
<1> QED
  BY <1>1, <1>5, <1>6, <1>7, <1>8 DEF Inv

\* Sending a transaction keeps the invariant: its shard's stream and the
\* record of the round grow together.
LEMMA TxStep == ASSUME Inv, SendTx PROVE Inv'
<1>a. PICK t \in Tx : t = Head(drain_buf)
  <2>1. drain_buf \in Seq(Tx) /\ drain_buf # <<>>
    BY DEF SendTx, Inv, TypeOK, AssignerTypes
  <2> QED
    BY <2>1
<1>b. PICK s \in Shards : s = shard_for_tx(t)
  BY ShardForTx
<1>0. /\ TypeOK /\ AssignerInv /\ StreamInv /\ DoneInv /\ LeaderInv
      /\ dispatching /\ drain_buf # <<>> /\ next_end = 0
      /\ UNCHANGED <<dispatching, round_number, next_end>>
      /\ Put(s, TxWithPubkey(t, round_number, assigned_counts[s] + 1))
      /\ assigned_counts' = [assigned_counts EXCEPT ![s] = @ + 1]
      /\ sent' = [sent EXCEPT ![round_number][s] = Append(@, t)]
  BY <1>a, <1>b DEF SendTx, Inv, AssignerInv
<1>1. TypeOK'
  BY <1>0, AssignerTypeStep DEF SendTx, AssignerStep
<1>3. /\ round_number \in 1..MaxRounds /\ round_number = Len(sent)
      /\ sent \in Seq([Shards -> Seq(Tx)])
      /\ assigned_counts \in [Shards -> Nat]
      /\ Dispatched = round_number - 1
  BY <1>0, Progress, BoundsAssumption, SMTT(30) DEF TypeOK, AssignerTypes
<1>4. \A z \in Shards : assigned_counts[z] = Len(sent[round_number][z])
  BY <1>0 DEF AssignerInv
<1>5. /\ Len(sent') = round_number
      /\ \A r \in 1..round_number - 1 : sent'[r] = sent[r]
      /\ \A z \in Shards \ {s} : sent'[round_number][z] = sent[round_number][z]
      /\ sent'[round_number][s] = Append(sent[round_number][s], t)
      /\ sent[round_number] \in [Shards -> Seq(Tx)]
  BY <1>0, <1>3
<1>6. Dispatched' = Dispatched
  BY <1>0, <1>3, <1>5 DEF Dispatched
<1>7. /\ ProcessInv' /\ LeaderInv' /\ SummariesInv' /\ FollowerInv'
      /\ BlocksExact'
      /\ Taken' = Taken
      /\ \A z \in Shards : ReadPlace(z)' = ReadPlace(z)
  BY <1>3, <1>5, <1>6, HistoryFrame DEF SendTx
<1>8. AssignerInv'
  <2>1. \A z \in Shards : assigned_counts'[z] = Len(sent'[round_number][z])
    <3> SUFFICES ASSUME NEW z \in Shards
                 PROVE  assigned_counts'[z] = Len(sent'[round_number][z])
      OBVIOUS
    <3>1. CASE z = s
      <4>1. Len(sent'[round_number][s]) = Len(sent[round_number][s]) + 1
        BY <1>5
      <4> QED
        BY <1>0, <1>3, <1>4, <3>1, <4>1
    <3>2. CASE z # s
      BY <1>0, <1>3, <1>4, <1>5, <3>2
    <3> QED
      BY <3>1, <3>2
  <2> QED
    BY <1>0, <2>1 DEF AssignerInv
<1>9. DoneInv'
  BY <1>0, <1>6, <1>7 DEF DoneInv, SendTx
<1>10. StreamInv'
  <2>n. PICK n : n = assigned_counts[s] + 1
    OBVIOUS
  <2>1. PICK m \in Message : m = TxWithPubkey(t, round_number, n)
    BY <1>3, <2>n, TxType
  <2>m. m.kind = "tx" /\ m.round = round_number /\ m.n = n /\ m.tx = t
    BY <2>1 DEF TxWithPubkey
  <2>2. \A z \in Shards : WritePlace(z) = <<round_number, assigned_counts[z]>>
    BY <1>0 DEF WritePlace, Shards
  <2>3. \A z \in Shards : WritePlace(z)' = <<round_number, assigned_counts'[z]>>
    BY <1>0 DEF WritePlace, Shards
  <2>4. Fits(m, WritePlace(s)) /\ WritePlace(s)' = After(s, m)
    BY <1>0, <1>3, <2>n, <2>m, <2>2, <2>3 DEF Fits, After
  <2>5. \A z \in Shards \ {s} : WritePlace(z)' = WritePlace(z)
    BY <1>0, <1>3, <2>2, <2>3
  <2>6. ASSUME NEW z \in Shards, NEW x \in Message, Faithful(z, x)
        PROVE  Faithful(z, x)'
    <3>1. x.round \in 1..round_number
      BY <2>6 DEF Faithful
    <3>2. x.kind = "end" => x.round < round_number
      BY <1>0, <2>6 DEF Faithful
    <3>3. CASE x.round < round_number \/ z # s
      <4>1. sent'[x.round][z] = sent[x.round][z]
        <5>1. CASE x.round < round_number
          <6>1. x.round \in 1..round_number - 1
            BY <1>3, <3>1, <5>1, BoundsAssumption
          <6> QED
            BY <1>5, <6>1
        <5>2. CASE x.round = round_number /\ z # s
          BY <1>5, <5>2
        <5> QED
          BY <1>3, <3>1, <3>3, <5>1, <5>2, BoundsAssumption
      <4>2. /\ round_number \in Nat /\ round_number' \in Nat
            /\ round_number' >= round_number
            /\ x.kind = "end" => x.round < round_number'
        BY <1>0, <1>3, <3>2
      <4> QED
        BY <2>6, <4>1, <4>2, FaithfulFrame
    <3>4. CASE x.round = round_number /\ z = s
      <4>1. x.kind # "end"
        BY <1>3, <3>2, <3>4
      <4>2. x.kind = "tx" => x.n \in Nat \ {0}
        BY DEF Message
      <4>3. x.kind = "tx" => /\ x.n <= Len(sent'[x.round][z])
                             /\ x.tx = sent'[x.round][z][x.n]
        BY <1>5, <2>6, <3>4, <4>2 DEF Faithful
      <4> QED
        BY <1>0, <3>1, <4>1, <4>3 DEF Faithful
    <3> QED
      BY <1>3, <3>1, <3>3, <3>4
  <2>7. Faithful(s, m)'
    <3>1. Len(sent'[round_number][s]) = n /\ sent'[round_number][s][n] = t
      BY <1>4, <1>5, <2>n
    <3> QED
      BY <1>0, <1>3, <2>m, <3>1 DEF Faithful
  <2>8. Put(s, m)
    BY <1>0, <2>n, <2>1
  <2> QED
    BY <1>0, <1>7, <2>4, <2>5, <2>6, <2>7, <2>8, StreamPut
<1> QED
  BY <1>1, <1>7, <1>8, <1>9, <1>10 DEF Inv

\* Ending a shard's round keeps the invariant: the RoundEnd carries the number
\* of transactions the round sent it, since none is left to send.
LEMMA RoundEndStep == ASSUME Inv, SendRoundEnd PROVE Inv'
<1>0. /\ TypeOK /\ AssignerInv /\ StreamInv /\ DoneInv /\ LeaderInv
      /\ dispatching /\ drain_buf = <<>> /\ next_end < NumShards
      /\ UNCHANGED <<dispatching, round_number, drain_buf, assigned_counts, sent>>
      /\ next_end' = next_end + 1
      /\ next_end \in Nat
  BY NumShardsAssumption
  DEF SendRoundEnd, AllEndsSent, Inv, TypeOK, AssignerTypes
<1>a. PICK s \in Shards : s = next_end
  BY <1>0, NumShardsAssumption DEF Shards
<1>1. TypeOK'
  BY <1>0, AssignerTypeStep DEF SendRoundEnd, AssignerStep
<1>2. /\ round_number \in 1..MaxRounds /\ round_number = Len(sent)
      /\ assigned_counts \in [Shards -> Nat]
      /\ Dispatched \in Nat
  BY <1>0, Progress, BoundsAssumption DEF TypeOK, AssignerTypes
<1>3. Dispatched' = Dispatched
  BY <1>0 DEF Dispatched
<1>4. /\ ProcessInv' /\ LeaderInv' /\ SummariesInv' /\ FollowerInv'
      /\ BlocksExact'
      /\ Taken' = Taken
      /\ \A z \in Shards : ReadPlace(z)' = ReadPlace(z)
  BY <1>0, <1>2, <1>3, HistoryFrame DEF SendRoundEnd
<1>5. AssignerInv'
  BY <1>0 DEF AssignerInv
<1>6. DoneInv'
  BY <1>0, <1>3, <1>4 DEF DoneInv, SendRoundEnd
<1>7. StreamInv'
  <2>n. PICK n \in Nat : n = assigned_counts[s]
    BY <1>2
  <2>1. PICK m \in Message : m = RoundEnd(round_number, n)
    BY <1>2, EndType
  <2>m. m.kind = "end" /\ m.round = round_number /\ m.n = n
    BY <2>1 DEF RoundEnd
  <2>2. WritePlace(s) = <<round_number, n>>
    BY <1>0, <1>a, <2>n DEF WritePlace
  <2>3. WritePlace(s)' = Start(s, round_number + 1)
    BY <1>0, <1>a DEF WritePlace, Start
  <2>4. Fits(m, WritePlace(s)) /\ WritePlace(s)' = After(s, m)
    BY <2>n, <2>m, <2>2, <2>3 DEF Fits, After
  <2>5. \A z \in Shards \ {s} : WritePlace(z)' = WritePlace(z)
    BY <1>0, <1>a DEF WritePlace, Start, Shards
  <2>6. ASSUME NEW z \in Shards, NEW x \in Message, Faithful(z, x)
        PROVE  Faithful(z, x)'
    BY <1>0, <2>6 DEF Faithful
  <2>7. Faithful(s, m)'
    <3>1. n = Len(sent[round_number][s])
      BY <1>0, <2>n DEF AssignerInv
    <3> QED
      BY <1>0, <1>2, <2>m, <3>1, BoundsAssumption DEF Faithful
  <2>8. Put(s, m)
    BY <1>a, <2>n, <2>1 DEF SendRoundEnd
  <2> QED
    BY <1>0, <1>4, <2>4, <2>5, <2>6, <2>7, <2>8, StreamPut
<1> QED
  BY <1>1, <1>4, <1>5, <1>6, <1>7 DEF Inv

\* Closing a round keeps the invariant: every shard's stream ends where the
\* next round will begin, and one more DispatchDone is on its way.
LEMMA DispatchDoneStep == ASSUME Inv, SendDispatchDone PROVE Inv'
<1>0. /\ TypeOK /\ AssignerInv /\ StreamInv /\ DoneInv /\ LeaderInv
      /\ dispatching /\ next_end >= NumShards
      /\ UNCHANGED <<round_number, drain_buf, assigned_counts, sent, pull_tx>>
      /\ dispatching' = FALSE /\ next_end' = 0
      /\ pull_done' = Append(pull_done, round_number)
  BY DEF SendDispatchDone, AllEndsSent, Inv
<1>1. TypeOK'
  BY <1>0, AssignerTypeStep DEF SendDispatchDone, AssignerStep
<1>2. /\ round_number \in Nat /\ round_number = Len(sent)
      /\ Dispatched = round_number - 1 /\ Dispatched \in Nat
      /\ pull_done \in Seq(1..MaxRounds)
      /\ next_end \in Nat
  BY <1>0, Progress, BoundsAssumption, NumShardsAssumption
  DEF TypeOK, AssignerTypes, QueueTypes
<1>3. Dispatched' = Dispatched + 1
  BY <1>0, <1>2 DEF Dispatched
<1>4. /\ ProcessInv' /\ LeaderInv' /\ SummariesInv' /\ FollowerInv'
      /\ BlocksExact'
      /\ Taken' = Taken
      /\ \A z \in Shards : ReadPlace(z)' = ReadPlace(z)
  BY <1>0, <1>2, <1>3, HistoryFrame DEF SendDispatchDone
<1>5. AssignerInv'
  BY <1>0, <1>2, NumShardsAssumption DEF AssignerInv
<1>6. DoneInv'
  <2>1. Len(pull_done') = Len(pull_done) + 1
    BY <1>0, <1>2
  <2>2. Taken \in Nat /\ Len(pull_done) = Dispatched - Taken
    BY <1>0, Progress, <1>2 DEF DoneInv
  <2> QED
    BY <1>2, <1>3, <1>4, <2>1, <2>2 DEF DoneInv
<1>7. StreamInv'
  <2>1. ASSUME NEW z \in Shards PROVE WritePlace(z)' = WritePlace(z)
    <3>1. ~(next_end <= z)
      BY <1>0, <1>2, NumShardsAssumption DEF Shards
    <3> QED
      BY <1>0, <3>1 DEF WritePlace, Start
  <2>2. ASSUME NEW z \in Shards
        PROVE  Chain(z, pull_tx'[z], ReadPlace(z)', WritePlace(z)')
    BY <1>0, <1>4, <2>1 DEF StreamInv
  <2>3. ASSUME NEW z \in Shards, NEW i \in 1..Len(pull_tx'[z])
        PROVE  Faithful(z, pull_tx[z][i])'
    BY <1>0 DEF StreamInv, Faithful
  <2> QED
    BY <2>2, <2>3, StreamIntro
<1> QED
  BY <1>1, <1>4, <1>5, <1>6, <1>7 DEF Inv

-----------------------------------------------------------------------------
(***************************************************************************)
(* The workers' steps.                                                     *)
(***************************************************************************)

\* What a step of one worker keeps of what is said about the leader.
LEMMA LeaderFrame ==
  ASSUME Inv, UNCHANGED <<assignerVars, pull_done, leaderVars>>,
         pc'[Leader] = pc[Leader], reported'[Leader] = reported[Leader]
  PROVE  /\ AssignerInv' /\ DoneInv' /\ LeaderInv' /\ SummariesInv' /\ BlocksExact'
         /\ Dispatched' = Dispatched
         /\ Announced' = Announced
         /\ \A g : Collected(g)' = Collected(g)
         /\ \A g : Owed(g)' = Owed(g)
<1>1. AssignerInv' /\ Dispatched' = Dispatched
  BY AssignerFrame DEF Inv
<1>2. Taken' = Taken /\ Announced' = Announced
  BY DEF Taken, Announced
<1>3. DoneInv'
  BY <1>1, <1>2 DEF Inv, DoneInv
<1>4. LeaderInv'
  BY DEF Inv, LeaderInv, leaderVars
<1>5. SummariesInv'
  BY DEF Inv, SummariesInv, Owed, leaderVars, assignerVars
<1>6. BlocksExact'
  BY DEF Inv, BlocksExact, leaderVars, assignerVars
<1> QED
  BY <1>1, <1>2, <1>3, <1>4, <1>5, <1>6
  DEF Collected, Owed, leaderVars, assignerVars

\* A follower nothing happens to stays in its phase of the leader's round.
LEMMA PhaseFrame ==
  ASSUME NEW g, Waiting(g) \/ Processing(g) \/ Reported(g),
         pc'[g] = pc[g], reported'[g] = reported[g], sub'[g] = sub[g],
         pull_results'[g] = pull_results[g], announced'[g] = announced[g],
         Announced' = Announced, Announced => round' = round,
         blocks' = blocks, sent' = sent, Collected(g)' = Collected(g)
  PROVE  (Waiting(g) \/ Processing(g) \/ Reported(g))'
<1>1. Waiting(g) => Waiting(g)'
  BY DEF Waiting
<1>2. Processing(g) => Processing(g)'
  BY DEF Processing
<1>3. Reported(g) => Reported(g)'
  BY DEF Reported, Owed
<1> QED
  BY <1>1, <1>2, <1>3

\* A worker nothing happens to keeps what it has of its round, and its place.
LEMMA ProcessFrame ==
  ASSUME ProcessInv, NEW z \in Shards,
         pc'[z] = pc[z], reported'[z] = reported[z], got_end'[z] = got_end[z],
         tx_buf'[z] = tx_buf[z], expected'[z] = expected[z]
  PROVE  ReadPlace(z)' = ReadPlace(z)
  BY DEF ReadPlace, Start

\* A prefix of a sequence and its next element are a prefix.
LEMMA PrefixAppend ==
  ASSUME NEW T, NEW all \in Seq(T), NEW q \in Seq(T),
         q = SubSeq(all, 1, Len(q)), Len(q) + 1 <= Len(all)
  PROVE  LET p == Append(q, all[Len(q) + 1])
         IN  p = SubSeq(all, 1, Len(p)) /\ Len(p) = Len(q) + 1
<1> DEFINE p == Append(q, all[Len(q) + 1])
<1>1. Len(p) = Len(q) + 1
  OBVIOUS
<1>2. \A i \in 1..Len(q) : q[i] = all[i]
  OBVIOUS
<1>3. \A i \in 1..Len(p) : p[i] = all[i]
  BY <1>2
<1>4. p = SubSeq(all, 1, Len(q) + 1)
  BY <1>3
<1> QED
  BY <1>1, <1>4

\* Nothing is taken after a RoundEnd: the loop is over as soon as it is there.
LEMMA OneEnd ==
  ASSUME Inv, NEW s \in Shards, pc[s] = "process" PROVE got_end[s] <=> LoopDone(s)
<1>1. got_end[s] \in BOOLEAN /\ tx_buf[s] \in Seq(Tx)
  BY DEF Inv, TypeOK, ProcessTypes
<1>2. got_end[s] => Len(tx_buf[s]) = expected[s]
  BY DEF Inv, ProcessInv
<1> QED
  BY <1>1, <1>2 DEF LoopDone

\* A worker's place is that of the transactions it holds of its round, and the
\* message it takes is the next one of that very round.
LEMMA RecvTxStep == ASSUME Inv, NEW s \in Shards, RecvTx(s) PROVE Inv'
<1>0. /\ TypeOK /\ StreamInv /\ ProcessInv /\ FollowerInv
      /\ pc[s] = "process" /\ ~got_end[s] /\ pull_tx[s] # <<>> /\ Take(s)
      /\ UNCHANGED <<assignerVars, pull_done, leaderVars, pc, reported, announced,
                     sub, pull_results>>
  BY OneEnd DEF RecvTx, Inv
<1>1. TypeOK'
  BY <1>0, RecvTxTypeStep
<1>2. PICK m \in Message : m = Head(pull_tx[s])
  BY <1>0, TakeType
<1>3. /\ expected' = IF m.kind = "end" THEN [expected EXCEPT ![s] = m.n] ELSE expected
      /\ got_end' = IF m.kind = "end" THEN [got_end EXCEPT ![s] = TRUE] ELSE got_end
      /\ tx_buf' = IF m.kind = "tx"
                   THEN [tx_buf EXCEPT ![s] = Append(@, m.tx)] ELSE tx_buf
  BY <1>2 DEF RecvTx
<1>4. /\ tx_buf \in [Shards -> Seq(Tx)] /\ expected \in [Shards -> Nat]
      /\ got_end \in [Shards -> BOOLEAN] /\ reported \in [Shards -> Nat]
      /\ pull_tx \in [Shards -> Seq(Message)]
      /\ sent \in Seq([Shards -> Seq(Tx)])
  BY <1>0 DEF TypeOK, ProcessTypes, WorkerTypes, QueueTypes, AssignerTypes
<1>5. /\ reported[s] + 1 \in 1..Dispatched
      /\ Dispatched \in 0..Len(sent)
  BY <1>0, Progress DEF ProcessInv, Inv
<1>6. PICK all \in Seq(Tx) : all = sent[reported[s] + 1][s]
  BY <1>4, <1>5
<1>7. Len(tx_buf[s]) <= Len(all) /\ tx_buf[s] = SubSeq(all, 1, Len(tx_buf[s]))
  BY <1>0, <1>6 DEF ProcessInv
<1>8. ReadPlace(s) = <<reported[s] + 1, Len(tx_buf[s])>>
  BY <1>0 DEF ReadPlace
<1>9. Fits(m, ReadPlace(s)) /\ Faithful(s, m)
  <2>1. Chain(s, pull_tx[s], ReadPlace(s), WritePlace(s))
    BY <1>0 DEF StreamInv
  <2>2. Faithful(s, pull_tx[s][1])
    <3>1. 1 \in 1..Len(pull_tx[s])
      BY <1>0, <1>4
    <3> QED
      BY <1>0, <3>1 DEF StreamInv
  <2>3. pull_tx[s][1] = m
    BY <1>0, <1>2, <1>4
  <2> QED
    BY <1>0, <1>2, <1>4, <2>1, <2>2, <2>3, ChainTail
<1>10. /\ m.round = reported[s] + 1
       /\ m.kind = "tx" \/ m.kind = "end"
       /\ m.kind = "tx" => m.n = Len(tx_buf[s]) + 1 /\ m.n <= Len(all)
                           /\ m.tx = all[m.n]
       /\ m.kind = "end" => m.n = Len(tx_buf[s]) /\ m.n = Len(all)
  BY <1>4, <1>6, <1>8, <1>9, MessageKinds DEF Fits, Faithful
<1>11. /\ \A z \in Shards \ {s} : /\ tx_buf'[z] = tx_buf[z]
                                  /\ expected'[z] = expected[z]
                                  /\ got_end'[z] = got_end[z]
       /\ m.kind = "tx" => /\ tx_buf'[s] = Append(tx_buf[s], m.tx)
                           /\ ~got_end'[s]
       /\ m.kind = "end" => /\ tx_buf'[s] = tx_buf[s] /\ expected'[s] = m.n
                            /\ got_end'[s]
  BY <1>0, <1>3, <1>4, <1>10
<1>12. ReadPlace(s)' = After(s, m)
  <2>1. CASE m.kind = "tx"
    <3>1. Len(tx_buf'[s]) = m.n
      BY <1>4, <1>10, <1>11, <2>1
    <3> QED
      BY <1>0, <1>10, <1>11, <2>1, <3>1 DEF ReadPlace, After
  <2>2. CASE m.kind = "end"
    <3>1. reported'[s] + 2 = m.round + 1
      BY <1>0, <1>4, <1>10
    <3> QED
      BY <1>0, <1>10, <1>11, <2>2, <3>1 DEF ReadPlace, After, Start
  <2> QED
    BY <1>10, <2>1, <2>2
<1>13. \A z \in Shards \ {s} : ReadPlace(z)' = ReadPlace(z)
  BY <1>0, <1>11, ProcessFrame
<1>14. StreamInv'
  BY <1>0, <1>2, <1>12, <1>13, StreamTake
<1>15. /\ AssignerInv' /\ DoneInv' /\ LeaderInv' /\ SummariesInv' /\ BlocksExact'
       /\ Dispatched' = Dispatched
       /\ Announced' = Announced
       /\ \A g : Collected(g)' = Collected(g)
  BY <1>0, LeaderFrame
<1>16. FollowerInv'
  BY <1>0, <1>15, PhaseFrame DEF FollowerInv, leaderVars, assignerVars
<1>17. ProcessInv'
  <2> SUFFICES ASSUME NEW z \in Shards, pc[z] = "process"
               PROVE  /\ reported[z] + 1 \in 1..Dispatched
                      /\ IF got_end'[z]
                         THEN /\ tx_buf'[z] = sent[reported[z] + 1][z]
                              /\ expected'[z] = Len(sent[reported[z] + 1][z])
                         ELSE /\ Len(tx_buf'[z]) <= Len(sent[reported[z] + 1][z])
                              /\ tx_buf'[z] = SubSeq(sent[reported[z] + 1][z], 1,
                                                     Len(tx_buf'[z]))
    BY <1>0, <1>15 DEF ProcessInv, assignerVars
  <2>1. CASE z # s
    BY <1>0, <1>11, <2>1 DEF ProcessInv
  <2>2. CASE z = s /\ m.kind = "tx"
    <3>1. /\ tx_buf'[s] = Append(tx_buf[s], all[Len(tx_buf[s]) + 1])
          /\ Len(tx_buf[s]) + 1 <= Len(all)
      BY <1>10, <1>11, <2>2
    <3>2. /\ tx_buf'[s] = SubSeq(all, 1, Len(tx_buf'[s]))
          /\ Len(tx_buf'[s]) <= Len(all)
      BY <1>4, <1>7, <3>1, PrefixAppend, SMTT(30)
    <3> QED
      BY <1>5, <1>6, <1>11, <2>2, <3>2
  <2>3. CASE z = s /\ m.kind = "end"
    <3>1. tx_buf[s] = all
      BY <1>7, <1>10, <2>3
    <3> QED
      BY <1>5, <1>6, <1>10, <1>11, <2>3, <3>1
  <2> QED
    BY <1>10, <2>1, <2>2, <2>3
<1> QED
  BY <1>1, <1>14, <1>15, <1>16, <1>17 DEF Inv

\* The leader's step that only moves it on keeps the followers' phases, when
\* the round is announced neither before nor after it.
LEMMA QuietLeader ==
  ASSUME Inv, ~Announced, Announced' = Announced,
         \A z \in Followers : pc'[z] = pc[z],
         UNCHANGED <<reported, sub, pull_results, announced, summaries, blocks, sent>>
  PROVE  FollowerInv' /\ SummariesInv' /\ BlocksExact'
<1>1. pc[Leader] # "collect" /\ pc'[Leader] # "collect"
  BY DEF Announced
<1>2. \A g : Collected(g)' = Collected(g)
  BY DEF Collected
<1>3. FollowerInv'
  BY <1>2, PhaseFrame DEF Inv, FollowerInv
<1>4. SummariesInv'
  BY <1>1 DEF Inv, SummariesInv, Owed
<1> QED
  BY <1>3, <1>4 DEF Inv, BlocksExact

\* Opening the loop, the leader stays at the start of its stream.
LEMMA LeaderReadyStep == ASSUME Inv, LeaderReady PROVE Inv'
<1> USE LeaderIsShard
<1>0. /\ TypeOK /\ StreamInv /\ ProcessInv /\ LeaderInv
      /\ pc[Leader] = "connect" /\ pc' = [pc EXCEPT ![Leader] = "header"]
      /\ UNCHANGED <<assignerVars, pull_tx, pull_done, sub, pull_results,
                     announced, processVars, leaderVars, reported>>
  BY DEF LeaderReady, Goto, Inv
<1>1. TypeOK'
  BY <1>0, LeaderTypeStep DEF LeaderReady, LeaderStep
<1>2. /\ pc'[Leader] = "header"
      /\ \A z \in Shards \ {Leader} : pc'[z] = pc[z]
      /\ ~Announced /\ Announced' = Announced
  BY <1>0 DEF TypeOK, WorkerTypes, Announced
<1>3. FollowerInv' /\ SummariesInv' /\ BlocksExact'
  BY <1>0, <1>2, QuietLeader DEF Followers, leaderVars, assignerVars
<1>4. AssignerInv' /\ Dispatched' = Dispatched
  BY <1>0, AssignerFrame DEF Inv
<1>5. DoneInv'
  BY <1>0, <1>2, <1>4 DEF Inv, DoneInv, Taken
<1>6. LeaderInv'
  BY <1>0, <1>2 DEF LeaderInv, leaderVars
<1>7. ProcessInv'
  BY <1>0, <1>2, <1>4 DEF ProcessInv, processVars, assignerVars
<1>8. \A z \in Shards : ReadPlace(z)' = ReadPlace(z)
  BY <1>0, <1>2 DEF ReadPlace, Start, processVars
<1>9. StreamInv'
  BY <1>0, <1>8, StreamSame
<1> QED
  BY <1>1, <1>3, <1>4, <1>5, <1>6, <1>7, <1>9 DEF Inv

\* What the leader takes for a header is one, of the round after its last.
LEMMA HeaderStep == ASSUME Inv, RecvDispatchHeader PROVE Inv'
<1> USE LeaderIsShard
<1>0. /\ TypeOK /\ StreamInv /\ ProcessInv /\ LeaderInv
      /\ pc[Leader] = "header" /\ pc' = [pc EXCEPT ![Leader] = "done"]
      /\ pull_tx[Leader] # <<>> /\ Take(Leader)
      /\ UNCHANGED <<assignerVars, pull_done, sub, pull_results,
                     announced, processVars, summaries, blocks, reported>>
  BY DEF RecvDispatchHeader, Goto, Inv
<1>1. TypeOK'
  BY <1>0, LeaderTypeStep DEF RecvDispatchHeader, LeaderStep
<1>2. /\ pc'[Leader] = "done"
      /\ \A z \in Shards \ {Leader} : pc'[z] = pc[z]
      /\ ~Announced /\ Announced' = Announced
      /\ reported[Leader] \in Nat
      /\ pull_tx \in [Shards -> Seq(Message)]
  BY <1>0 DEF TypeOK, WorkerTypes, QueueTypes, Announced
<1>3. FollowerInv' /\ SummariesInv' /\ BlocksExact'
  BY <1>0, <1>2, QuietLeader DEF Followers, assignerVars
<1>4. AssignerInv' /\ Dispatched' = Dispatched
  BY <1>0, AssignerFrame DEF Inv
<1>5. DoneInv'
  BY <1>0, <1>2, <1>4 DEF Inv, DoneInv, Taken
<1>a. PICK m \in Message : m = Head(pull_tx[Leader])
  BY <1>0, TakeType
<1>b. ReadPlace(Leader) = <<reported[Leader] + 1, -1>>
  BY <1>0 DEF ReadPlace, Start
<1>c. m.kind = "header" /\ m.round = reported[Leader] + 1
  <2>1. Fits(m, ReadPlace(Leader))
    BY <1>0, <1>2, <1>a, ChainTail DEF StreamInv
  <2> QED
    BY <1>b, <2>1, MessageKinds DEF Fits
<1>6. LeaderInv'
  <2>1. round' = reported[Leader] + 1
    BY <1>a, <1>c DEF RecvDispatchHeader
  <2>2. reported[Leader] = Len(blocks)
    BY <1>0, <1>2 DEF LeaderInv, TypeOK, LeaderTypes
  <2> QED
    BY <1>0, <1>2, <2>1, <2>2 DEF LeaderInv
<1>7. ProcessInv'
  BY <1>0, <1>2, <1>4 DEF ProcessInv, processVars, assignerVars
<1>8. ReadPlace(Leader)' = After(Leader, m)
  BY <1>0, <1>2, <1>c DEF ReadPlace, After
<1>9. \A z \in Shards \ {Leader} : ReadPlace(z)' = ReadPlace(z)
  BY <1>0, <1>2, ProcessFrame DEF processVars
<1>10. StreamInv'
  BY <1>0, <1>a, <1>8, <1>9, StreamTake
<1> QED
  BY <1>1, <1>3, <1>4, <1>5, <1>6, <1>7, <1>10 DEF Inv

\* Taking DispatchDone keeps the count of those on their way.
LEMMA DoneStep == ASSUME Inv, RecvDispatchDone PROVE Inv'
<1> USE LeaderIsShard
<1>0. /\ TypeOK /\ StreamInv /\ ProcessInv /\ LeaderInv /\ DoneInv
      /\ pc[Leader] = "done" /\ pc' = [pc EXCEPT ![Leader] = "publish"]
      /\ pull_done # <<>> /\ pull_done' = Tail(pull_done)
      /\ UNCHANGED <<assignerVars, pull_tx, sub, pull_results,
                     announced, processVars, leaderVars, reported>>
  BY DEF RecvDispatchDone, Goto, Inv
<1>1. TypeOK'
  BY <1>0, LeaderTypeStep DEF RecvDispatchDone, LeaderStep
<1>2. /\ pc'[Leader] = "publish"
      /\ \A z \in Shards \ {Leader} : pc'[z] = pc[z]
      /\ ~Announced /\ Announced' = Announced
      /\ reported[Leader] \in Nat
      /\ pull_done \in Seq(1..MaxRounds)
  BY <1>0 DEF TypeOK, WorkerTypes, QueueTypes, Announced
<1>3. FollowerInv' /\ SummariesInv' /\ BlocksExact'
  BY <1>0, <1>2, QuietLeader DEF Followers, leaderVars, assignerVars
<1>4. AssignerInv' /\ Dispatched' = Dispatched
  BY <1>0, AssignerFrame DEF Inv
<1>5. DoneInv'
  <2>1. Len(pull_done') = Len(pull_done) - 1
    BY <1>0, <1>2
  <2>2. Taken = reported[Leader] /\ Taken' = reported[Leader] + 1
    BY <1>0, <1>2 DEF Taken
  <2>3. Dispatched \in Nat
    BY Progress, <1>0, BoundsAssumption DEF TypeOK, AssignerTypes
  <2> QED
    BY <1>0, <1>2, <1>4, <2>1, <2>2, <2>3 DEF DoneInv
<1>6. LeaderInv'
  BY <1>0, <1>2 DEF LeaderInv, leaderVars
<1>7. ProcessInv'
  BY <1>0, <1>2, <1>4 DEF ProcessInv, processVars, assignerVars
<1>8. \A z \in Shards : ReadPlace(z)' = ReadPlace(z)
  BY <1>0, <1>2 DEF ReadPlace, Start, processVars
<1>9. StreamInv'
  BY <1>0, <1>8, StreamSame
<1> QED
  BY <1>1, <1>3, <1>4, <1>5, <1>6, <1>7, <1>9 DEF Inv

\* Announcing a round finds every follower waiting, with no announcement left.
LEMMA PublishStep == ASSUME Inv, PublishRoundStart PROVE Inv'
<1> USE LeaderIsShard
<1>0. /\ TypeOK /\ StreamInv /\ ProcessInv /\ LeaderInv /\ DoneInv /\ FollowerInv
      /\ pc[Leader] = "publish" /\ pc' = [pc EXCEPT ![Leader] = "process"]
      /\ sub' = [f \in Followers |->
                   IF f \in subscribed THEN Append(sub[f], round) ELSE sub[f]]
      /\ tx_buf' = [tx_buf EXCEPT ![Leader] = <<>>]
      /\ expected' = [expected EXCEPT ![Leader] = 0]
      /\ got_end' = [got_end EXCEPT ![Leader] = FALSE]
      /\ UNCHANGED <<assignerVars, pull_tx, pull_done, pull_results, announced,
                     leaderVars, reported>>
  BY DEF PublishRoundStart, EnterProcess, Goto, Inv
<1>1. TypeOK'
  BY <1>0, LeaderTypeStep DEF PublishRoundStart, LeaderStep
<1>2. /\ pc'[Leader] = "process" /\ tx_buf'[Leader] = <<>> /\ ~got_end'[Leader]
      /\ \A z \in Shards \ {Leader} :
           /\ pc'[z] = pc[z] /\ tx_buf'[z] = tx_buf[z]
           /\ expected'[z] = expected[z] /\ got_end'[z] = got_end[z]
      /\ ~Announced /\ Announced'
      /\ reported[Leader] \in Nat
      /\ sent \in Seq([Shards -> Seq(Tx)])
  BY <1>0 DEF TypeOK, WorkerTypes, ProcessTypes, AssignerTypes, Announced
<1>3. AssignerInv' /\ Dispatched' = Dispatched
  BY <1>0, AssignerFrame DEF Inv
<1>4. Taken = reported[Leader] + 1 /\ Taken' = Taken
  BY <1>0, <1>2 DEF Taken
<1>5. DoneInv'
  BY <1>0, <1>3, <1>4 DEF DoneInv
<1>6. LeaderInv'
  BY <1>0, <1>2 DEF LeaderInv, leaderVars
<1>7. SummariesInv'
  BY <1>0, <1>2 DEF Inv, SummariesInv, Owed, leaderVars, assignerVars
<1>8. BlocksExact'
  BY <1>0, SMTT(30) DEF Inv, BlocksExact, leaderVars, assignerVars
<1>9. ASSUME NEW f \in Followers PROVE Waiting(f)'
  <2>1. Waiting(f) /\ sub[f] = <<>>
    BY <1>0, <1>2, <1>9 DEF FollowerInv, Waiting, Processing, Reported
  <2>2. sub'[f] = <<>> \/ sub'[f] = <<round>>
    <3>1. Append(<<>>, round) = <<round>>
      OBVIOUS
    <3> QED
      BY <1>0, <1>9, <2>1, <3>1
  <2> QED
    BY <1>0, <1>2, <1>9, <2>1, <2>2
    DEF Waiting, Collected, Followers, leaderVars
<1>10. FollowerInv'
  BY <1>9 DEF FollowerInv
<1>11. ProcessInv'
  <2> SUFFICES ASSUME NEW z \in Shards, pc'[z] = "process"
               PROVE  /\ reported[z] + 1 \in 1..Dispatched
                      /\ LET all == sent[reported[z] + 1][z]
                         IN  IF got_end'[z]
                             THEN tx_buf'[z] = all /\ expected'[z] = Len(all)
                             ELSE /\ Len(tx_buf'[z]) <= Len(all)
                                  /\ tx_buf'[z] = SubSeq(all, 1, Len(tx_buf'[z]))
    BY <1>0, <1>3 DEF ProcessInv, assignerVars
  <2>1. CASE z = Leader
    <3>1. reported[Leader] + 1 \in 1..Dispatched /\ Dispatched \in 0..Len(sent)
      BY <1>0, <1>2, <1>4, Progress
    <3>2. PICK all \in Seq(Tx) : all = sent[reported[Leader] + 1][Leader]
      BY <1>2, <3>1, SMTT(30)
    <3>3. <<>> = SubSeq(all, 1, 0) /\ 0 <= Len(all) /\ Len(<<>>) = 0
      OBVIOUS
    <3> QED
      BY <1>2, <2>1, <3>1, <3>2, <3>3
  <2>2. CASE z # Leader
    BY <1>0, <1>2, <2>2 DEF ProcessInv
  <2> QED
    BY <2>1, <2>2
<1>12. \A z \in Shards : ReadPlace(z)' = ReadPlace(z)
  <2>1. ReadPlace(Leader)' = ReadPlace(Leader)
    BY <1>0, <1>2 DEF ReadPlace
  <2> QED
    BY <1>0, <1>2, <2>1, ProcessFrame
<1>13. StreamInv'
  BY <1>0, <1>12, StreamSame
<1> QED
  BY <1>1, <1>3, <1>5, <1>6, <1>7, <1>8, <1>10, <1>11, <1>13 DEF Inv

\* What a worker holds when its loop ends is what its round sent it.
LEMMA LoopEnds ==
  ASSUME Inv, NEW s \in Shards, pc[s] = "process", LoopDone(s)
  PROVE  tx_buf[s] = sent[reported[s] + 1][s] /\ got_end[s]
  BY OneEnd DEF Inv, ProcessInv

\* The leader's own summary opens the collection, with no follower's in it.
LEMMA OwnSummaryStep == ASSUME Inv, OwnSummary PROVE Inv'
<1> USE LeaderIsShard
<1>0. /\ TypeOK /\ StreamInv /\ ProcessInv /\ LeaderInv /\ DoneInv /\ FollowerInv
      /\ SummariesInv
      /\ pc[Leader] = "process" /\ pc' = [pc EXCEPT ![Leader] = "collect"]
      /\ summaries' = <<ShardSummary(Leader, tx_buf[Leader])>>
      /\ reported' = [reported EXCEPT ![Leader] = @ + 1]
      /\ UNCHANGED <<assignerVars, pull_tx, pull_done, sub, pull_results,
                     announced, processVars, round, blocks>>
  BY DEF OwnSummary, Goto, Inv
<1>1. TypeOK'
  BY <1>0, LeaderTypeStep DEF OwnSummary, LeaderStep
<1>2. /\ pc'[Leader] = "collect"
      /\ reported'[Leader] = reported[Leader] + 1
      /\ \A z \in Shards \ {Leader} : pc'[z] = pc[z] /\ reported'[z] = reported[z]
      /\ Announced /\ Announced'
      /\ reported[Leader] \in Nat
      /\ Len(blocks) \in Nat
  BY <1>0 DEF TypeOK, WorkerTypes, LeaderTypes, Announced
<1>3. AssignerInv' /\ Dispatched' = Dispatched
  BY <1>0, AssignerFrame DEF Inv
<1>4. Taken' = Taken
  BY <1>0, <1>2 DEF Taken
<1>5. DoneInv'
  BY <1>0, <1>3, <1>4 DEF DoneInv
<1>6. LeaderInv'
  BY <1>0, <1>2 DEF LeaderInv
<1>a. summaries' = <<Owed(Leader)>> /\ got_end[Leader]
  <2>1. reported[Leader] = Len(blocks)
    BY <1>0, <1>2 DEF LeaderInv
  <2>2. tx_buf[Leader] = sent[reported[Leader] + 1][Leader] /\ got_end[Leader]
    BY <1>0, LoopEnds DEF OwnSummary
  <2> QED
    BY <1>0, <2>1, <2>2 DEF Owed
<1>b. /\ Len(summaries') = 1 /\ summaries'[1] = Owed(Leader)
      /\ summaries'[1].shard_id = Leader
  BY <1>a DEF Owed, ShardSummary
<1>7. SummariesInv'
  <2>1. \A s : Owed(s)' = Owed(s)
    BY <1>0 DEF Owed, assignerVars
  <2>2. \A i \in 1..Len(summaries') :
           summaries'[i] = Owed(summaries[i].shard_id)' /\ i = 1
    BY <1>0, <1>b DEF Owed, assignerVars
  <2>3. summaries' # <<>> /\ Len(summaries') <= NumShards
    BY <1>a, <1>b, NumShardsAssumption
  <2> QED
    BY <1>2, <1>b, <2>1, <2>2, <2>3 DEF SummariesInv
<1>8. BlocksExact'
  BY <1>0 DEF Inv, BlocksExact, assignerVars
<1>9. \A f \in Followers : Collected(f)' = Collected(f)
  <2>1. summaries = <<>> /\ Len(summaries) = 0
    BY <1>0 DEF SummariesInv
  <2> QED
    BY <1>b, <2>1 DEF Collected
<1>10. FollowerInv'
  BY <1>0, <1>2, <1>9, PhaseFrame DEF FollowerInv, Followers, assignerVars
<1>11. ProcessInv'
  BY <1>0, <1>2, <1>3 DEF ProcessInv, processVars, assignerVars
<1>12. \A z \in Shards : ReadPlace(z)' = ReadPlace(z)
  <2>1. ReadPlace(Leader)' = ReadPlace(Leader)
    <3>1. reported[Leader] + 2 = reported'[Leader] + 1
      BY <1>2
    <3> QED
      BY <1>0, <1>2, <1>a, <3>1 DEF ReadPlace, Start
  <2> QED
    BY <1>0, <1>2, <2>1, ProcessFrame DEF processVars
<1>13. StreamInv'
  BY <1>0, <1>12, StreamSame
<1> QED
  BY <1>1, <1>3, <1>5, <1>6, <1>7, <1>8, <1>10, <1>11, <1>13 DEF Inv

\* A collected summary is that of a follower not collected yet, for the
\* leader's round.
LEMMA CollectStep ==
  ASSUME Inv, NEW f \in Followers, CollectSummary(f) PROVE Inv'
<1> USE LeaderIsShard
<1>0. /\ TypeOK /\ StreamInv /\ ProcessInv /\ LeaderInv /\ DoneInv /\ FollowerInv
      /\ SummariesInv
      /\ pc[Leader] = "collect" /\ Len(summaries) < NumShards
      /\ pull_results[f] # <<>>
      /\ summaries' = Append(summaries, Head(pull_results[f]))
      /\ pull_results' = [pull_results EXCEPT ![f] = Tail(@)]
      /\ UNCHANGED <<assignerVars, pull_tx, pull_done, sub, pc, announced,
                     processVars, round, blocks, reported>>
  <2>1. Len(summaries) \in Nat
    BY DEF Inv, TypeOK, LeaderTypes
  <2> QED
    BY <2>1, NumShardsAssumption DEF CollectSummary, AllCollected, Inv
<1>1. TypeOK'
  BY <1>0, LeaderTypeStep DEF LeaderStep
<1>2. /\ Announced /\ Announced' = Announced
      /\ summaries \in Seq(Summary)
      /\ pull_results \in [Followers -> Seq(Summary)]
      /\ f \in Shards /\ f # Leader
  BY <1>0 DEF TypeOK, LeaderTypes, QueueTypes, Announced, Followers
<1>3. AssignerInv' /\ Dispatched' = Dispatched
  BY <1>0, AssignerFrame DEF Inv
<1>4. DoneInv'
  BY <1>0, <1>3 DEF DoneInv, Taken
<1>5. LeaderInv'
  BY <1>0 DEF LeaderInv
<1>6. /\ Reported(f) /\ pull_results[f] = <<Owed(f)>> /\ ~Collected(f)
  BY <1>0 DEF FollowerInv, Waiting, Processing, Reported
<1>7. summaries' = Append(summaries, Owed(f)) /\ pull_results'[f] = <<>>
  BY <1>0, <1>2, <1>6
<1>8. \A g \in Followers \ {f} : pull_results'[g] = pull_results[g]
  BY <1>0, <1>2
<1>a. /\ Len(summaries') = Len(summaries) + 1
      /\ Len(summaries) \in Nat \ {0}
      /\ \A i \in 1..Len(summaries) : summaries'[i] = summaries[i]
      /\ summaries'[Len(summaries) + 1] = Owed(f)
      /\ Owed(f).shard_id = f
  <2>1. Owed(f) \in Summary
    <3>1. Len(pull_results[f]) = 1 /\ pull_results[f][1] = Owed(f)
      BY <1>6
    <3>2. pull_results[f] \in Seq(Summary)
      BY <1>2
    <3> QED
      BY <3>1, <3>2
  <2>2. Owed(f).shard_id = f
    BY DEF Owed, ShardSummary
  <2>3. Len(summaries) \in Nat \ {0}
    BY <1>0, <1>2 DEF SummariesInv
  <2> QED
    BY <1>2, <1>7, <2>1, <2>2, <2>3
<1>b. \A s : Owed(s)' = Owed(s)
  BY <1>0 DEF Owed, assignerVars
<1>9. SummariesInv'
  <2>1. summaries' # <<>> /\ summaries'[1] = Owed(Leader) /\ Len(summaries') <= NumShards
    BY <1>0, <1>a, NumShardsAssumption DEF SummariesInv
  <2>2. ASSUME NEW i \in 1..Len(summaries')
        PROVE  /\ summaries'[i] = Owed(summaries[i].shard_id)'
               /\ i > 1 => summaries'[i].shard_id \in Followers
    <3>1. Owed(summaries[i].shard_id)'
            = ShardSummary(summaries'[i].shard_id,
                           sent[Len(blocks) + 1][summaries'[i].shard_id])
      BY <1>0 DEF Owed, assignerVars
    <3>2. CASE i \in 1..Len(summaries)
      BY <1>0, <1>a, <3>1, <3>2 DEF SummariesInv, Owed
    <3>3. CASE i = Len(summaries) + 1
      BY <1>a, <3>1, <3>3 DEF Owed
    <3> QED
      BY <1>a, <3>2, <3>3
  <2>3. ASSUME NEW i \in 1..Len(summaries'), NEW j \in 1..Len(summaries'),
               summaries'[i].shard_id = summaries'[j].shard_id
        PROVE  i = j
    <3>1. \A k \in 1..Len(summaries) : summaries[k].shard_id # f
      BY <1>6 DEF Collected
    <3>2. \A k, l \in 1..Len(summaries) :
             summaries[k].shard_id = summaries[l].shard_id => k = l
      BY <1>0 DEF SummariesInv
    <3> QED
      BY <1>a, <2>3, <3>1, <3>2
  <2> QED
    BY <1>0, <1>b, <2>1, <2>2, <2>3 DEF SummariesInv
<1>10. BlocksExact'
  BY <1>0, SMTT(30) DEF Inv, BlocksExact, assignerVars
<1>11. \A g \in Followers : Collected(g)' <=> Collected(g) \/ g = f
  BY <1>a DEF Collected
<1>12. FollowerInv'
  <2> SUFFICES ASSUME NEW g \in Followers
               PROVE  (Waiting(g) \/ Processing(g) \/ Reported(g))'
    BY DEF FollowerInv
  <2>1. CASE g = f
    <3>1. Announced' /\ Collected(f)'
      BY <1>2, <1>11
    <3>2. /\ pc[f] = "sub" /\ reported[f] = Len(blocks) + 1 /\ sub[f] = <<>>
      BY <1>6 DEF Reported
    <3>3. Reported(f)'
      BY <1>0, <1>7, <3>1, <3>2 DEF Reported
    <3> QED
      BY <2>1, <3>3
  <2>2. CASE g # f
    <3>1. Collected(g)' = Collected(g)
      BY <1>11, <2>2 DEF Collected
    <3> QED
      BY <1>0, <1>2, <1>8, <2>2, <3>1, PhaseFrame DEF FollowerInv, assignerVars
  <2> QED
    BY <2>1, <2>2
<1>13. ProcessInv'
  BY <1>0, <1>3 DEF ProcessInv, processVars, assignerVars
<1>14. \A z \in Shards : ReadPlace(z)' = ReadPlace(z)
  BY <1>0, ProcessFrame DEF processVars
<1>15. StreamInv'
  BY <1>0, <1>14, StreamSame
<1> QED
  BY <1>1, <1>3, <1>4, <1>5, <1>9, <1>10, <1>12, <1>13, <1>15 DEF Inv

\* As many summaries as shards, of as many shards: every shard is there.
LEMMA EveryoneIn ==
  ASSUME TypeOK, Len(summaries) = NumShards,
         \A i, j \in 1..Len(summaries) :
            summaries[i].shard_id = summaries[j].shard_id => i = j
  PROVE  \A s \in Shards : \E i \in 1..NumShards : summaries[i].shard_id = s
<1> DEFINE who == [i \in 1..NumShards |-> summaries[i].shard_id]
<1>1. who \in [1..NumShards -> Shards]
  BY SummaryShards
<1>2. \A i, j \in 1..NumShards : who[i] = who[j] => i = j
  OBVIOUS
<1>3. who \in Injection(1..NumShards, Shards)
  BY <1>1, <1>2 DEF Injection, IsInjective
<1>4. /\ IsFiniteSet(Shards)
      /\ Cardinality(Shards) = Cardinality(1..NumShards)
  BY FS_Interval, NumShardsAssumption DEF Shards
<1>5. who \in Surjection(1..NumShards, Shards)
  BY <1>3, <1>4, FS_Injection
<1>6. \A s \in Shards : \E i \in 1..NumShards : who[i] = s
  BY <1>5 DEF Surjection
<1> QED
  BY <1>6

\* The block holds the summary of every shard for the leader's round, and
\* every follower waits for the next one.
LEMMA FinalizeStep == ASSUME Inv, FinalizeBlock PROVE Inv'
<1> USE LeaderIsShard
<1>0. /\ TypeOK /\ StreamInv /\ ProcessInv /\ LeaderInv /\ DoneInv /\ FollowerInv
      /\ SummariesInv
      /\ pc[Leader] = "collect" /\ pc' = [pc EXCEPT ![Leader] = "header"]
      /\ Len(summaries) = NumShards
      /\ blocks' = Append(blocks, Block(round, summaries))
      /\ summaries' = <<>>
      /\ UNCHANGED <<assignerVars, pull_tx, pull_done, sub, pull_results,
                     announced, processVars, round, reported>>
  <2>1. Len(summaries) \in Nat
    BY DEF Inv, TypeOK, LeaderTypes
  <2> QED
    BY <2>1, NumShardsAssumption
    DEF FinalizeBlock, AllCollected, Goto, Inv, SummariesInv
<1>1. TypeOK'
  BY <1>0, LeaderTypeStep DEF FinalizeBlock, LeaderStep
<1>2. /\ pc'[Leader] = "header"
      /\ \A z \in Shards \ {Leader} : pc'[z] = pc[z]
      /\ Announced /\ ~Announced'
      /\ Len(blocks) \in Nat
      /\ Len(blocks') = Len(blocks) + 1
      /\ \A r \in 1..Len(blocks) : blocks'[r] = blocks[r]
      /\ blocks'[Len(blocks) + 1] = Block(round, summaries)
  <2>1. /\ blocks \in Seq([block_number : Nat, parts : Seq(Summary)])
        /\ pc'[Leader] = "header"
        /\ \A z \in Shards \ {Leader} : pc'[z] = pc[z]
        /\ Announced /\ ~Announced'
    BY <1>0 DEF TypeOK, WorkerTypes, LeaderTypes, Announced
  <2>2. Block(round, summaries) \in [block_number : Nat, parts : Seq(Summary)]
    BY <1>0 DEF TypeOK, LeaderTypes, Block
  <2> QED
    BY <1>0, <2>1, <2>2
<1>3. AssignerInv' /\ Dispatched' = Dispatched
  BY <1>0, AssignerFrame DEF Inv
<1>4. DoneInv'
  <2>1. Taken' = Taken
    BY <1>0, <1>2 DEF Taken
  <2> QED
    BY <1>0, <1>3, <2>1 DEF DoneInv
<1>5. LeaderInv' /\ round = Len(blocks) + 1 /\ reported[Leader] = Len(blocks) + 1
  BY <1>0, <1>2 DEF LeaderInv
<1>6. SummariesInv'
  BY <1>0, <1>2, NumShardsAssumption DEF SummariesInv
<1>7. \A s \in Shards : \E i \in 1..NumShards :
         summaries[i].shard_id = s /\ summaries[i] = Owed(s)
  <2>1. \A s \in Shards : \E i \in 1..NumShards : summaries[i].shard_id = s
    BY <1>0, EveryoneIn DEF SummariesInv
  <2> QED
    BY <1>0, <2>1 DEF SummariesInv
<1>8. BlocksExact'
  <2> SUFFICES ASSUME NEW r \in 1..Len(blocks')
               PROVE  /\ blocks'[r].block_number = r
                      /\ Len(blocks'[r].parts) = NumShards
                      /\ \A s \in Shards : \E i \in 1..NumShards :
                           blocks'[r].parts[i] = ShardSummary(s, sent[r][s])
    BY <1>0 DEF BlocksExact, assignerVars
  <2>1. CASE r \in 1..Len(blocks)
    <3>1. blocks'[r] = blocks[r]
      BY <1>2, <2>1
    <3>2. /\ blocks[r].block_number = r
          /\ Len(blocks[r].parts) = NumShards
          /\ \A s \in Shards : \E i \in 1..NumShards :
               blocks[r].parts[i] = ShardSummary(s, sent[r][s])
      BY <2>1 DEF Inv, BlocksExact
    <3>. QED
      BY <3>1, <3>2
  <2>2. CASE r = Len(blocks) + 1
    BY <1>0, <1>2, <1>5, <1>7, <2>2 DEF Block, Owed
  <2> QED
    BY <1>2, <2>1, <2>2
<1>9. ASSUME NEW f \in Followers PROVE Waiting(f)'
  <2>1. f \in Shards /\ f # Leader
    BY <1>9 DEF Followers
  <2>2. Collected(f)
    BY <1>0, <1>7, <2>1 DEF Collected
  <2>3. Reported(f) /\ pull_results[f] = <<>>
    BY <1>0, <1>9, <2>2 DEF FollowerInv, Waiting, Processing, Reported
  <2>4. ~Collected(f)'
    BY <1>0 DEF Collected
  <2> QED
    BY <1>0, <1>2, <2>1, <2>3, <2>4 DEF Waiting, Reported
<1>10. FollowerInv'
  BY <1>9 DEF FollowerInv
<1>11. ProcessInv'
  BY <1>0, <1>2, <1>3 DEF ProcessInv, processVars, assignerVars
<1>12. \A z \in Shards : ReadPlace(z)' = ReadPlace(z)
  BY <1>0, <1>2 DEF ReadPlace, Start, processVars
<1>13. StreamInv'
  BY <1>0, <1>12, StreamSame
<1> QED
  BY <1>1, <1>3, <1>4, <1>5, <1>6, <1>8, <1>10, <1>11, <1>13 DEF Inv

\* Joining the leader's PUB changes nothing the invariant speaks of.
LEMMA SubscribeStep ==
  ASSUME Inv, NEW f \in Followers, Subscribe(f) PROVE Inv'
<1>0. /\ TypeOK /\ StreamInv /\ ProcessInv /\ FollowerInv
      /\ UNCHANGED <<assignerVars, pull_tx, pull_done, sub, pull_results, pc,
                     announced, processVars, leaderVars, reported>>
  BY DEF Subscribe, Inv
<1>1. TypeOK'
  BY <1>0, FollowerTypeStep
<1>2. /\ AssignerInv' /\ DoneInv' /\ LeaderInv' /\ SummariesInv' /\ BlocksExact'
      /\ Dispatched' = Dispatched
      /\ Announced' = Announced
      /\ \A g : Collected(g)' = Collected(g)
  BY <1>0, LeaderFrame
<1>3. FollowerInv'
  BY <1>0, <1>2, PhaseFrame DEF FollowerInv, leaderVars, assignerVars
<1>4. ProcessInv'
  BY <1>0, <1>2 DEF ProcessInv, processVars, assignerVars
<1>5. \A z \in Shards : ReadPlace(z)' = ReadPlace(z)
  BY <1>0, ProcessFrame DEF processVars
<1>6. StreamInv'
  BY <1>0, <1>5, StreamSame
<1> QED
  BY <1>1, <1>2, <1>3, <1>4, <1>6 DEF Inv

\* An announcement a follower takes is that of the leader's round, which is
\* the round its stream is at.
LEMMA RoundStartStep ==
  ASSUME Inv, NEW f \in Followers, RecvRoundStart(f) PROVE Inv'
<1>0. /\ TypeOK /\ StreamInv /\ ProcessInv /\ LeaderInv /\ DoneInv /\ FollowerInv
      /\ pc[f] = "sub" /\ pc' = [pc EXCEPT ![f] = "process"]
      /\ sub[f] # <<>>
      /\ announced' = [announced EXCEPT ![f] = Head(sub[f])]
      /\ sub' = [sub EXCEPT ![f] = Tail(@)]
      /\ tx_buf' = [tx_buf EXCEPT ![f] = <<>>]
      /\ expected' = [expected EXCEPT ![f] = 0]
      /\ got_end' = [got_end EXCEPT ![f] = FALSE]
      /\ UNCHANGED <<assignerVars, pull_tx, pull_done, pull_results, leaderVars,
                     reported>>
  BY DEF RecvRoundStart, EnterProcess, Goto, Inv
<1>1. TypeOK'
  BY <1>0, FollowerTypeStep DEF FollowerStep
<1>2. /\ f \in Shards /\ f # Leader
      /\ pc'[f] = "process" /\ tx_buf'[f] = <<>> /\ ~got_end'[f]
      /\ announced'[f] = Head(sub[f]) /\ sub'[f] = Tail(sub[f])
      /\ \A z \in Shards \ {f} :
           /\ pc'[z] = pc[z] /\ tx_buf'[z] = tx_buf[z]
           /\ expected'[z] = expected[z] /\ got_end'[z] = got_end[z]
      /\ \A g \in Followers \ {f} : announced'[g] = announced[g] /\ sub'[g] = sub[g]
      /\ reported[f] \in Nat
      /\ sent \in Seq([Shards -> Seq(Tx)])
  BY <1>0 DEF TypeOK, WorkerTypes, ProcessTypes, QueueTypes, AssignerTypes, Followers
<1>3. /\ AssignerInv' /\ DoneInv' /\ LeaderInv' /\ SummariesInv' /\ BlocksExact'
      /\ Dispatched' = Dispatched
      /\ Announced' = Announced
      /\ \A g : Collected(g)' = Collected(g)
  BY <1>0, <1>2, LeaderIsShard, LeaderFrame
<1>4. Waiting(f) /\ Announced /\ sub[f] = <<round>>
  BY <1>0 DEF FollowerInv, Waiting, Processing, Reported
<1>5. Processing(f)'
  <2>1. announced'[f] = round /\ sub'[f] = <<>>
    <3>1. Head(<<round>>) = round /\ Tail(<<round>>) = <<>>
      OBVIOUS
    <3> QED
      BY <1>2, <1>4, <3>1
  <2>2. ~Collected(f)'
    BY <1>3, <1>4 DEF Waiting
  <2>3. Announced'
    BY <1>3, <1>4
  <2> QED
    BY <1>0, <1>2, <1>4, <2>1, <2>2, <2>3 DEF Processing, Waiting, leaderVars
<1>6. FollowerInv'
  <2> SUFFICES ASSUME NEW g \in Followers
               PROVE  (Waiting(g) \/ Processing(g) \/ Reported(g))'
    BY DEF FollowerInv
  <2>1. CASE g = f
    BY <1>5, <2>1
  <2>2. CASE g # f
    BY <1>0, <1>2, <1>3, <2>2, PhaseFrame
    DEF FollowerInv, Followers, leaderVars, assignerVars
  <2> QED
    BY <2>1, <2>2
<1>7. ProcessInv'
  <2> SUFFICES ASSUME NEW z \in Shards, pc'[z] = "process"
               PROVE  /\ reported[z] + 1 \in 1..Dispatched
                      /\ LET all == sent[reported[z] + 1][z]
                         IN  IF got_end'[z]
                             THEN tx_buf'[z] = all /\ expected'[z] = Len(all)
                             ELSE /\ Len(tx_buf'[z]) <= Len(all)
                                  /\ tx_buf'[z] = SubSeq(all, 1, Len(tx_buf'[z]))
    BY <1>0, <1>3 DEF ProcessInv, assignerVars
  <2>1. CASE z = f
    <3>1. reported[f] + 1 \in 1..Dispatched /\ Dispatched \in 0..Len(sent)
      BY <1>0, <1>4, Progress DEF Waiting
    <3>2. PICK all \in Seq(Tx) : all = sent[reported[f] + 1][f]
      BY <1>2, <3>1, SMTT(30)
    <3>3. <<>> = SubSeq(all, 1, 0) /\ 0 <= Len(all) /\ Len(<<>>) = 0
      OBVIOUS
    <3> QED
      BY <1>2, <2>1, <3>1, <3>2, <3>3
  <2>2. CASE z # f
    BY <1>0, <1>2, <2>2 DEF ProcessInv
  <2> QED
    BY <2>1, <2>2
<1>8. \A z \in Shards : ReadPlace(z)' = ReadPlace(z)
  <2>1. ReadPlace(f)' = ReadPlace(f)
    BY <1>0, <1>2 DEF ReadPlace, Start
  <2> QED
    BY <1>0, <1>2, <2>1, ProcessFrame
<1>9. StreamInv'
  BY <1>0, <1>8, StreamSame
<1> QED
  BY <1>1, <1>3, <1>6, <1>7, <1>9 DEF Inv

\* The summary a follower pushes is the one it owes the leader's round.
LEMMA PushSummaryStep ==
  ASSUME Inv, NEW f \in Followers, PushSummary(f) PROVE Inv'
<1>0. /\ TypeOK /\ StreamInv /\ ProcessInv /\ LeaderInv /\ DoneInv /\ FollowerInv
      /\ pc[f] = "process" /\ pc' = [pc EXCEPT ![f] = "sub"]
      /\ pull_results' = [pull_results EXCEPT
                            ![f] = Append(@, ShardSummary(f, tx_buf[f]))]
      /\ reported' = [reported EXCEPT ![f] = @ + 1]
      /\ UNCHANGED <<assignerVars, pull_tx, pull_done, sub, announced,
                     processVars, leaderVars>>
  BY DEF PushSummary, Goto, Inv
<1>1. TypeOK'
  BY <1>0, FollowerTypeStep DEF FollowerStep
<1>2. /\ f \in Shards /\ f # Leader
      /\ pc'[f] = "sub" /\ reported'[f] = reported[f] + 1
      /\ pull_results'[f] = Append(pull_results[f], ShardSummary(f, tx_buf[f]))
      /\ \A z \in Shards \ {f} : pc'[z] = pc[z] /\ reported'[z] = reported[z]
      /\ \A g \in Followers \ {f} : pull_results'[g] = pull_results[g]
      /\ reported[f] \in Nat
  BY <1>0 DEF TypeOK, WorkerTypes, QueueTypes, Followers
<1>3. /\ AssignerInv' /\ DoneInv' /\ LeaderInv' /\ SummariesInv' /\ BlocksExact'
      /\ Dispatched' = Dispatched
      /\ Announced' = Announced
      /\ \A g : Collected(g)' = Collected(g)
      /\ \A g : Owed(g)' = Owed(g)
  BY <1>0, <1>2, LeaderIsShard, LeaderFrame
<1>4. Processing(f)
  BY <1>0 DEF FollowerInv, Waiting, Processing, Reported
<1>5. got_end[f] /\ ShardSummary(f, tx_buf[f]) = Owed(f)
  <2>1. tx_buf[f] = sent[reported[f] + 1][f] /\ got_end[f]
    BY <1>0, <1>2, LoopEnds DEF PushSummary
  <2> QED
    BY <1>4, <2>1 DEF Processing, Owed
<1>6. Reported(f)'
  <2>1. pull_results'[f] = <<Owed(f)>>
    <3>1. Append(<<>>, Owed(f)) = <<Owed(f)>>
      OBVIOUS
    <3> QED
      BY <1>2, <1>4, <1>5, <3>1 DEF Processing
  <2>2. ~Collected(f)' /\ Announced' /\ Owed(f)' = Owed(f)
    BY <1>3, <1>4 DEF Processing
  <2> QED
    BY <1>0, <1>2, <1>4, <2>1, <2>2 DEF Processing, Reported, leaderVars
<1>7. FollowerInv'
  <2> SUFFICES ASSUME NEW g \in Followers
               PROVE  (Waiting(g) \/ Processing(g) \/ Reported(g))'
    BY DEF FollowerInv
  <2>1. CASE g = f
    BY <1>6, <2>1
  <2>2. CASE g # f
    BY <1>0, <1>2, <1>3, <2>2, PhaseFrame
    DEF FollowerInv, Followers, leaderVars, assignerVars
  <2> QED
    BY <2>1, <2>2
<1>8. ProcessInv'
  BY <1>0, <1>2, <1>3 DEF ProcessInv, processVars, assignerVars
<1>9. \A z \in Shards : ReadPlace(z)' = ReadPlace(z)
  <2>1. ReadPlace(f)' = ReadPlace(f)
    <3>1. reported[f] + 2 = reported'[f] + 1
      BY <1>2
    <3> QED
      BY <1>0, <1>2, <1>5, <3>1 DEF ReadPlace, Start
  <2> QED
    BY <1>0, <1>2, <2>1, ProcessFrame DEF processVars
<1>10. StreamInv'
  BY <1>0, <1>9, StreamSame
<1> QED
  BY <1>1, <1>3, <1>7, <1>8, <1>10 DEF Inv

-----------------------------------------------------------------------------
(***************************************************************************)
(* The theorems.                                                           *)
(***************************************************************************)

\* Initially every stream is empty and begins at round 1.
LEMMA InvInit == Init => Inv
<1> SUFFICES ASSUME Init PROVE Inv
  OBVIOUS
<1> USE LeaderIsShard
<1>1. TypeOK
  BY TypeInit
<1>2. AssignerInv /\ LeaderInv /\ SummariesInv /\ BlocksExact
  BY NumShardsAssumption
  DEF Init, AssignerInv, LeaderInv, SummariesInv, BlocksExact
<1>3. DoneInv
  BY DEF Init, DoneInv, Dispatched, Taken
<1>4. ProcessInv
  BY DEF Init, ProcessInv
<1>5. FollowerInv
  BY DEF Init, FollowerInv, Followers, Waiting, Collected
<1>6. StreamInv
  <2> SUFFICES ASSUME NEW s \in Shards
               PROVE  /\ Chain(s, pull_tx[s], ReadPlace(s), WritePlace(s))
                      /\ \A i \in 1..Len(pull_tx[s]) : Faithful(s, pull_tx[s][i])
    BY DEF StreamInv
  <2>1. pull_tx[s] = <<>> /\ Len(<<>>) = 0
    BY DEF Init
  <2>2. ReadPlace(s) = Start(s, 1) /\ WritePlace(s) = Start(s, 1)
    BY DEF Init, ReadPlace, WritePlace
  <2> QED
    BY <2>1, <2>2 DEF Chain, PlaceAt
<1> QED
  BY <1>1, <1>2, <1>3, <1>4, <1>5, <1>6 DEF Inv

\* Every step keeps the invariant.
LEMMA InvStep == Inv /\ [Next]_vars => Inv'
<1> SUFFICES ASSUME Inv, [Next]_vars PROVE Inv'
  OBVIOUS
<1>1. ASSUME NEW batch \in Batches, SendDispatchHeader(batch) PROVE Inv'
  BY <1>1, DispatchHeaderStep
<1>2. CASE AssignerStep
  BY <1>2, TxStep, RoundEndStep, DispatchDoneStep DEF AssignerStep
<1>3. CASE LeaderStep
  BY <1>3, LeaderReadyStep, HeaderStep, DoneStep, PublishStep, RecvTxStep,
     OwnSummaryStep, CollectStep, FinalizeStep, LeaderIsShard DEF LeaderStep
<1>4. ASSUME NEW f \in Followers, FollowerStep(f) \/ Subscribe(f) PROVE Inv'
  BY <1>4, RoundStartStep, RecvTxStep, PushSummaryStep, SubscribeStep
  DEF FollowerStep, Followers
<1>5. CASE UNCHANGED vars
  <2>1. TypeOK'
    BY <1>5, TypeFrame DEF Inv, TypeOK, vars, assignerVars, processVars, leaderVars
  <2>2. /\ AssignerInv' /\ DoneInv' /\ LeaderInv' /\ SummariesInv' /\ BlocksExact'
        /\ Dispatched' = Dispatched
        /\ Announced' = Announced
        /\ \A g : Collected(g)' = Collected(g)
    BY <1>5, LeaderFrame DEF vars
  <2>3. FollowerInv'
    BY <1>5, <2>2, PhaseFrame
    DEF Inv, FollowerInv, vars, leaderVars, assignerVars
  <2>4. ProcessInv'
    BY <1>5, <2>2 DEF Inv, ProcessInv, vars, processVars, assignerVars
  <2>5. \A z \in Shards : ReadPlace(z)' = ReadPlace(z)
    BY <1>5, ProcessFrame DEF Inv, vars, processVars
  <2>6. StreamInv'
    BY <1>5, <2>5, StreamSame DEF Inv, vars
  <2> QED
    BY <2>1, <2>2, <2>3, <2>4, <2>6 DEF Inv
<1> QED
  BY <1>1, <1>2, <1>3, <1>4, <1>5 DEF Next, Quiescent

\* The invariant holds of every behaviour of the round protocol.
THEOREM Invariance == Spec => []Inv
  BY InvInit, InvStep, PTL DEF Spec

\* No block is ever missing a shard, has a shard twice or holds anything but
\* what its round sent: BlocksExact, for every number of shards.
THEOREM BlocksAreExact == Spec => []BlocksExact
<1>1. Inv => BlocksExact
  BY DEF Inv
<1> QED
  BY <1>1, Invariance, PTL

\* A follower only ever works on the round it heard announced: RoundAgreement.
THEOREM RoundsAgree == Spec => []RoundAgreement
<1>1. ASSUME Inv PROVE RoundAgreement
  <2> SUFFICES ASSUME NEW f \in Followers, pc[f] = "process"
               PROVE  /\ announced[f] \in 1..Len(sent)
                      /\ LET all == sent[announced[f]][f]
                         IN  /\ Len(tx_buf[f]) <= Len(all)
                             /\ tx_buf[f] = SubSeq(all, 1, Len(tx_buf[f]))
                             /\ got_end[f] => tx_buf[f] = all
    BY DEF RoundAgreement
  <2>1. f \in Shards
    BY DEF Followers
  <2>2. /\ announced[f] = round /\ Announced /\ reported[f] = Len(blocks)
    BY <1>1 DEF Inv, FollowerInv, Waiting, Processing, Reported
  <2>3. round = reported[f] + 1
    BY <1>1, <2>2 DEF Inv, LeaderInv, Announced
  <2>4. reported[f] + 1 \in 1..Dispatched /\ Dispatched \in 0..Len(sent)
    BY <1>1, <2>1, Progress DEF Inv, ProcessInv
  <2>5. sent \in Seq([Shards -> Seq(Tx)])
    BY <1>1 DEF Inv, TypeOK, AssignerTypes
  <2>6. PICK all \in Seq(Tx) : all = sent[reported[f] + 1][f]
    BY <2>1, <2>4, <2>5
  <2>7. IF got_end[f] THEN tx_buf[f] = all
                      ELSE /\ Len(tx_buf[f]) <= Len(all)
                           /\ tx_buf[f] = SubSeq(all, 1, Len(tx_buf[f]))
    BY <1>1, <2>1, <2>6 DEF Inv, ProcessInv
  <2>8. all = SubSeq(all, 1, Len(all)) /\ Len(all) \in Nat
    BY <2>6
  <2> QED
    BY <2>2, <2>3, <2>4, <2>6, <2>7, <2>8
<1> QED
  BY <1>1, Invariance, PTL

\* What comes next on a stream fits the place of its reader.
LEMMA HeadFits ==
  ASSUME Inv, NEW s \in Shards, pull_tx[s] # <<>>
  PROVE  Head(pull_tx[s]) \in Message /\ Fits(Head(pull_tx[s]), ReadPlace(s))
<1>1. pull_tx[s] \in Seq(Message)
  BY DEF Inv, TypeOK, QueueTypes
<1>2. Chain(s, pull_tx[s], ReadPlace(s), WritePlace(s))
  BY DEF Inv, StreamInv
<1> QED
  BY <1>1, <1>2, ChainTail

\* The leader is never out of step with its stream: HeaderAligned.
THEOREM HeadersAlign == Spec => []HeaderAligned
<1>1. ASSUME Inv PROVE HeaderAligned
  <2> SUFFICES ASSUME pull_tx[Leader] # <<>>,
                      NEW m \in Message, m = Head(pull_tx[Leader]),
                      Fits(m, ReadPlace(Leader))
               PROVE  /\ pc[Leader] = "header" => m.kind = "header"
                      /\ pc[Leader] = "process" /\ ~LoopDone(Leader)
                           => m.kind # "header"
    BY <1>1, HeadFits, LeaderIsShard DEF HeaderAligned
  <2>1. ASSUME pc[Leader] = "header" PROVE m.kind = "header"
    <3>1. ReadPlace(Leader) = <<reported[Leader] + 1, -1>>
      BY <2>1 DEF ReadPlace, Start
    <3> QED
      BY <3>1, MessageKinds DEF Fits
  <2>2. ASSUME pc[Leader] = "process", ~LoopDone(Leader) PROVE m.kind # "header"
    <3>1. ReadPlace(Leader) = <<reported[Leader] + 1, Len(tx_buf[Leader])>>
      BY <1>1, <2>2, OneEnd, LeaderIsShard DEF ReadPlace
    <3>2. Len(tx_buf[Leader]) \in Nat
      BY <1>1, LeaderIsShard DEF Inv, TypeOK, ProcessTypes
    <3> QED
      BY <3>1, <3>2 DEF Fits
  <2> QED
    BY <2>1, <2>2
<1> QED
  BY <1>1, Invariance, PTL

\* A worker that still needs something of its round finds it sent already.
THEOREM NoneStarves == Spec => []NeverStarved
<1>1. ASSUME Inv PROVE NeverStarved
  <2> SUFFICES ASSUME NEW s \in Shards, pc[s] = "process", ~LoopDone(s),
                      pull_tx[s] = <<>>
               PROVE  FALSE
    BY DEF NeverStarved
  <2>1. ReadPlace(s) = <<reported[s] + 1, Len(tx_buf[s])>>
    BY <1>1, OneEnd DEF ReadPlace
  <2>2. ReadPlace(s) = WritePlace(s)
    <3>1. Chain(s, <<>>, ReadPlace(s), WritePlace(s))
      BY <1>1 DEF Inv, StreamInv
    <3> QED
      BY <3>1, ChainEmpty
  <2>3. /\ reported[s] + 1 \in 1..Dispatched
        /\ round_number \in Nat
        /\ dispatching => Dispatched = round_number - 1
        /\ ~dispatching => Dispatched = round_number
    BY <1>1, Progress, BoundsAssumption
    DEF Inv, ProcessInv, TypeOK, AssignerTypes
  <2>4. WritePlace(s)[1] > Dispatched
    BY <2>3 DEF WritePlace, Start
  <2>5. WritePlace(s)[1] = reported[s] + 1
    BY <2>1, <2>2
  <2> QED
    BY <2>3, <2>4, <2>5
<1> QED
  BY <1>1, Invariance, PTL

\* Leader and followers are in lock step, for every number of shards.
THEOREM LockStepHolds == Spec => []LockStep
<1>1. ASSUME Inv PROVE LockStep
  <2> SUFFICES ASSUME NEW f \in Followers
               PROVE  Len(sub[f]) + Len(pull_results[f])
                        + (IF pc[f] = "process" THEN 1 ELSE 0) <= 1
    BY DEF LockStep
  <2>a. Len(<<>>) = 0 /\ Len(<<round>>) = 1
    OBVIOUS
  <2>b. Len(<<Owed(f)>>) = 1
    OBVIOUS
  <2>0. /\ sub[f] = <<>> => Len(sub[f]) = 0
        /\ sub[f] = <<round>> => Len(sub[f]) = 1
        /\ pull_results[f] = <<>> => Len(pull_results[f]) = 0
        /\ pull_results[f] = <<Owed(f)>> => Len(pull_results[f]) = 1
    BY <2>a, <2>b
  <2>1. CASE Waiting(f)
    <3>1. Len(pull_results[f]) = 0 /\ pc[f] = "sub"
      BY <2>0, <2>1 DEF Waiting
    <3>2. CASE Len(sub[f]) = 0
      BY <3>1, <3>2
    <3>3. CASE Len(sub[f]) = 1
      BY <3>1, <3>3
    <3> QED
      BY <2>0, <2>1, <3>2, <3>3 DEF Waiting
  <2>2. CASE Processing(f)
    <3>1. Len(sub[f]) = 0 /\ Len(pull_results[f]) = 0
      BY <2>0, <2>2 DEF Processing
    <3> QED
      BY <3>1
  <2>3. CASE Reported(f)
    <3>1. Len(sub[f]) = 0 /\ pc[f] = "sub"
      BY <2>0, <2>3 DEF Reported
    <3>2. CASE Len(pull_results[f]) = 0
      BY <3>1, <3>2
    <3>3. CASE Len(pull_results[f]) = 1
      BY <3>1, <3>3
    <3> QED
      BY <2>0, <2>3, <3>2, <3>3 DEF Reported
  <2> QED
    BY <1>1, <2>1, <2>2, <2>3 DEF Inv, FollowerInv
<1> QED
  BY <1>1, Invariance, PTL

-----------------------------------------------------------------------------
(***************************************************************************)
(* The refinement of BlockLog.                                             *)
(***************************************************************************)

\* Nothing has been sent of a round that opens.
LEMMA ShareOpens ==
  ASSUME Inv, NEW batch \in Batches, SendDispatchHeader(batch) PROVE Sharing(batch)'
<1>1. batch \in Seq(Tx) /\ Len(batch) \in Nat
  BY BatchIsSeq
<1>2. /\ dispatching' = TRUE /\ round_number' = round_number + 1
      /\ drain_buf' = batch
      /\ sent' = Append(sent, [s \in Shards |-> <<>>])
  BY DEF SendDispatchHeader
<1>3. sent \in Seq([Shards -> Seq(Tx)]) /\ Len(sent) = round_number
  BY DEF Inv, TypeOK, AssignerTypes
<1>4. sent'[round_number'] = [s \in Shards |-> <<>>]
  BY <1>2, <1>3
<1>5. SubSeq(batch, 0 + 1, Len(batch)) = batch /\ SubSeq(batch, 1, 0) = <<>>
  BY <1>1, SubSeqFull, SubSeqEmpty
<1>6. \A s \in Shards : sent'[round_number'][s] = Chosen(SubSeq(batch, 1, 0), Mine(s))
  BY <1>4, <1>5, ChosenEmpty
<1>7. 0 \in 0..Len(batch)
  BY <1>1
<1>. QED
  BY <1>2, <1>5, <1>6, <1>7 DEF Sharing, Mine, shard_for_tx

\* The transaction that is sent is the next of the batch, and its shard's.
LEMMA ShareGrows ==
  ASSUME Inv, NEW batch \in Batches, Sharing(batch), SendTx PROVE Sharing(batch)'
<1>1. /\ dispatching /\ dispatching' = TRUE
      /\ round_number' = round_number
      /\ drain_buf # <<>> /\ drain_buf' = Tail(drain_buf)
      /\ sent \in Seq([Shards -> Seq(Tx)]) /\ round_number \in 1..Len(sent)
  BY BoundsAssumption DEF SendTx, Inv, TypeOK, AssignerTypes
<1>k. PICK k \in 0..Len(batch) :
        /\ drain_buf = SubSeq(batch, k + 1, Len(batch))
        /\ \A s \in Shards :
             sent[round_number][s] = Chosen(SubSeq(batch, 1, k), Mine(s))
  BY DEF Sharing
<1>3. batch \in Seq(Tx) /\ Len(batch) \in Nat /\ k \in Nat
  BY BatchIsSeq
<1>4. k < Len(batch)
  BY <1>1, <1>k, <1>3, SubSeqEmpty
<1>5. k + 1 \in 1..Len(batch) /\ k + 1 \in 0..Len(batch)
  BY <1>3, <1>4
<1>6. PICK t \in Tx : t = batch[k + 1]
  BY <1>3, <1>5
<1>7. Head(drain_buf) = t /\ Tail(drain_buf) = SubSeq(batch, k + 1 + 1, Len(batch))
  BY <1>k, <1>3, <1>5, <1>6
<1>8. SubSeq(batch, 1, k) \in Seq(Tx)
      /\ SubSeq(batch, 1, k + 1) = Append(SubSeq(batch, 1, k), t)
  BY <1>3, <1>4, <1>5, <1>6
<1>9. sent' = [sent EXCEPT ![round_number][shard_for_tx(t)] = Append(@, t)]
  BY <1>7 DEF SendTx
<1>10. ASSUME NEW s \in Shards
       PROVE  sent'[round_number][s] = Chosen(SubSeq(batch, 1, k + 1), Mine(s))
  <2>1. Chosen(SubSeq(batch, 1, k + 1), Mine(s)) =
          IF t \in Mine(s) THEN Append(sent[round_number][s], t)
                           ELSE sent[round_number][s]
    <3>1. PICK p \in Seq(Tx) : p = SubSeq(batch, 1, k)
      BY <1>8
    <3>2. SubSeq(batch, 1, k + 1) = Append(p, t)
      BY <1>8, <3>1
    <3>3. sent[round_number][s] = Chosen(p, Mine(s))
      BY <1>k, <3>1
    <3>4. Chosen(Append(p, t), Mine(s)) =
            IF t \in Mine(s) THEN Append(Chosen(p, Mine(s)), t) ELSE Chosen(p, Mine(s))
      BY ChosenAppend
    <3>. QED
      BY <3>2, <3>3, <3>4
  <2>2. t \in Mine(s) <=> shard_for_tx(t) = s
    BY DEF Mine
  <2>. QED
    BY <1>1, <1>9, <2>1, <2>2
<1>11. \A s \in Shards :
         sent'[round_number'][s] = Chosen(SubSeq(batch, 1, k + 1), Mine(s))
  BY <1>1, <1>10
<1>. QED
  BY <1>1, <1>5, <1>7, <1>11 DEF Sharing, Mine, shard_for_tx

\* When nothing is left to send, each shard has all of its own.
LEMMA ShareComplete ==
  ASSUME NEW batch \in Batches, Sharing(batch), drain_buf = <<>>
  PROVE  \A s \in Shards : sent[round_number][s] = Chosen(batch, Mine(s))
<1>1. PICK k \in 0..Len(batch) :
        /\ drain_buf = SubSeq(batch, k + 1, Len(batch))
        /\ \A s \in Shards :
             sent[round_number][s] = Chosen(SubSeq(batch, 1, k), Mine(s))
  BY DEF Sharing
<1>2. batch \in Seq(Tx) /\ Len(batch) \in Nat /\ k \in Nat
  BY BatchIsSeq
<1>3. k = Len(batch)
  <2>1. Len(SubSeq(batch, k + 1, Len(batch))) = Len(batch) - k
    BY <1>2
  <2>2. Len(SubSeq(batch, k + 1, Len(batch))) = 0
    <3>1. SubSeq(batch, k + 1, Len(batch)) = <<>>
      BY <1>1
    <3>2. Len(<<>>) = 0
      OBVIOUS
    <3>. QED
      BY ONLY <3>1, <3>2, Zenon
  <2>. QED
    BY ONLY k \in 0..Len(batch), <1>2, <2>1, <2>2
<1>. QED
  BY <1>1, <1>2, <1>3, SubSeqFull

\* No other step touches a dispatch.
LEMMA ShareFrame ==
  ASSUME ShareInv, dispatching' => UNCHANGED <<dispatching, round_number, drain_buf, sent>>
  PROVE  ShareInv'
  BY DEF ShareInv, Sharing, Mine, shard_for_tx

LEMMA ShareStep == Inv /\ ShareInv /\ [Next]_vars => ShareInv'
<1>. SUFFICES ASSUME Inv, ShareInv, [Next]_vars PROVE ShareInv'
  OBVIOUS
<1>1. ASSUME NEW batch \in Batches, SendDispatchHeader(batch) PROVE ShareInv'
  <2>1. Sharing(batch)'
    BY <1>1, ShareOpens
  <2>. QED
    BY <2>1 DEF ShareInv
<1>2. CASE AssignerStep
  <2>1. CASE SendTx
    <3>1. PICK batch \in Batches : Sharing(batch)
      BY <2>1 DEF ShareInv, SendTx
    <3>2. Sharing(batch)'
      BY <2>1, <3>1, ShareGrows
    <3>. QED
      BY <3>2 DEF ShareInv
  <2>2. CASE SendRoundEnd
    BY <2>2, ShareFrame DEF SendRoundEnd
  <2>3. CASE SendDispatchDone
    BY <2>3, ShareFrame DEF SendDispatchDone
  <2>. QED
    BY <1>2, <2>1, <2>2, <2>3 DEF AssignerStep
<1>3. ASSUME UNCHANGED assignerVars PROVE ShareInv'
  BY <1>3, ShareFrame DEF assignerVars
<1>4. CASE LeaderStep
  BY <1>3, <1>4
  DEF LeaderStep, LeaderReady, RecvDispatchHeader, RecvDispatchDone,
      PublishRoundStart, RecvTx, OwnSummary, CollectSummary, FinalizeBlock
<1>5. ASSUME NEW f \in Followers, FollowerStep(f) \/ Subscribe(f) PROVE ShareInv'
  BY <1>3, <1>5 DEF FollowerStep, RecvRoundStart, RecvTx, PushSummary, Subscribe
<1>6. CASE UNCHANGED vars
  BY <1>3, <1>6 DEF vars
<1>. QED
  BY <1>1, <1>2, <1>4, <1>5, <1>6 DEF Next, Quiescent

\* At every step of a dispatch each shard has been sent, in their order, its
\* own of the part of the batch that is sent: LogInv.
THEOREM LogInvariance == Spec => []LogInv
<1>1. Init => ShareInv
  BY DEF Init, ShareInv
<1>2. LogInv /\ [Next]_vars => LogInv'
  BY InvStep, ShareStep DEF LogInv
<1>. QED
  BY <1>1, <1>2, InvInit, PTL DEF Spec, LogInv

\* BlockLog speaks of the batch's own transactions as ShareInv does.
LEMMA LogChosen ==
  ASSUME NEW batch, NEW s PROVE Log!Share(batch, s) = ShardSummary(s, Chosen(batch, Mine(s)))
<1>1. Log!Mine(s) = Mine(s)
  BY NonceAssumption DEF Log!Mine, Mine, shard_for_tx
<1>2. \A q, T : Log!Chosen(q, T) = Chosen(q, T)
  BY DEF Log!Chosen, Chosen, Log!FlattenSeq, FlattenSeq
<1>. QED
  BY <1>1, <1>2 DEF Log!Share, ShardSummary

\* A round stands in the log once it is dispatched and a block once it is
\* finalized; a step that does neither leaves the log alone.
LEMMA LogFrame ==
  ASSUME Inv, Dispatched' = Dispatched, UNCHANGED blocks,
         \A r \in 1..Dispatched : sent'[r] = sent[r]
  PROVE  UNCHANGED Log!vars
<1>1. Dispatched \in Nat
  BY Progress DEF Inv, TypeOK, AssignerTypes
<1>2. DispatchedRounds' = DispatchedRounds
  BY DEF DispatchedRounds
<1>3. BlockParts' = BlockParts
  BY DEF BlockParts
<1>. QED
  BY <1>2, <1>3 DEF Log!vars

\* SendDispatchHeader and SendTx write down what the round sends, which is not
\* dispatched yet.
LEMMA OpeningStutters ==
  ASSUME Inv, NEW batch \in Batches, SendDispatchHeader(batch)
  PROVE  UNCHANGED Log!vars
<1>1. /\ ~dispatching /\ dispatching' = TRUE
      /\ sent' = Append(sent, [s \in Shards |-> <<>>])
      /\ UNCHANGED blocks
  BY DEF SendDispatchHeader, leaderVars
<1>2. sent \in Seq([Shards -> Seq(Tx)])
  BY DEF Inv, TypeOK, AssignerTypes
<1>3. Len(sent') = Len(sent) + 1 /\ \A r \in 1..Len(sent) : sent'[r] = sent[r]
  BY <1>1, <1>2
<1>4. Len(sent) \in Nat
  BY <1>2
<1>5. Dispatched = Len(sent) /\ Dispatched' = Len(sent)
  BY <1>1, <1>3, <1>4 DEF Dispatched
<1>. QED
  BY <1>1, <1>3, <1>5, LogFrame

LEMMA SendingStutters == ASSUME Inv, SendTx PROVE UNCHANGED Log!vars
<1>1. /\ dispatching /\ UNCHANGED <<dispatching, blocks>>
      /\ sent' = [sent EXCEPT ![round_number] = sent'[round_number]]
      /\ sent \in Seq([Shards -> Seq(Tx)]) /\ Len(sent) = round_number
  BY DEF SendTx, leaderVars, Inv, TypeOK, AssignerTypes
<1>2. Len(sent') = Len(sent) /\ \A r \in 1..Len(sent) - 1 : sent'[r] = sent[r]
  <2>1. Len(sent') = round_number
    BY TxStep DEF SendTx, Inv, TypeOK, AssignerTypes
  <2>2. \A r \in 1..Len(sent) : r # round_number => sent'[r] = sent[r]
    BY <1>1
  <2>3. round_number \in Nat
    BY <1>1
  <2>. QED
    BY <1>1, <2>1, <2>2, <2>3
<1>3. Dispatched = Len(sent) - 1 /\ Dispatched' = Len(sent) - 1
  BY <1>1, <1>2 DEF Dispatched
<1>. QED
  BY <1>1, <1>2, <1>3, LogFrame

\* SendDispatchDone dispatches the whole batch: none of it is left to send.
LEMMA ClosingDispatches ==
  ASSUME Inv, ShareInv, SendDispatchDone
  PROVE  \E batch \in Batches : Log!Dispatch(batch)
<1>1. /\ dispatching /\ dispatching' = FALSE /\ UNCHANGED <<sent, blocks>>
      /\ drain_buf = <<>>
      /\ Len(sent) = round_number /\ round_number \in Nat /\ Len(sent) > 0
  BY NumShardsAssumption, BoundsAssumption
  DEF SendDispatchDone, AllEndsSent, leaderVars, Inv, AssignerInv, TypeOK, AssignerTypes
<1>2. Dispatched = Len(sent) - 1 /\ Dispatched' = Len(sent)
  BY <1>1 DEF Dispatched
<1>3. PICK batch \in Batches : Sharing(batch)
  BY <1>1 DEF ShareInv
<1>7. \A s \in Shards : sent[Len(sent)][s] = Chosen(batch, Mine(s))
  BY <1>1, <1>3, ShareComplete
<1>8. {ShardSummary(s, sent[Len(sent)][s]) : s \in Shards} = Log!Split(batch)
  BY <1>7, LogChosen DEF Log!Split, Shards
<1>9. DispatchedRounds' = Append(DispatchedRounds, Log!Split(batch))
  <2>. DEFINE n == Len(sent)
              S(r) == {ShardSummary(s, sent[r][s]) : s \in Shards}
  <2>1. DispatchedRounds = [r \in 1..n - 1 |-> S(r)]
    BY <1>2 DEF DispatchedRounds
  <2>2. DispatchedRounds' = [r \in 1..n |-> S(r)]
    BY <1>1, <1>2 DEF DispatchedRounds
  <2>3. S(n) = Log!Split(batch)
    BY <1>8
  <2>4. n \in Nat \ {0}
    BY <1>1
  <2>. HIDE DEF n, S
  <2>5. [r \in 1..n |-> S(r)] = Append([r \in 1..n - 1 |-> S(r)], S(n))
    BY <2>4
  <2>. QED
    BY <2>1, <2>2, <2>3, <2>5
<1>10. BlockParts' = BlockParts
  BY <1>1 DEF BlockParts
<1>. QED
  BY <1>9, <1>10 DEF Log!Dispatch

\* FinalizeBlock appends the summaries of the next round, one from every shard
\* and no other.
LEMMA FinalizingFinalizes ==
  ASSUME Inv, FinalizeBlock PROVE Log!Finalize
<1>1. /\ TypeOK /\ SummariesInv /\ LeaderInv /\ DoneInv
      /\ pc[Leader] = "collect" /\ UNCHANGED <<sent, dispatching>>
      /\ blocks' = Append(blocks, Block(round, summaries))
      /\ blocks \in Seq([block_number : Nat, parts : Seq(Summary)])
      /\ Block(round, summaries) \in [block_number : Nat, parts : Seq(Summary)]
  BY DEF FinalizeBlock, Inv, assignerVars, TypeOK, LeaderTypes, Block
<1>2. Len(summaries) = NumShards
  <2>1. Len(summaries) \in Nat
    BY <1>1 DEF TypeOK, LeaderTypes
  <2>. QED
    BY <1>1, <2>1, NumShardsAssumption DEF FinalizeBlock, AllCollected, SummariesInv
<1>3. Len(blocks) \in Nat /\ Len(blocks) + 1 \in 1..Dispatched /\ Dispatched \in Nat
  BY <1>1, Progress DEF Announced, TypeOK, AssignerTypes
<1>4. \A i \in 1..NumShards : /\ summaries[i].shard_id \in Shards
                              /\ summaries[i] = Owed(summaries[i].shard_id)
  BY <1>1, <1>2, SummaryShards DEF SummariesInv
<1>5. \A s \in Shards : \E i \in 1..NumShards : summaries[i].shard_id = s
  BY <1>1, <1>2, EveryoneIn DEF SummariesInv
<1>6. {summaries[i] : i \in 1..NumShards} = {Owed(s) : s \in Shards}
  BY <1>4, <1>5
<1>7. {Owed(s) : s \in Shards} = DispatchedRounds[Len(blocks) + 1]
  BY <1>3 DEF Owed, DispatchedRounds
<1>8. BlockParts' = Append(BlockParts, DispatchedRounds[Len(blocks) + 1])
  <2>. DEFINE n == Len(blocks)
              P(q, r) == {q[r].parts[i] : i \in 1..Len(q[r].parts)}
  <2>1. BlockParts = [r \in 1..n |-> P(blocks, r)]
    BY DEF BlockParts
  <2>2. Len(blocks') = n + 1 /\ \A r \in 1..n : blocks'[r] = blocks[r]
    BY <1>1
  <2>3. blocks'[n + 1] = Block(round, summaries)
    BY <1>1
  <2>4. BlockParts' = [r \in 1..n + 1 |-> P(blocks', r)]
    BY <2>2 DEF BlockParts
  <2>5. \A r \in 1..n : P(blocks', r) = P(blocks, r)
    BY <2>2
  <2>6. P(blocks', n + 1) = DispatchedRounds[n + 1]
    BY <1>2, <1>6, <1>7, <2>3, SMTT(30) DEF Block
  <2>7. n \in Nat
    BY <1>3
  <2>. HIDE DEF n, P
  <2>8. [r \in 1..n + 1 |-> P(blocks', r)] =
          Append([r \in 1..n |-> P(blocks, r)], P(blocks', n + 1))
    BY <2>5, <2>7
  <2>9. BlockParts' = Append(BlockParts, DispatchedRounds[n + 1])
    BY <2>1, <2>4, <2>6, <2>8
  <2>. QED
    BY <2>9 DEF n
<1>9. Len(BlockParts) = Len(blocks) /\ Len(DispatchedRounds) = Dispatched
  BY <1>3 DEF BlockParts, DispatchedRounds
<1>10. DispatchedRounds' = DispatchedRounds
  BY <1>1 DEF DispatchedRounds, Dispatched
<1>. QED
  BY <1>3, <1>8, <1>9, <1>10 DEF Log!Finalize

\* Every other step is one BlockLog does not see.
LEMMA LogStep == Inv /\ ShareInv /\ [Next]_vars => [Log!Next]_Log!vars
<1>. SUFFICES ASSUME Inv, ShareInv, [Next]_vars PROVE [Log!Next]_Log!vars
  OBVIOUS
<1>1. ASSUME NEW batch \in Batches, SendDispatchHeader(batch)
      PROVE  UNCHANGED Log!vars
  BY <1>1, OpeningStutters
<1>2. ASSUME UNCHANGED <<dispatching, sent, blocks>> PROVE UNCHANGED Log!vars
  BY <1>2, LogFrame DEF Dispatched
<1>3. CASE AssignerStep
  <2>1. CASE SendTx
    BY <2>1, SendingStutters
  <2>2. CASE SendRoundEnd
    BY <1>2, <2>2 DEF SendRoundEnd, leaderVars
  <2>3. CASE SendDispatchDone
    BY <2>3, ClosingDispatches DEF Log!Next
  <2>. QED
    BY <1>3, <2>1, <2>2, <2>3 DEF AssignerStep
<1>4. CASE LeaderStep
  <2>1. CASE FinalizeBlock
    BY <2>1, FinalizingFinalizes DEF Log!Next
  <2>2. CASE UNCHANGED <<assignerVars, blocks>>
    BY <1>2, <2>2 DEF assignerVars
  <2>. QED
    BY <1>4, <2>1, <2>2
    DEF LeaderStep, LeaderReady, RecvDispatchHeader, RecvDispatchDone,
        PublishRoundStart, RecvTx, OwnSummary, CollectSummary, leaderVars
<1>5. ASSUME NEW f \in Followers, FollowerStep(f) \/ Subscribe(f)
      PROVE  UNCHANGED Log!vars
  BY <1>2, <1>5
  DEF FollowerStep, RecvRoundStart, RecvTx, PushSummary, Subscribe,
      assignerVars, leaderVars
<1>6. CASE UNCHANGED vars
  BY <1>2, <1>6 DEF vars, assignerVars, leaderVars
<1>. QED
  BY <1>1, <1>3, <1>4, <1>5, <1>6 DEF Next, Quiescent

LEMMA LogInit == Init => Log!Init
<1>. SUFFICES ASSUME Init PROVE Log!Init
  OBVIOUS
<1>1. Dispatched = 0 /\ Len(blocks) = 0
  BY DEF Init, Dispatched
<1>. QED
  BY <1>1 DEF Log!Init, DispatchedRounds, BlockParts

\* The round protocol implements the block log for every number of shards: a
\* batch is dispatched whole and split by nonce in its order, and the batches
\* become blocks in the order of their dispatch, each once.
THEOREM BlockLogImplemented == Spec => Log!SafeSpec
<1>1. LogInv /\ [Next]_vars => [Log!Next]_Log!vars
  BY LogStep DEF LogInv
<1>. QED
  BY <1>1, LogInit, LogInvariance, PTL DEF Spec, Log!SafeSpec
=============================================================================

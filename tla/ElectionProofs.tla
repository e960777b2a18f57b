---------------------------- MODULE ElectionProofs ----------------------------
(***************************************************************************)
(* The election is right for any number of nodes and any positive stakes:  *)
(* no node wins twice, and at the end every node has one shard.            *)
(***************************************************************************)
EXTENDS Election, FoldLemmas, FiniteSetTheorems, TLAPS

\* The sums are those of the stakes, which are positive numbers.
LEMMA WeightType ==
  ASSUME TypeOK, NEW k \in Nodes
  PROVE  /\ stake[k] \in Nat /\ stake[k] > 0
         /\ Weight(k) \in Nat
         /\ used[k] => Weight(k) = 0
         /\ ~used[k] => Weight(k) = stake[k]
<1>1. stake[k] \in Stakes /\ used[k] \in BOOLEAN
  BY DEF TypeOK
<1>2. stake[k] \in Nat /\ stake[k] > 0
  BY <1>1, StakesAssumption
<1> QED
  BY <1>2 DEF Weight

LEMMA NodesFinite == IsFiniteSet(Nodes) /\ Cardinality(Nodes) = NumNodes
<1>1. NumNodes \in Nat /\ NumNodes > 0
  BY NumNodesAssumption
<1> QED
  BY <1>1, FS_Interval DEF Nodes

\* The winners as a function, an injection of the shards into the nodes.
LEMMA WinnersInject ==
  ASSUME TypeOK, DistinctWinners
  PROVE  /\ Len(winners) \in Nat
         /\ winners \in Injection(1..Len(winners), Nodes)
         /\ Cardinality(1..Len(winners)) = Len(winners)
<1>1. winners \in Seq(Nodes)
  BY DEF TypeOK
<1>2. Len(winners) \in Nat /\ winners \in [1..Len(winners) -> Nodes]
  BY <1>1
<1>3. winners \in Injection(1..Len(winners), Nodes)
  BY <1>2 DEF DistinctWinners, Injection, IsInjective
<1> QED
  BY <1>2, <1>3, FS_Interval, SMTT(30)

\* When every shard is decided, every node has won.
LEMMA EveryoneWins ==
  ASSUME TypeOK, DistinctWinners, Len(winners) = NumNodes
  PROVE  \A k \in Nodes : Won(k)
<1>1. winners \in Surjection(1..NumNodes, Nodes)
  BY WinnersInject, NodesFinite, FS_Injection
<1> QED
  BY <1>1 DEF Surjection, Won

\* Before that, some node has not.
LEMMA SomeoneFree ==
  ASSUME TypeOK, DistinctWinners, MarksMatch, Len(winners) < NumNodes
  PROVE  \E k \in Nodes : ~used[k]
<1>1. winners \notin Surjection(1..Len(winners), Nodes)
  BY WinnersInject, NodesFinite, FS_Injection, NumNodesAssumption
<1>2. winners \in [1..Len(winners) -> Nodes]
  BY WinnersInject DEF Injection
<1>3. PICK k \in Nodes : \A i \in 1..Len(winners) : winners[i] # k
  BY <1>1, <1>2 DEF Surjection
<1>4. ~Won(k)
  BY <1>3 DEF Won
<1> QED
  BY <1>3, <1>4 DEF MarksMatch

-----------------------------------------------------------------------------
LEMMA InvInit == ASSUME Init PROVE Inv
<1>1. TypeOK
  <2>1. 0 \in Nodes
    BY NumNodesAssumption DEF Nodes
  <2>2. <<>> \in Seq(Nodes)
    OBVIOUS
  <2>3. -1 \in -1 .. NumNodes - 1
    BY NumNodesAssumption
  <2> QED
    BY <2>1, <2>2, <2>3, NumNodesAssumption DEF Init, TypeOK
<1>2. winners = <<>> /\ pc = "idle" /\ used = [k \in Nodes |-> FALSE]
      /\ upto[0] = 0
  BY NumNodesAssumption DEF Init
<1> QED
  BY <1>1, <1>2
  DEF Inv, DistinctWinners, MarksMatch, Won, ShardsMatch, ShardsLeft, TotalLoop,
      ScanLoop, FreshWinner

\* An election starts: nobody has won.
LEMMA BeginStep == ASSUME Inv, Begin PROVE Inv'
<1>1. TypeOK'
  <2>1. <<>> \in Seq(Nodes)
    OBVIOUS
  <2>2. -1 \in -1 .. NumNodes - 1 /\ 0 \in 0..NumNodes
    BY NumNodesAssumption
  <2> QED
    BY <2>1, <2>2 DEF Inv, TypeOK, Begin, drawVars
<1>2. /\ winners' = <<>> /\ pc' = "total" /\ n' = 0 /\ total_stake' = 0
      /\ used' = [k \in Nodes |-> FALSE]
      /\ upto' = upto /\ upto[0] = 0
  BY DEF Begin, Inv
<1>3. DistinctWinners' /\ MarksMatch' /\ ShardsMatch' /\ ShardsLeft'
  BY <1>2, NumNodesAssumption
  DEF DistinctWinners, MarksMatch, Won, ShardsMatch, ShardsLeft
<1>4. TotalLoop'
  BY <1>2 DEF TotalLoop, SumsUpto
<1>5. ScanLoop' /\ FreshWinner'
  BY <1>2 DEF ScanLoop, FreshWinner
<1> QED
  BY <1>1, <1>2, <1>3, <1>4, <1>5 DEF Inv

\* Who has won does not change while the next winner is looked for.
LEMMA WinnersFrame ==
  ASSUME DistinctWinners, MarksMatch, ShardsMatch, ShardsLeft,
         UNCHANGED <<shard_id, role, used, winners>>,
         \/ pc' = pc
         \/ pc \in {"total", "scan"} /\ pc' \in {"scan", "assign"}
         \/ pc = "elected" /\ pc' = "idle"
  PROVE  DistinctWinners' /\ MarksMatch' /\ ShardsMatch' /\ ShardsLeft'
<1>1. DistinctWinners' /\ MarksMatch' /\ ShardsMatch'
  BY DEF DistinctWinners, MarksMatch, Won, ShardsMatch
<1>2. ShardsLeft'
  BY DEF ShardsLeft
<1> QED
  BY <1>1, <1>2

\* The first loop visits a node.
LEMMA AddStakeStep == ASSUME Inv, AddStake PROVE Inv'
<1>0. /\ TypeOK /\ pc = "total" /\ pc' = pc /\ n \in Nodes /\ n' = n + 1
      /\ n \in Nat /\ n < NumNodes /\ n' \in 0..NumNodes
      /\ total_stake' = total_stake + Weight(n)
      /\ upto' = [upto EXCEPT ![n + 1] = total_stake']
      /\ UNCHANGED <<stake, shard_id, role, used, winners, drawVars>>
      /\ upto \in [0..NumNodes -> Nat]
  BY NumNodesAssumption, SMTT(30)
  DEF AddStake, NextNode, Inv, TypeOK, Nodes, nodeVars
<1>1. Weight(n) \in Nat /\ total_stake' \in Nat
  <2>1. Weight(n) \in Nat
    BY <1>0, WeightType
  <2>2. total_stake \in Nat
    BY <1>0 DEF TypeOK
  <2> QED
    BY <1>0, <2>1, <2>2
<1>2. TypeOK'
  <2>1. upto' \in [0..NumNodes -> Nat]
    BY <1>0, <1>1
  <2> QED
    BY <1>0, <1>1, <2>1 DEF TypeOK, drawVars
<1>3. DistinctWinners' /\ MarksMatch' /\ ShardsMatch' /\ ShardsLeft'
  BY <1>0, WinnersFrame DEF Inv
<1>4. /\ upto'[n + 1] = total_stake + Weight(n)
      /\ \A k \in 0..n : upto'[k] = upto[k]
  BY <1>0, NumNodesAssumption
<1>5. TotalLoop'
  <2>1. SumsUpto(n) /\ total_stake = upto[n]
        /\ ((\E k \in 0 .. n - 1 : ~used[k]) => total_stake > 0)
    BY <1>0 DEF Inv, TotalLoop
  <2>2. upto'[0] = 0
    BY <1>0, <1>4, <2>1 DEF SumsUpto
  <2>3. ASSUME NEW k \in 0..n
        PROVE  upto'[k + 1] = upto'[k] + Weight(k)
    <3>1. CASE k = n
      BY <3>1, <1>0, <1>4, <2>1
    <3>2. CASE k # n
      <4>1. k \in 0 .. n - 1 /\ k + 1 \in 0..n
        BY <3>2, <1>0
      <4>2. upto[k + 1] = upto[k] + Weight(k)
        BY <4>1, <2>1 DEF SumsUpto
      <4> QED
        BY <4>1, <4>2, <1>4
    <3> QED
      BY <3>1, <3>2
  <2>4. \A k \in 0..n : Weight(k)' = Weight(k)
    BY <1>0 DEF Weight
  <2>5. SumsUpto(n)'
    BY <2>2, <2>3, <2>4, <1>0 DEF SumsUpto
  <2>6. ASSUME NEW k \in 0..n, ~used[k]
        PROVE  total_stake' > 0
    <3>0. total_stake \in Nat
      BY <1>0 DEF TypeOK
    <3>1. CASE k = n
      BY <3>0, <3>1, <2>6, <1>0, WeightType
    <3>2. CASE k # n
      <4>1. k \in 0 .. n - 1
        BY <3>2, <1>0
      <4>2. total_stake > 0
        BY <4>1, <2>6, <2>1
      <4> QED
        BY <4>2, <3>0, <1>0, <1>1
    <3> QED
      BY <3>1, <3>2
  <2>7. total_stake' = upto'[n']
    BY <1>0, <1>4
  <2>8. (\E k \in 0 .. n' - 1 : ~used'[k]) => total_stake' > 0
    BY <2>6, <1>0
  <2> QED
    BY <2>5, <2>7, <2>8 DEF TotalLoop
<1>6. ScanLoop' /\ FreshWinner'
  BY <1>0 DEF ScanLoop, FreshWinner
<1>7. upto'[0] = 0
  BY <1>0, <1>4 DEF Inv
<1> QED
  BY <1>2, <1>3, <1>5, <1>6, <1>7 DEF Inv

\* A number is drawn below the sum: some node is free, so there is a sum.
LEMMA DrawStep == ASSUME Inv, Draw PROVE Inv'
<1>0. /\ TypeOK /\ pc = "total" /\ pc' = "scan" /\ n = NumNodes /\ n' = 0
      /\ NumNodes \in Nat /\ NumNodes > 0
      /\ pick' \in Draws(total_stake) /\ cumulative' = 0 /\ winner_idx' = 0
      /\ UNCHANGED <<stake, shard_id, role, used, winners, total_stake, upto>>
  BY NumNodesAssumption DEF Draw, Inv, TypeOK, nodeVars
<1>1. total_stake \in Nat /\ total_stake > 0
  <2>1. total_stake \in Nat
    BY <1>0 DEF TypeOK
  <2>2. PICK k \in Nodes : ~used[k]
    BY <1>0, SomeoneFree DEF Inv, ShardsLeft
  <2>3. k \in 0 .. n - 1
    BY <1>0 DEF Nodes
  <2> QED
    BY <1>0, <2>1, <2>2, <2>3 DEF Inv, TotalLoop
<1>2. pick' \in Nat /\ pick' < total_stake
  BY <1>0, <1>1 DEF Draws
<1>3. TypeOK'
  <2>1. 0 \in Nodes /\ 0 \in 0..NumNodes
    BY <1>0 DEF Nodes
  <2> QED
    BY <1>0, <1>2, <2>1 DEF TypeOK
<1>4. DistinctWinners' /\ MarksMatch' /\ ShardsMatch' /\ ShardsLeft'
  BY <1>0, WinnersFrame DEF Inv
<1>5. ScanLoop'
  <2>1. SumsUpto(NumNodes) /\ total_stake = upto[NumNodes] /\ upto[0] = 0
    BY <1>0 DEF Inv, TotalLoop
  <2>2. SumsUpto(NumNodes)'
    BY <2>1, <1>0 DEF SumsUpto, Weight
  <2>3. pick' >= 0
    BY <1>2
  <2> QED
    BY <1>0, <1>1, <1>2, <2>1, <2>2, <2>3 DEF ScanLoop
<1>6. TotalLoop' /\ FreshWinner'
  BY <1>0 DEF TotalLoop, FreshWinner
<1>7. upto'[0] = 0
  BY <1>0 DEF Inv
<1> QED
  BY <1>3, <1>4, <1>5, <1>6, <1>7 DEF Inv

\* The second loop: it repeats the sums of the first, so it ends in a hit and
\* never falls back on node 0.
LEMMA ScanStep == ASSUME Inv, Scan PROVE Inv'
<1>0. /\ TypeOK /\ pc = "scan" /\ n \in 0..NumNodes
      /\ NumNodes \in Nat /\ NumNodes > 0
      /\ cumulative \in Nat /\ pick \in Nat
      /\ SumsUpto(NumNodes) /\ upto[NumNodes] > pick
      /\ cumulative = upto[n] /\ cumulative <= pick
      /\ UNCHANGED <<stake, shard_id, role, used, winners, total_stake, pick, upto>>
  BY NumNodesAssumption DEF Scan, Inv, TypeOK, ScanLoop, nodeVars
<1>1. n \in Nodes /\ n < NumNodes /\ n + 1 \in 0..NumNodes
  <2>1. n # NumNodes
    BY <1>0
  <2> QED
    BY <1>0, <2>1 DEF Nodes
<1>2. upto[n + 1] = upto[n] + Weight(n)
  BY <1>0, <1>1 DEF SumsUpto, Nodes
<1>3. /\ stake[n] \in Nat
      /\ used[n] => Weight(n) = 0
      /\ ~used[n] => Weight(n) = stake[n]
  BY <1>0, <1>1, WeightType
<1>4. /\ cumulative' = upto[n + 1]
      /\ cumulative' \in Nat
  BY <1>0, <1>1, <1>2, <1>3 DEF Scan
<1>5. SumsUpto(NumNodes)'
  BY <1>0 DEF SumsUpto, Weight
<1>6. CASE ~used[n] /\ Reaches(cumulative + stake[n])
  <2>1. pc' = "assign" /\ n' = n /\ winner_idx' = n
    BY <1>6, <1>1 DEF Scan
  <2>2. TypeOK'
    BY <1>0, <1>1, <1>4, <2>1 DEF TypeOK
  <2>3. FreshWinner'
    <3>1. cumulative + stake[n] > pick
      BY <1>6 DEF Reaches
    <3> QED
      BY <1>0, <1>5, <1>6, <2>1, <3>1 DEF FreshWinner
  <2>4. TotalLoop' /\ ScanLoop'
    BY <2>1 DEF TotalLoop, ScanLoop
  <2>5. DistinctWinners' /\ MarksMatch' /\ ShardsMatch' /\ ShardsLeft'
    BY <1>0, <2>1, WinnersFrame DEF Inv
  <2> QED
    BY <1>0, <2>2, <2>3, <2>4, <2>5 DEF Inv
<1>7. CASE ~(~used[n] /\ Reaches(cumulative + stake[n]))
  <2>1. pc' = "scan" /\ n' = n + 1 /\ winner_idx' = winner_idx
    BY <1>7, <1>1, <1>0 DEF Scan, NextNode
  <2>2. TypeOK'
    BY <1>0, <1>1, <1>4, <2>1 DEF TypeOK
  <2>3. cumulative' <= pick
    <3>1. CASE used[n]
      BY <3>1, <1>0, <1>2, <1>3, <1>4
    <3>2. CASE ~used[n]
      <4>1. ~(cumulative + stake[n] > pick)
        BY <3>2, <1>7 DEF Reaches
      <4>2. cumulative' = cumulative + stake[n]
        BY <3>2, <1>0, <1>2, <1>3, <1>4
      <4> QED
        BY <4>1, <4>2, <1>0, <1>3
    <3> QED
      BY <3>1, <3>2
  <2>4. ScanLoop'
    BY <1>0, <1>4, <1>5, <2>1, <2>3 DEF ScanLoop
  <2>5. TotalLoop' /\ FreshWinner'
    BY <2>1 DEF TotalLoop, FreshWinner
  <2>6. DistinctWinners' /\ MarksMatch' /\ ShardsMatch' /\ ShardsLeft'
    BY <1>0, <2>1, WinnersFrame DEF Inv
  <2> QED
    BY <1>0, <2>2, <2>4, <2>5, <2>6 DEF Inv
<1> QED
  BY <1>6, <1>7

\* The winner gets the shard; it was free, so it wins its only one.
LEMMA AssignStep == ASSUME Inv, Assign PROVE Inv'
<1>0. /\ TypeOK /\ pc = "assign" /\ winner_idx \in Nodes /\ ~used[winner_idx]
      /\ NumNodes \in Nat /\ NumNodes > 0
      /\ winners \in Seq(Nodes) /\ Len(winners) < NumNodes
      /\ used \in [Nodes -> BOOLEAN]
      /\ shard_id \in [Nodes -> -1 .. NumNodes - 1]
      /\ role \in [Nodes -> {"VALIDATOR", "WINNER"}]
      /\ used' = [used EXCEPT ![winner_idx] = TRUE]
      /\ shard_id' = [shard_id EXCEPT ![winner_idx] = Len(winners)]
      /\ role' = [role EXCEPT ![winner_idx] = "WINNER"]
      /\ winners' = Append(winners, winner_idx)
      /\ total_stake' = 0 /\ n' = 0
      /\ pc' = IF Len(winners') < NumNodes THEN "total" ELSE "elected"
      /\ UNCHANGED <<stake, pick, cumulative, winner_idx, upto>>
      /\ DistinctWinners /\ MarksMatch /\ ShardsMatch /\ upto[0] = 0
  <2>1. /\ pc = "assign" /\ winners' = Append(winners, winner_idx)
        /\ used' = [used EXCEPT ![winner_idx] = TRUE]
        /\ shard_id' = [shard_id EXCEPT ![winner_idx] = Len(winners)]
        /\ role' = [role EXCEPT ![winner_idx] = "WINNER"]
        /\ total_stake' = 0 /\ n' = 0
        /\ pc' = IF Len(winners') < NumNodes THEN "total" ELSE "elected"
        /\ UNCHANGED <<stake, pick, cumulative, winner_idx, upto>>
    BY DEF Assign, Mark, Shard, drawVars
  <2>2. Len(winners) < NumNodes /\ ~used[winner_idx]
    BY <2>1 DEF Inv, ShardsLeft, FreshWinner
  <2>3. /\ winner_idx \in Nodes /\ winners \in Seq(Nodes)
        /\ used \in [Nodes -> BOOLEAN]
        /\ shard_id \in [Nodes -> -1 .. NumNodes - 1]
        /\ role \in [Nodes -> {"VALIDATOR", "WINNER"}]
    BY DEF Inv, TypeOK
  <2>4. TypeOK /\ DistinctWinners /\ MarksMatch /\ ShardsMatch /\ upto[0] = 0
    BY DEF Inv
  <2>5. NumNodes \in Nat /\ NumNodes > 0
    BY NumNodesAssumption
  <2> QED
    BY <2>1, <2>2, <2>3, <2>4, <2>5
<1>1. /\ Len(winners) \in Nat
      /\ Len(winners') = Len(winners) + 1
      /\ winners'[Len(winners) + 1] = winner_idx
      /\ \A i \in 1..Len(winners) : winners'[i] = winners[i]
      /\ \A i \in 1..Len(winners) : winners[i] \in Nodes
      /\ winners' \in Seq(Nodes)
  BY <1>0
<1>2. \A i \in 1..Len(winners) : winners[i] # winner_idx
  BY <1>0 DEF MarksMatch, Won
<1>3. TypeOK'
  <2>1. Len(winners) \in -1 .. NumNodes - 1 /\ 0 \in 0..NumNodes
    BY <1>0, <1>1
  <2>2. shard_id' \in [Nodes -> -1 .. NumNodes - 1]
    BY <1>0, <2>1
  <2>3. role' \in [Nodes -> {"VALIDATOR", "WINNER"}]
        /\ used' \in [Nodes -> BOOLEAN]
    BY <1>0
  <2>4. pc' \in {"total", "elected"}
    BY <1>0
  <2> QED
    BY <1>0, <1>1, <2>1, <2>2, <2>3, <2>4 DEF TypeOK
<1>4. DistinctWinners'
  <2> SUFFICES ASSUME NEW i \in 1..Len(winners'), NEW j \in 1..Len(winners'),
                      winners'[i] = winners'[j]
               PROVE  i = j
    BY DEF DistinctWinners
  <2>1. i \in 1..Len(winners) \/ i = Len(winners) + 1
    BY <1>1
  <2>2. j \in 1..Len(winners) \/ j = Len(winners) + 1
    BY <1>1
  <2>3. CASE i \in 1..Len(winners) /\ j \in 1..Len(winners)
    BY <2>3, <1>0, <1>1 DEF DistinctWinners
  <2> QED
    BY <2>1, <2>2, <2>3, <1>1, <1>2
<1>5. MarksMatch'
  <2> SUFFICES ASSUME NEW k \in Nodes
               PROVE  used'[k] <=> \E i \in 1..Len(winners') : winners'[i] = k
    BY DEF MarksMatch, Won
  <2>1. CASE k = winner_idx
    <3>1. Len(winners) + 1 \in 1..Len(winners')
      BY <1>1
    <3> QED
      BY <2>1, <3>1, <1>0, <1>1
  <2>2. CASE k # winner_idx
    <3>1. used'[k] <=> used[k]
      BY <2>2, <1>0
    <3>2. used[k] <=> \E i \in 1..Len(winners) : winners[i] = k
      BY <1>0 DEF MarksMatch, Won
    <3>3. \A i \in 1..Len(winners') :
            i \in 1..Len(winners) \/ winners'[i] = winner_idx
      BY <1>1
    <3>4. \A i \in 1..Len(winners) : i \in 1..Len(winners')
      BY <1>1
    <3> QED
      BY <2>2, <3>1, <3>2, <3>3, <3>4, <1>1
  <2> QED
    BY <2>1, <2>2
<1>6. ShardsMatch'
  <2> SUFFICES ASSUME NEW i \in 1..Len(winners')
               PROVE  /\ shard_id'[winners'[i]] = i - 1
                      /\ role'[winners'[i]] = "WINNER"
    BY DEF ShardsMatch
  <2>1. CASE i \in 1..Len(winners)
    <3>1. winners'[i] = winners[i] /\ winners[i] \in Nodes /\ winners[i] # winner_idx
      BY <2>1, <1>1, <1>2
    <3>2. shard_id[winners[i]] = i - 1 /\ role[winners[i]] = "WINNER"
      BY <2>1, <1>0 DEF ShardsMatch
    <3> QED
      BY <3>1, <3>2, <1>0
  <2>2. CASE i = Len(winners) + 1
    BY <2>2, <1>0, <1>1
  <2> QED
    BY <2>1, <2>2, <1>1
<1>7. ShardsLeft'
  <2>1. CASE Len(winners') < NumNodes
    BY <2>1, <1>0 DEF ShardsLeft
  <2>2. CASE ~(Len(winners') < NumNodes)
    <3>1. Len(winners') = NumNodes
      BY <2>2, <1>0, <1>1
    <3> QED
      BY <2>2, <3>1, <1>0 DEF ShardsLeft
  <2> QED
    BY <2>1, <2>2
<1>8. TotalLoop'
  BY <1>0 DEF TotalLoop, SumsUpto
<1>9. ScanLoop' /\ FreshWinner'
  BY <1>0 DEF ScanLoop, FreshWinner
<1> QED
  BY <1>0, <1>3, <1>4, <1>5, <1>6, <1>7, <1>8, <1>9 DEF Inv

\* The dispatch that follows touches nothing of the election.
LEMMA FinishStep == ASSUME Inv, Finish PROVE Inv'
<1>0. /\ pc = "elected" /\ pc' = "idle"
      /\ UNCHANGED <<nodeVars, used, winners, n, total_stake, drawVars, upto>>
  BY DEF Finish
<1>1. TypeOK'
  BY <1>0 DEF Inv, TypeOK, nodeVars, drawVars
<1>2. DistinctWinners' /\ MarksMatch' /\ ShardsMatch' /\ ShardsLeft'
  BY <1>0, WinnersFrame DEF Inv, nodeVars
<1>3. TotalLoop' /\ ScanLoop' /\ FreshWinner'
  BY <1>0 DEF TotalLoop, ScanLoop, FreshWinner
<1> QED
  BY <1>0, <1>1, <1>2, <1>3 DEF Inv

LEMMA InvStep == ASSUME Inv, [Next]_vars PROVE Inv'
<1>1. CASE Begin
  BY <1>1, BeginStep
<1>2. CASE Election
  BY <1>2, AddStakeStep, DrawStep, ScanStep, AssignStep DEF Election
<1>3. CASE Finish
  BY <1>3, FinishStep
<1>4. CASE UNCHANGED vars
  <2>1. UNCHANGED <<stake, shard_id, role, pc, used, winners, n, total_stake,
                    pick, cumulative, winner_idx, upto>>
    BY <1>4 DEF vars, nodeVars, drawVars
  <2>2. TypeOK'
    BY <2>1 DEF Inv, TypeOK
  <2>3. DistinctWinners' /\ MarksMatch' /\ ShardsMatch' /\ ShardsLeft'
    BY <2>1, WinnersFrame DEF Inv
  <2>4. TotalLoop' /\ ScanLoop' /\ FreshWinner'
    BY <2>1 DEF Inv, TotalLoop, ScanLoop, FreshWinner, SumsUpto, Weight
  <2> QED
    BY <2>1, <2>2, <2>3, <2>4 DEF Inv
<1> QED
  BY <1>1, <1>2, <1>3, <1>4 DEF Next

-----------------------------------------------------------------------------
\* The sums of the two loops, the marks and the shards assigned stay in step
\* (elect_winners, src/src/election.c).
THEOREM Invariance == Spec => []Inv
<1> QED
  BY InvInit, InvStep, PTL DEF Spec

\* No node wins two shards, whatever the stakes: the fallback on node 0 in
\* elect_winners (src/src/election.c) is never taken.
THEOREM WinnersAreDistinct == Spec => []DistinctWinners
<1>1. Inv => DistinctWinners
  BY DEF Inv
<1> QED
  BY <1>1, Invariance, PTL

\* At the end of elect_winners nodes and shards correspond one to one.
THEOREM EveryNodeHasAShard == Spec => []OneNodePerShard
<1>1. ASSUME Inv PROVE OneNodePerShard
  <2> SUFFICES ASSUME pc = "elected"
               PROVE  /\ IsInjective(shard_id)
                      /\ \A k \in Nodes : /\ role[k] = "WINNER"
                                          /\ winners[shard_id[k] + 1] = k
    BY DEF OneNodePerShard
  <2>1. /\ TypeOK /\ DistinctWinners /\ ShardsMatch
        /\ Len(winners) = NumNodes
    BY <1>1 DEF Inv, ShardsLeft
  <2>2. ASSUME NEW k \in Nodes
        PROVE  role[k] = "WINNER" /\ winners[shard_id[k] + 1] = k
    <3>1. PICK i \in 1..Len(winners) : winners[i] = k
      BY <2>1, EveryoneWins DEF Won
    <3>2. shard_id[k] = i - 1 /\ role[k] = "WINNER"
      BY <3>1, <2>1 DEF ShardsMatch
    <3>3. shard_id[k] + 1 = i
      BY <3>2, <2>1, NumNodesAssumption
    <3> QED
      BY <3>1, <3>2, <3>3
  <2>3. DOMAIN shard_id = Nodes
    BY <2>1 DEF TypeOK
  <2>4. IsInjective(shard_id)
    BY <2>2, <2>3 DEF IsInjective
  <2> QED
    BY <2>2, <2>4
<1> QED
  BY <1>1, Invariance, PTL

\* The sums of the first loop are the stakes of the unused nodes below.
LEMMA BelowIsUpto ==
  ASSUME TypeOK, SumsUpto(NumNodes)
  PROVE  \A k \in Nodes : Below(k) = upto[k]
<1>. DEFINE P == {k \in Nat : k < NumNodes => Below(k) = upto[k]}
<1>1. 0 \in P
  <2>1. IsFiniteSet({}) /\ [j \in {} |-> Weight(j)] \in [{} -> Int]
    BY FS_EmptySet
  <2>2. SumFunctionOnSet([j \in {} |-> Weight(j)], {}) = 0
    BY <2>1, SumZero
  <2>3. 0 .. 0 - 1 = {}
    OBVIOUS
  <2>4. Below(0) = 0
    BY <2>2, <2>3 DEF Below
  <2>. QED
    BY <2>4 DEF SumsUpto
<1>2. ASSUME NEW k \in Nat, k \in P PROVE k + 1 \in P
  <2>. SUFFICES ASSUME k + 1 < NumNodes PROVE Below(k + 1) = upto[k + 1]
    OBVIOUS
  <2>. DEFINE S == 0..k
              f == [j \in 0..k |-> Weight(j)]
              h == [j \in 0 .. k - 1 |-> Weight(j)]
  <2>0. NumNodes \in Nat
    BY NumNodesAssumption
  <2>1. k \in 0 .. NumNodes - 1 /\ Below(k) = upto[k]
    BY <1>2, <2>0
  <2>2. upto[k + 1] = upto[k] + Weight(k)
    BY <2>1 DEF SumsUpto
  <2>3. \A j \in 0..k : Weight(j) \in Int
    BY <2>0, WeightType DEF Nodes
  <2>4. /\ IsFiniteSet(S) /\ f \in [S -> Int] /\ k \in S
        /\ \A y \in S \ {k} : h[y] = f[y]
        /\ f[k] = Weight(k) /\ S \ {k} = 0 .. k - 1
    <3>1. IsFiniteSet(S)
      BY FS_Interval
    <3>2. f \in [S -> Int] /\ k \in S /\ f[k] = Weight(k)
      BY <2>3
    <3>3. S \ {k} = 0 .. k - 1
      OBVIOUS
    <3>4. \A y \in S \ {k} : h[y] = f[y]
      BY <3>3
    <3>. QED
      BY <3>1, <3>2, <3>3, <3>4
  <2>. HIDE DEF P, S, f, h
  <2>5. SumFunctionOnSet(f, S) = f[k] + SumFunctionOnSet(h, S \ {k})
    BY <2>4, SumRemove
  <2>6. Below(k) = SumFunctionOnSet(h, S \ {k})
    BY <2>4 DEF Below, h
  <2>7. (k + 1) - 1 = k
    OBVIOUS
  <2>8. Below(k + 1) = SumFunctionOnSet(f, S)
    BY <2>7 DEF Below, f, S
  <2>9. Weight(k) \in Int /\ upto[k] \in Nat
    <3>1. k \in 0..NumNodes /\ k \in 0..k
      BY <2>0, <2>1
    <3>2. upto \in [0..NumNodes -> Nat]
      BY DEF TypeOK
    <3>. QED
      BY <2>3, <3>1, <3>2
  <2>10. Below(k + 1) = Weight(k) + Below(k)
    BY <2>4, <2>5, <2>6, <2>8
  <2>. QED
    BY <2>1, <2>2, <2>9, <2>10
<1>3. Nat \subseteq P
  <2>. HIDE DEF P
  <2>. QED
    BY <1>1, <1>2, Induction
<1>. QED
  BY <1>3, NumNodesAssumption DEF Nodes

\* A node wins on exactly the numbers that fall in its share of the stakes of
\* the nodes without a shard (election.c:30): StakeWeighted.
THEOREM WinsByStake == Spec => []StakeWeighted
<1>1. ASSUME Inv PROVE StakeWeighted
  <2>. SUFFICES ASSUME pc = "assign" PROVE StakeWeighted
    BY DEF StakeWeighted
  <2>1. /\ ~used[winner_idx] /\ SumsUpto(NumNodes)
        /\ upto[winner_idx] <= pick
        /\ pick < upto[winner_idx] + stake[winner_idx]
        /\ winner_idx \in Nodes /\ TypeOK
    BY <1>1 DEF Inv, FreshWinner, TypeOK
  <2>2. Below(winner_idx) = upto[winner_idx]
    BY <2>1, BelowIsUpto
  <2>3. upto[winner_idx] \in Nat /\ pick \in Nat /\ stake[winner_idx] \in Nat
    <3>1. winner_idx \in 0..NumNodes
      BY <2>1, NumNodesAssumption DEF Nodes
    <3>. QED
      BY <2>1, <3>1, WeightType DEF TypeOK
  <2>. QED
    BY <2>1, <2>2, <2>3 DEF StakeWeighted
<1>. QED
  BY <1>1, Invariance, PTL
=============================================================================

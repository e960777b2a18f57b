------------------------------- MODULE Election -------------------------------
(***************************************************************************)
(* The stake-weighted election before every dispatch (elect_winners in     *)
(* src/src/election.c, called by run_election_and_dispatch in              *)
(* src/src/receiver.c with as many shards as nodes): for one shard after   *)
(* another it sums the stakes of the nodes not used yet, draws a number    *)
(* below the sum, and walks the nodes again until their stakes exceed it.  *)
(***************************************************************************)
EXTENDS Integers, Sequences, Functions

CONSTANTS
    NumNodes,         \* g_num_shards: the number of nodes and of shards
    Stakes            \* the stakes setup_nodes may draw: 100..999 in the code

ASSUME NumNodesAssumption == NumNodes \in Nat \ {0}
ASSUME StakesAssumption == Stakes \subseteq Nat \ {0}

Nodes == 0 .. NumNodes - 1

VARIABLES
    stake,            \* nodes[n]->stake
    shard_id,         \* nodes[n]->shard_id
    role,             \* nodes[n]->role
    pc,               \* where elect_winners is
    used,             \* its locals
    winners,
    n,
    total_stake,
    pick,
    cumulative,
    winner_idx,
    upto              \* history: total_stake after each number of nodes

nodeVars == <<stake, shard_id, role>>
drawVars == <<pick, cumulative, winner_idx>>
vars == <<nodeVars, pc, used, winners, n, total_stake, drawVars, upto>>

-----------------------------------------------------------------------------
(***************************************************************************)
(* Seeded faults, substituted one at a time to show that a property fails. *)
(***************************************************************************)
FaultyDraws(total) == 0 .. total
FaultyReaches(sum) == sum >= pick
FaultyMark(w) == used
FaultyShard == Len(winners) + 1
FaultyNextNode == IF n < NumNodes /\ used[n] THEN n ELSE n + 1

-----------------------------------------------------------------------------
\* What rand() % total_stake can give; 0 when there is nothing to draw from.
Draws(total) == IF total > 0 THEN 0 .. total - 1 ELSE {0}

Reaches(sum) == sum > pick

Mark(w) == [used EXCEPT ![w] = TRUE]

\* The shard being decided, the loop variable s.
Shard == Len(winners)

NextNode == n + 1

Weight(k) == IF used[k] THEN 0 ELSE stake[k]

\* run_election_and_dispatch forgets the last election; elect_winners starts.
Begin ==
    /\ pc = "idle"
    /\ shard_id' = [k \in Nodes |-> -1]
    /\ role' = [k \in Nodes |-> "VALIDATOR"]
    /\ used' = [k \in Nodes |-> FALSE]
    /\ winners' = <<>>
    /\ total_stake' = 0
    /\ n' = 0
    /\ pc' = "total"
    /\ UNCHANGED <<stake, drawVars, upto>>

\* The first loop over the nodes.
AddStake ==
    /\ pc = "total"
    /\ n < NumNodes
    /\ total_stake' = total_stake + Weight(n)
    /\ n' = NextNode
    /\ upto' = [upto EXCEPT ![n + 1] = total_stake']
    /\ UNCHANGED <<nodeVars, pc, used, winners, drawVars>>

Draw ==
    /\ pc = "total"
    /\ n >= NumNodes
    /\ pick' \in Draws(total_stake)
    /\ cumulative' = 0
    /\ winner_idx' = 0
    /\ n' = 0
    /\ pc' = "scan"
    /\ UNCHANGED <<nodeVars, used, winners, total_stake, upto>>

\* The second loop; it may end without a hit, which leaves winner_idx at 0.
Scan ==
    /\ pc = "scan"
    /\ LET fresh == n < NumNodes /\ ~used[n]
           sum == cumulative + (IF fresh THEN stake[n] ELSE 0)
           hit == fresh /\ Reaches(sum)
           ends == hit \/ n >= NumNodes
       IN  /\ cumulative' = sum
           /\ winner_idx' = IF hit THEN n ELSE winner_idx
           /\ n' = IF ends THEN n ELSE NextNode
           /\ pc' = IF ends THEN "assign" ELSE "scan"
    /\ UNCHANGED <<nodeVars, used, winners, total_stake, pick, upto>>

\* node_assign_shard of the winner.
Assign ==
    /\ pc = "assign"
    /\ used' = Mark(winner_idx)
    /\ shard_id' = [shard_id EXCEPT ![winner_idx] = Shard]
    /\ role' = [role EXCEPT ![winner_idx] = "WINNER"]
    /\ winners' = Append(winners, winner_idx)
    /\ total_stake' = 0
    /\ n' = 0
    /\ pc' = IF Len(winners') < NumNodes THEN "total" ELSE "elected"
    /\ UNCHANGED <<stake, drawVars, upto>>

\* The results are printed and freed, and the batch is dispatched.
Finish ==
    /\ pc = "elected"
    /\ pc' = "idle"
    /\ UNCHANGED <<nodeVars, used, winners, n, total_stake, drawVars, upto>>

Init ==
    /\ stake \in [Nodes -> Stakes]
    /\ shard_id = [k \in Nodes |-> -1]
    /\ role = [k \in Nodes |-> "VALIDATOR"]
    /\ pc = "idle"
    /\ used = [k \in Nodes |-> FALSE]
    /\ winners = <<>>
    /\ n = 0
    /\ total_stake = 0
    /\ pick = 0
    /\ cumulative = 0
    /\ winner_idx = 0
    /\ upto = [k \in 0..NumNodes |-> 0]

\* What elect_winners does once it is called.
Election == AddStake \/ Draw \/ Scan \/ Assign

Next == Begin \/ Election \/ Finish

Spec == Init /\ [][Next]_vars

\* A call runs to its end; nothing obliges another one.
FairSpec == Spec /\ WF_vars(Election)

-----------------------------------------------------------------------------
\* The type of every variable.
TypeOK ==
    /\ stake \in [Nodes -> Stakes]
    /\ shard_id \in [Nodes -> -1 .. NumNodes - 1]
    /\ role \in [Nodes -> {"VALIDATOR", "WINNER"}]
    /\ pc \in {"idle", "total", "scan", "assign", "elected"}
    /\ used \in [Nodes -> BOOLEAN]
    /\ winners \in Seq(Nodes)
    /\ n \in 0..NumNodes
    /\ total_stake \in Nat
    /\ pick \in Nat
    /\ cumulative \in Nat
    /\ winner_idx \in Nodes
    /\ upto \in [0..NumNodes -> Nat]

\* No node wins twice, although the scan falls back on node 0 when it finds no
\* winner and never asks whether that node is used.
DistinctWinners ==
    \A i, j \in 1..Len(winners) : winners[i] = winners[j] => i = j

\* "Selects one winner node per shard before each dispatch round" (README.md:59):
\* when the election is over, nodes and shards correspond one to one.
OneNodePerShard ==
    pc = "elected" =>
        /\ IsInjective(shard_id)
        /\ \A k \in Nodes : /\ role[k] = "WINNER"
                            /\ winners[shard_id[k] + 1] = k

\* The stake of the unused nodes below node k.
Below(k) == SumFunctionOnSet([j \in 0 .. k - 1 |-> Weight(j)], 0 .. k - 1)

\* A node wins on exactly as many of the numbers drawn as it has stake: those
\* that fall in its own share of the stake of the unused nodes.
StakeWeighted ==
    pc = "assign" =>
        /\ ~used[winner_idx]
        /\ pick \in Below(winner_idx) .. Below(winner_idx) + stake[winner_idx] - 1

\* A call of elect_winners returns.
ElectionEnds == pc = "total" ~> pc = "elected"

-----------------------------------------------------------------------------
(***************************************************************************)
(* What is true at every step of the two loops.                            *)
(***************************************************************************)
Won(k) == \E i \in 1..Len(winners) : winners[i] = k

\* A node is marked as used exactly when it has won a shard.
MarksMatch == \A k \in Nodes : used[k] <=> Won(k)

\* The winner of shard i - 1 knows it; a node that has not won knows no shard.
ShardsMatch ==
    \A i \in 1..Len(winners) : /\ shard_id[winners[i]] = i - 1
                               /\ role[winners[i]] = "WINNER"

\* While a shard is being decided there is one left; at the end there is none.
ShardsLeft ==
    /\ pc \in {"total", "scan", "assign"} => Len(winners) < NumNodes
    /\ pc = "elected" => Len(winners) = NumNodes

\* upto holds the sums of the first loop, which has visited the nodes below m.
SumsUpto(m) ==
    /\ upto[0] = 0
    /\ \A k \in 0 .. m - 1 : upto[k + 1] = upto[k] + Weight(k)

\* The first loop: the sum is positive once a node that can win was visited.
TotalLoop ==
    pc = "total" =>
        /\ SumsUpto(n)
        /\ total_stake = upto[n]
        /\ (\E k \in 0 .. n - 1 : ~used[k]) => total_stake > 0

\* The second loop: the same sums again, and none so far exceeds the pick.
ScanLoop ==
    pc = "scan" =>
        /\ SumsUpto(NumNodes)
        /\ upto[NumNodes] > pick
        /\ cumulative = upto[n]
        /\ cumulative <= pick

\* The winner is free, and the pick falls in its share.
FreshWinner ==
    pc = "assign" =>
        /\ ~used[winner_idx]
        /\ SumsUpto(NumNodes)
        /\ upto[winner_idx] <= pick
        /\ pick < upto[winner_idx] + stake[winner_idx]

\* The inductive invariant behind DistinctWinners, OneNodePerShard and
\* StakeWeighted.
Inv ==
    /\ TypeOK
    /\ upto[0] = 0
    /\ DistinctWinners
    /\ MarksMatch
    /\ ShardsMatch
    /\ ShardsLeft
    /\ TotalLoop
    /\ ScanLoop
    /\ FreshWinner
=============================================================================

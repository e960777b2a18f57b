--------------------------- MODULE SubmissionProofs ---------------------------
(***************************************************************************)
(* The way of a batch from the generator to the mempool is right for any   *)
(* number of threads, transactions and shards, and any sizes.              *)
(***************************************************************************)
EXTENDS Submission, FoldLemmas, SequenceTheorems, TLAPS

-----------------------------------------------------------------------------
(***************************************************************************)
(* The transactions of a batch that are not rejected.                      *)
(***************************************************************************)
\* The loop of ValidOf, up to its m-th round, as a function.
Loop(txs, m, f) ==
    f = [i \in 0..m |-> IF i = 0 THEN <<>>
                        ELSE IF Valid(txs[i]) THEN Append(f[i - 1], txs[i])
                             ELSE f[i - 1]]

LEMMA LoopExists ==
    ASSUME NEW txs, NEW n \in Nat
    PROVE  \E f : Loop(txs, n, f)
<1>. DEFINE T == {m \in 0..n : ~ \E f : Loop(txs, m, f)}
<1>. SUFFICES ASSUME T # {} PROVE FALSE
  OBVIOUS
<1>1. PICK m \in T : \A k \in T : m <= k
  <2>1. T \in SUBSET (0..n)
    OBVIOUS
  <2>. HIDE DEF T
  <2>. QED
    BY <2>1, LeastElement
<1>2. CASE m = 0
  <2>1. Loop(txs, 0, [i \in 0..0 |-> <<>>])
    BY DEF Loop
  <2>. QED
    BY <1>2, <2>1
<1>3. CASE m # 0
  <2>1. m - 1 \in 0..n /\ m \in 1..n
    BY <1>3
  <2>2. PICK f : Loop(txs, m - 1, f)
    BY <1>1, <2>1
  <2>. DEFINE last == IF Valid(txs[m]) THEN Append(f[m - 1], txs[m]) ELSE f[m - 1]
              g == [i \in 0..m |-> IF i = m THEN last ELSE f[i]]
              h == [i \in 0..m |-> IF i = 0 THEN <<>>
                                   ELSE IF Valid(txs[i]) THEN Append(g[i - 1], txs[i])
                                        ELSE g[i - 1]]
  <2>3. ASSUME NEW i \in 0..m PROVE g[i] = h[i]
    <3>1. CASE i = m
      <4>1. i - 1 \in 0..m /\ i - 1 # m /\ i # 0
        BY <2>1, <3>1
      <4>2. g[i - 1] = f[m - 1] /\ g[i] = last
        BY <3>1, <4>1
      <4>. QED
        BY <3>1, <4>1, <4>2
    <3>2. CASE i # m /\ i # 0
      <4>1. i \in 0 .. m - 1 /\ i - 1 \in 0..m /\ i - 1 # m
        BY <2>1, <3>2
      <4>2. g[i] = f[i] /\ g[i - 1] = f[i - 1]
        BY <3>2, <4>1
      <4>3. f[i] = IF Valid(txs[i]) THEN Append(f[i - 1], txs[i]) ELSE f[i - 1]
        BY <2>2, <3>2, <4>1 DEF Loop
      <4>. QED
        BY <3>2, <4>1, <4>2, <4>3
    <3>3. CASE i # m /\ i = 0
      <4>1. f[0] = <<>>
        BY <2>1, <2>2 DEF Loop
      <4>. QED
        BY <3>3, <4>1
    <3>. QED
      BY <3>1, <3>2, <3>3
  <2>4. g = h
    <3>. HIDE DEF last
    <3>1. /\ g = [i \in 0..m |-> g[i]]
          /\ h = [i \in 0..m |-> h[i]]
      OBVIOUS
    <3>. HIDE DEF g, h
    <3>. QED
      BY <2>3, <3>1
  <2>5. Loop(txs, m, g)
    BY <2>4 DEF Loop
  <2>. HIDE DEF g
  <2>. QED
    BY <2>5
<1>. QED
  BY <1>2, <1>3

\* Whatever the loop has rejected, the rest are transactions, and not more
\* of them than it has seen.
LEMMA LoopType ==
    ASSUME NEW txs \in Seq(Nat), NEW n \in Nat, n <= Len(txs),
           NEW f, Loop(txs, n, f)
    PROVE  \A m \in 0..n : f[m] \in Seq(Nat) /\ Len(f[m]) <= m
<1>. DEFINE T == {m \in 0..n : ~(f[m] \in Seq(Nat) /\ Len(f[m]) <= m)}
<1>. SUFFICES ASSUME T # {} PROVE FALSE
  OBVIOUS
<1>1. PICK m \in T : \A k \in T : m <= k
  <2>1. T \in SUBSET (0..n)
    OBVIOUS
  <2>. HIDE DEF T
  <2>. QED
    BY <2>1, LeastElement
<1>2. m \in 0..n
  OBVIOUS
<1>3. f[m] = IF m = 0 THEN <<>>
             ELSE IF Valid(txs[m]) THEN Append(f[m - 1], txs[m]) ELSE f[m - 1]
  BY <1>2 DEF Loop
<1>4. CASE m = 0
  <2>1. f[m] = <<>>
    BY <1>3, <1>4
  <2>2. f[m] \in Seq(Nat) /\ Len(f[m]) = 0
    BY <2>1
  <2>. QED
    BY <1>4, <2>2
<1>5. CASE m # 0
  <2>1. m \in 1..n /\ m - 1 \in 0..n /\ ~(m <= m - 1)
    BY <1>2, <1>5
  <2>2. m - 1 \notin T
    <3>. HIDE DEF T
    <3>. QED
      BY <1>1, <2>1
  <2>3. PICK before \in Seq(Nat) : before = f[m - 1] /\ Len(before) <= m - 1
    BY <2>1, <2>2
  <2>4. PICK tx \in Nat : tx = txs[m]
    BY <2>1
  <2>5. \/ f[m] = Append(before, tx)
        \/ f[m] = before
    BY <1>3, <1>5, <2>3, <2>4
  <2>6. f[m] \in Seq(Nat) /\ Len(f[m]) <= m
    <3>1. /\ Append(before, tx) \in Seq(Nat) /\ Len(before) \in Nat
          /\ Len(Append(before, tx)) = Len(before) + 1
      OBVIOUS
    <3>2. Len(before) + 1 <= m /\ Len(before) <= m
      <4>. HIDE DEF T
      <4>. QED
        BY <1>2, <2>3, <3>1
    <3>3. CASE f[m] = Append(before, tx)
      BY <3>1, <3>2, <3>3
    <3>4. CASE f[m] = before
      BY <3>2, <3>4
    <3>. QED
      BY <2>5, <3>3, <3>4
  <2>. QED
    BY <2>6
<1>. QED
  BY <1>4, <1>5

LEMMA ValidOfType ==
    ASSUME NEW txs \in Seq(Nat)
    PROVE  ValidOf(txs) \in Seq(Nat) /\ Len(ValidOf(txs)) <= Len(txs)
<1>. DEFINE n == Len(txs)
            valid == CHOOSE f : Loop(txs, n, f)
<1>1. n \in Nat /\ n <= Len(txs) /\ n \in 0..n
  OBVIOUS
<1>2. Loop(txs, n, valid)
  BY <1>1, LoopExists
<1>3. ValidOf(txs) = valid[n]
  BY DEF ValidOf, Loop
<1>. HIDE DEF valid, n
<1>4. valid[n] \in Seq(Nat) /\ Len(valid[n]) <= n
  BY <1>1, <1>2, LoopType
<1>. QED
  BY <1>3, <1>4 DEF n

-----------------------------------------------------------------------------
(***************************************************************************)
(* The sizes.                                                              *)
(***************************************************************************)
LEMMA ProductMonotone ==
    ASSUME NEW a \in Nat, NEW b \in Nat, NEW d \in Nat, a <= b
    PROVE  a * d \in Nat /\ a * d <= b * d
<1>1. PICK c \in Nat : b = a + c
  <2>1. b - a \in Nat /\ b = a + (b - a)
    OBVIOUS
  <2>. QED
    BY <2>1
<1>2. b * d = a * d + c * d /\ c * d \in Nat /\ a * d \in Nat
  BY <1>1
<1>. QED
  BY <1>2

LEMMA Division ==
    ASSUME NEW a \in Nat, NEW d \in Nat \ {0}
    PROVE  /\ a \div d \in Nat
           /\ (a \div d) * d <= a
           /\ a < (a \div d) * d + d
  OBVIOUS

\* The batches the schedule hands out.
BatchNumbers == {b \in Nat : b < num_batches}

LEMMA NumBatches == num_batches \in Nat
<1>1. total_count \in Nat /\ batch_size \in Nat \ {0}
  BY CountsAssumption
<1>2. total_count + batch_size - 1 \in Nat
  BY <1>1
<1>. QED
  BY <1>1, <1>2, Division DEF num_batches

\* No batch is empty, none is larger than --batch.
LEMMA SizeOfBatch ==
    ASSUME NEW b \in BatchNumbers
    PROVE  /\ BatchCount(b) \in 1..batch_size
           /\ b * batch_size \in Nat
<1>1. total_count \in Nat /\ batch_size \in Nat \ {0}
  BY CountsAssumption
<1>2. b \in Nat /\ b + 1 <= num_batches /\ num_batches \in Nat
  BY NumBatches DEF BatchNumbers
<1>. DEFINE start == b * batch_size
            end == (b + 1) * batch_size
            all == num_batches * batch_size
<1>3. start \in Nat /\ end = start + batch_size
  BY <1>1, <1>2
<1>4. end <= all
  BY <1>1, <1>2, ProductMonotone
<1>5. all <= total_count + batch_size - 1 /\ all \in Int
  <2>1. total_count + batch_size - 1 \in Nat
    BY <1>1
  <2>. QED
    BY <1>1, <1>2, <2>1, Division DEF num_batches
<1>6. BatchCount(b) = SmallerOf(end, total_count) - start
  BY DEF BatchCount, BatchEnd
<1>. HIDE DEF start, end, all
<1>7. BatchCount(b) \in 1..batch_size
  BY <1>1, <1>3, <1>4, <1>5, <1>6 DEF SmallerOf
<1>. QED
  BY <1>3, <1>7 DEF start

LEMMA TxsOfBatch ==
    ASSUME NEW b \in BatchNumbers
    PROVE  BatchTxs(b) \in Seq(Nat) /\ Len(BatchTxs(b)) = BatchCount(b)
<1>. DEFINE n == BatchCount(b)
            start == b * batch_size
<1>1. n \in Nat /\ start \in Nat
  BY SizeOfBatch, CountsAssumption
<1>2. BatchTxs(b) = [i \in 1..n |-> start + i - 1]
  BY DEF BatchTxs
<1>. HIDE DEF n, start
<1>3. \A i \in 1..n : start + i - 1 \in Nat
  BY <1>1
<1>4. BatchTxs(b) \in Seq(Nat) /\ Len(BatchTxs(b)) = n
  BY <1>1, <1>2, <1>3
<1>. QED
  BY <1>4 DEF n

\* What the assigner asks the drain for, and how it relates to a full mempool.
LEMMA SizeOfDrain ==
    ASSUME block_size \in Nat \ {0}
    PROVE  /\ Exact \in Nat
           /\ block_size < num_shards => Exact = num_shards
           /\ ~(block_size < num_shards) =>
                /\ Exact % num_shards = 0
                /\ Exact \in block_size - num_shards + 1 .. block_size
<1>. DEFINE q == block_size \div num_shards
<1>1. num_shards \in Nat \ {0}
  BY CountsAssumption
<1>2. /\ q \in Nat /\ q * num_shards <= block_size
      /\ block_size < q * num_shards + num_shards
  BY <1>1, Division
<1>3. q * num_shards \in Nat
  BY <1>1, <1>2
<1>4. Exact = IF q * num_shards = 0 THEN num_shards ELSE q * num_shards
  BY DEF Exact
<1>. HIDE DEF q
<1>5. CASE block_size < num_shards
  <2>1. q = 0
    <3>. SUFFICES ASSUME q # 0 PROVE FALSE
      OBVIOUS
    <3>1. 1 * num_shards <= q * num_shards
      BY <1>1, <1>2, ProductMonotone
    <3>. QED
      BY <1>1, <1>2, <1>3, <1>5, <3>1
  <2>2. q * num_shards = 0
    BY <1>1, <2>1
  <2>. QED
    BY <1>1, <1>4, <1>5, <2>2
<1>6. CASE ~(block_size < num_shards)
  <2>1. q * num_shards # 0
    BY <1>1, <1>2, <1>3, <1>6
  <2>2. (q * num_shards) % num_shards = 0
    BY <1>1, <1>2
  <2>3. q * num_shards \in block_size - num_shards + 1 .. block_size
    BY <1>1, <1>2, <1>3
  <2>. QED
    BY <1>3, <1>4, <1>6, <2>1, <2>2, <2>3
<1>. QED
  BY <1>5, <1>6

-----------------------------------------------------------------------------
(***************************************************************************)
(* Types.  A thread only ever waits for a batch of the schedule, and only  *)
(* such batches are requested: their transactions are numbers.             *)
(***************************************************************************)
BatchesHeld ==
    /\ \A t \in Threads : thread_pc[t] = "wait" => batch_of[t] \in BatchNumbers
    /\ requests \in [Threads -> Seq(BatchNumbers)]

TypeInv == SubmissionTypes /\ BatchesHeld

LEMMA SubmissionTypeInit == SubmissionInit => TypeInv
<1>. SUFFICES ASSUME SubmissionInit PROVE TypeInv
  OBVIOUS
<1>. USE DEF SubmissionInit
<1>1. /\ 0 \in 0..num_batches
      /\ 0 \in 0..MaxTimeouts
      /\ capacity \in Nat
  BY NumBatches, CountsAssumption
<1>2. /\ <<>> \in Seq(Nat) /\ Len(<<>>) = 0 /\ <<>> \in Seq(Seq(Nat))
      /\ <<>> \in Seq(BatchNumbers)
      /\ <<>> \in Seq([accepted : Nat, rejected : Nat])
  OBVIOUS
<1>3. counts \in [accepted : Nat, rejected : Nat]
  OBVIOUS
<1>4. SubmissionTypes
  BY <1>1, <1>2, <1>3 DEF SubmissionTypes
<1>5. BatchesHeld
  BY <1>2 DEF BatchesHeld
<1>. QED
  BY <1>4, <1>5 DEF TypeInv

\* What a request adds to the mempool.
LEMMA AddedType ==
    ASSUME SubmissionTypes, NEW txs \in Seq(Nat)
    PROVE  /\ Added(txs) \in Seq(Nat)
           /\ Len(Added(txs)) <= Len(txs)
           /\ mempool \o Added(txs) \in Seq(Nat)
           /\ Len(mempool \o Added(txs)) <= capacity
<1>1. mempool \in Seq(Nat) /\ Len(mempool) <= capacity /\ capacity \in Nat
  BY CountsAssumption DEF SubmissionTypes
<1>. DEFINE room == SmallerOf(capacity - Len(mempool), Len(txs))
<1>2. room \in 0..Len(txs) /\ Len(mempool) + room <= capacity
  BY <1>1 DEF SmallerOf
<1>3. Added(txs) = SubSeq(txs, 1, room)
  BY DEF Added
<1>. HIDE DEF room
<1>4. Added(txs) \in Seq(Nat) /\ Len(Added(txs)) = room
  BY <1>2, <1>3
<1>. QED
  BY <1>1, <1>2, <1>4

\* The reply's numbers add up to no more than the batch.
LEMMA CountsType ==
    ASSUME SubmissionTypes, NEW b \in BatchNumbers
    PROVE  LET valid == ValidOf(BatchTxs(b))
           IN  /\ valid \in Seq(Nat) /\ Len(valid) <= BatchCount(b)
               /\ [accepted |-> Len(Added(valid)),
                   rejected |-> BatchCount(b) - Len(valid)]
                    \in [accepted : Nat, rejected : Nat]
<1>. DEFINE valid == ValidOf(BatchTxs(b))
<1>1. valid \in Seq(Nat) /\ Len(valid) <= BatchCount(b)
  BY TxsOfBatch, ValidOfType
<1>2. BatchCount(b) \in Nat
  BY SizeOfBatch, CountsAssumption
<1>. HIDE DEF valid
<1>3. Len(Added(valid)) \in Nat
  BY <1>1, AddedType
<1>4. BatchCount(b) - Len(valid) \in Nat
  BY <1>1, <1>2
<1>. QED
  BY <1>1, <1>3, <1>4 DEF valid

LEMMA SendBatchType ==
    ASSUME TypeInv, NEW t \in Threads, SendBatch(t)
    PROVE  TypeInv'
<1>1. SubmissionTypes /\ BatchesHeld /\ num_batches \in Nat
  BY NumBatches DEF TypeInv
<1>2. /\ next_batch \in BatchNumbers /\ next_batch \in Nat
      /\ next_batch + 1 \in 0..num_batches
  BY <1>1 DEF SendBatch, SubmissionTypes, BatchNumbers
<1>. DEFINE sent == [requests EXCEPT ![t] = Append(@, next_batch)]
<1>3. requests' \in [Threads -> Seq(BatchNumbers)] /\ requests' \in [Threads -> Seq(Nat)]
  <2>1. /\ requests \in [Threads -> Seq(BatchNumbers)]
        /\ requests \in [Threads -> Seq(Nat)]
    BY <1>1 DEF BatchesHeld, SubmissionTypes
  <2>2. /\ Append(requests[t], next_batch) \in Seq(BatchNumbers)
        /\ Append(requests[t], next_batch) \in Seq(Nat)
    BY <1>2, <2>1
  <2>3. sent \in [Threads -> Seq(BatchNumbers)] /\ sent \in [Threads -> Seq(Nat)]
    BY <2>1, <2>2
  <2>4. requests' = sent \/ requests' = requests
    BY DEF SendBatch
  <2>. QED
    BY <2>1, <2>3, <2>4
<1>4. req_state' \in [Threads -> {"send", "recv"}]
  BY <1>1 DEF SendBatch, SubmissionTypes
<1>5. SubmissionTypes'
  BY <1>1, <1>2, <1>3, <1>4 DEF SendBatch, SubmissionTypes, receiverVars
<1>6. BatchesHeld'
  BY <1>1, <1>2, <1>3 DEF SendBatch, BatchesHeld, SubmissionTypes
<1>. QED
  BY <1>5, <1>6 DEF TypeInv

LEMMA RecvReplyType ==
    ASSUME TypeInv, NEW t \in Threads, RecvReply(t)
    PROVE  TypeInv'
<1>1. SubmissionTypes /\ BatchesHeld /\ batch_of[t] \in BatchNumbers
  BY DEF TypeInv, BatchesHeld, RecvReply
<1>2. Credit(batch_of[t]) \in Nat
  BY <1>1, SizeOfBatch, CountsAssumption DEF Credit
<1>3. thread_submitted' \in [Threads -> Nat]
  <2>1. thread_submitted \in [Threads -> Nat]
    BY <1>1 DEF SubmissionTypes
  <2>2. thread_submitted' =
          [thread_submitted EXCEPT ![t] = @ + Credit(batch_of[t])]
    BY DEF RecvReply
  <2>3. thread_submitted[t] + Credit(batch_of[t]) \in Nat
    BY <1>2, <2>1
  <2>. QED
    BY <2>1, <2>2, <2>3
<1>4. replies' \in [Threads -> Seq([accepted : Nat, rejected : Nat])]
  BY <1>1 DEF RecvReply, SubmissionTypes
<1>5. SubmissionTypes'
  BY <1>1, <1>3, <1>4 DEF RecvReply, SubmissionTypes, receiverVars
<1>6. BatchesHeld'
  BY <1>1 DEF RecvReply, BatchesHeld, SubmissionTypes
<1>. QED
  BY <1>5, <1>6 DEF TypeInv

LEMMA LeaveType ==
    ASSUME TypeInv, NEW t \in Threads, RecvTimeout(t) \/ LeaveLoop(t)
    PROVE  TypeInv'
<1>1. SubmissionTypes /\ BatchesHeld /\ MaxTimeouts \in Nat
  BY CountsAssumption DEF TypeInv
<1>2. timeouts' \in 0..MaxTimeouts
  <2>1. timeouts \in 0..MaxTimeouts
    BY <1>1 DEF SubmissionTypes
  <2>2. \/ timeouts < MaxTimeouts /\ timeouts' = timeouts + 1
        \/ timeouts' = timeouts
    BY DEF RecvTimeout, LeaveLoop
  <2>. QED
    BY <1>1, <2>1, <2>2
<1>3. SubmissionTypes'
  BY <1>1, <1>2 DEF RecvTimeout, LeaveLoop, SubmissionTypes, receiverVars
<1>4. BatchesHeld'
  BY <1>1 DEF RecvTimeout, LeaveLoop, BatchesHeld, SubmissionTypes
<1>. QED
  BY <1>3, <1>4 DEF TypeInv

LEMMA RecvBatchType ==
    ASSUME TypeInv, NEW t \in Threads, RecvBatch(t)
    PROVE  TypeInv'
<1>1. SubmissionTypes /\ BatchesHeld
  BY DEF TypeInv
<1>2. requests[t] \in Seq(BatchNumbers) /\ requests[t] # <<>>
  BY <1>1 DEF BatchesHeld, RecvBatch
<1>3. PICK b \in BatchNumbers : b = Head(requests[t])
  BY <1>2
<1>. DEFINE valid == ValidOf(BatchTxs(b))
<1>4. /\ valid \in Seq(Nat)
      /\ [accepted |-> Len(Added(valid)),
          rejected |-> BatchCount(b) - Len(valid)] \in [accepted : Nat, rejected : Nat]
  BY <1>1, CountsType
<1>5. /\ mempool' = mempool \o Added(valid)
      /\ added' = added \o Added(valid)
      /\ counts' = [accepted |-> Len(Added(valid)),
                    rejected |-> BatchCount(b) - Len(valid)]
      /\ handled' = Append(handled, b)
      /\ requests' = [requests EXCEPT ![t] = Tail(@)]
      /\ serving' = t
      /\ UNCHANGED <<generatorVars, replies, block_size, up, dispatched>>
  BY <1>3 DEF RecvBatch
<1>. HIDE DEF valid
<1>6. mempool' \in Seq(Nat) /\ Len(mempool') <= capacity /\ Added(valid) \in Seq(Nat)
  BY <1>1, <1>4, <1>5, AddedType
<1>7. added' \in Seq(Nat) /\ handled' \in Seq(Nat)
  BY <1>1, <1>5, <1>6 DEF SubmissionTypes, BatchNumbers
<1>8. /\ requests' \in [Threads -> Seq(BatchNumbers)]
      /\ requests' \in [Threads -> Seq(Nat)]
  <2>1. Tail(requests[t]) \in Seq(BatchNumbers) /\ Tail(requests[t]) \in Seq(Nat)
    BY <1>1, <1>2 DEF SubmissionTypes
  <2>. QED
    BY <1>1, <1>5, <2>1 DEF SubmissionTypes, BatchesHeld
<1>9. SubmissionTypes'
  BY <1>1, <1>4, <1>5, <1>6, <1>7, <1>8 DEF SubmissionTypes, generatorVars
<1>10. BatchesHeld'
  BY <1>1, <1>5, <1>8 DEF BatchesHeld, generatorVars
<1>. QED
  BY <1>9, <1>10 DEF TypeInv

LEMMA DispatchType ==
    ASSUME TypeInv, Dispatch
    PROVE  TypeInv'
<1>1. SubmissionTypes /\ BatchesHeld
  BY DEF TypeInv
<1>2. block_size \in Nat \ {0} /\ mempool \in Seq(Nat) /\ capacity \in Nat
  BY <1>1, CountsAssumption DEF SubmissionTypes
<1>3. Exact \in Nat
  BY <1>2, SizeOfDrain
<1>4. Drained(mempool, Exact) \in Seq(Nat)
  BY <1>2, <1>3 DEF Drained, SmallerOf
<1>5. dispatched' \in Seq(Seq(Nat)) /\ up' \in BOOLEAN
  <2>1. dispatched \in Seq(Seq(Nat)) /\ up \in BOOLEAN
    BY <1>1 DEF SubmissionTypes
  <2>. DEFINE block == Drained(mempool, Exact)
  <2>2. \/ up' = FALSE /\ dispatched' = dispatched
        \/ up' = up /\ dispatched' = Append(dispatched, block)
    BY DEF Dispatch
  <2>3. block \in Seq(Nat)
    BY <1>4
  <2>. HIDE DEF block
  <2>4. Append(dispatched, block) \in Seq(Seq(Nat))
    BY <2>1, <2>3
  <2>5. FALSE \in BOOLEAN
    OBVIOUS
  <2>6. CASE up' = FALSE /\ dispatched' = dispatched
    BY <2>1, <2>6
  <2>7. CASE up' = up /\ dispatched' = Append(dispatched, block)
    <3>1. up' \in BOOLEAN
      BY <2>1, <2>7
    <3>. QED
      BY <2>4, <2>7, <3>1
  <2>. QED
    BY <2>2, <2>6, <2>7
<1>6. mempool' \in Seq(Nat) /\ Len(mempool') <= capacity
  <2>1. mempool \in Seq(Nat) /\ Len(mempool) <= capacity
    BY <1>1 DEF SubmissionTypes
  <2>2. mempool' = mempool \/ mempool' = <<>>
    BY DEF Dispatch, AfterDrain
  <2>3. <<>> \in Seq(Nat) /\ Len(<<>>) <= capacity
    BY <1>2
  <2>4. CASE mempool' = mempool
    BY <2>1, <2>4
  <2>5. CASE mempool' = <<>>
    BY <2>3, <2>5
  <2>. QED
    BY <2>2, <2>4, <2>5
<1>7. SubmissionTypes'
  BY <1>1, <1>5, <1>6 DEF Dispatch, SubmissionTypes, generatorVars
<1>8. BatchesHeld'
  BY <1>1 DEF Dispatch, BatchesHeld, generatorVars
<1>. QED
  BY <1>7, <1>8 DEF TypeInv

LEMMA SendReplyType ==
    ASSUME TypeInv, SendReply
    PROVE  TypeInv'
<1>1. SubmissionTypes /\ BatchesHeld
  BY DEF TypeInv
<1>2. replies' \in [Threads -> Seq([accepted : Nat, rejected : Nat])]
  BY <1>1 DEF SendReply, ReplyTo, SubmissionTypes
<1>3. SubmissionTypes'
  BY <1>1, <1>2 DEF SendReply, SubmissionTypes, generatorVars
<1>4. BatchesHeld'
  BY <1>1 DEF SendReply, BatchesHeld, generatorVars
<1>. QED
  BY <1>3, <1>4 DEF TypeInv

LEMMA StutterType ==
    ASSUME TypeInv, UNCHANGED submissionVars
    PROVE  TypeInv'
  BY DEF TypeInv, SubmissionTypes, BatchesHeld, submissionVars, generatorVars, receiverVars

LEMMA SubmissionTypeStep == TypeInv /\ [SubmissionNext]_submissionVars => TypeInv'
<1>. SUFFICES ASSUME TypeInv, [SubmissionNext]_submissionVars PROVE TypeInv'
  OBVIOUS
<1>1. ASSUME NEW t \in Threads, ThreadStep(t) \/ RecvTimeout(t) PROVE TypeInv'
  BY <1>1, SendBatchType, RecvReplyType, LeaveType DEF ThreadStep
<1>2. CASE ReceiverStep
  BY <1>2, RecvBatchType, DispatchType, SendReplyType DEF ReceiverStep
<1>3. CASE Idle \/ UNCHANGED submissionVars
  BY <1>3, StutterType DEF Idle
<1>. QED
  BY <1>1, <1>2, <1>3 DEF SubmissionNext

\* Every reachable state is type correct: in particular the mempool keeps to
\* its capacity and the numbers of a reply are not negative (receiver.c:157).
THEOREM SubmissionTypeCorrect == SubmissionSpec => []SubmissionTypes
<1>1. TypeInv => SubmissionTypes
  BY DEF TypeInv
<1>. QED
  BY <1>1, SubmissionTypeInit, SubmissionTypeStep, PTL DEF SubmissionSpec

-----------------------------------------------------------------------------
(***************************************************************************)
(* Safety.  Between two requests the mempool is below a block, which is    *)
(* what leaves room for the next batch; a socket has one message under way *)
(* or none; every drain is of the rounded size.                            *)
(***************************************************************************)
PoolBelowBlock == serving = None => Len(mempool) < block_size

IInv == TypeInv /\ PoolBelowBlock /\ OneRequestPerSocket /\ BlockSizes

LEMMA SafetyInit == SubmissionInit => IInv
<1>. SUFFICES ASSUME SubmissionInit PROVE IInv
  OBVIOUS
<1>1. TypeInv
  BY SubmissionTypeInit
<1>2. block_size \in Nat \ {0} /\ mempool = <<>> /\ dispatched = <<>>
  BY CountsAssumption DEF SubmissionInit
<1>3. PoolBelowBlock
  BY <1>2 DEF PoolBelowBlock
<1>4. OneRequestPerSocket
  BY ThreadsAssumption DEF SubmissionInit, OneRequestPerSocket
<1>5. BlockSizes
  BY <1>2 DEF BlockSizes
<1>. QED
  BY <1>1, <1>3, <1>4, <1>5 DEF IInv

\* The mempool between requests.
LEMMA PoolStep ==
    ASSUME TypeInv, PoolBelowBlock, [SubmissionNext]_submissionVars
    PROVE  PoolBelowBlock'
<1>. USE DEF PoolBelowBlock
<1>1. Len(mempool) \in Nat /\ block_size \in Nat
  BY CountsAssumption DEF TypeInv, SubmissionTypes
<1>2. ASSUME NEW t \in Threads, ThreadStep(t) \/ RecvTimeout(t)
      PROVE  PoolBelowBlock'
  BY <1>2 DEF ThreadStep, SendBatch, RecvReply, LeaveLoop, RecvTimeout, receiverVars
<1>3. ASSUME NEW t \in Threads, RecvBatch(t) PROVE PoolBelowBlock'
  BY <1>3, ThreadsAssumption DEF RecvBatch
<1>4. CASE Dispatch
  BY <1>4 DEF Dispatch
<1>5. CASE SendReply
  BY <1>1, <1>5 DEF SendReply, BlockReady
<1>6. CASE Idle \/ UNCHANGED submissionVars
  BY <1>6 DEF Idle, submissionVars, receiverVars
<1>. QED
  BY <1>2, <1>3, <1>4, <1>5, <1>6 DEF SubmissionNext, ReceiverStep

\* The sizes of the blocks: only Dispatch adds one.
LEMMA SizesStep ==
    ASSUME TypeInv, BlockSizes, [SubmissionNext]_submissionVars
    PROVE  BlockSizes'
<1>1. CASE UNCHANGED <<dispatched, block_size>>
  BY <1>1 DEF BlockSizes
<1>2. CASE Dispatch /\ dispatched' # dispatched
  <2>. DEFINE block == Drained(mempool, Exact)
              Good(n) == IF block_size < num_shards
                         THEN n \in block_size..num_shards
                         ELSE /\ n % num_shards = 0
                              /\ n \in block_size - num_shards + 1 .. block_size
  <2>1. /\ dispatched' = Append(dispatched, block) /\ block_size' = block_size
        /\ Len(mempool) >= block_size
    BY <1>2 DEF Dispatch, BlockReady
  <2>2. /\ mempool \in Seq(Nat) /\ Len(mempool) \in Nat
        /\ block_size \in Nat \ {0} /\ num_shards \in Nat \ {0}
        /\ dispatched \in Seq(Seq(Nat))
    BY CountsAssumption DEF TypeInv, SubmissionTypes
  <2>3. /\ Exact \in Nat
        /\ block_size < num_shards => Exact = num_shards
        /\ ~(block_size < num_shards) =>
             Exact % num_shards = 0 /\ Exact \in block_size - num_shards + 1 .. block_size
    BY <2>2, SizeOfDrain
  <2>4. block \in Seq(Nat) /\ Len(block) = SmallerOf(Exact, Len(mempool))
    BY <2>2, <2>3 DEF Drained, SmallerOf
  <2>. HIDE DEF block
  <2>5. block_size < num_shards => Len(block) \in block_size..num_shards
    BY <2>1, <2>2, <2>3, <2>4 DEF SmallerOf
  <2>6. ~(block_size < num_shards) => Len(block) = Exact
    <3>. SUFFICES ASSUME ~(block_size < num_shards) PROVE Len(block) = Exact
      OBVIOUS
    <3>1. Exact <= Len(mempool)
      BY <2>1, <2>2, <2>3
    <3>. QED
      BY <2>2, <2>3, <2>4, <3>1 DEF SmallerOf
  <2>7. Good(Len(block))
    BY <2>3, <2>5, <2>6
  <2>8. \A i \in 1..Len(dispatched) : Good(Len(dispatched[i]))
    BY DEF BlockSizes
  <2>. DEFINE more == Append(dispatched, block)
  <2>. HIDE DEF Good
  <2>9. \A i \in 1..Len(more) : Good(Len(more[i]))
    <3>1. Len(more) = Len(dispatched) + 1 /\ Len(dispatched) \in Nat
      BY <2>2, <2>4
    <3>2. ASSUME NEW i \in 1..Len(dispatched) PROVE more[i] = dispatched[i]
      BY <2>2, <2>4
    <3>3. more[Len(dispatched) + 1] = block
      BY <2>2, <2>4
    <3>. HIDE DEF more
    <3>. QED
      BY <2>7, <2>8, <3>1, <3>2, <3>3
  <2>. QED
    BY <2>1, <2>9 DEF BlockSizes, Good
<1>3. UNCHANGED <<dispatched, block_size>> \/ (Dispatch /\ dispatched' # dispatched)
  BY DEF SubmissionNext, ThreadStep, SendBatch, RecvReply, LeaveLoop, RecvTimeout,
         ReceiverStep, RecvBatch, Dispatch, SendReply, Idle, submissionVars, receiverVars
<1>. QED
  BY <1>1, <1>2, <1>3

\* One socket: what leaves one of its places enters another.
OneOf(t) ==
    Len(requests[t]) + Len(replies[t]) + (IF serving = t THEN 1 ELSE 0)
        = (IF req_state[t] = "recv" THEN 1 ELSE 0)

LEMMA SocketStep ==
    ASSUME TypeInv, OneRequestPerSocket, [SubmissionNext]_submissionVars
    PROVE  OneRequestPerSocket'
<1>. SUFFICES ASSUME NEW s \in Threads PROVE OneOf(s)'
  BY DEF OneRequestPerSocket, OneOf
<1>1. /\ OneOf(s)
      /\ requests \in [Threads -> Seq(Nat)]
      /\ replies \in [Threads -> Seq([accepted : Nat, rejected : Nat])]
      /\ req_state \in [Threads -> {"send", "recv"}]
  BY DEF OneRequestPerSocket, OneOf, TypeInv, SubmissionTypes
<1>2. Len(requests[s]) \in Nat /\ Len(replies[s]) \in Nat
  BY <1>1
<1>3. CASE UNCHANGED <<requests, replies, serving, req_state>>
  BY <1>1, <1>3 DEF OneOf
<1>4. ASSUME NEW t \in Threads, SendBatch(t) PROVE OneOf(s)'
  <2>1. CASE ~CanSendBatch(t) \/ s # t
    <3>1. requests'[s] = requests[s] /\ req_state'[s] = req_state[s]
      BY <1>1, <1>4, <2>1 DEF SendBatch
    <3>2. replies' = replies /\ serving' = serving
      BY <1>4 DEF SendBatch, receiverVars
    <3>. QED
      BY <1>1, <3>1, <3>2 DEF OneOf
  <2>2. CASE CanSendBatch(t) /\ s = t
    <3>1. next_batch \in Nat
      BY NumBatches DEF TypeInv, SubmissionTypes
    <3>2. Len(requests'[s]) = Len(requests[s]) + 1 /\ req_state'[s] = "recv"
      BY <1>1, <1>4, <2>2, <3>1 DEF SendBatch
    <3>3. replies' = replies /\ serving' = serving /\ req_state[s] = "send"
      BY <1>4, <2>2 DEF SendBatch, receiverVars, CanSendBatch
    <3>. QED
      BY <1>1, <1>2, <3>2, <3>3 DEF OneOf
  <2>. QED
    BY <2>1, <2>2
<1>5. ASSUME NEW t \in Threads, RecvReply(t) PROVE OneOf(s)'
  <2>1. requests' = requests /\ serving' = serving
    BY <1>5 DEF RecvReply, receiverVars
  <2>2. CASE s # t
    <3>1. replies'[s] = replies[s] /\ req_state'[s] = req_state[s]
      BY <1>1, <1>5, <2>2 DEF RecvReply
    <3>. QED
      BY <1>1, <2>1, <3>1 DEF OneOf
  <2>3. CASE s = t
    <3>1. replies[s] # <<>> /\ replies'[s] = Tail(replies[s]) /\ req_state'[s] = "send"
      BY <1>1, <1>5, <2>3 DEF RecvReply
    <3>2. Len(replies[s]) >= 1 /\ Len(replies'[s]) = Len(replies[s]) - 1
      BY <1>1, <3>1
    <3>. QED
      BY <1>1, <1>2, <2>1, <3>1, <3>2 DEF OneOf
  <2>. QED
    BY <2>2, <2>3
<1>6. ASSUME NEW t \in Threads, RecvBatch(t) PROVE OneOf(s)'
  <2>1. /\ serving = None /\ serving' = t /\ s # None
        /\ replies' = replies /\ req_state' = req_state
    BY <1>6, ThreadsAssumption DEF RecvBatch, generatorVars
  <2>2. CASE s # t
    <3>1. requests'[s] = requests[s]
      BY <1>1, <1>6, <2>2 DEF RecvBatch
    <3>. QED
      BY <1>1, <2>1, <2>2, <3>1 DEF OneOf
  <2>3. CASE s = t
    <3>1. requests[s] # <<>> /\ requests'[s] = Tail(requests[s])
      BY <1>1, <1>6, <2>3 DEF RecvBatch
    <3>2. Len(requests'[s]) = Len(requests[s]) - 1
      BY <1>1, <3>1
    <3>. QED
      BY <1>1, <1>2, <2>1, <2>3, <3>2 DEF OneOf
  <2>. QED
    BY <2>2, <2>3
<1>7. CASE SendReply
  <2>1. /\ serving # None /\ serving' = None /\ s # None
        /\ requests' = requests /\ req_state' = req_state
        /\ replies' = [replies EXCEPT ![serving] = Append(@, counts)]
    BY <1>7, ThreadsAssumption DEF SendReply, ReplyTo, generatorVars
  <2>2. CASE s # serving
    BY <1>1, <2>1, <2>2 DEF OneOf
  <2>3. CASE s = serving
    <3>1. counts \in [accepted : Nat, rejected : Nat]
      BY DEF TypeInv, SubmissionTypes
    <3>2. Len(replies'[s]) = Len(replies[s]) + 1
      BY <1>1, <2>1, <2>3, <3>1
    <3>. QED
      BY <1>1, <1>2, <2>1, <2>3, <3>2 DEF OneOf
  <2>. QED
    BY <2>2, <2>3
<1>8. ASSUME NEW t \in Threads, RecvTimeout(t) \/ LeaveLoop(t) PROVE OneOf(s)'
  BY <1>3, <1>8 DEF RecvTimeout, LeaveLoop, receiverVars
<1>9. CASE Dispatch \/ Idle \/ UNCHANGED submissionVars
  BY <1>3, <1>9 DEF Dispatch, Idle, submissionVars, generatorVars, receiverVars
<1>. QED
  BY <1>4, <1>5, <1>6, <1>7, <1>8, <1>9 DEF SubmissionNext, ThreadStep, ReceiverStep

LEMMA SafetyStep == IInv /\ [SubmissionNext]_submissionVars => IInv'
  BY SubmissionTypeStep, PoolStep, SizesStep, SocketStep DEF IInv

THEOREM SubmissionInvariance == SubmissionSpec => []IInv
  BY SafetyInit, SafetyStep, PTL DEF SubmissionSpec

\* However often a receive times out (main.c:220), no REQ socket ever has two
\* requests under way, for any number of threads and batches.
THEOREM OneRequestEach == SubmissionSpec => []OneRequestPerSocket
<1>1. IInv => OneRequestPerSocket
  BY DEF IInv
<1>. QED
  BY <1>1, SubmissionInvariance, PTL

\* Every block handed to the assigner has the rounded size (shard_assigner.c:80),
\* for any block size and number of shards.
THEOREM BlocksHaveTheirSize == SubmissionSpec => []BlockSizes
<1>1. IInv => BlockSizes
  BY DEF IInv
<1>. QED
  BY <1>1, SubmissionInvariance, PTL

\* Where a block less one and a batch fit in the mempool, the next batch always
\* fits whole: mempool_add (receiver.c:178) refuses none of it.
RoomForBatch ==
    serving = None /\ block_size - 1 + batch_size <= capacity =>
        \A b \in BatchNumbers : Added(ValidOf(BatchTxs(b))) = ValidOf(BatchTxs(b))

LEMMA RoomInv == IInv => RoomForBatch
<1>1. IInv => RoomForBatch
  <2>. SUFFICES ASSUME IInv, serving = None,
                       block_size - 1 + batch_size <= capacity,
                       NEW b \in BatchNumbers
                PROVE  Added(ValidOf(BatchTxs(b))) = ValidOf(BatchTxs(b))
    BY DEF RoomForBatch
  <2>. DEFINE valid == ValidOf(BatchTxs(b))
  <2>1. /\ mempool \in Seq(Nat) /\ Len(mempool) \in Nat
        /\ Len(mempool) < block_size
        /\ {block_size, capacity, batch_size} \subseteq Nat
    BY CountsAssumption DEF IInv, TypeInv, SubmissionTypes, PoolBelowBlock
  <2>2. valid \in Seq(Nat) /\ Len(valid) <= BatchCount(b)
    BY TxsOfBatch, ValidOfType
  <2>3. BatchCount(b) \in 1..batch_size
    BY SizeOfBatch
  <2>. HIDE DEF valid
  <2>4. Len(valid) <= capacity - Len(mempool) /\ Len(valid) \in Nat
    BY <2>1, <2>2, <2>3
  <2>5. SmallerOf(capacity - Len(mempool), Len(valid)) = Len(valid)
    BY <2>1, <2>4 DEF SmallerOf
  <2>6. SubSeq(valid, 1, Len(valid)) = valid
    BY <2>2
  <2>7. Added(valid) = valid
    BY <2>5, <2>6 DEF Added
  <2>. QED
    BY <2>7 DEF valid
<1>. QED
  BY <1>1

\* Where a block less one and a batch fit in the mempool, the next batch always
\* fits whole: mempool_add (receiver.c:178) refuses none of it.
THEOREM NextBatchFits == SubmissionSpec => []RoomForBatch
  BY RoomInv, SubmissionInvariance, PTL

-----------------------------------------------------------------------------
(***************************************************************************)
(* The transactions of the batches: each is in one batch, once.            *)
(***************************************************************************)
AllTxs == 0 .. total_count - 1

LEMMA TxAt ==
    ASSUME NEW b \in BatchNumbers
    PROVE  /\ BatchTxs(b) \in Seq(AllTxs)
           /\ Len(BatchTxs(b)) = BatchCount(b)
           /\ \A i \in 1..BatchCount(b) : BatchTxs(b)[i] = b * batch_size + i - 1
           /\ IsInjective(BatchTxs(b))
<1>. DEFINE n == BatchCount(b)
            start == b * batch_size
            txs == BatchTxs(b)
<1>1. n \in Nat /\ start \in Nat /\ total_count \in Nat
  BY SizeOfBatch, CountsAssumption
<1>2. start + n <= total_count
  <2>1. n = SmallerOf((b + 1) * batch_size, total_count) - start
    BY DEF BatchCount, BatchEnd
  <2>2. b \in Nat /\ batch_size \in Nat
    BY CountsAssumption DEF BatchNumbers
  <2>. DEFINE end == (b + 1) * batch_size
  <2>3. end \in Nat
    BY <2>2
  <2>. HIDE DEF end, n, start
  <2>. QED
    BY <1>1, <2>1, <2>3 DEF SmallerOf, end
<1>3. txs = [i \in 1..n |-> start + i - 1]
  BY DEF BatchTxs
<1>. HIDE DEF n, start, txs
<1>4. \A i \in 1..n : start + i - 1 \in AllTxs
  BY <1>1, <1>2 DEF AllTxs
<1>5. txs \in Seq(AllTxs) /\ Len(txs) = n /\ DOMAIN txs = 1..n
  BY <1>1, <1>3, <1>4
<1>6. \A i \in 1..n : txs[i] = start + i - 1
  BY <1>3
<1>7. IsInjective(txs)
  BY <1>1, <1>5, <1>6 DEF IsInjective
<1>. QED
  BY <1>5, <1>6, <1>7 DEF n, start, txs

LEMMA BatchesApart ==
    ASSUME NEW b \in BatchNumbers, NEW c \in BatchNumbers, b # c,
           NEW i \in 1..BatchCount(b), NEW j \in 1..BatchCount(c)
    PROVE  BatchTxs(b)[i] # BatchTxs(c)[j]
<1>1. /\ b \in Nat /\ c \in Nat /\ batch_size \in Nat \ {0}
      /\ i \in 1..batch_size /\ j \in 1..batch_size
  BY SizeOfBatch, CountsAssumption DEF BatchNumbers
<1>2. /\ BatchTxs(b)[i] = b * batch_size + i - 1
      /\ BatchTxs(c)[j] = c * batch_size + j - 1
  BY TxAt
<1>. DEFINE x == b * batch_size
            y == c * batch_size
<1>3. x \in Nat /\ y \in Nat
  BY <1>1
<1>4. CASE b < c
  <2>1. (b + 1) * batch_size <= y /\ (b + 1) * batch_size = x + batch_size
    BY <1>1, <1>4, ProductMonotone
  <2>. HIDE DEF x, y
  <2>. QED
    BY <1>1, <1>2, <1>3, <2>1 DEF x, y
<1>5. CASE c < b
  <2>1. (c + 1) * batch_size <= x /\ (c + 1) * batch_size = y + batch_size
    BY <1>1, <1>5, ProductMonotone
  <2>. HIDE DEF x, y
  <2>. QED
    BY <1>1, <1>2, <1>3, <2>1 DEF x, y
<1>. QED
  BY <1>1, <1>4, <1>5

\* The loop of ValidOf chooses the valid transactions.
LEMMA LoopChooses ==
    ASSUME NEW txs \in Seq(AllTxs), NEW f, Loop(txs, Len(txs), f)
    PROVE  f[Len(txs)] = Chosen(txs, ValidTxs)
<1>. DEFINE n == Len(txs)
            S == {m \in Nat : m <= n => f[m] = Chosen(SubSeq(txs, 1, m), ValidTxs)}
<1>1. n \in Nat
  OBVIOUS
<1>2. 0 \in S
  <2>1. SubSeq(txs, 1, 0) = <<>>
    OBVIOUS
  <2>2. f[0] = <<>>
    BY <1>1 DEF Loop
  <2>3. Chosen(SubSeq(txs, 1, 0), ValidTxs) = <<>>
    BY <2>1, ChosenEmpty, Zenon
  <2>. QED
    BY <2>2, <2>3
<1>3. ASSUME NEW m \in Nat, m \in S PROVE m + 1 \in S
  <2>. SUFFICES ASSUME m + 1 <= n
                PROVE  f[m + 1] = Chosen(SubSeq(txs, 1, m + 1), ValidTxs)
    OBVIOUS
  <2>. DEFINE before == SubSeq(txs, 1, m)
              tx == txs[m + 1]
  <2>1. before \in Seq(AllTxs) /\ tx \in AllTxs /\ Len(before) = m
    BY <1>1
  <2>2. SubSeq(txs, 1, m + 1) = Append(before, tx)
    BY <1>1
  <2>3. f[m] = Chosen(before, ValidTxs)
    BY <1>1, <1>3
  <2>4. f[m + 1] = IF Valid(tx) THEN Append(f[m], tx) ELSE f[m]
    <3>1. m + 1 \in 0..n /\ m + 1 # 0 /\ (m + 1) - 1 = m
      BY <1>1
    <3>2. \A i \in 0..n : f[i] = IF i = 0 THEN <<>>
                        ELSE IF Valid(txs[i]) THEN Append(f[i - 1], txs[i])
                             ELSE f[i - 1]
      BY DEF Loop
    <3>3. f[m + 1] = IF Valid(tx) THEN Append(f[(m + 1) - 1], tx) ELSE f[(m + 1) - 1]
      BY <3>1, <3>2
    <3>. QED
      BY <3>1, <3>3
  <2>5. tx \in ValidTxs <=> Valid(tx)
    BY <2>1 DEF ValidTxs, AllTxs
  <2>. HIDE DEF before, tx
  <2>6. Chosen(Append(before, tx), ValidTxs) =
          IF tx \in ValidTxs THEN Append(Chosen(before, ValidTxs), tx)
          ELSE Chosen(before, ValidTxs)
    BY <2>1, ChosenAppend
  <2>. QED
    BY <2>2, <2>3, <2>4, <2>5, <2>6
<1>4. Nat \subseteq S
  <2>. HIDE DEF S
  <2>. QED
    BY <1>2, <1>3, Induction
<1>5. SubSeq(txs, 1, n) = txs
  OBVIOUS
<1>6. n \in S
  <2>. HIDE DEF S, n
  <2>. QED
    BY <1>1, <1>4
<1>7. f[n] = Chosen(SubSeq(txs, 1, n), ValidTxs)
  BY <1>1, <1>6
<1>. HIDE DEF n, S
<1>. QED
  BY <1>5, <1>7, Zenon DEF n

LEMMA ValidOfChooses ==
    ASSUME NEW txs \in Seq(AllTxs)
    PROVE  ValidOf(txs) = Chosen(txs, ValidTxs)
<1>. DEFINE n == Len(txs)
            valid == CHOOSE f : Loop(txs, n, f)
<1>1. Loop(txs, n, valid)
  <2>1. n \in Nat
    OBVIOUS
  <2>. QED
    BY <2>1, LoopExists
<1>2. ValidOf(txs) = valid[n]
  BY DEF ValidOf, Loop
<1>. HIDE DEF valid
<1>. QED
  BY <1>1, <1>2, LoopChooses

\* What a batch contributes: transactions of its own, none twice.
LEMMA BatchPart ==
    ASSUME NEW b \in BatchNumbers
    PROVE  LET valid == ValidOf(BatchTxs(b))
           IN  /\ valid = Chosen(BatchTxs(b), ValidTxs)
               /\ valid \in Seq(AllTxs) /\ valid \in Seq(Nat)
               /\ Len(valid) <= BatchCount(b)
               /\ IsInjective(valid)
               /\ \A i \in 1..Len(valid) : \E j \in 1..BatchCount(b) :
                      valid[i] = BatchTxs(b)[j]
<1>. DEFINE txs == BatchTxs(b)
<1>1. txs \in Seq(AllTxs) /\ txs \in Seq(Nat) /\ Len(txs) = BatchCount(b) /\ IsInjective(txs)
  BY TxAt, TxsOfBatch
<1>. HIDE DEF txs
<1>2. ValidOf(txs) = Chosen(txs, ValidTxs)
  BY <1>1, ValidOfChooses
<1>3. Chosen(txs, ValidTxs) \in Seq(AllTxs)
  BY <1>1, ChosenType
<1>4. /\ IsInjective(Chosen(txs, ValidTxs))
      /\ \A i \in 1..Len(Chosen(txs, ValidTxs)) :
             \E j \in 1..Len(txs) : Chosen(txs, ValidTxs)[i] = txs[j]
  BY <1>1, ChosenInjective
<1>5. ValidOf(txs) \in Seq(Nat) /\ Len(ValidOf(txs)) <= Len(txs)
  BY <1>1, ValidOfType
<1>. QED
  BY <1>1, <1>2, <1>3, <1>4, <1>5 DEF txs

-----------------------------------------------------------------------------
(***************************************************************************)
(* No batch is handled twice: the schedule hands each out once, and what   *)
(* is on its way is not handled yet.                                       *)
(***************************************************************************)
Waits(t) == requests[t] # <<>>

BatchesOnce ==
    /\ handled \in Seq(BatchNumbers) /\ IsInjective(handled)
    /\ \A i \in 1..Len(handled) : handled[i] < next_batch
    /\ \A t \in Threads : Waits(t) =>
         /\ Head(requests[t]) < next_batch
         /\ \A i \in 1..Len(handled) : handled[i] # Head(requests[t])
         /\ \A s \in Threads \ {t} :
                Waits(s) => Head(requests[s]) # Head(requests[t])

\* A queue that is not empty, and one that holds a single message.
LEMMA Queue ==
    ASSUME NEW S, NEW s \in Seq(S)
    PROVE  /\ Len(s) \in Nat
           /\ Len(s) = 0 <=> s = <<>>
           /\ s # <<>> => Head(s) \in S /\ Len(s) >= 1
           /\ Len(s) = 1 => Tail(s) = <<>>
<1>1. Len(s) \in Nat /\ (Len(s) = 0 <=> s = <<>>)
  OBVIOUS
<1>2. s # <<>> => Head(s) \in S /\ Len(s) >= 1
  OBVIOUS
<1>3. Len(s) = 1 => Tail(s) = <<>>
  <2>. SUFFICES ASSUME Len(s) = 1 PROVE Tail(s) = <<>>
    OBVIOUS
  <2>1. Tail(s) \in Seq(S) /\ Len(Tail(s)) = 0
    OBVIOUS
  <2>. QED
    BY <2>1, EmptySeq
<1>. QED
  BY <1>1, <1>2, <1>3

LEMMA BatchesOnceInit == SubmissionInit => BatchesOnce
<1>. SUFFICES ASSUME SubmissionInit PROVE BatchesOnce
  OBVIOUS
<1>1. handled = <<>> /\ \A t \in Threads : ~Waits(t)
  BY DEF SubmissionInit, Waits
<1>2. handled \in Seq(BatchNumbers) /\ Len(handled) = 0 /\ DOMAIN handled = {}
  BY <1>1
<1>. QED
  BY <1>1, <1>2 DEF BatchesOnce, IsInjective

LEMMA SendOnce ==
    ASSUME IInv, BatchesOnce, NEW t \in Threads, SendBatch(t)
    PROVE  BatchesOnce'
<1>1. /\ requests \in [Threads -> Seq(BatchNumbers)]
      /\ replies \in [Threads -> Seq([accepted : Nat, rejected : Nat])]
      /\ next_batch \in Nat /\ next_batch' = next_batch + 1 /\ handled' = handled
  BY NumBatches, SMTT(30) DEF IInv, TypeInv, SubmissionTypes, BatchesHeld, SendBatch, receiverVars
<1>2. /\ handled \in Seq(BatchNumbers) /\ IsInjective(handled)
      /\ \A i \in 1..Len(handled) : handled[i] \in Nat /\ handled[i] < next_batch
  BY DEF BatchesOnce, BatchNumbers
<1>3. CASE requests' = requests
  <2>1. \A s \in Threads : Waits(s)' <=> Waits(s)
    BY <1>3 DEF Waits
  <2>2. \A s \in Threads : Waits(s) => Head(requests[s]) \in Nat
    <3>. SUFFICES ASSUME NEW s \in Threads, Waits(s) PROVE Head(requests[s]) \in Nat
      OBVIOUS
    <3>1. requests[s] \in Seq(BatchNumbers) /\ requests[s] # <<>>
      BY <1>1 DEF Waits
    <3>. QED
      BY <3>1, Queue DEF BatchNumbers
  <2>. QED
    BY <1>1, <1>2, <1>3, <2>1, <2>2 DEF BatchesOnce
<1>4. CASE requests' # requests
  <2>1. /\ CanSendBatch(t)
        /\ requests' = [requests EXCEPT ![t] = Append(@, next_batch)]
    BY <1>4 DEF SendBatch
  <2>2. Len(requests[t]) = 0
    <3>1. Len(requests[t]) + Len(replies[t]) + (IF serving = t THEN 1 ELSE 0) = 0
      BY <2>1 DEF IInv, OneRequestPerSocket, CanSendBatch
    <3>2. Len(requests[t]) \in Nat /\ Len(replies[t]) \in Nat
      <4>1. requests[t] \in Seq(BatchNumbers) /\ replies[t] \in Seq([accepted : Nat, rejected : Nat])
        BY <1>1
      <4>. QED
        BY <4>1, Queue
    <3>3. PICK n \in Nat : n = Len(requests[t])
      BY <3>2
    <3>4. PICK m \in Nat : m = Len(replies[t])
      BY <3>2
    <3>5. n + m + (IF serving = t THEN 1 ELSE 0) = 0
      BY <3>1, <3>3, <3>4
    <3>6. n = 0
      BY <3>5
    <3>. QED
      BY <3>3, <3>6
  <2>3. requests[t] = <<>>
    BY <1>1, <2>2
  <2>4. Head(requests'[t]) = next_batch
    BY <1>1, <2>1, <2>3
  <2>5. \A s \in Threads \ {t} : requests'[s] = requests[s]
    BY <1>1, <2>1
  <2>6. \A s \in Threads \ {t} : Waits(s) =>
            Head(requests[s]) \in Nat /\ Head(requests[s]) < next_batch
    <3>. SUFFICES ASSUME NEW s \in Threads, Waits(s)
                  PROVE  Head(requests[s]) \in Nat /\ Head(requests[s]) < next_batch
      OBVIOUS
    <3>1. requests[s] \in Seq(BatchNumbers) /\ requests[s] # <<>>
      BY <1>1 DEF Waits
    <3>. QED
      BY <3>1, Queue DEF BatchNumbers, BatchesOnce
  <2>7. ASSUME NEW r \in Threads, Waits(r)'
        PROVE  /\ Head(requests'[r]) < next_batch'
               /\ \A i \in 1..Len(handled') : handled'[i] # Head(requests'[r])
               /\ \A s \in Threads \ {r} :
                     Waits(s)' => Head(requests'[s]) # Head(requests'[r])
    <3>1. CASE r = t
      BY <1>1, <1>2, <2>4, <2>5, <2>6, <3>1 DEF Waits
    <3>2. CASE r # t
      <4>1. Waits(r) /\ requests'[r] = requests[r]
        BY <2>5, <2>7, <3>2 DEF Waits
      <4>2. /\ Head(requests[r]) \in Nat /\ Head(requests[r]) < next_batch
            /\ \A i \in 1..Len(handled) : handled[i] # Head(requests[r])
            /\ \A s \in Threads \ {r} :
                  Waits(s) => Head(requests[s]) # Head(requests[r])
        BY <2>6, <3>2, <4>1 DEF BatchesOnce
      <4>3. \A s \in Threads \ {r} :
                  Waits(s)' => Head(requests'[s]) # Head(requests'[r])
        BY <2>4, <2>5, <4>1, <4>2 DEF Waits
      <4>. QED
        BY <1>1, <4>1, <4>2, <4>3
    <3>. QED
      BY <3>1, <3>2
  <2>8. \A i \in 1..Len(handled') : handled'[i] < next_batch'
    BY <1>1, <1>2
  <2>. QED
    BY <1>1, <1>2, <2>7, <2>8 DEF BatchesOnce
<1>. QED
  BY <1>3, <1>4

\* The batch a RecvBatch handles: one the schedule handed out and the receiver
\* has not seen.
LEMMA FreshBatch ==
    ASSUME IInv, BatchesOnce, NEW t \in Threads, RecvBatch(t)
    PROVE  LET b == Head(requests[t])
           IN  /\ b \in BatchNumbers /\ b < next_batch
               /\ \A i \in 1..Len(handled) : handled[i] # b
               /\ handled' = Append(handled, b)
               /\ requests' = [requests EXCEPT ![t] = <<>>]
<1>1. requests[t] \in Seq(BatchNumbers) /\ requests[t] # <<>>
  BY DEF IInv, TypeInv, BatchesHeld, RecvBatch
<1>2. Tail(requests[t]) = <<>>
  <2>1. replies[t] \in Seq([accepted : Nat, rejected : Nat]) /\ serving # t
    BY ThreadsAssumption DEF IInv, TypeInv, SubmissionTypes, RecvBatch
  <2>2. /\ Len(requests[t]) \in Nat /\ Len(replies[t]) \in Nat
        /\ Len(requests[t]) >= 1
    BY <1>1, <2>1, Queue
  <2>3. Len(requests[t]) + Len(replies[t]) + 0 = (IF req_state[t] = "recv" THEN 1 ELSE 0)
    BY <2>1 DEF IInv, OneRequestPerSocket
  <2>4. PICK n \in Nat : n = Len(requests[t])
    BY <2>2
  <2>5. PICK m \in Nat : m = Len(replies[t])
    BY <2>2
  <2>6. n + m + 0 <= 1 /\ n >= 1
    <3>1. n + m + 0 <= 1
      <4>1. n + m + 0 = (IF req_state[t] = "recv" THEN 1 ELSE 0)
        BY <2>3, <2>4, <2>5
      <4>. QED
        BY <4>1
    <3>2. n >= 1
      BY <2>2, <2>4
    <3>. QED
      BY <3>1, <3>2
  <2>7. Len(requests[t]) = 1
    <3>1. n = 1
      BY <2>6
    <3>. QED
      BY <2>4, <3>1
  <2>. QED
    BY <1>1, <2>7, Queue
<1>3. Head(requests[t]) \in BatchNumbers
  BY <1>1, Queue
<1>4. /\ Head(requests[t]) < next_batch
      /\ \A i \in 1..Len(handled) : handled[i] # Head(requests[t])
  BY <1>1 DEF BatchesOnce, Waits
<1>5. requests' = [requests EXCEPT ![t] = <<>>]
  BY <1>2 DEF RecvBatch
<1>6. handled' = Append(handled, Head(requests[t]))
  BY DEF RecvBatch
<1>. QED
  BY <1>3, <1>4, <1>5, <1>6

LEMMA RecvOnce ==
    ASSUME IInv, BatchesOnce, NEW t \in Threads, RecvBatch(t)
    PROVE  BatchesOnce'
<1>. DEFINE b == Head(requests[t])
<1>1. /\ b \in BatchNumbers /\ b < next_batch
      /\ \A i \in 1..Len(handled) : handled[i] # b
      /\ handled' = Append(handled, b)
      /\ requests' = [requests EXCEPT ![t] = <<>>]
      /\ next_batch' = next_batch
  BY FreshBatch DEF RecvBatch, generatorVars
<1>2. Waits(t) /\ ~Waits(t)' /\ \A s \in Threads \ {t} : requests'[s] = requests[s]
  BY <1>1 DEF Waits, RecvBatch, IInv, TypeInv, BatchesHeld
<1>3. \A s \in Threads \ {t} : Waits(s) => Head(requests[s]) # b
  BY <1>2 DEF BatchesOnce
<1>4. /\ handled \in Seq(BatchNumbers) /\ IsInjective(handled)
      /\ \A i \in 1..Len(handled) : handled[i] < next_batch
  BY DEF BatchesOnce
<1>. HIDE DEF b
<1>5. handled' \in Seq(BatchNumbers) /\ IsInjective(handled')
  BY <1>1, <1>4, InjectiveAppend
<1>6. /\ Len(handled') = Len(handled) + 1 /\ Len(handled) \in Nat
      /\ \A i \in 1..Len(handled) : handled'[i] = handled[i]
      /\ handled'[Len(handled) + 1] = b
  BY <1>1, <1>4
<1>7. \A i \in 1..Len(handled') : handled'[i] < next_batch'
  BY <1>1, <1>4, <1>6
<1>8. ASSUME NEW r \in Threads, Waits(r)'
      PROVE  /\ Head(requests'[r]) < next_batch'
             /\ \A i \in 1..Len(handled') : handled'[i] # Head(requests'[r])
             /\ \A s \in Threads \ {r} :
                   Waits(s)' => Head(requests'[s]) # Head(requests'[r])
  <2>1. r # t /\ Waits(r) /\ requests'[r] = requests[r]
    BY <1>2, <1>8 DEF Waits
  <2>2. /\ Head(requests[r]) < next_batch
        /\ \A i \in 1..Len(handled) : handled[i] # Head(requests[r])
        /\ \A s \in Threads \ {r} :
              Waits(s) => Head(requests[s]) # Head(requests[r])
        /\ Head(requests[r]) # b
    BY <1>3, <2>1 DEF BatchesOnce
  <2>3. \A s \in Threads \ {r} :
              Waits(s)' => Head(requests'[s]) # Head(requests'[r])
    BY <1>2, <2>1, <2>2 DEF Waits
  <2>4. \A i \in 1..Len(handled') : handled'[i] # Head(requests[r])
    BY <1>6, <2>2
  <2>. QED
    BY <1>1, <2>1, <2>2, <2>3, <2>4
<1>. QED
  BY <1>5, <1>7, <1>8 DEF BatchesOnce

LEMMA BatchesOnceStep ==
    ASSUME IInv, BatchesOnce, [SubmissionNext]_submissionVars
    PROVE  BatchesOnce'
<1>1. CASE UNCHANGED <<requests, handled, next_batch>>
  BY <1>1 DEF BatchesOnce, Waits
<1>2. CASE \E t \in Threads : SendBatch(t) \/ RecvBatch(t)
  BY <1>2, SendOnce, RecvOnce
<1>. QED
  BY <1>1, <1>2 DEF SubmissionNext, ThreadStep, RecvReply, LeaveLoop, RecvTimeout, ReceiverStep,
         Dispatch, SendReply, Idle, submissionVars, generatorVars, receiverVars

-----------------------------------------------------------------------------
(***************************************************************************)
(* No transaction is dispatched twice, or dispatched and still pooled:     *)
(* what the mempool has seen comes from the handled batches, once each.    *)
(***************************************************************************)
Seen == AllDispatched \o mempool

InBatch(tx, b) == \E j \in 1..BatchCount(b) : tx = BatchTxs(b)[j]

SeenHandled ==
    \A i \in 1..Len(Seen) : \E k \in 1..Len(handled) : InBatch(Seen[i], handled[k])

OnceInv == IInv /\ BatchesOnce /\ IsInjective(Seen) /\ SeenHandled

LEMMA SeenType ==
    ASSUME SubmissionTypes
    PROVE  /\ mempool \in Seq(Nat)
           /\ AllDispatched \in Seq(Nat)
           /\ Seen \in Seq(Nat)
<1>1. mempool \in Seq(Nat) /\ dispatched \in Seq(Seq(Nat))
  BY DEF SubmissionTypes
<1>2. AllDispatched \in Seq(Nat)
  BY <1>1, FlattenType DEF AllDispatched
<1>. QED
  BY <1>1, <1>2 DEF Seen

LEMMA OnceInit == SubmissionInit => OnceInv
<1>. SUFFICES ASSUME SubmissionInit PROVE OnceInv
  OBVIOUS
<1>1. IInv /\ BatchesOnce
  BY SafetyInit, BatchesOnceInit
<1>2. AllDispatched = <<>> /\ mempool = <<>>
  BY FlattenEmpty DEF AllDispatched, SubmissionInit
<1>3. Seen = <<>>
  BY <1>2 DEF Seen
<1>4. Len(<<>>) = 0 /\ DOMAIN <<>> = {}
  OBVIOUS
<1>5. IsInjective(Seen) /\ SeenHandled
  BY <1>3, <1>4 DEF IsInjective, SeenHandled
<1>. QED
  BY <1>1, <1>5 DEF OnceInv

\* The part of a batch that mempool_add takes.
LEMMA AddedPart ==
    ASSUME SubmissionTypes, NEW b \in BatchNumbers
    PROVE  LET valid == ValidOf(BatchTxs(b))
           IN  /\ Added(valid) \in Seq(Nat)
               /\ IsInjective(Added(valid))
               /\ \A i \in 1..Len(Added(valid)) : InBatch(Added(valid)[i], b)
<1>. DEFINE valid == ValidOf(BatchTxs(b))
            n == SmallerOf(capacity - Len(mempool), Len(valid))
<1>1. /\ valid \in Seq(Nat) /\ IsInjective(valid)
      /\ \A i \in 1..Len(valid) : InBatch(valid[i], b)
  BY BatchPart DEF InBatch
<1>2. mempool \in Seq(Nat) /\ Len(mempool) <= capacity /\ capacity \in Nat
  BY CountsAssumption DEF SubmissionTypes
<1>3. n \in 0..Len(valid)
  BY <1>1, <1>2 DEF SmallerOf
<1>4. Added(valid) = SubSeq(valid, 1, n)
  BY DEF Added
<1>. HIDE DEF valid, n
<1>5. IsInjective(Added(valid))
  BY <1>1, <1>3, <1>4, InjectivePrefix
<1>6. /\ SubSeq(valid, 1, n) \in Seq(Nat) /\ Len(SubSeq(valid, 1, n)) = n
      /\ \A i \in 1..n : SubSeq(valid, 1, n)[i] = valid[i]
  BY <1>1, <1>3
<1>7. ASSUME NEW i \in 1..n PROVE InBatch(Added(valid)[i], b)
  <2>1. i \in 1..Len(valid)
    BY <1>1, <1>3
  <2>. QED
    BY <1>1, <1>4, <1>6, <2>1
<1>. QED
  BY <1>4, <1>5, <1>6, <1>7 DEF valid

\* What a request adds to the mempool is added to what it has seen.
LEMMA RecvAdds ==
    ASSUME IInv, BatchesOnce, NEW t \in Threads, RecvBatch(t)
    PROVE  LET b == Head(requests[t])
               more == Added(ValidOf(BatchTxs(b)))
           IN  /\ b \in BatchNumbers
               /\ more \in Seq(Nat)
               /\ Seen' = Seen \o more
<1>. DEFINE b == Head(requests[t])
            more == Added(ValidOf(BatchTxs(b)))
<1>1. SubmissionTypes /\ mempool \in Seq(Nat) /\ AllDispatched \in Seq(Nat)
  BY SeenType DEF IInv, TypeInv
<1>2. b \in BatchNumbers
  BY FreshBatch
<1>3. mempool' = mempool \o more /\ dispatched' = dispatched
  BY DEF RecvBatch
<1>4. more \in Seq(Nat)
  BY <1>1, <1>2, AddedPart
<1>. HIDE DEF b, more
<1>5. AllDispatched' = AllDispatched
  BY <1>3 DEF AllDispatched
<1>6. Seen' = Seen \o more
  <2>1. (AllDispatched \o mempool) \o more = AllDispatched \o (mempool \o more)
    BY <1>1, <1>4, Regrouped, Zenon
  <2>. QED
    BY <1>3, <1>5, <2>1, Zenon DEF Seen
<1>. QED
  BY <1>2, <1>4, <1>6 DEF b, more

LEMMA RecvSeen ==
    ASSUME OnceInv, NEW t \in Threads, RecvBatch(t)
    PROVE  IsInjective(Seen') /\ SeenHandled'
<1>. DEFINE b == Head(requests[t])
            more == Added(ValidOf(BatchTxs(b)))
<1>1. /\ IInv /\ BatchesOnce /\ SubmissionTypes
      /\ Seen \in Seq(Nat) /\ mempool \in Seq(Nat) /\ AllDispatched \in Seq(Nat)
  BY SeenType DEF OnceInv, IInv, TypeInv
<1>2. /\ b \in BatchNumbers
      /\ \A k \in 1..Len(handled) : handled[k] # b
      /\ handled' = Append(handled, b)
  BY <1>1, FreshBatch
<1>4. /\ more \in Seq(Nat) /\ IsInjective(more)
      /\ \A i \in 1..Len(more) : InBatch(more[i], b)
  BY <1>1, <1>2, AddedPart
<1>5. Seen' = Seen \o more
  BY <1>1, RecvAdds
<1>. HIDE DEF b, more
<1>6. handled \in Seq(BatchNumbers)
  BY <1>1 DEF BatchesOnce
<1>7. ASSUME NEW i \in 1..Len(Seen), NEW j \in 1..Len(more)
      PROVE  Seen[i] # more[j]
  <2>1. PICK k \in 1..Len(handled) : InBatch(Seen[i], handled[k])
    BY DEF OnceInv, SeenHandled
  <2>2. handled[k] \in BatchNumbers /\ handled[k] # b /\ InBatch(more[j], b)
    BY <1>2, <1>4, <1>6
  <2>. QED
    BY <1>2, <2>1, <2>2, BatchesApart DEF InBatch
<1>8. IsInjective(Seen')
  BY <1>1, <1>4, <1>5, <1>7, InjectiveConcat DEF OnceInv
<1>9. /\ Len(Seen \o more) = Len(Seen) + Len(more)
      /\ Len(Seen) \in Nat /\ Len(more) \in Nat
      /\ \A i \in 1..Len(Seen) : (Seen \o more)[i] = Seen[i]
      /\ \A i \in Len(Seen) + 1 .. Len(Seen) + Len(more) :
             (Seen \o more)[i] = more[i - Len(Seen)]
  BY <1>1, <1>4
<1>10. /\ Len(handled') = Len(handled) + 1 /\ Len(handled) \in Nat
       /\ \A k \in 1..Len(handled) : handled'[k] = handled[k]
       /\ handled'[Len(handled) + 1] = b
  BY <1>2, <1>6
<1>11. ASSUME NEW i \in 1..Len(Seen')
       PROVE  \E k \in 1..Len(handled') : InBatch(Seen'[i], handled'[k])
  <2>1. CASE i \in 1..Len(Seen)
    <3>1. PICK k \in 1..Len(handled) : InBatch(Seen[i], handled[k])
      BY <2>1 DEF OnceInv, SeenHandled
    <3>2. k \in 1..Len(handled') /\ handled'[k] = handled[k]
      BY <1>10, <3>1
    <3>3. Seen'[i] = Seen[i]
      BY <1>5, <1>9, <2>1
    <3>. QED
      BY <3>1, <3>2, <3>3
  <2>2. CASE i \notin 1..Len(Seen)
    <3>1. i \in Len(Seen) + 1 .. Len(Seen) + Len(more)
      BY <1>5, <1>9, <1>11, <2>2
    <3>2. Seen'[i] = more[i - Len(Seen)] /\ i - Len(Seen) \in 1..Len(more)
      BY <1>5, <1>9, <3>1
    <3>3. InBatch(Seen'[i], b)
      BY <1>4, <3>2
    <3>4. Len(handled) + 1 \in 1..Len(handled') /\ handled'[Len(handled) + 1] = b
      BY <1>10
    <3>. QED
      BY <3>3, <3>4
  <2>. QED
    BY <2>1, <2>2
<1>. QED
  BY <1>8, <1>11 DEF SeenHandled

LEMMA ConcatPrefix ==
    ASSUME NEW S, NEW s \in Seq(S), NEW r \in Seq(S), NEW n \in 0..Len(r)
    PROVE  s \o SubSeq(r, 1, n) = SubSeq(s \o r, 1, Len(s) + n)
<1>. DEFINE p == SubSeq(r, 1, n)
            c == s \o r
            q == SubSeq(c, 1, Len(s) + n)
<1>1. /\ p \in Seq(S) /\ Len(p) = n /\ n \in Nat /\ Len(s) \in Nat
      /\ \A i \in 1..n : p[i] = r[i]
  OBVIOUS
<1>2. /\ c \in Seq(S) /\ Len(s) + n \in 0..Len(c)
      /\ \A i \in 1 .. Len(s) + n : c[i] = IF i <= Len(s) THEN s[i] ELSE r[i - Len(s)]
  OBVIOUS
<1>. HIDE DEF p, c
<1>3. /\ q \in Seq(S) /\ Len(q) = Len(s) + n
      /\ \A i \in 1 .. Len(s) + n : q[i] = c[i]
  BY <1>2
<1>. HIDE DEF q
<1>4. /\ s \o p \in Seq(S) /\ Len(s \o p) = Len(s) + n
      /\ \A i \in 1 .. Len(s) + n :
             (s \o p)[i] = IF i <= Len(s) THEN s[i] ELSE p[i - Len(s)]
  BY <1>1, ConcatProperties
<1>5. \A i \in 1 .. Len(s) + n : (s \o p)[i] = q[i]
  <2>. SUFFICES ASSUME NEW i \in 1 .. Len(s) + n PROVE (s \o p)[i] = q[i]
    OBVIOUS
  <2>1. i > Len(s) => i - Len(s) \in 1..n
    BY <1>1
  <2>2. q[i] = IF i <= Len(s) THEN s[i] ELSE r[i - Len(s)]
    BY <1>2, <1>3
  <2>3. (s \o p)[i] = IF i <= Len(s) THEN s[i] ELSE p[i - Len(s)]
    BY <1>4
  <2>4. CASE i <= Len(s)
    BY <2>2, <2>3, <2>4
  <2>5. CASE ~(i <= Len(s))
    <3>1. i - Len(s) \in 1..n
      BY <1>1, <2>1, <2>5
    <3>2. p[i - Len(s)] = r[i - Len(s)]
      BY <1>1, <3>1
    <3>. QED
      BY <2>2, <2>3, <2>5, <3>2
  <2>. QED
    BY <2>4, <2>5
<1>6. s \o p = q
  BY <1>3, <1>4, <1>5, SeqEqual
<1>. QED
  BY <1>6 DEF p, q, c

\* A drain keeps the front of the mempool and drops the rest of it.
LEMMA DispatchKeeps ==
    ASSUME IInv, Dispatch, dispatched' # dispatched
    PROVE  LET n == SmallerOf(Exact, Len(mempool))
           IN  /\ n \in 0..Len(mempool)
               /\ mempool' = <<>>
               /\ Seen' = AllDispatched \o SubSeq(mempool, 1, n)
<1>. DEFINE n == SmallerOf(Exact, Len(mempool))
<1>1. /\ mempool \in Seq(Nat) /\ AllDispatched \in Seq(Nat)
      /\ dispatched \in Seq(Seq(Nat)) /\ block_size \in Nat \ {0}
  BY SeenType, CountsAssumption DEF IInv, TypeInv, SubmissionTypes
<1>2. n \in 0..Len(mempool)
  BY <1>1, SizeOfDrain DEF SmallerOf
<1>3. /\ dispatched' = Append(dispatched, SubSeq(mempool, 1, n))
      /\ mempool' = <<>>
  BY DEF Dispatch, Drained, AfterDrain
<1>. HIDE DEF n
<1>4. SubSeq(mempool, 1, n) \in Seq(Nat) /\ Len(SubSeq(mempool, 1, n)) = n
  BY <1>1, <1>2
<1>5. Seen' = AllDispatched \o SubSeq(mempool, 1, n)
  <2>1. AllDispatched' = AllDispatched \o SubSeq(mempool, 1, n)
    BY <1>1, <1>3, <1>4, FlattenAppend DEF AllDispatched
  <2>2. AllDispatched' \in Seq(Nat)
    BY <1>1, <1>4, <2>1
  <2>3. AllDispatched' \o <<>> = AllDispatched'
    BY <2>2
  <2>. QED
    BY <1>3, <2>1, <2>3 DEF Seen
<1>. QED
  BY <1>2, <1>3, <1>5 DEF n

LEMMA DispatchSeen ==
    ASSUME OnceInv, Dispatch, dispatched' # dispatched
    PROVE  IsInjective(Seen') /\ SeenHandled'
<1>. DEFINE n == SmallerOf(Exact, Len(mempool))
            kept == Len(AllDispatched) + n
<1>1. /\ Seen \in Seq(Nat) /\ mempool \in Seq(Nat) /\ AllDispatched \in Seq(Nat)
      /\ IInv
  BY SeenType DEF OnceInv, IInv, TypeInv
<1>2. /\ n \in 0..Len(mempool)
      /\ Seen' = AllDispatched \o SubSeq(mempool, 1, n)
  BY <1>1, DispatchKeeps
<1>3. handled' = handled
  BY DEF Dispatch
<1>. HIDE DEF n
<1>6. Seen' = SubSeq(Seen, 1, kept) /\ kept \in 0..Len(Seen)
  <2>1. kept \in 0..Len(Seen) /\ Len(Seen) = Len(AllDispatched) + Len(mempool)
    BY <1>1, <1>2 DEF Seen
  <2>2. AllDispatched \o SubSeq(mempool, 1, n) = SubSeq(AllDispatched \o mempool, 1, kept)
    BY <1>1, <1>2, ConcatPrefix
  <2>. QED
    BY <1>2, <2>1, <2>2 DEF Seen
<1>. HIDE DEF kept
<1>7. IsInjective(Seen')
  BY <1>1, <1>6, InjectivePrefix DEF OnceInv
<1>8. /\ Len(SubSeq(Seen, 1, kept)) = kept
      /\ \A i \in 1..kept : SubSeq(Seen, 1, kept)[i] = Seen[i] /\ i \in 1..Len(Seen)
  BY <1>1, <1>6
<1>9. SeenHandled'
  <2>. SUFFICES ASSUME NEW i \in 1..Len(Seen')
                PROVE  \E k \in 1..Len(handled') : InBatch(Seen'[i], handled'[k])
    BY DEF SeenHandled, InBatch
  <2>1. i \in 1..Len(Seen) /\ Seen'[i] = Seen[i]
    BY <1>6, <1>8
  <2>. QED
    BY <1>3, <2>1 DEF SeenHandled, OnceInv
<1>. QED
  BY <1>7, <1>9

\* A dispatch that reaches an assigner adds a block.
LEMMA DispatchChanges ==
    ASSUME IInv, Dispatch
    PROVE  dispatched' # dispatched \/ (dispatched' = dispatched /\ mempool' = mempool)
<1>. SUFFICES ASSUME g_assigner # None PROVE dispatched' # dispatched
  BY DEF Dispatch
<1>1. dispatched \in Seq(Seq(Nat))
  BY DEF IInv, TypeInv, SubmissionTypes
<1>2. Drained(mempool, Exact) \in Seq(Nat)
  <2>1. block_size \in Nat \ {0} /\ mempool \in Seq(Nat)
    BY CountsAssumption DEF IInv, TypeInv, SubmissionTypes
  <2>. QED
    BY <2>1, SizeOfDrain DEF Drained, SmallerOf
<1>3. dispatched' = Append(dispatched, Drained(mempool, Exact))
  BY DEF Dispatch
<1>. QED
  BY <1>1, <1>2, <1>3

LEMMA OnceStep == OnceInv /\ [SubmissionNext]_submissionVars => OnceInv'
<1>. SUFFICES ASSUME OnceInv, [SubmissionNext]_submissionVars PROVE OnceInv'
  OBVIOUS
<1>1. IInv' /\ BatchesOnce'
  BY SafetyStep, BatchesOnceStep DEF OnceInv
<1>2. CASE UNCHANGED <<dispatched, mempool, handled>>
  <2>1. Seen' = Seen
    BY <1>2 DEF Seen, AllDispatched
  <2>. QED
    BY <1>1, <1>2, <2>1 DEF OnceInv, SeenHandled, InBatch
<1>3. CASE \E t \in Threads : RecvBatch(t)
  BY <1>1, <1>3, RecvSeen DEF OnceInv
<1>4. CASE Dispatch /\ dispatched' # dispatched
  BY <1>1, <1>4, DispatchSeen DEF OnceInv
<1>5. \/ UNCHANGED <<dispatched, mempool, handled>>
      \/ \E t \in Threads : RecvBatch(t)
      \/ Dispatch /\ dispatched' # dispatched
  <2>1. Dispatch => dispatched' # dispatched \/ UNCHANGED <<dispatched, mempool, handled>>
    BY DispatchChanges DEF OnceInv, Dispatch
  <2>. QED
    BY <2>1 DEF SubmissionNext, ThreadStep, SendBatch, RecvReply, LeaveLoop, RecvTimeout,
         ReceiverStep, SendReply, Idle, submissionVars, receiverVars
<1>. QED
  BY <1>2, <1>3, <1>4, <1>5

\* However the batches of the threads interleave and whatever times out, the
\* blocks and the mempool hold no transaction twice (mempool.c:51), for any
\* number of threads, transactions and shards, and any sizes.
THEOREM NeverDispatchedTwice == SubmissionSpec => []DispatchedOnce
<1>1. OnceInv => DispatchedOnce
  BY DEF OnceInv, DispatchedOnce, Seen
<1>. QED
  BY <1>1, OnceInit, OnceStep, PTL DEF SubmissionSpec

-----------------------------------------------------------------------------
(***************************************************************************)
(* The mempool takes every valid transaction, as long as a block less one  *)
(* and a batch fit in it.                                                  *)
(***************************************************************************)
PartsOf(batches) ==
    [i \in 1..Len(batches) |-> Chosen(BatchTxs(batches[i]), ValidTxs)]

LEMMA PartsAppend ==
    ASSUME NEW batches \in Seq(BatchNumbers), NEW b \in BatchNumbers
    PROVE  /\ PartsOf(batches) \in Seq(Seq(Nat))
           /\ Chosen(BatchTxs(b), ValidTxs) \in Seq(Nat)
           /\ PartsOf(Append(batches, b)) =
                Append(PartsOf(batches), Chosen(BatchTxs(b), ValidTxs))
<1>. DEFINE n == Len(batches)
            more == Append(batches, b)
            Part(c) == Chosen(BatchTxs(c), ValidTxs)
<1>1. \A c \in BatchNumbers : Part(c) \in Seq(Nat)
  BY BatchPart
<1>. HIDE DEF Part
<1>2. /\ n \in Nat /\ Len(more) = n + 1 /\ more[n + 1] = b
      /\ \A i \in 1..n : batches[i] \in BatchNumbers /\ more[i] = batches[i]
  OBVIOUS
<1>. DEFINE parts == [i \in 1..n |-> Part(batches[i])]
            longer == [i \in 1 .. n + 1 |-> Part(more[i])]
<1>3. PartsOf(batches) = parts /\ PartsOf(more) = longer
  BY <1>2 DEF PartsOf, Part
<1>. HIDE DEF n, more
<1>4. parts \in Seq(Seq(Nat)) /\ Len(parts) = n
  BY <1>1, <1>2
<1>5. longer = Append(parts, Part(b))
  <2>1. \A i \in 1 .. n + 1 : longer[i] \in Seq(Nat)
    <3>. SUFFICES ASSUME NEW i \in 1 .. n + 1 PROVE longer[i] \in Seq(Nat)
      OBVIOUS
    <3>1. more[i] \in BatchNumbers
      BY <1>2
    <3>. QED
      BY <1>1, <3>1
  <2>2. longer \in Seq(Seq(Nat)) /\ Len(longer) = n + 1
    BY <1>2, <2>1
  <2>3. /\ Append(parts, Part(b)) \in Seq(Seq(Nat))
        /\ Len(Append(parts, Part(b))) = n + 1
        /\ Append(parts, Part(b))[n + 1] = Part(b)
        /\ \A i \in 1..n : Append(parts, Part(b))[i] = parts[i]
    <3>. HIDE DEF parts
    <3>. QED
      BY <1>1, <1>2, <1>4
  <2>4. ASSUME NEW i \in 1 .. n + 1 PROVE longer[i] = Append(parts, Part(b))[i]
    <3>1. CASE i = n + 1
      BY <1>2, <2>3, <3>1
    <3>2. CASE i # n + 1
      <4>1. i \in 1..n /\ more[i] = batches[i]
        BY <1>2, <3>2
      <4>2. longer[i] = Part(batches[i]) /\ parts[i] = Part(batches[i])
        BY <4>1
      <4>. QED
        BY <2>3, <4>1, <4>2
    <3>. QED
      BY <3>1, <3>2
  <2>. HIDE DEF longer, parts
  <2>. QED
    BY <2>2, <2>3, <2>4, SeqEqual
<1>. HIDE DEF parts, longer
<1>. QED
  BY <1>1, <1>3, <1>4, <1>5 DEF Part, more

LEMMA NoneRefusedInit == SubmissionInit => NoneRefused
<1>. SUFFICES ASSUME SubmissionInit PROVE added = ValidReceived
  BY DEF NoneRefused
<1>1. added = <<>> /\ handled = <<>>
  BY DEF SubmissionInit
<1>2. ValidReceived = FlattenSeq(<<>>)
  BY <1>1 DEF ValidReceived
<1>. QED
  BY <1>1, <1>2, FlattenEmpty, Zenon

LEMMA NoneRefusedStep ==
    ASSUME OnceInv, NoneRefused, [SubmissionNext]_submissionVars
    PROVE  NoneRefused'
<1>1. CASE UNCHANGED <<block_size, added, handled>>
  BY <1>1 DEF NoneRefused, ValidReceived
<1>2. ASSUME NEW t \in Threads, RecvBatch(t) PROVE NoneRefused'
  <2>. SUFFICES ASSUME block_size - 1 + batch_size <= capacity
                PROVE  added' = ValidReceived'
    BY <1>2 DEF NoneRefused, RecvBatch
  <2>. DEFINE b == Head(requests[t])
              valid == ValidOf(BatchTxs(b))
  <2>1. /\ b \in BatchNumbers /\ handled' = Append(handled, b)
        /\ handled \in Seq(BatchNumbers)
    BY <1>2, FreshBatch DEF OnceInv, BatchesOnce
  <2>2. Added(valid) = valid /\ added' = added \o Added(valid)
    BY <1>2, <2>1, RoomInv DEF OnceInv, RoomForBatch, RecvBatch
  <2>3. valid = Chosen(BatchTxs(b), ValidTxs)
    BY <2>1, BatchPart
  <2>. HIDE DEF valid, b
  <2>4. added = FlattenSeq(PartsOf(handled))
    BY DEF NoneRefused, ValidReceived, PartsOf
  <2>5. FlattenSeq(PartsOf(Append(handled, b))) = FlattenSeq(PartsOf(handled)) \o valid
    BY <2>1, <2>3, PartsAppend, FlattenAppend
  <2>6. ValidReceived' = FlattenSeq(PartsOf(Append(handled, b)))
    <3>1. ValidReceived' = FlattenSeq(PartsOf(handled'))
      BY DEF ValidReceived, PartsOf
    <3>. QED
      BY <2>1, <3>1, Zenon
  <2>. QED
    BY <2>2, <2>4, <2>5, <2>6, Zenon
<1>. QED
  BY <1>1, <1>2 DEF SubmissionNext, ThreadStep, SendBatch, RecvReply, LeaveLoop, RecvTimeout,
         ReceiverStep, Dispatch, SendReply, Idle, submissionVars, receiverVars

\* Where a block less one and a batch fit in the mempool, it takes every valid
\* transaction of every batch it is handed (receiver.c:178), in their order.
THEOREM TakesAllThatIsValid == SubmissionSpec => []NoneRefused
<1>1. SubmissionInit => OnceInv /\ NoneRefused
  BY OnceInit, NoneRefusedInit
<1>2. OnceInv /\ NoneRefused /\ [SubmissionNext]_submissionVars => (OnceInv /\ NoneRefused)'
  BY OnceStep, NoneRefusedStep
<1>. QED
  BY <1>1, <1>2, PTL DEF SubmissionSpec

-----------------------------------------------------------------------------
(***************************************************************************)
(* When sizes divide each other a drain drops nothing: the mempool holds   *)
(* whole batches, so that it is a block exactly when it is drained.        *)
(***************************************************************************)
Aligned ==
    /\ \A n \in block_sizes : n % num_shards = 0 /\ n % batch_size = 0
    /\ total_count % batch_size = 0
    /\ \A b \in BatchNumbers : ValidOf(BatchTxs(b)) \in {<<>>, BatchTxs(b)}

WholeBatches ==
    block_size <= capacity =>
        /\ Len(mempool) <= block_size
        /\ \E k \in Nat : Len(mempool) = k * batch_size

KeptInv == IInv /\ BatchesOnce /\ WholeBatches /\ NothingDropped

LEMMA Multiple ==
    ASSUME NEW n \in Nat, NEW d \in Nat \ {0}, n % d = 0
    PROVE  n = (n \div d) * d /\ n \div d \in Nat
  OBVIOUS

\* A multiple below another is below it by one at least.
LEMMA MultiplesApart ==
    ASSUME NEW j \in Nat, NEW k \in Nat, NEW d \in Nat \ {0}, j * d < k * d
    PROVE  j * d + d <= k * d
<1>1. j < k
  <2>. SUFFICES ASSUME k <= j PROVE FALSE
    OBVIOUS
  <2>1. k * d <= j * d /\ k * d \in Nat /\ j * d \in Nat
    BY ProductMonotone
  <2>. QED
    BY <2>1
<1>2. (j + 1) * d <= k * d
  BY <1>1, ProductMonotone
<1>3. (j + 1) * d = j * d + d
  OBVIOUS
<1>. QED
  BY <1>2, <1>3

LEMMA FullBatch ==
    ASSUME Aligned, NEW b \in BatchNumbers
    PROVE  BatchCount(b) = batch_size
<1>1. total_count \in Nat /\ batch_size \in Nat \ {0} /\ b \in Nat /\ num_batches \in Nat
  BY CountsAssumption, NumBatches DEF BatchNumbers
<1>. DEFINE k == total_count \div batch_size
            start == b * batch_size
<1>2. total_count = k * batch_size /\ k \in Nat
  BY <1>1, Multiple DEF Aligned
<1>3. start < total_count /\ start \in Nat
  <2>1. BatchCount(b) >= 1 /\ BatchCount(b) \in Int /\ start \in Nat
    BY SizeOfBatch, CountsAssumption
  <2>2. BatchCount(b) = SmallerOf((b + 1) * batch_size, total_count) - start
    BY DEF BatchCount, BatchEnd
  <2>3. (b + 1) * batch_size = start + batch_size
    BY <1>1
  <2>. HIDE DEF start
  <2>. QED
    BY <1>1, <2>1, <2>2, <2>3 DEF SmallerOf
<1>. HIDE DEF k
<1>4. start + batch_size <= total_count
  BY <1>1, <1>2, <1>3, MultiplesApart
<1>5. (b + 1) * batch_size = start + batch_size
  BY <1>1
<1>6. BatchCount(b) = SmallerOf((b + 1) * batch_size, total_count) - start
  BY DEF BatchCount, BatchEnd
<1>. HIDE DEF start
<1>. QED
  BY <1>1, <1>3, <1>4, <1>5, <1>6 DEF SmallerOf

LEMMA KeptInit == SubmissionInit => KeptInv
<1>. SUFFICES ASSUME SubmissionInit PROVE KeptInv
  OBVIOUS
<1>1. IInv /\ BatchesOnce
  BY SafetyInit, BatchesOnceInit
<1>2. /\ mempool = <<>> /\ dispatched = <<>> /\ added = <<>>
      /\ block_size \in Nat /\ batch_size \in Nat
  BY CountsAssumption DEF SubmissionInit
<1>3. WholeBatches
  <2>1. Len(mempool) = 0 /\ 0 = 0 * batch_size /\ 0 <= block_size
    BY <1>2
  <2>. QED
    BY <2>1 DEF WholeBatches
<1>4. AllDispatched = <<>>
  BY <1>2, FlattenEmpty DEF AllDispatched
<1>5. NothingDropped
  BY <1>2, <1>4 DEF NothingDropped
<1>. QED
  BY <1>1, <1>3, <1>5 DEF KeptInv

\* The mempool takes a whole batch or none of it.
LEMMA RecvKeeps ==
    ASSUME Aligned, KeptInv, NEW t \in Threads, RecvBatch(t)
    PROVE  WholeBatches' /\ NothingDropped'
<1>. DEFINE b == Head(requests[t])
            valid == ValidOf(BatchTxs(b))
            more == Added(valid)
<1>1. /\ b \in BatchNumbers /\ more \in Seq(Nat) /\ Seen' = Seen \o more
  BY RecvAdds DEF KeptInv
<1>2. NothingDropped'
  <2>1. added' = added \o more /\ added = Seen
    BY DEF RecvBatch, KeptInv, NothingDropped, Seen
  <2>. HIDE DEF more
  <2>. QED
    BY <1>1, <2>1 DEF NothingDropped, Seen
<1>3. /\ serving = None /\ mempool' = mempool \o more /\ block_size' = block_size
  BY DEF RecvBatch
<1>4. /\ mempool \in Seq(Nat) /\ Len(mempool) \in Nat /\ Len(mempool) < block_size
      /\ {block_size, capacity} \subseteq Nat /\ batch_size \in Nat \ {0}
      /\ block_size \in block_sizes /\ block_size \in Nat \ {0}
  BY <1>3, CountsAssumption DEF KeptInv, IInv, TypeInv, SubmissionTypes, PoolBelowBlock
<1>5. ASSUME block_size <= capacity
      PROVE  Len(mempool') <= block_size /\ \E k \in Nat : Len(mempool') = k * batch_size
  <2>1. PICK k \in Nat : Len(mempool) = k * batch_size
    BY <1>5 DEF KeptInv, WholeBatches
  <2>2. block_size % batch_size = 0
    BY <1>4 DEF Aligned
  <2>3. PICK n \in Nat : block_size = n * batch_size
    BY <1>4, <2>2, Multiple
  <2>4. k * batch_size + batch_size <= n * batch_size
    BY <1>4, <2>1, <2>3, MultiplesApart
  <2>5. Len(mempool) + batch_size <= block_size
    BY <2>1, <2>3, <2>4
  <2>6. Len(mempool') = Len(mempool) + Len(more)
    <3>. HIDE DEF more
    <3>. QED
      BY <1>1, <1>3, <1>4
  <2>7. Len(more) \in {0, batch_size}
    <3>1. valid \in Seq(Nat) /\ Len(BatchTxs(b)) = batch_size
      BY <1>1, TxsOfBatch, ValidOfType, FullBatch
    <3>2. valid = <<>> \/ valid = BatchTxs(b)
      BY <1>1 DEF Aligned
    <3>3. Len(valid) \in {0, batch_size}
      <4>. HIDE DEF valid
      <4>. QED
        BY <3>1, <3>2
    <3>. HIDE DEF valid
    <3>4. SmallerOf(capacity - Len(mempool), Len(valid)) = Len(valid)
      BY <1>4, <1>5, <2>5, <3>3 DEF SmallerOf
    <3>5. Len(more) = Len(valid)
      BY <3>1, <3>4 DEF Added
    <3>. QED
      BY <3>3, <3>5
  <2>. HIDE DEF more
  <2>8. CASE Len(more) = 0
    <3>1. Len(mempool') = Len(mempool)
      BY <1>4, <2>6, <2>8
    <3>. QED
      BY <1>4, <2>1, <3>1
  <2>9. CASE Len(more) = batch_size
    <3>1. k + 1 \in Nat /\ (k + 1) * batch_size = k * batch_size + batch_size
      BY <1>4, <2>1
    <3>2. Len(mempool') = (k + 1) * batch_size
      BY <2>1, <2>6, <2>9, <3>1
    <3>. QED
      BY <2>5, <2>6, <2>9, <3>1, <3>2
  <2>. QED
    BY <2>7, <2>8, <2>9
<1>. QED
  BY <1>2, <1>3, <1>5 DEF WholeBatches

\* The mempool is a block, no more, and the whole of it is drained.
LEMMA DispatchWhole ==
    ASSUME Aligned, KeptInv, Dispatch
    PROVE  WholeBatches' /\ NothingDropped'
<1>1. /\ mempool \in Seq(Nat) /\ Len(mempool) \in Nat /\ Len(mempool) <= capacity
      /\ block_size \in Nat \ {0} /\ block_size \in block_sizes
      /\ {capacity, batch_size} \subseteq Nat /\ num_shards \in Nat \ {0}
      /\ AllDispatched \in Seq(Nat)
  BY CountsAssumption, SeenType, SMTT(30) DEF KeptInv, IInv, TypeInv, SubmissionTypes
<1>2. Len(mempool) >= block_size
  BY DEF Dispatch, BlockReady
<1>3. Len(mempool) = block_size
  BY <1>1, <1>2 DEF KeptInv, WholeBatches
<1>4. block_size' = block_size /\ added' = added
  BY DEF Dispatch
<1>5. CASE dispatched' = dispatched /\ mempool' = mempool
  BY <1>4, <1>5 DEF KeptInv, WholeBatches, NothingDropped, AllDispatched
<1>6. CASE dispatched' # dispatched
  <2>. DEFINE n == SmallerOf(Exact, Len(mempool))
  <2>1. mempool' = <<>> /\ Seen' = AllDispatched \o SubSeq(mempool, 1, n)
    BY <1>6, DispatchKeeps DEF KeptInv
  <2>2. Exact = block_size
    <3>1. block_size % num_shards = 0
      BY <1>1 DEF Aligned
    <3>2. block_size = (block_size \div num_shards) * num_shards
      BY <1>1, <3>1, Multiple
    <3>. QED
      BY <1>1, <3>2 DEF Exact
  <2>3. n = Len(mempool)
    BY <1>1, <1>3, <2>2 DEF SmallerOf
  <2>. HIDE DEF n
  <2>4. SubSeq(mempool, 1, n) = mempool
    BY <1>1, <2>3, SubSeqFull
  <2>5. Seen' = Seen
    BY <2>1, <2>4, Zenon DEF Seen
  <2>6. NothingDropped'
    BY <1>4, <2>5 DEF KeptInv, NothingDropped, Seen
  <2>7. Len(mempool') = 0 /\ 0 = 0 * batch_size /\ 0 <= block_size'
    BY <1>1, <1>4, <2>1
  <2>8. WholeBatches'
    BY <2>7 DEF WholeBatches
  <2>. QED
    BY <2>6, <2>8
<1>7. dispatched' # dispatched \/ (dispatched' = dispatched /\ mempool' = mempool)
  BY DispatchChanges DEF KeptInv
<1>. QED
  BY <1>5, <1>6, <1>7

LEMMA KeptStep == Aligned /\ KeptInv /\ [SubmissionNext]_submissionVars => KeptInv'
<1>. SUFFICES ASSUME Aligned, KeptInv, [SubmissionNext]_submissionVars PROVE KeptInv'
  OBVIOUS
<1>1. IInv' /\ BatchesOnce'
  BY SafetyStep, BatchesOnceStep DEF KeptInv
<1>2. CASE UNCHANGED <<block_size, mempool, dispatched, added>>
  BY <1>1, <1>2 DEF KeptInv, WholeBatches, NothingDropped, AllDispatched
<1>3. CASE \E t \in Threads : RecvBatch(t)
  BY <1>1, <1>3, RecvKeeps DEF KeptInv
<1>4. CASE Dispatch
  BY <1>1, <1>4, DispatchWhole DEF KeptInv
<1>. QED
  BY <1>2, <1>3, <1>4 DEF SubmissionNext, ThreadStep, SendBatch, RecvReply, LeaveLoop,
         RecvTimeout, ReceiverStep, SendReply, Idle, submissionVars, receiverVars

\* With a block size that num_shards and --batch divide, batches that fill
\* --batch, and each of them valid or rejected as a whole, mempool_drain
\* (mempool.c:51) never drops a transaction that mempool_add took.
THEOREM AlignedDropsNothing ==
    ASSUME Aligned
    PROVE  SubmissionSpec => []NothingDropped
<1>1. KeptInv => NothingDropped
  BY DEF KeptInv
<1>2. KeptInv /\ [SubmissionNext]_submissionVars => KeptInv'
  BY KeptStep
<1>. QED
  BY <1>1, <1>2, KeptInit, PTL DEF SubmissionSpec

-----------------------------------------------------------------------------
(***************************************************************************)
(* What the generator counts.  A thread is owed what the receiver has      *)
(* taken of its socket and not been credited for; a late reply credits the *)
(* batch the thread holds by then, a later one and so never a larger.      *)
(***************************************************************************)
OwedBy(t) == thread_submitted[t] + (IF replies[t] # <<>> \/ serving = t
                                  THEN BatchCount(batch_of[t]) ELSE 0)
AllOwed == SumFunctionOnSet([t \in Threads |-> OwedBy(t)], Threads)

LaterBatch ==
    \A t \in Threads :
        /\ req_state[t] = "recv" =>
             batch_of[t] \in BatchNumbers /\ batch_of[t] < next_batch
        /\ Waits(t) => Head(requests[t]) <= batch_of[t]

OwedInv == OnceInv /\ LaterBatch /\ AllOwed <= Received

LEMMA LaterNotLarger ==
    ASSUME NEW b \in BatchNumbers, NEW c \in BatchNumbers, b <= c
    PROVE  BatchCount(c) <= BatchCount(b)
<1>1. /\ b \in Nat /\ c \in Nat /\ batch_size \in Nat \ {0} /\ total_count \in Nat
      /\ BatchCount(b) \in 1..batch_size /\ BatchCount(c) \in 1..batch_size
  BY SizeOfBatch, CountsAssumption DEF BatchNumbers
<1>2. CASE b = c
  BY <1>1, <1>2
<1>3. CASE b < c
  <2>. DEFINE x == (b + 1) * batch_size
              y == c * batch_size
              z == (c + 1) * batch_size
              w == b * batch_size
  <2>1. x <= y /\ {x, y, z, w} \subseteq Nat /\ x = w + batch_size
    BY <1>1, <1>3, ProductMonotone
  <2>2. /\ BatchCount(b) = SmallerOf(x, total_count) - w
        /\ BatchCount(c) = SmallerOf(z, total_count) - y
    BY DEF BatchCount, BatchEnd
  <2>. HIDE DEF x, y, z, w
  <2>3. y < total_count
    BY <1>1, <2>1, <2>2 DEF SmallerOf
  <2>4. BatchCount(b) = batch_size
    BY <1>1, <2>1, <2>2, <2>3 DEF SmallerOf
  <2>. QED
    BY <1>1, <2>4
<1>. QED
  BY <1>1, <1>2, <1>3

\* The places of a socket: a REQ socket that may send has nothing under way,
\* one that waits in the queue of the receiver is not served or answered.
LEMMA Places ==
    ASSUME IInv, NEW t \in Threads
    PROVE  /\ req_state[t] = "send" =>
                requests[t] = <<>> /\ replies[t] = <<>> /\ serving # t
           /\ Waits(t) => replies[t] = <<>> /\ serving # t /\ req_state[t] = "recv"
           /\ replies[t] # <<>> => Tail(replies[t]) = <<>> /\ serving # t
           /\ serving = t => req_state[t] = "recv"
<1>. DEFINE R == [accepted : Nat, rejected : Nat]
            used == IF serving = t THEN 1 ELSE 0
            full == IF req_state[t] = "recv" THEN 1 ELSE 0
<1>1. /\ requests[t] \in Seq(BatchNumbers) /\ replies[t] \in Seq(R)
      /\ req_state[t] \in {"send", "recv"}
  BY DEF IInv, TypeInv, SubmissionTypes, BatchesHeld
<1>. HIDE DEF R
<1>2. PICK n \in Nat : n = Len(requests[t]) /\ (n = 0 <=> requests[t] = <<>>)
  BY <1>1, Queue
<1>3. PICK m \in Nat : /\ m = Len(replies[t]) /\ (m = 0 <=> replies[t] = <<>>)
                       /\ m = 1 => Tail(replies[t]) = <<>>
  BY <1>1, Queue
<1>4. n + m + used = full
  BY <1>2, <1>3 DEF IInv, OneRequestPerSocket
<1>5. /\ used \in {0, 1} /\ full \in {0, 1}
      /\ used = 1 <=> serving = t
      /\ full = 1 <=> req_state[t] = "recv"
  OBVIOUS
<1>. HIDE DEF used, full
<1>6. \/ n = 0 /\ m = 0 /\ used = 0 /\ full = 0
      \/ n = 1 /\ m = 0 /\ used = 0 /\ full = 1
      \/ n = 0 /\ m = 1 /\ used = 0 /\ full = 1
      \/ n = 0 /\ m = 0 /\ used = 1 /\ full = 1
  BY <1>4, <1>5
<1>. QED
  BY <1>1, <1>2, <1>3, <1>5, <1>6 DEF Waits

LEMMA OwedType ==
    ASSUME IInv, LaterBatch, NEW t \in Threads
    PROVE  /\ thread_submitted[t] \in Nat
           /\ OwedBy(t) \in Int /\ thread_submitted[t] <= OwedBy(t)
           /\ req_state[t] = "recv" => BatchCount(batch_of[t]) \in Nat
<1>1. thread_submitted[t] \in Nat /\ req_state[t] \in {"send", "recv"}
  BY DEF IInv, TypeInv, SubmissionTypes
<1>2. CASE req_state[t] = "send"
  <2>1. replies[t] = <<>> /\ serving # t
    BY <1>2, Places
  <2>2. OwedBy(t) = thread_submitted[t] + 0
    BY <2>1 DEF OwedBy
  <2>. QED
    BY <1>1, <1>2, <2>2
<1>3. CASE req_state[t] = "recv"
  <2>1. batch_of[t] \in BatchNumbers
    BY <1>3 DEF LaterBatch
  <2>2. PICK c \in Nat : c = BatchCount(batch_of[t])
    BY <2>1, SizeOfBatch, CountsAssumption
  <2>3. OwedBy(t) = thread_submitted[t] + c \/ OwedBy(t) = thread_submitted[t] + 0
    BY <2>2 DEF OwedBy
  <2>. QED
    BY <1>1, <2>2, <2>3
<1>. QED
  BY <1>1, <1>2, <1>3

\* The sum follows the one thread that moves.
LEMMA OwedChange ==
    ASSUME IInv, LaterBatch, NEW t \in Threads, OwedBy(t)' \in Int,
           \A s \in Threads \ {t} : OwedBy(s)' = OwedBy(s)
    PROVE  /\ AllOwed' = AllOwed + OwedBy(t)' - OwedBy(t)
           /\ {AllOwed, OwedBy(t), OwedBy(t)'} \subseteq Int
<1>. DEFINE f == [s \in Threads |-> OwedBy(s)]
            g == [s \in Threads |-> OwedBy(s)']
<1>1. \A s \in Threads : OwedBy(s) \in Int
  BY OwedType
<1>2. \A s \in Threads : OwedBy(s)' \in Int
  BY <1>1
<1>3. f \in [Threads -> Int] /\ g \in [Threads -> Int]
  BY <1>1, <1>2
<1>4. \A s \in Threads \ {t} : g[s] = f[s]
  OBVIOUS
<1>5. f[t] = OwedBy(t) /\ g[t] = OwedBy(t)'
  OBVIOUS
<1>6. AllOwed = SumFunctionOnSet(f, Threads) /\ AllOwed' = SumFunctionOnSet(g, Threads)
  BY DEF AllOwed
<1>. HIDE DEF f, g
<1>7. /\ SumFunctionOnSet(g, Threads) = SumFunctionOnSet(f, Threads) + g[t] - f[t]
      /\ SumFunctionOnSet(f, Threads) \in Int
  BY <1>3, <1>4, ThreadsAssumption, SumChange, SumType
<1>. QED
  BY <1>1, <1>2, <1>5, <1>6, <1>7

\* The receiver's total grows by the batch it takes.
LEMMA ReceivedAppend ==
    ASSUME NEW b \in BatchNumbers, handled \in Seq(BatchNumbers),
           handled' = Append(handled, b)
    PROVE  Received' = Received + BatchCount(b) /\ Received \in Int
<1>. DEFINE n == Len(handled)
            f == [i \in 1..n |-> BatchCount(handled[i])]
            g == [i \in 1 .. n + 1 |-> BatchCount(handled'[i])]
<1>1. /\ n \in Nat /\ Len(handled') = n + 1 /\ handled'[n + 1] = b
      /\ \A i \in 1..n : handled[i] \in BatchNumbers /\ handled'[i] = handled[i]
      /\ \A i \in 1 .. n + 1 : handled'[i] \in BatchNumbers
  OBVIOUS
<1>2. Received = SumFunctionOnSet(f, 1..n) /\ Received' = SumFunctionOnSet(g, 1 .. n + 1)
  BY <1>1 DEF Received, SumFunction
<1>3. \A c \in BatchNumbers : BatchCount(c) \in Int
  BY SizeOfBatch, CountsAssumption
<1>. HIDE DEF n
<1>4. /\ f \in [1..n -> Int] /\ g \in [1 .. n + 1 -> Int] /\ g[n + 1] = BatchCount(b)
      /\ \A i \in 1..n : f[i] = g[i]
  BY <1>1, <1>3
<1>5. /\ (1 .. n + 1) \ {n + 1} = 1..n /\ n + 1 \in 1 .. n + 1
      /\ IsFiniteSet(1 .. n + 1)
  <2>1. \A i : i \in (1 .. n + 1) \ {n + 1} <=> i \in 1..n
    BY <1>1
  <2>2. (1 .. n + 1) \ {n + 1} = 1..n
    BY <2>1
  <2>3. n + 1 \in 1 .. n + 1 /\ n + 1 \in Int /\ 1 \in Int
    BY <1>1
  <2>4. IsFiniteSet(1 .. n + 1)
    BY <2>3, FS_Interval
  <2>. QED
    BY <2>2, <2>3, <2>4
<1>. HIDE DEF f, g
<1>6. \A i \in (1 .. n + 1) \ {n + 1} : f[i] = g[i]
  BY <1>4, <1>5
<1>7. /\ SumFunctionOnSet(g, 1 .. n + 1) = g[n + 1] + SumFunctionOnSet(f, (1 .. n + 1) \ {n + 1})
      /\ SumFunctionOnSet(f, (1 .. n + 1) \ {n + 1}) \in Int
  <2>. DEFINE S == 1 .. n + 1
              x == n + 1
  <2>1. /\ IsFiniteSet(S) /\ g \in [S -> Int] /\ x \in S
        /\ \A i \in S \ {x} : f[i] = g[i]
    BY <1>4, <1>5, <1>6
  <2>. HIDE DEF S, x
  <2>2. /\ SumFunctionOnSet(g, S) = g[x] + SumFunctionOnSet(f, S \ {x})
        /\ SumFunctionOnSet(f, S \ {x}) \in Int
    BY <2>1, SumRemove
  <2>. QED
    BY <2>2 DEF S, x
<1>8. BatchCount(b) \in Int
  BY <1>3
<1>9. Received' = BatchCount(b) + Received
  BY <1>2, <1>4, <1>5, <1>7, Zenon
<1>10. Received \in Int
  BY <1>2, <1>5, <1>7, Zenon
<1>. QED
  BY <1>8, <1>9, <1>10

LEMMA OwedInit == SubmissionInit => OwedInv
<1>. SUFFICES ASSUME SubmissionInit PROVE OwedInv
  OBVIOUS
<1>1. OnceInv
  BY OnceInit
<1>2. LaterBatch
  BY DEF SubmissionInit, LaterBatch, Waits
<1>3. AllOwed = 0
  <2>. DEFINE f == [t \in Threads |-> OwedBy(t)]
  <2>1. ASSUME NEW t \in Threads PROVE OwedBy(t) = 0
    <3>1. thread_submitted[t] = 0 /\ replies[t] = <<>> /\ serving # t
      BY ThreadsAssumption DEF SubmissionInit
    <3>. QED
      BY <3>1 DEF OwedBy
  <2>2. f \in [Threads -> Int] /\ \A t \in Threads : f[t] = 0
    BY <2>1
  <2>. HIDE DEF f
  <2>3. SumFunctionOnSet(f, Threads) = 0
    BY <2>2, ThreadsAssumption, SumZero
  <2>. QED
    BY <2>3 DEF AllOwed, f
<1>4. Received = 0
  <2>. DEFINE g == [i \in 1..Len(handled) |-> BatchCount(handled[i])]
  <2>1. Len(handled) = 0
    BY DEF SubmissionInit
  <2>2. DOMAIN g = {} /\ g \in [{} -> Int]
    BY <2>1
  <2>. HIDE DEF g
  <2>3. SumFunctionOnSet(g, {}) = 0
    BY <2>2, FS_EmptySet, SumZero
  <2>4. Received = SumFunctionOnSet(g, DOMAIN g)
    BY DEF Received, SumFunction, g
  <2>. QED
    BY <2>2, <2>3, <2>4, Zenon
<1>. QED
  BY <1>1, <1>2, <1>3, <1>4 DEF OwedInv

LEMMA LaterStep ==
    ASSUME OnceInv, LaterBatch, [SubmissionNext]_submissionVars
    PROVE  LaterBatch'
<1>1. CASE UNCHANGED <<requests, req_state, batch_of, next_batch>>
  BY <1>1 DEF LaterBatch, Waits
<1>2. ASSUME NEW t \in Threads, SendBatch(t) PROVE LaterBatch'
  <2>1. /\ next_batch \in BatchNumbers /\ next_batch \in Nat
        /\ next_batch' = next_batch + 1
        /\ batch_of' = [batch_of EXCEPT ![t] = next_batch]
        /\ batch_of \in [Threads -> Nat]
        /\ requests \in [Threads -> Seq(BatchNumbers)]
        /\ req_state \in [Threads -> {"send", "recv"}]
    BY <1>2, NumBatches, SMTT(30)
    DEF OnceInv, IInv, TypeInv, SubmissionTypes, BatchesHeld, SendBatch, BatchNumbers
  <2>. SUFFICES ASSUME NEW s \in Threads
                PROVE  /\ req_state'[s] = "recv" =>
                            batch_of'[s] \in BatchNumbers /\ batch_of'[s] < next_batch'
                       /\ Waits(s)' => Head(requests'[s]) <= batch_of'[s]
    BY DEF LaterBatch
  <2>2. CASE s # t
    <3>1. /\ batch_of'[s] = batch_of[s] /\ batch_of[s] \in Nat
          /\ requests'[s] = requests[s] /\ req_state'[s] = req_state[s]
      BY <1>2, <2>1, <2>2 DEF SendBatch
    <3>2. /\ req_state[s] = "recv" =>
               batch_of[s] \in BatchNumbers /\ batch_of[s] < next_batch
          /\ Waits(s) => Head(requests[s]) <= batch_of[s]
      BY DEF LaterBatch
    <3>. QED
      BY <2>1, <3>1, <3>2 DEF Waits
  <2>3. CASE s = t
    <3>1. batch_of'[s] = next_batch
      BY <2>1, <2>3
    <3>2. CASE CanSendBatch(t)
      <4>1. requests[t] = <<>>
        BY <3>2, Places DEF CanSendBatch, OnceInv
      <4>2. requests'[t] = Append(requests[t], next_batch)
        BY <1>2, <2>1, <3>2 DEF SendBatch
      <4>3. Head(requests'[t]) = next_batch
        BY <4>1, <4>2
      <4>. QED
        BY <2>1, <2>3, <3>1, <4>3
    <3>3. CASE ~CanSendBatch(t)
      <4>1. requests' = requests
        BY <1>2, <3>3 DEF SendBatch
      <4>2. Waits(t) => Head(requests[t]) \in Nat /\ Head(requests[t]) < next_batch
        <5>. SUFFICES ASSUME Waits(t)
                      PROVE  Head(requests[t]) \in Nat /\ Head(requests[t]) < next_batch
          OBVIOUS
        <5>1. requests[t] \in Seq(BatchNumbers) /\ requests[t] # <<>>
          BY <2>1 DEF Waits
        <5>2. Head(requests[t]) \in BatchNumbers
          BY <5>1, Queue
        <5>. QED
          BY <5>2 DEF OnceInv, BatchesOnce, BatchNumbers
      <4>. QED
        BY <2>1, <2>3, <3>1, <4>1, <4>2 DEF Waits
    <3>. QED
      BY <3>2, <3>3
  <2>. QED
    BY <2>2, <2>3
<1>3. ASSUME NEW t \in Threads, RecvReply(t) PROVE LaterBatch'
  <2>1. /\ req_state' = [req_state EXCEPT ![t] = "send"]
        /\ UNCHANGED <<requests, batch_of, next_batch>>
    BY <1>3 DEF RecvReply
  <2>2. req_state \in [Threads -> {"send", "recv"}]
    BY DEF OnceInv, IInv, TypeInv, SubmissionTypes
  <2>. QED
    BY <2>1, <2>2 DEF LaterBatch, Waits
<1>4. ASSUME NEW t \in Threads, RecvBatch(t) PROVE LaterBatch'
  <2>1. /\ requests' = [requests EXCEPT ![t] = <<>>]
        /\ UNCHANGED <<req_state, batch_of, next_batch>>
    BY <1>4, FreshBatch DEF OnceInv, RecvBatch, generatorVars
  <2>2. requests \in [Threads -> Seq(BatchNumbers)]
    BY DEF OnceInv, IInv, TypeInv, BatchesHeld
  <2>. QED
    BY <2>1, <2>2 DEF LaterBatch, Waits
<1>. QED
  BY <1>1, <1>2, <1>3, <1>4 DEF SubmissionNext, ThreadStep, LeaveLoop, RecvTimeout, ReceiverStep,
         Dispatch, SendReply, Idle, submissionVars, generatorVars, receiverVars

LEMMA ReceivedType ==
    ASSUME handled \in Seq(BatchNumbers)
    PROVE  Received \in Int
<1>1. \A b \in BatchNumbers : BatchCount(b) \in Int
  BY SizeOfBatch, CountsAssumption
<1>. DEFINE g == [i \in 1..Len(handled) |-> BatchCount(handled[i])]
<1>2. g \in [1..Len(handled) -> Int] /\ Len(handled) \in Nat
  BY <1>1
<1>3. IsFiniteSet(1..Len(handled)) /\ DOMAIN g = 1..Len(handled)
  BY <1>2, FS_Interval
<1>4. Received = SumFunctionOnSet(g, DOMAIN g)
  BY DEF Received, SumFunction
<1>. HIDE DEF g
<1>. QED
  BY <1>2, <1>3, <1>4, SumType

\* Of each step, what the thread that moves is owed after it.
LEMMA OwedStep ==
    ASSUME OwedInv, [SubmissionNext]_submissionVars
    PROVE  AllOwed' <= Received'
<1>. USE DEF OwedInv
<1>1. /\ IInv /\ OnceInv /\ LaterBatch /\ AllOwed <= Received
      /\ thread_submitted \in [Threads -> Nat] /\ batch_of \in [Threads -> Nat]
      /\ replies \in [Threads -> Seq([accepted : Nat, rejected : Nat])]
      /\ req_state \in [Threads -> {"send", "recv"}]
      /\ handled \in Seq(BatchNumbers)
  BY DEF OnceInv, IInv, TypeInv, SubmissionTypes, BatchesOnce
<1>2. CASE UNCHANGED <<thread_submitted, replies, serving, batch_of, handled>>
  <2>1. Received' = Received
    BY <1>2 DEF Received
  <2>2. AllOwed' = AllOwed
    BY <1>2 DEF AllOwed, OwedBy
  <2>. QED
    BY <1>1, <2>1, <2>2
<1>3. Received \in Int
  BY <1>1, ReceivedType
<1>4. ASSUME NEW t \in Threads, OwedBy(t)' \in Int, OwedBy(t)' <= OwedBy(t),
             \A s \in Threads \ {t} : OwedBy(s)' = OwedBy(s), handled' = handled
      PROVE  AllOwed' <= Received'
  <2>1. /\ AllOwed' = AllOwed + OwedBy(t)' - OwedBy(t)
        /\ {AllOwed, OwedBy(t), OwedBy(t)'} \subseteq Int
    BY <1>1, <1>4, OwedChange
  <2>2. Received' = Received
    BY <1>4 DEF Received
  <2>. QED
    BY <1>1, <1>3, <1>4, <2>1, <2>2
<1>5. ASSUME NEW t \in Threads, SendBatch(t) PROVE AllOwed' <= Received'
  <2>1. /\ next_batch \in BatchNumbers /\ handled' = handled
        /\ batch_of' = [batch_of EXCEPT ![t] = next_batch]
        /\ UNCHANGED <<thread_submitted, replies, serving>>
    BY <1>1, <1>5, NumBatches DEF SendBatch, IInv, TypeInv, SubmissionTypes, BatchNumbers, receiverVars
  <2>2. \A s \in Threads \ {t} : OwedBy(s)' = OwedBy(s)
    BY <1>1, <2>1 DEF OwedBy
  <2>3. batch_of'[t] = next_batch /\ thread_submitted'[t] = thread_submitted[t]
    BY <1>1, <2>1
  <2>4. thread_submitted[t] \in Nat /\ OwedBy(t) \in Int
    BY <1>1, OwedType
  <2>5. OwedBy(t)' \in Int /\ OwedBy(t)' <= OwedBy(t)
    <3>1. CASE replies[t] # <<>> \/ serving = t
      <4>1. req_state[t] # "send"
        BY <1>1, <3>1, Places
      <4>2. batch_of[t] \in BatchNumbers /\ batch_of[t] < next_batch
        BY <1>1, <4>1 DEF LaterBatch
      <4>3. PICK c \in Nat : c = BatchCount(batch_of[t])
        BY <4>2, SizeOfBatch, CountsAssumption
      <4>4. PICK d \in Nat : d = BatchCount(next_batch)
        BY <2>1, SizeOfBatch, CountsAssumption
      <4>5. d <= c
        <5>1. batch_of[t] <= next_batch
          BY <4>2, <2>1 DEF BatchNumbers
        <5>2. BatchCount(next_batch) <= BatchCount(batch_of[t])
          BY <2>1, <4>2, <5>1, LaterNotLarger
        <5>. QED
          BY <4>3, <4>4, <5>2
      <4>6. OwedBy(t) = thread_submitted[t] + c /\ OwedBy(t)' = thread_submitted[t] + d
        BY <2>1, <2>3, <3>1, <4>3, <4>4 DEF OwedBy
      <4>. QED
        BY <2>4, <4>5, <4>6
    <3>2. CASE ~(replies[t] # <<>> \/ serving = t)
      <4>1. OwedBy(t) = thread_submitted[t] + 0 /\ OwedBy(t)' = thread_submitted[t] + 0
        BY <2>1, <2>3, <3>2 DEF OwedBy
      <4>. QED
        BY <2>4, <4>1
    <3>. QED
      BY <3>1, <3>2
  <2>. QED
    BY <1>4, <2>1, <2>2, <2>5
<1>6. ASSUME NEW t \in Threads, RecvReply(t) PROVE AllOwed' <= Received'
  <2>1. /\ handled' = handled /\ serving' = serving /\ batch_of' = batch_of
        /\ replies[t] # <<>>
        /\ replies' = [replies EXCEPT ![t] = Tail(@)]
        /\ thread_submitted' =
             [thread_submitted EXCEPT ![t] = @ + BatchCount(batch_of[t])]
    BY <1>6 DEF RecvReply, Credit, receiverVars
  <2>2. \A s \in Threads \ {t} : OwedBy(s)' = OwedBy(s)
    BY <1>1, <2>1 DEF OwedBy
  <2>3. Tail(replies[t]) = <<>> /\ serving # t
    BY <1>1, <2>1, Places
  <2>4. OwedBy(t) \in Int
    BY <1>1, OwedType
  <2>5. OwedBy(t)' = OwedBy(t)
    <3>1. OwedBy(t) = thread_submitted[t] + BatchCount(batch_of[t])
      BY <2>1 DEF OwedBy
    <3>2. replies'[t] = <<>>
      BY <1>1, <2>1, <2>3
    <3>3. thread_submitted'[t] = thread_submitted[t] + BatchCount(batch_of[t])
      BY <1>1, <2>1
    <3>4. OwedBy(t)' = thread_submitted'[t] + 0
      BY <2>1, <2>3, <3>2 DEF OwedBy
    <3>. QED
      BY <2>4, <3>1, <3>3, <3>4
  <2>. QED
    BY <1>4, <2>1, <2>2, <2>4, <2>5
<1>7. ASSUME NEW t \in Threads, RecvBatch(t) PROVE AllOwed' <= Received'
  <2>. DEFINE b == Head(requests[t])
  <2>1. /\ b \in BatchNumbers /\ handled' = Append(handled, b)
        /\ serving = None /\ serving' = t /\ Waits(t)
        /\ UNCHANGED <<thread_submitted, replies, batch_of>>
    BY <1>1, <1>7, FreshBatch DEF OnceInv, RecvBatch, generatorVars, Waits
  <2>2. \A s \in Threads \ {t} : OwedBy(s)' = OwedBy(s)
    BY <1>1, <2>1, ThreadsAssumption DEF OwedBy
  <2>3. replies[t] = <<>> /\ serving # t /\ req_state[t] = "recv"
    BY <1>1, <2>1, Places
  <2>4. batch_of[t] \in BatchNumbers /\ b <= batch_of[t]
    BY <1>1, <2>1, <2>3 DEF LaterBatch
  <2>5. PICK c \in Nat : c = BatchCount(batch_of[t])
    BY <2>4, SizeOfBatch, CountsAssumption
  <2>6. PICK d \in Nat : d = BatchCount(b)
    BY <2>1, SizeOfBatch, CountsAssumption
  <2>7. c <= d
    <3>1. BatchCount(batch_of[t]) <= BatchCount(b)
      BY <2>1, <2>4, LaterNotLarger
    <3>. QED
      BY <2>5, <2>6, <3>1
  <2>8. PICK n \in Nat : n = thread_submitted[t]
    BY <1>1
  <2>9. OwedBy(t) = n /\ OwedBy(t)' = n + c
    <3>1. OwedBy(t) = thread_submitted[t] + 0
      BY <2>3 DEF OwedBy
    <3>2. OwedBy(t)' = thread_submitted[t] + BatchCount(batch_of[t])
      BY <2>1 DEF OwedBy
    <3>. QED
      BY <2>5, <2>8, <3>1, <3>2
  <2>10. AllOwed' = AllOwed + OwedBy(t)' - OwedBy(t) /\ AllOwed \in Int
    <3>1. OwedBy(t)' \in Int
      BY <2>5, <2>8, <2>9
    <3>. QED
      BY <1>1, <2>2, <3>1, OwedChange
  <2>11. Received' = Received + BatchCount(b)
    BY <1>1, <2>1, ReceivedAppend
  <2>. HIDE DEF b
  <2>. QED
    <3>1. AllOwed' = AllOwed + (n + c) - n
      BY <2>9, <2>10
    <3>2. Received' = Received + d
      BY <2>6, <2>11
    <3>3. AllOwed + (n + c) - n = AllOwed + c
      BY <2>5, <2>8, <2>10
    <3>. QED
      BY <1>1, <1>3, <2>5, <2>6, <2>7, <2>10, <3>1, <3>2, <3>3
<1>8. CASE SendReply
  <2>0. PICK t \in Threads : t = serving
    BY <1>1, <1>8 DEF SendReply, IInv, TypeInv, SubmissionTypes
  <2>1. /\ t \in Threads /\ handled' = handled /\ serving' = None
        /\ replies' = [replies EXCEPT ![t] = Append(@, counts)]
        /\ UNCHANGED <<thread_submitted, batch_of>>
    BY <1>8, <2>0 DEF SendReply, ReplyTo, generatorVars
  <2>2. \A s \in Threads \ {t} : OwedBy(s)' = OwedBy(s)
    BY <1>1, <2>0, <2>1, ThreadsAssumption DEF OwedBy
  <2>3. replies'[t] # <<>>
    <3>1. counts \in [accepted : Nat, rejected : Nat]
      BY <1>1 DEF IInv, TypeInv, SubmissionTypes
    <3>2. replies'[t] = Append(replies[t], counts)
      BY <1>1, <2>1
    <3>3. Len(replies'[t]) = Len(replies[t]) + 1 /\ Len(replies[t]) \in Nat
      BY <1>1, <2>1, <3>1, <3>2
    <3>. QED
      BY <3>3
  <2>4. OwedBy(t) = thread_submitted[t] + BatchCount(batch_of[t])
    BY <2>0 DEF OwedBy
  <2>5. OwedBy(t)' = OwedBy(t)
    BY <2>1, <2>3, <2>4 DEF OwedBy
  <2>6. OwedBy(t) \in Int
    BY <1>1, <2>1, OwedType
  <2>. QED
    BY <1>4, <2>1, <2>2, <2>5, <2>6
<1>. QED
  BY <1>2, <1>5, <1>6, <1>7, <1>8
     DEF SubmissionNext, ThreadStep, LeaveLoop, RecvTimeout, ReceiverStep, Dispatch, Idle, submissionVars,
         generatorVars, receiverVars

\* Late replies are credited to the batch the thread holds when they come
\* (main.c:224), and still the generator never reports more transactions than the
\* receiver took, for any number of threads, timeouts and transactions.
THEOREM ReportsNoMoreThanTaken == SubmissionSpec => []NeverOvercounted
<1>1. OwedInv => NeverOvercounted
  <2>. SUFFICES ASSUME OwedInv PROVE Submitted <= Received
    BY DEF NeverOvercounted
  <2>. DEFINE f == [t \in Threads |-> OwedBy(t)]
  <2>1. IInv /\ LaterBatch /\ AllOwed <= Received
    BY DEF OwedInv, OnceInv
  <2>2. /\ thread_submitted \in [Threads -> Int] /\ f \in [Threads -> Int]
        /\ \A t \in Threads : thread_submitted[t] <= f[t]
    BY <2>1, OwedType DEF IInv, TypeInv, SubmissionTypes
  <2>3. AllOwed = SumFunctionOnSet(f, Threads)
    BY DEF AllOwed
  <2>. HIDE DEF f
  <2>4. Submitted <= AllOwed /\ Submitted \in Int /\ AllOwed \in Int
    BY <2>2, <2>3, ThreadsAssumption, SumAtMost, SumType DEF Submitted
  <2>5. Received \in Int
    BY ReceivedType DEF OwedInv, OnceInv, BatchesOnce
  <2>. QED
    BY <2>1, <2>4, <2>5
<1>2. OwedInv /\ [SubmissionNext]_submissionVars => OwedInv'
  BY OnceStep, LaterStep, OwedStep DEF OwedInv
<1>. QED
  BY <1>1, <1>2, OwedInit, PTL DEF SubmissionSpec

-----------------------------------------------------------------------------
(***************************************************************************)
(* Without a timeout, what the threads have counted and what they wait for *)
(* is what the schedule has handed out.                                    *)
(***************************************************************************)
Counted(t) == thread_submitted[t] + (IF thread_pc[t] = "wait" THEN BatchCount(batch_of[t]) ELSE 0)
AllCounted == SumFunctionOnSet([t \in Threads |-> Counted(t)], Threads)

HandedOut == SmallerOf(next_batch * batch_size, total_count)

CountInv ==
    /\ TypeInv
    /\ \A t \in Threads : thread_pc[t] = "done" => next_batch >= num_batches
    /\ timeouts = 0 => AllCounted = HandedOut

LEMMA HandedOutType ==
    ASSUME NEW n \in Nat
    PROVE  /\ n * batch_size \in Nat /\ total_count \in Nat
           /\ n * batch_size + batch_size = (n + 1) * batch_size
  BY CountsAssumption

\* The schedule's batches reach the end of the run and stop there.
LEMMA ScheduleCovers ==
    /\ \A b \in BatchNumbers : b * batch_size < total_count
    /\ total_count <= num_batches * batch_size
<1>1. /\ total_count \in Nat /\ batch_size \in Nat \ {0} /\ num_batches \in Nat
      /\ num_batches * batch_size \in Nat
  BY CountsAssumption, NumBatches, HandedOutType
<1>2. ASSUME NEW b \in BatchNumbers PROVE b * batch_size < total_count
  <2>. DEFINE start == b * batch_size
              end == (b + 1) * batch_size
  <2>1. /\ BatchCount(b) >= 1 /\ BatchCount(b) \in Int
        /\ start \in Nat /\ end = start + batch_size
    BY SizeOfBatch, CountsAssumption, HandedOutType DEF BatchNumbers
  <2>2. BatchCount(b) = SmallerOf(end, total_count) - start
    BY DEF BatchCount, BatchEnd
  <2>. HIDE DEF start, end
  <2>3. start < total_count
    BY <1>1, <2>1, <2>2 DEF SmallerOf
  <2>. QED
    BY <2>3 DEF start
<1>3. total_count <= num_batches * batch_size
  <2>1. total_count + batch_size - 1 \in Nat
    BY <1>1
  <2>2. total_count + batch_size - 1 < num_batches * batch_size + batch_size
    BY <1>1, <2>1, Division DEF num_batches
  <2>. HIDE DEF num_batches
  <2>. DEFINE all == num_batches * batch_size
  <2>3. all \in Nat /\ total_count + batch_size - 1 < all + batch_size
    BY <1>1, <2>2
  <2>. HIDE DEF all
  <2>4. total_count <= all
    BY <1>1, <2>3
  <2>. QED
    BY <2>4 DEF all
<1>. QED
  BY <1>2, <1>3

LEMMA CountedType ==
    ASSUME TypeInv, NEW t \in Threads
    PROVE  Counted(t) \in Int
<1>1. thread_submitted[t] \in Nat
  BY DEF TypeInv, SubmissionTypes
<1>2. thread_pc[t] = "wait" => BatchCount(batch_of[t]) \in Nat
  BY SizeOfBatch, CountsAssumption DEF TypeInv, BatchesHeld
<1>. QED
  BY <1>1, <1>2 DEF Counted

LEMMA CountedChange ==
    ASSUME TypeInv, NEW t \in Threads, Counted(t)' \in Int,
           \A s \in Threads \ {t} : Counted(s)' = Counted(s)
    PROVE  /\ AllCounted' = AllCounted + Counted(t)' - Counted(t)
           /\ {AllCounted, Counted(t)} \subseteq Int
<1>. DEFINE f == [s \in Threads |-> Counted(s)]
            g == [s \in Threads |-> Counted(s)']
<1>1. \A s \in Threads : Counted(s) \in Int
  BY CountedType
<1>2. \A s \in Threads : Counted(s)' \in Int
  BY <1>1
<1>3. f \in [Threads -> Int] /\ g \in [Threads -> Int]
  BY <1>1, <1>2
<1>4. \A s \in Threads \ {t} : g[s] = f[s]
  OBVIOUS
<1>5. f[t] = Counted(t) /\ g[t] = Counted(t)'
  OBVIOUS
<1>6. /\ AllCounted = SumFunctionOnSet(f, Threads)
      /\ AllCounted' = SumFunctionOnSet(g, Threads)
  BY DEF AllCounted
<1>. HIDE DEF f, g
<1>7. /\ SumFunctionOnSet(g, Threads) = SumFunctionOnSet(f, Threads) + g[t] - f[t]
      /\ SumFunctionOnSet(f, Threads) \in Int
  BY <1>3, <1>4, ThreadsAssumption, SumChange, SumType
<1>. QED
  BY <1>1, <1>5, <1>6, <1>7

LEMMA CountInit == SubmissionInit => CountInv
<1>. SUFFICES ASSUME SubmissionInit PROVE CountInv
  OBVIOUS
<1>1. TypeInv /\ \A t \in Threads : thread_pc[t] # "done"
  BY SubmissionTypeInit DEF SubmissionInit
<1>2. HandedOut = 0
  BY CountsAssumption DEF SubmissionInit, HandedOut, SmallerOf
<1>3. AllCounted = 0
  <2>. DEFINE f == [t \in Threads |-> Counted(t)]
  <2>1. ASSUME NEW t \in Threads PROVE Counted(t) = 0
    <3>1. thread_submitted[t] = 0 /\ thread_pc[t] = "next"
      BY DEF SubmissionInit
    <3>. QED
      BY <3>1 DEF Counted
  <2>2. f \in [Threads -> Int] /\ \A t \in Threads : f[t] = 0
    BY <2>1
  <2>. HIDE DEF f
  <2>3. SumFunctionOnSet(f, Threads) = 0
    BY <2>2, ThreadsAssumption, SumZero
  <2>. QED
    BY <2>3 DEF AllCounted, f
<1>. QED
  BY <1>1, <1>2, <1>3 DEF CountInv

LEMMA SendCounts ==
    ASSUME CountInv, NEW t \in Threads, SendBatch(t), timeouts = 0
    PROVE  AllCounted' = HandedOut'
<1>1. /\ next_batch \in BatchNumbers /\ next_batch \in Nat
      /\ next_batch' = next_batch + 1
      /\ batch_of' = [batch_of EXCEPT ![t] = next_batch]
      /\ thread_pc[t] = "next" /\ thread_pc' = [thread_pc EXCEPT ![t] = "wait"]
      /\ thread_submitted' = thread_submitted
      /\ batch_of \in [Threads -> Nat] /\ thread_pc \in [Threads -> {"next", "wait", "done"}]
      /\ thread_submitted \in [Threads -> Nat]
  BY NumBatches DEF CountInv, TypeInv, SubmissionTypes, SendBatch, BatchNumbers
<1>2. \A s \in Threads \ {t} : Counted(s)' = Counted(s)
  BY <1>1 DEF Counted
<1>3. PICK c \in Nat : c = BatchCount(next_batch)
  BY <1>1, SizeOfBatch, CountsAssumption
<1>4. PICK n \in Nat : n = thread_submitted[t]
  BY <1>1
<1>5. Counted(t) = n /\ Counted(t)' = n + c
  <2>1. Counted(t) = thread_submitted[t] + 0
    BY <1>1 DEF Counted
  <2>2. batch_of'[t] = next_batch /\ thread_pc'[t] = "wait"
    BY <1>1
  <2>3. Counted(t)' = thread_submitted[t] + BatchCount(next_batch)
    BY <1>1, <2>2 DEF Counted
  <2>. QED
    BY <1>3, <1>4, <2>1, <2>3
<1>6. AllCounted' = AllCounted + (n + c) - n /\ AllCounted \in Int
  <2>1. Counted(t)' \in Int
    BY <1>3, <1>4, <1>5
  <2>2. TypeInv
    BY DEF CountInv
  <2>3. AllCounted' = AllCounted + Counted(t)' - Counted(t) /\ AllCounted \in Int
    BY <1>2, <2>1, <2>2, CountedChange
  <2>. QED
    BY <1>5, <2>3
<1>. DEFINE start == next_batch * batch_size
            end == (next_batch + 1) * batch_size
<1>7. start \in Nat /\ total_count \in Nat /\ end \in Nat /\ start < total_count
  BY <1>1, HandedOutType, ScheduleCovers
<1>8. AllCounted = SmallerOf(start, total_count)
  BY DEF CountInv, HandedOut
<1>9. c = SmallerOf(end, total_count) - start
  BY <1>3 DEF BatchCount, BatchEnd
<1>10. HandedOut' = SmallerOf(end, total_count)
  BY <1>1 DEF HandedOut
<1>. HIDE DEF start, end
<1>11. AllCounted = start
  BY <1>7, <1>8 DEF SmallerOf
<1>12. AllCounted' = start + c
  BY <1>3, <1>4, <1>6, <1>7, <1>11
<1>13. SmallerOf(end, total_count) \in Nat
  BY <1>7 DEF SmallerOf
<1>. QED
  BY <1>7, <1>9, <1>10, <1>12, <1>13

LEMMA CountStep == CountInv /\ [SubmissionNext]_submissionVars => CountInv'
<1>. SUFFICES ASSUME CountInv, [SubmissionNext]_submissionVars PROVE CountInv'
  OBVIOUS
<1>1. /\ TypeInv /\ TypeInv'
      /\ batch_of \in [Threads -> Nat] /\ thread_pc \in [Threads -> {"next", "wait", "done"}]
      /\ thread_submitted \in [Threads -> Nat] /\ timeouts \in Nat /\ next_batch \in Nat
      /\ num_batches \in Nat
  <2>1. TypeInv'
    BY SubmissionTypeStep DEF CountInv
  <2>2. SubmissionTypes /\ num_batches \in Nat /\ MaxTimeouts \in Nat
    BY NumBatches, CountsAssumption DEF CountInv, TypeInv
  <2>3. timeouts \in Nat /\ next_batch \in Nat
    BY <2>2 DEF SubmissionTypes
  <2>. QED
    BY <2>1, <2>2, <2>3 DEF CountInv, TypeInv, SubmissionTypes
<1>2. CASE UNCHANGED <<thread_pc, next_batch, batch_of, thread_submitted, timeouts>>
  <2>1. AllCounted' = AllCounted /\ HandedOut' = HandedOut
    BY <1>2 DEF AllCounted, Counted, HandedOut
  <2>. QED
    BY <1>1, <1>2, <2>1 DEF CountInv
<1>3. ASSUME NEW t \in Threads, Counted(t)' = Counted(t),
             \A s \in Threads \ {t} : Counted(s)' = Counted(s),
             UNCHANGED <<next_batch, timeouts>>
      PROVE  timeouts' = 0 => AllCounted' = HandedOut'
  <2>1. /\ AllCounted' = AllCounted + Counted(t)' - Counted(t)
        /\ {AllCounted, Counted(t)} \subseteq Int
    BY <1>1, <1>3, CountedType, CountedChange
  <2>2. AllCounted' = AllCounted /\ HandedOut' = HandedOut
    BY <1>3, <2>1 DEF HandedOut
  <2>. QED
    BY <1>3, <2>2 DEF CountInv
<1>4. ASSUME NEW t \in Threads, SendBatch(t) PROVE CountInv'
  <2>1. timeouts' = 0 => AllCounted' = HandedOut'
    BY <1>4, SendCounts DEF SendBatch
  <2>2. \A s \in Threads : thread_pc'[s] = "done" => next_batch' >= num_batches
    BY <1>1, <1>4 DEF SendBatch, CountInv
  <2>. QED
    BY <1>1, <2>1, <2>2 DEF CountInv
<1>5. ASSUME NEW t \in Threads, RecvReply(t) PROVE CountInv'
  <2>1. /\ thread_pc[t] = "wait" /\ thread_pc' = [thread_pc EXCEPT ![t] = "next"]
        /\ thread_submitted' = [thread_submitted EXCEPT ![t] = @ + BatchCount(batch_of[t])]
        /\ UNCHANGED <<next_batch, batch_of, timeouts>>
    BY <1>5 DEF RecvReply, Credit
  <2>2. \A s \in Threads \ {t} : Counted(s)' = Counted(s)
    BY <1>1, <2>1 DEF Counted
  <2>3. Counted(t)' = Counted(t)
    <3>1. Counted(t) = thread_submitted[t] + BatchCount(batch_of[t]) /\ Counted(t) \in Int
      BY <1>1, <2>1, CountedType DEF Counted
    <3>2. /\ thread_pc'[t] = "next"
          /\ thread_submitted'[t] = thread_submitted[t] + BatchCount(batch_of[t])
      BY <1>1, <2>1
    <3>3. Counted(t)' = thread_submitted'[t] + 0
      BY <3>2 DEF Counted
    <3>. QED
      BY <3>1, <3>2, <3>3
  <2>4. timeouts' = 0 => AllCounted' = HandedOut'
    BY <1>3, <2>1, <2>2, <2>3
  <2>5. \A s \in Threads : thread_pc'[s] = "done" => next_batch' >= num_batches
    BY <1>1, <2>1 DEF CountInv
  <2>. QED
    BY <1>1, <2>4, <2>5 DEF CountInv
<1>6. ASSUME NEW t \in Threads, LeaveLoop(t) PROVE CountInv'
  <2>1. /\ thread_pc[t] = "next" /\ thread_pc' = [thread_pc EXCEPT ![t] = "done"]
        /\ next_batch >= num_batches
        /\ UNCHANGED <<next_batch, batch_of, timeouts, thread_submitted>>
    BY <1>6 DEF LeaveLoop
  <2>2. \A s \in Threads : Counted(s)' = Counted(s)
    BY <1>1, <2>1 DEF Counted
  <2>3. timeouts' = 0 => AllCounted' = HandedOut'
    BY <1>3, <2>1, <2>2
  <2>4. \A s \in Threads : thread_pc'[s] = "done" => next_batch' >= num_batches
    BY <2>1
  <2>. QED
    BY <1>1, <2>3, <2>4 DEF CountInv
<1>7. ASSUME NEW t \in Threads, RecvTimeout(t) PROVE CountInv'
  <2>1. timeouts' # 0 /\ thread_pc' = [thread_pc EXCEPT ![t] = "next"] /\ next_batch' = next_batch
    BY <1>1, <1>7 DEF RecvTimeout
  <2>2. \A s \in Threads : thread_pc'[s] = "done" => next_batch' >= num_batches
    BY <1>1, <2>1 DEF CountInv
  <2>. QED
    BY <1>1, <2>1, <2>2 DEF CountInv
<1>. QED
  BY <1>2, <1>4, <1>5, <1>6, <1>7
     DEF SubmissionNext, ThreadStep, ReceiverStep, RecvBatch, Dispatch, SendReply, Idle, submissionVars,
         generatorVars

\* When no receive has timed out the generator ends by reporting <count>
\* transactions submitted (main.c:253), for any number of threads and batches.
THEOREM ReportsAllWithoutTimeout == SubmissionSpec => []CountsAllWithoutTimeout
<1>1. CountInv => CountsAllWithoutTimeout
  <2>. SUFFICES ASSUME CountInv, AllDone, timeouts = 0 PROVE Submitted = total_count
    BY DEF CountsAllWithoutTimeout
  <2>1. /\ thread_submitted \in [Threads -> Nat] /\ next_batch \in 0..num_batches
        /\ num_batches \in Nat
    BY NumBatches DEF CountInv, TypeInv, SubmissionTypes
  <2>2. next_batch = num_batches
    <3>1. \E t \in Threads : thread_pc[t] = "done"
      BY ThreadsAssumption DEF AllDone
    <3>2. next_batch >= num_batches
      BY <3>1 DEF CountInv
    <3>. QED
      BY <2>1, <3>2
  <2>3. HandedOut = total_count
    <3>1. total_count <= num_batches * batch_size /\ num_batches * batch_size \in Nat
          /\ total_count \in Nat
      BY <2>1, ScheduleCovers, HandedOutType
    <3>2. HandedOut = SmallerOf(num_batches * batch_size, total_count)
      BY <2>2 DEF HandedOut
    <3>. DEFINE all == num_batches * batch_size
    <3>3. all \in Nat /\ total_count <= all /\ HandedOut = SmallerOf(all, total_count)
      BY <3>1, <3>2
    <3>. HIDE DEF all
    <3>. QED
      BY <3>1, <3>3 DEF SmallerOf
  <2>4. Submitted = AllCounted
    <3>. DEFINE f == [t \in Threads |-> Counted(t)]
    <3>1. \A t \in Threads : Counted(t) = thread_submitted[t]
      <4>. SUFFICES ASSUME NEW t \in Threads PROVE Counted(t) = thread_submitted[t]
        OBVIOUS
      <4>1. thread_submitted[t] \in Nat /\ thread_pc[t] = "done"
        BY <2>1 DEF AllDone
      <4>2. Counted(t) = thread_submitted[t] + 0
        BY <4>1 DEF Counted
      <4>. QED
        BY <4>1, <4>2
    <3>2. f = thread_submitted
      BY <2>1, <3>1
    <3>. QED
      BY <3>2, Zenon DEF AllCounted, Submitted
  <2>. QED
    BY <2>3, <2>4 DEF CountInv
<1>. QED
  BY <1>1, CountInit, CountStep, PTL DEF SubmissionSpec
=============================================================================

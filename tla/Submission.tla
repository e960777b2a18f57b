------------------------------ MODULE Submission ------------------------------
(***************************************************************************)
(* From the generator to the assigner (src/main.c, src/src/receiver.c,     *)
(* src/src/mempool.c): OpenMP threads share out the batches, each sends    *)
(* its batch on a REQ socket of its own and waits for the reply with a     *)
(* timeout; the receiver serves one request at a time on a REP socket,     *)
(* fills the mempool, and dispatches when the mempool holds a block.       *)
(*                                                                         *)
(* A transaction is its index in the run, which is its nonce up to the     *)
(* --base-nonce.  What the assigner does with a drained block is the       *)
(* business of ShardRounds; here a dispatch is the drain that starts it.   *)
(***************************************************************************)
EXTENDS Integers, FiniteSets, Functions, Selection

CONSTANTS
    Threads,          \* the OpenMP threads of the generator
    total_count,      \* <count>
    batch_size,       \* --batch
    num_shards,       \* --num-shards of the receiver
    block_sizes,      \* the values --block-size may have
    capacity,         \* capacity of the mempool
    MAX_NODES,        \* nodes the receiver has room for
    MAX_SHARDS,       \* shards a ShardAssigner has room for
    verify,           \* --verify
    Unsigned,         \* transactions whose wallet_sign failed
    MaxTimeouts,      \* bound: receives of the generator that time out
    None              \* no thread; NULL

ASSUME ThreadsAssumption ==
    IsFiniteSet(Threads) /\ Threads # {} /\ None \notin Threads
ASSUME CountsAssumption ==
    /\ {total_count, MaxTimeouts} \subseteq Nat
    /\ {batch_size, num_shards, capacity} \subseteq Nat \ {0}
    /\ block_sizes \subseteq Nat \ {0}
    /\ verify \in BOOLEAN
\* The check of the option (receiver.c:108).
ASSUME ShardsAssumption == num_shards <= MAX_NODES /\ MAX_SHARDS \in Nat
ASSUME UnsignedAssumption == Unsigned \subseteq 0 .. total_count - 1

VARIABLES
    \* generator
    next_batch,       \* the next iteration of the dynamic schedule
    thread_pc,        \* where each thread is in its loop
    batch_of,         \* the batch a thread works on
    req_state,        \* whether a thread's REQ socket must send or receive
    thread_submitted, \* transactions each thread counts as submitted
    timeouts,         \* receives that have timed out
    \* sockets
    requests,         \* per thread, the batches on their way to the receiver
    replies,          \* per thread, the replies on their way back
    \* receiver
    block_size,       \* g_block_size
    up,               \* the process has not crashed
    serving,          \* the thread whose request is being handled
    counts,           \* accepted and rejected of that request
    mempool,          \* pool->txs[0 .. count-1]
    \* history
    handled,          \* the batches the receiver took, in order
    added,            \* every transaction mempool_add took, in order
    dispatched        \* the drained blocks, in order

generatorVars == <<next_batch, thread_pc, batch_of, req_state, thread_submitted,
                   timeouts>>
receiverVars == <<block_size, up, serving, counts, mempool, handled, added,
                  dispatched>>
submissionVars == <<generatorVars, requests, replies, receiverVars>>

SmallerOf(a, b) == IF a < b THEN a ELSE b

-----------------------------------------------------------------------------
(***************************************************************************)
(* Seeded faults, substituted one at a time to show that a property fails. *)
(***************************************************************************)
FaultyCredit(b) == batch_size
FaultyExact == block_size
FaultyAfterDrain(pool, n) == pool
FaultyBlockReady == Len(mempool) > block_size
FaultyReplyTo(t, r) ==
    replies' = IF r.accepted = 0 THEN replies
               ELSE [replies EXCEPT ![t] = Append(@, r)]
FaultyCanSend(t) == TRUE
FaultyAdded(txs) == txs

-----------------------------------------------------------------------------
(***************************************************************************)
(* The generator.                                                          *)
(***************************************************************************)
num_batches == (total_count + batch_size - 1) \div batch_size

BatchEnd(b) == SmallerOf((b + 1) * batch_size, total_count)
BatchCount(b) == BatchEnd(b) - b * batch_size
BatchTxs(b) == [i \in 1..BatchCount(b) |-> b * batch_size + i - 1]

\* What an "OK" adds to thread_submitted: the whole of the thread's batch.
Credit(b) == BatchCount(b)

\* zmq_send on a REQ socket that still owes a receive fails with EFSM, and
\* the generator does not look.
CanSendBatch(t) == req_state[t] = "send"

\* The next batch of the dynamic schedule is built and sent.
SendBatch(t) ==
    /\ thread_pc[t] = "next"
    /\ next_batch < num_batches
    /\ next_batch' = next_batch + 1
    /\ batch_of' = [batch_of EXCEPT ![t] = next_batch]
    /\ IF CanSendBatch(t)
       THEN /\ requests' = [requests EXCEPT ![t] = Append(@, next_batch)]
            /\ req_state' = [req_state EXCEPT ![t] = "recv"]
       ELSE UNCHANGED <<requests, req_state>>
    /\ thread_pc' = [thread_pc EXCEPT ![t] = "wait"]
    /\ UNCHANGED <<thread_submitted, timeouts, replies, receiverVars>>

\* Every reply to a batch starts with "OK", whatever it says was accepted.
RecvReply(t) ==
    /\ thread_pc[t] = "wait"
    /\ replies[t] # <<>>
    /\ replies' = [replies EXCEPT ![t] = Tail(@)]
    /\ req_state' = [req_state EXCEPT ![t] = "send"]
    /\ thread_submitted' =
         [thread_submitted EXCEPT ![t] = @ + Credit(batch_of[t])]
    /\ thread_pc' = [thread_pc EXCEPT ![t] = "next"]
    /\ UNCHANGED <<next_batch, batch_of, timeouts, requests, receiverVars>>

\* ZMQ_RCVTIMEO runs out: the thread goes on, the socket still owes a receive.
RecvTimeout(t) ==
    /\ thread_pc[t] = "wait"
    /\ timeouts < MaxTimeouts
    /\ timeouts' = timeouts + 1
    /\ thread_pc' = [thread_pc EXCEPT ![t] = "next"]
    /\ UNCHANGED <<next_batch, batch_of, req_state, thread_submitted, requests,
                   replies, receiverVars>>

\* The barrier at the end of the loop; the sockets' linger delivers what
\* they have sent.
LeaveLoop(t) ==
    /\ thread_pc[t] = "next"
    /\ next_batch >= num_batches
    /\ thread_pc' = [thread_pc EXCEPT ![t] = "done"]
    /\ UNCHANGED <<next_batch, batch_of, req_state, thread_submitted, timeouts,
                   requests, replies, receiverVars>>

-----------------------------------------------------------------------------
(***************************************************************************)
(* The receiver: one iteration of its loop is RecvBatch, Dispatch if the   *)
(* mempool holds a block, and SendReply.                                   *)
(***************************************************************************)
Valid(tx) == verify => tx \notin Unsigned

\* The transactions of a batch that are not rejected, in their order.
ValidOf(txs) ==
    LET valid[n \in 0..Len(txs)] ==
          IF n = 0 THEN <<>>
          ELSE IF Valid(txs[n]) THEN Append(valid[n - 1], txs[n])
               ELSE valid[n - 1]
    IN  valid[Len(txs)]

\* mempool_add of each transaction in turn: the first ones, while there is room.
Added(txs) == SubSeq(txs, 1, SmallerOf(capacity - Len(mempool), Len(txs)))

RecvBatch(t) ==
    /\ up /\ serving = None
    /\ requests[t] # <<>>
    /\ requests' = [requests EXCEPT ![t] = Tail(@)]
    /\ LET b == Head(requests[t])
           valid == ValidOf(BatchTxs(b))
       IN  /\ mempool' = mempool \o Added(valid)
           /\ added' = added \o Added(valid)
           /\ counts' = [accepted |-> Len(Added(valid)),
                         rejected |-> BatchCount(b) - Len(valid)]
           /\ handled' = Append(handled, b)
    /\ serving' = t
    /\ UNCHANGED <<generatorVars, replies, block_size, up, dispatched>>

BlockReady == Len(mempool) >= block_size

\* block_size rounded down to a multiple of num_shards, but never to 0.
Exact == LET whole == (block_size \div num_shards) * num_shards
         IN  IF whole = 0 THEN num_shards ELSE whole

\* mempool_drain hands out n transactions and sets the count to 0.
Drained(pool, n) == SubSeq(pool, 1, SmallerOf(n, Len(pool)))
AfterDrain(pool, n) == <<>>

\* It fails above MAX_SHARDS, and the receiver does not look.
shard_assigner_create ==
    IF num_shards > MAX_SHARDS THEN None ELSE [num_shards |-> num_shards]
g_assigner == shard_assigner_create

\* A dispatch through NULL ends the process.  After any other the mempool is
\* empty, so that SendReply is next.
Dispatch ==
    /\ up /\ serving # None
    /\ BlockReady
    /\ IF g_assigner = None
       THEN up' = FALSE /\ UNCHANGED <<dispatched, mempool>>
       ELSE /\ dispatched' = Append(dispatched, Drained(mempool, Exact))
            /\ mempool' = AfterDrain(mempool, Exact)
            /\ UNCHANGED up
    /\ UNCHANGED <<generatorVars, requests, replies, block_size, serving, counts,
                   handled, added>>

ReplyTo(t, r) == replies' = [replies EXCEPT ![t] = Append(@, r)]

SendReply ==
    /\ up /\ serving # None
    /\ ~BlockReady
    /\ ReplyTo(serving, counts)
    /\ serving' = None
    /\ UNCHANGED <<generatorVars, requests, block_size, up, counts, mempool,
                   handled, added, dispatched>>

-----------------------------------------------------------------------------
SubmissionInit ==
    /\ next_batch = 0
    /\ thread_pc = [t \in Threads |-> "next"]
    /\ batch_of = [t \in Threads |-> 0]
    /\ req_state = [t \in Threads |-> "send"]
    /\ thread_submitted = [t \in Threads |-> 0]
    /\ timeouts = 0
    /\ requests = [t \in Threads |-> <<>>]
    /\ replies = [t \in Threads |-> <<>>]
    /\ block_size \in block_sizes
    /\ up = TRUE
    /\ serving = None
    /\ counts = [accepted |-> 0, rejected |-> 0]
    /\ mempool = <<>>
    /\ handled = <<>>
    /\ added = <<>>
    /\ dispatched = <<>>

ThreadStep(t) == SendBatch(t) \/ RecvReply(t) \/ LeaveLoop(t)

ReceiverStep == (\E t \in Threads : RecvBatch(t)) \/ Dispatch \/ SendReply

AllDone == \A t \in Threads : thread_pc[t] = "done"

\* The generator has ended and the receiver waits for input.
Idle ==
    /\ AllDone
    /\ serving = None
    /\ \A t \in Threads : requests[t] = <<>>
    /\ UNCHANGED submissionVars

SubmissionNext ==
    \/ \E t \in Threads : ThreadStep(t) \/ RecvTimeout(t)
    \/ ReceiverStep
    \/ Idle

SubmissionSpec == SubmissionInit /\ [][SubmissionNext]_submissionVars

\* Threads and the receiver are scheduled; a timeout is never owed, and the
\* receiver's REP socket takes its peers' requests in turn.
SubmissionFairness ==
    /\ \A t \in Threads :
         /\ WF_submissionVars(ThreadStep(t))
         /\ WF_submissionVars(RecvBatch(t))
    /\ WF_submissionVars(Dispatch \/ SendReply)

FairSubmissionSpec == SubmissionSpec /\ SubmissionFairness

-----------------------------------------------------------------------------
\* The type of every variable.
SubmissionTypes ==
    /\ next_batch \in 0..num_batches
    /\ thread_pc \in [Threads -> {"next", "wait", "done"}]
    /\ batch_of \in [Threads -> Nat]
    /\ req_state \in [Threads -> {"send", "recv"}]
    /\ thread_submitted \in [Threads -> Nat]
    /\ timeouts \in 0..MaxTimeouts
    /\ requests \in [Threads -> Seq(Nat)]
    /\ replies \in [Threads -> Seq([accepted : Nat, rejected : Nat])]
    /\ block_size \in block_sizes
    /\ up \in BOOLEAN
    /\ serving \in Threads \cup {None}
    /\ counts \in [accepted : Nat, rejected : Nat]
    /\ mempool \in Seq(Nat) /\ Len(mempool) <= capacity
    /\ handled \in Seq(Nat)
    /\ added \in Seq(Nat)
    /\ dispatched \in Seq(Seq(Nat))

Submitted == SumFunctionOnSet(thread_submitted, Threads)
Received == SumFunction([i \in 1..Len(handled) |-> BatchCount(handled[i])])
AllDispatched == FlattenSeq(dispatched)

\* The generator credits a late reply to the batch its thread holds when the
\* reply comes, not to the batch it answers; still it never reports more
\* transactions than the receiver got, since a later batch is never larger.
NeverOvercounted == Submitted <= Received

\* Without a timeout it reports exactly what it was asked to send.
CountsAllWithoutTimeout ==
    AllDone /\ timeouts = 0 => Submitted = total_count

\* A REQ socket has one request outstanding when it owes a receive and none
\* when it may send, whatever timed out: an old reply never meets a new request.
OneRequestPerSocket ==
    \A t \in Threads :
        Len(requests[t]) + Len(replies[t]) + (IF serving = t THEN 1 ELSE 0)
            = (IF req_state[t] = "recv" THEN 1 ELSE 0)

\* However batches interleave, and whatever times out, no transaction is
\* dispatched twice or dispatched and still pooled.
DispatchedOnce == IsInjective(AllDispatched \o mempool)

\* A block holds a multiple of num_shards transactions, as many as block_size
\* allows; a block_size below num_shards yields block_size to num_shards.
BlockSizes ==
    \A i \in 1..Len(dispatched) :
        LET n == Len(dispatched[i])
        IN  IF block_size < num_shards
            THEN n \in block_size..num_shards
            ELSE /\ n % num_shards = 0
                 /\ n \in block_size - num_shards + 1 .. block_size

\* What mempool_add takes is dispatched or still pooled, in the order it came.
\* It holds when num_shards divides block_size and every batch fills a
\* divisor of block_size.
NothingDropped == AllDispatched \o mempool = added

\* The valid transactions of the batches the receiver took, in order.
ValidTxs == {tx \in 0 .. total_count - 1 : Valid(tx)}
ValidReceived ==
    FlattenSeq([i \in 1..Len(handled) |-> Chosen(BatchTxs(handled[i]), ValidTxs)])

\* The mempool refuses nothing, so that what the reply leaves uncounted is
\* nothing either, as long as a block less one and a batch fit in it; above that
\* it may, and with a block_size above its capacity it is never emptied again
\* (receiver.c:112 sets no upper limit).
NoneRefused ==
    block_size - 1 + batch_size <= capacity => added = ValidReceived

\* "num-shards must be 1-%d" with MAX_NODES (receiver.c:109): with any number of
\* shards it accepts the receiver goes on.
AcceptedShardsServed == up

\* "Uses OpenMP to create batches of transactions in parallel and sends them
\* over ZMQ to a receiver" (main.c:6): when the generator is done, every batch
\* has been sent.
EveryBatchSent ==
    AllDone => \A b \in 0 .. num_batches - 1 :
                   \/ b \in ToSet(handled)
                   \/ \E t \in Threads : b \in ToSet(requests[t])

\* The generator ends: every receive is answered, though one may time out.
GeneratorFinishes == <>AllDone
=============================================================================

# Verification of the sharding pipeline

TLA+ specifications of this repository's programs (`src/main.c`, `src/src/`), the TLC
configurations that check them on small instances, and TLAPS proofs of the results that
should hold for every instance. Source lines below are `file:line` under `src/`.

## 1. The system

Three programs talk over ZeroMQ.

| Part | State | Operations | Talks to |
|---|---|---|---|
| **Generator** (`main.c`) | the dynamic schedule of batches; per thread a wallet, a REQ socket, a count | build and sign a batch, send it, wait 30 s at most, credit it | receiver (REQ/REP) |
| **Receiver** (`src/receiver.c`) | mempool, nodes, assigner | receive a batch, verify (optional), `mempool_add`, elect and dispatch when a block is pooled, reply | generator; calls mempool, election, assigner |
| **Mempool** (`src/mempool.c`) | array of transactions and keys, count, capacity, mutex | add, drain, size | called by receiver and assigner |
| **Election** (`src/election.c`, `src/node.c`) | nodes: stake, shard, role | stake-weighted draw without replacement | called by the receiver; the result is printed only |
| **ShardAssigner** (`src/shard_assigner.c`) | round number, counts per shard, one PUSH socket per shard, one for `DispatchDone` | dispatch a round: header, transactions, `RoundEnd` to every shard, `DispatchDone` | workers (PUSH/PULL) |
| **Leader**, shard 0 (`src/shard_worker.c`) | round, own buffer, summaries, metrics | take the header, wait for `DispatchDone`, publish `ROUND_START`, process, collect summaries, finalize | assigner, followers |
| **Followers**, shards 1.. (`src/shard_worker.c`) | own buffer | wait for `ROUND_START`, process, push a summary | assigner, leader (SUB, PUSH) |
| **Transaction, Wallet, BLAKE3, Common** | none that is shared | create, sign, verify, hash, encode | called by all |

What is hard about it:

* the assigner runs ahead of the workers by any number of rounds (its queues are
  unlimited), so each stream may hold several rounds at once, and nothing but the order
  of the stream and the `RoundEnd` marker separates them;
* the leader and the followers never compare round numbers: agreement rests on lock step;
* PUB/SUB loses what is published before a subscription is known;
* the mempool's drain and its threshold use different sizes;
* a REQ socket whose receive timed out cannot send, and nobody looks;
* a signal handler shares the leader's accumulators and its file with what it interrupts;
* the receiver serves nobody while it dispatches, and a dispatch may wait for the leader: the
  generator's threads, the receiver and all workers may come to wait for one another;
* nothing resynchronises a round after a restart: a new receiver counts from 0, over a
  connection of its own, while the workers go on with what the old one had delivered;
* `wallet_save` truncates the old file and looks at no result of a write;
* the hasher's stack has no bound but the condition under which it is merged.

What makes each part correct: a transaction that is accepted is dispatched once (receiver,
mempool); a round is split by nonce, in order (assigner); block *r* holds exactly what
round *r* sent to every shard, blocks come in order, and every round becomes a block
(workers); the generator's count says what was sent (generator); each shard has a node of its
own, by stake (election); a digest depends on the bytes and not on their cuts (BLAKE3); what is
signed arrives as it was signed, and a key stays with its address (transaction, wallet, wire).
`PROJECT.json` lists every
hazard at its line, with the properties that cover it.

## 2. The modules

| Module | Models | Checked by |
|---|---|---|
| `ShardRounds` | assigner, leader and followers, one round after another | `MCShardRounds`: runs `rounds`, `join_wait` |
| `BlockLog` | what they promise together: batches become blocks, whole, in order | refinement, run `rounds` |
| `ShardRoundsInv` | the inductive invariant of `ShardRounds`, in named parts | run `rounds` |
| `ShardRoundsProofs` | theorems about `ShardRounds`: types, every safety property, the refinement of `BlockLog` | TLAPS |
| `Restarts` | `ShardRounds` when the receiver or a follower ends and is started again | `MCRestarts`: run `restart` |
| `Submission` | generator threads, REQ/REP sockets, receiver, mempool | `MCSubmission`: four runs |
| `SubmissionProofs` | theorems about `Submission` | TLAPS |
| `Selection` | the elements of a sequence that are in a set (operator) | through the modules that use it |
| `FoldLemmas` | what the library's folds return, lemmas for all the proofs | TLAPS |
| `Pipeline` | `Submission` and `ShardRounds` joined by the dispatch: the whole system | `MCPipeline`: run `pipeline` |
| `CompositionProofs` | theorems about the two compositions, `Restarts` and `Pipeline` | TLAPS |
| `Transaction` | creating, hashing, signing, verifying, packing (operators) | through `TransactionPath` |
| `Wallet` | a wallet in memory and its file | through `TransactionPath` |
| `TransactionPath` | a batch from the wallet that signs it to the summary of a shard | `MCTransactionPath`: run `wallet` |
| `TransactionPathProofs` | theorems about the three, and about `Hex` | TLAPS |
| `Hex` | hexadecimal text of bytes, structs and addresses (operators) | an assumption of `MCTransactionPath` |
| `Election` | `elect_winners` loop by loop, and the reset before it | `MCElection` |
| `ElectionProofs` | theorems about `Election` | TLAPS |
| `LeaderMetrics` | the leader's accumulators, the signals, `results.csv` | `MCLeaderMetrics` |
| `LeaderMetricsProofs` | theorems about `LeaderMetrics` | TLAPS |
| `Blake3Hasher` | the streaming hasher of `blake3.c` | `MCBlake3Hasher` |
| `Blake3HasherProofs` | theorems about `Blake3Hasher` | TLAPS |

`Pipeline` extends `Submission` and `ShardRounds`; `Restarts` extends `ShardRounds`;
`TransactionPath` extends `Wallet`, which extends `Transaction`. Of a transaction `Pipeline` has
the number only, `TransactionPath` the content: which transactions are in which block is the
question of the one, what is in them that of the other. `Election` runs inside the receiver's
dispatch and only prints what it finds; `LeaderMetrics` looks at the leader's `FinalizeBlock` from
inside.

### ShardRounds

`shard_assigner_dispatch` is one action per `zmq_send`: `SendDispatchHeader` (with the
reset of the counts and the drain, which no worker can see), `SendTx`, `SendRoundEnd`,
`SendDispatchDone`. `run_leader` is `LeaderReady`, `RecvDispatchHeader`,
`RecvDispatchDone`, `PublishRoundStart`, `RecvTx`, `OwnSummary`, `CollectSummary`,
`FinalizeBlock`; `run_follower` is `RecvRoundStart`, `RecvTx`, `PushSummary`. `RecvTx` is an
iteration of `process_transactions`' loop, shared by both. `Subscribe` is libzmq's.

* Every PUSH/PULL connection is a lossless FIFO queue in one variable: what is in it is on
  its way, anywhere between the two programs. `CanSend` is the high-water mark, 0 for the
  transaction streams as in the code.
* A shard's merkle root is a hash chain over its transactions in order, its fees and count
  are sums over them: the sequence of transactions stands for the three. A worker's
  verification result is discarded by the code (`shard_worker.c:138-141`) and has no effect.
* The fields `round` and `n` of a transaction message, and the variables `blocks`, `sent`
  and `reported`, are history: no guard reads them.
* `SubWaitSuffices` says whether the leader's `usleep` (`shard_worker.c:200`) is long enough
  for every subscription. Nothing in the code ensures it: `join_wait` shows what happens if it
  does not, and the theorems hold for both values.
* Latencies, TPS and the CSV file are left out.

### Submission

A thread's iteration is `SendBatch`, then `RecvReply` or `RecvTimeout`; `LeaveLoop` is the
end of the loop. An iteration of the receiver is `RecvBatch`, `Dispatch` if the pool holds a
block, `SendReply`. The timeout may strike at any moment, also while the receiver handles
that very request. `Unsigned` is the set of transactions whose `wallet_sign` failed:
`transaction_create` ignores that (`transaction.c:69`), and `--verify` rejects them.
`ValidOf` is the loop over a batch, a recursive function so that it can be reasoned about;
`ValidReceived` says with a library operator what it should amount to. `block_sizes` is a set:
the option is chosen in the initial state. `g_assigner` may be `None`, the `NULL` of
`shard_assigner_create`. A malformed request, which the generator never sends, and the mode
`--in-process` are left out.

### Pipeline

`CallDispatch` is `Submission`'s `Dispatch` and, in the same step, the first send of
`shard_assigner_dispatch`, whose batch is what the drain hands out. `ReplyAfterReturn` waits until
that dispatch has ended: the receiver has one thread. Everything else is a step of one of the
two parts. Fairness is that of the two parts. Three assumptions tie their constants together:
transactions are the numbers that the generator gives nonces to from `--base-nonce` on
(`NumberedAssumption`, `main.c:173`), both programs get the same `--num-shards` (`OneNumShards`),
and the bound on a round's batch lets every drain through (`DrainedFit`).

### Restarts

`RestartReceiver` and `RestartFollower` are what the end of a process and a new start change.
Of what a receiver had sent, any beginning may have arrived (`leftover`); the new receiver has
a connection of its own, and a PULL socket takes from both in any order (`TakeOld` is a worker's
step with the old connection in place of the new, an `INSTANCE` of `ShardRounds`). A follower's
unread messages are lost with its socket, and its unsent summary may be. Each process restarts
once. The leader does not restart: `Seen while modelling` says what would happen.

### Transaction, Wallet, TransactionPath

Byte arrays are opaque: a public key says whose it is, an address from which key it was derived,
a signature whose it is and over what. That is what BLAKE3 and Ed25519 are assumed to be; all
zeros is a value of its own, because the code tests for it. A message is a record, a packed one
the fields that are not 0 or empty, by number, as proto3 has it. `Verdict` is the choice between
the two verifications that the receiver makes; the workers make it too and ignore its result.

`wallet_save` and `wallet_load` are in `wallet.h`, but none of the three programs calls them: the
properties of the file say what a caller may rely on. They are about names of one line: the name is
written unescaped (`wallet.c:91`) and the file is read by line, so that a line break in a name adds
lines, which the opaque names of the model cannot do.

A wallet file is a sequence of items, one for each line. `SaveClose` leaves any beginning of it,
a last line broken anywhere included (`Beginnings`): a number may lose its last digit, a PEM block
that is not whole yields no key. Names are opaque; `Cut` and `Trimmed` are what becomes of a name
of over 63 characters and of one with blanks. `TransactionPath` takes one batch through
`MakeBatch`, `Receive`, the OpenMP loop (`RunIteration` per thread, `Join` its reduction) and
`Summarize`.

### Hex

A character is its ASCII code, a byte a number; `bytes_to_hex` and `hex_to_bytes` are the two
loops, and a failed conversion is `NULL`.

### Election

`Begin` is the reset of `run_election_and_dispatch`; `AddStake` and `Scan` are iterations of
the two loops over the nodes, `Draw` is `rand() % total_stake`, `Assign` is
`node_assign_shard` of the winner, which is `winner_idx`, 0 when the scan hit nobody. As in the
code there are as many shards as nodes. `upto` is history: it remembers the first loop's
partial sums for the proof. Stakes are bounded (100 to 999), so a 64-bit sum of 64 of them
does not overflow and integers keep no width.

### LeaderMetrics

Of a sum only the blocks it covers matter, and blocks are added in order, so each of the
four accumulators is the number of blocks it covers. They are not `volatile`: between
`FinalizeBlock` and the next call of `zmq_recv` the compiler may store them in any order
(`Store`). The first signal stops the main thread for good. `signal` masks only the signal itself
(`shard_worker.c:398`), so the next may run the handler on top of the first call, wherever that is,
or on an OpenMP thread; `thread` says where a call runs, and a call with another on top of it
(`stopped`) never moves again, because the handler does not return.

The calls of the handler share one `FILE`, whose inside is what decides how they meet:

* `fprintf` is `EnterPrint`, `Allocate` the first time, `StartRow` and `EndRow`, with half a row in
  the buffer between them; `fflush` is `EnterWrite`, `Write`, `Empty`, with the row in the file
  and still in the buffer between the last two; `fclose` is `EnterWrite`, `Write`, `CloseFile`,
  `Release`. A row is an item that is `whole` or not.
* The lock of the `FILE` is counted per thread: another thread waits for it (`LockFree`), a call on
  top of its holder does not. The lock of the allocator is not: a call that allocates or frees waits
  for ever if what the signals stopped holds it (`Hang`), be it the leader (`main` is `"busy"`) or a
  stopped call (`AllocatorHeld`).
* What has no defined outcome is a choice (`Misuse`): a call that uses the file after it was closed,
  or on top of one that was stopped inside the library, may hang, do nothing or end the process,
  and in the second case it may also go on as usual, which gives torn and doubled rows.

`Reentered` says that a call was stopped inside the library. `RowNearlyExact` and `QuietRowExact`
hold all the same; the other two properties end there.

### Blake3Hasher

The compression function is a free constructor, a record of its arguments: two results
are equal exactly when their arguments are, which is what a hash is assumed to be. A
`blake3_hasher_update` is `Update`, then `TakeInput` and, when a full chunk meets more input,
`CompressChunk`, `MergeLeft` for each iteration of `add_chunk_cv`, `PushCv`; then `Return`.
`Digest` is `blake3_hasher_finalize`, which changes a copy only. Bytes are numbered in the
order they are fed, so that one that is lost, repeated or out of place shows. `OneShot` is
the reference: the digest as a function of the bytes alone.

## 3. The runs

| Run | Bounds | Shows |
|---|---|---|
| `rounds` | 3 shards, 2 transactions, batches of 1 or 2, 2 rounds, `DoneHwm` 1 | `BlocksExact`, `RoundAgreement`, `HeaderAligned`, `NeverStarved`, `LockStep`, `LogInv`, `EveryRoundFinalized`, `ImplementsBlockLog`, no deadlock |
| `join_wait` | 2 shards, 1 round | *violation*: a round is announced before a follower joined |
| `restart` | 3 shards, 2 transactions, batches of 1, 2 rounds of both receivers together, 2 restarts of the receiver and the 2 followers, each once | `OneSummaryPerShard`, `NothingTwice`, `LockStep`, and `AnswersInv` behind the first; a leader may wait for a lost summary, so deadlock is not checked |
| `pipeline` | 2 threads, 6 transactions in batches of 2, 2 shards, blocks of 2 or 4, a batch rejected whole, 1 timeout | `NothingDropped`, `BlocksMatchPool`, `InBlocksOnce`, `EveryAcceptedInBlock`, `GeneratorEnds`, no deadlock |
| `submission` | 3 threads, 7 transactions in batches of 2, 3 shards, blocks of 2 to 5, capacity 4, 1 rejected, 2 timeouts | `SubmissionTypes`, `NeverOvercounted`, `CountsAllWithoutTimeout`, `OneRequestPerSocket`, `DispatchedOnce`, `BlockSizes`, `NoneRefused`, no deadlock |
| `submission_unaligned` | a block size that the number of shards does not divide | *violation*: the drain discards accepted transactions |
| `submission_timeout` | 2 threads, 1 timeout | *violation*: a batch is never sent |
| `too_many_shards` | 3 shards, `MAX_SHARDS` 2, `MAX_NODES` 4 | *violation*: an accepted `--num-shards` ends the receiver |
| `election` | 4 nodes, stakes 1 to 3, one election after another | `DistinctWinners`, `OneNodePerShard`, `StakeWeighted`, `ElectionEnds` |
| `metrics` | 3 blocks, two signals, two threads | `RowNearlyExact`, `QuietRowExact`, `RowBeforeExit`, `QuietSignalWrites`; the process ends, so deadlock is not checked |
| `hasher` | blocks of 2 bytes, chunks of 4, up to 34 bytes in pieces of up to 9, with and without a key | `StackBounded`, `SplitIndependent`, `DigestCommits` |
| `wallet` | 4 names (one with a blank, one cut, one of 40 digits), 4 keys, 1 save, nonces 0 and 1, batches of up to 3, 2 OpenMP threads | `KeyMatchesAddress`, `LoadsAllOrNoKey`, `ArrivesUnchanged`, `PaysNamedWallet`, `SummarySequential`; the batch's way ends, so deadlock is not checked |

Why the bounds are enough. Two rounds let the assigner send all of a round while the workers
are in the one before, so a stream holds the ends of one round and all of the next; more rounds
only lengthen the queue, and the proofs have no bound. Three shards are the leader and two
followers, the least with two orders of summaries and with one follower fast and one slow.
Batches of two reach every split: both on one shard, one each, a shard with none. `DoneHwm` 1
makes the assigner wait for the leader, which the default of 1000 does only after 1000 rounds.

In `restart` three shards are the least with which a second answer of a follower can take the place
of another's: with one follower `OneSummaryPerShard` could only miss a summary. Two rounds may be of
one receiver, or one of each, which then meet in one block; two of the three processes restart. With
two shards TLC has also checked three rounds, two of one receiver and one of the other.
In `pipeline` block 4 with batches of 2 takes two requests to fill, block 2 one; `DoneHwm` 1 makes
the dispatch wait for the leader, so that the generator waits for the workers. In `submission`
three threads and four batches make the last, partial batch arrive at every place; the blocks
are below, at and above `num_shards` and a multiple of it, and 5 is above the capacity of 4, where
the pool fills and refuses. In `Election` only the order of the shares and of the numbers drawn
matters: stakes 1 to 3 make a draw hit the first, an inner and the last unit of a share, next to
equal and unequal shares. In `metrics` the two signals are the two the program handles, each of
which interrupts the other's handler at every step or runs beside it; with a third one, and two
blocks, TLC has checked the four properties and the invariants of the proofs too. Nine chunks take the hasher's stack through every state twice; a chunk of two blocks has a
first and a last one, and pieces of nine bytes may hold two chunks and a byte. In `wallet` three
transactions on two OpenMP threads are an uneven division; one save suffices, since it may
itself be of a wallet that was loaded from part of a file only by way of a second one, which the
proofs cover. Its view forgets the wallet once the batch is made: no later step reads it.

Fairness. Every process is a loop over blocking calls, so a step that stays possible is
taken: weak fairness per process, and per follower for its subscription, because libzmq
retries a connect until it succeeds. The receiver's REP socket queues fairly among its
peers: weak fairness of `RecvBatch` per thread. No fairness on dispatching a batch nor on a
timeout: nothing obliges them. A call of `elect_winners` runs to its end: weak fairness of its
steps. Of the calls of the handler that can go on one does: where two share a thread the upper one
stops the lower, so no call has fairness of its own, and no signal has to come. In
the code a receive gives up after 30 seconds; `GeneratorEnds` does not lean on that, since no timeout
has to come: every request is answered.

`EveryRoundFinalized` is the reason for the two comments on unlimited high-water marks
(`shard_assigner.c:34`, `shard_worker.c:170`): with a mark of 1 the leader waits for
`DispatchDone` while the assigner waits for room in the leader's stream.

Every property of a passing run is also checked against a seeded fault, a variant named
`Faulty...` of one definition (a dropped reset, an early loop exit, an off-by-one); TLC finds
the property violated.

## 4. Findings

1. **A late follower stops the chain** (`join_wait`; `shard_worker.c:197-200`). The comment
   promises to wait for the followers; the code sleeps. A follower that joins later misses
   the announcement and the leader waits for its summary forever. The proofs of
   `ShardRoundsProofs` do not assume that followers join in time: this is all that happens, no
   wrong block and no mixed rounds.
2. **The drain loses transactions** (`submission_unaligned`; `mempool.c:51`). The threshold is
   `block_size`, the drain takes `block_size` rounded down to a multiple of `num_shards`, and
   the count is reset to 0: the rest is discarded although it was accepted. With 12 shards
   and blocks of 1024, a setting of the README's experiment, that is 4 transactions a block.
   `pipeline` shows that nothing is lost when the sizes divide each other and every batch is
   whole, and `AlignedPipelineDropsNothing` proves it for all such sizes.
3. **A timeout loses a batch** (`submission_timeout`; `main.c:216`). After a timeout the REQ
   socket owes a receive, the next send fails unseen, and the late reply is credited to the
   batch that was never sent. `NeverOvercounted` shows that the total stays a lower bound.
4. **More than 64 shards end the receiver** (`too_many_shards`; `receiver.c:132`). The option
   allows 256, `shard_assigner_create` returns `NULL` above 64, and the first dispatch uses it.

Seen while modelling, without a run of their own:

* A row of `results.csv` is not always "averaged over all blocks" (`README.md:83`): the handler may
  run between the updates of the accumulators. `RowNearlyExact` bounds the error: each field misses
  at most the last block; `QuietRowExact` says when there is none. The handler does not remember
  having run either: SIGINT and SIGTERM together may write two rows (`shard_worker.c:64`).
* "Flushed on SIGTERM" (`shard_worker.c:46`) is not certain. A signal that finds the leader inside
  `malloc` or `free` may hang its handler in the allocation of the first `fprintf`
  (`shard_worker.c:55`). So may SIGINT that finds SIGTERM's handler there, also when the leader was
  only waiting in `zmq_recv`: `signal` masks neither for the other (`shard_worker.c:398`). Where it
  does not hang it may tear a row, write one twice or lose it. `RowBeforeExit` and
  `QuietSignalWrites` say what holds as long as no call of the handler is interrupted inside
  `fprintf`, `fflush` or `fclose`.
* After a restart of the receiver the leader may pair a `DispatchHeader` of one receiver with
  transactions of the other, so a block may mix two rounds; `restart` shows what remains true. A
  leader that is restarted may count a summary its predecessor asked for: `ShardSummary` has no
  round (`shard_worker.c:252`).
* "Each shard worker independently verifies transactions" (`README.md:37`): the result is discarded
  (`shard_worker.c:138-141`).
* "Partitions mempool transactions across shards by address prefix" (`README.md:58`): by nonce
  (`shard_assigner.c:14`). Batches arrive in any order, so rounding a block's size to a multiple
  of `num_shards` (`shard_assigner.c:80`) does not by itself make the shards' parts equal.
* `transaction.h:101` gives `transaction_create_from_address` a "deterministic BLAKE3-based
  signature"; it leaves zeros. `wallet.h:12` derives an address by RIPEMD160(SHA256(key)); the code
  takes BLAKE3. `README.md:55` has a struct of 112 bytes; it has 128.
* `transaction_is_expired` has no caller: nothing looks at `expiry_block`.
* `blockchain.pb-c.c` holds messages that `blockchain.proto` no longer declares.
* `--block-size` has no upper limit (`receiver.c:112`): above the mempool's capacity no block is
  ever dispatched. `NextBatchFits` says up to which size nothing is refused, and `NoneRefused` is
  about such sizes only; above them what holds is that the pool keeps to its capacity.
* `add_chunk_cv` merges the whole stack at every odd chunk, and `finalize` compresses the root
  once more: for more than one chunk the tree is not the one of the BLAKE3 paper. The key of
  `blake3_hasher_init_keyed` is stored and never read: only a flag enters the digest.

## 5. Proofs

The proofs use the assumptions of the modules on their constants and nothing else: `NumShards`,
`NumNodes` and the hasher's lengths positive, every transaction has a natural nonce, stakes
positive, bounds natural, a generator with at least one thread, and for the whole system the three
assumptions of `Pipeline` (section 2). They hold for every value of the
constants, bounds included; two theorems have a hypothesis more, `Aligned` (below).
`CompositionProofs` extends both compositions; what it proves of `Restarts` cites none of
`Pipeline`'s assumptions. Inductive invariants that are long to evaluate are not in the
configurations; TLC has checked `LedgerInv` on two shards and three rounds, `DigestInv` on the bounds
of `hasher`, and `PipelineInv` on those of `pipeline` with a capacity of 5.

**FoldLemmas.** The library's `FlattenSeq`, `SumFunctionOnSet` and `SumFunction` choose a
recursive function by what it satisfies, and `FoldLeft`, through `MapThenFoldSet`, likewise; that
such a function exists, and is unique, is what has to be proved before anything can be said of it.
`LeastElement` (a set of numbers has a least one, from the pigeonhole principle of the library)
gives `Induction` for any set of numbers given as a set, not as a predicate, which the provers can
instantiate; `FlatExists`, `FlatSame`, `SumsExist` and `SumsSame` use it. The rest of the proofs
see `FlattenAppend`, `ChosenAppend`, `ChosenInjective`, `SumChange`, `SumAtMost`, `SumZero` and
the like; `MaxOf` and `SubsetsAgree` serve the two `FoldLeft` of `TransactionPath`.
`FlattenApart`: of a sequence of sequences without repetition when laid end to end, no two share
an element and none has one twice. `Selection`'s `Chosen` says `SelectSeq` with `FlattenSeq`: the
definition of the former is not visible to the provers.

**ShardRounds.** `ShardRoundsProofs` proves `TypeCorrect`, `Spec => []TypeOK`. `TypeOK` is
inductive by itself: its only part that is not a plain type, `dispatching => round_number > 0`,
makes a message's round a valid one. It proves `Invariance`, `Spec => []Inv`,
and from it `BlocksAreExact`, `RoundsAgree`, `HeadersAlign`, `NoneStarves` and `LockStepHolds`,
for both values of `SubWaitSuffices`: none of them needs the followers to join in time.
`BlocksExact` speaks of finished blocks only and is not inductive; `Inv` adds why it stays true.

* *Streams.* A place on a shard's stream is a round and a number of transactions of it. Every
  queue is a chain of messages from its reader's place to the assigner's (`StreamInv`), and
  every message says what its round sent. `ChainAppend` and `ChainTail` are about chains,
  `StreamPut` and `StreamTake` about a send and a receive. So the next message a reader meets is
  one it expects, whatever rounds the assigner is ahead.
* *Phases.* In the leader's round each follower waits, processes or has reported
  (`FollowerInv`), and its announcement and summary are where that phase says. `LeaderFrame`
  and `PhaseFrame` say which steps leave these parts alone.
* *Pigeonhole.* `EveryoneIn`: as many summaries as shards, no two of the same shard, are the
  summaries of all shards. That is where `FinalizeBlock` gets an exact block.

`BlockLogImplemented`: `Spec` implements the safety part of `BlockLog`. A `SendDispatchDone` is
`BlockLog`'s `Dispatch`, a `FinalizeBlock` its `Finalize`, every other step a stutter. For the
first, `ShareInv` says that what a dispatch has sent each shard and what it still holds make up a
batch; `LogInv` is `Inv` with `ShareInv`, and `LogInvariance` keeps it. For the second,
`BlocksExact` and `EveryoneIn` make the block the next round, whole. The liveness part, that
`Finalize` is not put off forever, is TLC's (`ImplementsBlockLog`, with the fairness of the
processes).

**Restarts.** After a restart `Inv` is lost: streams mix rounds. What is left is `AnswersInv`: a
follower is silent, because it was counted or will never answer, or of the announced round there
is one thing only, an announcement, a round in work or a summary on its way (`AnswersOnce`), and
what was counted is of different shards (`CollectedOnce`). `OneSummaryPerShard` says nothing of
the sockets and is not inductive. `RestartTypes` comes first; `EveryShardInBlock` and
`LockStepAcrossRestarts` follow, with `EveryoneIn` again, for any number of shards, dispatches and
followers that restart.

`CountedOnce` is `NothingTwice`, and needs an account of every copy. The blocks alone say nothing
of the copies that are still on their way and would be counted next. `LedgerInv`: the copies of a
transaction in a shard's blocks, in its summary, in the worker's hands, on its stream and on what
is left over of the old one (`Held`) are together no more than both receivers sent (`Given`). A
step moves a copy from one term to the next, a restart drops some or moves a beginning of the
stream to `leftover`. `AnswersInv` is part of it: a worker whose summary is counted has no other
one. The terms are numbers of indices (`Marked`), about which `MarkedAppend`, `MarkedFlatten` and
their like are proved.

**Pipeline.** A step of the pipeline is a step of each part or leaves it alone (`SubmissionSide`,
`RoundsSide`), so the invariants of the parts are kept: `PipelineImplementsParts` says that every
theorem about `SubmissionSpec` or `Spec` holds of the whole, and `AlignedPipelineDropsNothing` is
one. For `RoundsSide` the batch a dispatch hands over must be one that `ShardRounds` allows, not
empty and of known transactions: `DrainedIsBatch`, from the pool's threshold and from `OnceInv`.
What belongs to neither part is `DrainInv`: there are as many drains as rounds, the one being sent
is split so far and to come as `Sharing` says, and each earlier round is the split of its drain.
`BlocksHoldDrains` follows with `BlocksExact`, and from it `NeverInTwoBlocks`: drains have no
transaction in common (`DrainsApart`, from `OnceInv`), shards of one drain neither, since a nonce
names one shard, and a block has each shard's part once (`PartsAreShares`, the pigeonhole
principle).

**Election.** `Invariance`: the sums of the two loops agree at every node, since `used` does not
change between them (`upto` remembers the first one); hence a positive total always hits, and
what it hits is unused. `SomeoneFree`, by counting, makes the total positive in every round.
`WinnersAreDistinct` and `EveryNodeHasAShard` follow, the latter by the pigeonhole principle
over any number of nodes. `WinsByStake`: the sums of the scan are the sums of the weights of
the nodes before (`BelowIsUpto`), so the numbers that hit a node are an interval as long as its
weight. That `rand()` draws them with equal chance is not the model's.

**LeaderMetrics.** `Invariance`: an accumulator lags by one block exactly while its store is
pending, and rows hold what the accumulators hold. `RowsNearlyExact` and `QuietRowsExact`
follow, for any number of signals and threads. `WritesBeforeExit` needs `WrittenInv`. Of the calls on
one thread all but one are stopped (`OnePerThread`), so that, while none is stopped inside the
library, the lock of the file lets one in at a time (`Alone`, `OneInside`). Hence only the row being
printed is not whole (`WholeRows`), a call that closes the file leaves nobody behind in it, and no
call gets past `fflush` before a row is in the file (`RowOnItsWay`). `InLibrary` calls on top of one
another are the one case left out, as in the property: there TLC finds rows torn, doubled and lost.

**Blake3Hasher.** `Invariance`: every byte fed is in a compressed chunk, in the buffer or in the
input, and the stack has 1 entry after an even and 2 after an odd number of chunks above 1,
fewer only while an odd chunk is merged (`StackShape`). `StackIsBounded` follows: `StackBounded`
alone is not inductive, because two entries under an even counter would lead to three.

`DigestIsOneShot` is `SplitIndependent`. `DigestInv` says what the stack holds, not only how much:
after *c* chunks the merged pairs of the chunks before, and an odd chunk that waits for the other
of its pair (`StackIn`); while a chunk is added, the same with the merges done so far (`Merging`).
Bytes in the buffer and in the input are the stretches of what was fed that follow
(`BytesInOrder`). The operators of the hasher are repeated with the flags and the bytes as
parameters (`CodeIsIn`: they are the model's), so that a step that adds bytes at the end leaves
the trees of earlier chunks as they are. `OneShotCommits` says that the digest tells any two
inputs apart, although the tree is not that of the BLAKE3 paper: a chaining value of a chunk is
never that of a parent, a chunk's counter says where it is, and the last block's length where it
ends. `DigestsDecide` brings the two together: whatever was fed, in whatever pieces, no other
input has its digest.

**Submission.** `SubmissionTypeCorrect`: types, with the fact that a thread and a request only
ever hold a batch of the schedule (`BatchesHeld`), whose size `SizeOfBatch` bounds. That bound, a
division and a product, is what keeps a reply's counts natural and the mempool within its
capacity. `SubmissionInvariance` adds that between two requests the mempool is below a block
(`PoolBelowBlock`), that a socket has one message under way or none, and the sizes of the blocks;
none needs another but for the types. `OneRequestEach`, `BlocksHaveTheirSize` and `NextBatchFits`
follow. The lemma `LoopExists` serves the loop `ValidOf`, which is a recursive function: the loop
has a value at each round. Five more results have an invariant of their own:

* `NeverDispatchedTwice`. `BatchesOnce`: no batch is handled twice, nor on its way and handled, or
  on its way from two threads. `OnceInv` adds that blocks and pool hold transactions of handled
  batches only, so that the next batch brings none that is there.
* `TakesAllThatIsValid`. `NoneRefused` is inductive next to `OnceInv`: what a batch adds to the pool
  is its valid transactions, when they fit, which `NextBatchFits` says.
* `AlignedDropsNothing`, under `Aligned`: `num_shards` and `--batch` divide the block size, every
  batch is full and accepted or rejected as a whole. Then the pool holds whole batches
  (`WholeBatches`) and meets the block size exactly. Without one of these TLC finds a drop: this is
  finding 2, and `pipeline` is an instance with all of them.
* `ReportsNoMoreThanTaken`. A thread's *owed* transactions are those it has been credited and, while
  the receiver serves it or a reply is on its way, the batch that this reply would credit.
  `OwedInv`: the sum of these over the threads is at most what the receiver took. A late reply credits a later batch,
  which is never larger (`LaterNotLarger`): only the last batch is short.
* `ReportsAllWithoutTimeout`. `CountInv`: without a timeout, what is counted and what is waited for
  add up to what the schedule has handed out.

**Transaction, Wallet.** `WireRoundTrip`: field by field, a field that is left out is one whose
default is its value. `SignedVerifies` and `SignatureCommits`: of the code they use that signing
and verifying hash the same fields, and that these are all but the signature. `WalletInvariance`
keeps, for every wallet in memory and the one behind the file, that a PEM text goes with its key and
its address (`WalletOK`); this is stronger than `KeyMatchesAddress`, which says nothing of a wallet
that was cut off, is saved again and loaded again. `LoadedOK` is its core: the four lines in the
order `wallet_save` writes them, the key last. `KeysMatch` and `LoadsAllOrNone` follow. `MadeBatch`
combines the wallet with the wire: `WireIsFaithful`, `SignedIsAccepted` and `NamedWalletIsPaid`.

**TransactionPath.** Two more results have an invariant of their own:

* `ArrivesAsMade`. That the receiver's verdict is the genuine one (`VerdictIsGenuine`) holds only if no
  wallet has the coinbase address, which needs no signature: `SourceInv` keeps
  that, through the file and what is left of it after a save that was cut off. `ArriveInv` adds what the
  entries of a batch are; `Receiving` is the step, where `WireCarriesBatch` gives back the entries.
* `SummariesSequential`. The chunks of `schedule(static)` follow on one another (`Chunks`) and leave no
  iteration out (`ChunksCover`), for every number of threads, more than transactions included. `LoopInv`
  says which iterations have run (`Reached`): `tx_hashes` is written there and nowhere else, and
  `total_fees` with what the threads still hold is the sum of their fees (`FeesBalance`). `OneMore`: an
  iteration adds exactly its own index. `FeesFold` and `RootFold` say of the reference, two folds, what
  the loop computes.

**Hex.** `HexRoundTrip`, `StructRoundTrip` and `AddressRoundTrip`, from the digits of a byte.

Only model-checked: liveness, that of `ImplementsBlockLog` included (the prover has no fairness
argument), and `DigestCommits`, whose `Message` reads the bytes out of a digest by recursion over
the tree; `DigestsDecide` says by comparison what it says by reading.

## 6. Plan

Done: every program's own logic, the two compositions, restarts, and the proofs above: every
safety property of a run but `DigestCommits` is a theorem. What would come next, in this order:

1. Restarts in the pipeline: what the generator reports when the receiver loses its mempool.
2. A restart of the leader, for which a statement about its later blocks would have to be found.
3. `Restarts` with three shards and more rounds in TLC, by way of an abstraction of the streams; the
   theorems have any number.

## 7. Not modelled

* The arithmetic inside BLAKE3's compression function, SHA-256, RIPEMD-160, Ed25519 and OpenSSL:
  free constructors, or without a caller (RIPEMD-160).
* The eight messages of the generated code that nothing uses, and the memory management of the
  generated functions; protobuf-c and libzmq are modelled as far as the code relies on them.
* The mode `--in-process` of the generator, the parsing of options, sockets that fail to bind.
* A restart of the leader: its results socket then starts with summaries of any age, so no
  statement about its first block holds.
* `common.c`'s logging, benchmark counters and string helpers, which have no caller in the three
  programs; the scripts and the plots.

---------------------------- MODULE TransactionPath ----------------------------
(***************************************************************************)
(* A batch of transactions on its way from the wallet that signs it to the *)
(* summary of the shard that has it: built and packed by a thread of the   *)
(* generator (src/main.c), unpacked, verified and pooled by the receiver   *)
(* (src/src/receiver.c), hashed by the OpenMP threads of a shard worker    *)
(* (src/src/shard_worker.c).  Which shard, which block and which round is  *)
(* the business of ShardRounds and Submission.                             *)
(***************************************************************************)
EXTENDS Wallet, Selection

CONSTANTS
    HexAddress,       \* HexAddress[n]: the address a name of 40 digits spells
    MaxTxs,           \* bound: transactions of the batch
    par_threads       \* --threads of the shard worker

ASSUME HexAddressAssumption == DOMAIN HexAddress \subseteq Names
ASSUME PathBoundsAssumption == MaxTxs \in Nat /\ par_threads \in Nat \ {0}

VARIABLES
    stage,            \* where the batch is
    to_name,          \* argv[2] of the generator
    made,             \* raw_txs and the wallet's public key, for each
    wire,             \* the packed TransactionBatch
    g_verify,         \* --verify of the receiver
    buf,              \* tx_buf and pubkey_buf of the worker
    iter,             \* per OpenMP thread, the next iteration
    private_fees,     \* per OpenMP thread, its copy of total_fees
    joined,           \* the OpenMP threads at the barrier
    total_fees,
    tx_hashes,
    summary           \* the ShardSummary

batchVars == <<to_name, made, wire, g_verify>>
loopVars == <<iter, private_fees, joined, total_fees, tx_hashes>>
pathVars == <<walletVars, stage, batchVars, buf, loopVars, summary>>

OmpThreads == 0 .. par_threads - 1

WithPubkey(tx, pubkey) == [tx |-> tx, pubkey |-> pubkey]

-----------------------------------------------------------------------------
(***************************************************************************)
(* Seeded faults, substituted one at a time to show that a property fails. *)
(***************************************************************************)
FaultyPrivate(t) == 0

-----------------------------------------------------------------------------
(***************************************************************************)
(* The generator.                                                          *)
(***************************************************************************)
wallet_parse_address(name) ==
    IF name \in DOMAIN HexAddress THEN HexAddress[name]
                                  ELSE wallet_name_to_address(name)

expiry == 1000
Fee == 1

\* signs[i]: whether OpenSSL signs the i-th transaction.
MakeBatch(to, amount, signs) ==
    /\ stage = "wallet"
    /\ wallet # None /\ ~saving
    /\ to_name' = to
    /\ made' = [i \in 1..Len(signs) |->
                  WithPubkey(transaction_create(wallet, wallet_parse_address(to),
                                            amount, Fee, i - 1, expiry, signs[i]),
                             wallet.public_key)]
    /\ LET pb_arr == [i \in 1..Len(signs) |->
                         PbOfGenerator(made'[i].tx, made'[i].pubkey)]
       IN  wire' = blockchain__transaction_batch__pack(TransactionBatch(pb_arr))
    /\ stage' = "wire"
    /\ UNCHANGED <<walletVars, g_verify, buf, loopVars, summary>>

-----------------------------------------------------------------------------
(***************************************************************************)
(* The receiver, and what it hands on: a struct and a key for each.        *)
(***************************************************************************)
Receive(verifies) ==
    /\ stage = "wire"
    /\ g_verify' = verifies
    /\ LET batch == blockchain__transaction_batch__unpack(wire)
           entry(pt) == WithPubkey(pb_to_tx(pt), PubkeyOf(pt))
           entries == [i \in 1..Len(batch.transactions) |->
                         entry(batch.transactions[i])]
           accepted == {e \in ToSet(entries) : verifies => Verdict(e.tx, e.pubkey)}
       IN  buf' = Chosen(entries, accepted)
    /\ tx_hashes' = [i \in 1..Len(buf') |-> Zero]
    /\ stage' = "loop"
    /\ UNCHANGED <<walletVars, to_name, made, wire, iter, private_fees, joined,
                   total_fees, summary>>

-----------------------------------------------------------------------------
(***************************************************************************)
(* The worker's parallel loop under schedule(static), as libgomp divides   *)
(* it: the first threads have one iteration more.  What verification says  *)
(* is not used.  total_fees is a reduction: private, then added up.        *)
(***************************************************************************)
SmallerOf(a, b) == IF a < b THEN a ELSE b

ChunkStart(t, n) == t * (n \div par_threads) + SmallerOf(t, n % par_threads)
ChunkLength(t, n) == ChunkStart(t + 1, n) - ChunkStart(t, n)

Private(t) == t

RunIteration(t) ==
    /\ stage = "loop"
    /\ iter[t] < ChunkLength(t, Len(buf))
    /\ LET i == ChunkStart(t, Len(buf)) + iter[t] + 1
       IN  /\ private_fees' = [private_fees EXCEPT ![Private(t)] = @ + buf[i].tx.fee]
           /\ tx_hashes' = [tx_hashes EXCEPT
                              ![i] = transaction_compute_hash(buf[i].tx)]
    /\ iter' = [iter EXCEPT ![t] = @ + 1]
    /\ UNCHANGED <<walletVars, stage, batchVars, buf, joined, total_fees, summary>>

Join(t) ==
    /\ stage = "loop"
    /\ iter[t] = ChunkLength(t, Len(buf)) /\ t \notin joined
    /\ joined' = joined \cup {t}
    /\ total_fees' = total_fees + private_fees[Private(t)]
    /\ UNCHANGED <<walletVars, stage, batchVars, buf, iter, private_fees,
                   tx_hashes, summary>>

sha256(running_hash, tx_hash) == [is |-> "sha256", of |-> <<running_hash, tx_hash>>]

MerkleRoot(hashes) ==
    LET running_hash[i \in 0..Len(hashes)] ==
          IF i = 0 THEN Zero ELSE sha256(running_hash[i - 1], hashes[i])
    IN  running_hash[Len(hashes)]

\* Without transactions the summary is returned as memset left it.
Summarize ==
    /\ stage = "loop"
    /\ joined = OmpThreads
    /\ summary' = [tx_count |-> Len(buf), total_fees |-> total_fees,
                   merkle_root |-> MerkleRoot(tx_hashes)]
    /\ stage' = "done"
    /\ UNCHANGED <<walletVars, batchVars, buf, loopVars>>

-----------------------------------------------------------------------------
PathInit ==
    /\ WalletInit
    /\ stage = "wallet"
    /\ to_name = None
    /\ made = <<>>
    /\ wire = <<>>
    /\ g_verify = FALSE
    /\ buf = <<>>
    /\ iter = [t \in OmpThreads |-> 0]
    /\ private_fees = [t \in OmpThreads |-> 0]
    /\ joined = {}
    /\ total_fees = 0
    /\ tx_hashes = <<>>
    /\ summary = None

\* The wallet matters until the batch is made.
WalletStep ==
    /\ stage = "wallet"
    /\ WalletNext
    /\ UNCHANGED <<stage, batchVars, buf, loopVars, summary>>

Worker == (\E t \in OmpThreads : RunIteration(t) \/ Join(t)) \/ Summarize

PathNext ==
    \/ WalletStep
    \/ \E to \in Names, amount \in Values, signs \in BoundedSeq(BOOLEAN, MaxTxs) :
         MakeBatch(to, amount, signs)
    \/ \E verifies \in BOOLEAN : Receive(verifies)
    \/ Worker

PathSpec == PathInit /\ [][PathNext]_pathVars

-----------------------------------------------------------------------------
\* A transaction signed by whoever its source address belongs to.
Genuine(e) ==
    \E k \in Key : /\ e.pubkey = PublicKey(k)
                   /\ e.tx.source_address = wallet_derive_address(e.pubkey)
                   /\ e.tx.signature = Signature(k, transaction_compute_hash(e.tx))

\* What the generator makes is what the worker has, key, order and zeros
\* included: all of it without --verify, and what is genuinely signed with it.
ArrivesUnchanged ==
    stage \in {"loop", "done"} =>
        buf = Chosen(made, {e \in ToSet(made) : g_verify => Genuine(e)})

\* "Must match wallet_create_named" (wallet.c:233): the generator pays to the
\* address of the wallet that has the name, which a wallet of that name would
\* spend from.  A name of 40 hexadecimal digits is an address instead.
PaysNamedWallet ==
    \A i \in 1..Len(made) : to_name \notin DOMAIN HexAddress =>
        made[i].tx.dest_address = wallet_create_named(to_name).address

SequentialFees(b) == FoldLeft(LAMBDA fees, e : fees + e.tx.fee, 0, b)
SequentialRoot(b) ==
    FoldLeft(LAMBDA root, e : sha256(root, transaction_compute_hash(e.tx)), Zero, b)

\* However the threads interleave, and however many there are, the summary is
\* that of a sequential loop: no fee added twice or left out, and the merkle
\* root over the hashes in the order of the stream.
SummarySequential ==
    stage = "done" =>
        /\ summary.tx_count = Len(buf)
        /\ summary.total_fees = SequentialFees(buf)
        /\ summary.merkle_root = SequentialRoot(buf)
=============================================================================

----------------------------- MODULE Blake3Hasher -----------------------------
(***************************************************************************)
(* The streaming hasher of src/src/blake3.c: input comes in pieces of any  *)
(* size, is cut into chunks, and the chaining values of the chunks are     *)
(* merged on a stack.  The compression function is a free constructor: two *)
(* of its results are equal exactly when its arguments are.  Its argument  *)
(* block stands for the bytes of the block, which the code pads with zeros *)
(* up to BlockLen.                                                         *)
(***************************************************************************)
EXTENDS Integers, Sequences

CONSTANTS
    BlockLen,         \* BLAKE3_BLOCK_LEN: 64
    ChunkLen,         \* BLAKE3_CHUNK_LEN: 1024
    Keys,             \* keys blake3_hasher_init_keyed may get
    MaxLen,           \* bound on the bytes fed
    MaxPiece          \* bound on the bytes of one update

ASSUME LengthsAssumption ==
    /\ BlockLen \in Nat \ {0}
    /\ ChunkLen \in Nat \ {0}
    /\ MaxLen \in Nat /\ MaxPiece \in Nat

VARIABLES
    cv,               \* blake3_hasher, field by field
    chunk_buf,        \* its first buf_len bytes
    cv_stack,         \* its first cv_stack_len entries
    chunk_counter,
    flags,
    pc,               \* where blake3_hasher_update is
    input,            \* what it has not taken yet
    new_cv,           \* the value add_chunk_cv is adding
    fed               \* history: all bytes fed so far

hasher == <<cv, chunk_buf, cv_stack, chunk_counter, flags>>
vars == <<hasher, pc, input, new_cv, fed>>

\* The result of compress.
Compress(c, block, len, counter, fl) ==
    [flags |-> fl, counter |-> counter, len |-> len, cv |-> c, block |-> block]

IV == Compress(<<>>, <<>>, 0, 0, {"IV"})

-----------------------------------------------------------------------------
(***************************************************************************)
(* Seeded faults, substituted one at a time to show that a property fails. *)
(***************************************************************************)
FaultyParentCv(left, right) ==
    Compress(IV, <<right, left>>, BlockLen, 0, flags \cup {"PARENT"})
FaultyWant == ChunkLen
FaultyMergesLeft == FALSE
FaultyNextCounter == chunk_counter

-----------------------------------------------------------------------------
\* How many blocks chunk_state_update compresses: the last one, full or not,
\* stays in the buffer for chunk_state_output.
BlocksCompressed(len) == IF len = 0 THEN 0 ELSE (len - 1) \div BlockLen

\* The n-th block of a chunk.
BlockAt(bytes, n) ==
    SubSeq(bytes, n * BlockLen + 1,
           IF (n + 1) * BlockLen < Len(bytes) THEN (n + 1) * BlockLen ELSE Len(bytes))

StartFlag(n) == IF n = 0 THEN {"CHUNK_START"} ELSE {}

\* chunk_state_init, chunk_state_update and chunk_state_output of one chunk.
\* The chain starts from IV, also in a keyed hasher, whose cv nobody reads.
ChunkCv(bytes, counter) ==
    LET last == BlocksCompressed(Len(bytes))
        chain[n \in 0..last] ==
            IF n = 0 THEN IV
            ELSE Compress(chain[n - 1], BlockAt(bytes, n - 1), BlockLen, counter,
                          flags \cup StartFlag(n - 1))
    IN  Compress(chain[last], BlockAt(bytes, last), Len(bytes) - last * BlockLen,
                 counter, flags \cup StartFlag(last) \cup {"CHUNK_END"})

ParentCv(left, right) ==
    Compress(IV, <<left, right>>, BlockLen, 0, flags \cup {"PARENT"})

-----------------------------------------------------------------------------
\* blake3_hasher_init and blake3_hasher_init_keyed.
Init ==
    /\ \/ cv = IV /\ flags = {}
       \/ \E key \in Keys : /\ cv = Compress(<<>>, <<key>>, 0, 0, {"KEY"})
                            /\ flags = {"KEYED_HASH"}
    /\ chunk_buf = <<>>
    /\ cv_stack = <<>>
    /\ chunk_counter = 0
    /\ pc = "idle"
    /\ input = <<>>
    /\ new_cv = IV
    /\ fed = <<>>

\* A call of blake3_hasher_update.  The bytes are numbered: one that is lost,
\* repeated or out of place shows.
Update(size) ==
    /\ pc = "idle"
    /\ Len(fed) + size <= MaxLen
    /\ input' = [i \in 1..size |-> Len(fed) + i]
    /\ fed' = fed \o input'
    /\ pc' = "update"
    /\ UNCHANGED <<hasher, new_cv>>

Return ==
    /\ pc = "update"
    /\ input = <<>>
    /\ pc' = "idle"
    /\ UNCHANGED <<hasher, input, new_cv, fed>>

\* A full chunk is compressed only when there is more: the last chunk, full or
\* not, is finalize's.
CompressChunk ==
    /\ pc = "update"
    /\ input # <<>>
    /\ Len(chunk_buf) = ChunkLen
    /\ new_cv' = ChunkCv(chunk_buf, chunk_counter)
    /\ pc' = "merge"
    /\ UNCHANGED <<hasher, input, fed>>

\* The loop condition of add_chunk_cv: the low cv_stack_len bits of the counter.
MergesLeft == Len(cv_stack) > 0 /\ chunk_counter % (2 ^ Len(cv_stack)) # 0

\* pop_cv and parent_cv.
MergeLeft ==
    /\ pc = "merge"
    /\ MergesLeft
    /\ new_cv' = ParentCv(cv_stack[Len(cv_stack)], new_cv)
    /\ cv_stack' = SubSeq(cv_stack, 1, Len(cv_stack) - 1)
    /\ UNCHANGED <<cv, chunk_buf, chunk_counter, flags, pc, input, fed>>

NextCounter == chunk_counter + 1

\* push_cv, and back in update the buffer is empty.
PushCv ==
    /\ pc = "merge"
    /\ ~MergesLeft
    /\ cv_stack' = Append(cv_stack, new_cv)
    /\ chunk_counter' = NextCounter
    /\ chunk_buf' = <<>>
    /\ pc' = "update"
    /\ UNCHANGED <<cv, flags, input, new_cv, fed>>

Want == ChunkLen - Len(chunk_buf)

TakeInput ==
    /\ pc = "update"
    /\ input # <<>>
    /\ Len(chunk_buf) # ChunkLen
    /\ LET take == IF Len(input) < Want THEN Len(input) ELSE Want
       IN  /\ chunk_buf' = chunk_buf \o SubSeq(input, 1, take)
           /\ input' = SubSeq(input, take + 1, Len(input))
    /\ UNCHANGED <<cv, cv_stack, chunk_counter, flags, pc, new_cv, fed>>

\* blake3_hasher_finalize, which changes a copy of the hasher only: the last
\* chunk is merged with the whole stack, and the result compressed once more.
Digest ==
    LET depth == Len(cv_stack)
        merged[n \in 0..depth] ==
            IF n = 0 THEN ChunkCv(chunk_buf, chunk_counter)
            ELSE ParentCv(cv_stack[depth - n + 1], merged[n - 1])
    IN  Compress(IV, <<merged[depth]>>, 32, 0, flags \cup {"ROOT"})

Next ==
    \/ \E size \in 0..MaxPiece : Update(size)
    \/ Return
    \/ CompressChunk
    \/ MergeLeft
    \/ PushCv
    \/ TakeInput

Spec == Init /\ [][Next]_vars

-----------------------------------------------------------------------------
IsSequence(s) == s = [i \in 1..Len(s) |-> s[i]]

\* The type of every variable; the buffer and the stack stay in their arrays.
TypeOK ==
    /\ chunk_buf \in Seq(Nat) /\ Len(chunk_buf) <= ChunkLen
    /\ IsSequence(cv_stack)
    /\ Len(cv_stack) \in 0..54
    /\ chunk_counter \in Nat
    /\ pc \in {"idle", "update", "merge"}
    /\ input \in Seq(Nat)
    /\ fed \in Seq(Nat)

\* Whatever the length of the input, the stack needs two of the 54 entries it
\* has: add_chunk_cv merges the whole stack at every odd chunk.
StackBounded == Len(cv_stack) <= 2

-----------------------------------------------------------------------------
(***************************************************************************)
(* The digest as a function of the bytes alone.                            *)
(***************************************************************************)
\* The chunks before the last one.
Leaf(n) == ChunkCv(SubSeq(fed, n * ChunkLen + 1, (n + 1) * ChunkLen), n)

\* Chunks are merged in pairs, and each pair with all that is left of it.
PairsUpto(k) ==
    LET pair(j) == ParentCv(Leaf(2 * j), Leaf(2 * j + 1))
        comb[j \in 0..k] == IF j = 0 THEN pair(0) ELSE ParentCv(comb[j - 1], pair(j))
    IN  comb[k]

OneShot ==
    LET whole == IF Len(fed) = 0 THEN 0 ELSE (Len(fed) - 1) \div ChunkLen
        last == ChunkCv(SubSeq(fed, whole * ChunkLen + 1, Len(fed)), whole)
        lone == IF whole % 2 = 0 THEN last ELSE ParentCv(Leaf(whole - 1), last)
        tree == IF whole < 2 THEN lone ELSE ParentCv(PairsUpto(whole \div 2 - 1), lone)
    IN  Compress(IV, <<tree>>, 32, 0, flags \cup {"ROOT"})

\* The digest does not depend on how the input was cut into updates, empty ones
\* and ones that end on a chunk's boundary included.
SplitIndependent == pc = "idle" => Digest = OneShot

-----------------------------------------------------------------------------
\* What is where: in chunks compressed, in the buffer, or still in the input.
BytesAccounted ==
    /\ Len(fed) = chunk_counter * ChunkLen + Len(chunk_buf) + Len(input)
    /\ pc = "idle" => input = <<>>
    /\ pc = "merge" => Len(chunk_buf) = ChunkLen /\ input # <<>>

\* How many entries the stack has after n chunks.
EntriesAfter(n) == IF n < 2 THEN n ELSE IF n % 2 = 0 THEN 1 ELSE 2

\* While a chunk with an odd number is added the stack may be emptied.
StackShape ==
    /\ Len(cv_stack) <= EntriesAfter(chunk_counter)
    /\ \/ Len(cv_stack) = EntriesAfter(chunk_counter)
       \/ pc = "merge" /\ chunk_counter % 2 = 1

\* The inductive invariant behind StackBounded.
Inv == TypeOK /\ BytesAccounted /\ StackShape
=============================================================================

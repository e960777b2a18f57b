-------------------------- MODULE Blake3HasherProofs --------------------------
(***************************************************************************)
(* For input of any length cut in any way: the stack of the hasher never   *)
(* holds more than two chaining values, the digest is a function of the    *)
(* bytes fed, and no other bytes have it.                                  *)
(***************************************************************************)
EXTENDS Blake3Hasher, FoldLemmas, SequenceTheorems

\* What the loop of add_chunk_cv does on a stack of at most two entries: it
\* goes on for an odd counter while there is an entry, and never starts for an
\* even one unless two entries meet a counter that 4 does not divide.
LEMMA MergeCondition ==
  ASSUME chunk_counter \in Nat, Len(cv_stack) \in 0..2
  PROVE  /\ chunk_counter % 2 = 1 => (MergesLeft <=> Len(cv_stack) > 0)
         /\ chunk_counter % 2 = 0 /\ Len(cv_stack) < 2 => ~MergesLeft
<1>1. 2^1 = 2 /\ 2^2 = 4
  OBVIOUS
<1>2. chunk_counter % 2 = 1 => chunk_counter % 4 # 0
  OBVIOUS
<1>3. CASE Len(cv_stack) = 0
  BY <1>3 DEF MergesLeft
<1>4. CASE Len(cv_stack) = 1
  BY <1>1, <1>4 DEF MergesLeft
<1>5. CASE Len(cv_stack) = 2
  BY <1>1, <1>2, <1>5 DEF MergesLeft
<1> QED
  BY <1>3, <1>4, <1>5

\* The stack loses or gains an entry.
LEMMA PopPush ==
  ASSUME TypeOK, NEW x
  PROVE  /\ Len(cv_stack) > 0 =>
              LET t == SubSeq(cv_stack, 1, Len(cv_stack) - 1)
              IN  /\ Len(t) = Len(cv_stack) - 1
                  /\ IsSequence(t)
         /\ LET t == Append(cv_stack, x)
            IN  /\ Len(t) = Len(cv_stack) + 1
                /\ IsSequence(t)
<1> DEFINE S == {cv_stack[i] : i \in 1..Len(cv_stack)} \cup {x}
<1>1. /\ Len(cv_stack) \in Nat
      /\ cv_stack = [i \in 1..Len(cv_stack) |-> cv_stack[i]]
  BY DEF TypeOK, IsSequence
<1>2. cv_stack \in [1..Len(cv_stack) -> S]
  BY <1>1
<1>3. cv_stack \in Seq(S) /\ x \in S
  BY <1>1, <1>2
<1> HIDE DEF S
<1>4. ASSUME Len(cv_stack) > 0
      PROVE  LET t == SubSeq(cv_stack, 1, Len(cv_stack) - 1)
             IN  /\ Len(t) = Len(cv_stack) - 1
                 /\ IsSequence(t)
  BY <1>1, <1>3, <1>4 DEF IsSequence
<1>5. LET t == Append(cv_stack, x)
      IN  /\ Len(t) = Len(cv_stack) + 1
          /\ IsSequence(t)
  <2> DEFINE t == Append(cv_stack, x)
  <2>1. t \in Seq(S) /\ Len(t) = Len(cv_stack) + 1
    BY <1>1, <1>3
  <2>2. t = [i \in 1..Len(t) |-> t[i]]
    <3> HIDE DEF t
    <3> QED
      BY <2>1
  <2> QED
    BY <2>1, <2>2 DEF IsSequence
<1> QED
  BY <1>4, <1>5

LEMMA Entries ==
  ASSUME NEW k \in Nat
  PROVE  /\ EntriesAfter(k) \in 0..2
         /\ k % 2 = 0 => EntriesAfter(k) < 2 /\ EntriesAfter(k + 1) = EntriesAfter(k) + 1
         /\ k % 2 = 1 => EntriesAfter(k + 1) = 1
         /\ k % 2 \in {0, 1}
<1>1. CASE k % 2 = 0
  <2>1. (k + 1) % 2 = 1
    BY <1>1
  <2>2. k # 1
    BY <1>1
  <2> QED
    BY <1>1, <2>1, <2>2 DEF EntriesAfter
<1>2. CASE k % 2 = 1
  <2>1. (k + 1) % 2 = 0 /\ k + 1 >= 2
    BY <1>2
  <2> QED
    BY <1>2, <2>1 DEF EntriesAfter
<1>3. k % 2 \in {0, 1}
  OBVIOUS
<1> QED
  BY <1>1, <1>2, <1>3

\* What the invariant says of the stack in any state.
LEMMA Shape ==
  ASSUME Inv
  PROVE  /\ chunk_counter \in Nat
         /\ Len(cv_stack) \in 0..2
         /\ EntriesAfter(chunk_counter) \in 0..2
         /\ Len(cv_stack) <= EntriesAfter(chunk_counter)
         /\ \/ Len(cv_stack) = EntriesAfter(chunk_counter)
            \/ pc = "merge" /\ chunk_counter % 2 = 1
<1>1. chunk_counter \in Nat
  BY DEF Inv, TypeOK
<1>2. Len(cv_stack) \in Nat
  <2>1. Len(cv_stack) \in 0..54
    BY DEF Inv, TypeOK
  <2> QED
    BY <2>1
<1>3. EntriesAfter(chunk_counter) \in 0..2
  BY <1>1, Entries
<1>4. /\ Len(cv_stack) <= EntriesAfter(chunk_counter)
      /\ \/ Len(cv_stack) = EntriesAfter(chunk_counter)
         \/ pc = "merge" /\ chunk_counter % 2 = 1
  BY DEF Inv, StackShape
<1>5. Len(cv_stack) \in 0..2
  <2> DEFINE n == Len(cv_stack)
             m == EntriesAfter(chunk_counter)
  <2>1. n \in Nat /\ m \in 0..2 /\ n <= m
    BY <1>2, <1>3, <1>4
  <2> HIDE DEF n, m
  <2>2. n \in 0..2
    BY <2>1
  <2> QED
    BY <2>2 DEF n
<1> QED
  BY <1>1, <1>3, <1>4, <1>5

-----------------------------------------------------------------------------
LEMMA InvInit == ASSUME Init PROVE Inv
<1>1. /\ chunk_buf = <<>> /\ cv_stack = <<>> /\ input = <<>> /\ fed = <<>>
      /\ chunk_counter = 0 /\ pc = "idle"
  BY DEF Init
<1>2. TypeOK
  BY <1>1, LengthsAssumption DEF TypeOK, IsSequence
<1>3. BytesAccounted
  BY <1>1, LengthsAssumption DEF BytesAccounted
<1>4. StackShape
  BY <1>1 DEF StackShape, EntriesAfter
<1> QED
  BY <1>2, <1>3, <1>4 DEF Inv

LEMMA UpdateStep == ASSUME Inv, NEW size \in Nat, Update(size) PROVE Inv'
<1>1. /\ pc = "idle" /\ pc' = "update" /\ input = <<>>
      /\ input' = [i \in 1..size |-> Len(fed) + i]
      /\ fed' = fed \o input'
      /\ UNCHANGED <<cv, chunk_buf, cv_stack, chunk_counter, flags>>
  BY DEF Update, hasher, Inv, BytesAccounted
<1>2. /\ fed \in Seq(Nat) /\ Len(fed) \in Nat
      /\ chunk_buf \in Seq(Nat) /\ Len(chunk_buf) \in Nat
      /\ chunk_counter \in Nat /\ ChunkLen \in Nat
  BY LengthsAssumption DEF Inv, TypeOK
<1>3. input' \in Seq(Nat) /\ Len(input') = size
  BY <1>1, <1>2
<1>4. fed' \in Seq(Nat) /\ Len(fed') = Len(fed) + size
  BY <1>1, <1>2, <1>3
<1>5. TypeOK'
  BY <1>1, <1>3, <1>4 DEF Inv, TypeOK
<1>6. BytesAccounted'
  <2>1. Len(fed) = chunk_counter * ChunkLen + Len(chunk_buf)
    BY <1>1, <1>2 DEF Inv, BytesAccounted
  <2> QED
    BY <1>1, <1>2, <1>3, <1>4, <2>1 DEF BytesAccounted
<1>7. StackShape'
  BY <1>1 DEF Inv, StackShape
<1> QED
  BY <1>5, <1>6, <1>7 DEF Inv

LEMMA ReturnStep == ASSUME Inv, Return PROVE Inv'
<1>1. /\ pc = "update" /\ pc' = "idle" /\ input = <<>>
      /\ UNCHANGED <<cv, chunk_buf, cv_stack, chunk_counter, flags, input, fed>>
  BY DEF Return, hasher
<1> QED
  BY <1>1 DEF Inv, TypeOK, BytesAccounted, StackShape

LEMMA CompressStep == ASSUME Inv, CompressChunk PROVE Inv'
<1>1. /\ pc = "update" /\ pc' = "merge" /\ input # <<>> /\ Len(chunk_buf) = ChunkLen
      /\ UNCHANGED <<cv, chunk_buf, cv_stack, chunk_counter, flags, input, fed>>
  BY DEF CompressChunk, hasher
<1>2. TypeOK' /\ BytesAccounted'
  BY <1>1 DEF Inv, TypeOK, BytesAccounted
<1>3. StackShape'
  <2>1. Len(cv_stack) \in Nat
    BY DEF Inv, TypeOK
  <2> QED
    BY <1>1, <2>1 DEF Inv, StackShape
<1> QED
  BY <1>2, <1>3 DEF Inv

\* A merge happens for an odd counter only.
LEMMA MergesOdd ==
  ASSUME Inv, MergesLeft PROVE chunk_counter % 2 = 1
<1>1. MergesLeft
  OBVIOUS
<1>2. chunk_counter \in Nat /\ Len(cv_stack) \in 0..2
  BY Shape
<1>3. chunk_counter % 2 = 1
  <2>1. CASE chunk_counter % 2 = 0
    <3>1. Len(cv_stack) < 2
      <4>1. EntriesAfter(chunk_counter) < 2
        BY <1>2, <2>1, Entries
      <4>2. Len(cv_stack) = EntriesAfter(chunk_counter)
        BY <2>1, Shape
      <4> QED
        BY <4>1, <4>2
    <3> QED
      BY <1>1, <1>2, <2>1, <3>1, MergeCondition
  <2>2. chunk_counter % 2 \in {0, 1}
    BY <1>2, Entries
  <2> QED
    BY <2>1, <2>2
<1> QED
  BY <1>3

\* A merge shortens the stack.
LEMMA MergeStep == ASSUME Inv, MergeLeft PROVE Inv'
<1>1. /\ pc = "merge" /\ pc' = pc /\ MergesLeft
      /\ cv_stack' = SubSeq(cv_stack, 1, Len(cv_stack) - 1)
      /\ UNCHANGED <<cv, chunk_buf, chunk_counter, flags, input, fed>>
  BY DEF MergeLeft
<1>2. chunk_counter \in Nat /\ Len(cv_stack) \in 0..2 /\ Len(cv_stack) > 0
  <2>1. Len(cv_stack) > 0
    BY <1>1 DEF MergesLeft
  <2> QED
    BY <2>1, Shape
<1>4. chunk_counter % 2 = 1
  BY <1>1, MergesOdd
<1>5. /\ Len(cv_stack') = Len(cv_stack) - 1
      /\ IsSequence(cv_stack')
  BY <1>1, <1>2, PopPush DEF Inv
<1>6. TypeOK'
  <2>1. Len(cv_stack') \in 0..54
    BY <1>2, <1>5
  <2> QED
    BY <1>1, <1>5, <2>1 DEF Inv, TypeOK
<1>7. BytesAccounted'
  BY <1>1 DEF Inv, BytesAccounted
<1>8. StackShape'
  <2>1. Len(cv_stack) <= EntriesAfter(chunk_counter)
    BY DEF Inv, StackShape
  <2>2. Len(cv_stack') <= EntriesAfter(chunk_counter)
    <3>1. EntriesAfter(chunk_counter) \in 0..2
      BY Shape
    <3> QED
      BY <1>2, <1>5, <2>1, <3>1
  <2> QED
    BY <1>1, <1>4, <2>2 DEF StackShape
<1> QED
  BY <1>6, <1>7, <1>8 DEF Inv

\* An odd chunk is pushed on an empty stack.
LEMMA OddPushesOnEmpty ==
  ASSUME Inv, ~MergesLeft, chunk_counter % 2 = 1 PROVE Len(cv_stack) = 0
<1>1. chunk_counter \in Nat /\ Len(cv_stack) \in 0..2
  BY Shape
<1> QED
  BY <1>1, MergeCondition

\* The value is pushed on an empty stack, or on one entry for an even counter.
LEMMA PushStep == ASSUME Inv, PushCv PROVE Inv'
<1>1. /\ pc = "merge" /\ pc' = "update" /\ ~MergesLeft
      /\ cv_stack' = Append(cv_stack, new_cv)
      /\ chunk_counter' = chunk_counter + 1 /\ chunk_buf' = <<>>
      /\ UNCHANGED <<cv, flags, input, fed>>
  BY DEF PushCv, NextCounter
<1>2. chunk_counter \in Nat /\ ChunkLen \in Nat /\ input \in Seq(Nat)
  BY LengthsAssumption DEF Inv, TypeOK
<1>3. Len(cv_stack) \in 0..2
  BY Shape
<1>4. /\ Len(cv_stack') = Len(cv_stack) + 1
      /\ IsSequence(cv_stack')
  BY <1>1, PopPush DEF Inv
<1>5. chunk_counter % 2 = 1 => Len(cv_stack) = 0
  BY <1>1, OddPushesOnEmpty
<1>6. chunk_counter % 2 = 0 => Len(cv_stack) = EntriesAfter(chunk_counter)
  BY DEF Inv, StackShape
<1>7. TypeOK'
  <2>1. Len(cv_stack') \in 0..54
    <3> DEFINE n == Len(cv_stack)
    <3>1. n \in 0..2 /\ Len(cv_stack') = n + 1
      BY <1>3, <1>4
    <3> HIDE DEF n
    <3> QED
      BY <3>1
  <2>2. chunk_counter' \in Nat
    BY <1>1, <1>2
  <2>3. chunk_buf' \in Seq(Nat) /\ Len(chunk_buf') <= ChunkLen
    BY <1>1, <1>2
  <2> QED
    BY <1>1, <1>4, <2>1, <2>2, <2>3 DEF Inv, TypeOK
<1>8. BytesAccounted'
  <2>1. Len(fed) = chunk_counter * ChunkLen + ChunkLen + Len(input)
    BY <1>1 DEF Inv, BytesAccounted
  <2>2. (chunk_counter + 1) * ChunkLen = chunk_counter * ChunkLen + ChunkLen
    BY <1>2
  <2> QED
    BY <1>1, <1>2, <2>1, <2>2 DEF BytesAccounted
<1>9. StackShape'
  <2>1. CASE chunk_counter % 2 = 1
    <3>1. EntriesAfter(chunk_counter + 1) = 1
      BY <1>2, <2>1, Entries
    <3>2. Len(cv_stack') = 1
      BY <1>4, <1>5, <2>1
    <3> QED
      BY <1>1, <3>1, <3>2 DEF StackShape
  <2>2. CASE chunk_counter % 2 = 0
    <3>1. EntriesAfter(chunk_counter + 1) = EntriesAfter(chunk_counter) + 1
      BY <1>2, <2>2, Entries
    <3>2. Len(cv_stack') = EntriesAfter(chunk_counter + 1)
      BY <1>4, <1>6, <2>2, <3>1
    <3>3. EntriesAfter(chunk_counter + 1) \in 0..2
      BY <1>2, Entries
    <3> QED
      BY <1>1, <3>2, <3>3 DEF StackShape
  <2>3. chunk_counter % 2 \in {0, 1}
    BY <1>2, Entries
  <2> QED
    BY <2>1, <2>2, <2>3
<1> QED
  BY <1>7, <1>8, <1>9 DEF Inv

LEMMA TakeStep == ASSUME Inv, TakeInput PROVE Inv'
<1> DEFINE take == IF Len(input) < Want THEN Len(input) ELSE Want
<1>1. /\ pc = "update" /\ pc' = pc /\ Len(chunk_buf) # ChunkLen
      /\ chunk_buf' = chunk_buf \o SubSeq(input, 1, take)
      /\ input' = SubSeq(input, take + 1, Len(input))
      /\ UNCHANGED <<cv, cv_stack, chunk_counter, flags, fed>>
  BY DEF TakeInput
<1>2. /\ chunk_buf \in Seq(Nat) /\ input \in Seq(Nat) /\ fed \in Seq(Nat)
      /\ Len(chunk_buf) \in Nat /\ Len(input) \in Nat /\ ChunkLen \in Nat
      /\ Len(chunk_buf) <= ChunkLen /\ chunk_counter \in Nat
  BY LengthsAssumption DEF Inv, TypeOK
<1>3. take \in Nat /\ take <= Len(input) /\ take <= ChunkLen - Len(chunk_buf)
  BY <1>2 DEF Want
<1> HIDE DEF take
<1>4. /\ SubSeq(input, 1, take) \in Seq(Nat) /\ Len(SubSeq(input, 1, take)) = take
      /\ input' \in Seq(Nat) /\ Len(input') = Len(input) - take
  <2>1. SubSeq(input, 1, take) \in Seq(Nat) /\ Len(SubSeq(input, 1, take)) = take
    BY <1>2, <1>3
  <2>2. input' \in Seq(Nat)
    BY <1>1, <1>2, <1>3, SMTT(30)
  <2>3. Len(input') = Len(input) - take
    BY <1>1, <1>2, <1>3
  <2> QED
    BY <2>1, <2>2, <2>3
<1>5. chunk_buf' \in Seq(Nat) /\ Len(chunk_buf') = Len(chunk_buf) + take
  BY <1>1, <1>2, <1>4
<1>6. TypeOK'
  <2>1. Len(chunk_buf') <= ChunkLen
    BY <1>2, <1>3, <1>5
  <2> QED
    BY <1>1, <1>4, <1>5, <2>1 DEF Inv, TypeOK
<1>7. BytesAccounted'
  <2>1. Len(fed) = chunk_counter * ChunkLen + Len(chunk_buf) + Len(input)
    BY DEF Inv, BytesAccounted
  <2>2. chunk_counter * ChunkLen \in Nat
    BY <1>2
  <2>3. Len(fed) = chunk_counter * ChunkLen + Len(chunk_buf') + Len(input')
    BY <1>2, <1>3, <1>4, <1>5, <2>1, <2>2
  <2> QED
    BY <1>1, <2>3 DEF BytesAccounted
<1>8. StackShape'
  BY <1>1 DEF Inv, StackShape
<1> QED
  BY <1>6, <1>7, <1>8 DEF Inv

LEMMA InvStep == ASSUME Inv, [Next]_vars PROVE Inv'
<1>1. ASSUME NEW size \in 0..MaxPiece, Update(size) PROVE Inv'
  BY <1>1, UpdateStep, LengthsAssumption
<1>2. CASE Return
  BY <1>2, ReturnStep
<1>3. CASE CompressChunk
  BY <1>3, CompressStep
<1>4. CASE MergeLeft
  BY <1>4, MergeStep
<1>5. CASE PushCv
  BY <1>5, PushStep
<1>6. CASE TakeInput
  BY <1>6, TakeStep
<1>7. CASE UNCHANGED vars
  BY <1>7 DEF vars, hasher, Inv, TypeOK, BytesAccounted, StackShape
<1> QED
  BY <1>1, <1>2, <1>3, <1>4, <1>5, <1>6, <1>7 DEF Next

-----------------------------------------------------------------------------
\* Every byte fed is in a compressed chunk, in the buffer, or still in the
\* input, and the stack has the shape add_chunk_cv gives it (src/src/blake3.c).
THEOREM Invariance == Spec => []Inv
<1> QED
  BY InvInit, InvStep, PTL DEF Spec

\* push_cv never leaves cv_stack: two of its 54 entries are enough for input of
\* any length.
THEOREM StackIsBounded == Spec => []StackBounded
<1>1. ASSUME Inv PROVE StackBounded
  <2> DEFINE n == Len(cv_stack)
  <2>1. n \in 0..2
    BY <1>1, Shape
  <2> HIDE DEF n
  <2>2. n <= 2
    BY <2>1
  <2> QED
    BY <2>2 DEF n, StackBounded
<1> QED
  BY <1>1, Invariance, PTL

-----------------------------------------------------------------------------
(***************************************************************************)
(* The digest.  The operators of the hasher with its flags and the bytes   *)
(* as parameters: what they say of a state is then a formula about values, *)
(* and nothing has to be said of a recursive function in the next state.   *)
(***************************************************************************)
\* ChunkCv.
ChunkIn(fl, bytes, counter) ==
    LET last == BlocksCompressed(Len(bytes))
        chain[n \in 0..last] ==
            IF n = 0 THEN IV
            ELSE Compress(chain[n - 1], BlockAt(bytes, n - 1), BlockLen, counter,
                          fl \cup StartFlag(n - 1))
    IN  Compress(chain[last], BlockAt(bytes, last), Len(bytes) - last * BlockLen,
                 counter, fl \cup StartFlag(last) \cup {"CHUNK_END"})

\* ParentCv.
ParentIn(fl, left, right) ==
    Compress(IV, <<left, right>>, BlockLen, 0, fl \cup {"PARENT"})

\* Leaf, the pairs of PairsUpto, and PairsUpto.
LeafIn(fl, all, n) ==
    ChunkIn(fl, SubSeq(all, n * ChunkLen + 1, (n + 1) * ChunkLen), n)

PairIn(fl, all, j) == ParentIn(fl, LeafIn(fl, all, 2 * j), LeafIn(fl, all, 2 * j + 1))

PairsIn(fl, all, k) ==
    LET comb[j \in 0..k] == IF j = 0 THEN PairIn(fl, all, 0)
                            ELSE ParentIn(fl, comb[j - 1], PairIn(fl, all, j))
    IN  comb[k]

\* What is on the stack after c chunks: the pairs merged so far, and an odd
\* chunk that waits for the other of its pair.
StackIn(fl, all, c) ==
    CASE c = 0 -> <<>>
      [] c = 1 -> <<LeafIn(fl, all, 0)>>
      [] c > 1 /\ c % 2 = 0 -> <<PairsIn(fl, all, c \div 2 - 1)>>
      [] c > 1 /\ c % 2 = 1 -> <<PairsIn(fl, all, c \div 2 - 1), LeafIn(fl, all, c - 1)>>

\* OneShot and its parts.
RootIn(fl, tree) == Compress(IV, <<tree>>, 32, 0, fl \cup {"ROOT"})

WholeIn(all) == IF Len(all) = 0 THEN 0 ELSE (Len(all) - 1) \div ChunkLen

RestIn(all, w) == SubSeq(all, w * ChunkLen + 1, Len(all))

LastIn(fl, all, w) == ChunkIn(fl, RestIn(all, w), w)

LoneIn(fl, all, w) ==
    IF w % 2 = 0 THEN LastIn(fl, all, w)
    ELSE ParentIn(fl, LeafIn(fl, all, w - 1), LastIn(fl, all, w))

TreeIn(fl, all, w) ==
    IF w < 2 THEN LoneIn(fl, all, w)
    ELSE ParentIn(fl, PairsIn(fl, all, w \div 2 - 1), LoneIn(fl, all, w))

OneShotIn(fl, all) == RootIn(fl, TreeIn(fl, all, WholeIn(all)))

-----------------------------------------------------------------------------
(***************************************************************************)
(* The inductive invariant behind SplitIndependent.                        *)
(***************************************************************************)
\* The buffer and the rest of the input are the stretches of the bytes fed that
\* follow the compressed chunks, and a full buffer waits for more to come.
BytesInOrder ==
    /\ \A i \in 1..Len(chunk_buf) : chunk_buf[i] = fed[chunk_counter * ChunkLen + i]
    /\ \A i \in 1..Len(input) : input[i] = fed[Len(fed) - Len(input) + i]
    /\ chunk_counter > 0 => chunk_buf # <<>> \/ input # <<>>

\* While chunk c is added: it has not been merged, or with the chunk before it,
\* or this pair with all that is left of it.
Merging(fl, all, c, stack, new) ==
    \/ stack = StackIn(fl, all, c) /\ new = LeafIn(fl, all, c)
    \/ /\ c > 1 /\ c % 2 = 1
       /\ stack = <<PairsIn(fl, all, c \div 2 - 1)>>
       /\ new = PairIn(fl, all, c \div 2)
    \/ /\ c % 2 = 1
       /\ stack = <<>>
       /\ new = PairsIn(fl, all, c \div 2)

\* The stack and the value being added are those of the bytes fed.
StackHoldsPairs ==
    /\ pc # "merge" => cv_stack = StackIn(flags, fed, chunk_counter)
    /\ pc = "merge" => Merging(flags, fed, chunk_counter, cv_stack, new_cv)

DigestInv == Inv /\ BytesInOrder /\ StackHoldsPairs

-----------------------------------------------------------------------------
\* The model's operators are these, for its flags and the bytes fed.
LEMMA CodeIsIn ==
  /\ \A bytes, counter : ChunkCv(bytes, counter) = ChunkIn(flags, bytes, counter)
  /\ \A l, r : ParentCv(l, r) = ParentIn(flags, l, r)
  /\ \A n : Leaf(n) = LeafIn(flags, fed, n)
  /\ \A k : PairsUpto(k) = PairsIn(flags, fed, k)
<1>1. \A bytes, counter : ChunkCv(bytes, counter) = ChunkIn(flags, bytes, counter)
  BY DEF ChunkCv, ChunkIn
<1>2. \A l, r : ParentCv(l, r) = ParentIn(flags, l, r)
  BY DEF ParentCv, ParentIn
<1>3. \A n : Leaf(n) = LeafIn(flags, fed, n)
  BY <1>1 DEF Leaf, LeafIn
<1>4. \A k : PairsUpto(k) = PairsIn(flags, fed, k)
  BY <1>2, <1>3 DEF PairsUpto, PairsIn, PairIn
<1> QED
  BY <1>1, <1>2, <1>3, <1>4

CombLoop(fl, all, k, comb) ==
    comb = [j \in 0..k |-> IF j = 0 THEN PairIn(fl, all, 0)
                           ELSE ParentIn(fl, comb[j - 1], PairIn(fl, all, j))]

\* The loop of PairsUpto has a result, which does not depend on where it stops.
LEMMA CombExists ==
  ASSUME NEW fl, NEW all, NEW k \in Nat
  PROVE  \E f : CombLoop(fl, all, k, f)
<1> DEFINE S == {n \in Nat : \E f : CombLoop(fl, all, n, f)}
<1>1. 0 \in S
  <2>1. CombLoop(fl, all, 0, [j \in 0..0 |-> PairIn(fl, all, 0)])
    BY DEF CombLoop
  <2> QED
    BY <2>1
<1>2. ASSUME NEW n \in Nat, n \in S PROVE n + 1 \in S
  <2>1. PICK f : CombLoop(fl, all, n, f)
    BY <1>2
  <2> DEFINE p(j) == PairIn(fl, all, j)
             g == [j \in 0 .. n + 1 |-> IF j \in 0..n THEN f[j] ELSE ParentIn(fl, f[n], p(n + 1))]
             h == [j \in 0 .. n + 1 |-> IF j = 0 THEN p(0) ELSE ParentIn(fl, g[j - 1], p(j))]
  <2>2. ASSUME NEW j \in 0 .. n + 1 PROVE g[j] = h[j]
    <3>1. \A i \in 0..n : g[i] = f[i]
      OBVIOUS
    <3>2. h[j] = IF j = 0 THEN p(0) ELSE ParentIn(fl, g[j - 1], p(j))
      OBVIOUS
    <3>3. g[n + 1] = ParentIn(fl, f[n], p(n + 1))
      OBVIOUS
    <3>4. \A i \in 0..n : f[i] = IF i = 0 THEN p(0) ELSE ParentIn(fl, f[i - 1], p(i))
      BY <2>1 DEF CombLoop
    <3> HIDE DEF g, h, p
    <3>5. CASE j \in 0..n
      <4>1. CASE j = 0
        BY <3>1, <3>2, <3>4, <3>5, <4>1
      <4>2. CASE j # 0
        <5>1. j - 1 \in 0..n
          BY <3>5, <4>2
        <5>2. g[j - 1] = f[j - 1] /\ g[j] = f[j]
          BY <3>1, <3>5, <5>1
        <5> QED
          BY <3>2, <3>4, <3>5, <4>2, <5>2
      <4> QED
        BY <4>1, <4>2
    <3>6. CASE j = n + 1
      <4>1. j # 0 /\ j - 1 = n /\ n \in 0..n
        BY <3>6
      <4> QED
        BY <3>1, <3>2, <3>3, <3>6, <4>1
    <3> QED
      BY <3>5, <3>6
  <2>3. g = h
    <3>1. DOMAIN g = DOMAIN h /\ DOMAIN g = 0 .. n + 1
      OBVIOUS
    <3>2. g = [j \in 0 .. n + 1 |-> g[j]] /\ h = [j \in 0 .. n + 1 |-> h[j]]
      OBVIOUS
    <3> HIDE DEF g, h
    <3> QED
      BY <2>2, <3>2
  <2>4. CombLoop(fl, all, n + 1, g)
    <3> HIDE DEF g
    <3> QED
      BY <2>3 DEF CombLoop
  <2> QED
    BY <2>4
<1> HIDE DEF S
<1>3. Nat \subseteq S
  BY <1>1, <1>2, Induction
<1> QED
  BY <1>3 DEF S

LEMMA CombAgrees ==
  ASSUME NEW fl, NEW all, NEW k \in Nat, NEW f, NEW g,
         CombLoop(fl, all, k, f), CombLoop(fl, all, k + 1, g)
  PROVE  g[k] = f[k]
<1> DEFINE S == {n \in Nat : n <= k => g[n] = f[n]}
<1>1. /\ \A i \in 0..k : f[i] = IF i = 0 THEN PairIn(fl, all, 0)
                                ELSE ParentIn(fl, f[i - 1], PairIn(fl, all, i))
      /\ \A i \in 0 .. k + 1 : g[i] = IF i = 0 THEN PairIn(fl, all, 0)
                                ELSE ParentIn(fl, g[i - 1], PairIn(fl, all, i))
  BY DEF CombLoop
<1>2. 0 \in S
  BY <1>1
<1>3. ASSUME NEW n \in Nat, n \in S PROVE n + 1 \in S
  <2> SUFFICES ASSUME n + 1 <= k PROVE g[n + 1] = f[n + 1]
    OBVIOUS
  <2>1. n + 1 \in 0..k /\ n + 1 \in 0 .. k + 1 /\ n + 1 # 0 /\ (n + 1) - 1 = n /\ n <= k
    OBVIOUS
  <2>2. g[n] = f[n]
    BY <1>3, <2>1
  <2> QED
    BY <1>1, <2>1, <2>2
<1> HIDE DEF S
<1>4. Nat \subseteq S
  BY <1>2, <1>3, Induction
<1> QED
  BY <1>4 DEF S

\* Each pair is merged with all that is left of it.
LEMMA PairsAt ==
  ASSUME NEW fl, NEW all
  PROVE  /\ PairsIn(fl, all, 0) = PairIn(fl, all, 0)
         /\ \A k \in Nat : PairsIn(fl, all, k + 1)
                             = ParentIn(fl, PairsIn(fl, all, k), PairIn(fl, all, k + 1))
<1> DEFINE c(k) == CHOOSE comb : CombLoop(fl, all, k, comb)
<1>1. \A k \in Nat : CombLoop(fl, all, k, c(k)) /\ PairsIn(fl, all, k) = c(k)[k]
  BY CombExists DEF PairsIn, CombLoop
<1> HIDE DEF c
<1>2. PairsIn(fl, all, 0) = PairIn(fl, all, 0)
  BY <1>1 DEF CombLoop
<1>3. ASSUME NEW k \in Nat
      PROVE  PairsIn(fl, all, k + 1)
               = ParentIn(fl, PairsIn(fl, all, k), PairIn(fl, all, k + 1))
  <2>1. c(k + 1)[k + 1] = ParentIn(fl, c(k + 1)[k], PairIn(fl, all, k + 1))
    <3>1. CombLoop(fl, all, k + 1, c(k + 1))
      BY <1>1
    <3>2. k + 1 \in 0 .. k + 1 /\ k + 1 # 0 /\ (k + 1) - 1 = k
      OBVIOUS
    <3> DEFINE m == k + 1
               f == c(m)
    <3>3. f = [j \in 0..m |-> IF j = 0 THEN PairIn(fl, all, 0)
                           ELSE ParentIn(fl, f[j - 1], PairIn(fl, all, j))]
      BY <3>1 DEF CombLoop
    <3>4. m \in 0..m /\ m # 0 /\ m - 1 = k
      BY <3>2
    <3> HIDE DEF m, f
    <3>5. f[m] = ParentIn(fl, f[m - 1], PairIn(fl, all, m))
      BY <3>3, <3>4
    <3> QED
      BY <3>4, <3>5 DEF f, m
  <2>2. c(k + 1)[k] = c(k)[k]
    BY <1>1, CombAgrees
  <2> QED
    BY <1>1, <2>1, <2>2
<1> QED
  BY <1>2, <1>3

\* The result depends on the pairs alone.
LEMMA PairsSame ==
  ASSUME NEW fl, NEW a, NEW b, NEW k \in Nat,
         \A j \in 0..k : PairIn(fl, a, j) = PairIn(fl, b, j)
  PROVE  PairsIn(fl, a, k) = PairsIn(fl, b, k)
<1> DEFINE S == {n \in Nat : n <= k => PairsIn(fl, a, n) = PairsIn(fl, b, n)}
<1>1. 0 \in S
  BY PairsAt
<1>2. ASSUME NEW n \in Nat, n \in S PROVE n + 1 \in S
  <2> SUFFICES ASSUME n + 1 <= k PROVE PairsIn(fl, a, n + 1) = PairsIn(fl, b, n + 1)
    OBVIOUS
  <2>1. n <= k /\ n + 1 \in 0..k
    OBVIOUS
  <2> QED
    BY <1>2, <2>1, PairsAt
<1> HIDE DEF S
<1>3. Nat \subseteq S
  BY <1>1, <1>2, Induction
<1> QED
  BY <1>3 DEF S

LEMMA StretchFacts ==
  ASSUME NEW s \in Seq(Nat), NEW m \in Nat, NEW e \in Nat, m <= e, e <= Len(s)
  PROVE  /\ SubSeq(s, m + 1, e) \in Seq(Nat)
         /\ Len(SubSeq(s, m + 1, e)) = e - m
         /\ \A i \in 1 .. e - m : SubSeq(s, m + 1, e)[i] = s[m + i]
<1> DEFINE u == SubSeq(s, m + 1, e)
<1>1. \A i \in m + 1 .. e : s[i] \in Nat
  OBVIOUS
<1>2. /\ u \in Seq(Nat)
      /\ Len(u) = IF m + 1 <= e THEN e - (m + 1) + 1 ELSE 0
      /\ \A i \in 1 .. e - (m + 1) + 1 : u[i] = s[(m + 1) + i - 1]
  BY <1>1, SubSeqProperties
<1> HIDE DEF u
<1>3. Len(u) = e - m
  BY <1>2
<1>4. \A i \in 1 .. e - m : i \in 1 .. e - (m + 1) + 1 /\ (m + 1) + i - 1 = m + i
  OBVIOUS
<1>5. \A i \in 1 .. e - m : u[i] = s[m + i]
  BY <1>2, <1>4
<1> QED
  BY <1>2, <1>3, <1>5 DEF u

LEMMA StretchEntry ==
  ASSUME NEW s \in Seq(Nat), NEW m \in Nat, NEW e \in Nat, e <= Len(s), NEW i \in m + 1 .. e
  PROVE  SubSeq(s, m + 1, e)[i - m] = s[i]
<1>1. i - m \in 1 .. e - m /\ m <= e /\ m + (i - m) = i
  OBVIOUS
<1> QED
  BY <1>1, StretchFacts

\* A sequence whose entries are those of a stretch of another is that stretch.
LEMMA Stretch ==
  ASSUME NEW s \in Seq(Nat), NEW t \in Seq(Nat), NEW m \in Nat,
         m + Len(s) <= Len(t), \A i \in 1..Len(s) : s[i] = t[m + i]
  PROVE  s = SubSeq(t, m + 1, m + Len(s))
<1> DEFINE u == SubSeq(t, m + 1, m + Len(s))
<1>1. Len(s) \in Nat /\ Len(t) \in Nat
  OBVIOUS
<1> DEFINE e == m + Len(s)
<1>2. e \in Nat /\ m <= e /\ e <= Len(t) /\ e - m = Len(s)
  BY <1>1
<1> HIDE DEF e
<1>3. /\ SubSeq(t, m + 1, e) \in Seq(Nat) /\ Len(SubSeq(t, m + 1, e)) = e - m
      /\ \A i \in 1 .. e - m : SubSeq(t, m + 1, e)[i] = t[m + i]
  BY <1>2, StretchFacts
<1>5. u \in Seq(Nat) /\ Len(u) = Len(s) /\ \A i \in 1..Len(s) : u[i] = t[m + i]
  BY <1>2, <1>3 DEF e
<1> HIDE DEF u
<1>4. s = u
  BY <1>5, SeqEqual
<1> QED
  BY <1>4 DEF u

\* What is appended leaves a stretch before it alone.
LEMMA StretchKept ==
  ASSUME NEW s \in Seq(Nat), NEW t \in Seq(Nat), NEW m \in Nat, NEW n \in Nat,
         m <= n, n <= Len(s)
  PROVE  SubSeq(s \o t, m + 1, n) = SubSeq(s, m + 1, n)
<1> DEFINE u == SubSeq(s, m + 1, n)
           w == s \o t
<1>1. Len(s) \in Nat /\ Len(t) \in Nat
  OBVIOUS
<1>2. w \in Seq(Nat) /\ Len(w) = Len(s) + Len(t) /\ \A i \in 1..Len(s) : w[i] = s[i]
  BY <1>1
<1>3. u \in Seq(Nat) /\ Len(u) = n - m /\ \A i \in 1 .. n - m : u[i] = s[m + i]
  BY StretchFacts
<1> HIDE DEF u, w
<1>4. m + Len(u) <= Len(w) /\ m + Len(u) = n
  BY <1>1, <1>2, <1>3
<1>5. ASSUME NEW i \in 1..Len(u) PROVE u[i] = w[m + i]
  <2>1. i \in 1 .. n - m /\ m + i \in 1..Len(s)
    BY <1>1, <1>3, <1>5
  <2> QED
    BY <1>2, <1>3, <2>1
<1>6. u = SubSeq(w, m + 1, m + Len(u))
  BY <1>2, <1>3, <1>4, <1>5, Stretch
<1> QED
  BY <1>4, <1>6 DEF u, w

LEMMA LeafKept ==
  ASSUME NEW fl, NEW s \in Seq(Nat), NEW t \in Seq(Nat), NEW n \in Nat,
         (n + 1) * ChunkLen <= Len(s)
  PROVE  LeafIn(fl, s \o t, n) = LeafIn(fl, s, n)
<1>1. /\ n * ChunkLen \in Nat /\ (n + 1) * ChunkLen \in Nat
      /\ n * ChunkLen <= (n + 1) * ChunkLen
  BY LengthsAssumption
<1>2. SubSeq(s \o t, n * ChunkLen + 1, (n + 1) * ChunkLen)
        = SubSeq(s, n * ChunkLen + 1, (n + 1) * ChunkLen)
  <2> DEFINE m == n * ChunkLen
             p == (n + 1) * ChunkLen
  <2>1. m \in Nat /\ p \in Nat /\ m <= p /\ p <= Len(s)
    BY <1>1
  <2> HIDE DEF m, p
  <2>2. SubSeq(s \o t, m + 1, p) = SubSeq(s, m + 1, p)
    BY <2>1, StretchKept
  <2> QED
    BY <2>2 DEF m, p
<1> QED
  BY <1>2 DEF LeafIn

\* The stack after c chunks depends on these chunks only.
LEMMA StackKept ==
  ASSUME NEW fl, NEW s \in Seq(Nat), NEW t \in Seq(Nat), NEW c \in Nat,
         c * ChunkLen <= Len(s)
  PROVE  StackIn(fl, s \o t, c) = StackIn(fl, s, c)
<1>1. ASSUME NEW n \in Nat, n < c PROVE LeafIn(fl, s \o t, n) = LeafIn(fl, s, n)
  <2>1. (n + 1) * ChunkLen <= c * ChunkLen
    <3>1. PICK d \in Nat : c = n + 1 + d
      <4>1. c = n + 1 + (c - n - 1) /\ c - n - 1 \in Nat
        BY <1>1
      <4> QED
        BY <4>1
    <3>2. c * ChunkLen = (n + 1) * ChunkLen + d * ChunkLen /\ d * ChunkLen \in Nat
      BY <3>1, LengthsAssumption
    <3>3. (n + 1) * ChunkLen \in Nat
      BY LengthsAssumption
    <3> QED
      BY <3>2, <3>3
  <2>2. (n + 1) * ChunkLen <= Len(s)
    <3>1. (n + 1) * ChunkLen \in Nat /\ c * ChunkLen \in Nat /\ Len(s) \in Nat
      BY LengthsAssumption
    <3> QED
      BY <2>1, <3>1
  <2> QED
    BY <2>2, LeafKept
<1>2. ASSUME NEW j \in Nat, 2 * j + 1 < c PROVE PairIn(fl, s \o t, j) = PairIn(fl, s, j)
  <2>1. 2 * j \in Nat /\ 2 * j + 1 \in Nat /\ 2 * j < c
    BY <1>2
  <2> QED
    BY <1>1, <1>2, <2>1 DEF PairIn
<1>3. ASSUME c > 1 PROVE PairsIn(fl, s \o t, c \div 2 - 1) = PairsIn(fl, s, c \div 2 - 1)
  <2> DEFINE k == c \div 2 - 1
  <2>1. k \in Nat /\ \A j \in 0..k : j \in Nat /\ 2 * j + 1 < c
    BY <1>3
  <2> HIDE DEF k
  <2> DEFINE w == s \o t
  <2>2. \A j \in 0..k : PairIn(fl, w, j) = PairIn(fl, s, j)
    BY <1>2, <2>1
  <2> HIDE DEF w
  <2>3. PairsIn(fl, w, k) = PairsIn(fl, s, k)
    BY <2>1, <2>2, PairsSame
  <2> QED
    BY <2>3 DEF k, w
<1>4. CASE c = 0
  BY <1>4 DEF StackIn
<1>5. CASE c = 1
  <2>1. LeafIn(fl, s \o t, 0) = LeafIn(fl, s, 0)
    BY <1>1, <1>5
  <2> QED
    BY <1>5, <2>1 DEF StackIn
<1>6. CASE c > 1 /\ c % 2 = 0
  BY <1>3, <1>6 DEF StackIn
<1>7. CASE c > 1 /\ c % 2 = 1
  <2>1. c - 1 \in Nat /\ c - 1 < c
    BY <1>7
  <2>2. LeafIn(fl, s \o t, c - 1) = LeafIn(fl, s, c - 1)
    BY <1>1, <2>1
  <2> QED
    BY <1>3, <1>7, <2>2 DEF StackIn
<1>8. c % 2 \in {0, 1}
  OBVIOUS
<1> QED
  BY <1>4, <1>5, <1>6, <1>7, <1>8

LEMMA AppendToOne ==
  ASSUME NEW S, NEW q \in Seq(S), NEW b \in S, Len(q) = 1
  PROVE  Append(q, b) = <<q[1], b>>
<1> DEFINE r == Append(q, b)
<1>1. r \in Seq(S) /\ Len(r) = 2
  <2>1. r \in Seq(S)
    OBVIOUS
  <2>2. Len(r) = 2
    OBVIOUS
  <2> QED
    BY <2>1, <2>2
<1>2. r[1] = q[1]
  BY AppendProperties
<1>5. r[2] = b
  <2>1. r[Len(q) + 1] = b
    BY AppendProperties, Zenon
  <2> QED
    BY <2>1
<1> HIDE DEF r
<1>3. r = [i \in 1..2 |-> r[i]]
  BY <1>1
<1>4. r = <<q[1], b>>
  BY <1>2, <1>3, <1>5
<1> QED
  BY <1>4 DEF r

\* What pop_cv and push_cv do on short stacks.
LEMMA ShortStacks ==
  /\ \A a : SubSeq(<<a>>, 1, 0) = <<>> /\ Append(<<>>, a) = <<a>> /\ Len(<<a>>) = 1
  /\ \A a, b : /\ SubSeq(<<a, b>>, 1, 1) = <<a>> /\ Append(<<a>>, b) = <<a, b>>
               /\ Len(<<a, b>>) = 2
<1>1. ASSUME NEW a PROVE SubSeq(<<a>>, 1, 0) = <<>> /\ Append(<<>>, a) = <<a>> /\ Len(<<a>>) = 1
  OBVIOUS
<1>2. ASSUME NEW a, NEW b PROVE /\ SubSeq(<<a, b>>, 1, 1) = <<a>> /\ Append(<<a>>, b) = <<a, b>>
               /\ Len(<<a, b>>) = 2
  <2> DEFINE s == <<a, b>>
             S == {a, b}
             t == SubSeq(s, 1, 1)
  <2>1. s \in Seq(S) /\ Len(s) = 2 /\ s[1] = a
    OBVIOUS
  <2>2. t = <<a>>
    <3> HIDE DEF s, S
    <3>1. t \in Seq(S) /\ Len(t) = 1 /\ t[1] = s[1]
      BY <2>1
    <3> HIDE DEF t
    <3>2. t = [i \in 1..1 |-> t[i]]
      BY <3>1
    <3> QED
      BY <2>1, <3>1, <3>2
  <2>3. Append(<<a>>, b) = <<a, b>>
    <3> DEFINE q == <<a>>
    <3>1. q \in Seq(S) /\ Len(q) = 1 /\ q[1] = a /\ b \in S
      OBVIOUS
    <3> HIDE DEF q, S, s
    <3>2. Append(q, b) = <<q[1], b>>
      BY <3>1, AppendToOne, Zenon
    <3> QED
      BY <3>1, <3>2 DEF q
  <2> QED
    BY <2>1, <2>2, <2>3
<1> QED
  BY <1>1, <1>2

-----------------------------------------------------------------------------
\* What Inv says of the lengths.
LEMMA Facts ==
  ASSUME Inv
  PROVE  /\ chunk_buf \in Seq(Nat) /\ input \in Seq(Nat) /\ fed \in Seq(Nat)
         /\ Len(chunk_buf) \in Nat /\ Len(input) \in Nat /\ Len(fed) \in Nat
         /\ chunk_counter \in Nat /\ ChunkLen \in Nat \ {0}
         /\ chunk_counter * ChunkLen \in Nat
         /\ Len(fed) = chunk_counter * ChunkLen + Len(chunk_buf) + Len(input)
         /\ Len(chunk_buf) <= ChunkLen
<1>1. /\ chunk_buf \in Seq(Nat) /\ input \in Seq(Nat) /\ fed \in Seq(Nat)
      /\ chunk_counter \in Nat /\ ChunkLen \in Nat \ {0}
      /\ Len(fed) = chunk_counter * ChunkLen + Len(chunk_buf) + Len(input)
      /\ Len(chunk_buf) <= ChunkLen
  BY LengthsAssumption DEF Inv, TypeOK, BytesAccounted
<1> QED
  BY <1>1

LEMMA OrderInit == ASSUME Init PROVE BytesInOrder
  BY DEF Init, BytesInOrder

LEMMA OrderUpdate == ASSUME Inv, BytesInOrder, NEW size \in Nat, Update(size) PROVE BytesInOrder'
<1>1. /\ input = <<>> /\ input' = [i \in 1..size |-> Len(fed) + i]
      /\ fed' = fed \o input'
      /\ chunk_buf' = chunk_buf /\ chunk_counter' = chunk_counter
  BY DEF Update, hasher, Inv, BytesAccounted
<1>2. input' \in Seq(Nat) /\ Len(input') = size
  BY <1>1, Facts
<1>3. /\ Len(fed') = Len(fed) + size
      /\ \A i \in 1..Len(fed) : fed'[i] = fed[i]
      /\ \A i \in 1..size : fed'[Len(fed) + i] = input'[i]
  <2>1. Len(fed') = Len(fed) + size
    BY <1>1, <1>2, Facts
  <2>2. \A i \in 1..Len(fed) : fed'[i] = fed[i]
    BY <1>1, <1>2, Facts
  <2>3. ASSUME NEW i \in 1..size PROVE fed'[Len(fed) + i] = input'[i]
    BY <1>1, <1>2, Facts
  <2> QED
    BY <2>1, <2>2, <2>3
<1>4. \A i \in 1..Len(chunk_buf') : chunk_buf'[i] = fed'[chunk_counter' * ChunkLen + i]
  <2> SUFFICES ASSUME NEW i \in 1..Len(chunk_buf)
               PROVE  chunk_buf[i] = fed'[chunk_counter * ChunkLen + i]
    BY <1>1
  <2>1. chunk_counter * ChunkLen + i \in 1..Len(fed)
    <3> DEFINE p == chunk_counter * ChunkLen
    <3>1. /\ p \in Nat /\ Len(fed) = p + Len(chunk_buf) + Len(input)
          /\ Len(chunk_buf) \in Nat /\ Len(input) \in Nat
      BY Facts
    <3> HIDE DEF p
    <3>2. p + i \in 1..Len(fed)
      BY <3>1
    <3> QED
      BY <3>2 DEF p
  <2>2. chunk_buf[i] = fed[chunk_counter * ChunkLen + i]
    BY DEF BytesInOrder
  <2> QED
    BY <1>3, <2>1, <2>2
<1>5. \A i \in 1..Len(input') : input'[i] = fed'[Len(fed') - Len(input') + i]
  <2>1. Len(fed') - Len(input') = Len(fed)
    BY <1>2, <1>3, Facts
  <2> QED
    BY <1>2, <1>3, <2>1
<1>6. chunk_counter' > 0 => chunk_buf' # <<>> \/ input' # <<>>
  BY <1>1 DEF BytesInOrder
<1> QED
  BY <1>4, <1>5, <1>6 DEF BytesInOrder

LEMMA OrderTake == ASSUME Inv, BytesInOrder, TakeInput PROVE BytesInOrder'
<1> DEFINE take == IF Len(input) < Want THEN Len(input) ELSE Want
           p == chunk_counter * ChunkLen
           n == Len(chunk_buf)
           m == Len(input)
           x == SubSeq(input, 1, take)
<1>1. /\ Len(chunk_buf) # ChunkLen /\ input # <<>>
      /\ chunk_buf' = chunk_buf \o x
      /\ input' = SubSeq(input, take + 1, Len(input))
      /\ chunk_counter' = chunk_counter /\ fed' = fed
  BY DEF TakeInput
<1>2. /\ p \in Nat /\ n \in Nat /\ m \in Nat /\ Len(fed) = p + n + m
      /\ m > 0 /\ n < ChunkLen /\ ChunkLen \in Nat
  <2>1. /\ p \in Nat /\ n \in Nat /\ m \in Nat /\ Len(fed) = p + n + m
        /\ n <= ChunkLen /\ ChunkLen \in Nat /\ input \in Seq(Nat)
    BY Facts
  <2>2. m # 0
    BY <1>1, <2>1
  <2> HIDE DEF p, m
  <2> QED
    BY <1>1, <2>1, <2>2
<1>3. take \in Nat /\ take > 0 /\ take <= m
  BY <1>2 DEF Want
<1>4. chunk_buf \in Seq(Nat) /\ input \in Seq(Nat)
  BY Facts
<1> HIDE DEF take
<1>5. /\ x \in Seq(Nat) /\ Len(x) = take
      /\ \A i \in 1..take : x[i] = input[i]
  BY <1>3, <1>4
<1>6. /\ Len(input') = m - take
      /\ \A i \in 1 .. m - take : input'[i] = input[take + i]
  <2>1. Len(input') = m - take
    BY <1>1, <1>2, <1>3, <1>4
  <2>2. ASSUME NEW i \in 1 .. m - take PROVE input'[i] = input[take + i]
    BY <1>1, <1>2, <1>3, <1>4
  <2> QED
    BY <2>1, <2>2
<1> HIDE DEF x
<1>7. /\ Len(chunk_buf') = n + take
      /\ \A i \in 1..n : chunk_buf'[i] = chunk_buf[i]
      /\ \A i \in n + 1 .. n + take : chunk_buf'[i] = x[i - n]
  <2> DEFINE y == chunk_buf \o x
  <2>1. /\ Len(y) = n + take
        /\ \A i \in 1 .. n + take : y[i] = IF i <= n THEN chunk_buf[i] ELSE x[i - n]
    BY <1>4, <1>5, ConcatProperties
  <2> HIDE DEF y, n
  <2>2. n \in Nat
    BY <1>2
  <2>3. \A i \in 1..n : y[i] = chunk_buf[i]
    BY <1>3, <2>1, <2>2
  <2>4. \A i \in n + 1 .. n + take : y[i] = x[i - n]
    BY <1>3, <2>1, <2>2
  <2> QED
    BY <1>1, <2>1, <2>3, <2>4 DEF y
<1>8. /\ \A i \in 1..n : chunk_buf[i] = fed[p + i]
      /\ \A i \in 1..m : input[i] = fed[p + n + i]
  <2>1. Len(fed) - m = p + n
    BY <1>2
  <2> QED
    BY <2>1 DEF BytesInOrder
<1> HIDE DEF p, n, m
<1>9. ASSUME NEW i \in 1 .. n + take PROVE chunk_buf'[i] = fed[p + i]
  <2>1. CASE i <= n
    <3>1. i \in 1..n
      BY <1>2, <2>1
    <3> QED
      BY <1>7, <1>8, <3>1
  <2>2. CASE i > n
    <3>1. /\ i \in n + 1 .. n + take /\ i - n \in 1..take /\ i - n \in 1..m
          /\ p + n + (i - n) = p + i
      BY <1>2, <1>3, <2>2
    <3>2. chunk_buf'[i] = x[i - n] /\ x[i - n] = input[i - n]
      BY <1>5, <1>7, <3>1
    <3>3. input[i - n] = fed[p + n + (i - n)]
      BY <1>8, <3>1
    <3> QED
      BY <3>1, <3>2, <3>3
  <2> QED
    BY <1>2, <2>1, <2>2
<1>10. ASSUME NEW i \in 1 .. m - take
       PROVE  input'[i] = fed[Len(fed) - (m - take) + i]
  <2>1. take + i \in 1..m /\ p + n + (take + i) = Len(fed) - (m - take) + i
    BY <1>2, <1>3
  <2> QED
    BY <1>6, <1>8, <2>1
<1>11. chunk_buf' # <<>>
  <2>1. Len(chunk_buf') # 0
    BY <1>2, <1>3, <1>7
  <2>2. Len(<<>>) = 0
    OBVIOUS
  <2> QED
    BY <2>1, <2>2
<1>12. \A i \in 1..Len(chunk_buf') : chunk_buf'[i] = fed'[chunk_counter' * ChunkLen + i]
  <2>1. chunk_counter' * ChunkLen = p
    BY <1>1 DEF p
  <2> QED
    BY <1>1, <1>7, <1>9, <2>1
<1>13. \A i \in 1..Len(input') : input'[i] = fed'[Len(fed') - Len(input') + i]
  BY <1>1, <1>6, <1>10
<1> QED
  BY <1>11, <1>12, <1>13 DEF BytesInOrder

LEMMA OrderPush == ASSUME Inv, BytesInOrder, PushCv PROVE BytesInOrder'
<1>1. /\ input # <<>> /\ UNCHANGED <<input, fed>> /\ chunk_buf' = <<>>
  BY DEF PushCv, Inv, BytesAccounted
<1>2. Len(chunk_buf') = 0
  BY <1>1
<1> QED
  BY <1>1, <1>2 DEF BytesInOrder

LEMMA OrderSame ==
  ASSUME BytesInOrder, UNCHANGED <<chunk_buf, chunk_counter, input, fed>>
  PROVE  BytesInOrder'
  BY DEF BytesInOrder

\* The chunk that is compressed is the next stretch of the bytes fed.
LEMMA BufferIsStretch ==
  ASSUME Inv, BytesInOrder
  PROVE  chunk_buf = SubSeq(fed, chunk_counter * ChunkLen + 1,
                            chunk_counter * ChunkLen + Len(chunk_buf))
<1> DEFINE p == chunk_counter * ChunkLen
<1>1. /\ chunk_buf \in Seq(Nat) /\ fed \in Seq(Nat) /\ p \in Nat
      /\ p + Len(chunk_buf) <= Len(fed)
  BY Facts
<1>2. \A i \in 1..Len(chunk_buf) : chunk_buf[i] = fed[p + i]
  BY DEF BytesInOrder
<1> HIDE DEF p
<1>3. chunk_buf = SubSeq(fed, p + 1, p + Len(chunk_buf))
  BY <1>1, <1>2, Stretch
<1> QED
  BY <1>3 DEF p
\* The stack after c chunks, case by case.
LEMMA StackCases ==
  ASSUME NEW fl, NEW all, NEW c \in Nat
  PROVE  /\ c = 0 => StackIn(fl, all, c) = <<>>
         /\ c = 1 => StackIn(fl, all, c) = <<LeafIn(fl, all, 0)>>
         /\ c > 1 /\ c % 2 = 0 => StackIn(fl, all, c) = <<PairsIn(fl, all, c \div 2 - 1)>>
         /\ c > 1 /\ c % 2 = 1 =>
              StackIn(fl, all, c) = <<PairsIn(fl, all, c \div 2 - 1), LeafIn(fl, all, c - 1)>>
<1>1. c = 0 => StackIn(fl, all, c) = <<>>
  BY DEF StackIn
<1>2. c = 1 => StackIn(fl, all, c) = <<LeafIn(fl, all, 0)>>
  BY DEF StackIn
<1>3. c > 1 /\ c % 2 = 0 => StackIn(fl, all, c) = <<PairsIn(fl, all, c \div 2 - 1)>>
  BY DEF StackIn
<1>4. c > 1 /\ c % 2 = 1 =>
        StackIn(fl, all, c) = <<PairsIn(fl, all, c \div 2 - 1), LeafIn(fl, all, c - 1)>>
  BY DEF StackIn
<1> QED
  BY <1>1, <1>2, <1>3, <1>4

\* A pair is complete: with all that is left of it, it is the next entry.
LEMMA PairDone ==
  ASSUME NEW fl, NEW all, NEW c \in Nat, c > 1, c % 2 = 1
  PROVE  /\ PairIn(fl, all, c \div 2)
              = ParentIn(fl, LeafIn(fl, all, c - 1), LeafIn(fl, all, c))
         /\ PairsIn(fl, all, c \div 2)
              = ParentIn(fl, PairsIn(fl, all, c \div 2 - 1), PairIn(fl, all, c \div 2))
<1>1. 2 * (c \div 2) = c - 1 /\ 2 * (c \div 2) + 1 = c
  OBVIOUS
<1>2. c \div 2 - 1 \in Nat /\ (c \div 2 - 1) + 1 = c \div 2
  OBVIOUS
<1>3. PairIn(fl, all, c \div 2) = ParentIn(fl, LeafIn(fl, all, c - 1), LeafIn(fl, all, c))
  BY <1>1 DEF PairIn
<1> DEFINE k == c \div 2 - 1
<1>4. PairsIn(fl, all, k + 1) = ParentIn(fl, PairsIn(fl, all, k), PairIn(fl, all, k + 1))
  BY <1>2, PairsAt
<1> QED
  BY <1>2, <1>3, <1>4

LEMMA StackMerge ==
  ASSUME Inv, StackHoldsPairs, MergeLeft, chunk_counter % 2 = 1
  PROVE  StackHoldsPairs'
<1> DEFINE c == chunk_counter
           L(n) == LeafIn(flags, fed, n)
           P(k) == PairsIn(flags, fed, k)
           top == cv_stack[Len(cv_stack)]
           rest == SubSeq(cv_stack, 1, Len(cv_stack) - 1)
<1>1. /\ pc = "merge" /\ pc' = pc /\ Len(cv_stack) > 0
      /\ new_cv' = ParentIn(flags, top, new_cv)
      /\ cv_stack' = rest
      /\ UNCHANGED <<chunk_counter, flags, fed>>
  BY CodeIsIn DEF MergeLeft, MergesLeft
<1>2. c \in Nat /\ c % 2 = 1 /\ (c = 1 \/ c > 1)
  <2>1. c \in Nat
    BY Facts
  <2> QED
    BY <2>1
<1>3. Merging(flags, fed, c, cv_stack, new_cv)
  BY <1>1 DEF StackHoldsPairs
<1>4. Merging(flags, fed, c, cv_stack', new_cv')
  <2>1. CASE cv_stack = StackIn(flags, fed, c) /\ new_cv = L(c) /\ c = 1
    <3>1. cv_stack = <<L(0)>>
      BY <2>1, <1>2, StackCases
    <3>2. rest = <<>> /\ top = L(0)
      BY <3>1, ShortStacks
    <3>3. PairIn(flags, fed, 0) = ParentIn(flags, L(0), L(1))
      BY DEF PairIn
    <3>4. P(c \div 2) = ParentIn(flags, L(0), L(1))
      <4>1. c \div 2 = 0
        BY <2>1
      <4> QED
        BY <3>3, <4>1, PairsAt
    <3> QED
      BY <1>1, <1>2, <2>1, <3>2, <3>4 DEF Merging
  <2>2. CASE cv_stack = StackIn(flags, fed, c) /\ new_cv = L(c) /\ c > 1
    <3>1. cv_stack = <<P(c \div 2 - 1), L(c - 1)>>
      BY <2>2, <1>2, StackCases
    <3>2. rest = <<P(c \div 2 - 1)>> /\ top = L(c - 1)
      BY <3>1, ShortStacks
    <3>3. PairIn(flags, fed, c \div 2) = ParentIn(flags, L(c - 1), L(c))
      BY <1>2, <2>2, PairDone
    <3> QED
      BY <1>1, <1>2, <2>2, <3>2, <3>3 DEF Merging
  <2>3. CASE /\ c > 1 /\ cv_stack = <<P(c \div 2 - 1)>>
             /\ new_cv = PairIn(flags, fed, c \div 2)
    <3>1. rest = <<>> /\ top = P(c \div 2 - 1)
      BY <2>3, ShortStacks
    <3>2. P(c \div 2) = ParentIn(flags, P(c \div 2 - 1), PairIn(flags, fed, c \div 2))
      BY <1>2, <2>3, PairDone
    <3> QED
      BY <1>1, <1>2, <2>3, <3>1, <3>2 DEF Merging
  <2>4. CASE cv_stack = <<>>
    BY <1>1, <2>4
  <2> QED
    BY <1>2, <1>3, <2>1, <2>2, <2>3, <2>4 DEF Merging
<1> QED
  BY <1>1, <1>4 DEF StackHoldsPairs

LEMMA StackPush ==
  ASSUME Inv, StackHoldsPairs, PushCv,
         chunk_counter % 2 = 1 => Len(cv_stack) = 0
  PROVE  StackHoldsPairs'
<1> DEFINE c == chunk_counter
           L(n) == LeafIn(flags, fed, n)
           P(k) == PairsIn(flags, fed, k)
<1>1. /\ pc = "merge" /\ pc' = "update"
      /\ cv_stack' = Append(cv_stack, new_cv)
      /\ c' = c + 1 /\ UNCHANGED <<flags, fed>>
  BY DEF PushCv, NextCounter
<1>2. c \in Nat /\ c % 2 \in {0, 1} /\ c + 1 \in Nat
  <2>1. c \in Nat
    BY Facts
  <2> HIDE DEF c
  <2> QED
    BY <2>1
<1>3. Merging(flags, fed, c, cv_stack, new_cv)
  BY <1>1 DEF StackHoldsPairs
<1>4. Append(cv_stack, new_cv) = StackIn(flags, fed, c + 1)
  <2>1. CASE c % 2 = 1
    <3>1. cv_stack = <<>>
      <4>1. Len(cv_stack) = 0
        BY <2>1
      <4>2. cv_stack = [i \in 1..0 |-> cv_stack[i]]
        BY <4>1 DEF Inv, TypeOK, IsSequence
      <4> QED
        BY <4>2
    <3>2. new_cv = P(c \div 2)
      <4>1. CASE cv_stack = StackIn(flags, fed, c)
        <5>1. StackIn(flags, fed, c) # <<>>
          <6>1. c = 1 \/ c > 1
            BY <1>2, <2>1
          <6>2. \A a : <<a>> # <<>>
            BY ShortStacks
          <6>3. \A a, b : <<a, b>> # <<>>
            BY ShortStacks
          <6>4. CASE c = 1
            BY <1>2, <6>2, <6>4, StackCases
          <6>5. CASE c > 1
            BY <1>2, <2>1, <6>3, <6>5, StackCases
          <6> QED
            BY <6>1, <6>4, <6>5
        <5> QED
          BY <3>1, <4>1, <5>1
      <4>2. CASE cv_stack = <<P(c \div 2 - 1)>>
        BY <3>1, <4>2, ShortStacks
      <4> QED
        BY <1>3, <4>1, <4>2 DEF Merging
    <3>3. c + 1 > 1 /\ (c + 1) % 2 = 0 /\ (c + 1) \div 2 - 1 = c \div 2
      BY <1>2, <2>1
    <3>4. StackIn(flags, fed, c + 1) = <<P(c \div 2)>>
      BY <1>2, <3>3, StackCases
    <3> QED
      BY <3>1, <3>2, <3>4, ShortStacks
  <2>2. CASE c % 2 = 0
    <3>1. cv_stack = StackIn(flags, fed, c) /\ new_cv = L(c)
      BY <1>3, <2>2 DEF Merging
    <3>2. CASE c = 0
      <4>1. StackIn(flags, fed, c) = <<>> /\ StackIn(flags, fed, c + 1) = <<L(0)>>
        BY <1>2, <3>2, StackCases
      <4> QED
        BY <3>1, <3>2, <4>1, ShortStacks
    <3>3. CASE c # 0
      <4>1. /\ c > 1 /\ c + 1 > 1 /\ (c + 1) % 2 = 1 /\ (c + 1) - 1 = c
            /\ (c + 1) \div 2 - 1 = c \div 2 - 1
        BY <1>2, <2>2, <3>3
      <4>2. StackIn(flags, fed, c) = <<P(c \div 2 - 1)>>
        BY <1>2, <2>2, <4>1, StackCases
      <4>3. StackIn(flags, fed, c + 1) = <<P(c \div 2 - 1), L(c)>>
        BY <1>2, <4>1, StackCases
      <4> QED
        BY <3>1, <4>2, <4>3, ShortStacks
    <3> QED
      BY <3>2, <3>3
  <2> QED
    BY <1>2, <2>1, <2>2
<1> QED
  BY <1>1, <1>4 DEF StackHoldsPairs

LEMMA StackCompress ==
  ASSUME Inv, BytesInOrder, StackHoldsPairs, CompressChunk
  PROVE  StackHoldsPairs'
<1>1. /\ pc = "update" /\ pc' = "merge" /\ Len(chunk_buf) = ChunkLen
      /\ new_cv' = ChunkIn(flags, chunk_buf, chunk_counter)
      /\ UNCHANGED <<cv_stack, chunk_counter, flags, fed>>
  BY CodeIsIn DEF CompressChunk, hasher
<1>2. chunk_counter * ChunkLen + ChunkLen = (chunk_counter + 1) * ChunkLen
  BY Facts
<1>3. new_cv' = LeafIn(flags, fed, chunk_counter)
  BY <1>1, <1>2, BufferIsStretch DEF LeafIn
<1>4. cv_stack = StackIn(flags, fed, chunk_counter)
  BY <1>1 DEF StackHoldsPairs
<1> QED
  BY <1>1, <1>3, <1>4 DEF StackHoldsPairs, Merging

LEMMA StackUpdate ==
  ASSUME Inv, StackHoldsPairs, NEW size \in Nat, Update(size)
  PROVE  StackHoldsPairs'
<1>1. /\ pc = "idle" /\ pc' = "update" 
      /\ input' = [i \in 1..size |-> Len(fed) + i]
      /\ fed' = fed \o input'
      /\ UNCHANGED <<cv_stack, chunk_counter, flags>>
  BY DEF Update, hasher
<1>2. /\ input' \in Seq(Nat) /\ fed \in Seq(Nat) /\ chunk_counter \in Nat
      /\ chunk_counter * ChunkLen <= Len(fed)
  <2> DEFINE p == chunk_counter * ChunkLen
  <2>1. /\ p \in Nat /\ Len(fed) = p + Len(chunk_buf) + Len(input)
        /\ Len(chunk_buf) \in Nat /\ Len(input) \in Nat /\ fed \in Seq(Nat)
        /\ chunk_counter \in Nat /\ Len(fed) \in Nat
    BY Facts
  <2>2. input' \in Seq(Nat)
    BY <1>1, <2>1
  <2> HIDE DEF p
  <2>3. p <= Len(fed)
    BY <2>1
  <2> QED
    BY <2>1, <2>2, <2>3 DEF p
<1>3. StackIn(flags, fed', chunk_counter) = StackIn(flags, fed, chunk_counter)
  BY <1>1, <1>2, StackKept
<1> QED
  BY <1>1, <1>3 DEF StackHoldsPairs

LEMMA StackSame ==
  ASSUME StackHoldsPairs, pc # "merge" /\ pc' # "merge",
         UNCHANGED <<cv_stack, chunk_counter, flags, fed>>
  PROVE  StackHoldsPairs'
  BY DEF StackHoldsPairs

-----------------------------------------------------------------------------
\* The loop of blake3_hasher_finalize.
FinalLoop(fl, first, stack, d, merged) ==
    merged = [n \in 0..d |-> IF n = 0 THEN first
                             ELSE ParentIn(fl, stack[d - n + 1], merged[n - 1])]

\* The last chunk merged with a stack of up to two entries.
LEMMA DigestCases ==
  ASSUME NEW first, first = ChunkIn(flags, chunk_buf, chunk_counter)
  PROVE  /\ cv_stack = <<>> => Digest = RootIn(flags, first)
         /\ \A a : cv_stack = <<a>> => Digest = RootIn(flags, ParentIn(flags, a, first))
         /\ \A a, b : cv_stack = <<a, b>> =>
              Digest = RootIn(flags, ParentIn(flags, a, ParentIn(flags, b, first)))
<1> DEFINE d == Len(cv_stack)
           m == CHOOSE f : FinalLoop(flags, first, cv_stack, d, f)
<1>1. Digest = RootIn(flags, m[d])
  BY CodeIsIn DEF Digest, RootIn, FinalLoop
<1>2. ASSUME cv_stack = <<>> PROVE m[d] = first
  <2>1. d = 0
    BY <1>2
  <2>2. FinalLoop(flags, first, cv_stack, d, [n \in 0..d |-> first])
    BY <2>1 DEF FinalLoop
  <2> HIDE DEF d
  <2>3. FinalLoop(flags, first, cv_stack, d, m)
    BY <2>2
  <2> HIDE DEF m
  <2> QED
    BY <2>1, <2>3 DEF FinalLoop
<1>3. ASSUME NEW a, cv_stack = <<a>> PROVE m[d] = ParentIn(flags, a, first)
  <2>1. d = 1 /\ cv_stack[1] = a
    BY <1>3, ShortStacks
  <2> HIDE DEF d
  <2> DEFINE f == [n \in 0..d |-> IF n = 0 THEN first ELSE ParentIn(flags, a, first)]
             g == [n \in 0..d |-> IF n = 0 THEN first
                                  ELSE ParentIn(flags, cv_stack[d - n + 1], f[n - 1])]
  <2>2. f = g
    <3>1. \A n \in 0..d : f[n] = g[n]
      BY <2>1
    <3> QED
      BY <3>1
  <2>3. FinalLoop(flags, first, cv_stack, d, f)
    BY <2>2 DEF FinalLoop
  <2> HIDE DEF f, g
  <2>4. FinalLoop(flags, first, cv_stack, d, m)
    BY <2>3
  <2> HIDE DEF m
  <2>5. m[0] = first /\ m[1] = ParentIn(flags, cv_stack[d - 1 + 1], m[1 - 1])
    BY <2>1, <2>4 DEF FinalLoop
  <2> QED
    BY <2>1, <2>5
<1>4. ASSUME NEW a, NEW b, cv_stack = <<a, b>>
      PROVE  m[d] = ParentIn(flags, a, ParentIn(flags, b, first))
  <2>1. d = 2 /\ cv_stack[1] = a /\ cv_stack[2] = b
    BY <1>4, ShortStacks
  <2> HIDE DEF d
  <2> DEFINE f == [n \in 0..d |-> IF n = 0 THEN first
                                  ELSE IF n = 1 THEN ParentIn(flags, b, first)
                                  ELSE ParentIn(flags, a, ParentIn(flags, b, first))]
             g == [n \in 0..d |-> IF n = 0 THEN first
                                  ELSE ParentIn(flags, cv_stack[d - n + 1], f[n - 1])]
  <2>2. f = g
    <3>1. \A n \in 0..d : f[n] = g[n]
      <4>1. f[0] = g[0]
        BY <2>1
      <4>2. f[1] = g[1]
        BY <2>1
      <4>3. f[2] = g[2]
        BY <2>1
      <4>4. \A n \in 0..d : n \in {0, 1, 2}
        BY <2>1
      <4> HIDE DEF f, g
      <4> QED
        BY <4>1, <4>2, <4>3, <4>4
    <3> QED
      BY <3>1
  <2>3. FinalLoop(flags, first, cv_stack, d, f)
    BY <2>2 DEF FinalLoop
  <2> HIDE DEF f, g
  <2>4. FinalLoop(flags, first, cv_stack, d, m)
    BY <2>3
  <2> HIDE DEF m
  <2>5. /\ m[0] = first
        /\ m[1] = ParentIn(flags, cv_stack[d - 1 + 1], m[1 - 1])
        /\ m[2] = ParentIn(flags, cv_stack[d - 2 + 1], m[2 - 1])
    BY <2>1, <2>4 DEF FinalLoop
  <2> QED
    BY <2>1, <2>5
<1> HIDE DEF m
<1> QED
  BY <1>1, <1>2, <1>3, <1>4

\* finalize cuts off as many whole chunks as update compressed.
LEMMA WholeChunks ==
  ASSUME Inv, BytesInOrder, input = <<>>
  PROVE  /\ chunk_counter
              = IF Len(fed) = 0 THEN 0 ELSE (Len(fed) - 1) \div ChunkLen
         /\ Len(fed) = chunk_counter * ChunkLen + Len(chunk_buf)
<1> DEFINE p == chunk_counter * ChunkLen
           n == Len(chunk_buf)
<1>1. /\ chunk_counter \in Nat /\ ChunkLen \in Nat \ {0} /\ p \in Nat /\ n \in Nat
      /\ Len(fed) = p + n + Len(input) /\ n <= ChunkLen /\ chunk_buf \in Seq(Nat)
  BY Facts
<1>2. Len(fed) = p + n
  BY <1>1
<1>3. CASE chunk_counter = 0 /\ n = 0
  BY <1>1, <1>2, <1>3
<1>4. CASE n # 0
  <2>1. Len(fed) # 0 /\ Len(fed) - 1 = chunk_counter * ChunkLen + (n - 1)
    <3> HIDE DEF n
    <3>1. p + n # 0 /\ (p + n) - 1 = p + (n - 1)
      <4> HIDE DEF p
      <4> QED
        BY <1>1, <1>4
    <3> QED
      BY <1>2, <3>1
  <2>2. n - 1 \in 0 .. ChunkLen - 1
    BY <1>1, <1>4
  <2>3. \A k \in Nat, r \in Nat : r < ChunkLen => (k * ChunkLen + r) \div ChunkLen = k
    BY <1>1
  <2>4. (chunk_counter * ChunkLen + (n - 1)) \div ChunkLen = chunk_counter
    <3> DEFINE r == n - 1
    <3>1. r \in Nat /\ r < ChunkLen
      BY <1>1, <2>2
    <3> HIDE DEF r, p, n
    <3>2. (chunk_counter * ChunkLen + r) \div ChunkLen = chunk_counter
      BY <1>1, <2>3, <3>1
    <3> QED
      BY <3>2 DEF r
  <2> QED
    BY <1>2, <2>1, <2>4
<1>5. chunk_counter = 0 \/ n # 0
  <2>1. n = 0 => chunk_buf = <<>>
    BY <1>1
  <2> QED
    BY <1>1, <2>1 DEF BytesInOrder
<1> QED
  BY <1>2, <1>3, <1>4, <1>5

\* The digest of an idle hasher.
LEMMA IdleDigest ==
  ASSUME DigestInv, pc = "idle"
  PROVE  Digest = OneShot /\ Digest = OneShotIn(flags, fed)
<1> DEFINE c == chunk_counter
           L(n) == LeafIn(flags, fed, n)
           P(k) == PairsIn(flags, fed, k)
           first == ChunkIn(flags, chunk_buf, chunk_counter)
           lone == IF c % 2 = 0 THEN first ELSE ParentIn(flags, L(c - 1), first)
           tree == IF c < 2 THEN lone ELSE ParentIn(flags, P(c \div 2 - 1), lone)
<1>1. input = <<>> /\ cv_stack = StackIn(flags, fed, c)
  BY DEF DigestInv, Inv, BytesAccounted, StackHoldsPairs
<1>2. /\ c = IF Len(fed) = 0 THEN 0 ELSE (Len(fed) - 1) \div ChunkLen
      /\ chunk_buf = SubSeq(fed, c * ChunkLen + 1, Len(fed))
  BY <1>1, WholeChunks, BufferIsStretch DEF DigestInv
<1>3. c \in Nat
  BY Facts DEF DigestInv
<1>4. OneShot = RootIn(flags, tree)
  <2> HIDE DEF c
  <2>1. first = ChunkCv(SubSeq(fed, c * ChunkLen + 1, Len(fed)), c)
    BY <1>2, CodeIsIn DEF c
  <2> HIDE DEF first
  <2> QED
    BY <1>2, <2>1, CodeIsIn DEF OneShot, RootIn
<1>5. Digest = RootIn(flags, tree)
  <2>1. /\ cv_stack = <<>> => Digest = RootIn(flags, first)
        /\ \A a : cv_stack = <<a>> => Digest = RootIn(flags, ParentIn(flags, a, first))
        /\ \A a, b : cv_stack = <<a, b>> =>
             Digest = RootIn(flags, ParentIn(flags, a, ParentIn(flags, b, first)))
    BY DigestCases
  <2> HIDE DEF first, L, P, c
  <2>2. CASE c = 0
    <3>1. cv_stack = <<>>
      BY <1>1, <1>3, <2>2, StackCases
    <3>2. tree = first
      BY <2>2
    <3> QED
      BY <2>1, <3>1, <3>2
  <2>3. CASE c = 1
    <3>1. cv_stack = <<L(0)>>
      BY <1>1, <1>3, <2>3, StackCases DEF L
    <3>2. tree = ParentIn(flags, L(0), first)
      BY <2>3
    <3> QED
      BY <2>1, <3>1, <3>2
  <2>4. CASE c > 1 /\ c % 2 = 0
    <3>1. cv_stack = <<P(c \div 2 - 1)>>
      BY <1>1, <1>3, <2>4, StackCases DEF P
    <3>2. tree = ParentIn(flags, P(c \div 2 - 1), first)
      BY <1>3, <2>4
    <3> QED
      BY <2>1, <3>1, <3>2
  <2>5. CASE c > 1 /\ c % 2 = 1
    <3>1. cv_stack = <<P(c \div 2 - 1), L(c - 1)>>
      BY <1>1, <1>3, <2>5, StackCases DEF P, L
    <3>2. tree = ParentIn(flags, P(c \div 2 - 1), ParentIn(flags, L(c - 1), first))
      BY <1>3, <2>5
    <3> QED
      BY <2>1, <3>1, <3>2
  <2>6. c % 2 \in {0, 1} /\ (c = 0 \/ c = 1 \/ c > 1)
    BY <1>3
  <2> QED
    BY <2>2, <2>3, <2>4, <2>5, <2>6
<1>6. OneShotIn(flags, fed) = RootIn(flags, tree)
  <2>1. first = LastIn(flags, fed, c)
    BY <1>2 DEF LastIn, RestIn
  <2>2. c = WholeIn(fed)
    BY <1>2 DEF WholeIn
  <2> HIDE DEF first, c
  <2>3. lone = LoneIn(flags, fed, c)
    BY <2>1 DEF LoneIn
  <2>4. tree = TreeIn(flags, fed, c)
    BY <2>3 DEF TreeIn
  <2> HIDE DEF tree, lone
  <2> QED
    BY <2>2, <2>4 DEF OneShotIn
<1> QED
  BY <1>4, <1>5, <1>6

-----------------------------------------------------------------------------
LEMMA DigestInitially == ASSUME Init PROVE DigestInv
<1>1. Inv /\ BytesInOrder
  BY InvInit, OrderInit
<1>2. StackHoldsPairs
  BY DEF Init, StackHoldsPairs, StackIn
<1> QED
  BY <1>1, <1>2 DEF DigestInv

LEMMA DigestStep == ASSUME DigestInv, [Next]_vars PROVE DigestInv'
<1> USE DEF DigestInv
<1>1. Inv'
  BY InvStep
<1>2. ASSUME NEW size \in 0..MaxPiece, Update(size) PROVE DigestInv'
  BY <1>1, <1>2, OrderUpdate, StackUpdate, LengthsAssumption
<1>3. CASE Return
  <2>1. /\ pc # "merge" /\ pc' # "merge"
        /\ UNCHANGED <<chunk_buf, cv_stack, chunk_counter, flags, input, fed>>
    BY <1>3 DEF Return, hasher
  <2> QED
    BY <1>1, <2>1, OrderSame, StackSame
<1>4. CASE CompressChunk
  <2>1. UNCHANGED <<chunk_buf, chunk_counter, input, fed>>
    BY <1>4 DEF CompressChunk, hasher
  <2> QED
    BY <1>1, <1>4, <2>1, OrderSame, StackCompress
<1>5. CASE MergeLeft
  <2>1. UNCHANGED <<chunk_buf, chunk_counter, input, fed>> /\ MergesLeft
    BY <1>5 DEF MergeLeft
  <2> QED
    BY <1>1, <1>5, <2>1, OrderSame, MergesOdd, StackMerge
<1>6. CASE PushCv
  <2>1. ~MergesLeft
    BY <1>6 DEF PushCv
  <2> QED
    BY <1>1, <1>6, <2>1, OrderPush, OddPushesOnEmpty, StackPush
<1>7. CASE TakeInput
  <2>1. /\ pc # "merge" /\ pc' # "merge"
        /\ UNCHANGED <<cv_stack, chunk_counter, flags, fed>>
    BY <1>7 DEF TakeInput
  <2> QED
    BY <1>1, <1>7, <2>1, OrderTake, StackSame
<1>8. CASE UNCHANGED vars
  BY <1>1, <1>8 DEF vars, hasher, BytesInOrder, StackHoldsPairs
<1> QED
  BY <1>2, <1>3, <1>4, <1>5, <1>6, <1>7, <1>8 DEF Next

\* The bytes are where they belong, and the stack holds the chaining values of
\* the chunks that were compressed (blake3_hasher_update, src/src/blake3.c).
THEOREM DigestInvariance == Spec => []DigestInv
<1> QED
  BY DigestInitially, DigestStep, PTL DEF Spec

\* However the input was cut into updates, finalize computes the same digest:
\* that of all the bytes at once.
THEOREM DigestIsOneShot == Spec => []SplitIndependent
<1>1. DigestInv => SplitIndependent
  BY IdleDigest DEF SplitIndependent
<1> QED
  BY <1>1, DigestInvariance, PTL

-----------------------------------------------------------------------------
(***************************************************************************)
(* What a digest says of the bytes.                                        *)
(***************************************************************************)
\* The flags of a hasher: keyed or not.
ModeFlags == {{}, {"KEYED_HASH"}}

LEMMA CompressFields ==
  \A c, b, l, n, f : LET r == Compress(c, b, l, n, f)
                     IN  /\ r.cv = c /\ r.block = b /\ r.len = l
                         /\ r.counter = n /\ r.flags = f
BY DEF Compress

\* The loop of ChunkCv.
ChainLoop(fl, bytes, counter, last, chain) ==
    chain = [n \in 0..last |->
               IF n = 0 THEN IV
               ELSE Compress(chain[n - 1], BlockAt(bytes, n - 1), BlockLen, counter,
                             fl \cup StartFlag(n - 1))]

LEMMA ChainExists ==
  ASSUME NEW fl, NEW bytes, NEW counter, NEW k \in Nat
  PROVE  \E f : ChainLoop(fl, bytes, counter, k, f)
<1> DEFINE v(m, n) == Compress(m, BlockAt(bytes, n - 1), BlockLen, counter,
                               fl \cup StartFlag(n - 1))
           S == {n \in Nat : \E f : ChainLoop(fl, bytes, counter, n, f)}
<1>1. 0 \in S
  <2>1. ChainLoop(fl, bytes, counter, 0, [j \in 0..0 |-> IV])
    BY DEF ChainLoop
  <2> QED
    BY <2>1
<1>2. ASSUME NEW n \in Nat, n \in S PROVE n + 1 \in S
  <2>1. PICK f : ChainLoop(fl, bytes, counter, n, f)
    BY <1>2
  <2>2. f = [j \in 0..n |-> IF j = 0 THEN IV ELSE v(f[j - 1], j)]
    BY <2>1 DEF ChainLoop
  <2> HIDE DEF v
  <2> DEFINE g == [j \in 0 .. n + 1 |-> IF j \in 0..n THEN f[j] ELSE v(f[n], n + 1)]
             h == [j \in 0 .. n + 1 |-> IF j = 0 THEN IV ELSE v(g[j - 1], j)]
  <2>3. ASSUME NEW j \in 0 .. n + 1 PROVE g[j] = h[j]
    <3>1. \A i \in 0..n : g[i] = f[i]
      OBVIOUS
    <3>2. h[j] = IF j = 0 THEN IV ELSE v(g[j - 1], j)
      OBVIOUS
    <3>3. g[n + 1] = v(f[n], n + 1)
      OBVIOUS
    <3>4. \A i \in 0..n : f[i] = IF i = 0 THEN IV ELSE v(f[i - 1], i)
      BY <2>2
    <3> HIDE DEF g, h
    <3>5. CASE j = 0
      BY <3>1, <3>2, <3>4, <3>5
    <3>6. CASE j \in 1..n
      <4>1. j # 0 /\ j - 1 \in 0..n /\ j \in 0..n
        BY <3>6
      <4>2. g[j - 1] = f[j - 1] /\ g[j] = f[j]
        BY <3>1, <4>1
      <4> QED
        BY <3>2, <3>4, <4>1, <4>2
    <3>7. CASE j = n + 1
      <4>1. j # 0 /\ j - 1 = n /\ n \in 0..n
        BY <3>7
      <4> QED
        BY <3>1, <3>2, <3>3, <3>7, <4>1
    <3> QED
      BY <3>5, <3>6, <3>7
  <2>4. g = h
    <3>1. g = [j \in 0 .. n + 1 |-> g[j]] /\ h = [j \in 0 .. n + 1 |-> h[j]]
      OBVIOUS
    <3> HIDE DEF g, h
    <3> QED
      BY <2>3, <3>1
  <2>5. ChainLoop(fl, bytes, counter, n + 1, g)
    <3> HIDE DEF g
    <3> QED
      BY <2>4 DEF ChainLoop, v
  <2> QED
    BY <2>5
<1> HIDE DEF S
<1>3. Nat \subseteq S
  BY <1>1, <1>2, Induction
<1> QED
  BY <1>3 DEF S

\* A chain says how long it is: only its beginning is IV.
LEMMA ChainsEqual ==
  ASSUME NEW fl \in ModeFlags, NEW x, NEW y, NEW u, NEW w,
         NEW k \in Nat, NEW m \in Nat, NEW f, NEW g,
         ChainLoop(fl, x, u, k, f), ChainLoop(fl, y, w, m, g), f[k] = g[m]
  PROVE  k = m /\ \A i \in 0 .. k - 1 : BlockAt(x, i) = BlockAt(y, i)
<1> DEFINE S == {n \in Nat : \A j \in 0..m : n <= k /\ f[n] = g[j] =>
                   n = j /\ \A i \in 0 .. n - 1 : BlockAt(x, i) = BlockAt(y, i)}
<1>1. \A i \in 0..k : f[i] = IF i = 0 THEN IV
         ELSE Compress(f[i - 1], BlockAt(x, i - 1), BlockLen, u, fl \cup StartFlag(i - 1))
  BY DEF ChainLoop
<1>2. \A i \in 0..m : g[i] = IF i = 0 THEN IV
         ELSE Compress(g[i - 1], BlockAt(y, i - 1), BlockLen, w, fl \cup StartFlag(i - 1))
  BY DEF ChainLoop
<1>3. ASSUME NEW c, NEW b, NEW l, NEW n, NEW i PROVE Compress(c, b, l, n, fl \cup StartFlag(i)) # IV
  <2>1. "IV" \notin fl \cup StartFlag(i)
    BY DEF ModeFlags, StartFlag
  <2> QED
    BY <2>1, CompressFields DEF IV
<1>4. 0 \in S
  <2> SUFFICES ASSUME NEW j \in 0..m, f[0] = g[j]
               PROVE  0 = j /\ \A i \in 0 .. 0 - 1 : BlockAt(x, i) = BlockAt(y, i)
    OBVIOUS
  <2>1. f[0] = IV
    <3>1. 0 \in 0..k
      OBVIOUS
    <3> QED
      BY <1>1, <3>1
  <2>2. ASSUME j # 0 PROVE FALSE
    <3>1. g[j] = Compress(g[j - 1], BlockAt(y, j - 1), BlockLen, w, fl \cup StartFlag(j - 1))
      BY <1>2, <2>2
    <3>2. g[j] # IV
      BY <1>3, <3>1
    <3> QED
      BY <2>1, <3>2
  <2>3. 0 .. 0 - 1 = {}
    OBVIOUS
  <2> QED
    BY <2>2, <2>3
<1>5. ASSUME NEW n \in Nat, n \in S PROVE n + 1 \in S
  <2> SUFFICES ASSUME NEW j \in 0..m, n + 1 <= k, f[n + 1] = g[j]
               PROVE  n + 1 = j /\ \A i \in 0 .. (n + 1) - 1 : BlockAt(x, i) = BlockAt(y, i)
    OBVIOUS
  <2>1. n + 1 \in 0..k /\ n + 1 # 0 /\ (n + 1) - 1 = n /\ n <= k
    OBVIOUS
  <2>2. f[n + 1] = Compress(f[n], BlockAt(x, n), BlockLen, u, fl \cup StartFlag(n))
    BY <1>1, <2>1
  <2>3. j # 0
    BY <1>2, <1>3, <2>2
  <2>4. g[j] = Compress(g[j - 1], BlockAt(y, j - 1), BlockLen, w, fl \cup StartFlag(j - 1))
    BY <1>2, <2>3
  <2>5. f[n] = g[j - 1] /\ BlockAt(x, n) = BlockAt(y, j - 1)
    <3>1. f[n + 1].cv = f[n] /\ f[n + 1].block = BlockAt(x, n)
      BY <2>2, CompressFields
    <3>2. g[j].cv = g[j - 1] /\ g[j].block = BlockAt(y, j - 1)
      BY <2>4, CompressFields
    <3> QED
      BY <3>1, <3>2
  <2>6. j - 1 \in 0..m
    BY <2>3
  <2>7. n = j - 1 /\ \A i \in 0 .. n - 1 : BlockAt(x, i) = BlockAt(y, i)
    BY <1>5, <2>1, <2>5, <2>6
  <2>8. \A i \in 0 .. (n + 1) - 1 : i = n \/ i \in 0 .. n - 1
    OBVIOUS
  <2> HIDE DEF S
  <2> QED
    BY <2>5, <2>7, <2>8
<1> HIDE DEF S
<1>6. Nat \subseteq S
  BY <1>4, <1>5, Induction
<1> QED
  BY <1>6 DEF S

-----------------------------------------------------------------------------
LEMMA DivBounds ==
  ASSUME NEW a \in Nat, NEW d \in Nat \ {0}
  PROVE  /\ a \div d \in Nat
         /\ (a \div d) * d \in Nat
         /\ (a \div d) * d <= a /\ a < (a \div d) * d + d
         /\ (a \div d + 1) * d = (a \div d) * d + d
  OBVIOUS

LEMMA DivMonotonic ==
  ASSUME NEW a \in Nat, NEW b \in Nat, NEW d \in Nat \ {0}, a <= b
  PROVE  a \div d <= b \div d
<1> DEFINE q == a \div d
           r == b \div d
<1>1. /\ q \in Nat /\ r \in Nat /\ q * d <= a /\ b < r * d + d /\ q * d \in Nat /\ r * d \in Nat
  BY DivBounds
<1> HIDE DEF q, r
<1>2. ASSUME q > r PROVE FALSE
  <2>1. PICK e \in Nat : q = r + 1 + e
    <3>1. q = r + 1 + (q - r - 1) /\ q - r - 1 \in Nat
      BY <1>1, <1>2
    <3> QED
      BY <3>1
  <2>2. q * d = r * d + d + e * d /\ e * d \in Nat
    BY <1>1, <2>1
  <2> QED
    BY <1>1, <2>2
<1>3. q <= r
  BY <1>1, <1>2
<1> QED
  BY <1>3 DEF q, r

\* Where a byte of a chunk is among its blocks.
LEMMA ByteInBlock ==
  ASSUME NEW x \in Seq(Nat), NEW i \in 1..Len(x)
  PROVE  LET n == (i - 1) \div BlockLen
         IN  /\ n \in 0..BlocksCompressed(Len(x))
             /\ x[i] = BlockAt(x, n)[i - n * BlockLen]
<1> DEFINE n == (i - 1) \div BlockLen
           p == n * BlockLen
           e == IF (n + 1) * BlockLen < Len(x) THEN (n + 1) * BlockLen ELSE Len(x)
<1>1. Len(x) \in Nat /\ Len(x) # 0 /\ i - 1 \in Nat /\ Len(x) - 1 \in Nat /\ i - 1 <= Len(x) - 1
  OBVIOUS
<1>2. BlockLen \in Nat \ {0}
  BY LengthsAssumption
<1>3. /\ n \in Nat /\ p \in Nat /\ p <= i - 1 /\ i - 1 < p + BlockLen
      /\ (n + 1) * BlockLen = p + BlockLen
  BY <1>1, <1>2, DivBounds
<1>4. n \in 0..BlocksCompressed(Len(x))
  <2>1. n <= (Len(x) - 1) \div BlockLen
    BY <1>1, <1>2, DivMonotonic
  <2>2. BlocksCompressed(Len(x)) = (Len(x) - 1) \div BlockLen
    BY <1>1 DEF BlocksCompressed
  <2>3. (Len(x) - 1) \div BlockLen \in Nat
    BY <1>1, <1>2
  <2> HIDE DEF n
  <2> QED
    BY <1>3, <2>1, <2>2, <2>3
<1>5. BlockAt(x, n) = SubSeq(x, p + 1, e)
  BY DEF BlockAt
<1>6. e \in Nat /\ e <= Len(x) /\ i <= e
  <2> HIDE DEF n, p
  <2> QED
    BY <1>1, <1>2, <1>3
<1> HIDE DEF n, p, e
<1>7. SubSeq(x, p + 1, e)[i - p] = x[i]
  <2>1. i \in p + 1 .. e
    BY <1>3, <1>6
  <2> QED
    BY <1>3, <1>6, <2>1, StretchEntry
<1>8. x[i] = BlockAt(x, n)[i - p]
  BY <1>5, <1>7
<1> QED
  BY <1>4, <1>8 DEF n, p

\* A chunk's chaining value says what the bytes of the chunk are, and which one
\* it is.
LEMMA ChunkInjective ==
  ASSUME NEW fl \in ModeFlags, NEW x \in Seq(Nat), NEW y \in Seq(Nat), NEW u, NEW w,
         ChunkIn(fl, x, u) = ChunkIn(fl, y, w)
  PROVE  x = y /\ u = w
<1> DEFINE k == BlocksCompressed(Len(x))
           m == BlocksCompressed(Len(y))
           f == CHOOSE c : ChainLoop(fl, x, u, k, c)
           g == CHOOSE c : ChainLoop(fl, y, w, m, c)
<1>1. k \in Nat /\ m \in Nat
  <2>1. ASSUME NEW n \in Nat PROVE BlocksCompressed(n) \in Nat
    <3>1. CASE n = 0
      BY <3>1 DEF BlocksCompressed
    <3>2. CASE n # 0
      <4>1. n - 1 \in Nat
        BY <3>2
      <4> QED
        BY <3>2, <4>1, LengthsAssumption DEF BlocksCompressed
    <3> QED
      BY <3>1, <3>2
  <2> QED
    BY <2>1
<1>2. ChainLoop(fl, x, u, k, f)
  BY <1>1, ChainExists
<1>3. ChainLoop(fl, y, w, m, g)
  BY <1>1, ChainExists
<1>4. ChunkIn(fl, x, u) = Compress(f[k], BlockAt(x, k), Len(x) - k * BlockLen, u,
                                   fl \cup StartFlag(k) \cup {"CHUNK_END"})
  BY DEF ChunkIn, ChainLoop
<1>5. ChunkIn(fl, y, w) = Compress(g[m], BlockAt(y, m), Len(y) - m * BlockLen, w,
                                   fl \cup StartFlag(m) \cup {"CHUNK_END"})
  BY DEF ChunkIn, ChainLoop
<1> HIDE DEF f, g
<1>6. /\ f[k] = g[m] /\ BlockAt(x, k) = BlockAt(y, m)
      /\ Len(x) - k * BlockLen = Len(y) - m * BlockLen /\ u = w
  <2> DEFINE a == ChunkIn(fl, x, u)
             b == ChunkIn(fl, y, w)
  <2> HIDE DEF k, m
  <2>1. /\ a.cv = f[k] /\ a.block = BlockAt(x, k) /\ a.len = Len(x) - k * BlockLen
        /\ a.counter = u
    BY <1>4, CompressFields
  <2>2. /\ b.cv = g[m] /\ b.block = BlockAt(y, m) /\ b.len = Len(y) - m * BlockLen
        /\ b.counter = w
    BY <1>5, CompressFields
  <2>3. a = b
    OBVIOUS
  <2> HIDE DEF a, b
  <2> QED
    BY <2>1, <2>2, <2>3
<1>7. k = m /\ \A i \in 0 .. k - 1 : BlockAt(x, i) = BlockAt(y, i)
  <2> HIDE DEF k, m
  <2> QED
    BY <1>1, <1>2, <1>3, <1>6, ChainsEqual
<1>8. Len(x) = Len(y)
  <2> DEFINE p == k * BlockLen
  <2>1. Len(x) - p = Len(y) - p
    BY <1>6, <1>7
  <2>2. p \in Nat
    BY <1>1, LengthsAssumption
  <2> HIDE DEF p
  <2> QED
    BY <2>1, <2>2
<1>9. \A i \in 0..k : BlockAt(x, i) = BlockAt(y, i)
  <2> HIDE DEF k, m
  <2>1. \A i \in 0..k : i = k \/ i \in 0 .. k - 1
    BY <1>1
  <2> QED
    BY <1>6, <1>7, <2>1
<1>10. ASSUME NEW i \in 1..Len(x) PROVE x[i] = y[i]
  <2> DEFINE n == (i - 1) \div BlockLen
  <2>1. n \in 0..k /\ x[i] = BlockAt(x, n)[i - n * BlockLen]
    BY ByteInBlock
  <2>2. y[i] = BlockAt(y, n)[i - n * BlockLen]
    BY <1>8, ByteInBlock
  <2> HIDE DEF n, k
  <2> QED
    BY <1>9, <2>1, <2>2
<1> QED
  BY <1>6, <1>8, <1>10, SeqEqual
-----------------------------------------------------------------------------
LEMMA ParentInjective ==
  ASSUME NEW fl, NEW a, NEW b, NEW c, NEW d, ParentIn(fl, a, b) = ParentIn(fl, c, d)
  PROVE  a = c /\ b = d
<1> DEFINE p == ParentIn(fl, a, b)
           q == ParentIn(fl, c, d)
<1>1. p.block = <<a, b>> /\ q.block = <<c, d>>
  BY CompressFields DEF ParentIn
<1>2. p = q
  OBVIOUS
<1> HIDE DEF p, q
<1>3. <<a, b>> = <<c, d>>
  BY <1>1, <1>2
<1> QED
  BY <1>3

\* The flags tell a parent from a chunk.
LEMMA ParentIsNoChunk ==
  ASSUME NEW fl \in ModeFlags, NEW a, NEW b, NEW x, NEW u
  PROVE  ParentIn(fl, a, b) # ChunkIn(fl, x, u)
<1> DEFINE p == ParentIn(fl, a, b)
           q == ChunkIn(fl, x, u)
<1>1. "PARENT" \in p.flags
  BY CompressFields DEF ParentIn
<1>2. "PARENT" \notin q.flags
  <2>1. \A k : "PARENT" \notin fl \cup StartFlag(k) \cup {"CHUNK_END"}
    BY DEF ModeFlags, StartFlag
  <2> QED
    BY <2>1, CompressFields DEF ChunkIn
<1> HIDE DEF p, q
<1>3. p # q
  BY <1>1, <1>2
<1> QED
  BY <1>3 DEF p, q

LEMMA PairsAreParents ==
  ASSUME NEW fl, NEW all, NEW k \in Nat
  PROVE  \E a, b : PairsIn(fl, all, k) = ParentIn(fl, a, b)
<1>1. CASE k = 0
  BY <1>1, PairsAt DEF PairIn
<1>2. CASE k # 0
  <2> DEFINE m == k - 1
  <2>1. m \in Nat /\ m + 1 = k
    BY <1>2
  <2> HIDE DEF m
  <2>2. PairsIn(fl, all, m + 1) = ParentIn(fl, PairsIn(fl, all, m), PairIn(fl, all, m + 1))
    BY <2>1, PairsAt
  <2> QED
    BY <2>1, <2>2
<1> QED
  BY <1>1, <1>2

LEMMA PairsInjective ==
  ASSUME NEW fl, NEW a, NEW b, NEW k \in Nat, PairsIn(fl, a, k) = PairsIn(fl, b, k)
  PROVE  \A j \in 0..k : PairIn(fl, a, j) = PairIn(fl, b, j)
<1> DEFINE S == {n \in Nat : PairsIn(fl, a, n) = PairsIn(fl, b, n) =>
                               \A j \in 0..n : PairIn(fl, a, j) = PairIn(fl, b, j)}
<1>1. 0 \in S
  <2>1. \A j \in 0..0 : j = 0
    OBVIOUS
  <2> QED
    BY <2>1, PairsAt
<1>2. ASSUME NEW n \in Nat, n \in S PROVE n + 1 \in S
  <2> SUFFICES ASSUME PairsIn(fl, a, n + 1) = PairsIn(fl, b, n + 1)
               PROVE  \A j \in 0 .. n + 1 : PairIn(fl, a, j) = PairIn(fl, b, j)
    OBVIOUS
  <2>1. /\ PairsIn(fl, a, n + 1) = ParentIn(fl, PairsIn(fl, a, n), PairIn(fl, a, n + 1))
        /\ PairsIn(fl, b, n + 1) = ParentIn(fl, PairsIn(fl, b, n), PairIn(fl, b, n + 1))
    BY PairsAt
  <2>2. /\ PairsIn(fl, a, n) = PairsIn(fl, b, n)
        /\ PairIn(fl, a, n + 1) = PairIn(fl, b, n + 1)
    BY <2>1, ParentInjective
  <2>3. \A j \in 0 .. n + 1 : j = n + 1 \/ j \in 0..n
    OBVIOUS
  <2> QED
    BY <1>2, <2>2, <2>3
<1> HIDE DEF S
<1>3. Nat \subseteq S
  BY <1>1, <1>2, Induction
<1> QED
  BY <1>3 DEF S

LEMMA TreeCases ==
  ASSUME NEW fl, NEW all, NEW w \in Nat
  PROVE  /\ w = 0 => TreeIn(fl, all, w) = LastIn(fl, all, w)
         /\ w = 1 => TreeIn(fl, all, w)
                       = ParentIn(fl, LeafIn(fl, all, 0), LastIn(fl, all, w))
         /\ w > 1 /\ w % 2 = 0 =>
              TreeIn(fl, all, w)
                = ParentIn(fl, PairsIn(fl, all, w \div 2 - 1), LastIn(fl, all, w))
         /\ w > 1 /\ w % 2 = 1 =>
              TreeIn(fl, all, w)
                = ParentIn(fl, PairsIn(fl, all, w \div 2 - 1),
                           ParentIn(fl, LeafIn(fl, all, w - 1), LastIn(fl, all, w)))
<1>1. CASE w = 0
  BY <1>1 DEF TreeIn, LoneIn
<1>2. CASE w = 1
  BY <1>2 DEF TreeIn, LoneIn
<1>3. CASE w > 1
  BY <1>3 DEF TreeIn, LoneIn
<1> QED
  BY <1>1, <1>2, <1>3

\* What a tree is made of, and that it says which of the four it is.
LEMMA TreeShape ==
  ASSUME NEW fl \in ModeFlags, NEW a \in Seq(Nat), NEW b \in Seq(Nat),
         NEW w \in Nat, NEW v \in Nat, TreeIn(fl, a, w) = TreeIn(fl, b, v)
  PROVE  /\ LastIn(fl, a, w) = LastIn(fl, b, v)
         /\ w = 0 <=> v = 0
         /\ w = 1 <=> v = 1
         /\ w > 1 /\ w % 2 = 1 <=> v > 1 /\ v % 2 = 1
         /\ w = 1 => LeafIn(fl, a, 0) = LeafIn(fl, b, 0)
         /\ w > 1 => PairsIn(fl, a, w \div 2 - 1) = PairsIn(fl, b, v \div 2 - 1)
         /\ w > 1 /\ w % 2 = 1 => LeafIn(fl, a, w - 1) = LeafIn(fl, b, v - 1)
<1> DEFINE Even(n) == n > 1 /\ n % 2 = 0
           Odd(n) == n > 1 /\ n % 2 = 1
           Chunk(r) == \E x, u : r = ChunkIn(fl, x, u)
           Parent(r) == \E x, y : r = ParentIn(fl, x, y)
<1>1. \A r : ~(Chunk(r) /\ Parent(r))
  BY ParentIsNoChunk
<1>2. \A n \in Nat : n = 0 \/ n = 1 \/ Even(n) \/ Odd(n)
  OBVIOUS
<1>3. \A n \in Nat : Even(n) \/ Odd(n) => n \div 2 - 1 \in Nat
  OBVIOUS
<1>4. \A all, n : Chunk(LastIn(fl, all, n)) /\ Chunk(LeafIn(fl, all, n))
  BY DEF LastIn, LeafIn
<1>5. \A all : \A n \in Nat : Even(n) \/ Odd(n) => Parent(PairsIn(fl, all, n \div 2 - 1))
  BY <1>3, PairsAreParents
<1>6. \A x, y : Parent(ParentIn(fl, x, y))
  OBVIOUS
<1>7. CASE w = 0
  <2>1. Chunk(TreeIn(fl, b, v))
    BY <1>4, <1>7, TreeCases
  <2>2. v # 0 => Parent(TreeIn(fl, b, v))
    <3> HIDE DEF Parent
    <3>1. v = 1 => Parent(TreeIn(fl, b, v))
      BY <1>6, TreeCases
    <3>2. Even(v) => Parent(TreeIn(fl, b, v))
      BY <1>6, TreeCases
    <3>3. Odd(v) => Parent(TreeIn(fl, b, v))
      BY <1>6, TreeCases
    <3> QED
      BY <1>2, <3>1, <3>2, <3>3
  <2>3. v = 0
    BY <1>1, <2>1, <2>2
  <2> QED
    BY <1>7, <2>3, TreeCases
<1>8. CASE w = 1
  <2>1. TreeIn(fl, b, v) = ParentIn(fl, LeafIn(fl, a, 0), LastIn(fl, a, w))
    BY <1>8, TreeCases
  <2>2. v # 0
    <3>1. v = 0 => Chunk(TreeIn(fl, b, v))
      BY <1>4, TreeCases
    <3> QED
      BY <1>1, <2>1, <3>1
  <2>3. ~ Even(v) /\ ~ Odd(v)
    <3> SUFFICES ASSUME Even(v) \/ Odd(v) PROVE FALSE
      OBVIOUS
    <3>1. PICK y : TreeIn(fl, b, v) = ParentIn(fl, PairsIn(fl, b, v \div 2 - 1), y)
      BY TreeCases
    <3>2. LeafIn(fl, a, 0) = PairsIn(fl, b, v \div 2 - 1)
      BY <2>1, <3>1, ParentInjective
    <3> HIDE DEF Chunk, Parent, Even, Odd
    <3>3. Parent(PairsIn(fl, b, v \div 2 - 1))
      BY <1>5
    <3> QED
      BY <1>1, <1>4, <3>2, <3>3
  <2>4. v = 1
    BY <1>2, <2>2, <2>3
  <2>5. TreeIn(fl, b, v) = ParentIn(fl, LeafIn(fl, b, 0), LastIn(fl, b, v))
    BY <2>4, TreeCases
  <2>6. LeafIn(fl, a, 0) = LeafIn(fl, b, 0) /\ LastIn(fl, a, w) = LastIn(fl, b, v)
    BY <2>1, <2>5, ParentInjective
  <2> QED
    BY <1>8, <2>4, <2>6
<1>9. ASSUME Even(w) \/ Odd(w) PROVE Even(v) \/ Odd(v)
  <2>1. PICK y : TreeIn(fl, b, v) = ParentIn(fl, PairsIn(fl, a, w \div 2 - 1), y)
    BY <1>9, TreeCases
  <2>2. v # 0
    <3>1. v = 0 => Chunk(TreeIn(fl, b, v))
      BY <1>4, TreeCases
    <3> QED
      BY <1>1, <2>1, <3>1
  <2>3. v # 1
    <3> SUFFICES ASSUME v = 1 PROVE FALSE
      OBVIOUS
    <3>1. TreeIn(fl, b, v) = ParentIn(fl, LeafIn(fl, b, 0), LastIn(fl, b, v))
      BY TreeCases
    <3>2. LeafIn(fl, b, 0) = PairsIn(fl, a, w \div 2 - 1)
      BY <2>1, <3>1, ParentInjective
    <3> HIDE DEF Chunk, Parent, Even, Odd
    <3>3. Parent(PairsIn(fl, a, w \div 2 - 1))
      BY <1>5, <1>9
    <3> QED
      BY <1>1, <1>4, <3>2, <3>3
  <2> QED
    BY <1>2, <2>2, <2>3
<1>10. CASE Even(w)
  <2>1. TreeIn(fl, b, v) = ParentIn(fl, PairsIn(fl, a, w \div 2 - 1), LastIn(fl, a, w))
    BY <1>10, TreeCases
  <2>2. ~ Odd(v)
    <3> SUFFICES ASSUME Odd(v) PROVE FALSE
      OBVIOUS
    <3>1. TreeIn(fl, b, v)
            = ParentIn(fl, PairsIn(fl, b, v \div 2 - 1),
                       ParentIn(fl, LeafIn(fl, b, v - 1), LastIn(fl, b, v)))
      BY TreeCases
    <3>2. LastIn(fl, a, w) = ParentIn(fl, LeafIn(fl, b, v - 1), LastIn(fl, b, v))
      BY <2>1, <3>1, ParentInjective
    <3> QED
      BY <1>1, <1>4, <3>2
  <2>3. Even(v)
    BY <1>9, <1>10, <2>2
  <2>4. TreeIn(fl, b, v) = ParentIn(fl, PairsIn(fl, b, v \div 2 - 1), LastIn(fl, b, v))
    BY <2>3, TreeCases
  <2>5. /\ PairsIn(fl, a, w \div 2 - 1) = PairsIn(fl, b, v \div 2 - 1)
        /\ LastIn(fl, a, w) = LastIn(fl, b, v)
    BY <2>1, <2>4, ParentInjective
  <2> QED
    BY <1>10, <2>3, <2>5
<1>11. CASE Odd(w)
  <2>1. TreeIn(fl, b, v)
          = ParentIn(fl, PairsIn(fl, a, w \div 2 - 1),
                     ParentIn(fl, LeafIn(fl, a, w - 1), LastIn(fl, a, w)))
    BY <1>11, TreeCases
  <2>2. ~ Even(v)
    <3> SUFFICES ASSUME Even(v) PROVE FALSE
      OBVIOUS
    <3>1. TreeIn(fl, b, v)
            = ParentIn(fl, PairsIn(fl, b, v \div 2 - 1), LastIn(fl, b, v))
      BY TreeCases
    <3>2. LastIn(fl, b, v) = ParentIn(fl, LeafIn(fl, a, w - 1), LastIn(fl, a, w))
      BY <2>1, <3>1, ParentInjective
    <3> QED
      BY <1>1, <1>4, <3>2
  <2>3. Odd(v)
    BY <1>9, <1>11, <2>2
  <2>4. TreeIn(fl, b, v)
          = ParentIn(fl, PairsIn(fl, b, v \div 2 - 1),
                     ParentIn(fl, LeafIn(fl, b, v - 1), LastIn(fl, b, v)))
    BY <2>3, TreeCases
  <2>5. /\ PairsIn(fl, a, w \div 2 - 1) = PairsIn(fl, b, v \div 2 - 1)
        /\ ParentIn(fl, LeafIn(fl, a, w - 1), LastIn(fl, a, w))
             = ParentIn(fl, LeafIn(fl, b, v - 1), LastIn(fl, b, v))
    BY <2>1, <2>4, ParentInjective
  <2>6. LeafIn(fl, a, w - 1) = LeafIn(fl, b, v - 1) /\ LastIn(fl, a, w) = LastIn(fl, b, v)
    BY <2>5, ParentInjective
  <2> QED
    BY <1>11, <2>3, <2>5, <2>6
<1> QED
  BY <1>2, <1>7, <1>8, <1>10, <1>11

\* The stretches a tree is computed from.
LEMMA TreeInjective ==
  ASSUME NEW fl \in ModeFlags, NEW a \in Seq(Nat), NEW b \in Seq(Nat),
         NEW w \in Nat, NEW v \in Nat, TreeIn(fl, a, w) = TreeIn(fl, b, v),
         w * ChunkLen <= Len(a), v * ChunkLen <= Len(b)
  PROVE  /\ w = v
         /\ RestIn(a, w) = RestIn(b, w)
         /\ \A n \in 0 .. w - 1 : LeafIn(fl, a, n) = LeafIn(fl, b, n)
<1>1. LastIn(fl, a, w) = LastIn(fl, b, v)
  BY TreeShape
<1>2. ASSUME NEW s \in Seq(Nat), NEW n \in Nat, n * ChunkLen <= Len(s)
      PROVE  RestIn(s, n) \in Seq(Nat)
  <2> DEFINE p == n * ChunkLen
  <2>1. p \in Nat /\ Len(s) \in Nat
    BY LengthsAssumption
  <2> HIDE DEF p
  <2>2. SubSeq(s, p + 1, Len(s)) \in Seq(Nat)
    BY <2>1
  <2> QED
    BY <2>2 DEF p, RestIn
<1>3. w = v /\ RestIn(a, w) = RestIn(b, v)
  <2> DEFINE x == RestIn(a, w)
             y == RestIn(b, v)
  <2>1. x \in Seq(Nat) /\ y \in Seq(Nat)
    BY <1>2
  <2>2. ChunkIn(fl, x, w) = ChunkIn(fl, y, v)
    BY <1>1 DEF LastIn
  <2> HIDE DEF x, y
  <2>3. x = y /\ w = v
    BY <2>1, <2>2, ChunkInjective
  <2> QED
    BY <2>3 DEF x, y
<1>4. ASSUME NEW n \in 0 .. w - 1 PROVE LeafIn(fl, a, n) = LeafIn(fl, b, n)
  <2>1. CASE w = 1
    <3>1. n = 0
      BY <2>1
    <3> QED
      BY <2>1, <3>1, TreeShape
  <2>2. CASE w > 1 /\ w % 2 = 1 /\ n = w - 1
    BY <1>3, <2>2, TreeShape
  <2>3. CASE w > 1 /\ ~(w % 2 = 1 /\ n = w - 1)
    <3> DEFINE k == w \div 2 - 1
               j == n \div 2
    <3>1. k \in Nat /\ j \in 0..k /\ (n = 2 * j \/ n = 2 * j + 1)
      BY <2>3
    <3>2. PairsIn(fl, a, k) = PairsIn(fl, b, k)
      <4>1. PairsIn(fl, a, w \div 2 - 1) = PairsIn(fl, b, v \div 2 - 1)
        BY <2>3, TreeShape
      <4> QED
        BY <1>3, <4>1
    <3> HIDE DEF k, j
    <3>3. PairIn(fl, a, j) = PairIn(fl, b, j)
      BY <3>1, <3>2, PairsInjective
    <3>4. /\ LeafIn(fl, a, 2 * j) = LeafIn(fl, b, 2 * j)
          /\ LeafIn(fl, a, 2 * j + 1) = LeafIn(fl, b, 2 * j + 1)
      BY <3>3, ParentInjective DEF PairIn
    <3> QED
      BY <3>1, <3>4
  <2> QED
    BY <2>1, <2>2, <2>3
<1> QED
  BY <1>3, <1>4

LEMMA WholeFacts ==
  ASSUME NEW s \in Seq(Nat)
  PROVE  /\ WholeIn(s) \in Nat
         /\ WholeIn(s) * ChunkLen \in Nat
         /\ WholeIn(s) * ChunkLen <= Len(s)
         /\ \A i \in 1..Len(s) : (i - 1) \div ChunkLen \in 0..WholeIn(s)
<1> DEFINE d == Len(s)
<1>1. d \in Nat /\ ChunkLen \in Nat \ {0}
  BY LengthsAssumption
<1>2. CASE d = 0
  BY <1>1, <1>2 DEF WholeIn
<1>3. CASE d # 0
  <2>1. d - 1 \in Nat /\ WholeIn(s) = (d - 1) \div ChunkLen
    BY <1>1, <1>3 DEF WholeIn
  <2> HIDE DEF d
  <2> DEFINE w == (d - 1) \div ChunkLen
  <2>2. w \in Nat /\ w * ChunkLen \in Nat /\ w * ChunkLen <= d - 1
    BY <1>1, <2>1, DivBounds
  <2>3. ASSUME NEW i \in 1..d PROVE (i - 1) \div ChunkLen \in 0..w
    <3>1. i - 1 \in Nat /\ i - 1 <= d - 1
      BY <1>1
    <3>2. (i - 1) \div ChunkLen <= w /\ (i - 1) \div ChunkLen \in Nat
      BY <1>1, <2>1, <3>1, DivMonotonic, DivBounds
    <3> HIDE DEF w
    <3> QED
      BY <2>2, <3>2
  <2>4. w * ChunkLen <= d
    <3> DEFINE p == w * ChunkLen
    <3>1. p \in Nat /\ p <= d - 1
      BY <2>2
    <3> HIDE DEF p
    <3>2. p <= d
      BY <1>1, <3>1
    <3> QED
      BY <3>2 DEF p
  <2> QED
    BY <2>1, <2>2, <2>3, <2>4 DEF d
<1> QED
  BY <1>2, <1>3

\* Two digests of bytes taken at once are equal only when the bytes are, and both
\* hashers are keyed or neither: the counters, the flags and the order of the
\* merges tell the trees apart (chunk_state_output, parent_cv and
\* blake3_hasher_finalize, src/src/blake3.c).
THEOREM OneShotCommits ==
  ASSUME NEW fl \in ModeFlags, NEW gl \in ModeFlags,
         NEW a \in Seq(Nat), NEW b \in Seq(Nat), OneShotIn(fl, a) = OneShotIn(gl, b)
  PROVE  fl = gl /\ a = b
<1> DEFINE w == WholeIn(a)
           v == WholeIn(b)
<1>1. fl = gl /\ TreeIn(fl, a, w) = TreeIn(gl, b, v)
  <2> DEFINE x == OneShotIn(fl, a)
             y == OneShotIn(gl, b)
  <2>1. /\ x.flags = fl \cup {"ROOT"} /\ x.block = <<TreeIn(fl, a, w)>>
        /\ y.flags = gl \cup {"ROOT"} /\ y.block = <<TreeIn(gl, b, v)>>
    BY CompressFields DEF OneShotIn, RootIn
  <2>2. x = y
    OBVIOUS
  <2> HIDE DEF x, y, w, v
  <2>3. fl \cup {"ROOT"} = gl \cup {"ROOT"} /\ <<TreeIn(fl, a, w)>> = <<TreeIn(gl, b, v)>>
    BY <2>1, <2>2
  <2>4. fl = gl
    <3>1. "KEYED_HASH" \in fl <=> "KEYED_HASH" \in gl
      BY <2>3
    <3> QED
      BY <3>1 DEF ModeFlags
  <2> QED
    BY <2>3, <2>4
<1>2. w \in Nat /\ v \in Nat /\ w * ChunkLen \in Nat /\ w * ChunkLen <= Len(a)
      /\ v * ChunkLen <= Len(b)
  BY WholeFacts
<1>3. /\ w = v
      /\ RestIn(a, w) = RestIn(b, w)
      /\ \A n \in 0 .. w - 1 : LeafIn(fl, a, n) = LeafIn(fl, b, n)
  <2>1. TreeIn(fl, a, w) = TreeIn(fl, b, v)
    BY <1>1
  <2> HIDE DEF w, v
  <2>2. w = v
    BY <1>2, <2>1, TreeInjective
  <2>3. RestIn(a, w) = RestIn(b, w)
    BY <1>2, <2>1, TreeInjective
  <2>4. ASSUME NEW n \in 0 .. w - 1 PROVE LeafIn(fl, a, n) = LeafIn(fl, b, n)
    BY <1>2, <2>1, TreeInjective
  <2> QED
    BY <2>2, <2>3, <2>4
<1> DEFINE p == w * ChunkLen
<1>4. Len(a) = Len(b)
  <2> DEFINE x == SubSeq(a, p + 1, Len(a))
             y == SubSeq(b, p + 1, Len(b))
  <2>1. p \in Nat /\ p <= Len(a) /\ p <= Len(b) /\ x = y /\ Len(a) \in Nat /\ Len(b) \in Nat
    <3>1. Len(a) \in Nat /\ Len(b) \in Nat
      OBVIOUS
    <3> HIDE DEF w, v
    <3>2. p \in Nat /\ p <= Len(a) /\ p <= Len(b)
      BY <1>2, <1>3
    <3>3. x = y
      BY <1>3 DEF RestIn
    <3> QED
      BY <3>1, <3>2, <3>3
  <2> HIDE DEF p
  <2>2. Len(x) = Len(a) - p /\ Len(y) = Len(b) - p
    BY <2>1
  <2> HIDE DEF x, y
  <2> QED
    BY <2>1, <2>2
<1>5. ASSUME NEW i \in 1..Len(a) PROVE a[i] = b[i]
  <2> DEFINE n == (i - 1) \div ChunkLen
             m == n * ChunkLen
  <2>1. n \in 0..w
    BY WholeFacts
  <2>2. /\ n \in Nat /\ m \in Nat /\ m <= i - 1 /\ i - 1 < m + ChunkLen
        /\ (n + 1) * ChunkLen = m + ChunkLen
    <3>1. i - 1 \in Nat /\ ChunkLen \in Nat \ {0}
      BY LengthsAssumption
    <3> DEFINE q == i - 1
    <3>2. /\ q \div ChunkLen \in Nat /\ (q \div ChunkLen) * ChunkLen \in Nat
          /\ (q \div ChunkLen) * ChunkLen <= q
          /\ q < (q \div ChunkLen) * ChunkLen + ChunkLen
          /\ (q \div ChunkLen + 1) * ChunkLen = (q \div ChunkLen) * ChunkLen + ChunkLen
      <4> HIDE DEF q
      <4>1. q \in Nat
        BY <3>1 DEF q
      <4> QED
        BY <3>1, <4>1, DivBounds
    <3> QED
      BY <3>2
  <2>3. Len(a) \in Nat /\ Len(b) \in Nat /\ ChunkLen \in Nat
    BY LengthsAssumption
  <2>4. CASE n = w
    <3>1. m = p
      BY <2>4
    <3> HIDE DEF m, n, p, w
    <3>2. SubSeq(a, m + 1, Len(a)) = SubSeq(b, m + 1, Len(b))
      BY <1>3, <3>1 DEF p, RestIn
    <3>3. i \in m + 1 .. Len(a)
      BY <2>2, <2>3
    <3>4. SubSeq(a, m + 1, Len(a))[i - m] = a[i]
      <4> DEFINE e == Len(a)
      <4>1. e \in Nat /\ e <= Len(a) /\ i \in m + 1 .. e
        BY <2>3, <3>3
      <4> HIDE DEF e
      <4>2. SubSeq(a, m + 1, e)[i - m] = a[i]
        BY <2>2, <4>1, StretchEntry
      <4> QED
        BY <4>2 DEF e
    <3>5. SubSeq(b, m + 1, Len(b))[i - m] = b[i]
      <4> DEFINE e == Len(b)
      <4>1. e \in Nat /\ e <= Len(b) /\ i \in m + 1 .. e
        BY <1>4, <2>3, <3>3
      <4> HIDE DEF e
      <4>2. SubSeq(b, m + 1, e)[i - m] = b[i]
        BY <2>2, <4>1, StretchEntry
      <4> QED
        BY <4>2 DEF e
    <3> QED
      BY <3>2, <3>4, <3>5
  <2>5. CASE n # w
    <3>1. n \in 0 .. w - 1
      BY <1>2, <2>1, <2>5
    <3> DEFINE e == (n + 1) * ChunkLen
    <3>2. e \in Nat /\ e <= Len(a) /\ i <= e
      <4>1. PICK k \in Nat : w = n + 1 + k
        <5>1. w = n + 1 + (w - n - 1) /\ w - n - 1 \in Nat
          BY <1>2, <3>1
        <5> QED
          BY <5>1
      <4>2. p = e + k * ChunkLen /\ k * ChunkLen \in Nat /\ e \in Nat
        <5> HIDE DEF n, w
        <5> QED
          BY <2>2, <2>3, <4>1
      <4>3. p <= Len(a) /\ p \in Nat
        BY <1>2
      <4>4. i <= e
        <5> HIDE DEF m, n
        <5>1. e = m + ChunkLen
          BY <2>2
        <5> HIDE DEF e
        <5> QED
          BY <2>2, <2>3, <5>1
      <4>5. e <= Len(a)
        <5> DEFINE z == k * ChunkLen
        <5>1. p = e + z /\ z \in Nat /\ e \in Nat /\ p <= Len(a) /\ p \in Nat
          BY <4>2, <4>3
        <5> HIDE DEF p, e, z
        <5> QED
          BY <2>3, <5>1
      <4> QED
        BY <4>2, <4>4, <4>5
    <3>3. LeafIn(fl, a, n) = LeafIn(fl, b, n)
      BY <1>3, <3>1
    <3> DEFINE x == SubSeq(a, m + 1, e)
               y == SubSeq(b, m + 1, e)
    <3>4. ChunkIn(fl, x, n) = ChunkIn(fl, y, n)
      BY <3>3 DEF LeafIn
    <3> HIDE DEF e, m, n
    <3>5. x \in Seq(Nat) /\ y \in Seq(Nat)
      <4>1. m <= e /\ e <= Len(b)
        BY <1>4, <2>2, <2>3, <3>2
      <4> QED
        BY <2>2, <3>2, <4>1, StretchFacts
    <3>6. i \in m + 1 .. e
      BY <2>2, <2>3, <3>2
    <3>7. x[i - m] = a[i] /\ y[i - m] = b[i]
      <4>1. e <= Len(b)
        BY <1>4, <3>2
      <4> QED
        BY <2>2, <3>2, <3>6, <4>1, StretchEntry
    <3> HIDE DEF x, y
    <3>8. x = y
      BY <3>4, <3>5, ChunkInjective
    <3> QED
      BY <3>7, <3>8
  <2> QED
    BY <2>4, <2>5
<1> QED
  BY <1>1, <1>4, <1>5, SeqEqual

-----------------------------------------------------------------------------
\* What a digest decides: no other bytes have it, with or without a key.
DigestDecides ==
    pc = "idle" =>
        \A gl \in ModeFlags, other \in Seq(Nat) :
            OneShotIn(gl, other) = Digest => gl = flags /\ other = fed

LEMMA FlagsKept == Spec => [](flags \in ModeFlags)
<1>1. Init => flags \in ModeFlags
  BY DEF Init, ModeFlags
<1>2. flags \in ModeFlags /\ [Next]_vars => (flags \in ModeFlags)'
  BY DEF Next, Update, Return, CompressChunk, MergeLeft, PushCv, TakeInput, vars, hasher
<1> QED
  BY <1>1, <1>2, PTL DEF Spec

\* A digest, however its input was cut, is that of the bytes fed and of no
\* others, for any number of bytes.
THEOREM DigestsDecide == Spec => []DigestDecides
<1>1. DigestInv /\ flags \in ModeFlags => DigestDecides
  <2> SUFFICES ASSUME DigestInv, flags \in ModeFlags, pc = "idle",
                      NEW gl \in ModeFlags, NEW other \in Seq(Nat),
                      OneShotIn(gl, other) = Digest
               PROVE  gl = flags /\ other = fed
    BY DEF DigestDecides
  <2>1. fed \in Seq(Nat)
    BY Facts DEF DigestInv
  <2>2. OneShotIn(gl, other) = OneShotIn(flags, fed)
    BY IdleDigest
  <2> QED
    BY <2>1, <2>2, OneShotCommits
<1> QED
  BY <1>1, DigestInvariance, FlagsKept, PTL
=============================================================================

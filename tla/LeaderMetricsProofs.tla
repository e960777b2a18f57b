-------------------------- MODULE LeaderMetricsProofs --------------------------
(***************************************************************************)
(* The row of results.csv misses at most the last block, and none when the *)
(* leader was waiting, and the process leaves nothing in the buffer unless *)
(* a call was interrupted inside the library: for any number of blocks, of *)
(* signals and of threads.                                                 *)
(***************************************************************************)
EXTENDS LeaderMetrics, TLAPS

\* The rows after fprintf, and after the buffer was written out.
LEMMA RangeAppend ==
  ASSUME NEW S, NEW q \in Seq(S), NEW e \in S
  PROVE  Append(q, e) \in Seq(S) /\ Range(Append(q, e)) = Range(q) \cup {e}
<1>1. /\ Append(q, e) \in Seq(S)
      /\ Len(Append(q, e)) = Len(q) + 1 /\ Len(q) \in Nat
      /\ Append(q, e)[Len(q) + 1] = e
      /\ \A i \in 1..Len(q) : Append(q, e)[i] = q[i]
  OBVIOUS
<1>2. DOMAIN q = 1..Len(q) /\ DOMAIN Append(q, e) = 1 .. Len(q) + 1
  BY <1>1
<1>3. ASSUME NEW x PROVE x \in Range(Append(q, e)) <=> x \in Range(q) \cup {e}
  <2>1. x \in Range(q) <=> \E i \in 1..Len(q) : q[i] = x
    BY <1>2 DEF Range
  <2>2. x \in Range(Append(q, e)) <=> \E i \in 1 .. Len(q) + 1 : Append(q, e)[i] = x
    BY <1>2 DEF Range
  <2> QED
    BY <1>1, <2>1, <2>2
<1> QED
  BY <1>1, <1>3

LEMMA RangeConcat ==
  ASSUME NEW S, NEW p \in Seq(S), NEW q \in Seq(S)
  PROVE  p \o q \in Seq(S) /\ Range(p \o q) = Range(p) \cup Range(q)
<1>1. /\ p \o q \in Seq(S)
      /\ Len(p) \in Nat /\ Len(q) \in Nat
      /\ Len(p \o q) = Len(p) + Len(q)
      /\ \A i \in 1..Len(p) : (p \o q)[i] = p[i]
      /\ \A i \in 1..Len(q) : (p \o q)[Len(p) + i] = q[i]
  OBVIOUS
<1>2. /\ DOMAIN p = 1..Len(p) /\ DOMAIN q = 1..Len(q)
      /\ DOMAIN (p \o q) = 1 .. Len(p) + Len(q)
  BY <1>1
<1>3. ASSUME NEW x PROVE x \in Range(p \o q) <=> x \in Range(p) \/ x \in Range(q)
  <2>1. ASSUME x \in Range(p \o q) PROVE x \in Range(p) \/ x \in Range(q)
    <3>1. PICK i \in 1 .. Len(p) + Len(q) : (p \o q)[i] = x
      BY <2>1, <1>2 DEF Range
    <3>2. CASE i <= Len(p)
      BY <3>1, <3>2, <1>1, <1>2 DEF Range
    <3>3. CASE i > Len(p)
      <4>1. i - Len(p) \in 1..Len(q) /\ Len(p) + (i - Len(p)) = i
        BY <3>1, <3>3, <1>1
      <4>2. q[i - Len(p)] = x
        BY <4>1, <3>1, <1>1
      <4> QED
        BY <4>1, <4>2, <1>2 DEF Range
    <3> QED
      BY <3>1, <3>2, <3>3, <1>1
  <2>2. ASSUME x \in Range(p) PROVE x \in Range(p \o q)
    <3>1. PICK i \in 1..Len(p) : p[i] = x
      BY <2>2, <1>2 DEF Range
    <3>2. i \in 1 .. Len(p) + Len(q)
      BY <1>1
    <3> QED
      BY <3>1, <3>2, <1>1, <1>2 DEF Range
  <2>3. ASSUME x \in Range(q) PROVE x \in Range(p \o q)
    <3>1. PICK i \in 1..Len(q) : q[i] = x
      BY <2>3, <1>2 DEF Range
    <3>2. Len(p) + i \in 1 .. Len(p) + Len(q)
      BY <1>1
    <3> QED
      BY <3>1, <3>2, <1>1, <1>2 DEF Range
  <2> QED
    BY <2>1, <2>2, <2>3
<1> QED
  BY <1>1, <1>3

LEMMA RangeEmpty == Range(<<>>) = {}
BY DEF Range

\* The last row of the buffer is marked whole, and nothing else changes.
LEMMA EndOfRow ==
  ASSUME NEW q \in Seq(Item)
  PROVE  /\ LastWhole(q) \in Seq(Item)
         /\ DOMAIN LastWhole(q) = DOMAIN q /\ Len(LastWhole(q)) = Len(q)
         /\ \A i \in DOMAIN q : LastWhole(q)[i].row = q[i].row
         /\ \A i \in DOMAIN q : i # Len(q) => LastWhole(q)[i] = q[i]
         /\ \A i \in DOMAIN q : i = Len(q) => LastWhole(q)[i].whole
<1> DEFINE r == LastWhole(q)
<1>1. Len(q) \in Nat /\ q \in [1..Len(q) -> Item] /\ DOMAIN q = 1..Len(q)
  OBVIOUS
<1>2. \A i \in 1..Len(q) :
        r[i] = IF i = Len(q) THEN [q[i] EXCEPT !.whole = TRUE] ELSE q[i]
  BY <1>1 DEF LastWhole
<1>3. \A item \in Item : /\ [item EXCEPT !.whole = TRUE] \in Item
                        /\ [item EXCEPT !.whole = TRUE].row = item.row
                        /\ [item EXCEPT !.whole = TRUE].whole = TRUE
  BY DEF Item
<1>4. \A i \in 1..Len(q) : q[i] \in Item
  BY <1>1
<1>5. DOMAIN r = 1..Len(q) /\ r = [i \in 1..Len(q) |-> r[i]]
  BY <1>1 DEF LastWhole
<1> HIDE DEF r
<1>6. \A i \in 1..Len(q) : r[i] \in Item
  BY <1>2, <1>3, <1>4
<1>7. r \in [1..Len(q) -> Item]
  BY <1>5, <1>6
<1>8. r \in Seq(Item) /\ Len(r) = Len(q)
  BY <1>1, <1>7
<1> QED
  BY <1>1, <1>2, <1>3, <1>4, <1>5, <1>8 DEF r

-----------------------------------------------------------------------------
LEMMA InvInit == ASSUME Init PROVE Inv
<1>1. TypeOK
  <2>1. <<>> \in Seq(Item)
    OBVIOUS
  <2>2. acc \in Row /\ 0 \in 0..MaxBlocks
    BY BlocksAssumption DEF Init, Row
  <2>3. "none" \in Places
    BY DEF Places
  <2> QED
    BY <2>1, <2>2, <2>3, ThreadsAssumption DEF Init, TypeOK
<1>2. AccumulatorsMatch
  BY DEF Init, AccumulatorsMatch
<1>3. RowsMatch
  <2>1. Rows = {}
    BY RangeEmpty DEF Init, Rows
  <2> QED
    BY <2>1 DEF Init, RowsMatch
<1> QED
  BY <1>1, <1>2, <1>3 DEF Inv

\* A step of the main thread: no handler has been entered, so there is no row.
LEMMA LeaderStep == ASSUME Inv, Leader PROVE Inv'
<1>0. /\ ~Interrupted /\ TypeOK /\ AccumulatorsMatch
      /\ UNCHANGED <<opened, handler, callVars, fileVars, exited>>
  BY DEF Inv, Leader, StartRound, FinalizeBlock, Store, NextRound
<1>1. Rows = {} /\ Rows' = {} /\ \A s \in Signals : handler'[s] = "none"
  BY <1>0 DEF Inv, RowsMatch, Rows, fileVars, Interrupted
<1>2. RowsMatch'
  BY <1>1 DEF RowsMatch
<1>3. \A t, a, f, d :
        main' = t /\ acc' = a /\ finalized' = f /\ pending' = d
        /\ t \in {"recv", "busy", "store"} /\ f \in 0..MaxBlocks
        /\ a \in Row /\ d \subseteq Accumulators
          => TypeOK'
  BY <1>0 DEF TypeOK, callVars, fileVars
<1>4. /\ main \in {"recv", "busy", "store"} /\ finalized \in 0..MaxBlocks
      /\ acc \in Row /\ pending \subseteq Accumulators
      /\ MaxBlocks \in Nat
  BY <1>0, BlocksAssumption DEF TypeOK
<1>5. CASE StartRound
  <2>1. AccumulatorsMatch'
    BY <1>5, <1>0 DEF StartRound, AccumulatorsMatch
  <2>2. TypeOK'
    BY <1>3, <1>4, <1>5 DEF StartRound
  <2> QED
    BY <1>2, <2>1, <2>2 DEF Inv
<1>6. CASE FinalizeBlock
  <2>0. finalized < MaxBlocks /\ pending = {}
    BY <1>6, <1>0 DEF FinalizeBlock, AccumulatorsMatch
  <2>1. AccumulatorsMatch'
    <3>1. /\ main' = "store" /\ pending' = Accumulators /\ acc' = acc
          /\ finalized' = finalized + 1 /\ finalized' - 1 = finalized
      BY <1>6, <1>4 DEF FinalizeBlock
    <3>2. \A a \in Accumulators : acc[a] = finalized
      BY <1>0, <2>0 DEF AccumulatorsMatch
    <3> QED
      BY <3>1, <3>2 DEF AccumulatorsMatch
  <2>2. finalized + 1 \in 0..MaxBlocks
    BY <2>0, <1>4
  <2>3. TypeOK'
    BY <1>3, <1>4, <1>6, <2>2 DEF FinalizeBlock
  <2> QED
    BY <1>2, <2>1, <2>3 DEF Inv
<1>7. ASSUME NEW a \in pending, Store(a) PROVE Inv'
  <2>0. a \in Accumulators /\ acc[a] = finalized - 1 /\ acc[a] \in 0..MaxBlocks
    BY <1>0, <1>4 DEF AccumulatorsMatch, Row
  <2>1. acc' = [acc EXCEPT ![a] = acc[a] + 1] /\ acc[a] + 1 = finalized
    BY <2>0, <1>4, <1>7 DEF Store, Added
  <2>2. acc' \in Row
    BY <2>1, <1>4 DEF Row
  <2>3. TypeOK'
    <3>1. /\ main' = main /\ finalized' = finalized
          /\ pending' \subseteq Accumulators
      BY <1>4, <1>7 DEF Store
    <3> QED
      BY <1>3, <1>4, <2>2, <3>1
  <2>4. AccumulatorsMatch'
    BY <1>7, <1>0, <1>4, <2>0, <2>1 DEF Store, AccumulatorsMatch, Row
  <2> QED
    BY <1>2, <2>3, <2>4 DEF Inv
<1>8. CASE NextRound
  <2>1. AccumulatorsMatch'
    BY <1>8, <1>0 DEF NextRound, AllStored, AccumulatorsMatch
  <2>2. TypeOK'
    BY <1>3, <1>4, <1>8 DEF NextRound
  <2> QED
    BY <1>2, <2>1, <2>2 DEF Inv
<1> QED
  BY <1>5, <1>6, <1>7, <1>8 DEF Leader

\* A call of the handler is entered or moves on.
LEMMA CallStep ==
  ASSUME Inv, NEW s \in Signals, NEW place \in Places \ {"none"},
         handler' = [handler EXCEPT ![s] = place],
         place \in {"format", "allocate", "print"} => acc["block_count"] > 0,
         thread' \in [Signals -> Threads], stopped' \subseteq Signals,
         UNCHANGED <<mainVars, opened, exited>>,
         allocated' \in BOOLEAN, closed' \in BOOLEAN,
         buffered' \in Seq(Item), csv' \in Seq(Item),
         \A row \in Rows' : row = acc /\ acc["block_count"] > 0
  PROVE  Inv'
<1>1. handler \in [Signals -> Places]
  BY DEF Inv, TypeOK
<1>2. /\ handler' \in [Signals -> Places]
      /\ handler'[s] = place /\ \A u \in Signals \ {s} : handler'[u] = handler[u]
  BY <1>1
<1>3. TypeOK'
  BY <1>2 DEF Inv, TypeOK, mainVars
<1>4. AccumulatorsMatch'
  BY DEF Inv, AccumulatorsMatch, mainVars
<1>5. acc' = acc /\ Interrupted'
  BY <1>2 DEF mainVars, Interrupted
<1>6. \A u \in Signals :
        handler'[u] \in {"format", "allocate", "print"} => acc["block_count"] > 0
  BY <1>2 DEF Inv, RowsMatch
<1>7. RowsMatch'
  BY <1>5, <1>6 DEF RowsMatch
<1> QED
  BY <1>3, <1>4, <1>7 DEF Inv

\* A call moves on without touching buffer and file.
LEMMA MoveStep ==
  ASSUME Inv, NEW s \in Signals, NEW place \in Places \ {"none"},
         handler' = [handler EXCEPT ![s] = place],
         place \in {"format", "allocate", "print"} => acc["block_count"] > 0,
         thread' \in [Signals -> Threads], stopped' \subseteq Signals,
         allocated' \in BOOLEAN, closed' \in BOOLEAN,
         UNCHANGED <<mainVars, opened, buffered, csv, exited>>
  PROVE  Inv'
<1>1. /\ buffered' \in Seq(Item) /\ csv' \in Seq(Item)
      /\ \A row \in Rows : row = acc /\ acc["block_count"] > 0
  BY DEF Inv, TypeOK, RowsMatch
<1>2. Rows' = Rows
  BY DEF Rows
<1> QED
  BY <1>1, <1>2, CallStep

\* The process ends, or nothing happens.
LEMMA ExitStep ==
  ASSUME Inv, UNCHANGED <<mainVars, opened, handler, callVars, fileVars>>, exited' \in BOOLEAN
  PROVE  Inv'
<1>1. TypeOK'
  BY DEF Inv, TypeOK, mainVars, callVars, fileVars
<1>2. AccumulatorsMatch'
  BY DEF Inv, AccumulatorsMatch, mainVars
<1>3. RowsMatch'
  BY DEF Inv, RowsMatch, Rows, Interrupted, mainVars, fileVars
<1> QED
  BY <1>1, <1>2, <1>3 DEF Inv

\* Printing a row: the buffer gets the accumulators.
LEMMA StartRowStep == ASSUME Inv, NEW s \in Signals, StartRow(s) PROVE Inv'
<1> DEFINE e == [row |-> acc, whole |-> FALSE]
<1>0. /\ handler[s] = "print" /\ buffered' = Append(buffered, e) /\ csv' = csv
      /\ handler' = [handler EXCEPT ![s] = "printing"]
      /\ UNCHANGED <<mainVars, opened, exited>>
      /\ thread' = thread /\ stopped' = stopped
      /\ closed' = closed /\ allocated' = allocated
  BY DEF StartRow, At, Goto, callVars
<1>1. /\ buffered \in Seq(Item) /\ csv \in Seq(Item) /\ acc \in Row
      /\ thread \in [Signals -> Threads] /\ stopped \subseteq Signals
      /\ closed \in BOOLEAN /\ allocated \in BOOLEAN
      /\ \A row \in Rows : row = acc /\ acc["block_count"] > 0
      /\ acc["block_count"] > 0
  BY <1>0 DEF Inv, TypeOK, RowsMatch
<1>2. e \in Item /\ e.row = acc
  BY <1>1 DEF Item
<1> HIDE DEF e
<1>3. buffered' \in Seq(Item) /\ Range(buffered') = Range(buffered) \cup {e}
  BY <1>0, <1>1, <1>2, RangeAppend
<1>4. Range(csv') = Range(csv)
  BY <1>0
<1>5. \A row \in Rows' : row \in Rows \/ row = acc
  BY <1>2, <1>3, <1>4 DEF Rows
<1>6. "printing" \in Places \ {"none"}
  BY DEF Places, InLibrary
<1> QED
  BY <1>0, <1>1, <1>3, <1>5, <1>6, CallStep

LEMMA EndRowStep == ASSUME Inv, NEW s \in Signals, EndRow(s) PROVE Inv'
<1>0. /\ buffered' = LastWhole(buffered) /\ csv' = csv
      /\ handler' = [handler EXCEPT ![s] = "flush"]
      /\ UNCHANGED <<mainVars, opened, exited>>
      /\ thread' = thread /\ stopped' = stopped
      /\ closed' = closed /\ allocated' = allocated
  BY DEF EndRow, At, Goto, callVars
<1>1. /\ buffered \in Seq(Item) /\ csv \in Seq(Item)
      /\ thread \in [Signals -> Threads] /\ stopped \subseteq Signals
      /\ closed \in BOOLEAN /\ allocated \in BOOLEAN
      /\ \A row \in Rows : row = acc /\ acc["block_count"] > 0
  BY DEF Inv, TypeOK, RowsMatch
<1>2. /\ buffered' \in Seq(Item) /\ DOMAIN buffered' = DOMAIN buffered
      /\ \A i \in DOMAIN buffered : buffered'[i].row = buffered[i].row
  BY <1>0, <1>1, EndOfRow
<1>3. ASSUME NEW item \in Range(buffered') PROVE item.row \in Rows
  <2>1. PICK i \in DOMAIN buffered : item.row = buffered[i].row
    BY <1>2, <1>3 DEF Range
  <2> QED
    BY <2>1 DEF Rows, Range
<1>4. \A row \in Rows' : row \in Rows
  BY <1>0, <1>3 DEF Rows
<1>5. "flush" \in Places \ {"none"}
  BY DEF Places
<1> QED
  BY <1>0, <1>1, <1>2, <1>4, <1>5, CallStep

\* Writing the buffer to the file, or forgetting what was written.
LEMMA WriteStep ==
  ASSUME Inv, NEW s \in Signals, Write(s) \/ Empty(s) \/ CloseFile(s) PROVE Inv'
<1>0. /\ buffered \in Seq(Item) /\ csv \in Seq(Item)
      /\ thread \in [Signals -> Threads] /\ stopped \subseteq Signals
      /\ closed \in BOOLEAN /\ allocated \in BOOLEAN
      /\ \A row \in Rows : row = acc /\ acc["block_count"] > 0
  BY DEF Inv, TypeOK, RowsMatch
<1>1. PICK place \in {"written", "emptied", "close", "release"} :
        handler' = [handler EXCEPT ![s] = place]
  BY DEF Write, Empty, CloseFile, Goto
<1>2. /\ UNCHANGED <<mainVars, opened, exited>>
      /\ thread' = thread /\ stopped' = stopped
      /\ allocated' = allocated /\ closed' \in BOOLEAN
      /\ csv' = csv \/ csv' = csv \o buffered
      /\ buffered' = buffered \/ buffered' = <<>>
  BY <1>0 DEF Write, Empty, CloseFile, Flushed, callVars
<1>3. csv' \in Seq(Item) /\ Range(csv') \subseteq Range(csv) \cup Range(buffered)
  <2>1. CASE csv' = csv
    BY <2>1, <1>0
  <2>2. CASE csv' = csv \o buffered
    BY <2>2, <1>0, RangeConcat
  <2> QED
    BY <1>2, <2>1, <2>2
<1>4. buffered' \in Seq(Item) /\ Range(buffered') \subseteq Range(buffered)
  <2>1. CASE buffered' = buffered
    BY <2>1, <1>0
  <2>2. CASE buffered' = <<>>
    <3>1. <<>> \in Seq(Item)
      OBVIOUS
    <3> QED
      BY <2>2, <3>1, RangeEmpty
  <2> QED
    BY <1>2, <2>1, <2>2
<1>5. \A row \in Rows' : row \in Rows
  BY <1>3, <1>4 DEF Rows
<1>6. place \in Places \ {"none"} /\ place \notin {"format", "allocate", "print"}
  BY DEF Places, InLibrary
<1> QED
  BY <1>0, <1>1, <1>2, <1>3, <1>4, <1>5, <1>6, CallStep

LEMMA SignalStep ==
  ASSUME Inv, NEW s \in Signals, NEW t \in Threads, Signal(s, t) PROVE Inv'
<1>1. /\ handler' = [handler EXCEPT ![s] = "check"]
      /\ thread' \in [Signals -> Threads] /\ stopped' \subseteq Signals
      /\ UNCHANGED <<mainVars, opened, buffered, csv, exited>>
      /\ allocated' \in BOOLEAN /\ closed' \in BOOLEAN
  BY DEF Signal, Goto, fileVars, Inv, TypeOK
<1>2. "check" \in Places \ {"none"}
  BY DEF Places
<1> QED
  BY <1>1, <1>2, MoveStep

LEMMA HandlerStep == ASSUME Inv, NEW s \in Signals, HandleSignal(s) PROVE Inv'
<1>0. /\ thread \in [Signals -> Threads] /\ stopped \subseteq Signals
      /\ allocated \in BOOLEAN /\ closed \in BOOLEAN
      /\ acc["block_count"] \in Nat
      /\ handler[s] \in {"format", "allocate"} => acc["block_count"] > 0
  BY DEF Inv, TypeOK, RowsMatch, Row, Accumulators
<1>1. ASSUME NEW place \in Places \ {"none"},
             handler' = [handler EXCEPT ![s] = place],
             place \in {"format", "allocate", "print"} => acc["block_count"] > 0,
             allocated' \in BOOLEAN,
             UNCHANGED <<mainVars, opened, callVars, buffered, csv, closed, exited>>
      PROVE  Inv'
  BY <1>0, <1>1, MoveStep DEF callVars
<1>2. CASE CheckCount(s)
  <2>1. PICK place \in {"format", "close", "exit"} :
          /\ handler' = [handler EXCEPT ![s] = place]
          /\ place = "format" => ~NothingToWrite
          /\ UNCHANGED <<mainVars, opened, callVars, fileVars, exited>>
    BY <1>2 DEF CheckCount, Goto
  <2>2. place = "format" => acc["block_count"] > 0
    BY <1>0, <2>1 DEF NothingToWrite
  <2>3. place \in Places \ {"none"}
    BY DEF Places
  <2> QED
    BY <1>0, <1>1, <2>1, <2>2, <2>3 DEF fileVars
<1>3. CASE EnterPrint(s)
  <2>1. PICK place \in {"allocate", "print"} : handler' = [handler EXCEPT ![s] = place]
    BY <1>3 DEF EnterPrint, Goto
  <2>2. place \in Places \ {"none"}
    BY DEF Places, InLibrary
  <2> QED
    BY <1>0, <1>1, <1>3, <2>1, <2>2 DEF EnterPrint, Enters, At, fileVars
<1>4. CASE Allocate(s)
  <2>1. "print" \in Places \ {"none"}
    BY DEF Places, InLibrary
  <2> QED
    BY <1>0, <1>1, <1>4, <2>1 DEF Allocate, At, Goto
<1>5. CASE EnterWrite(s)
  <2>1. PICK place \in {"writing", "closing"} : handler' = [handler EXCEPT ![s] = place]
    BY <1>5 DEF EnterWrite, Goto
  <2>2. place \in Places \ {"none"}
    BY DEF Places, InLibrary
  <2> QED
    BY <1>0, <1>1, <1>5, <2>1, <2>2 DEF EnterWrite, fileVars
<1>6. CASE Release(s) \/ Hang(s)
  <2>1. PICK place \in {"exit", "hung"} : handler' = [handler EXCEPT ![s] = place]
    BY <1>6 DEF Release, Hang, Goto
  <2>2. place \in Places \ {"none"}
    BY DEF Places, InLibrary
  <2> QED
    BY <1>0, <1>1, <1>6, <2>1, <2>2 DEF Release, Hang, fileVars
<1>7. CASE Misuse(s)
  <2>1. CASE exited' = TRUE /\ UNCHANGED handler
    BY <2>1, <1>7, ExitStep DEF Misuse
  <2>2. CASE exited' = exited
             /\ \E place \in {"hung", "flush", "close", "exit"} : Goto(s, place)
    <3>1. PICK place \in {"hung", "flush", "close", "exit"} :
            handler' = [handler EXCEPT ![s] = place]
      BY <2>2 DEF Goto
    <3>2. place \in Places \ {"none"}
      BY DEF Places, InLibrary
    <3> QED
      BY <1>0, <1>1, <1>7, <2>2, <3>1, <3>2 DEF Misuse, fileVars
  <2> QED
    BY <2>1, <2>2, <1>7 DEF Misuse
<1>8. CASE Exit(s)
  BY <1>8, ExitStep DEF Exit
<1> QED
  BY <1>2, <1>3, <1>4, <1>5, <1>6, <1>7, <1>8, StartRowStep, EndRowStep, WriteStep
     DEF HandleSignal

LEMMA InvStep == ASSUME Inv, [Next]_vars PROVE Inv'
<1>1. CASE Leader
  BY <1>1, LeaderStep
<1>2. CASE \E s \in Signals : (\E t \in Threads : Signal(s, t)) \/ HandleSignal(s)
  BY <1>2, SignalStep, HandlerStep
<1>3. CASE UNCHANGED vars
  BY <1>3, ExitStep DEF vars, Inv, TypeOK
<1> QED
  BY <1>1, <1>2, <1>3 DEF Next

-----------------------------------------------------------------------------
\* Every row holds what the accumulators hold, and each of them covers all
\* blocks but possibly the last (run_leader and write_csv_summary,
\* src/src/shard_worker.c).
THEOREM Invariance == Spec => []Inv
<1> QED
  BY InvInit, InvStep, PTL DEF Spec

\* A row never divides by zero and misses at most the last block.
THEOREM RowsNearlyExact == Spec => []RowNearlyExact
<1>1. ASSUME Inv PROVE RowNearlyExact
  <2>1. \A a \in Accumulators : acc[a] \in {finalized - 1, finalized}
    BY <1>1 DEF Inv, AccumulatorsMatch
  <2> QED
    BY <1>1, <2>1 DEF Inv, RowsMatch, RowNearlyExact
<1> QED
  BY <1>1, Invariance, PTL

\* A signal that finds the leader waiting for a round writes exact averages.
THEOREM QuietRowsExact == Spec => []QuietRowExact
<1>1. ASSUME Inv PROVE QuietRowExact
  BY <1>1 DEF Inv, AccumulatorsMatch, RowsMatch, QuietRowExact
<1> QED
  BY <1>1, Invariance, PTL

-----------------------------------------------------------------------------
(***************************************************************************)
(* Nothing is left in the buffer when the process ends.                    *)
(***************************************************************************)

\* A sequence with something before or after it is not empty, and whole if both
\* parts are.
LEMMA Concat ==
  ASSUME NEW p \in Seq(Item), NEW q \in Seq(Item)
  PROVE  /\ p # <<>> \/ q # <<>> => p \o q # <<>>
         /\ (\A i \in DOMAIN p : p[i].whole) /\ (\A i \in DOMAIN q : q[i].whole)
              => \A i \in DOMAIN (p \o q) : (p \o q)[i].whole
<1>1. /\ Len(p) \in Nat /\ Len(q) \in Nat /\ Len(p \o q) = Len(p) + Len(q)
      /\ DOMAIN p = 1..Len(p) /\ DOMAIN q = 1..Len(q)
      /\ DOMAIN (p \o q) = 1 .. Len(p) + Len(q)
      /\ \A i \in 1..Len(p) : (p \o q)[i] = p[i]
      /\ \A i \in 1..Len(q) : (p \o q)[Len(p) + i] = q[i]
  OBVIOUS
<1>2. ASSUME p # <<>> \/ q # <<>> PROVE p \o q # <<>>
  <2>1. Len(p) > 0 \/ Len(q) > 0
    BY <1>2
  <2>2. Len(p \o q) > 0
    BY <1>1, <2>1
  <2> QED
    BY <2>2
<1>3. ASSUME \A i \in DOMAIN p : p[i].whole, \A i \in DOMAIN q : q[i].whole,
             NEW i \in DOMAIN (p \o q)
      PROVE  (p \o q)[i].whole
  <2>1. CASE i <= Len(p)
    BY <1>1, <1>3, <2>1
  <2>2. CASE i > Len(p)
    <3>1. i - Len(p) \in 1..Len(q) /\ i = Len(p) + (i - Len(p))
      BY <1>1, <2>2
    <3>2. (p \o q)[i] = q[i - Len(p)]
      BY <1>1, <3>1
    <3> QED
      BY <1>1, <1>3, <3>1, <3>2
  <2> QED
    BY <1>1, <2>1, <2>2
<1> QED
  BY <1>2, <1>3

\* A call that runs moves: it stays the only one that runs on its thread, and
\* what was stopped stays where it is.
LEMMA CallMoves ==
  ASSUME Inv, OnePerThread, NEW s \in Signals, NEW place \in Places \ {"none"},
         s \notin stopped, handler[s] # "none",
         handler' = [handler EXCEPT ![s] = place],
         UNCHANGED callVars
  PROVE  /\ handler'[s] = place /\ \A u \in Signals \ {s} : handler'[u] = handler[u]
         /\ OnePerThread' /\ Interrupted'
         /\ Reentered' <=> Reentered
<1>1. /\ handler'[s] = place /\ \A u \in Signals \ {s} : handler'[u] = handler[u]
      /\ stopped \subseteq Signals /\ stopped' = stopped /\ thread' = thread
  BY DEF Inv, TypeOK, callVars
<1>2. OnePerThread'
  BY <1>1 DEF OnePerThread
<1>3. Interrupted'
  BY <1>1 DEF Interrupted
<1>4. Reentered' <=> Reentered
  BY <1>1 DEF Reentered
<1> QED
  BY <1>1, <1>2, <1>3, <1>4

\* The lock of the file: the call that enters finds nobody inside, unless another
\* was stopped there.
LEMMA Alone ==
  ASSUME Inv, WrittenInv, ~Reentered, NEW s \in Signals, NEW place, Enters(s, place),
         place # "none", place \notin InLibrary
  PROVE  ~closed /\ \A u \in Signals : handler[u] \notin InLibrary
<1>1. /\ s \notin stopped /\ handler[s] = place /\ ~closed
      /\ \A u \in Signals : handler[u] \in InLibrary => thread[u] = thread[s]
  BY DEF Enters, At, LockFree
<1>2. ASSUME NEW u \in Signals, handler[u] \in InLibrary PROVE FALSE
  <2>1. u # s /\ thread[u] = thread[s] /\ handler[u] # "none"
    BY <1>1, <1>2 DEF InLibrary
  <2>2. u \in stopped
    BY <1>1, <2>1 DEF WrittenInv, OnePerThread
  <2> QED
    BY <1>2, <2>2 DEF Reentered
<1> QED
  BY <1>1, <1>2

\* A call moves on without touching buffer and file.
LEMMA FileMove ==
  ASSUME Inv, FileInv, NEW s \in Signals, NEW place \in Places \ {"none", "printing"},
         handler[s] # "printing",
         handler'[s] = place, \A u \in Signals \ {s} : handler'[u] = handler[u],
         UNCHANGED <<mainVars, opened, buffered, csv, closed, exited>>,
         place \in InLibrary => \/ handler[s] \in InLibrary
                               \/ \A u \in Signals : handler[u] \notin InLibrary
                               \/ closed,
         place \in InLibrary \ {"release", "hung"} => ~closed,
         opened /\ place \in {"release", "exit"} => closed,
         opened /\ acc["block_count"] > 0 =>
             /\ place \in {"flush", "writing"} => csv # <<>> \/ buffered # <<>>
             /\ place \in {"written", "close", "closing", "emptied", "release", "exit"}
                  => csv # <<>>
  PROVE  FileInv'
<1>0. /\ opened' = opened /\ acc' = acc /\ buffered' = buffered /\ csv' = csv
      /\ closed' = closed /\ exited' = exited
  BY DEF mainVars
<1>1. OneInside'
  BY <1>0 DEF FileInv, OneInside
<1>2. WholeRows'
  BY <1>0 DEF FileInv, WholeRows
<1>3. ClosedBeforeExit'
  BY <1>0 DEF FileInv, ClosedBeforeExit
<1>4. opened /\ acc["block_count"] > 0 => RowOnItsWay'
  BY <1>0 DEF FileInv, RowOnItsWay
<1> QED
  BY <1>0, <1>1, <1>2, <1>3, <1>4 DEF FileInv

\* The steps of a call between its check and its exit that leave buffer and file
\* as they are.
LEMMA FileMoves ==
  ASSUME Inv, WrittenInv, ~Reentered, NEW s \in Signals,
         NEW place \in Places \ {"none"},
         handler' = [handler EXCEPT ![s] = place],
         UNCHANGED callVars,
         CheckCount(s) \/ EnterPrint(s) \/ Allocate(s) \/ EnterWrite(s)
           \/ Release(s) \/ Hang(s) \/ (Misuse(s) /\ exited' = exited)
  PROVE  FileInv'
<1>0. FileInv /\ s \notin stopped /\ handler[s] # "none" /\ acc["block_count"] \in Nat
  BY DEF WrittenInv, CheckCount, EnterPrint, Allocate, EnterWrite, Release, Hang, Misuse,
         Enters, At, Inv, TypeOK, Row, Accumulators
<1>1. handler'[s] = place /\ \A u \in Signals \ {s} : handler'[u] = handler[u]
  BY <1>0, CallMoves DEF WrittenInv
<1>2. CASE CheckCount(s)
  <2>1. /\ handler[s] = "check" /\ place \in {"format", "close", "exit"}
        /\ UNCHANGED <<mainVars, opened, buffered, csv, closed, exited>>
        /\ place = "exit" => ~opened
        /\ opened /\ acc["block_count"] > 0 => place = "format"
    BY <1>0, <1>1, <1>2 DEF CheckCount, At, Goto, fileVars, NothingToWrite, Inv, TypeOK
  <2>2. place \in Places \ {"none", "printing"} /\ place \notin InLibrary
    BY <2>1 DEF Places, InLibrary
  <2> QED
    BY <1>0, <1>1, <2>1, <2>2, FileMove
<1>3. CASE EnterPrint(s)
  <2>1. /\ handler[s] = "format" /\ place \in {"allocate", "print"}
        /\ Enters(s, "format")
        /\ UNCHANGED <<mainVars, opened, buffered, csv, closed, exited>>
    BY <1>1, <1>3 DEF EnterPrint, Enters, At, Goto, fileVars, Inv, TypeOK
  <2>2. ~closed /\ \A u \in Signals : handler[u] \notin InLibrary
    BY <2>1, Alone DEF InLibrary
  <2>3. place \in Places \ {"none", "printing"}
    BY <2>1 DEF Places, InLibrary
  <2> QED
    BY <1>0, <1>1, <2>1, <2>2, <2>3, FileMove
<1>4. CASE Allocate(s)
  <2>1. /\ handler[s] = "allocate" /\ place = "print"
        /\ UNCHANGED <<mainVars, opened, buffered, csv, closed, exited>>
    BY <1>1, <1>4 DEF Allocate, At, Goto, Inv, TypeOK
  <2>2. ~closed /\ handler[s] \in InLibrary
    BY <1>0, <2>1 DEF FileInv, OneInside, InLibrary
  <2>3. place \in Places \ {"none", "printing"}
    BY <2>1 DEF Places, InLibrary
  <2> QED
    BY <1>0, <1>1, <2>1, <2>2, <2>3, FileMove
<1>5. CASE EnterWrite(s)
  <2>1. /\ \/ handler[s] = "flush" /\ place = "writing" /\ Enters(s, "flush")
           \/ handler[s] = "close" /\ place = "closing" /\ Enters(s, "close")
        /\ UNCHANGED <<mainVars, opened, buffered, csv, closed, exited>>
    BY <1>1, <1>5 DEF EnterWrite, Enters, At, Goto, fileVars, Inv, TypeOK
  <2>2. ~closed /\ \A u \in Signals : handler[u] \notin InLibrary
    BY <2>1, Alone DEF InLibrary
  <2>3. place \in Places \ {"none", "printing"}
    BY <2>1 DEF Places, InLibrary
  <2>4. opened /\ acc["block_count"] > 0 =>
          /\ place = "writing" => csv # <<>> \/ buffered # <<>>
          /\ place = "closing" => csv # <<>>
    BY <1>0, <2>1 DEF FileInv, RowOnItsWay
  <2> QED
    BY <1>0, <1>1, <2>1, <2>2, <2>3, <2>4, FileMove
<1>6. CASE Release(s)
  <2>1. /\ handler[s] = "release" /\ place = "exit"
        /\ UNCHANGED <<mainVars, opened, buffered, csv, closed, exited>>
    BY <1>1, <1>6 DEF Release, At, Goto, fileVars, Inv, TypeOK
  <2>2. /\ opened => closed
        /\ opened /\ acc["block_count"] > 0 => csv # <<>>
    BY <1>0, <2>1 DEF FileInv, ClosedBeforeExit, RowOnItsWay
  <2>3. place \in Places \ {"none", "printing"} /\ place \notin InLibrary
    BY <2>1 DEF Places, InLibrary
  <2> QED
    BY <1>0, <1>1, <2>1, <2>2, <2>3, FileMove
<1>7. CASE Hang(s)
  <2>1. /\ handler[s] \in {"allocate", "release"} /\ place = "hung"
        /\ UNCHANGED <<mainVars, opened, buffered, csv, closed, exited>>
    BY <1>1, <1>7 DEF Hang, At, Goto, fileVars, Inv, TypeOK
  <2>2. place \in Places \ {"none", "printing"} /\ handler[s] \in InLibrary
    BY <2>1 DEF Places, InLibrary
  <2> QED
    BY <1>0, <1>1, <2>1, <2>2, FileMove
<1>8. CASE Misuse(s) /\ exited' = exited
  <2>1. closed
    <3>1. ~OnUse(s)
      BY DEF OnUse, Reentered
    <3> QED
      BY <1>8, <3>1 DEF Misuse
  <2>2. ~exited
    BY <1>8 DEF Misuse, At
  <2>3. /\ handler[s] \in {"format", "flush", "close"}
        /\ place \in {"hung", "flush", "close", "exit"}
        /\ UNCHANGED <<mainVars, opened, buffered, csv, closed>>
    BY <1>1, <1>8, <2>2 DEF Misuse, At, Goto, fileVars, Inv, TypeOK
  <2>4. opened /\ acc["block_count"] > 0 => csv # <<>>
    BY <1>0, <2>1 DEF FileInv, RowOnItsWay
  <2>5. place \in Places \ {"none", "printing"}
        /\ (place \in InLibrary => place = "hung")
    BY <2>3 DEF Places, InLibrary
  <2> QED
    BY <1>0, <1>1, <1>8, <2>1, <2>3, <2>4, <2>5, FileMove
<1> QED
  BY <1>2, <1>3, <1>4, <1>5, <1>6, <1>7, <1>8

\* The call inside the library is the only one there.
LEMMA OnlyOne ==
  ASSUME FileInv, NEW s \in Signals, handler[s] \in InLibrary \ {"release", "hung"}
  PROVE  ~closed /\ \A u \in Signals \ {s} : handler[u] \notin InLibrary
BY DEF FileInv, OneInside

\* A call inside the library goes on there, or returns.
LEMMA InsideMove ==
  ASSUME FileInv, NEW s \in Signals, NEW place,
         handler[s] \in InLibrary \ {"release", "hung"}, closed' = closed,
         handler'[s] = place, \A u \in Signals \ {s} : handler'[u] = handler[u]
  PROVE  OneInside'
BY OnlyOne DEF FileInv, OneInside

LEMMA FileStartRow ==
  ASSUME Inv, FileInv, NEW s \in Signals, StartRow(s),
         handler'[s] = "printing", \A u \in Signals \ {s} : handler'[u] = handler[u]
  PROVE  FileInv'
<1> DEFINE e == [row |-> acc, whole |-> FALSE]
<1>0. /\ handler[s] = "print" /\ buffered' = Append(buffered, e) /\ csv' = csv
      /\ UNCHANGED <<mainVars, opened, exited>> /\ closed' = closed
  BY DEF StartRow, At
<1>1. e \in Item /\ buffered \in Seq(Item)
  BY DEF Inv, TypeOK, Item
<1> HIDE DEF e
<1>2. /\ Len(buffered) \in Nat /\ Len(buffered') = Len(buffered) + 1
      /\ DOMAIN buffered = 1..Len(buffered) /\ DOMAIN buffered' = 1 .. Len(buffered) + 1
      /\ \A i \in 1..Len(buffered) : buffered'[i] = buffered[i]
  BY <1>0, <1>1
<1>3. handler[s] \in InLibrary \ {"release", "hung"}
  BY <1>0 DEF InLibrary
<1>4. OneInside'
  BY <1>0, <1>3, InsideMove
<1>5. \A u \in Signals : handler[u] # "printing"
  BY <1>0, <1>3, OnlyOne DEF InLibrary
<1>6. \A i \in DOMAIN buffered : buffered[i].whole
  BY <1>5 DEF FileInv, WholeRows
<1>7. WholeRows'
  <2>1. \A i \in DOMAIN buffered' :
          buffered'[i].whole \/ (i = Len(buffered') /\ \E u \in Signals : handler'[u] = "printing")
    BY <1>2, <1>6
  <2>2. \A i \in DOMAIN csv' : csv'[i].whole
    BY <1>0 DEF FileInv, WholeRows
  <2> QED
    BY <2>1, <2>2 DEF WholeRows
<1>8. ClosedBeforeExit'
  BY <1>0 DEF FileInv, ClosedBeforeExit
<1>9. buffered' # <<>>
  BY <1>2
<1>10. opened /\ acc["block_count"] > 0 => RowOnItsWay'
  BY <1>0, <1>9 DEF FileInv, RowOnItsWay
<1>11. opened' = opened /\ acc' = acc
  BY <1>0 DEF mainVars
<1> QED
  BY <1>4, <1>7, <1>8, <1>10, <1>11 DEF FileInv

LEMMA FileEndRow ==
  ASSUME Inv, FileInv, NEW s \in Signals, EndRow(s),
         handler'[s] = "flush", \A u \in Signals \ {s} : handler'[u] = handler[u]
  PROVE  FileInv'
<1>0. /\ handler[s] = "printing" /\ buffered' = LastWhole(buffered) /\ csv' = csv
      /\ UNCHANGED <<mainVars, opened, exited>> /\ closed' = closed
  BY DEF EndRow, At
<1>1. buffered \in Seq(Item)
  BY DEF Inv, TypeOK
<1>2. /\ LastWhole(buffered) \in Seq(Item)
      /\ DOMAIN LastWhole(buffered) = DOMAIN buffered
      /\ Len(LastWhole(buffered)) = Len(buffered)
      /\ \A i \in DOMAIN buffered : i # Len(buffered) => LastWhole(buffered)[i] = buffered[i]
      /\ \A i \in DOMAIN buffered : i = Len(buffered) => LastWhole(buffered)[i].whole
  BY <1>1, EndOfRow
<1>3. handler[s] \in InLibrary \ {"release", "hung"}
  BY <1>0 DEF InLibrary
<1>4. OneInside'
  BY <1>0, <1>3, InsideMove
<1>5. WholeRows'
  <2>1. \A i \in DOMAIN buffered : LastWhole(buffered)[i].whole
    BY <1>2 DEF FileInv, WholeRows
  <2>2. \A i \in DOMAIN csv' : csv'[i].whole
    BY <1>0 DEF FileInv, WholeRows
  <2> QED
    BY <1>0, <1>2, <2>1, <2>2 DEF WholeRows
<1>6. ClosedBeforeExit'
  BY <1>0 DEF FileInv, ClosedBeforeExit
<1>7. buffered # <<>> => buffered' # <<>>
  <2>1. Len(buffered') = Len(buffered) /\ Len(buffered) \in Nat
    BY <1>0, <1>1, <1>2
  <2>2. buffered # <<>> => Len(buffered) # 0
    BY <1>1
  <2>3. buffered' = <<>> => Len(buffered') = 0
    OBVIOUS
  <2> QED
    BY <2>1, <2>2, <2>3
<1>8. opened /\ acc["block_count"] > 0 => RowOnItsWay'
  BY <1>0, <1>7 DEF FileInv, RowOnItsWay
<1>9. opened' = opened /\ acc' = acc
  BY <1>0 DEF mainVars
<1> QED
  BY <1>4, <1>5, <1>6, <1>8, <1>9 DEF FileInv

LEMMA FileWrite ==
  ASSUME Inv, FileInv, NEW s \in Signals, NEW place, Write(s),
         \/ handler[s] = "writing" /\ place = "written"
         \/ handler[s] = "closing" /\ place = "emptied",
         handler'[s] = place, \A u \in Signals \ {s} : handler'[u] = handler[u]
  PROVE  FileInv'
<1>0. /\ csv' = csv \o buffered /\ buffered' = buffered
      /\ UNCHANGED <<mainVars, opened, exited>> /\ closed' = closed
  BY DEF Write, Flushed
<1>1. buffered \in Seq(Item) /\ csv \in Seq(Item)
  BY DEF Inv, TypeOK
<1>3. handler[s] \in InLibrary \ {"release", "hung"}
  BY DEF InLibrary
<1>4. OneInside'
  BY <1>0, <1>3, InsideMove
<1>5. \A u \in Signals : handler[u] # "printing"
  BY <1>3, OnlyOne DEF InLibrary
<1>6. /\ \A i \in DOMAIN buffered : buffered[i].whole
      /\ \A i \in DOMAIN csv : csv[i].whole
  BY <1>5 DEF FileInv, WholeRows
<1>7. WholeRows'
  BY <1>0, <1>1, <1>6, Concat DEF WholeRows
<1>8. ClosedBeforeExit'
  BY <1>0 DEF FileInv, ClosedBeforeExit
<1>9. csv # <<>> \/ buffered # <<>> => csv' # <<>>
  BY <1>0, <1>1, Concat
<1>10. opened /\ acc["block_count"] > 0 => csv' # <<>>
  BY <1>9 DEF FileInv, RowOnItsWay
<1>11. opened /\ acc["block_count"] > 0 => RowOnItsWay'
  BY <1>0, <1>10 DEF FileInv, RowOnItsWay
<1>12. opened' = opened /\ acc' = acc
  BY <1>0 DEF mainVars
<1> QED
  BY <1>4, <1>7, <1>8, <1>11, <1>12 DEF FileInv

\* The buffer is forgotten after it was written.
LEMMA FileEmpty ==
  ASSUME Inv, FileInv, NEW s \in Signals, NEW place,
         \/ handler[s] = "written" /\ place = "close" /\ closed' = closed
         \/ handler[s] = "emptied" /\ place = "release" /\ closed' = TRUE,
         buffered' = <<>>,
         UNCHANGED <<mainVars, opened, csv, exited>>,
         handler'[s] = place, \A u \in Signals \ {s} : handler'[u] = handler[u]
  PROVE  FileInv'
<1>0. opened' = opened /\ acc' = acc /\ csv' = csv /\ exited' = exited
  BY DEF mainVars
<1>1. handler[s] \in InLibrary \ {"release", "hung"}
  BY DEF InLibrary
<1>2. ~closed /\ \A u \in Signals \ {s} : handler[u] \notin InLibrary
  BY <1>1, OnlyOne
<1>3. OneInside'
  BY <1>2 DEF OneInside, InLibrary
<1>4. WholeRows'
  BY <1>0 DEF FileInv, WholeRows
<1>5. ClosedBeforeExit'
  BY <1>0, <1>2 DEF FileInv, ClosedBeforeExit
<1>6. opened /\ acc["block_count"] > 0 => csv # <<>>
  BY DEF FileInv, RowOnItsWay
<1>7. opened /\ acc["block_count"] > 0 => RowOnItsWay'
  BY <1>0, <1>2, <1>6 DEF RowOnItsWay, InLibrary
<1> QED
  BY <1>0, <1>3, <1>4, <1>5, <1>7 DEF FileInv

-----------------------------------------------------------------------------
LEMMA WrittenLeader == ASSUME Inv, WrittenInv, Leader PROVE WrittenInv'
<1>1. /\ \A s \in Signals : handler[s] = "none"
      /\ UNCHANGED <<opened, handler, callVars, fileVars, exited>>
  BY DEF Leader, StartRound, FinalizeBlock, Store, NextRound, Interrupted
<1>2. ~closed /\ ~exited /\ stopped \subseteq Signals
  BY <1>1 DEF WrittenInv, Interrupted, Inv, TypeOK
<1>3. ~Reentered
  BY <1>1, <1>2 DEF Reentered, InLibrary
<1>4. OneInside' /\ WholeRows' /\ ClosedBeforeExit'
  BY <1>1, <1>2, <1>3 DEF WrittenInv, FileInv, OneInside, WholeRows, ClosedBeforeExit,
     fileVars, InLibrary
<1>5. RowOnItsWay'
  BY <1>1, <1>2 DEF RowOnItsWay, fileVars
<1>6. OnePerThread' /\ ~closed' /\ ~exited'
  BY <1>1, <1>2 DEF OnePerThread, fileVars
<1> QED
  BY <1>4, <1>5, <1>6 DEF WrittenInv, FileInv

\* A signal: the calls on its thread stop, and the new one is outside the library.
LEMMA WrittenSignal ==
  ASSUME Inv, WrittenInv, NEW s \in Signals, NEW t \in Threads, Signal(s, t)
  PROVE  WrittenInv'
<1>1. /\ handler[s] = "none" /\ handler'[s] = "check"
      /\ \A u \in Signals \ {s} : handler'[u] = handler[u]
      /\ thread'[s] = t /\ \A u \in Signals \ {s} : thread'[u] = thread[u]
      /\ stopped' = stopped \cup {u \in Signals : handler[u] # "none" /\ thread[u] = t}
      /\ UNCHANGED <<mainVars, opened, fileVars, exited>>
  BY DEF Signal, Goto, Inv, TypeOK
<1>2. OnePerThread'
  BY <1>1 DEF WrittenInv, OnePerThread
<1>3. Interrupted'
  BY <1>1 DEF Interrupted
<1>4. ASSUME ~Reentered' PROVE FileInv'
  <2>1. stopped \subseteq Signals /\ "none" \notin InLibrary /\ "check" \notin InLibrary
    BY DEF Inv, TypeOK, InLibrary
  <2>2. ~Reentered
    BY <1>1, <1>4, <2>1 DEF Reentered
  <2>3. FileInv /\ handler[s] # "printing" /\ "check" \in Places \ {"none", "printing"}
    BY <1>1, <2>2 DEF WrittenInv, Places
  <2>4. UNCHANGED <<mainVars, opened, buffered, csv, closed, exited>>
    BY <1>1 DEF fileVars
  <2> QED
    BY <1>1, <2>1, <2>3, <2>4, FileMove
<1> QED
  BY <1>2, <1>3, <1>4 DEF WrittenInv

\* The process ends: at the end of a call, or in one that misuses the file.
LEMMA WrittenEnd ==
  ASSUME Inv, WrittenInv, NEW s \in Signals,
         Exit(s) \/ (Misuse(s) /\ UNCHANGED handler)
  PROVE  WrittenInv'
<1>1. /\ UNCHANGED <<mainVars, opened, handler, callVars, fileVars>>
      /\ handler[s] # "none"
  BY DEF Exit, Misuse, At
<1>2. OnePerThread' /\ Interrupted' /\ (Reentered' <=> Reentered)
  BY <1>1 DEF WrittenInv, OnePerThread, Interrupted, Reentered, callVars
<1>3. ASSUME ~Reentered PROVE FileInv'
  <2>1. FileInv /\ (opened => closed)
    <3>1. FileInv
      BY <1>3 DEF WrittenInv
    <3>2. CASE Exit(s)
      BY <3>1, <3>2 DEF Exit, At, FileInv, ClosedBeforeExit
    <3>3. CASE Misuse(s)
      BY <1>3, <3>1, <3>3 DEF Misuse, OnUse, Reentered
    <3> QED
      BY <3>1, <3>2, <3>3
  <2>2. opened' = opened /\ acc' = acc /\ handler' = handler
        /\ csv' = csv /\ buffered' = buffered /\ closed' = closed
    BY <1>1 DEF mainVars, fileVars
  <2> QED
    BY <2>1, <2>2 DEF FileInv, OneInside, WholeRows, ClosedBeforeExit, RowOnItsWay
<1> QED
  BY <1>2, <1>3 DEF WrittenInv

\* A call that goes on.
LEMMA WrittenCall ==
  ASSUME Inv, WrittenInv, NEW s \in Signals, HandleSignal(s),
         ~Exit(s), ~(Misuse(s) /\ UNCHANGED handler)
  PROVE  WrittenInv'
<1>1. UNCHANGED callVars /\ s \notin stopped /\ handler[s] # "none"
  BY DEF HandleSignal, CheckCount, EnterPrint, Allocate, StartRow, EndRow, EnterWrite, Write,
         Empty, CloseFile, Release, Hang, Misuse, Enters, At
<1>2. PICK place \in Places \ {"none"} : handler' = [handler EXCEPT ![s] = place]
  <2>1. \E place \in {"format", "close", "exit", "allocate", "print", "printing", "flush",
                     "writing", "closing", "written", "emptied", "release", "hung"} :
          handler' = [handler EXCEPT ![s] = place]
    BY DEF HandleSignal, CheckCount, EnterPrint, Allocate, StartRow, EndRow, EnterWrite, Write,
           Empty, CloseFile, Release, Hang, Misuse, Goto
  <2> QED
    BY <2>1 DEF Places, InLibrary
<1>3. /\ handler'[s] = place /\ \A u \in Signals \ {s} : handler'[u] = handler[u]
      /\ OnePerThread' /\ Interrupted' /\ (Reentered' <=> Reentered)
  BY <1>1, <1>2, CallMoves DEF WrittenInv
<1>4. ASSUME ~Reentered PROVE FileInv'
  <2>1. FileInv
    BY <1>4 DEF WrittenInv
  <2>2. CASE CheckCount(s) \/ EnterPrint(s) \/ Allocate(s) \/ EnterWrite(s)
               \/ Release(s) \/ Hang(s) \/ (Misuse(s) /\ exited' = exited)
    BY <1>1, <1>2, <1>4, <2>2, FileMoves
  <2>3. CASE StartRow(s)
    <3>1. handler'[s] = "printing"
      BY <2>3 DEF StartRow, Goto, Inv, TypeOK
    <3> QED
      BY <1>3, <2>1, <2>3, <3>1, FileStartRow
  <2>4. CASE EndRow(s)
    <3>1. handler'[s] = "flush"
      BY <2>4 DEF EndRow, Goto, Inv, TypeOK
    <3> QED
      BY <1>3, <2>1, <2>4, <3>1, FileEndRow
  <2>5. CASE Write(s)
    <3>1. \/ handler[s] = "writing" /\ place = "written"
          \/ handler[s] = "closing" /\ place = "emptied"
      BY <1>3, <2>5 DEF Write, At, Goto, Inv, TypeOK
    <3> QED
      BY <1>3, <2>1, <2>5, <3>1, FileWrite
  <2>6. CASE Empty(s) \/ CloseFile(s)
    <3>1. /\ \/ handler[s] = "written" /\ place = "close" /\ closed' = closed
             \/ handler[s] = "emptied" /\ place = "release" /\ closed' = TRUE
          /\ buffered' = <<>>
          /\ UNCHANGED <<mainVars, opened, csv, exited>>
      BY <1>3, <2>6 DEF Empty, CloseFile, At, Goto, Inv, TypeOK
    <3> QED
      BY <1>3, <2>1, <3>1, FileEmpty
  <2>7. Misuse(s) => exited' = exited
    BY DEF Misuse
  <2> QED
    BY <2>2, <2>3, <2>4, <2>5, <2>6, <2>7 DEF HandleSignal
<1> QED
  BY <1>3, <1>4 DEF WrittenInv

LEMMA WrittenStep == Inv /\ WrittenInv /\ [Next]_vars => WrittenInv'
<1> SUFFICES ASSUME Inv, WrittenInv, [Next]_vars PROVE WrittenInv'
  OBVIOUS
<1>1. CASE UNCHANGED vars
  <2>1. /\ opened' = opened /\ acc' = acc /\ handler' = handler /\ exited' = exited
        /\ csv' = csv /\ buffered' = buffered /\ closed' = closed
        /\ thread' = thread /\ stopped' = stopped
    BY <1>1 DEF vars, mainVars, callVars, fileVars
  <2> QED
    BY <2>1 DEF WrittenInv, FileInv, OneInside, WholeRows, ClosedBeforeExit, RowOnItsWay,
       OnePerThread, Interrupted, Reentered
<1> QED
  BY <1>1, WrittenLeader, WrittenSignal, WrittenEnd, WrittenCall DEF Next

\* Although _exit flushes nothing and several calls of the handler share the file
\* (shard_worker.c:53-69), the process ends with no row left in the buffer, with
\* only whole rows in the file, and with at least one if there was a block to
\* report, unless a call was interrupted by another inside fprintf, fflush or
\* fclose: RowBeforeExit, for any number of signals, threads and blocks.
THEOREM WritesBeforeExit == Spec => []RowBeforeExit
<1>1. Init => WrittenInv
  <2>1. ASSUME Init PROVE WrittenInv
    <3>1. /\ \A s \in Signals : handler[s] = "none"
          /\ ~closed /\ ~exited /\ csv = <<>> /\ buffered = <<>>
      BY <2>1 DEF Init
    <3>2. OnePerThread
      BY <3>1 DEF OnePerThread
    <3>3. OneInside /\ WholeRows /\ ClosedBeforeExit /\ RowOnItsWay
      BY <3>1 DEF OneInside, WholeRows, ClosedBeforeExit, RowOnItsWay, InLibrary
    <3> QED
      BY <3>1, <3>2, <3>3 DEF WrittenInv, FileInv
  <2> QED
    BY <2>1
<1>2. WrittenInv => RowBeforeExit
  BY DEF WrittenInv, FileInv, OneInside, WholeRows, ClosedBeforeExit, RowOnItsWay,
     RowBeforeExit
<1> QED
  BY <1>1, <1>2, WrittenStep, Invariance, PTL DEF Spec
=============================================================================

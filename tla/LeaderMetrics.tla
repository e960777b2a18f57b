----------------------------- MODULE LeaderMetrics -----------------------------
(***************************************************************************)
(* The averages of the leader: four accumulators that run_leader updates   *)
(* after every block, and the handler that writes them as one row of       *)
(* results.csv when SIGTERM or SIGINT arrives (src/src/shard_worker.c).    *)
(* The first signal stops the main thread wherever it is and never returns *)
(* to it.  signal() masks only the signal itself, so a second one runs the *)
(* handler again, on top of the first call or on an idle OpenMP thread.    *)
(* The calls share one FILE: what its lock, its buffer and its allocation  *)
(* do when a call is stopped inside the C library is modelled step by      *)
(* step.  Of a sum only the blocks it covers matter: blocks are added in   *)
(* order, so their number stands for it.                                   *)
(***************************************************************************)
EXTENDS Integers, Sequences, Functions

CONSTANTS
    MaxBlocks,        \* bound on the blocks of a run
    Signals,          \* the signals sent to the leader
    Threads,          \* the threads that may run the handler
    MainThread        \* the one that runs run_leader

ASSUME BlocksAssumption == MaxBlocks \in Nat
ASSUME ThreadsAssumption == MainThread \in Threads

\* g_sum_block_time, g_sum_tps, g_total_tx and g_block_count.
Accumulators == {"sum_block_time", "sum_tps", "total_tx", "block_count"}

VARIABLES
    main,             \* run_leader: blocked in zmq_recv, busy, or adding up
    finalized,        \* history: the blocks finalized so far
    acc,              \* how many blocks each accumulator covers
    pending,          \* the accumulators still to be stored for this block
    opened,           \* fopen gave a file: g_csv is not NULL
    handler,          \* where each call of handle_sigterm is
    thread,           \* the thread each call runs on
    stopped,          \* the calls with another on top: they never move again
    allocated,        \* g_csv has its buffer
    buffered,         \* the rows in the buffer of g_csv
    csv,              \* the rows in results.csv
    closed,           \* g_csv is closed
    exited            \* the process is gone

mainVars == <<main, finalized, acc, pending>>
callVars == <<thread, stopped>>
fileVars == <<allocated, buffered, csv, closed>>
vars == <<mainVars, opened, handler, callVars, fileVars, exited>>

Goto(s, place) == handler' = [handler EXCEPT ![s] = place]

-----------------------------------------------------------------------------
(***************************************************************************)
(* Seeded faults, substituted one at a time to show that a property fails. *)
(***************************************************************************)
FaultyAllStored == pending \subseteq {"sum_tps"}
FaultyAdded(a) == acc[a] + finalized
FaultyWriteAlways == ~opened
FaultyWriteFromTwo == ~opened \/ acc["block_count"] <= 1
\* A handler without the fclose.
FaultyEmpty(s) ==
    /\ ~exited /\ s \notin stopped
    /\ handler[s] = "written"
    /\ buffered' = <<>>
    /\ Goto(s, "exit")
    /\ UNCHANGED <<mainVars, opened, callVars, allocated, csv, closed, exited>>

-----------------------------------------------------------------------------
Interrupted == \E s \in Signals : handler[s] # "none"

AllStored == pending = {}

\* A header arrives and zmq_recv returns: from here on the leader allocates,
\* frees and prints, all of which take locks of the C library.
StartRound ==
    /\ ~Interrupted
    /\ main = "recv"
    /\ finalized < MaxBlocks
    /\ main' = "busy"
    /\ UNCHANGED <<finalized, acc, pending, opened, handler, callVars, fileVars, exited>>

FinalizeBlock ==
    /\ ~Interrupted
    /\ main = "busy"
    /\ finalized' = finalized + 1
    /\ pending' = Accumulators
    /\ main' = "store"
    /\ UNCHANGED <<acc, opened, handler, callVars, fileVars, exited>>

Added(a) == acc[a] + 1

\* The accumulators are plain variables, not volatile: the compiler stores the
\* four in the order it likes.
Store(a) ==
    /\ ~Interrupted
    /\ main = "store"
    /\ a \in pending
    /\ acc' = [acc EXCEPT ![a] = Added(a)]
    /\ pending' = pending \ {a}
    /\ UNCHANGED <<main, finalized, opened, handler, callVars, fileVars, exited>>

\* The next zmq_recv may call anything: the stores are done before it.
NextRound ==
    /\ ~Interrupted
    /\ main = "store"
    /\ AllStored
    /\ main' = "recv"
    /\ UNCHANGED <<finalized, acc, pending, opened, handler, callVars, fileVars, exited>>

-----------------------------------------------------------------------------
\* A signal runs the handler on a thread that has not masked it: the first on
\* the main thread, which the kernel prefers, a later one on any.  A call that
\* runs there already stays where it is: the one on top of it never returns.
Signal(s, t) ==
    /\ ~exited
    /\ handler[s] = "none"
    /\ t = MainThread \/ Interrupted
    /\ Goto(s, "check")
    /\ thread' = [thread EXCEPT ![s] = t]
    /\ stopped' = stopped \cup {u \in Signals : handler[u] # "none" /\ thread[u] = t}
    /\ UNCHANGED <<mainVars, opened, fileVars, exited>>

At(s, place) == ~exited /\ s \notin stopped /\ handler[s] = place

NothingToWrite == ~opened \/ acc["block_count"] = 0

\* write_csv_summary returns early, or goes on to fprintf; if (g_csv) fclose.
CheckCount(s) ==
    /\ At(s, "check")
    /\ Goto(s, IF ~NothingToWrite THEN "format"
               ELSE IF opened THEN "close" ELSE "exit")
    /\ UNCHANGED <<mainVars, opened, callVars, fileVars, exited>>

\* Inside fprintf, fflush or fclose a call holds the lock of g_csv.
InLibrary == {"allocate", "print", "printing", "writing", "written",
              "closing", "emptied", "release", "hung"}

Places == {"none", "check", "format", "flush", "close", "exit"} \cup InLibrary

\* The lock counts per thread: a call on top of its holder takes it as well.
LockFree(s) ==
    \A u \in Signals : handler[u] \in InLibrary => thread[u] = thread[s]

\* fprintf, fflush or fclose is called on a file that is open, and takes its lock.
Enters(s, place) == At(s, place) /\ ~closed /\ LockFree(s)

EnterPrint(s) ==
    /\ Enters(s, "format")
    /\ Goto(s, IF allocated THEN "print" ELSE "allocate")
    /\ UNCHANGED <<mainVars, opened, callVars, fileVars, exited>>

\* The first fprintf allocates the buffer of g_csv.
Allocate(s) ==
    /\ At(s, "allocate")
    /\ allocated' = TRUE
    /\ Goto(s, "print")
    /\ UNCHANGED <<mainVars, opened, callVars, buffered, csv, closed, exited>>

\* The row goes to the buffer piece by piece: here it begins, ...
StartRow(s) ==
    /\ At(s, "print")
    /\ buffered' = Append(buffered, [row |-> acc, whole |-> FALSE])
    /\ Goto(s, "printing")
    /\ UNCHANGED <<mainVars, opened, callVars, allocated, csv, closed, exited>>

LastWhole(q) == [q EXCEPT ![Len(q)].whole = TRUE]

\* ... and here it ends.
EndRow(s) ==
    /\ At(s, "printing")
    /\ buffered' = LastWhole(buffered)
    /\ Goto(s, "flush")
    /\ UNCHANGED <<mainVars, opened, callVars, allocated, csv, closed, exited>>

\* fflush, and later fclose, take the lock.
EnterWrite(s) ==
    /\ \/ Enters(s, "flush") /\ Goto(s, "writing")
       \/ Enters(s, "close") /\ Goto(s, "closing")
    /\ UNCHANGED <<mainVars, opened, callVars, fileVars, exited>>

\* What the file holds when the buffer was written to it.
Flushed == csv \o buffered

\* fflush and fclose write the buffer to the file first, ...
Write(s) ==
    /\ csv' = Flushed
    /\ \/ At(s, "writing") /\ Goto(s, "written")
       \/ At(s, "closing") /\ Goto(s, "emptied")
    /\ UNCHANGED <<mainVars, opened, callVars, allocated, buffered, closed, exited>>

\* ... and then forget what was written: fflush returns.
Empty(s) ==
    /\ At(s, "written")
    /\ buffered' = <<>>
    /\ Goto(s, "close")
    /\ UNCHANGED <<mainVars, opened, callVars, allocated, csv, closed, exited>>

CloseFile(s) ==
    /\ At(s, "emptied")
    /\ buffered' = <<>>
    /\ closed' = TRUE
    /\ Goto(s, "release")
    /\ UNCHANGED <<mainVars, opened, callVars, allocated, csv, exited>>

\* fclose frees the buffer and the file, and returns.
Release(s) ==
    /\ At(s, "release")
    /\ Goto(s, "exit")
    /\ UNCHANGED <<mainVars, opened, callVars, fileVars, exited>>

\* malloc and free take a lock of their own.  It may be held by what the
\* signals stopped: by the main thread, or by an earlier call of the handler.
AllocatorHeld ==
    \/ main = "busy"
    \/ \E u \in stopped : handler[u] \in {"allocate", "release"}

\* The holder never goes on, so the call waits for ever.
Hang(s) ==
    /\ At(s, "allocate") \/ At(s, "release")
    /\ AllocatorHeld
    /\ Goto(s, "hung")
    /\ UNCHANGED <<mainVars, opened, callVars, fileVars, exited>>

\* The call on top of one that was stopped in the middle of using g_csv.
OnUse(s) == \E u \in stopped : thread[u] = thread[s] /\ handler[u] \in InLibrary

\* Using a file that another call has closed, or a file whose buffer and
\* pointers are half set, has no defined outcome: the call may hang, do
\* nothing, or end the process.  On a half-set file it may also go on as usual.
Misuse(s) ==
    /\ closed \/ OnUse(s)
    /\ \E place \in {"format", "flush", "close"} :
          /\ At(s, place)
          /\ \/ Goto(s, "hung") /\ UNCHANGED exited
             \/ /\ Goto(s, CASE place = "format" -> "flush"
                              [] place = "flush"  -> "close"
                              [] place = "close"  -> "exit")
                /\ UNCHANGED exited
             \/ exited' = TRUE /\ UNCHANGED handler
    /\ UNCHANGED <<mainVars, opened, callVars, fileVars>>

\* _exit does not flush.
Exit(s) ==
    /\ At(s, "exit")
    /\ exited' = TRUE
    /\ UNCHANGED <<mainVars, opened, handler, callVars, fileVars>>

-----------------------------------------------------------------------------
Init ==
    /\ main = "recv"
    /\ finalized = 0
    /\ acc = [a \in Accumulators |-> 0]
    /\ pending = {}
    /\ opened \in BOOLEAN
    /\ handler = [s \in Signals |-> "none"]
    /\ thread = [s \in Signals |-> MainThread]
    /\ stopped = {}
    /\ allocated = FALSE
    /\ buffered = <<>>
    /\ csv = <<>>
    /\ closed = FALSE
    /\ exited = FALSE

Leader ==
    \/ StartRound
    \/ FinalizeBlock
    \/ \E a \in pending : Store(a)
    \/ NextRound

HandleSignal(s) ==
    \/ CheckCount(s)
    \/ EnterPrint(s)
    \/ Allocate(s)
    \/ StartRow(s)
    \/ EndRow(s)
    \/ EnterWrite(s)
    \/ Write(s)
    \/ Empty(s)
    \/ CloseFile(s)
    \/ Release(s)
    \/ Hang(s)
    \/ Misuse(s)
    \/ Exit(s)

Next ==
    \/ Leader
    \/ \E s \in Signals : (\E t \in Threads : Signal(s, t)) \/ HandleSignal(s)

Spec == Init /\ [][Next]_vars

\* A call that can run on does, the one on top where several share a thread; no
\* signal has to come.
FairSpec == Spec /\ WF_vars(\E s \in Signals : HandleSignal(s))

-----------------------------------------------------------------------------
Row == [Accumulators -> 0..MaxBlocks]

\* A row, and whether all of it was printed.
Item == [row : Row, whole : BOOLEAN]

Rows == {item.row : item \in Range(csv) \cup Range(buffered)}

\* A call of the handler was stopped while it used the file, and another runs
\* on top of it: from then on nothing is certain about the file.
Reentered == \E u \in stopped : handler[u] \in InLibrary

\* The type of every variable.
TypeOK ==
    /\ main \in {"recv", "busy", "store"}
    /\ finalized \in 0..MaxBlocks
    /\ acc \in Row
    /\ pending \subseteq Accumulators
    /\ opened \in BOOLEAN /\ closed \in BOOLEAN /\ exited \in BOOLEAN
    /\ handler \in [Signals -> Places]
    /\ thread \in [Signals -> Threads]
    /\ stopped \subseteq Signals
    /\ allocated \in BOOLEAN
    /\ buffered \in Seq(Item)
    /\ csv \in Seq(Item)

\* A row never divides by zero and misses at most the last block in any of its
\* fields, whenever the signals arrive: no call of the handler, also one that
\* interrupts another, prints anything else.
RowNearlyExact ==
    \A row \in Rows : /\ row["block_count"] > 0
                      /\ \A a \in Accumulators : row[a] \in {finalized - 1, finalized}

\* A leader stopped while it waits for the next round writes the averages of
\* all its blocks.
QuietRowExact ==
    main = "recv" => \A row \in Rows : \A a \in Accumulators : row[a] = finalized

\* Although _exit flushes nothing and the calls of the handler share the file,
\* the process ends with no row left in the buffer, with only whole rows in the
\* file, and with at least one if there was a block to report - as long as no
\* call was interrupted by another while it was inside fprintf, fflush or fclose.
RowBeforeExit ==
    exited /\ opened /\ ~Reentered =>
        /\ buffered = <<>>
        /\ \A i \in DOMAIN csv : csv[i].whole
        /\ acc["block_count"] > 0 => csv # <<>>

\* A leader stopped while it waits for the next round writes its row, also when
\* another signal runs the handler again beside the first call or on top of it,
\* unless that signal finds a call inside fprintf, fflush or fclose.  The call on
\* top may then wait for ever for the allocator its own thread has locked, as
\* the first call may if its signal finds the leader busy.
QuietSignalWrites ==
    \A s \in Signals :
        handler[s] = "check" /\ main = "recv" /\ opened /\ acc["block_count"] > 0
            ~> csv # <<>> \/ Reentered

-----------------------------------------------------------------------------
\* What each accumulator covers, and the bound on the blocks.
AccumulatorsMatch ==
    /\ \A a \in Accumulators :
          acc[a] = IF a \in pending THEN finalized - 1 ELSE finalized
    /\ main # "store" => pending = {}
    /\ main = "busy" => finalized < MaxBlocks

\* Rows come from a handler, which has stopped the main thread and found a
\* block: they hold what the accumulators still hold.
RowsMatch ==
    /\ \A row \in Rows : row = acc /\ acc["block_count"] > 0
    /\ Rows # {} => Interrupted
    /\ \A s \in Signals :
          handler[s] \in {"format", "allocate", "print"} => acc["block_count"] > 0

\* The lock keeps the calls apart: while the file is open one of them at most is
\* inside the library, and once it is closed none is before its release.
OneInside ==
    /\ ~closed => \A s, u \in Signals :
                     handler[s] \in InLibrary /\ handler[u] \in InLibrary => s = u
    /\ closed => /\ buffered = <<>>
                 /\ \A s \in Signals : handler[s] \notin InLibrary \ {"release", "hung"}

\* Only the row being printed is not whole, and it is the last of the buffer.
WholeRows ==
    /\ \A i \in DOMAIN csv : csv[i].whole
    /\ \A i \in DOMAIN buffered :
          \/ buffered[i].whole
          \/ i = Len(buffered) /\ \E s \in Signals : handler[s] = "printing"

\* With blocks to report, no call passes fflush before a row is in the file.
RowOnItsWay ==
    /\ \A s \in Signals :
          /\ handler[s] = "printing" => buffered # <<>>
          /\ handler[s] \in {"flush", "writing"} => csv # <<>> \/ buffered # <<>>
          /\ handler[s] \in {"written", "close", "closing", "emptied", "release", "exit"}
                => csv # <<>>
    /\ closed => csv # <<>>

\* A call that reaches the end of the handler, and the end of the process, find
\* the file closed.
ClosedBeforeExit ==
    opened => /\ exited => closed
              /\ \A s \in Signals : handler[s] \in {"release", "exit"} => closed

\* Of the calls on one thread all but the one on top are stopped.
OnePerThread ==
    \A s \in Signals : \A u \in Signals \ {s} :
        handler[s] # "none" /\ handler[u] # "none" /\ thread[s] = thread[u]
            => s \in stopped \/ u \in stopped

FileInv ==
    /\ OneInside
    /\ WholeRows
    /\ ClosedBeforeExit
    /\ opened /\ acc["block_count"] > 0 => RowOnItsWay

\* The inductive invariant behind RowBeforeExit: how the calls of the handler
\* stand to the file while none was stopped inside the library.
WrittenInv ==
    /\ OnePerThread
    /\ closed \/ exited => Interrupted
    /\ ~Reentered => FileInv

\* The inductive invariant behind RowNearlyExact and QuietRowExact.
Inv == TypeOK /\ AccumulatorsMatch /\ RowsMatch
=============================================================================

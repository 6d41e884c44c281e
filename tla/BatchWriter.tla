----------------------------- MODULE BatchWriter -----------------------------
(***************************************************************************)
(* BBP::CSV::BatchWriter: rows are put in a buffer, and whoever finds it   *)
(* due takes all of it and writes it to the open file; a background thread *)
(* may do so too.                                                          *)
(*                                                                         *)
(* buffer_mutex_ guards the buffer, writer_mutex_ the file, and neither    *)
(* guards every access: file_open_, header_written_ and the size of the    *)
(* buffer are read without a lock.  (The buffer's storage is reserved once *)
(* and for all, so such a read gives an old or a new size, nothing else.)  *)
(*                                                                         *)
(* A row is the number of rows accepted before it, plus one.               *)
(***************************************************************************)
EXTENDS Integers, Sequences, FiniteSets, SequencesExt

CONSTANTS
  Callers,     \* threads of the application
  Background,  \* the thread of backgroundFlushWorker
  Uses,        \* the operations each caller uses
  Capacity,    \* max_rows_in_buffer
  Threshold,   \* flush_row_threshold
  Triggers,    \* the values of flush_trigger in use
  MaxBatch,    \* bound: rows of one writeRows
  MaxRows,     \* bound: rows accepted
  None

Threads == Callers \cup {Background}
WriterOperations == {"writeRow", "writeRows", "writeHeader", "flush", "openFile", "closeFile",
                     "clearBuffer", "enableAutoFlush", "setConfig"}

\* One thread owns the file and the background thread (recover, which is
\* clearBuffer to the thread that also closes the file, is no operation of its
\* own).
Owned == {"openFile", "closeFile", "enableAutoFlush"}

\* What is assumed of the constants.
ASSUME BatchWriterAssumption ==
  /\ Background \notin Callers /\ None \notin Threads
  /\ Uses \in [Callers -> SUBSET WriterOperations]
  /\ \A c, d \in Callers : Uses[c] \cap Owned # {} /\ Uses[d] \cap Owned # {} => c = d
  /\ Capacity \in Nat \ {0} /\ Threshold \in Nat \ {0}
  /\ Triggers \subseteq {"MANUAL", "ROW_COUNT", "TIME_INTERVAL", "MIXED"}
  /\ MaxBatch \in Nat \ {0} /\ MaxRows \in Nat

VARIABLES
  writer,      \* who holds writer_mutex_
  open,        \* file_open_
  output,      \* output_stream_ is not null
  header,      \* header_written_
  trigger,     \* config_.flush_trigger
  row_buffer,  \* row_buffer_
  running,     \* background_flush_running_
  should_stop, \* should_stop_background_
  op,          \* what each thread does
  written,     \* the rows in the files, in order
  accepted,    \* observer: rows put in the buffer
  dropped,     \* observer: rows cleared, or of a write that failed
  unserial,    \* observer: two threads were in flushInternal at a time
  unchecked,   \* observer: a row was put in the buffer with no file open, or one
               \* being closed, or a batch was ended by a row that was refused
  crashed      \* output_stream_ was null when written to

file == <<writer, open, output, header>>
writerFlags == <<running, should_stop>>
writerGhosts == <<accepted, dropped, unserial, unchecked>>
writerVars == <<file, trigger, row_buffer, writerFlags, op, written, writerGhosts, crashed>>

\* at: where the thread is; call: the operation it is in; left: rows it has
\* yet to put in the buffer; data: rows it has taken to write; ok, mark: for
\* closeFile, its result, and the rows accepted before it had the lock.
Idle == [at |-> "idle", call |-> "none", left |-> 0, data |-> <<>>, ok |-> TRUE, mark |-> 0]

At(t, label) == op[t].at = label
Closes(t) == op[t].call = "closeFile"
Goes(t, label) == op' = [op EXCEPT ![t].at = label]
Returns(t) == op' = [op EXCEPT ![t] = Idle]

\* A thread that waits for the buffer_mutex_ it holds, never gives it back.
BufferFree == \A t \in Threads : ~At(t, "full")

Calls(c, operation, label, rows) ==
  /\ ~crashed /\ operation \in Uses[c] /\ At(c, "idle")
  /\ op' = [op EXCEPT ![c] = [Idle EXCEPT !.at = label, !.call = operation, !.left = rows]]

-----------------------------------------------------------------------------
(* writeRow, writeRows, writeHeader: rows go to the buffer.                *)

WriteRow(c) ==
  /\ open
  /\ Calls(c, "writeRow", "push", 1)
  /\ UNCHANGED <<file, trigger, row_buffer, writerFlags, written, writerGhosts, crashed>>

\* writeRows does not look whether a file is open.
WriteRows(c) ==
  /\ \E n \in 1 .. MaxBatch : Calls(c, "writeRows", "push", n)
  /\ UNCHANGED <<file, trigger, row_buffer, writerFlags, written, writerGhosts, crashed>>

\* Nor does writeHeader.
WriteHeader(c) ==
  /\ ~header
  /\ Calls(c, "writeHeader", "push", 1)
  /\ UNCHANGED <<file, trigger, row_buffer, writerFlags, written, writerGhosts, crashed>>

\* writeRowInternal finds room, or a full buffer that flushInternal leaves
\* alone because no file is open.
Pushes(t) ==
  /\ ~crashed /\ At(t, "push") /\ op[t].left > 0 /\ BufferFree
  /\ accepted < MaxRows
  /\ Len(row_buffer) < Capacity \/ ~open
  /\ accepted' = accepted + 1
  /\ row_buffer' = Append(row_buffer, accepted')
  /\ unchecked' = (unchecked \/ ~open \/ \E c \in Callers : Closes(c))
  /\ op' = [op EXCEPT ![t].left = @ - 1]
  /\ UNCHANGED <<file, trigger, writerFlags, written, dropped, unserial, crashed>>

\* The buffer is full: flushInternal is called, and wants buffer_mutex_.
MeetsFull(t) ==
  /\ ~crashed /\ At(t, "push") /\ op[t].left > 0 /\ BufferFree
  /\ Len(row_buffer) >= Capacity /\ open
  /\ Goes(t, "full")
  /\ UNCHANGED <<file, trigger, row_buffer, writerFlags, written, writerGhosts, crashed>>

\* An empty row is skipped.
Skips(t) ==
  /\ ~crashed /\ At(t, "push") /\ op[t].left > 0
  /\ op' = [op EXCEPT ![t].left = @ - 1]
  /\ UNCHANGED <<file, trigger, row_buffer, writerFlags, written, writerGhosts, crashed>>

\* An oversized field ends the call (unless continue_on_error has the row
\* pushed all the same), and nobody looks whether the rows before are due.
Refuses(t) ==
  /\ ~crashed /\ At(t, "push") /\ op[t].left > 0
  /\ unchecked' = (unchecked \/ op[t].call = "writeRows")
  /\ Returns(t)
  /\ UNCHANGED <<file, trigger, row_buffer, writerFlags, written, accepted, dropped, unserial,
                 crashed>>

\* Fault: shouldFlush says yes one row too late.
DueLate ==
  CASE trigger = "MANUAL" -> {FALSE}
    [] trigger = "ROW_COUNT" -> {Len(row_buffer) > Threshold}
    [] trigger = "TIME_INTERVAL" -> BOOLEAN
    [] trigger = "MIXED" -> {Len(row_buffer) > Threshold, TRUE}

\* The answers shouldFlush may give: the time is not modelled.
Due ==
  CASE trigger = "MANUAL" -> {FALSE}
    [] trigger = "ROW_COUNT" -> {Len(row_buffer) >= Threshold}
    [] trigger = "TIME_INTERVAL" -> BOOLEAN
    [] trigger = "MIXED" -> {Len(row_buffer) >= Threshold, TRUE}

\* All rows are in the buffer: flushIfNeeded.  A header is flushed without
\* writer_mutex_.
Pushed(t) ==
  /\ ~crashed /\ At(t, "push") /\ op[t].left = 0
  /\ IF op[t].call = "writeHeader"
     THEN header' = TRUE /\ Goes(t, "flush")
     ELSE /\ header' = header
          /\ \E due \in Due :
               op' = [op EXCEPT ![t] = IF due THEN [Idle EXCEPT !.at = "lock", !.call = "flush"]
                                       ELSE Idle]
  /\ UNCHANGED <<writer, open, output, trigger, row_buffer, writerFlags, written, writerGhosts,
                 crashed>>

-----------------------------------------------------------------------------
(* flush and flushInternal.                                                *)

Flush(c) ==
  /\ Calls(c, "flush", "lock", 0)
  /\ UNCHANGED <<file, trigger, row_buffer, writerFlags, written, writerGhosts, crashed>>

\* flush, closeFile: the guard of writer_mutex_.
Locks(t) ==
  /\ ~crashed /\ At(t, "lock") /\ writer = None
  /\ writer' = t
  /\ op' = [op EXCEPT ![t].at = "flush", ![t].mark = IF Closes(t) THEN accepted ELSE 0]
  /\ UNCHANGED <<open, output, header, trigger, row_buffer, writerFlags, written, writerGhosts,
                 crashed>>

InFlush(t) == op[t].at \in {"take", "write"}

\* Fault: a closing file is flushed only if a flush is due.
EntersIfDue(t) ==
  /\ ~crashed /\ At(t, "flush")
  /\ Goes(t, IF open /\ Len(row_buffer) >= Threshold THEN "take" ELSE "flushed")
  /\ unserial' = (unserial \/ \E u \in Threads \ {t} : InFlush(u))
  /\ UNCHANGED <<file, trigger, row_buffer, writerFlags, written, accepted, dropped, unchecked,
                 crashed>>

\* Looks at the buffer without its lock.
EntersFlush(t) ==
  /\ ~crashed /\ At(t, "flush")
  /\ Goes(t, IF open /\ row_buffer # <<>> THEN "take" ELSE "flushed")
  /\ unserial' = (unserial \/ \E u \in Threads \ {t} : InFlush(u))
  /\ UNCHANGED <<file, trigger, row_buffer, writerFlags, written, accepted, dropped, unchecked,
                 crashed>>

\* Fault: the buffer is not cleared.
Copies(t) ==
  /\ ~crashed /\ At(t, "take") /\ BufferFree
  /\ op' = [op EXCEPT ![t].at = "write", ![t].data = row_buffer]
  /\ UNCHANGED <<file, trigger, row_buffer, writerFlags, written, writerGhosts, crashed>>

Takes(t) ==
  /\ ~crashed /\ At(t, "take") /\ BufferFree
  /\ op' = [op EXCEPT ![t].at = IF row_buffer = <<>> THEN "flushed" ELSE "write",
                      ![t].data = row_buffer]
  /\ row_buffer' = <<>>
  /\ UNCHANGED <<file, trigger, writerFlags, written, writerGhosts, crashed>>

\* compressAndWrite.  A compression that failed may succeed the next time.
Writes(t) ==
  /\ ~crashed /\ At(t, "write") /\ output
  /\ \E ok \in BOOLEAN :
       /\ op' = [op EXCEPT ![t].at = "flushed", ![t].data = <<>>, ![t].ok = ok \/ ~Closes(t)]
       /\ written' = IF ok THEN written \o op[t].data ELSE written
       /\ dropped' = IF ok THEN dropped ELSE dropped \cup ToSet(op[t].data)
  /\ UNCHANGED <<file, trigger, row_buffer, writerFlags, accepted, unserial, unchecked,
                 crashed>>

WritesToNull(t) ==
  /\ ~crashed /\ At(t, "write") /\ ~output
  /\ crashed' = TRUE
  /\ UNCHANGED <<file, trigger, row_buffer, writerFlags, op, written, writerGhosts>>

\* Back in the caller of flushInternal.
Flushed(c) ==
  /\ ~crashed /\ At(c, "flushed") /\ ~Closes(c)
  /\ writer' = IF writer = c THEN None ELSE writer
  /\ Returns(c)
  /\ UNCHANGED <<open, output, header, trigger, row_buffer, writerFlags, written, writerGhosts,
                 crashed>>

ClearBuffer(c) ==
  /\ ~crashed /\ "clearBuffer" \in Uses[c] /\ At(c, "idle") /\ BufferFree
  /\ row_buffer' = <<>>
  /\ dropped' = dropped \cup ToSet(row_buffer)
  /\ UNCHANGED <<file, trigger, writerFlags, op, written, accepted, unserial, unchecked,
                 crashed>>

-----------------------------------------------------------------------------
(* The file.                                                               *)

\* openFile, openStream: the rows in the buffer stay there.
OpenFile(c) ==
  /\ ~crashed /\ "openFile" \in Uses[c] /\ At(c, "idle") /\ writer = None /\ ~open
  /\ open' = TRUE /\ output' = TRUE /\ header' = FALSE
  /\ UNCHANGED <<writer, trigger, row_buffer, writerFlags, op, written, writerGhosts, crashed>>

SetWriterConfig(c) ==
  /\ ~crashed /\ "setConfig" \in Uses[c] /\ At(c, "idle") /\ writer = None
  /\ trigger' \in Triggers
  /\ UNCHANGED <<file, row_buffer, writerFlags, op, written, writerGhosts, crashed>>

CloseFile(c) ==
  /\ open
  /\ Calls(c, "closeFile", "lock", 0)
  /\ UNCHANGED <<file, trigger, row_buffer, writerFlags, written, writerGhosts, crashed>>

\* The thread is told to stop, and joined, under writer_mutex_.
CloseStops(c) ==
  /\ ~crashed /\ At(c, "flushed") /\ Closes(c)
  /\ should_stop' = (should_stop \/ running)
  /\ Goes(c, IF running THEN "join" ELSE "close")
  /\ UNCHANGED <<file, trigger, row_buffer, running, written, writerGhosts, crashed>>

CloseResets(c) ==
  /\ ~crashed /\ At(c, "close") /\ output
  /\ output' = FALSE
  /\ UNCHANGED <<writer, open, header, trigger, row_buffer, writerFlags, op, written,
                 writerGhosts, crashed>>

CloseEnds(c) ==
  /\ ~crashed /\ At(c, "close") /\ ~output
  /\ open' = FALSE /\ header' = FALSE /\ writer' = None
  /\ Returns(c)
  /\ UNCHANGED <<output, trigger, row_buffer, writerFlags, written, writerGhosts, crashed>>

-----------------------------------------------------------------------------
(* The background thread.                                                  *)

StartBackgroundFlush(c) ==
  /\ ~crashed /\ "enableAutoFlush" \in Uses[c] /\ At(c, "idle") /\ ~running
  /\ should_stop' = FALSE /\ running' = TRUE
  /\ op' = [op EXCEPT ![Background] = [Idle EXCEPT !.at = "test", !.call = "background"]]
  /\ UNCHANGED <<file, trigger, row_buffer, written, writerGhosts, crashed>>

StopBackgroundFlush(c) ==
  /\ running
  /\ Calls(c, "enableAutoFlush", "join", 0)
  /\ should_stop' = TRUE
  /\ UNCHANGED <<file, trigger, row_buffer, running, written, writerGhosts, crashed>>

WriterJoins(c) ==
  /\ ~crashed /\ At(c, "join") /\ At(Background, "idle")
  /\ running' = FALSE
  /\ IF Closes(c) THEN Goes(c, "close") ELSE Returns(c)
  /\ UNCHANGED <<file, trigger, row_buffer, should_stop, written, writerGhosts, crashed>>

TestsStop ==
  /\ ~crashed /\ At(Background, "test")
  /\ IF should_stop THEN Returns(Background) ELSE Goes(Background, "wait")
  /\ UNCHANGED <<file, trigger, row_buffer, writerFlags, written, writerGhosts, crashed>>

\* Locks writer_mutex_ and, unless told to stop, gives it back to sleep.
Sleeps ==
  /\ ~crashed /\ At(Background, "wait") /\ writer = None
  /\ IF should_stop THEN Returns(Background) ELSE Goes(Background, "asleep")
  /\ UNCHANGED <<file, trigger, row_buffer, writerFlags, written, writerGhosts, crashed>>

\* Notified, or the interval is over: wait_for locks again and looks at the
\* flag, and the loop at the file.
Wakes ==
  /\ ~crashed /\ At(Background, "asleep") /\ writer = None
  /\ \E due \in Due :
       IF should_stop THEN Returns(Background) /\ writer' = writer
       ELSE IF open /\ due
       THEN Goes(Background, "flush") /\ writer' = Background
       ELSE Goes(Background, "test") /\ writer' = writer
  /\ UNCHANGED <<open, output, header, trigger, row_buffer, writerFlags, written, writerGhosts,
                 crashed>>

WorkerFlushed ==
  /\ ~crashed /\ At(Background, "flushed")
  /\ writer' = None
  /\ Goes(Background, "test")
  /\ UNCHANGED <<open, output, header, trigger, row_buffer, writerFlags, written, writerGhosts,
                 crashed>>

-----------------------------------------------------------------------------
WriterInit ==
  /\ writer = None /\ open = FALSE /\ output = FALSE /\ header = FALSE
  /\ trigger \in Triggers
  /\ row_buffer = <<>>
  /\ running = FALSE /\ should_stop = FALSE
  /\ op = [t \in Threads |-> Idle]
  /\ written = <<>>
  /\ accepted = 0 /\ dropped = {} /\ unserial = FALSE /\ unchecked = FALSE
  /\ crashed = FALSE

Flushing(t) == EntersFlush(t) \/ Takes(t) \/ Writes(t) \/ WritesToNull(t)

Continues(c) ==
  \/ Pushes(c) \/ MeetsFull(c) \/ Skips(c) \/ Refuses(c) \/ Pushed(c)
  \/ Locks(c) \/ Flushing(c) \/ Flushed(c)
  \/ CloseStops(c) \/ CloseResets(c) \/ CloseEnds(c) \/ WriterJoins(c)

WriterBegins(c) ==
  \/ WriteRow(c) \/ WriteRows(c) \/ WriteHeader(c) \/ Flush(c) \/ ClearBuffer(c)
  \/ OpenFile(c) \/ CloseFile(c) \/ SetWriterConfig(c)
  \/ StartBackgroundFlush(c) \/ StopBackgroundFlush(c)

BackgroundFlushWorker ==
  TestsStop \/ Sleeps \/ Wakes \/ Flushing(Background) \/ WorkerFlushed

WriterNext ==
  \/ \E c \in Callers : WriterBegins(c) \/ Continues(c)
  \/ BackgroundFlushWorker

WriterSpec == WriterInit /\ [][WriterNext]_writerVars

\* Threads are scheduled, and a mutex that is free time and again is got.
WriterFairness ==
  /\ \A c \in Callers : SF_writerVars(Continues(c))
  /\ SF_writerVars(BackgroundFlushWorker)

WriterFairSpec == WriterSpec /\ WriterFairness
-----------------------------------------------------------------------------
(* Properties.                                                             *)

Labels == {"idle", "push", "full", "lock", "flush", "take", "write", "flushed", "close",
           "join", "test", "wait", "asleep"}

\* Every variable has its type.
TypeOK ==
  /\ writer \in Threads \cup {None}
  /\ {open, output, header, running, should_stop, unserial, unchecked, crashed} \subseteq BOOLEAN
  /\ trigger \in Triggers
  /\ accepted \in 0 .. MaxRows
  /\ {row_buffer, written} \cup {op[t].data : t \in Threads} \subseteq Seq(1 .. accepted)
  /\ dropped \subseteq 1 .. accepted
  /\ \A t \in Threads : At(t, "idle") \/ op[t].call # "none"
  /\ \A t \in Threads : op[t].at \in Labels /\ op[t].left \in 0 .. MaxBatch

\* The rows of a sequence were accepted in its order, and none twice.
InOrder(rows) == \A i, j \in DOMAIN rows : i < j => rows[i] < rows[j]

\* The rows a thread has taken and not written yet; one at most has some as
\* long as flushInternal is not entered twice.
InFlight ==
  LET t == CHOOSE t \in Threads : (\E u \in Threads : InFlush(u)) => InFlush(t)
  IN  op[t].data

\* As long as no header is flushed beside another flush, the rows written,
\* those being written and those in the buffer are, in this order, the rows
\* accepted, without those that were dropped: none is lost, none comes twice,
\* none overtakes another.
RowsInOrder ==
  /\ TypeOK
  /\ ~unserial =>
       LET rows == written \o InFlight \o row_buffer
       IN  InOrder(rows) /\ ToSet(rows) = (1 .. accepted) \ dropped

\* The rows keep that order, and a closeFile that returns SUCCESS has written every
\* row that was accepted before it locked the file and was not reported as failed to
\* someone else.
RowsReachTheFile ==
  [][/\ RowsInOrder'
     /\ \A c \in Callers :
          CloseEnds(c) /\ op[c].ok /\ ~unserial
            => 1 .. op[c].mark \subseteq ToSet(written) \cup dropped]_writerVars

\* Whatever the threads do together, every call returns, the background thread
\* is stopped, and the buffer is never met full, provided that it has room for
\* a batch of every thread beyond the threshold, that rows are written to files
\* that stay open and none is refused in a batch, and that the background
\* thread is stopped before closeFile.
CallsReturn ==
  \A c \in Callers :
    ~At(c, "idle") ~>
      \/ At(c, "idle") \/ unchecked \/ crashed
      \/ \E d \in Callers : At(d, "join") /\ Closes(d)

(***************************************************************************)
(* Promises of the documentation that the code does not keep.              *)
(***************************************************************************)

\* "Buffer full, flush immediately": a full buffer is flushed.
FullIsFlushed == \A t \in Threads : At(t, "full") ~> ~At(t, "full")

\* "Stop background flush if running": closeFile returns.
CloseReturns ==
  \A c \in Callers : Closes(c) ~> (At(c, "idle") \/ crashed)

\* rows_written_: a row counted as written is not lost.
CountedRowsWritten == dropped = {}

\* Nobody writes to a file that is closed.
StreamIsThere == ~crashed
=============================================================================

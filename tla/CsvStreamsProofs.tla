-------------------------- MODULE CsvStreamsProofs ---------------------------
(***************************************************************************)
(* RowsReachTheFile of BatchWriter, for any callers and uses, capacity,    *)
(* threshold and triggers, and any number of rows; BufferKeepsText of      *)
(* StreamingParser, for texts, buffers and configurations of every size.   *)
(***************************************************************************)
EXTENDS StreamingParser, BatchWriter, FiniteSetTheorems, WellFoundedInduction, TLAPS

USE DEF file, writerFlags, writerGhosts, writerVars

-----------------------------------------------------------------------------
(* Sequences of rows.                                                      *)

Below(S, T) == \A m \in S, n \in T : m < n

LEMMA ToSetOfSeq ==
  ASSUME NEW S, NEW batch \in Seq(S)
  PROVE  ToSet(batch) \subseteq S /\ \A n \in ToSet(batch) : \E i \in 1 .. Len(batch) : batch[i] = n
BY DEF ToSet

LEMMA SeqGrows ==
  ASSUME NEW m \in Nat, NEW n \in Nat, m <= n, NEW batch \in Seq(1 .. m)
  PROVE  batch \in Seq(1 .. n)
<1>1. \A i \in 1 .. Len(batch) : batch[i] \in 1 .. n
  OBVIOUS
<1>2. batch = [i \in 1 .. Len(batch) |-> batch[i]] /\ Len(batch) \in Nat
  OBVIOUS
<1>3. QED
  BY <1>1, <1>2

LEMMA SeqOfNat ==
  ASSUME NEW m \in Nat, NEW batch \in Seq(1 .. m)
  PROVE  batch \in Seq(Nat)
<1>1. \A i \in 1 .. Len(batch) : batch[i] \in Nat
  OBVIOUS
<1>2. batch = [i \in 1 .. Len(batch) |-> batch[i]] /\ Len(batch) \in Nat
  OBVIOUS
<1>3. QED
  BY <1>1, <1>2

\* Rows appended to rows accepted before them.
LEMMA Joined ==
  ASSUME NEW s \in Seq(Nat), NEW t \in Seq(Nat), InOrder(s), InOrder(t),
         Below(ToSet(s), ToSet(t))
  PROVE  InOrder(s \o t)
<1>1. /\ DOMAIN (s \o t) = 1 .. Len(s) + Len(t) /\ DOMAIN s = 1 .. Len(s) /\ DOMAIN t = 1 .. Len(t)
      /\ Len(s) \in Nat /\ Len(t) \in Nat
  OBVIOUS
<1>2. \A i \in 1 .. Len(s) : (s \o t)[i] = s[i] /\ s[i] \in ToSet(s)
  BY DEF ToSet
<1>3. \A i \in Len(s) + 1 .. Len(s) + Len(t) :
        (s \o t)[i] = t[i - Len(s)] /\ t[i - Len(s)] \in ToSet(t)
  BY DEF ToSet
<1> SUFFICES ASSUME NEW i \in 1 .. Len(s) + Len(t), NEW j \in 1 .. Len(s) + Len(t), i < j
             PROVE  (s \o t)[i] < (s \o t)[j]
  BY <1>1 DEF InOrder
<1>4. CASE j <= Len(s)
  <2>1. i \in 1 .. Len(s) /\ j \in 1 .. Len(s)
    BY <1>1, <1>4
  <2>2. s[i] < s[j]
    BY <1>1, <2>1 DEF InOrder
  <2>3. QED
    BY <1>2, <2>1, <2>2
<1>5. CASE i <= Len(s) /\ Len(s) < j
  <2>1. j \in Len(s) + 1 .. Len(s) + Len(t) /\ i \in 1 .. Len(s)
    BY <1>1, <1>5
  <2>2. QED
    BY <1>2, <1>3, <2>1 DEF Below
<1>6. CASE Len(s) < i
  <2>1. /\ i - Len(s) \in 1 .. Len(t) /\ j - Len(s) \in 1 .. Len(t) /\ i - Len(s) < j - Len(s)
        /\ i \in Len(s) + 1 .. Len(s) + Len(t) /\ j \in Len(s) + 1 .. Len(s) + Len(t)
    BY <1>1, <1>6
  <2>2. QED
    BY <1>1, <1>3, <2>1 DEF InOrder
<1>7. QED
  BY <1>1, <1>4, <1>5, <1>6

LEMMA ToSetJoined ==
  ASSUME NEW s \in Seq(Nat), NEW t \in Seq(Nat)
  PROVE  ToSet(s \o t) = ToSet(s) \cup ToSet(t)
<1>1. /\ DOMAIN (s \o t) = 1 .. Len(s) + Len(t) /\ DOMAIN s = 1 .. Len(s) /\ DOMAIN t = 1 .. Len(t)
      /\ Len(s) \in Nat /\ Len(t) \in Nat
  OBVIOUS
<1>2. \A i \in 1 .. Len(s) : (s \o t)[i] = s[i]
  OBVIOUS
<1>3. \A i \in Len(s) + 1 .. Len(s) + Len(t) : (s \o t)[i] = t[i - Len(s)]
  OBVIOUS
<1>4. \A n \in ToSet(s \o t) : n \in ToSet(s) \cup ToSet(t)
  <2> SUFFICES ASSUME NEW i \in 1 .. Len(s) + Len(t)
               PROVE  (s \o t)[i] \in ToSet(s) \cup ToSet(t)
    BY <1>1 DEF ToSet
  <2>1. CASE i <= Len(s)
    BY <1>1, <1>2, <2>1 DEF ToSet
  <2>2. CASE Len(s) < i
    <3>1. i - Len(s) \in 1 .. Len(t) /\ i \in Len(s) + 1 .. Len(s) + Len(t)
      BY <1>1, <2>2
    <3>2. QED
      BY <1>1, <1>3, <3>1 DEF ToSet
  <2>3. QED
    BY <1>1, <2>1, <2>2
<1>5. ToSet(s) \subseteq ToSet(s \o t)
  <2>1. \A i \in 1 .. Len(s) : i \in 1 .. Len(s) + Len(t)
    BY <1>1
  <2>2. QED
    BY <1>1, <1>2, <2>1 DEF ToSet
<1>6. ToSet(t) \subseteq ToSet(s \o t)
  <2> SUFFICES ASSUME NEW i \in 1 .. Len(t) PROVE t[i] \in ToSet(s \o t)
    BY <1>1 DEF ToSet
  <2> DEFINE j == i + Len(s)
  <2>1. j \in 1 .. Len(s) + Len(t) /\ j \in Len(s) + 1 .. Len(s) + Len(t) /\ j - Len(s) = i
    BY <1>1
  <2>2. (s \o t)[j] = t[i]
    BY <1>3, <2>1
  <2>3. QED
    BY <1>1, <2>1, <2>2 DEF ToSet
<1>7. QED
  BY <1>4, <1>5, <1>6

LEMMA Appended ==
  ASSUME NEW s \in Seq(Nat), InOrder(s), NEW n \in Nat, Below(ToSet(s), {n})
  PROVE  InOrder(Append(s, n)) /\ ToSet(Append(s, n)) = ToSet(s) \cup {n}
<1>1. Append(s, n) = s \o <<n>> /\ <<n>> \in Seq(Nat)
  OBVIOUS
<1>2. DOMAIN <<n>> = {1} /\ <<n>>[1] = n
  OBVIOUS
<1>3. ToSet(<<n>>) = {n}
  BY <1>2 DEF ToSet
<1>4. InOrder(<<n>>)
  BY <1>2 DEF InOrder
<1>5. InOrder(s \o <<n>>)
  BY <1>1, <1>3, <1>4, Joined
<1>6. ToSet(s \o <<n>>) = ToSet(s) \cup {n}
  BY <1>1, <1>3, ToSetJoined
<1>7. QED
  BY <1>1, <1>5, <1>6

LEMMA NoRows == InOrder(<<>>) /\ ToSet(<<>>) = {}
BY DEF InOrder, ToSet

-----------------------------------------------------------------------------
(* The inductive invariant.                                                *)

Names == WriterOperations \cup {"none", "background"}
Ops == [at : Labels, call : Names, left : 0 .. MaxBatch, data : Seq(Nat), ok : BOOLEAN, mark : Nat]

Flags ==
  /\ writer \in Threads \cup {None}
  /\ open \in BOOLEAN /\ output \in BOOLEAN /\ header \in BOOLEAN
  /\ running \in BOOLEAN /\ should_stop \in BOOLEAN
  /\ unserial \in BOOLEAN /\ unchecked \in BOOLEAN /\ crashed \in BOOLEAN
  /\ trigger \in Triggers

Rows ==
  /\ accepted \in 0 .. MaxRows
  /\ row_buffer \in Seq(1 .. accepted) /\ written \in Seq(1 .. accepted)
  /\ dropped \subseteq 1 .. accepted
  /\ \A t \in Threads : op[t].data \in Seq(1 .. accepted)

\* Who is not about to write has no rows in hand, only closeFile gets to the end
\* of it, and the background thread is at rest unless it runs.
OpSound(t, o) ==
  /\ o.at # "write" => o.data = <<>>
  /\ o.at # "idle" => o.call # "none"
  /\ o.at = "close" => o.call = "closeFile"
  /\ t = Background => o.at = "idle" \/ running

OpsSound == op \in [Threads -> Ops] /\ \A t \in Threads : OpSound(t, op[t])

\* Two threads are in flushInternal only after the observer has seen it.
OneFlushes ==
  ~unserial => \A t, u \in Threads : InFlush(t) /\ InFlush(u) => t = u

\* What is written comes before what is taken, that before what is buffered,
\* and together they are what was accepted and not dropped.
Ordered(data) ==
  /\ InOrder(written) /\ InOrder(data) /\ InOrder(row_buffer)
  /\ Below(ToSet(written), ToSet(data)) /\ Below(ToSet(written), ToSet(row_buffer))
  /\ Below(ToSet(data), ToSet(row_buffer))
  /\ ToSet(written) \cup ToSet(data) \cup ToSet(row_buffer) = (1 .. accepted) \ dropped

AllOrdered ==
  ~unserial =>
    /\ \A t \in Threads : InFlush(t) => Ordered(op[t].data)
    /\ (\A t \in Threads : ~InFlush(t)) => Ordered(<<>>)

\* closeFile is called by the owner of an open file and has, where it is, in
\* hand or done with every row it has to write.
CloseSound(t, o) ==
  o.call = "closeFile" =>
    /\ t \in Callers /\ "closeFile" \in Uses[t] /\ open
    /\ o.at \in {"lock", "flush", "take", "write", "flushed", "join", "close"}
    /\ o.mark <= accepted
    /\ ~unserial =>
         /\ o.at = "write" => 1 .. o.mark \subseteq ToSet(written) \cup dropped \cup ToSet(o.data)
         /\ o.at \in {"flushed", "join", "close"}
              => 1 .. o.mark \subseteq ToSet(written) \cup dropped

ClosesSound == \A t \in Threads : CloseSound(t, op[t])

WriterIInv == Flags /\ Rows /\ OpsSound /\ OneFlushes /\ AllOrdered /\ ClosesSound

-----------------------------------------------------------------------------
(* Steps that touch no row.                                                *)

untouched == <<row_buffer, written, accepted, dropped, unserial>>

\* A thread moves on outside flushInternal.
Moves(t, o) ==
  /\ op' = [op EXCEPT ![t] = o] /\ ~InFlush(t) /\ o.at \notin {"take", "write"} /\ o.data = <<>>
  /\ UNCHANGED untouched

LEMMA MovesStep ==
  ASSUME WriterIInv, NEW t \in Threads, NEW o \in Ops, Moves(t, o), Flags',
         OpSound(t, o)', CloseSound(t, o)',
         t # Background => running' = running \/ op[Background].at = "idle",
         open' = open \/ \A u \in Threads \ {t} : ~Closes(u)
  PROVE  WriterIInv'
<1> USE DEF WriterIInv, Moves, untouched
<1>1. op \in [Threads -> Ops] /\ op'[t] = o /\ \A u \in Threads \ {t} : op'[u] = op[u]
  BY DEF OpsSound
<1>2. Rows'
  <2>1. <<>> \in Seq(1 .. accepted)
    OBVIOUS
  <2>2. \A u \in Threads : op'[u].data \in Seq(1 .. accepted)
    BY <1>1, <2>1 DEF Rows
  <2>3. QED
    BY <2>2 DEF Rows
<1>3. OpsSound'
  <2>1. op' \in [Threads -> Ops]
    BY <1>1
  <2>2. \A u \in Threads \ {t} : OpSound(u, op[u])'
    BY <1>1 DEF OpsSound, OpSound
  <2>3. QED
    BY <1>1, <2>1, <2>2 DEF OpsSound, OpSound
<1>4. \A u \in Threads : InFlush(u)' <=> InFlush(u)
  BY <1>1 DEF InFlush
<1>5. OneFlushes'
  BY <1>4 DEF OneFlushes
<1>6. AllOrdered'
  <2>1. \A u \in Threads : InFlush(u) => op'[u].data = op[u].data
    BY <1>1
  <2>2. QED
    BY <1>4, <2>1 DEF AllOrdered, Ordered
<1>7. ClosesSound'
  <2>1. ASSUME NEW u \in Threads \ {t} PROVE CloseSound(u, op[u])'
    <3>1. CASE ~Closes(u)
      BY <1>1, <3>1 DEF CloseSound, Closes
    <3>2. CASE Closes(u)
      BY <1>1, <3>2 DEF ClosesSound, CloseSound
    <3>3. QED
      BY <3>1, <3>2
  <2>2. QED
    BY <1>1, <2>1 DEF ClosesSound, CloseSound
<1>8. QED
  BY <1>2, <1>3, <1>5, <1>6, <1>7

\* Nobody moves.
LEMMA StaysStep ==
  ASSUME WriterIInv, Flags', UNCHANGED untouched, UNCHANGED <<op, running>>, open => open'
  PROVE  WriterIInv'
<1> USE DEF WriterIInv, untouched
<1>1. Rows' /\ OneFlushes' /\ AllOrdered'
  BY DEF Rows, OneFlushes, AllOrdered, Ordered, InFlush
<1>2. OpsSound' /\ ClosesSound'
  BY DEF OpsSound, OpSound, ClosesSound, CloseSound
<1>3. QED
  BY <1>1, <1>2

-----------------------------------------------------------------------------
(* The ways to move.                                                       *)

LEMMA Distinct ==
  /\ Background \in Threads /\ Background \notin Callers /\ None \notin Threads
  /\ Callers \subseteq Threads /\ 0 \in 0 .. MaxBatch /\ 1 \in 0 .. MaxBatch
BY BatchWriterAssumption DEF Threads

LEMMA IdleTyped == Idle \in Ops
BY Distinct DEF Idle, Ops, Labels, Names

LEMMA CallsStep ==
  ASSUME WriterIInv, NEW c \in Callers, NEW operation \in WriterOperations,
         NEW label \in {"push", "lock", "join"}, NEW size \in 0 .. MaxBatch,
         Calls(c, operation, label, size), operation = "closeFile" => label = "lock" /\ open,
         UNCHANGED <<file, trigger, running, crashed, unchecked>>, UNCHANGED untouched,
         should_stop' \in BOOLEAN
  PROVE  WriterIInv'
<1>1. /\ op' = [op EXCEPT ![c] = [Idle EXCEPT !.at = label, !.call = operation, !.left = size]]
      /\ At(c, "idle") /\ operation \in Uses[c]
  BY DEF Calls
<1> PICK o : /\ op' = [op EXCEPT ![c] = o]
             /\ o = [Idle EXCEPT !.at = label, !.call = operation, !.left = size]
  BY <1>1
<1>2. /\ o.at = label /\ o.call = operation /\ o.left = size /\ o.data = <<>> /\ o.mark = 0
  BY DEF Idle
<1>3. o \in Ops
  <2>1. label \in Labels /\ operation \in Names
    BY DEF Names, Labels
  <2>2. QED
    BY <2>1, IdleTyped DEF Ops
<1>4. Moves(c, o)
  BY <1>1, <1>2 DEF Moves, At, InFlush
<1>5. Flags'
  BY DEF WriterIInv, Flags, untouched
<1>6. OpSound(c, o)' /\ CloseSound(c, o)'
  <2>1. operation # "none" /\ c # Background
    BY Distinct DEF WriterOperations
  <2>2. operation = "closeFile" => open' /\ 0 <= accepted'
    BY DEF WriterIInv, Rows, untouched
  <2>3. QED
    BY <1>1, <1>2, <2>1, <2>2 DEF OpSound, CloseSound
<1>7. QED
  BY <1>3, <1>4, <1>5, <1>6, Distinct, MovesStep

LEMMA ReturnsStep ==
  ASSUME WriterIInv, NEW t \in Threads, Returns(t), ~InFlush(t), UNCHANGED untouched, Flags',
         running' = running \/ op[Background].at = "idle",
         open' = open \/ \A u \in Threads \ {t} : ~Closes(u)
  PROVE  WriterIInv'
<1>2. Moves(t, Idle) /\ OpSound(t, Idle)' /\ CloseSound(t, Idle)'
  BY DEF Moves, Returns, Idle, OpSound, CloseSound
<1>3. QED
  BY <1>2, IdleTyped, MovesStep

LEMMA GoesStep ==
  ASSUME WriterIInv, NEW t \in Threads, NEW label \in Labels \ {"idle", "take", "write"},
         Goes(t, label), op[t].at \notin {"idle", "take", "write"}, UNCHANGED untouched, Flags',
         Closes(t) => op[t].at \in {"flushed", "join"} /\ label \in {"join", "close"},
         label = "close" => Closes(t),
         running' = running \/ (t # Background /\ op[Background].at = "idle"), open' = open
  PROVE  WriterIInv'
<1>1. op[t] \in Ops /\ op[t].data = <<>> /\ op[t].call # "none" /\ (t = Background => running)
  BY DEF WriterIInv, OpsSound, OpSound
<1>2. PICK o : op' = [op EXCEPT ![t] = o] /\ o = [op[t] EXCEPT !.at = label]
  BY DEF Goes
<1>3. o \in Ops /\ o.data = <<>> /\ o.at = label /\ o.call = op[t].call /\ o.mark = op[t].mark
  BY <1>1, <1>2 DEF Ops
<1>4. Moves(t, o)
  BY <1>2, <1>3 DEF Moves, InFlush
<1>5. OpSound(t, o)'
  BY <1>1, <1>3 DEF OpSound, Closes
<1>6. CloseSound(t, o)'
  <2> SUFFICES ASSUME Closes(t) PROVE CloseSound(t, o)'
    BY <1>3 DEF CloseSound, Closes
  <2>1. CloseSound(t, op[t]) /\ op[t].at \in {"flushed", "join"} /\ label \in {"join", "close"}
    BY DEF WriterIInv, ClosesSound
  <2>2. QED
    BY <1>3, <2>1 DEF CloseSound, Closes, untouched
<1>7. QED
  BY <1>3, <1>4, <1>5, <1>6, MovesStep

-----------------------------------------------------------------------------
(* The calls, and what follows them outside flushInternal.                 *)

LEMMA BeginsStep ==
  ASSUME WriterIInv, NEW c \in Callers, WriterBegins(c), ~ClearBuffer(c)
  PROVE  WriterIInv'
<1> USE DEF untouched
<1>1. CASE WriteRow(c)
  BY <1>1, CallsStep, Distinct DEF WriteRow, WriterOperations, WriterIInv, Flags
<1>2. CASE WriteRows(c)
  <2>1. PICK n \in 1 .. MaxBatch : Calls(c, "writeRows", "push", n)
    BY <1>2 DEF WriteRows
  <2>2. n \in 0 .. MaxBatch
    BY BatchWriterAssumption
  <2>3. QED
    BY <1>2, <2>1, <2>2, CallsStep DEF WriteRows, WriterOperations, WriterIInv, Flags
<1>3. CASE WriteHeader(c)
  BY <1>3, CallsStep, Distinct DEF WriteHeader, WriterOperations, WriterIInv, Flags
<1>4. CASE Flush(c)
  BY <1>4, CallsStep, Distinct DEF Flush, WriterOperations, WriterIInv, Flags
<1>5. CASE CloseFile(c)
  BY <1>5, CallsStep, Distinct DEF CloseFile, WriterOperations, WriterIInv, Flags
<1>6. CASE StopBackgroundFlush(c)
  BY <1>6, CallsStep, Distinct DEF StopBackgroundFlush, WriterOperations
<1>7. CASE OpenFile(c) \/ SetWriterConfig(c)
  <2>1. Flags'
    BY <1>7 DEF OpenFile, SetWriterConfig, WriterIInv, Flags
  <2>2. QED
    BY <1>7, <2>1, StaysStep DEF OpenFile, SetWriterConfig
<1>8. CASE StartBackgroundFlush(c)
  <2>1. /\ op' = [op EXCEPT ![Background] = [Idle EXCEPT !.at = "test", !.call = "background"]]
        /\ ~running /\ running'
    BY <1>8 DEF StartBackgroundFlush
  <2> PICK o : /\ op' = [op EXCEPT ![Background] = o]
               /\ o = [Idle EXCEPT !.at = "test", !.call = "background"]
    BY <2>1
  <2>2. /\ o.at = "test" /\ o.call = "background" /\ o.data = <<>>
    BY DEF Idle
  <2>3. o \in Ops
    <3>1. "test" \in Labels /\ "background" \in Names
      BY DEF Names, Labels
    <3>2. QED
      BY <3>1, IdleTyped DEF Ops
  <2>4. At(Background, "idle")
    BY <2>1, Distinct DEF WriterIInv, OpsSound, OpSound, At
  <2>5. Moves(Background, o)
    BY <1>8, <2>2, <2>4 DEF Moves, At, InFlush, StartBackgroundFlush
  <2>6. Flags'
    BY <1>8 DEF StartBackgroundFlush, WriterIInv, Flags
  <2>7. OpSound(Background, o)' /\ CloseSound(Background, o)' /\ open' = open
    BY <1>8, <2>1, <2>2 DEF OpSound, CloseSound, StartBackgroundFlush
  <2>8. QED
    BY <2>3, <2>5, <2>6, <2>7, Distinct, MovesStep
<1>9. QED
  BY <1>1, <1>2, <1>3, <1>4, <1>5, <1>6, <1>7, <1>8 DEF WriterBegins

-----------------------------------------------------------------------------
(* A call goes on, outside flushInternal.                                  *)

\* Where a closing thread is not.
LEMMA NotClosing ==
  ASSUME WriterIInv, NEW t \in Threads,
         t = Background \/ op[t].at \in {"idle", "push", "full", "test", "wait", "asleep"}
  PROVE  ~Closes(t)
BY Distinct DEF WriterIInv, ClosesSound, CloseSound, Closes

LEMMA PushKeeps ==
  ASSUME Rows, NEW data \in Seq(1 .. accepted), Ordered(data),
         accepted' = accepted + 1, row_buffer' = Append(row_buffer, accepted + 1),
         UNCHANGED <<written, dropped>>
  PROVE  Ordered(data)'
<1>1. /\ accepted \in Nat
      /\ ToSet(row_buffer) \subseteq 1 .. accepted /\ ToSet(written) \subseteq 1 .. accepted
      /\ ToSet(data) \subseteq 1 .. accepted /\ dropped \subseteq 1 .. accepted
  <2>1. row_buffer \in Seq(1 .. accepted) /\ written \in Seq(1 .. accepted)
    BY DEF Rows
  <2>2. accepted \in Nat /\ dropped \subseteq 1 .. accepted
    BY DEF Rows
  <2>3. QED
    BY <2>1, <2>2, ToSetOfSeq
<1>2. row_buffer \in Seq(Nat)
  BY <1>1, SeqOfNat DEF Rows
<1>3. InOrder(row_buffer') /\ ToSet(row_buffer') = ToSet(row_buffer) \cup {accepted + 1}
  <2>1. Below(ToSet(row_buffer), {accepted + 1})
    BY <1>1 DEF Below
  <2>2. QED
    BY <1>1, <1>2, <2>1, Appended DEF Ordered
<1>4. Below(ToSet(written), ToSet(row_buffer')) /\ Below(ToSet(data), ToSet(row_buffer'))
  BY <1>1, <1>3 DEF Below, Ordered
<1>5. ToSet(written) \cup ToSet(data) \cup ToSet(row_buffer') = (1 .. accepted') \ dropped
  <2>1. 1 .. accepted' = (1 .. accepted) \cup {accepted + 1} /\ accepted + 1 \notin dropped
    BY <1>1
  <2>2. QED
    BY <1>3, <2>1 DEF Ordered
<1>6. QED
  BY <1>3, <1>4, <1>5 DEF Ordered

LEMMA PushesStep ==
  ASSUME WriterIInv, NEW c \in Callers, Pushes(c)
  PROVE  WriterIInv'
<1>1. c \in Threads /\ ~Closes(c) /\ ~InFlush(c)
  BY NotClosing, Distinct DEF Pushes, At, InFlush
<1>2. op \in [Threads -> Ops] /\ op[c] \in Ops /\ op[c].data = <<>>
  BY <1>1 DEF WriterIInv, OpsSound, OpSound, InFlush
<1> PICK o : op' = [op EXCEPT ![c] = o] /\ o = [op[c] EXCEPT !.left = @ - 1]
  BY DEF Pushes
<1>3. /\ o \in Ops /\ o.data = op[c].data /\ o.at = op[c].at /\ o.call = op[c].call
      /\ o.mark = op[c].mark
  <2>1. op[c].left > 0 /\ op[c].left \in 0 .. MaxBatch
    BY <1>2 DEF Pushes, Ops
  <2>2. op[c].left - 1 \in 0 .. MaxBatch
    BY <2>1, BatchWriterAssumption
  <2>3. QED
    BY <1>2, <2>2 DEF Ops
<1>4. \A t \in Threads : /\ op'[t].data = op[t].data /\ op'[t].at = op[t].at
                         /\ op'[t].call = op[t].call /\ op'[t].mark = op[t].mark
  BY <1>2, <1>3
<1>5. accepted \in Nat /\ accepted' = accepted + 1 /\ accepted' \in 0 .. MaxRows
  BY BatchWriterAssumption DEF Pushes, WriterIInv, Rows
<1>6. Flags'
  BY DEF Pushes, WriterIInv, Flags
<1>7. Rows'
  <2>1. row_buffer \in Seq(1 .. accepted') /\ accepted' \in 1 .. accepted'
    BY <1>5, SeqGrows DEF WriterIInv, Rows
  <2>2. row_buffer' \in Seq(1 .. accepted')
    BY <2>1 DEF Pushes
  <2>3. \A t \in Threads : op'[t].data \in Seq(1 .. accepted')
    BY <1>4, <1>5, SeqGrows DEF WriterIInv, Rows
  <2>4. written' \in Seq(1 .. accepted') /\ dropped' \subseteq 1 .. accepted'
    BY <1>5, SeqGrows DEF WriterIInv, Rows, Pushes
  <2>5. QED
    BY <1>5, <2>2, <2>3, <2>4 DEF Rows
<1>8. OpsSound'
  <2>1. op' \in [Threads -> Ops]
    BY <1>2, <1>3
  <2>2. QED
    BY <1>4, <2>1 DEF WriterIInv, OpsSound, OpSound, Pushes
<1>9. \A t \in Threads : InFlush(t)' <=> InFlush(t)
  BY <1>4 DEF InFlush
<1>10. OneFlushes'
  BY <1>9 DEF WriterIInv, OneFlushes, Pushes
<1>11. AllOrdered'
  <2>1. \A data \in Seq(1 .. accepted) : Ordered(data) => Ordered(data)'
    BY PushKeeps, <1>5 DEF WriterIInv, Pushes
  <2>2. ASSUME ~unserial, NEW t \in Threads, InFlush(t)
        PROVE  Ordered(op[t].data)'
    <3>1. PICK data \in Seq(1 .. accepted) : data = op[t].data
      BY DEF WriterIInv, Rows
    <3>2. Ordered(data)'
      BY <2>1, <2>2, <3>1 DEF WriterIInv, AllOrdered
    <3>3. QED
      BY <1>4, <3>1, <3>2 DEF Ordered
  <2>3. (~unserial /\ \A t \in Threads : ~InFlush(t)) => Ordered(<<>>)'
    <3>1. <<>> \in Seq(1 .. accepted)
      OBVIOUS
    <3>2. QED
      BY <2>1, <3>1 DEF WriterIInv, AllOrdered
  <2>4. QED
    BY <1>9, <2>2, <2>3 DEF AllOrdered, Pushes
<1>12. ClosesSound'
  <2> SUFFICES ASSUME NEW t \in Threads PROVE CloseSound(t, op[t])'
    BY DEF ClosesSound
  <2>1. CloseSound(t, op[t]) /\ op[t].mark \in Nat
    BY <1>2 DEF WriterIInv, ClosesSound, Ops
  <2>2. QED
    BY <1>4, <1>5, <2>1 DEF CloseSound, Pushes
<1>13. QED
  BY <1>6, <1>7, <1>8, <1>10, <1>11, <1>12 DEF WriterIInv

LEMMA SkipsStep ==
  ASSUME WriterIInv, NEW c \in Callers, Skips(c)
  PROVE  WriterIInv'
<1>1. c \in Threads /\ ~Closes(c) /\ ~InFlush(c)
  BY NotClosing, Distinct DEF Skips, At, InFlush
<1>2. op[c] \in Ops /\ op[c].data = <<>> /\ op[c].at = "push" /\ op[c].call # "none"
  BY <1>1 DEF WriterIInv, OpsSound, OpSound, InFlush, Skips, At
<1> PICK o : op' = [op EXCEPT ![c] = o] /\ o = [op[c] EXCEPT !.left = @ - 1]
  BY DEF Skips
<1>3. o \in Ops /\ o.data = <<>> /\ o.at = "push" /\ o.call = op[c].call
  <2>1. op[c].left > 0 /\ op[c].left \in 0 .. MaxBatch
    BY <1>2 DEF Skips, Ops
  <2>2. op[c].left - 1 \in 0 .. MaxBatch
    BY <2>1, BatchWriterAssumption
  <2>3. QED
    BY <1>2, <2>2 DEF Ops
<1>4. Moves(c, o) /\ Flags' /\ open' = open /\ running' = running
  BY <1>1, <1>3 DEF Moves, Skips, untouched, WriterIInv, Flags
<1>5. OpSound(c, o)' /\ CloseSound(c, o)'
  BY <1>1, <1>2, <1>3, Distinct DEF OpSound, CloseSound, Closes
<1>6. QED
  BY <1>1, <1>3, <1>4, <1>5, MovesStep

LEMMA PushedStep ==
  ASSUME WriterIInv, NEW c \in Callers, Pushed(c)
  PROVE  WriterIInv'
<1>1. c \in Threads /\ c # Background /\ ~Closes(c) /\ ~InFlush(c) /\ op[c].at = "push"
  BY NotClosing, Distinct DEF Pushed, At, InFlush
<1>2. UNCHANGED untouched /\ open' = open /\ running' = running /\ Flags'
  BY DEF Pushed, untouched, WriterIInv, Flags
<1>3. CASE op[c].call = "writeHeader"
  <2>1. Goes(c, "flush") /\ "flush" \in Labels \ {"idle", "take", "write"}
    BY <1>3 DEF Pushed, Labels
  <2>2. QED
    BY <1>1, <1>2, <2>1, GoesStep
<1>4. CASE op[c].call # "writeHeader"
  <2>1. \/ Returns(c)
        \/ op' = [op EXCEPT ![c] = [Idle EXCEPT !.at = "lock", !.call = "flush"]]
    BY <1>4 DEF Pushed, Returns
  <2>2. CASE Returns(c)
    BY <1>1, <1>2, <2>2, ReturnsStep
  <2>3. CASE op' = [op EXCEPT ![c] = [Idle EXCEPT !.at = "lock", !.call = "flush"]]
    <3> PICK o : /\ op' = [op EXCEPT ![c] = o]
                 /\ o = [Idle EXCEPT !.at = "lock", !.call = "flush"]
      BY <2>3
    <3>1. o.at = "lock" /\ o.call = "flush" /\ o.data = <<>>
      BY DEF Idle
    <3>2. o \in Ops
      <4>1. "lock" \in Labels /\ "flush" \in Names
        BY DEF Names, Labels, WriterOperations
      <4>2. QED
        BY <4>1, IdleTyped DEF Ops
    <3>3. Moves(c, o) /\ OpSound(c, o)' /\ CloseSound(c, o)'
      BY <1>1, <1>2, <3>1 DEF Moves, OpSound, CloseSound
    <3>4. QED
      BY <1>1, <1>2, <3>2, <3>3, MovesStep
  <2>4. QED
    BY <2>1, <2>2, <2>3
<1>5. QED
  BY <1>3, <1>4

LEMMA LocksStep ==
  ASSUME WriterIInv, NEW c \in Callers, Locks(c)
  PROVE  WriterIInv'
<1>1. c \in Threads /\ c # Background /\ ~InFlush(c) /\ op[c].at = "lock" /\ accepted \in Nat
  BY Distinct DEF Locks, At, InFlush, WriterIInv, Rows
<1>2. UNCHANGED untouched /\ open' = open /\ running' = running /\ Flags'
  BY <1>1 DEF Locks, untouched, WriterIInv, Flags
<1>3. op[c] \in Ops /\ op[c].data = <<>> /\ op[c].call # "none"
  BY <1>1 DEF WriterIInv, OpsSound, OpSound
<1> PICK o : /\ op' = [op EXCEPT ![c] = o]
             /\ o = [op[c] EXCEPT !.at = "flush", !.mark = IF Closes(c) THEN accepted ELSE 0]
  BY DEF Locks
<1>4. /\ o \in Ops /\ o.at = "flush" /\ o.call = op[c].call /\ o.data = <<>>
      /\ o.mark = 0 \/ o.mark = accepted
  BY <1>1, <1>3 DEF Ops, Labels
<1>5. Moves(c, o) /\ OpSound(c, o)'
  BY <1>1, <1>2, <1>3, <1>4 DEF Moves, OpSound
<1>6. CloseSound(c, o)'
  BY <1>1, <1>2, <1>4 DEF WriterIInv, ClosesSound, CloseSound, untouched
<1>7. QED
  BY <1>1, <1>2, <1>4, <1>5, <1>6, MovesStep

\* The owner of the file is the only one to close it.
LEMMA OneCloses ==
  ASSUME WriterIInv, NEW t \in Threads, NEW u \in Threads, Closes(t), Closes(u)
  PROVE  t = u
<1>1. t \in Callers /\ u \in Callers /\ "closeFile" \in Uses[t] /\ "closeFile" \in Uses[u]
  BY DEF WriterIInv, ClosesSound, CloseSound, Closes
<1>2. QED
  BY <1>1, BatchWriterAssumption DEF Owned

LEMMA CloseStep ==
  ASSUME WriterIInv, NEW c \in Callers,
         CloseStops(c) \/ CloseResets(c) \/ CloseEnds(c) \/ WriterJoins(c)
  PROVE  WriterIInv'
<1>1. c \in Threads /\ c # Background
  BY Distinct
<1>2. CASE CloseStops(c)
  <2>1. Flags' /\ UNCHANGED untouched /\ open' = open /\ running' = running
    BY <1>2 DEF CloseStops, WriterIInv, Flags, untouched
  <2>2. PICK label \in {"join", "close"} : Goes(c, label)
    BY <1>2 DEF CloseStops
  <2>3. label \in Labels \ {"idle", "take", "write"} /\ op[c].at = "flushed" /\ Closes(c)
    BY <1>2 DEF Labels, CloseStops, At
  <2>4. QED
    BY <1>1, <2>1, <2>2, <2>3, GoesStep
<1>3. CASE CloseResets(c)
  <2>1. Flags'
    BY <1>3 DEF CloseResets, WriterIInv, Flags
  <2>2. QED
    BY <1>3, <2>1, StaysStep DEF CloseResets, untouched
<1>4. CASE CloseEnds(c)
  <2>1. Flags' /\ UNCHANGED untouched /\ running' = running /\ ~InFlush(c)
    BY <1>4 DEF CloseEnds, WriterIInv, Flags, untouched, InFlush, At
  <2>2. Closes(c)
    <3>1. op[c].at = "close"
      BY <1>4 DEF CloseEnds, At
    <3>2. QED
      BY <1>1, <3>1 DEF WriterIInv, OpsSound, OpSound, Closes
  <2>3. \A u \in Threads \ {c} : ~Closes(u)
    BY <1>1, <2>2, OneCloses
  <2>4. QED
    BY <1>1, <1>4, <2>1, <2>3, ReturnsStep DEF CloseEnds
<1>5. CASE WriterJoins(c)
  <2>1. /\ Flags' /\ UNCHANGED untouched /\ open' = open /\ op[c].at = "join" /\ ~InFlush(c)
        /\ op[Background].at = "idle"
    BY <1>5 DEF WriterJoins, WriterIInv, Flags, untouched, InFlush, At
  <2>2. CASE Closes(c)
    <3>1. Goes(c, "close") /\ "close" \in Labels \ {"idle", "take", "write"}
      BY <1>5, <2>2 DEF WriterJoins, Labels
    <3>2. QED
      BY <1>1, <2>1, <2>2, <3>1, GoesStep
  <2>3. CASE ~Closes(c)
    <3>1. Returns(c)
      BY <1>5, <2>3 DEF WriterJoins
    <3>2. QED
      BY <1>1, <2>1, <3>1, ReturnsStep
  <2>4. QED
    BY <2>2, <2>3
<1>6. QED
  BY <1>2, <1>3, <1>4, <1>5

LEMMA WorkerStep ==
  ASSUME WriterIInv, TestsStop \/ Sleeps \/ Wakes \/ WorkerFlushed
  PROVE  WriterIInv'
<1>1. /\ Background \in Threads /\ ~Closes(Background)
      /\ op[Background].at \in {"test", "wait", "asleep", "flushed"}
  BY NotClosing, Distinct DEF TestsStop, Sleeps, Wakes, WorkerFlushed, At
<1>2. ~InFlush(Background) /\ op[Background].at \notin {"idle", "take", "write"}
  BY <1>1 DEF InFlush
<1>3. UNCHANGED untouched /\ open' = open /\ running' = running /\ Flags'
  BY Distinct DEF TestsStop, Sleeps, Wakes, WorkerFlushed, untouched, WriterIInv, Flags
<1>4. \/ Returns(Background)
      \/ \E label \in {"wait", "asleep", "flush", "test"} : Goes(Background, label)
  BY DEF TestsStop, Sleeps, Wakes, WorkerFlushed
<1>5. CASE Returns(Background)
  BY <1>1, <1>2, <1>3, <1>5, ReturnsStep
<1>6. CASE \E label \in {"wait", "asleep", "flush", "test"} : Goes(Background, label)
  <2>1. PICK label \in {"wait", "asleep", "flush", "test"} : Goes(Background, label)
    BY <1>6
  <2>2. label \in Labels \ {"idle", "take", "write"} /\ label # "close"
    BY DEF Labels
  <2>3. QED
    BY <1>1, <1>2, <1>3, <2>1, <2>2, GoesStep
<1>7. QED
  BY <1>4, <1>5, <1>6

LEMMA ContinuesStep ==
  ASSUME WriterIInv, NEW c \in Callers, Continues(c), ~Flushing(c)
  PROVE  WriterIInv'
<1>1. c \in Threads /\ c # Background
  BY Distinct
<1>2. CASE MeetsFull(c)
  <2>1. op[c].at = "push" /\ ~Closes(c) /\ "full" \in Labels \ {"idle", "take", "write"}
    BY <1>1, <1>2, NotClosing DEF MeetsFull, At, Labels
  <2>2. UNCHANGED untouched /\ open' = open /\ running' = running /\ Flags'
    BY <1>2 DEF MeetsFull, untouched, WriterIInv, Flags
  <2>3. QED
    BY <1>1, <1>2, <2>1, <2>2, GoesStep DEF MeetsFull
<1>3. CASE Refuses(c) \/ Flushed(c)
  <2>1. op[c].at \in {"push", "flushed"} /\ Returns(c)
    BY <1>3 DEF Refuses, Flushed, At
  <2>2. UNCHANGED untouched /\ open' = open /\ running' = running /\ ~InFlush(c)
    BY <1>3, <2>1 DEF Refuses, Flushed, untouched, InFlush
  <2>3. Flags'
    BY <1>3 DEF Refuses, Flushed, WriterIInv, Flags
  <2>4. QED
    BY <1>1, <2>1, <2>2, <2>3, ReturnsStep
<1>4. QED
  BY <1>2, <1>3, PushesStep, SkipsStep, PushedStep, LocksStep, CloseStep DEF Continues

-----------------------------------------------------------------------------
(* flushInternal, and rows cleared.                                        *)

\* Where the rows are, whoever has some in hand.
LEMMA RowSets ==
  ASSUME Rows
  PROVE  /\ accepted \in Nat
         /\ row_buffer \in Seq(Nat) /\ written \in Seq(Nat)
         /\ \A t \in Threads : op[t].data \in Seq(Nat) /\ ToSet(op[t].data) \subseteq 1 .. accepted
         /\ ToSet(row_buffer) \subseteq 1 .. accepted /\ ToSet(written) \subseteq 1 .. accepted
<1>1. /\ accepted \in Nat
      /\ row_buffer \in Seq(1 .. accepted) /\ written \in Seq(1 .. accepted)
      /\ \A t \in Threads : op[t].data \in Seq(1 .. accepted)
  BY DEF Rows
<1>2. row_buffer \in Seq(Nat) /\ written \in Seq(Nat)
  BY <1>1, SeqOfNat
<1>3. ToSet(row_buffer) \subseteq 1 .. accepted /\ ToSet(written) \subseteq 1 .. accepted
  BY <1>1, ToSetOfSeq
<1>4. ASSUME NEW t \in Threads
      PROVE  op[t].data \in Seq(Nat) /\ ToSet(op[t].data) \subseteq 1 .. accepted
  <2>1. op[t].data \in Seq(1 .. accepted)
    BY <1>1
  <2>2. QED
    BY <1>1, <2>1, SeqOfNat, ToSetOfSeq
<1>5. QED
  BY <1>1, <1>2, <1>3, <1>4

LEMMA EntersFlushStep ==
  ASSUME WriterIInv, NEW t \in Threads, EntersFlush(t)
  PROVE  WriterIInv'
<1>1. op[t].at = "flush" /\ op[t] \in Ops /\ op[t].data = <<>> /\ op \in [Threads -> Ops]
      /\ (op[t].call # "none") /\ (t = Background => running)
  BY DEF EntersFlush, At, WriterIInv, OpsSound, OpSound
<1>2. PICK o : /\ op' = [op EXCEPT ![t] = o]
               /\ o = [op[t] EXCEPT !.at = IF open /\ row_buffer # <<>> THEN "take" ELSE "flushed"]
  BY DEF EntersFlush, Goes
<1>3. /\ o \in Ops /\ o.call = op[t].call /\ o.mark = op[t].mark /\ o.data = <<>>
      /\ o.at = IF open /\ row_buffer # <<>> THEN "take" ELSE "flushed"
  BY <1>1, <1>2 DEF Ops, Labels
<1>4. op'[t] = o /\ \A u \in Threads \ {t} : op'[u] = op[u]
  BY <1>1, <1>2
<1>5. Flags'
  BY DEF EntersFlush, WriterIInv, Flags
<1>6. Rows'
  <2>1. \A u \in Threads : op'[u].data = op[u].data
    BY <1>1, <1>3, <1>4
  <2>2. QED
    BY <2>1 DEF EntersFlush, WriterIInv, Rows
<1>7. OpsSound'
  <2>1. op' \in [Threads -> Ops]
    BY <1>1, <1>2, <1>3
  <2>2. OpSound(t, op[t])'
    BY <1>1, <1>3, <1>4 DEF OpSound, EntersFlush
  <2>3. \A u \in Threads \ {t} : OpSound(u, op[u])'
    BY <1>4 DEF OpSound, EntersFlush, WriterIInv, OpsSound
  <2>4. QED
    BY <2>1, <2>2, <2>3 DEF OpsSound
<1>8. \A u \in Threads \ {t} : InFlush(u)' <=> InFlush(u)
  BY <1>4 DEF InFlush
<1>9. ~unserial' => ~unserial /\ \A u \in Threads \ {t} : ~InFlush(u)
  BY DEF EntersFlush
<1>10. OneFlushes'
  BY <1>8, <1>9 DEF OneFlushes
<1>11. ~unserial' => Ordered(<<>>)
  <2>1. ~InFlush(t)
    BY <1>1 DEF InFlush
  <2>2. QED
    BY <1>9, <2>1 DEF WriterIInv, AllOrdered
<1>12. Ordered(<<>>) => Ordered(<<>>)'
  BY DEF Ordered, EntersFlush
<1>13. AllOrdered'
  BY <1>3, <1>4, <1>8, <1>9, <1>11, <1>12 DEF AllOrdered
<1>14. CloseSound(t, op[t])'
  <2> SUFFICES ASSUME Closes(t)
               PROVE  CloseSound(t, op[t])'
    BY <1>3, <1>4 DEF CloseSound, Closes
  <2>1. t \in Callers /\ "closeFile" \in Uses[t] /\ open /\ op[t].mark <= accepted
    BY DEF WriterIInv, ClosesSound, CloseSound, Closes
  <2>2. o.mark \in Nat /\ accepted \in Nat
    BY <1>3, RowSets DEF Ops, WriterIInv
  <2>3. ~unserial' /\ o.at = "flushed" => 1 .. o.mark \subseteq ToSet(written) \cup dropped
    <3> SUFFICES ASSUME ~unserial', o.at = "flushed"
                 PROVE  1 .. o.mark \subseteq ToSet(written) \cup dropped
      OBVIOUS
    <3>1. row_buffer = <<>> /\ Ordered(<<>>)
      BY <1>3, <1>11, <2>1
    <3>2. ToSet(written) = (1 .. accepted) \ dropped
      BY <3>1, NoRows DEF Ordered
    <3>3. 1 .. o.mark \subseteq 1 .. accepted
      BY <1>3, <2>1, <2>2
    <3>4. QED
      BY <3>2, <3>3
  <2>4. open' = open /\ accepted' = accepted /\ written' = written /\ dropped' = dropped
    BY DEF EntersFlush
  <2>5. QED
    BY <1>3, <1>4, <2>1, <2>3, <2>4 DEF CloseSound
<1>15. ClosesSound'
  <2>1. \A u \in Threads \ {t} : CloseSound(u, op[u])'
    BY <1>4, <1>9 DEF CloseSound, EntersFlush, WriterIInv, ClosesSound
  <2>2. QED
    BY <1>14, <2>1 DEF ClosesSound
<1>16. QED
  BY <1>5, <1>6, <1>7, <1>10, <1>13, <1>15 DEF WriterIInv

LEMMA TakesStep ==
  ASSUME WriterIInv, NEW t \in Threads, Takes(t)
  PROVE  WriterIInv'
<1>1. /\ op[t].at = "take" /\ op[t] \in Ops /\ op[t].data = <<>> /\ op \in [Threads -> Ops]
      /\ (op[t].call # "none") /\ (t = Background => running)
  BY DEF Takes, At, WriterIInv, OpsSound, OpSound
<1>2. PICK o : /\ op' = [op EXCEPT ![t] = o]
               /\ o = [op[t] EXCEPT !.at = IF row_buffer = <<>> THEN "flushed" ELSE "write",
                                    !.data = row_buffer]
  BY DEF Takes
<1>3. /\ o \in Ops /\ o.call = op[t].call /\ o.mark = op[t].mark /\ o.data = row_buffer
      /\ o.at = IF row_buffer = <<>> THEN "flushed" ELSE "write"
  <2>1. row_buffer \in Seq(Nat)
    BY RowSets DEF WriterIInv
  <2>2. QED
    BY <1>1, <1>2, <2>1 DEF Ops, Labels
<1>4. op'[t] = o /\ \A u \in Threads \ {t} : op'[u] = op[u]
  BY <1>1, <1>2
<1>5. /\ row_buffer' = <<>>
      /\ UNCHANGED <<written, accepted, dropped, unserial, open, running>>
  BY DEF Takes
<1>6. Flags'
  BY DEF Takes, WriterIInv, Flags
<1>7. Rows'
  <2>1. \A u \in Threads : op'[u].data \in Seq(1 .. accepted)
    BY <1>3, <1>4 DEF WriterIInv, Rows
  <2>2. <<>> \in Seq(1 .. accepted)
    OBVIOUS
  <2>3. QED
    BY <1>5, <2>1, <2>2 DEF WriterIInv, Rows
<1>8. OpsSound'
  <2>1. op' \in [Threads -> Ops]
    BY <1>1, <1>2, <1>3
  <2>2. OpSound(t, op[t])'
    BY <1>1, <1>3, <1>4, <1>5 DEF OpSound
  <2>3. \A u \in Threads \ {t} : OpSound(u, op[u])'
    BY <1>4, <1>5 DEF OpSound, WriterIInv, OpsSound
  <2>4. QED
    BY <2>1, <2>2, <2>3 DEF OpsSound
<1>9. InFlush(t) /\ \A u \in Threads \ {t} : InFlush(u)' <=> InFlush(u)
  BY <1>1, <1>4 DEF InFlush
<1>10. OneFlushes'
  BY <1>5, <1>9 DEF WriterIInv, OneFlushes
<1>11. ~unserial => Ordered(<<>>) /\ \A u \in Threads \ {t} : ~InFlush(u)
  BY <1>1, <1>9 DEF WriterIInv, OneFlushes, AllOrdered
<1>12. AllOrdered'
  <2>1. CASE row_buffer = <<>>
    <3>1. Ordered(<<>>) => Ordered(<<>>)'
      BY <1>5, <2>1 DEF Ordered
    <3>2. ~InFlush(t)'
      BY <1>3, <1>4, <2>1 DEF InFlush
    <3>3. QED
      BY <1>5, <1>9, <1>11, <3>1, <3>2 DEF AllOrdered
  <2>2. CASE row_buffer # <<>>
    <3>1. Ordered(<<>>) => Ordered(op[t].data)'
      <4>1. op'[t].data = row_buffer
        BY <1>3, <1>4
      <4>2. QED
        BY <1>5, <4>1, NoRows DEF Ordered, Below
    <3>2. InFlush(t)'
      BY <1>3, <1>4, <2>2 DEF InFlush
    <3>3. QED
      BY <1>5, <1>9, <1>11, <3>1, <3>2 DEF AllOrdered
  <2>3. QED
    BY <2>1, <2>2
<1>13. CloseSound(t, op[t])'
  <2> SUFFICES ASSUME Closes(t)
               PROVE  CloseSound(t, op[t])'
    BY <1>3, <1>4 DEF CloseSound, Closes
  <2>1. t \in Callers /\ "closeFile" \in Uses[t] /\ open /\ op[t].mark <= accepted
    BY DEF WriterIInv, ClosesSound, CloseSound, Closes
  <2>2. ~unserial => 1 .. o.mark \subseteq ToSet(written) \cup dropped \cup ToSet(row_buffer)
    <3>1. 1 .. o.mark \subseteq 1 .. accepted
      BY <1>1, <1>3, <2>1, RowSets DEF Ops, WriterIInv
    <3>2. QED
      BY <1>11, <3>1, NoRows DEF Ordered
  <2>3. row_buffer = <<>> => ToSet(row_buffer) = {}
    BY NoRows
  <2>4. QED
    BY <1>3, <1>4, <1>5, <2>1, <2>2, <2>3 DEF CloseSound
<1>14. ClosesSound'
  <2>1. \A u \in Threads \ {t} : CloseSound(u, op[u])'
    BY <1>4, <1>5 DEF CloseSound, WriterIInv, ClosesSound
  <2>2. QED
    BY <1>13, <2>1 DEF ClosesSound
<1>15. QED
  BY <1>6, <1>7, <1>8, <1>10, <1>12, <1>14 DEF WriterIInv

\* The rows in hand are put behind those written, or dropped.
LEMMA WriteKeeps ==
  ASSUME Rows, NEW t \in Threads, Ordered(op[t].data), NEW ok \in BOOLEAN,
         written' = (IF ok THEN written \o op[t].data ELSE written),
         dropped' = (IF ok THEN dropped ELSE dropped \cup ToSet(op[t].data)),
         UNCHANGED <<accepted, row_buffer>>
  PROVE  Ordered(<<>>)'
<1>1. /\ written \in Seq(Nat) /\ op[t].data \in Seq(Nat) /\ row_buffer \in Seq(Nat)
      /\ ToSet(written) \subseteq Nat /\ ToSet(op[t].data) \subseteq Nat
      /\ ToSet(row_buffer) \subseteq Nat
  <2>1. 1 .. accepted \subseteq Nat
    BY RowSets
  <2>2. QED
    BY <2>1, RowSets
<1>2. CASE ok
  <2>1. InOrder(written') /\ ToSet(written') = ToSet(written) \cup ToSet(op[t].data)
    BY <1>1, <1>2, Joined, ToSetJoined DEF Ordered
  <2>2. QED
    BY <1>2, <2>1, NoRows DEF Ordered, Below
<1>3. CASE ~ok
  <2>1. ToSet(op[t].data) \cap (ToSet(written) \cup ToSet(row_buffer)) = {}
    BY <1>1 DEF Ordered, Below
  <2>2. QED
    BY <1>3, <2>1, NoRows DEF Ordered, Below
<1>4. QED
  BY <1>2, <1>3

LEMMA WritesStep ==
  ASSUME WriterIInv, NEW t \in Threads, Writes(t)
  PROVE  WriterIInv'
<1>1. /\ op[t].at = "write" /\ op[t] \in Ops /\ op \in [Threads -> Ops]
      /\ op[t].call # "none" /\ (t = Background => running)
  BY DEF Writes, At, WriterIInv, OpsSound, OpSound
<1>2. PICK ok \in BOOLEAN :
        /\ op' = [op EXCEPT ![t].at = "flushed", ![t].data = <<>>, ![t].ok = ok \/ ~Closes(t)]
        /\ written' = IF ok THEN written \o op[t].data ELSE written
        /\ dropped' = IF ok THEN dropped ELSE dropped \cup ToSet(op[t].data)
  BY DEF Writes
<1>3. PICK o : /\ op' = [op EXCEPT ![t] = o]
               /\ o = [op[t] EXCEPT !.at = "flushed", !.data = <<>>, !.ok = ok \/ ~Closes(t)]
  BY <1>2
<1>4. /\ o \in Ops /\ o.call = op[t].call /\ o.mark = op[t].mark /\ o.data = <<>>
      /\ o.at = "flushed"
  <2>1. (ok \/ ~Closes(t)) \in BOOLEAN /\ <<>> \in Seq(Nat) /\ "flushed" \in Labels
    BY DEF Labels
  <2>2. QED
    BY <1>1, <1>3, <2>1 DEF Ops
<1>5. op'[t] = o /\ \A u \in Threads \ {t} : op'[u] = op[u]
  BY <1>1, <1>3
<1>6. UNCHANGED <<row_buffer, accepted, unserial, open, running>>
  BY DEF Writes
<1>7. Flags'
  BY DEF Writes, WriterIInv, Flags
<1>8. /\ written \o op[t].data \in Seq(1 .. accepted)
      /\ ToSet(written \o op[t].data) = ToSet(written) \cup ToSet(op[t].data)
      /\ ToSet(op[t].data) \subseteq 1 .. accepted
  <2>1. written \in Seq(1 .. accepted) /\ op[t].data \in Seq(1 .. accepted)
    BY DEF WriterIInv, Rows
  <2>2. QED
    BY <2>1, RowSets, ToSetJoined DEF WriterIInv
<1>9. Rows'
  <2>1. written' \in Seq(1 .. accepted) /\ dropped' \subseteq 1 .. accepted
    BY <1>2, <1>8 DEF WriterIInv, Rows
  <2>2. \A u \in Threads : op'[u].data \in Seq(1 .. accepted)
    <3>1. <<>> \in Seq(1 .. accepted)
      OBVIOUS
    <3>2. QED
      BY <1>4, <1>5, <3>1 DEF WriterIInv, Rows
  <2>3. QED
    BY <1>6, <2>1, <2>2 DEF WriterIInv, Rows
<1>10. OpsSound'
  <2>1. op' \in [Threads -> Ops]
    BY <1>1, <1>3, <1>4
  <2>2. OpSound(t, op[t])'
    BY <1>1, <1>4, <1>5, <1>6 DEF OpSound
  <2>3. \A u \in Threads \ {t} : OpSound(u, op[u])'
    BY <1>5, <1>6 DEF OpSound, WriterIInv, OpsSound
  <2>4. QED
    BY <2>1, <2>2, <2>3 DEF OpsSound
<1>11. InFlush(t) /\ ~InFlush(t)' /\ \A u \in Threads \ {t} : InFlush(u)' <=> InFlush(u)
  BY <1>1, <1>4, <1>5 DEF InFlush
<1>12. OneFlushes'
  BY <1>6, <1>11 DEF WriterIInv, OneFlushes
<1>13. ~unserial => Ordered(<<>>)' /\ \A u \in Threads \ {t} : ~InFlush(u)
  <2>1. ~unserial => Ordered(op[t].data) /\ \A u \in Threads \ {t} : ~InFlush(u)
    BY <1>11 DEF WriterIInv, OneFlushes, AllOrdered
  <2>2. QED
    BY <1>2, <1>6, <2>1, WriteKeeps DEF WriterIInv
<1>14. AllOrdered'
  BY <1>6, <1>11, <1>13 DEF AllOrdered
<1>15. ToSet(written) \cup dropped \cup ToSet(op[t].data) = ToSet(written') \cup dropped'
  BY <1>2, <1>8
<1>16. ClosesSound'
  <2>1. CloseSound(t, op[t])'
    BY <1>1, <1>4, <1>5, <1>6, <1>15 DEF CloseSound, WriterIInv, ClosesSound
  <2>2. ASSUME NEW u \in Threads \ {t} PROVE CloseSound(u, op[u])'
    <3>1. ~unserial => op[u].at # "write"
      BY <1>13 DEF InFlush
    <3>2. QED
      BY <1>5, <1>6, <1>15, <3>1 DEF CloseSound, WriterIInv, ClosesSound
  <2>3. QED
    BY <2>1, <2>2 DEF ClosesSound
<1>17. QED
  BY <1>7, <1>9, <1>10, <1>12, <1>14, <1>16 DEF WriterIInv

LEMMA ClearBufferStep ==
  ASSUME WriterIInv, NEW c \in Callers, ClearBuffer(c)
  PROVE  WriterIInv'
<1>1. /\ row_buffer' = <<>> /\ dropped' = dropped \cup ToSet(row_buffer)
      /\ UNCHANGED <<op, written, accepted, unserial, open, running>>
  BY DEF ClearBuffer
<1>2. Flags'
  BY DEF ClearBuffer, WriterIInv, Flags
<1>3. Rows'
  <2>1. <<>> \in Seq(1 .. accepted) /\ ToSet(row_buffer) \subseteq 1 .. accepted
    BY RowSets DEF WriterIInv
  <2>2. QED
    BY <1>1, <2>1 DEF WriterIInv, Rows
<1>4. OpsSound' /\ OneFlushes'
  BY <1>1 DEF WriterIInv, OpsSound, OpSound, OneFlushes, InFlush
<1>5. ASSUME NEW data \in Seq(1 .. accepted), Ordered(data)
      PROVE  Ordered(data)'
  <2>1. /\ ToSet(written) \subseteq Nat /\ ToSet(data) \subseteq Nat
        /\ ToSet(row_buffer) \subseteq Nat
    BY RowSets, ToSetOfSeq DEF WriterIInv
  <2>2. ToSet(row_buffer) \cap (ToSet(written) \cup ToSet(data)) = {}
    BY <1>5, <2>1 DEF Ordered, Below
  <2>3. QED
    BY <1>1, <1>5, <2>2, NoRows DEF Ordered, Below
<1>6. AllOrdered'
  <2>1. ASSUME ~unserial, NEW t \in Threads, InFlush(t)
        PROVE  Ordered(op[t].data)'
    <3>1. PICK data \in Seq(1 .. accepted) : data = op[t].data
      BY DEF WriterIInv, Rows
    <3>2. Ordered(data)'
      BY <1>5, <2>1, <3>1 DEF WriterIInv, AllOrdered
    <3>3. QED
      BY <1>1, <3>1, <3>2 DEF Ordered
  <2>2. (~unserial /\ \A t \in Threads : ~InFlush(t)) => Ordered(<<>>)'
    <3>1. <<>> \in Seq(1 .. accepted)
      OBVIOUS
    <3>2. QED
      BY <1>5, <3>1 DEF WriterIInv, AllOrdered
  <2>3. QED
    BY <1>1, <2>1, <2>2 DEF AllOrdered, InFlush
<1>7. ClosesSound'
  BY <1>1 DEF WriterIInv, ClosesSound, CloseSound
<1>8. QED
  BY <1>2, <1>3, <1>4, <1>6, <1>7 DEF WriterIInv

-----------------------------------------------------------------------------
(* The invariant holds, and what it says of the rows.                      *)

LEMMA WriterInitHolds == WriterInit => WriterIInv
<1> SUFFICES ASSUME WriterInit PROVE WriterIInv
  OBVIOUS
<1>1. /\ op = [t \in Threads |-> Idle] /\ Idle.at = "idle" /\ Idle.call = "none"
      /\ Idle.data = <<>> /\ \A t \in Threads : op[t] = Idle
  BY DEF WriterInit, Idle
<1>2. Flags
  BY DEF WriterInit, Flags
<1>3. Rows
  <2>1. accepted = 0 /\ row_buffer = <<>> /\ written = <<>> /\ dropped = {} /\ MaxRows \in Nat
    BY BatchWriterAssumption DEF WriterInit
  <2>2. <<>> \in Seq(1 .. accepted)
    OBVIOUS
  <2>3. accepted \in 0 .. MaxRows /\ dropped \subseteq 1 .. accepted
    BY <2>1
  <2>4. row_buffer \in Seq(1 .. accepted) /\ written \in Seq(1 .. accepted)
    BY <2>1, <2>2
  <2>5. \A t \in Threads : op[t].data = <<>>
    BY <1>1
  <2>6. QED
    BY <2>2, <2>3, <2>4, <2>5 DEF Rows
<1>4. OpsSound /\ OneFlushes /\ ClosesSound
  BY <1>1, IdleTyped DEF OpsSound, OpSound, OneFlushes, InFlush, ClosesSound, CloseSound
<1>5. AllOrdered
  <2>1. (1 .. accepted) \ dropped = {}
    BY DEF WriterInit
  <2>2. Ordered(<<>>)
    BY <2>1, NoRows DEF WriterInit, Ordered, Below
  <2>3. QED
    BY <1>1, <2>2 DEF AllOrdered, InFlush
<1>6. QED
  BY <1>2, <1>3, <1>4, <1>5 DEF WriterIInv

LEMMA WriterStep == WriterIInv /\ [WriterNext]_writerVars => WriterIInv'
<1> SUFFICES ASSUME WriterIInv, [WriterNext]_writerVars PROVE WriterIInv'
  OBVIOUS
<1>1. ASSUME NEW t \in Threads, Flushing(t) PROVE WriterIInv'
  <2>1. CASE WritesToNull(t)
    <3>1. Flags'
      BY <2>1 DEF WritesToNull, WriterIInv, Flags
    <3>2. QED
      BY <2>1, <3>1, StaysStep DEF WritesToNull, untouched
  <2>2. QED
    BY <1>1, <2>1, EntersFlushStep, TakesStep, WritesStep DEF Flushing
<1>2. ASSUME NEW c \in Callers, WriterBegins(c) PROVE WriterIInv'
  BY <1>2, BeginsStep, ClearBufferStep
<1>3. ASSUME NEW c \in Callers, Continues(c) PROVE WriterIInv'
  <2>1. c \in Threads
    BY Distinct
  <2>2. QED
    BY <1>1, <1>3, <2>1, ContinuesStep
<1>4. CASE BackgroundFlushWorker
  BY <1>1, <1>4, Distinct, WorkerStep DEF BackgroundFlushWorker
<1>5. CASE UNCHANGED writerVars
  <2>1. Flags'
    BY <1>5 DEF WriterIInv, Flags
  <2>2. QED
    BY <1>5, <2>1, StaysStep DEF untouched
<1>6. QED
  BY <1>2, <1>3, <1>4, <1>5 DEF WriterNext

LEMMA InFlightOrdered ==
  ASSUME WriterIInv, ~unserial
  PROVE  Ordered(InFlight) /\ InFlight \in Seq(Nat)
<1>1. \E t \in Threads : (\E u \in Threads : InFlush(u)) => InFlush(t)
  BY Distinct
<1>2. PICK t \in Threads : /\ (\E u \in Threads : InFlush(u)) => InFlush(t)
                           /\ InFlight = op[t].data
  BY <1>1 DEF InFlight
<1>3. CASE InFlush(t)
  BY <1>2, <1>3, RowSets DEF WriterIInv, AllOrdered
<1>4. CASE ~InFlush(t)
  <2>1. op[t].data = <<>> /\ \A u \in Threads : ~InFlush(u)
    BY <1>2, <1>4 DEF InFlush, WriterIInv, OpsSound, OpSound
  <2>2. QED
    BY <1>2, <2>1 DEF WriterIInv, AllOrdered
<1>5. QED
  BY <1>3, <1>4

LEMMA RowsStayInOrder == WriterIInv => RowsInOrder
<1> SUFFICES ASSUME WriterIInv PROVE RowsInOrder
  OBVIOUS
<1>1. TypeOK
  <2>1. \A t \in Threads : op[t] \in Ops
    BY DEF WriterIInv, OpsSound
  <2>2. \A t \in Threads : op[t].at \in Labels /\ op[t].left \in 0 .. MaxBatch
    BY <2>1 DEF Ops
  <2>3. {open, output, header, running, should_stop, unserial, unchecked, crashed} \subseteq BOOLEAN
    BY DEF WriterIInv, Flags
  <2>4. {row_buffer, written} \cup {op[t].data : t \in Threads} \subseteq Seq(1 .. accepted)
    BY DEF WriterIInv, Rows
  <2>5. \A t \in Threads : At(t, "idle") \/ op[t].call # "none"
    BY DEF WriterIInv, OpsSound, OpSound, At
  <2>6. QED
    BY <2>2, <2>3, <2>4, <2>5 DEF TypeOK, WriterIInv, Flags, Rows
<1>2. ASSUME ~unserial
      PROVE  /\ InOrder(written \o InFlight \o row_buffer)
             /\ ToSet(written \o InFlight \o row_buffer) = (1 .. accepted) \ dropped
  <2>1. /\ Ordered(InFlight)
        /\ InFlight \in Seq(Nat) /\ written \in Seq(Nat) /\ row_buffer \in Seq(Nat)
    BY <1>2, InFlightOrdered, RowSets DEF WriterIInv
  <2>2. /\ written \o InFlight \in Seq(Nat)
        /\ InOrder(written \o InFlight)
        /\ ToSet(written \o InFlight) = ToSet(written) \cup ToSet(InFlight)
    BY <2>1, Joined, ToSetJoined DEF Ordered
  <2>3. Below(ToSet(written \o InFlight), ToSet(row_buffer))
    BY <2>1, <2>2 DEF Ordered, Below
  <2>4. InOrder(written \o InFlight \o row_buffer)
    BY <2>1, <2>2, <2>3, Joined DEF Ordered
  <2>5. ToSet(written \o InFlight \o row_buffer)
          = ToSet(written) \cup ToSet(InFlight) \cup ToSet(row_buffer)
    BY <2>1, <2>2, ToSetJoined
  <2>6. QED
    BY <2>1, <2>4, <2>5 DEF Ordered
<1>3. QED
  BY <1>1, <1>2 DEF RowsInOrder

\* BatchWriter: while flushInternal is not entered twice at a time, rows written,
\* in hand and buffered are the accepted ones in their order, without those dropped;
\* and a closeFile that returns SUCCESS has written, or reported as failed, every row
\* accepted before it had the lock.
THEOREM RowsAlwaysReachTheFile == WriterSpec => RowsReachTheFile
<1>1. ASSUME WriterIInv, NEW c \in Callers, CloseEnds(c), ~unserial
      PROVE  1 .. op[c].mark \subseteq ToSet(written) \cup dropped
  <2>1. c \in Threads /\ op[c].at = "close"
    BY <1>1, Distinct DEF CloseEnds, At
  <2>2. op[c].call = "closeFile" /\ CloseSound(c, op[c])
    BY <1>1, <2>1 DEF WriterIInv, OpsSound, OpSound, ClosesSound
  <2>3. QED
    BY <1>1, <2>1, <2>2 DEF CloseSound
<1>2. WriterIInv /\ WriterIInv' => RowsInOrder'
  BY RowsStayInOrder, PTL
<1>3. WriterIInv /\ WriterIInv' =>
        /\ RowsInOrder'
        /\ \A c \in Callers :
             CloseEnds(c) /\ op[c].ok /\ ~unserial
               => 1 .. op[c].mark \subseteq ToSet(written) \cup dropped
  BY <1>1, <1>2
<1>4. QED
  BY <1>3, WriterInitHolds, WriterStep, PTL DEF WriterSpec, RowsReachTheFile

-----------------------------------------------------------------------------
(* BufferKeepsText of StreamingParser.                                     *)

USE DEF flags, stream, ghosts, past, vars

-----------------------------------------------------------------------------
(* Texts.                                                                  *)

LEMMA LeastElement ==
  ASSUME NEW S \in SUBSET Nat, S # {}
  PROVE  \E m \in S : \A y \in S : m <= y
<1> DEFINE R == {q \in Nat \X Nat : q[1] < q[2]}
<1>1. IsWellFoundedOn(R, Nat)
  BY NatLessThanWellFounded DEF OpToRel
<1> HIDE DEF R
<1>2. PICK m \in S : \A y \in S : ~ (<<y, m>> \in R)
  BY <1>1, WFMin
<1>3. ASSUME NEW y \in S PROVE m <= y
  <2>1. m \in Nat /\ y \in Nat
    OBVIOUS
  <2>2. ~ (y < m)
    BY <1>2, <2>1 DEF R
  <2>3. QED
    BY <2>1, <2>2
<1>4. QED
  BY <1>3

LEMMA MinOfNats ==
  ASSUME NEW S \in SUBSET Nat, S # {}
  PROVE  Min(S) \in S /\ \A y \in S : Min(S) <= y
BY LeastElement DEF Min

LEMMA QuotedFirst ==
  ASSUME NEW t
  PROVE  ~Quoted(t, 1)
<1>1. {j \in 1 .. 1 - 1 : t[j] = "q"} = {}
  OBVIOUS
<1>2. QED
  BY <1>1, FS_EmptySet DEF Quoted

LEMMA QuotedNext ==
  ASSUME NEW t, NEW i \in Nat \ {0}
  PROVE  Quoted(t, i + 1) <=> (Quoted(t, i) <=> t[i] # "q")
<1> DEFINE S == {j \in 1 .. i - 1 : t[j] = "q"}
           T == {j \in 1 .. (i + 1) - 1 : t[j] = "q"}
<1>1. S \subseteq 1 .. i - 1 /\ i \notin S /\ T = S \cup (IF t[i] = "q" THEN {i} ELSE {})
  OBVIOUS
<1>2. IsFiniteSet(1 .. i - 1)
  BY FS_Interval
<1> HIDE DEF S, T
<1>3. IsFiniteSet(S) /\ Cardinality(S) \in Nat
  BY <1>1, <1>2, FS_Subset, FS_CardinalityType
<1>4. CASE t[i] = "q"
  <2>1. Cardinality(T) = Cardinality(S) + 1
    BY <1>1, <1>3, <1>4, FS_AddElement
  <2>2. PICK n \in Nat : n = Cardinality(S) /\ n + 1 = Cardinality(T)
    BY <1>3, <2>1
  <2>3. (n + 1) % 2 = 1 <=> n % 2 # 1
    OBVIOUS
  <2>4. QED
    BY <1>4, <2>2, <2>3 DEF Quoted, S, T
<1>5. CASE t[i] # "q"
  <2>1. T = S
    BY <1>1, <1>5
  <2>2. QED
    BY <1>5, <2>1 DEF Quoted, S, T
<1>6. QED
  BY <1>4, <1>5

\* What is quoted in the first of two texts, and in the second if the first is closed.
LEMMA QuotedBefore ==
  ASSUME NEW A, NEW a \in Seq(A), NEW c \in Seq(A), NEW i \in 1 .. Len(a) + 1
  PROVE  Quoted(a \o c, i) <=> Quoted(a, i)
<1>1. \A j \in 1 .. i - 1 : (a \o c)[j] = a[j]
  OBVIOUS
<1>2. {j \in 1 .. i - 1 : (a \o c)[j] = "q"} = {j \in 1 .. i - 1 : a[j] = "q"}
  BY <1>1
<1>3. QED
  BY <1>2 DEF Quoted

LEMMA QuotedBehind ==
  ASSUME NEW A, NEW a \in Seq(A), NEW c \in Seq(A), Closed(a), NEW i \in 1 .. Len(c) + 1
  PROVE  Quoted(a \o c, Len(a) + i) <=> Quoted(c, i)
<1> DEFINE t == a \o c
           Good(k) == Quoted(t, Len(a) + k) <=> Quoted(c, k)
           Bad == {k \in 1 .. Len(c) + 1 : ~Good(k)}
<1>1. Bad = {}
  <2> SUFFICES ASSUME Bad # {} PROVE FALSE
    OBVIOUS
  <2>1. PICK m \in Bad : \A y \in Bad : m <= y
    <3>1. Bad \in SUBSET Nat
      OBVIOUS
    <3> HIDE DEF Bad
    <3>2. QED
      BY <3>1, LeastElement
  <2>2. Len(a) \in Nat /\ Len(c) \in Nat /\ m \in 1 .. Len(c) + 1 /\ ~Good(m)
    OBVIOUS
  <2>3. m # 1
    <3>1. Quoted(t, Len(a) + 1) <=> Quoted(a, Len(a) + 1)
      BY <2>2, QuotedBefore
    <3>2. Good(1)
      BY <3>1, QuotedFirst DEF Closed
    <3>3. QED
      BY <2>2, <3>2
  <2>4. PICK n \in 1 .. Len(c) : n + 1 = m
    BY <2>2, <2>3
  <2>5. Good(n)
    BY <2>1, <2>2, <2>4
  <2>6. t[Len(a) + n] = c[n]
    BY <2>2, <2>4
  <2> HIDE DEF Bad, t
  <2>7. Quoted(t, (Len(a) + n) + 1) <=> (Quoted(t, Len(a) + n) <=> t[Len(a) + n] # "q")
    <3>1. Len(a) + n \in Nat \ {0}
      BY <2>2, <2>4
    <3>2. QED
      BY <3>1, QuotedNext
  <2>8. Quoted(c, n + 1) <=> (Quoted(c, n) <=> c[n] # "q")
    <3>1. n \in Nat \ {0}
      BY <2>4
    <3>2. QED
      BY <3>1, QuotedNext
  <2>9. (Len(a) + n) + 1 = Len(a) + m
    BY <2>2, <2>4
  <2>10. Good(m)
    BY <2>4, <2>5, <2>6, <2>7, <2>8, <2>9
  <2>11. QED
    BY <2>2, <2>10
<1>2. QED
  BY <1>1

LEMMA ClosedTogether ==
  ASSUME NEW A, NEW a \in Seq(A), NEW c \in Seq(A), Closed(a)
  PROVE  Closed(a \o c) <=> Closed(c)
<1>1. Len(c) + 1 \in 1 .. Len(c) + 1 /\ Len(a \o c) + 1 = Len(a) + (Len(c) + 1)
  OBVIOUS
<1>2. QED
  BY <1>1, QuotedBehind DEF Closed

\* A text ends with an end of line.
EndsLine(t) == Len(t) > 0 /\ t[Len(t)] = "n"

LEMMA LastBreak ==
  ASSUME NEW A, NEW t \in Seq(A), Closed(t), Len(t) > 0
  PROVE  Break(t, Len(t)) <=> EndsLine(t)
<1>1. Len(t) \in Nat \ {0}
  OBVIOUS
<1>2. Quoted(t, Len(t) + 1) <=> (Quoted(t, Len(t)) <=> t[Len(t)] # "q")
  BY <1>1, QuotedNext
<1>3. QED
  BY <1>1, <1>2 DEF Break, EndsLine, Closed


-----------------------------------------------------------------------------
(* Collapsed texts.                                                        *)

KeptUpTo(t, f, i) ==
  IF i = 0 THEN <<>>
  ELSE IF i > 1 /\ Break(t, i - 1) /\ Break(t, i) THEN f[i - 1]
  ELSE Append(f[i - 1], t[i])

Keeping(t, n, f) == f = [i \in 0 .. n |-> KeptUpTo(t, f, i)]

LEMMA KeepingExists ==
  ASSUME NEW t, NEW n \in Nat
  PROVE  \E f : Keeping(t, n, f)
<1> DEFINE Bad == {k \in Nat : ~ \E f : Keeping(t, k, f)}
<1> SUFFICES ASSUME Bad # {} PROVE FALSE
  OBVIOUS
<1>1. PICK m \in Bad : \A y \in Bad : m <= y
  BY LeastElement
<1>2. m # 0
  <2>1. Keeping(t, 0, [i \in 0 .. 0 |-> <<>>])
    BY DEF Keeping, KeptUpTo
  <2>2. QED
    BY <2>1
<1>3. m - 1 \in Nat /\ m - 1 \notin Bad
  BY <1>1, <1>2
<1>4. PICK f : Keeping(t, m - 1, f)
  BY <1>3
<1> DEFINE g == [i \in 0 .. m |-> IF i = m THEN KeptUpTo(t, f, m) ELSE f[i]]
<1>5. ASSUME NEW i \in 0 .. m PROVE g[i] = KeptUpTo(t, g, i)
  <2>1. i # 0 => i - 1 \in 0 .. m - 1 /\ g[i - 1] = f[i - 1]
    BY <1>3
  <2>2. KeptUpTo(t, g, i) = KeptUpTo(t, f, i)
    BY <2>1 DEF KeptUpTo
  <2>3. i # m => f[i] = KeptUpTo(t, f, i)
    BY <1>3, <1>4 DEF Keeping
  <2>4. QED
    BY <2>2, <2>3
<1>6. Keeping(t, m, g)
  BY <1>5 DEF Keeping
<1>7. QED
  BY <1>1, <1>6

\* What is kept of a text, up to each place.
Keeps(t, f) == \A i \in 0 .. Len(t) : f[i] = KeptUpTo(t, f, i)

LEMMA CollapsedKeeps ==
  ASSUME NEW t, Len(t) \in Nat
  PROVE  \E f : Collapsed(t) = f[Len(t)] /\ Keeps(t, f)
<1> DEFINE kept == CHOOSE f : Keeping(t, Len(t), f)
<1>1. Collapsed(t) = kept[Len(t)]
  BY DEF Collapsed, Keeping, KeptUpTo
<1>2. Keeping(t, Len(t), kept)
  <2>1. \E f : Keeping(t, Len(t), f)
    BY KeepingExists
  <2>2. QED
    BY <2>1
<1> HIDE DEF kept
<1>3. Keeps(t, kept)
  BY <1>2 DEF Keeping, Keeps
<1>4. QED
  BY <1>1, <1>3

\* It depends on nothing behind the place.
LEMMA KeptBefore ==
  ASSUME NEW A, NEW a \in Seq(A), NEW c \in Seq(A), NEW f, Keeps(a \o c, f), NEW g, Keeps(a, g)
  PROVE  f[Len(a)] = g[Len(a)]
<1> DEFINE t == a \o c
           Bad == {k \in 0 .. Len(a) : f[k] # g[k]}
<1>1. Bad = {}
  <2> SUFFICES ASSUME Bad # {} PROVE FALSE
    OBVIOUS
  <2>1. PICK m \in Bad : \A y \in Bad : m <= y
    <3>1. Bad \in SUBSET Nat
      OBVIOUS
    <3> HIDE DEF Bad
    <3>2. QED
      BY <3>1, LeastElement
  <2>2. /\ Len(a) \in Nat /\ Len(c) \in Nat /\ Len(t) = Len(a) + Len(c)
        /\ m \in 0 .. Len(a) /\ f[m] # g[m]
    OBVIOUS
  <2>3. f[m] = KeptUpTo(t, f, m) /\ g[m] = KeptUpTo(a, g, m)
    BY <2>2 DEF Keeps
  <2>4. m # 0
    BY <2>2, <2>3 DEF KeptUpTo
  <2>5. f[m - 1] = g[m - 1]
    BY <2>1, <2>2, <2>4
  <2>6. ASSUME NEW i \in 1 .. Len(a) PROVE t[i] = a[i] /\ (Break(t, i) <=> Break(a, i))
    <3>1. t[i] = a[i] /\ i \in 1 .. Len(a) + 1
      OBVIOUS
    <3>2. Quoted(t, i) <=> Quoted(a, i)
      BY <3>1, QuotedBefore
    <3>3. QED
      BY <3>1, <3>2 DEF Break
  <2>7. m \in 1 .. Len(a) /\ (m > 1 => m - 1 \in 1 .. Len(a))
    BY <2>2, <2>4
  <2> HIDE DEF t, Bad
  <2>8. KeptUpTo(t, f, m) = KeptUpTo(a, g, m)
    BY <2>5, <2>6, <2>7 DEF KeptUpTo
  <2>9. QED
    BY <2>2, <2>3, <2>8
<1>2. QED
  BY <1>1

\* Two closed texts that come to the same.
Same(a, b) ==
  /\ a \in Seq(Characters) /\ b \in Seq(Characters)
  /\ Closed(a) /\ Closed(b)
  /\ EndsLine(a) <=> EndsLine(b)
  /\ Collapsed(a) = Collapsed(b)

\* The break that may be behind the first of two texts.
LEMMA BreakBehind ==
  ASSUME NEW A, NEW a \in Seq(A), NEW c \in Seq(A), Closed(a)
  PROVE  /\ \A i \in 1 .. Len(c) : /\ (a \o c)[Len(a) + i] = c[i]
                                   /\ Break(a \o c, Len(a) + i) <=> Break(c, i)
         /\ Len(a) > 0 => (Break(a \o c, Len(a)) <=> EndsLine(a))
<1>1. ASSUME NEW i \in 1 .. Len(c)
      PROVE  (a \o c)[Len(a) + i] = c[i] /\ (Break(a \o c, Len(a) + i) <=> Break(c, i))
  <2>1. (a \o c)[Len(a) + i] = c[i] /\ i \in 1 .. Len(c) + 1
    OBVIOUS
  <2>2. Quoted(a \o c, Len(a) + i) <=> Quoted(c, i)
    BY <2>1, QuotedBehind
  <2>3. QED
    BY <2>1, <2>2 DEF Break
<1>2. ASSUME Len(a) > 0 PROVE Break(a \o c, Len(a)) <=> EndsLine(a)
  <2>1. (a \o c)[Len(a)] = a[Len(a)] /\ Len(a) \in 1 .. Len(a) + 1
    BY <1>2
  <2>2. Quoted(a \o c, Len(a)) <=> Quoted(a, Len(a))
    BY <2>1, QuotedBefore
  <2>3. Break(a, Len(a)) <=> EndsLine(a)
    BY <1>2, LastBreak
  <2>4. QED
    BY <2>1, <2>2, <2>3 DEF Break
<1>3. QED
  BY <1>1, <1>2

LEMMA EndsWithSecond ==
  ASSUME NEW A, NEW a \in Seq(A), NEW c \in Seq(A)
  PROVE  EndsLine(a \o c) <=> IF c = <<>> THEN EndsLine(a) ELSE EndsLine(c)
<1>1. CASE c = <<>>
  <2>1. a \o c = a
    BY <1>1
  <2>2. QED
    BY <1>1, <2>1
<1>2. CASE c # <<>>
  <2>1. Len(c) > 0 /\ Len(a \o c) = Len(a) + Len(c) /\ (a \o c)[Len(a) + Len(c)] = c[Len(c)]
    BY <1>2
  <2>2. Len(a) \in Nat /\ Len(c) \in Nat
    OBVIOUS
  <2>3. QED
    BY <1>2, <2>1, <2>2 DEF EndsLine
<1>3. QED
  BY <1>1, <1>2

LEMMA SameBehind ==
  ASSUME NEW a, NEW b, Same(a, b), NEW c \in Seq(Characters)
  PROVE  Collapsed(a \o c) = Collapsed(b \o c)
<1>1. a \in Seq(Characters) /\ b \in Seq(Characters) /\ Closed(a) /\ Closed(b)
  BY DEF Same
<1> DEFINE s == a \o c
           t == b \o c
<1>2. /\ Len(a) \in Nat /\ Len(b) \in Nat /\ Len(c) \in Nat
      /\ Len(s) = Len(a) + Len(c) /\ Len(t) = Len(b) + Len(c)
  BY <1>1
<1>3. PICK f : Collapsed(s) = f[Len(s)] /\ Keeps(s, f)
  <2>1. Len(s) \in Nat
    BY <1>2
  <2> HIDE DEF s
  <2>2. QED
    BY <2>1, CollapsedKeeps
<1>4. PICK g : Collapsed(t) = g[Len(t)] /\ Keeps(t, g)
  <2>1. Len(t) \in Nat
    BY <1>2
  <2> HIDE DEF t
  <2>2. QED
    BY <2>1, CollapsedKeeps
<1>5. f[Len(a)] = g[Len(b)]
  <2>1. PICK fa : Collapsed(a) = fa[Len(a)] /\ Keeps(a, fa)
    BY <1>2, CollapsedKeeps
  <2>2. PICK gb : Collapsed(b) = gb[Len(b)] /\ Keeps(b, gb)
    BY <1>2, CollapsedKeeps
  <2>3. f[Len(a)] = fa[Len(a)]
    BY <1>1, <1>3, <2>1, KeptBefore
  <2>4. g[Len(b)] = gb[Len(b)]
    BY <1>1, <1>4, <2>2, KeptBefore
  <2>5. QED
    BY <2>1, <2>2, <2>3, <2>4 DEF Same
<1> DEFINE Bad == {k \in 0 .. Len(c) : f[Len(a) + k] # g[Len(b) + k]}
<1>6. Bad = {}
  <2> SUFFICES ASSUME Bad # {} PROVE FALSE
    OBVIOUS
  <2>1. PICK m \in Bad : \A y \in Bad : m <= y
    <3>1. Bad \in SUBSET Nat
      OBVIOUS
    <3> HIDE DEF Bad
    <3>2. QED
      BY <3>1, LeastElement
  <2>2. m \in 0 .. Len(c) /\ f[Len(a) + m] # g[Len(b) + m]
    OBVIOUS
  <2>3. m # 0
    BY <1>2, <1>5, <2>2
  <2>4. PICK n \in 0 .. Len(c) : n = m - 1 /\ m = n + 1 /\ m \in 1 .. Len(c)
    BY <1>2, <2>2, <2>3
  <2>5. f[Len(a) + n] = g[Len(b) + n]
    <3>1. ~ (m <= n)
      BY <2>4
    <3>2. n \notin Bad
      BY <2>1, <3>1
    <3>3. QED
      BY <3>2
  <2> HIDE DEF Bad
  <2>6. /\ s[Len(a) + m] = c[m] /\ t[Len(b) + m] = c[m]
        /\ Break(s, Len(a) + m) <=> Break(c, m)
        /\ Break(t, Len(b) + m) <=> Break(c, m)
    BY <1>1, <2>4, BreakBehind
  <2>7. (Len(a) + m > 1 /\ Break(s, Len(a) + n)) <=> (Len(b) + m > 1 /\ Break(t, Len(b) + n))
    <3>1. CASE n = 0
      <4>1. Len(a) > 0 => (Break(s, Len(a)) <=> EndsLine(a))
        BY <1>1, BreakBehind
      <4>2. Len(b) > 0 => (Break(t, Len(b)) <=> EndsLine(b))
        BY <1>1, BreakBehind
      <4>3. EndsLine(a) <=> EndsLine(b)
        BY DEF Same
      <4>4. (Len(a) + m > 1 <=> Len(a) > 0) /\ (Len(b) + m > 1 <=> Len(b) > 0)
        BY <1>2, <2>4, <3>1
      <4>5. (EndsLine(a) => Len(a) > 0) /\ (EndsLine(b) => Len(b) > 0)
        BY DEF EndsLine
      <4>6. Len(a) + n = Len(a) /\ Len(b) + n = Len(b)
        BY <1>2, <3>1
      <4> HIDE DEF s, t
      <4>7. QED
        BY <4>1, <4>2, <4>3, <4>4, <4>5, <4>6
    <3>2. CASE n # 0
      <4>1. n \in 1 .. Len(c)
        BY <1>2, <2>4, <3>2
      <4>2. /\ Break(s, Len(a) + n) <=> Break(c, n)
            /\ Break(t, Len(b) + n) <=> Break(c, n)
        BY <1>1, <4>1, BreakBehind
      <4>3. Len(a) + m > 1 /\ Len(b) + m > 1
        BY <1>2, <2>4, <4>1
      <4> HIDE DEF s, t
      <4>4. QED
        BY <4>2, <4>3
    <3>3. QED
      BY <3>1, <3>2
  <2>8. /\ f[Len(a) + m] = KeptUpTo(s, f, Len(a) + m)
        /\ g[Len(b) + m] = KeptUpTo(t, g, Len(b) + m)
    <3>1. Len(a) + m \in 0 .. Len(s) /\ Len(b) + m \in 0 .. Len(t)
      BY <1>2, <2>4
    <3> HIDE DEF s, t
    <3>2. QED
      BY <1>3, <1>4, <3>1 DEF Keeps
  <2>9. (Len(a) + m) - 1 = Len(a) + n /\ (Len(b) + m) - 1 = Len(b) + n
        /\ Len(a) + m # 0 /\ Len(b) + m # 0
    BY <1>2, <2>4
  <2> HIDE DEF s, t
  <2>10. KeptUpTo(s, f, Len(a) + m) = KeptUpTo(t, g, Len(b) + m)
    BY <2>5, <2>6, <2>7, <2>9 DEF KeptUpTo
  <2>11. QED
    BY <2>2, <2>8, <2>10
<1>7. f[Len(a) + Len(c)] = g[Len(b) + Len(c)]
  BY <1>2, <1>6
<1>8. QED
  BY <1>2, <1>3, <1>4, <1>7

LEMMA SameTogether ==
  ASSUME NEW a, NEW b, Same(a, b), NEW c \in Seq(Characters), Closed(c)
  PROVE  Same(a \o c, b \o c)
<1>1. a \in Seq(Characters) /\ b \in Seq(Characters)
  BY DEF Same
<1>2. a \o c \in Seq(Characters) /\ b \o c \in Seq(Characters)
  BY <1>1
<1>3. Closed(a \o c) /\ Closed(b \o c)
  BY <1>1, ClosedTogether DEF Same
<1>4. EndsLine(a \o c) <=> EndsLine(b \o c)
  BY <1>1, EndsWithSecond DEF Same
<1>5. QED
  BY <1>2, <1>3, <1>4, SameBehind DEF Same


\* Of two ends of line one is kept.
LEMMA OneMoreEnd ==
  ASSUME NEW t \in Seq(Characters), Closed(t), EndsLine(t)
  PROVE  Same(t, Append(t, "n"))
<1> DEFINE u == Append(t, "n")
<1>1. /\ Len(t) \in Nat /\ Len(t) > 0 /\ Len(u) = Len(t) + 1 /\ u = t \o <<"n">>
      /\ u \in Seq(Characters) /\ u[Len(t) + 1] = "n" /\ <<"n">> \in Seq(Characters)
      /\ Len(<<"n">>) = 1 /\ <<"n">>[1] = "n"
  BY DEF EndsLine, Characters
<1>2. ~Quoted(<<"n">>, 1)
  BY QuotedFirst
<1>3. Closed(<<"n">>)
  <2>1. 1 \in Nat \ {0} /\ <<"n">>[1] # "q"
    OBVIOUS
  <2>2. ~Quoted(<<"n">>, 1 + 1)
    BY <1>2, <2>1, QuotedNext
  <2>3. QED
    BY <1>1, <2>2 DEF Closed
<1>4. Closed(u)
  BY <1>1, <1>3, ClosedTogether
<1>5. EndsLine(u)
  BY <1>1 DEF EndsLine
<1>6. Break(u, Len(t)) /\ Break(u, Len(t) + 1)
  <2>1. Break(<<"n">>, 1)
    BY <1>2 DEF Break
  <2>2. 1 \in 1 .. Len(<<"n">>)
    BY <1>1
  <2>3. /\ Break(t \o <<"n">>, Len(t) + 1) <=> Break(<<"n">>, 1)
        /\ Break(t \o <<"n">>, Len(t)) <=> EndsLine(t)
    BY <1>1, <2>2, BreakBehind
  <2>4. QED
    BY <1>1, <2>1, <2>3
<1> HIDE DEF u
<1>a. Len(u) \in Nat
  BY <1>1
<1>7. PICK f : Collapsed(t) = f[Len(t)] /\ Keeps(t, f)
  <2>1. \E f : Collapsed(t) = f[Len(t)] /\ Keeps(t, f)
    BY <1>1, CollapsedKeeps
  <2>2. QED
    BY <2>1
<1>8. PICK g : Collapsed(u) = g[Len(u)] /\ Keeps(u, g)
  <2>1. \E g : Collapsed(u) = g[Len(u)] /\ Keeps(u, g)
    BY <1>a, CollapsedKeeps
  <2>2. QED
    BY <2>1
<1>9. g[Len(t)] = f[Len(t)]
  <2>1. Keeps(t \o <<"n">>, g)
    BY <1>1, <1>8
  <2>2. QED
    BY <1>1, <1>7, <2>1, KeptBefore
<1>10. g[Len(t) + 1] = KeptUpTo(u, g, Len(t) + 1)
  BY <1>1, <1>8 DEF Keeps
<1>11. KeptUpTo(u, g, Len(t) + 1) = g[Len(t)]
  <2>1. Len(t) + 1 # 0 /\ Len(t) + 1 > 1 /\ (Len(t) + 1) - 1 = Len(t)
    BY <1>1
  <2>2. QED
    BY <1>6, <2>1 DEF KeptUpTo
<1>12. Collapsed(t) = Collapsed(u)
  BY <1>1, <1>7, <1>8, <1>9, <1>10, <1>11
<1>13. QED
  BY <1>1, <1>4, <1>5, <1>12 DEF Same, u

LEMMA SameAgain ==
  ASSUME NEW a, NEW b, NEW c, Same(a, b), Same(b, c)
  PROVE  Same(a, c)
BY DEF Same

LEMMA EndClosed == <<"n">> \in Seq(Characters) /\ Closed(<<"n">>) /\ EndsLine(<<"n">>)
<1>1. /\ <<"n">> \in Seq(Characters) /\ Len(<<"n">>) = 1 /\ <<"n">>[1] = "n"
  BY DEF Characters
<1>2. 1 \in Nat \ {0} /\ <<"n">>[1] # "q"
  OBVIOUS
<1>3. ~Quoted(<<"n">>, 1 + 1)
  BY <1>2, QuotedFirst, QuotedNext
<1>4. QED
  BY <1>1, <1>3 DEF Closed, EndsLine

NewLines(k) == [i \in 1 .. k |-> "n"]

\* One end of line comes to as much as many.
LEMMA ManyEnds ==
  ASSUME NEW a, NEW b, Same(a, b), NEW k \in Nat \ {0}
  PROVE  Same(a \o <<"n">>, b \o NewLines(k))
<1> DEFINE Good(n) == Same(a \o <<"n">>, b \o NewLines(n))
           Bad == {n \in Nat \ {0} : ~Good(n)}
<1>1. Bad = {}
  <2> SUFFICES ASSUME Bad # {} PROVE FALSE
    OBVIOUS
  <2>1. PICK m \in Bad : \A y \in Bad : m <= y
    <3>1. Bad \in SUBSET Nat
      OBVIOUS
    <3> HIDE DEF Bad
    <3>2. QED
      BY <3>1, LeastElement
  <2>2. m \in Nat \ {0} /\ ~Good(m)
    OBVIOUS
  <2>3. m # 1
    <3>1. NewLines(1) = <<"n">>
      BY DEF NewLines
    <3>2. Same(a \o <<"n">>, b \o <<"n">>)
      BY EndClosed, SameTogether
    <3>3. Good(1)
      BY <3>1, <3>2
    <3>4. QED
      BY <2>2, <3>3
  <2>4. PICK n \in Nat \ {0} : m = n + 1
    BY <2>2, <2>3
  <2>5. Good(n)
    <3>1. ~ (m <= n)
      BY <2>4
    <3>2. n \notin Bad
      BY <2>1, <3>1
    <3>3. QED
      BY <3>2
  <2>6. b \o NewLines(n) \in Seq(Characters) /\ Closed(b \o NewLines(n)) /\ b \in Seq(Characters)
    <3>1. QED
      BY <2>5 DEF Same
  <2>7. EndsLine(b \o NewLines(n))
    <3>1. /\ NewLines(n) \in Seq(Characters) /\ NewLines(n) # <<>>
          /\ Len(NewLines(n)) = n /\ NewLines(n)[n] = "n"
      BY DEF Characters, NewLines
    <3>2. EndsLine(NewLines(n))
      BY <3>1 DEF EndsLine
    <3>3. QED
      BY <2>6, <3>1, <3>2, EndsWithSecond
  <2>8. b \o NewLines(m) = Append(b \o NewLines(n), "n")
    <3>1. NewLines(m) = Append(NewLines(n), "n")
      BY <2>4 DEF NewLines
    <3>2. NewLines(n) \in Seq(Characters) /\ "n" \in Characters
      BY DEF Characters, NewLines
    <3>3. QED
      BY <2>6, <3>1, <3>2
  <2>9. Same(b \o NewLines(n), b \o NewLines(m))
    BY <2>6, <2>7, <2>8, OneMoreEnd
  <2>10. Good(m)
    BY <2>5, <2>9, SameAgain
  <2>11. QED
    BY <2>2, <2>10
<1>2. QED
  BY <1>1

-----------------------------------------------------------------------------
(* The line that is taken from the buffer.                                 *)

LEMMA TextsEqual ==
  ASSUME NEW A, NEW a \in Seq(A), NEW c \in Seq(A), Len(a) = Len(c),
         \A i \in 1 .. Len(c) : a[i] = c[i]
  PROVE  a = c
OBVIOUS

LEMMA FirstPart ==
  ASSUME NEW A, NEW t \in Seq(A), NEW n \in 0 .. Len(t)
  PROVE  /\ SubSeq(t, 1, n) \in Seq(A) /\ Len(SubSeq(t, 1, n)) = n
         /\ \A i \in 1 .. n : SubSeq(t, 1, n)[i] = t[i]
<1>1. Len(t) \in Nat /\ n \in Nat /\ n <= Len(t)
  OBVIOUS
<1>2. SubSeq(t, 1, n) = [i \in 1 .. n |-> t[i]]
  BY <1>1
<1>3. \A i \in 1 .. n : t[i] \in A
  BY <1>1
<1>4. QED
  BY <1>1, <1>2, <1>3

LEMMA TextJoinedSize ==
  ASSUME NEW A, NEW a \in Seq(A), NEW c \in Seq(A)
  PROVE  a \o c \in Seq(A) /\ Len(a \o c) = Len(a) + Len(c)
OBVIOUS

LEMMA Regrouped ==
  ASSUME NEW A, NEW a \in Seq(A), NEW c \in Seq(A), NEW d \in Seq(A)
  PROVE  a \o (c \o d) = (a \o c) \o d
OBVIOUS

LEMMA TextRegrouped ==
  ASSUME NEW a \in Seq(Characters), NEW c \in Seq(Characters), NEW d \in Seq(Characters)
  PROVE  a \o (c \o d) = (a \o c) \o d
BY Regrouped

LEMMA TextJoined ==
  ASSUME NEW A, NEW a \in Seq(A), NEW c \in Seq(A), NEW i \in 1 .. Len(a) + Len(c)
  PROVE  (a \o c)[i] = IF i <= Len(a) THEN a[i] ELSE c[i - Len(a)]
OBVIOUS

LEMMA LineEnds ==
  ASSUME NEW t \in Seq(Characters)
  PROVE  /\ LineEnd(t) \in 1 .. Len(t) + 1
         /\ LineEnd(t) <= Len(t) => t[LineEnd(t)] = "n" /\ ~Quoted(t, LineEnd(t))
<1> DEFINE E == {i \in DOMAIN t : t[i] = "n" /\ ~Quoted(t, i)} \cup {Len(t) + 1}
<1>1. Len(t) \in Nat /\ DOMAIN t = 1 .. Len(t)
  OBVIOUS
<1>2. E \in SUBSET Nat /\ E # {} /\ E \subseteq 1 .. Len(t) + 1
  BY <1>1
<1>3. \A i \in E : i <= Len(t) => t[i] = "n" /\ ~Quoted(t, i)
  BY <1>1
<1>4. LineEnd(t) = Min(E)
  BY DEF LineEnd
<1> HIDE DEF E
<1>5. Min(E) \in E
  BY <1>2, MinOfNats
<1>6. QED
  BY <1>2, <1>3, <1>4, <1>5

\* Behind the line come the ends of line that are skipped, and the rest.
LEMMA LineTaken ==
  ASSUME NEW t \in Seq(Characters), LineEnd(t) <= Len(t) \/ Closed(t),
         NEW line, line = SubSeq(t, 1, LineEnd(t) - 1)
  PROVE  /\ line \in Seq(Characters) /\ Closed(line) /\ AfterLine(t) \in Seq(Characters)
         /\ Len(AfterLine(t)) <= Len(t)
         /\ \E k \in Nat : /\ t = (line \o NewLines(k)) \o AfterLine(t)
                           /\ k = 0 <=> ~ (LineEnd(t) <= Len(t))
<1> DEFINE e == LineEnd(t)
           E == {i \in e .. Len(t) : t[i] # "n"} \cup {Len(t) + 1}
           p == Min(E)
<1>1. Len(t) \in Nat /\ e \in 1 .. Len(t) + 1 /\ (e <= Len(t) => t[e] = "n" /\ ~Quoted(t, e))
  BY LineEnds
<1>2. AfterLine(t) = SubSeq(t, p, Len(t))
  BY DEF AfterLine
<1> HIDE DEF e
<1>3. E \in SUBSET Nat /\ E # {}
  BY <1>1
<1>4. /\ \A i \in E : i \in e .. Len(t) + 1
      /\ \A i \in e .. Len(t) : t[i] # "n" => i \in E
      /\ e <= Len(t) => e \notin E
  BY <1>1
<1> HIDE DEF E
<1>5. p \in E /\ \A i \in E : p <= i
  BY <1>3, MinOfNats
<1> HIDE DEF p
<1>6. p \in e .. Len(t) + 1 /\ (e <= Len(t) => p # e) /\ p \in Nat
  BY <1>1, <1>4, <1>5
<1>7. \A i \in e .. p - 1 : t[i] = "n"
  BY <1>1, <1>4, <1>5, <1>6
<1>8. line = SubSeq(t, 1, e - 1)
  BY DEF e
<1>9. /\ line \in Seq(Characters) /\ Len(line) = e - 1 /\ \A i \in 1 .. e - 1 : line[i] = t[i]
  <2>1. e - 1 \in 0 .. Len(t)
    BY <1>1
  <2> DEFINE n == e - 1
  <2> HIDE DEF n
  <2>2. n \in 0 .. Len(t) /\ line = SubSeq(t, 1, n)
    BY <1>8, <2>1 DEF n
  <2>3. line \in Seq(Characters) /\ Len(line) = n /\ \A i \in 1 .. n : line[i] = t[i]
    BY <2>2, FirstPart
  <2>4. QED
    BY <2>3 DEF n
<1>10. /\ AfterLine(t) \in Seq(Characters) /\ Len(AfterLine(t)) = Len(t) + 1 - p
       /\ \A i \in 1 .. Len(t) + 1 - p : AfterLine(t)[i] = t[i + p - 1]
  BY <1>1, <1>2, <1>6
<1>11. Closed(line)
  <2>1. CASE e <= Len(t)
    <3> DEFINE rest == SubSeq(t, e, Len(t))
    <3>1. rest \in Seq(Characters) /\ Len(rest) = Len(t) + 1 - e
      BY <1>1
    <3>2. \A i \in 1 .. Len(rest) : rest[i] = t[i + e - 1]
      BY <1>1, <3>1
    <3> HIDE DEF rest
    <3>3. t = line \o rest
      <4>1. line \o rest \in Seq(Characters) /\ Len(line \o rest) = Len(t)
        BY <1>1, <1>9, <3>1
      <4>2. ASSUME NEW i \in 1 .. Len(t) PROVE (line \o rest)[i] = t[i]
        <5>1. CASE i <= Len(line)
          <6>1. (line \o rest)[i] = line[i]
            BY <1>1, <1>9, <3>1, <5>1
          <6>2. QED
            BY <1>1, <1>9, <5>1, <6>1
        <5>2. CASE ~ (i <= Len(line))
          <6>1. /\ i - (e - 1) \in 1 .. Len(t) + 1 - e /\ (i - (e - 1)) + e - 1 = i
                /\ i \in 1 .. (e - 1) + (Len(t) + 1 - e) /\ ~ (i <= e - 1)
            <7>1. i \in Int /\ e \in Int /\ Len(t) \in Int
              BY <1>1
            <7>2. ~ (i <= e - 1)
              BY <1>9, <5>2
            <7>3. QED
              BY <1>1, <7>1, <7>2
          <6>2. (line \o rest)[i] = rest[i - (e - 1)]
            BY <1>9, <3>1, <6>1, TextJoined
          <6>3. QED
            BY <3>1, <3>2, <6>1, <6>2
        <5>3. QED
          BY <5>1, <5>2
      <4>3. QED
        BY <4>1, <4>2, TextsEqual
    <3>4. e \in 1 .. Len(line) + 1 /\ e = Len(line) + 1
      BY <1>1, <1>9
    <3>5. Quoted(line \o rest, e) <=> Quoted(line, e)
      BY <1>9, <3>1, <3>4, QuotedBefore
    <3>6. QED
      BY <1>1, <2>1, <3>3, <3>4, <3>5 DEF Closed
  <2>2. CASE ~ (e <= Len(t))
    <3>1. e = Len(t) + 1
      BY <1>1, <2>2
    <3>2. line = t
      BY <1>1, <1>9, <3>1
    <3>3. QED
      BY <2>2, <3>2 DEF e
  <2>3. QED
    BY <2>1, <2>2
<1>12. t = (line \o NewLines(p - e)) \o AfterLine(t)
  <2> DEFINE ends == NewLines(p - e)
             first == line \o ends
  <2>1. p - e \in Nat
    BY <1>1, <1>6
  <2>2. /\ ends \in Seq(Characters) /\ Len(ends) = p - e
        /\ \A i \in 1 .. p - e : ends[i] = "n"
    BY <2>1 DEF NewLines, Characters
  <2> HIDE DEF ends
  <2>3. first \in Seq(Characters) /\ Len(first) = p - 1
    <3>1. first \in Seq(Characters) /\ Len(first) = (e - 1) + (p - e)
      BY <1>9, <2>2, TextJoinedSize
    <3>2. (e - 1) + (p - e) = p - 1
      BY <1>1, <1>6
    <3>3. QED
      BY <3>1, <3>2
  <2>4. \A i \in 1 .. p - 1 : first[i] = t[i]
    <3> TAKE i \in 1 .. p - 1
    <3>1. CASE i <= e - 1
      <4>1. i \in 1 .. Len(line) /\ i \in 1 .. e - 1
        BY <1>1, <1>6, <1>9, <3>1
      <4>2. first[i] = line[i]
        <5>1. i \in 1 .. Len(line) + Len(ends) /\ i <= Len(line)
          BY <1>1, <1>6, <1>9, <2>2, <4>1
        <5>2. QED
          BY <1>9, <2>2, <5>1, TextJoined
      <4>3. QED
        BY <1>9, <4>1, <4>2
    <3>2. CASE ~ (i <= e - 1)
      <4>1. i - (e - 1) \in 1 .. p - e /\ i \in e .. p - 1
        BY <1>1, <1>6, <3>2
      <4>2. first[i] = ends[i - (e - 1)]
        <5>1. i \in 1 .. Len(line) + Len(ends) /\ ~ (i <= Len(line))
          BY <1>1, <1>6, <1>9, <2>2, <3>2
        <5>2. QED
          BY <1>9, <2>2, <5>1, TextJoined
      <4>3. QED
        BY <1>7, <2>2, <4>1, <4>2
    <3>3. QED
      BY <3>1, <3>2
  <2> HIDE DEF first
  <2>5. /\ first \o AfterLine(t) \in Seq(Characters)
        /\ Len(first \o AfterLine(t)) = Len(t)
    BY <1>1, <1>6, <1>10, <2>3
  <2>6. \A i \in 1 .. Len(t) : (first \o AfterLine(t))[i] = t[i]
    <3> TAKE i \in 1 .. Len(t)
    <3>1. CASE i <= p - 1
      BY <1>1, <1>6, <1>10, <2>3, <2>4, <3>1
    <3>2. CASE ~ (i <= p - 1)
      <4>1. i - (p - 1) \in 1 .. Len(t) + 1 - p
        BY <1>1, <1>6, <3>2
      <4>2. (first \o AfterLine(t))[i] = AfterLine(t)[i - (p - 1)]
        BY <1>1, <1>6, <1>10, <2>3, <3>2, <4>1
      <4>3. (i - (p - 1)) + p - 1 = i
        BY <1>6
      <4>4. QED
        BY <1>10, <4>1, <4>2, <4>3
    <3>3. QED
      BY <3>1, <3>2
  <2>7. t = first \o AfterLine(t)
    BY <2>5, <2>6, TextsEqual
  <2>8. QED
    BY <2>7 DEF first, ends
<1>13. p - e \in Nat /\ (p - e = 0 <=> ~ (e <= Len(t)))
  BY <1>1, <1>6
<1>14. Len(AfterLine(t)) <= Len(t)
  BY <1>1, <1>6, <1>10
<1>15. QED
  BY <1>9, <1>10, <1>11, <1>12, <1>13, <1>14 DEF e

-----------------------------------------------------------------------------
(* The parser keeps the text.                                              *)

ReadInv ==
  /\ config \in Configs
  /\ input \in Seq(Characters) /\ buffer \in Seq(Characters)
  /\ Len(buffer) <= config.size

\* What was read is what has left the buffer and what is in it; the lines that were
\* taken are the first of the two, but for the ends of line that were skipped.
TextInv == \E before : fed = before \o buffer /\ Same(taken, before)

LEMMA Taking ==
  ASSUME ReadInv, TextInv, LineThere, TakesLine, UNCHANGED <<config, input, fed>>
  PROVE  ReadInv' /\ TextInv'
<1>1. /\ LineOf \in Seq(Characters) /\ Closed(LineOf) /\ AfterLine(buffer) \in Seq(Characters)
      /\ Len(AfterLine(buffer)) <= Len(buffer)
      /\ \E k \in Nat : /\ buffer = (LineOf \o NewLines(k)) \o AfterLine(buffer)
                        /\ k = 0 <=> ~ (LineEnd(buffer) <= Len(buffer))
  <2>1. /\ buffer \in Seq(Characters) /\ (LineEnd(buffer) <= Len(buffer) \/ Closed(buffer))
        /\ LineOf = SubSeq(buffer, 1, LineEnd(buffer) - 1)
    BY DEF ReadInv, LineThere, LineOf
  <2> HIDE DEF LineOf
  <2>2. QED
    BY <2>1, LineTaken
<1>2. buffer' = AfterLine(buffer) /\ fed' = fed /\ config' = config /\ input' = input
  BY DEF TakesLine
<1>3. ReadInv'
  <2>1. config.size \in Nat /\ Len(buffer) \in Nat /\ Len(AfterLine(buffer)) \in Nat
    BY <1>1, ParserAssumption DEF ReadInv, Config
  <2>2. Len(AfterLine(buffer)) <= config.size
    BY <1>1, <2>1 DEF ReadInv
  <2>3. QED
    BY <1>1, <1>2, <2>2 DEF ReadInv
<1>4. PICK k \in Nat : /\ buffer = (LineOf \o NewLines(k)) \o AfterLine(buffer)
                       /\ k = 0 <=> ~ (LineEnd(buffer) <= Len(buffer))
  BY <1>1
<1>5. PICK before : fed = before \o buffer /\ Same(taken, before)
  BY DEF TextInv
<1>6. taken' = (taken \o LineOf) \o (IF k = 0 THEN <<>> ELSE <<"n">>)
  BY <1>4 DEF TakesLine
<1> HIDE DEF LineOf
<1>7. taken \in Seq(Characters) /\ before \in Seq(Characters)
  BY <1>5 DEF Same
<1>8. NewLines(k) \in Seq(Characters)
  BY DEF NewLines, Characters
<1>9. Same(taken \o LineOf, before \o LineOf)
  BY <1>1, <1>5, SameTogether
<1>10. fed' = (before \o (LineOf \o NewLines(k))) \o buffer'
  <2>1. LineOf \o NewLines(k) \in Seq(Characters)
    BY <1>1, <1>8
  <2> DEFINE gone == LineOf \o NewLines(k)
  <2>2. gone \in Seq(Characters) /\ fed' = before \o (gone \o buffer')
    BY <1>2, <1>4, <1>5, <2>1
  <2>3. buffer' \in Seq(Characters)
    BY <1>1, <1>2
  <2> HIDE DEF gone
  <2>4. before \o (gone \o buffer') = (before \o gone) \o buffer'
    BY <1>7, <2>2, <2>3, TextRegrouped
  <2>5. QED
    BY <2>2, <2>4 DEF gone
<1>11. before \o (LineOf \o NewLines(k)) = (before \o LineOf) \o NewLines(k)
  <2>1. before \in Seq(Characters) /\ LineOf \in Seq(Characters)
    BY <1>1, <1>7
  <2>2. QED
    BY <1>8, <2>1, TextRegrouped
<1>12. Same(taken', (before \o LineOf) \o NewLines(k))
  <2>1. CASE k = 0
    <3>1. NewLines(k) = <<>>
      BY <2>1 DEF NewLines
    <3>2. taken \o LineOf \in Seq(Characters) /\ before \o LineOf \in Seq(Characters)
      BY <1>1, <1>7
    <3>3. (taken \o LineOf) \o <<>> = taken \o LineOf
      BY <3>2
    <3>4. (before \o LineOf) \o <<>> = before \o LineOf
      BY <3>2
    <3>5. QED
      BY <1>6, <1>9, <2>1, <3>1, <3>3, <3>4
  <2>2. CASE k # 0
    <3>1. k \in Nat \ {0}
      BY <2>2
    <3>2. Same((taken \o LineOf) \o <<"n">>, (before \o LineOf) \o NewLines(k))
      BY <1>9, <3>1, ManyEnds
    <3>3. QED
      BY <1>6, <2>2, <3>2
  <2>3. QED
    BY <2>1, <2>2
<1>13. TextInv'
  BY <1>10, <1>11, <1>12 DEF TextInv
<1>14. QED
  BY <1>3, <1>13

LEMMA Filling ==
  ASSUME ReadInv, TextInv, FillBuffer
  PROVE  ReadInv' /\ TextInv'
<1> DEFINE count == Min({Space, Len(input)})
           read == SubSeq(input, 1, count)
<1>1. /\ buffer' = buffer \o read /\ fed' = fed \o read /\ config' = config /\ taken' = taken
      /\ input' = SubSeq(input, count + 1, Len(input))
  BY DEF FillBuffer
<1>2. /\ config.size \in Nat /\ Len(buffer) \in Nat /\ Len(input) \in Nat
      /\ Space = config.size - Len(buffer) /\ Space \in Nat
      /\ input \in Seq(Characters) /\ buffer \in Seq(Characters)
  BY ParserAssumption DEF ReadInv, Config, Space
<1>3. count \in Nat /\ count <= Space /\ count <= Len(input)
  <2>1. {Space, Len(input)} \in SUBSET Nat /\ {Space, Len(input)} # {}
    BY <1>2
  <2>2. count \in {Space, Len(input)} /\ \A y \in {Space, Len(input)} : count <= y
    BY <2>1, MinOfNats
  <2>3. QED
    BY <1>2, <2>2
<1> HIDE DEF count
<1>4. read \in Seq(Characters) /\ Len(read) = count /\ input' \in Seq(Characters)
  BY <1>1, <1>2, <1>3
<1> HIDE DEF read
<1>5. ReadInv'
  <2>1. buffer' \in Seq(Characters) /\ Len(buffer') = Len(buffer) + count
    <3>1. buffer \o read \in Seq(Characters) /\ Len(buffer \o read) = Len(buffer) + Len(read)
      BY <1>2, <1>4, TextJoinedSize
    <3>2. QED
      BY <1>1, <1>4, <3>1
  <2>2. Len(buffer') <= config.size
    BY <1>2, <1>3, <2>1
  <2>3. QED
    BY <1>1, <1>4, <2>1, <2>2 DEF ReadInv
<1>6. TextInv'
  <2>1. PICK before : fed = before \o buffer /\ Same(taken, before)
    BY DEF TextInv
  <2>2. before \in Seq(Characters)
    BY <2>1 DEF Same
  <2>3. (before \o buffer) \o read = before \o (buffer \o read)
    <3>1. buffer \in Seq(Characters) /\ read \in Seq(Characters)
      BY <1>2, <1>4
    <3>2. QED
      BY <2>2, <3>1, TextRegrouped
  <2>4. fed' = before \o buffer' /\ Same(taken', before)
    BY <1>1, <2>1, <2>3
  <2>5. QED
    BY <2>4 DEF TextInv
<1>7. QED
  BY <1>5, <1>6

\* Before anything is read, or after setConfig.
LEMMA NothingRead == <<>> = <<>> \o <<>> /\ Same(<<>>, <<>>)
<1>1. <<>> \in Seq(Characters) /\ Len(<<>>) = 0
  OBVIOUS
<1>2. ~Quoted(<<>>, Len(<<>>) + 1)
  BY <1>1, QuotedFirst
<1>3. Same(<<>>, <<>>)
  BY <1>1, <1>2 DEF Same, Closed
<1>4. QED
  BY <1>3

LEMMA TextKept ==
  ASSUME ReadInv, TextInv, Next
  PROVE  ReadInv' /\ TextInv'
<1>1. ASSUME UNCHANGED <<config, input, buffer, fed, taken>>
      PROVE  ReadInv' /\ TextInv'
  BY <1>1 DEF ReadInv, TextInv
<1>2. ASSUME NEW t \in Available, Parse(t) \/ ParseAsync(t) PROVE ReadInv' /\ TextInv'
  <2>1. UNCHANGED <<config, buffer, fed, taken>>
    BY <1>2 DEF Parse, ParseAsync
  <2>2. input' = t \/ input' = input
    BY <1>2 DEF Parse, ParseAsync, Begins
  <2>3. t \in Seq(Characters)
    BY ParserAssumption DEF Available
  <2>4. QED
    BY <2>1, <2>2, <2>3 DEF ReadInv, TextInv
<1>3. ASSUME NEW c \in Configs, SetConfig(c) PROVE ReadInv' /\ TextInv'
  <2>1. config' = c /\ buffer' = <<>> /\ fed' = <<>> /\ taken' = <<>> /\ input' = input
    BY <1>3 DEF SetConfig
  <2>2. TextInv'
    BY <2>1, NothingRead DEF TextInv
  <2>3. c.size \in Nat /\ <<>> \in Seq(Characters) /\ Len(<<>>) = 0
    BY ParserAssumption DEF Config
  <2>4. QED
    BY <2>1, <2>2, <2>3 DEF ReadInv
<1>4. CASE Pause \/ Resume \/ Stop \/ WaitForCompletion \/ Destroy \/ Joins
  BY <1>1, <1>4 DEF Pause, Resume, Stop, WaitForCompletion, Destroy, Joins
<1>5. CASE OpenFails \/ Starts \/ LeavesLoop \/ Ends
  BY <1>1, <1>5 DEF OpenFails, Starts, LeavesLoop, Ends
<1>6. CASE ReadsHeader
  BY <1>6, Taking DEF ReadsHeader
<1>7. ASSUME NEW outcome, ReadsRow(outcome) PROVE ReadInv' /\ TextInv'
  BY <1>7, Taking DEF ReadsRow
<1>8. CASE NoRow
  <2>1. CASE buffer # <<>> /\ LineThere
    BY <1>8, <2>1, Taking DEF NoRow
  <2>2. CASE ~ (buffer # <<>> /\ LineThere)
    BY <1>1, <1>8, <2>2 DEF NoRow
  <2>3. QED
    BY <2>1, <2>2
<1>9. QED
  BY <1>2, <1>3, <1>4, <1>5, <1>6, <1>7, <1>8, Filling DEF Next, Parser, Application

\* What has left the buffer is what was read into it, in order: no character is lost,
\* repeated or moved and no two lines run together, wherever the reads cut the text,
\* for texts, buffers and configurations of every size.
THEOREM TextIsKept == Spec => []BufferKeepsText
<1>1. Init => ReadInv /\ TextInv
  <2> SUFFICES ASSUME Init PROVE ReadInv /\ TextInv
    OBVIOUS
  <2>1. TextInv
    BY NothingRead DEF Init, TextInv
  <2>2. config.size \in Nat /\ <<>> \in Seq(Characters) /\ Len(<<>>) = 0
    BY ParserAssumption DEF Init, Config
  <2>3. ReadInv
    BY <2>2 DEF Init, ReadInv
  <2>4. QED
    BY <2>1, <2>3
<1>2. ReadInv /\ TextInv /\ [Next]_vars => (ReadInv /\ TextInv)'
  <2> SUFFICES ASSUME ReadInv, TextInv, [Next]_vars PROVE ReadInv' /\ TextInv'
    OBVIOUS
  <2>1. CASE UNCHANGED vars
    BY <2>1 DEF ReadInv, TextInv
  <2>2. QED
    BY <2>1, TextKept
<1>3. ReadInv /\ TextInv => BufferKeepsText
  <2> SUFFICES ASSUME ReadInv, TextInv PROVE BufferKeepsText
    OBVIOUS
  <2>1. PICK before : fed = before \o buffer /\ Same(taken, before)
    BY DEF TextInv
  <2>2. before \in Seq(Characters) /\ buffer \in Seq(Characters)
    BY <2>1 DEF Same, ReadInv
  <2>3. SubSeq(before \o buffer, 1, Len(before \o buffer) - Len(buffer)) = before
    BY <2>2
  <2>4. QED
    BY <2>1, <2>3 DEF Same, BufferKeepsText
<1>4. QED
  BY <1>1, <1>2, <1>3, PTL DEF Spec
=============================================================================

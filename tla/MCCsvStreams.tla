----------------------------- MODULE MCCsvStreams -----------------------------
(***************************************************************************)
(* Instances for TLC of the two ends of a CSV file: the parser that reads  *)
(* it in pieces and the writer that writes it in batches.  They share no   *)
(* state (what one makes of the text of the other is RecordsReadBack), so  *)
(* a behaviour is one of the parser or one of the writer, chosen at the    *)
(* beginning; the variables of the other keep one initial value.           *)
(***************************************************************************)
EXTENDS StreamingParser, BatchWriter

CONSTANTS MaxLength, Sizes, main, worker

VARIABLE part

-----------------------------------------------------------------------------
(* The parser: short texts of every form, and what the writer writes.      *)

SomeConfigs ==
  [header : {TRUE}, size : Sizes, trim : {TRUE}, strict : {TRUE}, auto : {TRUE}]
    \cup [header : {FALSE}, size : {Min(Sizes)}, trim : {FALSE}, strict : {FALSE}, auto : {FALSE}]

Fields == {<<>>, <<"s">>, <<"d", "q">>, <<"n", "x">>}
\* The first is one that has to be quoted.
Pairs == {p \in {<<"d", "q">>, <<"n", "x">>} \X Fields : p[1] # p[2]}
Tables == {<<<<p[1]>>, <<p[2]>>>> : p \in Pairs} \cup {<<p>> : p \in Pairs}
Writers ==
  {[always_quote |-> quotes, quote_empty_fields |-> TRUE, escape_char |-> "q"] : quotes \in BOOLEAN}

Written == {FormatRows(t, w) : t \in Tables, w \in Writers}
Short == {<<"q", "x", "n">>, <<"q", "x", "q", "n", "x">>}

Longer == {<<"x", "n", "n", "x">>, <<"q", "n", "q", "n", "x">>}

SomeTexts == BoundedSeq({"x", "q", "n"}, MaxLength) \cup Written \cup Short \cup Longer

\* A parser is used again after one of the texts above.
AgainAfterThese == begun > 0 /\ begun' > begun => text \in Short \cup Longer

\* What the parser finds in the buffer are the records of the text, and it
\* reads what the writer writes.
RecordsReadBack == RowsAreRecords /\ WrittenIsRead(Tables, Writers)

-----------------------------------------------------------------------------
(* The writer: the worker writes batches, the main thread does the rest,   *)
(* with a header that is flushed beside the background thread.             *)

UsesOf ==
  (main :> {"writeRow", "flush", "openFile", "closeFile", "clearBuffer",
            "enableAutoFlush", "setConfig", "writeHeader"})
    @@ (worker :> {"writeRows"})

-----------------------------------------------------------------------------

Begin ==
  /\ part \in {"parser", "writer"}
  /\ Init /\ WriterInit
  /\ part = "writer" => config = CHOOSE c \in Configs : TRUE

Step ==
  \/ part = "parser" /\ Next /\ AgainAfterThese /\ UNCHANGED <<part, writerVars>>
  \/ part = "writer" /\ WriterNext /\ UNCHANGED <<part, vars>>

Both == <<part, vars, writerVars>>

\* The fairness of the two modules, for the part that runs.
BothFair ==
  /\ Begin /\ [][Step]_Both
  /\ WF_Both(part = "parser" /\ Parser /\ UNCHANGED <<part, writerVars>>)
  /\ WF_Both(part = "parser" /\ Joins /\ UNCHANGED <<part, writerVars>>)
  /\ SF_Both(part = "writer" /\ Continues(main) /\ UNCHANGED <<part, vars>>)
  /\ SF_Both(part = "writer" /\ Continues(worker) /\ UNCHANGED <<part, vars>>)
  /\ SF_Both(part = "writer" /\ BackgroundFlushWorker /\ UNCHANGED <<part, vars>>)
=============================================================================

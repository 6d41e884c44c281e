--------------------------- MODULE StreamingParser ---------------------------
(***************************************************************************)
(* BBP::CSV::StreamingParser: a text is read into a buffer of fixed size,  *)
(* rows are taken from the buffer and given to a callback, what is left is *)
(* moved to the front and the buffer is filled again.  It runs on the      *)
(* caller's thread (parseString, parseFile) or on one of its own           *)
(* (parseFileAsync), and other threads may pause, resume and stop it.      *)
(*                                                                         *)
(* buffer is what lies between buffer_pos_ and buffer_size_: fillBuffer    *)
(* moves it to the front before it reads, so that the place it had does    *)
(* not matter.                                                             *)
(***************************************************************************)
EXTENDS CsvText, TLC

CONSTANTS
  Texts,       \* the contents of files
  Later,       \* bound: those of the second parse and after
  Configs,     \* the configurations in use
  Api,         \* the operations the application uses
  Probe,       \* bytes detectEncoding reads
  MaxParses    \* bound: parses begun

Operations == {"parse", "parseAsync", "pause", "resume", "stop", "setConfig", "wait", "destroy"}

\* size: buffer_size; header: has_header; trim: trim_whitespace; strict:
\* strict_mode; auto: the encoding is AUTO_DETECT.
Config == [size : Nat \ {0}, header : BOOLEAN, trim : BOOLEAN, strict : BOOLEAN, auto : BOOLEAN]

ASSUME ParserAssumption ==
  /\ Later \subseteq Texts /\ Texts \subseteq Seq(Characters) /\ Configs \subseteq Config
  /\ Api \subseteq Operations /\ Probe \in Nat /\ MaxParses \in Nat

VARIABLES
  config,      \* config_
  parsing,     \* is_parsing_
  paused,      \* is_paused_
  stop,        \* should_stop_
  thread,      \* parsing_thread_ is joinable
  buffer,      \* the bytes read and not yet taken
  headers,     \* headers_
  number,      \* current_row_number_
  input,       \* what the stream has left to give
  good,        \* stream.good()
  pc,          \* where the thread that parses is
  app,         \* what the application's thread does
  rows,        \* the rows given to the callback in this parse
  text,        \* observer: the text of this parse
  clean,       \* observer: the buffer was empty when it began
  cut,         \* observer: it was stopped, or ended by a row that failed, or the
               \* configuration has changed since
  fed,         \* observer: everything read into the buffer since it was last emptied
  taken,       \* observer: the lines taken since, an "n" behind each that had one
  begun        \* observer: parses begun

flags == <<parsing, paused, stop>>
stream == <<input, good>>
ghosts == <<text, clean, cut>>
past == <<fed, taken>>
vars == <<config, flags, thread, buffer, headers, number, stream, pc, app, rows, ghosts, past, begun>>

Working == pc \notin {"none", "done"}
Alive == app \notin {"destroyed", "terminated"}

Init ==
  /\ config \in Configs
  /\ parsing = FALSE /\ paused = FALSE /\ stop = FALSE /\ thread = FALSE
  /\ buffer = <<>> /\ headers = <<>> /\ number = 0
  /\ input = <<>> /\ good = FALSE
  /\ pc = "none" /\ app = "idle" /\ rows = <<>>
  /\ text = <<>> /\ clean = TRUE /\ cut = FALSE
  /\ fed = <<>> /\ taken = <<>> /\ begun = 0

-----------------------------------------------------------------------------
(* The application.                                                        *)

Available == IF begun = 0 THEN Texts ELSE Later

Begins(t) ==
  /\ begun < MaxParses /\ begun' = begun + 1
  /\ pc' = "started" /\ input' = t /\ good' = TRUE
  /\ text' = t /\ clean' = (buffer = <<>>) /\ cut' = FALSE
  /\ rows' = <<>>

\* parseFile, parseString, parseStream.
Parse(t) ==
  /\ "parse" \in Api /\ app = "idle" /\ ~parsing /\ ~Working
  /\ app' = "parses"
  /\ Begins(t)
  /\ UNCHANGED <<config, flags, thread, buffer, headers, number, past>>

\* parseFileAsync, parseStreamAsync: the thread object is assigned over.  If it
\* is joinable, that ends the process.
ParseAsync(t) ==
  /\ "parseAsync" \in Api /\ app = "idle" /\ ~parsing
  /\ IF thread
     THEN /\ app' = "terminated"
          /\ UNCHANGED <<pc, stream, rows, ghosts, begun, thread>>
     ELSE /\ thread' = TRUE
          /\ Begins(t)
          /\ UNCHANGED app
  /\ UNCHANGED <<config, flags, buffer, headers, number, past>>

\* The other operations of the application's thread, and of any other.
Pause ==
  /\ "pause" \in Api /\ Alive
  /\ paused' = TRUE
  /\ UNCHANGED <<config, parsing, stop, thread, buffer, headers, number, stream, pc, app, rows,
                 ghosts, past, begun>>

Resume ==
  /\ "resume" \in Api /\ Alive
  /\ paused' = FALSE
  /\ UNCHANGED <<config, parsing, stop, thread, buffer, headers, number, stream, pc, app, rows,
                 ghosts, past, begun>>

Stop ==
  /\ "stop" \in Api /\ Alive
  /\ stop' = TRUE /\ paused' = FALSE
  /\ UNCHANGED <<config, parsing, thread, buffer, headers, number, stream, pc, app, rows,
                 ghosts, past, begun>>

\* setConfig gives up the buffer, and what was in it.  (Bound: between two parses.)
SetConfig(c) ==
  /\ "setConfig" \in Api /\ app = "idle" /\ ~parsing /\ ~Working
  /\ begun \in 1 .. MaxParses - 1
  /\ config' = c
  /\ buffer' = <<>> /\ fed' = <<>> /\ taken' = <<>>
  /\ cut' = TRUE
  /\ UNCHANGED <<flags, thread, headers, number, stream, pc, app, rows, text, clean, begun>>

WaitForCompletion ==
  /\ "wait" \in Api /\ app = "idle" /\ thread
  /\ app' = "waits"
  /\ UNCHANGED <<config, flags, thread, buffer, headers, number, stream, pc, rows, ghosts, past,
                 begun>>

\* The destructor stops and joins a parse that is seen to run.  Else the thread
\* object is destroyed as it is.
Destroy ==
  /\ "destroy" \in Api /\ app = "idle"
  /\ IF parsing
     THEN app' = "destroys" /\ stop' = TRUE /\ paused' = FALSE
     ELSE /\ app' = IF thread THEN "terminated" ELSE "destroyed"
          /\ UNCHANGED <<stop, paused>>
  /\ UNCHANGED <<config, parsing, thread, buffer, headers, number, stream, pc, rows, ghosts, past,
                 begun>>

Joins ==
  /\ app \in {"waits", "destroys"} /\ pc = "done"
  /\ thread' = FALSE
  /\ app' = IF app = "waits" THEN "idle" ELSE "destroyed"
  /\ UNCHANGED <<config, flags, buffer, headers, number, stream, pc, rows, ghosts, past, begun>>

-----------------------------------------------------------------------------
(* The thread that parses.                                                 *)

SetParsingState(running) ==
  /\ parsing' = running /\ paused' = FALSE /\ stop' = FALSE

\* The file of parseFileAsync is opened by the thread.
OpenFails ==
  /\ pc = "started" /\ app # "parses"
  /\ SetParsingState(FALSE)
  /\ pc' = "done" /\ cut' = TRUE
  /\ UNCHANGED <<config, thread, buffer, headers, number, stream, app, rows, text, clean, past,
                 begun>>

\* handleEncoding and the beginning of parseInternal.  A stream that has fewer
\* bytes than are probed has failed before the first row is read.
Starts ==
  /\ pc = "started"
  /\ SetParsingState(TRUE)
  /\ good' = (config.auto => Len(input) >= Probe)
  /\ number' = 0 /\ headers' = <<>>
  /\ pc' = "loop"
  /\ UNCHANGED <<config, thread, buffer, input, app, rows, ghosts, past, begun>>

\* Fault: a parse that is stopped reads what is left.
LeavesAtEnd ==
  /\ pc = "loop"
  /\ ~good
  /\ pc' = "ends" /\ cut' = (cut \/ stop)
  /\ UNCHANGED <<config, flags, thread, buffer, headers, number, stream, app, rows, text, clean,
                 past, begun>>

\* The loop of parseInternal: its condition, and the wait of a paused parse.
LeavesLoop ==
  /\ pc = "loop"
  /\ stop \/ ~good
  /\ pc' = "ends" /\ cut' = (cut \/ stop)
  /\ UNCHANGED <<config, flags, thread, buffer, headers, number, stream, app, rows, text, clean,
                 past, begun>>

Space == config.size - Len(buffer)

\* fillBuffer: a read that gets less than it asked for ends the stream.
FillBuffer ==
  /\ pc = "loop"
  /\ ~stop /\ good /\ ~paused
  /\ LET count == Min({Space, Len(input)})
         read == SubSeq(input, 1, count)
     IN  /\ buffer' = buffer \o read
         /\ fed' = fed \o read
         /\ input' = SubSeq(input, count + 1, Len(input))
         /\ good' = (count = Space)
  /\ pc' = "rows"
  /\ UNCHANGED <<config, flags, thread, headers, number, app, rows, ghosts, taken, begun>>

\* extractNextRow.  The buffer ends the line, unless it ends inside quotes.
LineThere == LineEnd(buffer) <= Len(buffer) \/ Closed(buffer)
LineOf == SubSeq(buffer, 1, LineEnd(buffer) - 1)

TakesLine ==
  /\ buffer' = AfterLine(buffer)
  /\ taken' = taken \o LineOf \o (IF LineEnd(buffer) <= Len(buffer) THEN <<"n">> ELSE <<>>)

ParsedRow(line) == [number |-> number + 1, fields |-> ParseRow(line, config.trim),
                    headers |-> headers]

\* processRow: the first row is the header.
ReadsHeader ==
  /\ pc = "rows" /\ buffer # <<>> /\ LineThere /\ LineOf # <<>>
  /\ config.header /\ number = 0
  /\ number' = 1
  /\ headers' = ParseRow(LineOf, config.trim)
  /\ TakesLine
  /\ UNCHANGED <<config, flags, thread, stream, pc, app, rows, ghosts, fed, begun>>

\* The row is given to the callback, which may stop the parse; what it returns
\* changes nothing.  If it throws, the row is counted as an error.
ReadsRow(outcome) ==
  /\ pc = "rows" /\ buffer # <<>> /\ LineThere /\ LineOf # <<>>
  /\ ~(config.header /\ number = 0)
  /\ number' = number + 1
  /\ rows' = Append(rows, ParsedRow(LineOf))
  /\ TakesLine
  /\ IF outcome = "stops"
     THEN "stop" \in Api /\ stop' = TRUE /\ paused' = FALSE
     ELSE UNCHANGED <<stop, paused>>
  /\ pc' = IF outcome = "throws" /\ config.strict THEN "ends" ELSE pc
  /\ cut' = (cut \/ pc' = "ends")
  /\ UNCHANGED <<config, parsing, thread, headers, stream, app, text, clean, fed, begun>>

\* An empty line, or one that is not complete, ends the work on this buffer: the
\* first has been taken from it, the second has not.
NoRow ==
  /\ pc = "rows"
  /\ buffer = <<>> \/ ~LineThere \/ LineOf = <<>>
  /\ IF buffer # <<>> /\ LineThere THEN TakesLine ELSE UNCHANGED <<buffer, taken>>
  /\ pc' = "loop"
  /\ UNCHANGED <<config, flags, thread, headers, number, stream, app, rows, ghosts, fed, begun>>

Ends ==
  /\ pc = "ends"
  /\ SetParsingState(FALSE)
  /\ pc' = "done"
  /\ app' = IF app = "parses" THEN "idle" ELSE app
  /\ UNCHANGED <<config, thread, buffer, headers, number, stream, rows, ghosts, past, begun>>

Parser ==
  /\ Alive
  /\ \/ OpenFails \/ Starts \/ LeavesLoop \/ FillBuffer
     \/ ReadsHeader \/ \E outcome \in {"returns", "stops", "throws"} : ReadsRow(outcome)
     \/ NoRow \/ Ends

Application ==
  \/ \E t \in Available : Parse(t) \/ ParseAsync(t)
  \/ Pause \/ Resume \/ Stop \/ \E c \in Configs : SetConfig(c)
  \/ WaitForCompletion \/ Destroy \/ Joins

Next == Parser \/ Application

Spec == Init /\ [][Next]_vars

\* The thread that parses runs, and a join that may return does.
FairSpec == Spec /\ WF_vars(Parser) /\ WF_vars(Joins)

-----------------------------------------------------------------------------
(* Properties.                                                             *)

\* Of the ends of line outside quotes that follow one another, the first.
Break(t, i) == t[i] = "n" /\ ~Quoted(t, i)
Collapsed(t) ==
  LET kept[i \in 0 .. Len(t)] ==
        IF i = 0 THEN <<>>
        ELSE IF i > 1 /\ Break(t, i - 1) /\ Break(t, i) THEN kept[i - 1]
        ELSE Append(kept[i - 1], t[i])
  IN  kept[Len(t)]

\* What has left the buffer is what was read, in order: wherever the reads cut the
\* text, across parses and whatever was moved within the buffer, no character is
\* lost, repeated or taken from its place, and no two lines are run together.
BufferKeepsText ==
  Collapsed(taken) = Collapsed(SubSeq(fed, 1, Len(fed) - Len(buffer)))

\* The lines of the text that are given: the last one, unless it ends in quotes.
Given == LET lines == Records(text) IN IF Closed(text) THEN lines ELSE Front(lines)

\* What the callback got, the header in front of it.
Got == (IF config.header /\ headers # <<>> THEN <<headers>> ELSE <<>>)
         \o [k \in DOMAIN rows |-> rows[k].fields]

\* A parse that was left to its end, of a text that fits the buffer, is long enough
\* to be probed and does not begin with an empty line.
Whole ==
  /\ pc = "done" /\ clean /\ ~cut
  /\ text # <<>> /\ Head(text) # "n"
  /\ Len(text) <= config.size /\ (config.auto => Len(text) >= Probe)

\* Such a parse gives exactly the lines the text has by definition, each with its
\* number and the header of this text: none torn, joined, left out or given twice.
RowsAreRecords ==
  Whole => /\ Got = [k \in DOMAIN Given |-> ParseRow(Given[k], config.trim)]
           /\ \A k \in DOMAIN rows :
                 /\ rows[k].number = k + Len(Got) - Len(rows)
                 /\ rows[k].headers = headers

\* The parser reads what BatchWriter writes: delimiters, quotes and ends of line in
\* fields come back, and fields have the blanks around them trimmed if asked for.
WrittenIsRead(tables, writers) ==
  pc = "done" =>
    \A table \in tables, w \in writers :
      /\ text = FormatRows(table, w) /\ Whole
      /\ \A k \in DOMAIN table : FormatRow(table[k], w) # <<>>
      => Got = [k \in DOMAIN table |-> [i \in DOMAIN table[k] |->
                  IF config.trim THEN Trimmed(table[k][i]) ELSE table[k][i]]]

\* The buffer is full of a line that does not end in it: nothing can be read any more.
Stuck == Space = 0 /\ ~LineThere

\* A parse that is stopped ends; one that is not ends too, unless it is paused or its
\* buffer is too small for a line.
ParsesEnd ==
  /\ parsing /\ stop ~> ~parsing
  /\ parsing ~> ~parsing \/ paused \/ Stuck

-----------------------------------------------------------------------------
(* Promises of the documentation that the code does not keep.              *)

\* streaming_parser.hpp: "constant memory usage", whatever the size of the file.
\* A line is torn where a read ends, and what follows an end of line at the
\* beginning of the last read is lost.
AnySizeIsRead ==
  pc = "done" /\ clean /\ ~cut /\ Closed(text)
    => Got = [k \in DOMAIN Records(text) |-> ParseRow(Records(text)[k], config.trim)]

\* "pause, resume and stop": a line longer than the buffer ends no parse.
LongLinesEnd == parsing ~> ~parsing \/ paused

\* What an earlier parse left in the buffer is read before the text of the next.
ParsesAreSeparate == pc = "started" => clean

\* "Background thread": stopParsing before the thread is there is forgotten.
StopIsKept == [][pc = "started" /\ stop => stop']_vars

\* streaming_parser.cpp:207, the destructor: "Ensure parsing is stopped and thread is
\* joined".  A parse that is over, or has not begun, leaves a thread to be joined.
NeverTerminates == app # "terminated"
=============================================================================

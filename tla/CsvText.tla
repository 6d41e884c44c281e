------------------------------- MODULE CsvText -------------------------------
(***************************************************************************)
(* CSV as text: how BBP::CSV::BatchWriter formats a row and how            *)
(* BBP::CSV::StreamingParser cuts a text into lines and a line into        *)
(* fields.  The two are separate code, written against the same idea of a  *)
(* CSV file.                                                               *)
(*                                                                         *)
(* A text is a sequence of characters, of which only the class matters:    *)
(* "q" is the quote, "d" the delimiter, "n" an end of line (\n or \r),     *)
(* "s" a blank, "b" an escape character other than the quote, "x" any      *)
(* other.                                                                  *)
(***************************************************************************)
EXTENDS Integers, Sequences, FiniteSets, SequencesExt

Characters == {"q", "d", "n", "s", "b", "x"}
Blanks == {"s", "n"}

-----------------------------------------------------------------------------
(* The writer: WriterConfig is always_quote, quote_empty_fields and        *)
(* escape_char, and each row is followed by line_ending.                   *)

NeedsQuoting(field, w) ==
  \/ w.always_quote
  \/ field = <<>> /\ w.quote_empty_fields
  \/ \E i \in DOMAIN field : field[i] \in {"d", "q", "n"}
  \/ field # <<>> /\ (Head(field) = "s" \/ Last(field) = "s")

\* Fault: quotes in a field are not doubled.
EscapedBare(field, w) ==
  IF NeedsQuoting(field, w) THEN <<"q">> \o field \o <<"q">> ELSE field

Escaped(field, w) ==
  IF NeedsQuoting(field, w)
  THEN <<"q">> \o FlattenSeq([i \in DOMAIN field |->
                    IF field[i] = "q" THEN <<w.escape_char, "q">> ELSE <<field[i]>>])
               \o <<"q">>
  ELSE field

\* CsvRow::toString.
FormatRow(row, w) ==
  FlattenSeq([i \in DOMAIN row |->
                (IF i > 1 THEN <<"d">> ELSE <<>>) \o Escaped(row[i], w)])

FormatRows(rows, w) == FlattenSeq([i \in DOMAIN rows |-> FormatRow(rows[i], w) \o <<"n">>])

-----------------------------------------------------------------------------
(* The parser, within a line: ParserConfig is trim_whitespace.             *)

Trimmed(field) ==
  LET kept == {i \in DOMAIN field : field[i] \notin Blanks}
  IN  IF kept = {} THEN <<>> ELSE SubSeq(field, Min(kept), Max(kept))

\* Inside quotes at a place: an odd number of quotes before it.
Quoted(text, i) == Cardinality({j \in 1 .. i - 1 : text[j] = "q"}) % 2 = 1

Ascending(places, last) == SelectSeq([i \in 1 .. last + 1 |-> i - 1], LAMBDA i : i \in places)

\* StreamingParser::parseRow.  A quote inside quotes stands for itself if another
\* follows; every other quote opens or closes, wherever it stands.
ParseRow(line, trim) ==
  LET Stays(i) == \/ line[i] # "q"
                  \/ Quoted(line, i) /\ i < Len(line) /\ line[i + 1] = "q"
      ends == Ascending({0, Len(line) + 1}
                          \cup {i \in DOMAIN line : line[i] = "d" /\ ~Quoted(line, i)},
                        Len(line) + 1)
      Field(k) == LET all == [i \in 1 .. ends[k + 1] - ends[k] - 1 |-> ends[k] + i]
                      stay == SelectSeq(all, Stays)
                  IN  [i \in DOMAIN stay |-> line[stay[i]]]
  IN  IF line = <<>> THEN <<>>
      ELSE [k \in 1 .. Len(ends) - 1 |-> IF trim THEN Trimmed(Field(k)) ELSE Field(k)]

(* The parser, from line to line.                                          *)

\* Fault: quotes change nothing for the end of a line.
UnquotedEnd(text) == Min({i \in DOMAIN text : text[i] = "n"} \cup {Len(text) + 1})

\* Where extractNextRow stops: at the first end of line outside quotes, or
\* behind the last character.
LineEnd(text) ==
  Min({i \in DOMAIN text : text[i] = "n" /\ ~Quoted(text, i)} \cup {Len(text) + 1})

\* Fault: two characters are skipped, as for \r\n, whatever the second is.
AfterTwo(text) == SubSeq(text, LineEnd(text) + 2, Len(text))

\* What it leaves: the ends of line that follow, quoted or not, are skipped.
AfterLine(text) ==
  LET end == LineEnd(text)
  IN  SubSeq(text, Min({i \in end .. Len(text) : text[i] # "n"} \cup {Len(text) + 1}), Len(text))

-----------------------------------------------------------------------------
(* What a CSV text says, by definition: the lines are what stands between  *)
(* ends of line outside quotes, empty ones left out.                       *)

Records(text) ==
  LET Breaks == {i \in DOMAIN text : text[i] = "n" /\ ~Quoted(text, i)}
                  \cup {0, Len(text) + 1}
      Next(i) == Min({j \in Breaks : j > i})
      starts == Ascending({i \in Breaks : i <= Len(text) /\ Next(i) > i + 1}, Len(text))
  IN  [k \in DOMAIN starts |-> SubSeq(text, starts[k] + 1, Next(starts[k]) - 1)]

\* Nothing in the text is between a quote and the end.
Closed(text) == ~Quoted(text, Len(text) + 1)
=============================================================================

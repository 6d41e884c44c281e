---------------------------- MODULE SchemaValidator ----------------------------
(***************************************************************************)
(* BBP::CSV::CsvSchemaValidator: schemas registered by name and version,   *)
(* and files validated against them a line at a time.  A file is a         *)
(* sequence of lines, a line the sequence of its cells (parseCsvRow), and  *)
(* an empty line is empty.                                                 *)
(*                                                                         *)
(* A schema is [version, fields, strict, extra, header]: strict_mode_,     *)
(* allow_extra_columns_ and header_required_; a version is <<major, minor, *)
(* patch>>; a field is [names, required, type, min, max, set], names being *)
(* its name and its aliases.                                               *)
(***************************************************************************)
EXTENDS Integers, Sequences, FiniteSets, SequencesExt, PlacesInOrder

CONSTANTS
  Names,        \* names of schemas
  Schemas,      \* what may be registered
  Versions,     \* versions asked for
  Files,        \* files to validate
  Trim,         \* cell -> the cell without the blanks around it
  Empty,        \* trimmed cells that count as empty
  Length,       \* trimmed cell -> its length
  Number,       \* trimmed cell -> the number it begins with, or NaN
  NaN,
  Formats,      \* type -> trimmed cells of the form it asks for
  MaxErrors,    \* max_errors_per_field_
  MaxCalls      \* bound: schemas registered and files validated

Cells == DOMAIN Trim
Field == [names : SUBSET Cells, required : BOOLEAN, type : STRING, min : Int, max : Int, set : SUBSET Cells]

ASSUME SchemaAssumption ==
  /\ MaxErrors \in Nat \ {0} /\ MaxCalls \in Nat
  /\ "" \in Cells
  /\ Files \subseteq Seq(Seq(Cells))
  /\ \A s \in Schemas :
       s.fields \in Seq(Field) /\ s.strict \in BOOLEAN /\ s.extra \in BOOLEAN /\ s.header \in BOOLEAN

VARIABLES
  schemas,      \* schemas_: name -> version -> schema
  phase,        \* "idle" or "reading"
  schema,       \* the schema of the validation at hand
  file,         \* its file
  next,         \* the line it reads next
  header,       \* header_validated
  result,       \* ValidationResult
  stop_on_first_error, \* set before the first file is validated
  calls         \* observer

run == <<phase, schema, file, next, header, result>>
vars == <<schemas, run, stop_on_first_error, calls>>

NoResult == [valid |-> TRUE, total |-> 0, good |-> 0, bad |-> 0, warned |-> 0, errors |-> <<>>]

Init ==
  /\ schemas = [n \in Names |-> <<>>]
  /\ phase = "idle" /\ schema = <<>> /\ file = <<>> /\ next = 0
  /\ header = FALSE /\ result = NoResult
  /\ stop_on_first_error \in BOOLEAN /\ calls = 0

-----------------------------------------------------------------------------
(* Schemas.                                                                *)

AtLeast(v, w) ==
  \/ v[1] > w[1]
  \/ v[1] = w[1] /\ v[2] > w[2]
  \/ v[1] = w[1] /\ v[2] = w[2] /\ v[3] >= w[3]

\* isCompatibleWith.
Compatible(v, w) == v[1] = w[1] /\ v[2] >= w[2]

\* The version getSchema gives: the one asked for, or the latest compatible with it.
Found(name, version) ==
  LET there == DOMAIN schemas[name]
      fit == {v \in there : Compatible(v, version)}
  IN  IF version \in there THEN {version} ELSE {v \in fit : \A w \in fit : AtLeast(v, w)}

RegisterSchema(name, s) ==
  /\ phase = "idle" /\ calls < MaxCalls
  /\ schemas' = [schemas EXCEPT ![name] =
                   [v \in DOMAIN @ \cup {s.version} |-> IF v = s.version THEN s ELSE @[v]]]
  /\ calls' = calls + 1
  /\ UNCHANGED <<run, stop_on_first_error>>

-----------------------------------------------------------------------------
(* Cells and lines.                                                        *)

One(holds) == IF holds THEN 1 ELSE 0

\* validateString to validateCustom: the number of errors a cell that is not empty has.
\* A string may have one for each of its constraints.
Faults(v, f) ==
  CASE f.type = "STRING" ->
         One(Length[v] < f.min) + One(Length[v] > f.max) + One(f.set # {} /\ v \notin f.set)
    [] f.type \in {"INTEGER", "FLOAT"} ->
         One(Number[v] = NaN \/ (Number[v] # NaN /\ (Number[v] < f.min \/ Number[v] > f.max)))
    [] f.type = "ENUM" -> One(v \notin f.set)
    [] OTHER -> One(v \notin Formats[f.type])

\* validateField: what it reports of a cell.
Reports(v, f) ==
  LET many == IF v \in Empty THEN One(f.required) ELSE Faults(v, f)
  IN  [k \in 1 .. many |-> [names |-> f.names, severity |-> "ERROR"]]

\* The cell for a field is the one in its place, and empty behind the end of the line.
RowReports(line, s) ==
  FlattenSeq([i \in DOMAIN s.fields |->
    Reports(IF i <= Len(line) THEN Trim[line[i]] ELSE "", s.fields[i])])

\* Fault: a field that may be missing is missed too.
AllMissing(line, s) == {i \in DOMAIN s.fields : \A k \in DOMAIN line : line[k] \notin s.fields[i].names}

\* validateHeader compares the cells as they are.
Missing(line, s) ==
  {i \in DOMAIN s.fields : s.fields[i].required /\ \A k \in DOMAIN line : line[k] \notin s.fields[i].names}
Extra(line, s) ==
  IF s.extra THEN {}
  ELSE {k \in DOMAIN line : \A i \in DOMAIN s.fields : line[k] \notin s.fields[i].names}

HeaderFits(line, s) == Missing(line, s) = {} /\ (Extra(line, s) = {} \/ ~s.strict)

HeaderReports(line, s) ==
  LET missing == Places(Missing(line, s), Len(s.fields))
      extra == Places(Extra(line, s), Len(line))
  IN  [k \in DOMAIN missing |-> [names |-> s.fields[missing[k]].names, severity |-> "ERROR"]]
        \o [k \in DOMAIN extra |-> [names |-> {line[extra[k]]}, severity |-> "WARNING"]]

\* addValidationError: each error of a field from the last it should report on is
\* followed by a notice.
Noted(errors, r) ==
  LET with == Append(errors, r)
      same == {i \in DOMAIN with : with[i].names = r.names /\ with[i].severity # "NOTICE"}
  IN  IF Cardinality(same) >= MaxErrors
      THEN Append(with, [names |-> r.names, severity |-> "NOTICE"]) ELSE with

Reported(errors, reports) ==
  LET all[k \in 0 .. Len(reports)] == IF k = 0 THEN errors ELSE Noted(all[k - 1], reports[k])
  IN  all[Len(reports)]

-----------------------------------------------------------------------------
(* validateCsvStream.                                                      *)

Validate(lines, name, version) ==
  /\ phase = "idle" /\ calls < MaxCalls
  /\ calls' = calls + 1
  /\ LET found == Found(name, version)
     IN  \/ /\ found = {}
            /\ result' = [NoResult EXCEPT !.valid = FALSE,
                            !.errors = Reported(<<>>, <<[names |-> {""}, severity |-> "FATAL"]>>)]
            /\ schema' = <<>> /\ file' = <<>> /\ next' = 0 /\ header' = FALSE
            /\ UNCHANGED phase
         \/ \E v \in found :
              /\ phase' = "reading" /\ schema' = schemas[name][v]
              /\ file' = lines /\ next' = 1 /\ header' = FALSE
              /\ result' = NoResult
  /\ UNCHANGED <<schemas, stop_on_first_error>>

Line == file[next]
Reads == phase = "reading" /\ next <= Len(file)
Turns(more) ==
  /\ next' = IF more THEN next + 1 ELSE Len(file) + 1
  /\ UNCHANGED <<schemas, phase, schema, file, stop_on_first_error, calls>>

SkipsEmpty == Reads /\ Line = <<>> /\ Turns(TRUE) /\ UNCHANGED <<header, result>>

AsHeader == ~header /\ schema.header

TakesHeader ==
  /\ Reads /\ Line # <<>> /\ AsHeader /\ HeaderFits(Line, schema)
  /\ header' = TRUE
  /\ result' = [result EXCEPT !.errors = Reported(@, HeaderReports(Line, schema))]
  /\ Turns(TRUE)

\* A line that should have been the header and is not is a row as well, unless
\* validation stops, and the next line should be the header again.
TakesRow ==
  /\ Reads /\ Line # <<>> /\ ~(AsHeader /\ HeaderFits(Line, schema))
  /\ LET asked == IF AsHeader THEN Reported(result.errors, HeaderReports(Line, schema)) ELSE result.errors
         reports == RowReports(Line, schema)
         fits == reports = <<>>
     IN  IF AsHeader /\ stop_on_first_error
         THEN /\ result' = [result EXCEPT !.valid = FALSE, !.errors = asked]
              /\ Turns(FALSE)
         ELSE /\ result' = [result EXCEPT !.valid = @ /\ ~AsHeader /\ fits, !.total = @ + 1,
                              !.good = @ + One(fits), !.bad = @ + One(~fits),
                              !.errors = Reported(asked, reports)]
              /\ Turns(fits \/ ~stop_on_first_error)
  /\ UNCHANGED header

\* Every warning counts for a row, notices and those of the header too.
Ends ==
  /\ phase = "reading" /\ next > Len(file)
  /\ phase' = "idle"
  /\ result' = [result EXCEPT !.valid = @ \/ result.errors = <<>>,
                  !.warned = Cardinality({i \in DOMAIN result.errors :
                                            result.errors[i].severity \in {"WARNING", "NOTICE"}})]
  /\ UNCHANGED <<schemas, schema, file, next, header, stop_on_first_error, calls>>

Next ==
  \/ \E n \in Names, s \in Schemas : RegisterSchema(n, s)
  \/ \E n \in Names, v \in Versions, f \in Files : Validate(f, n, v)
  \/ SkipsEmpty \/ TakesHeader \/ TakesRow \/ Ends

Spec == Init /\ [][Next]_vars

-----------------------------------------------------------------------------
(* Properties.                                                             *)

Filled ==
  LET places == Places({i \in DOMAIN file : file[i] # <<>>}, Len(file))
  IN  [k \in DOMAIN places |-> file[places[k]]]
Conforms(line) ==
  \A i \in DOMAIN schema.fields :
    LET f == schema.fields[i]
        v == IF i <= Len(line) THEN Trim[line[i]] ELSE ""
    IN  IF v \in Empty THEN ~f.required ELSE Faults(v, f) = 0

\* When a file has been read whose first line is a header that fits, or that needs none:
\* it is called valid if and only if every other line conforms, however many errors and
\* notices there are and wherever validation stopped, and each line that was read is
\* counted once, as what it is.  Without the header it is not valid.
VerdictExact ==
  (phase = "idle" /\ next = Len(file) + 1 /\ Filled # <<>>) =>
    LET titled == schema.header
        data == IF titled THEN Tail(Filled) ELSE Filled
        breaches == {i \in DOMAIN data : ~Conforms(data[i])}
        read == IF stop_on_first_error /\ breaches # {} THEN Min(breaches) ELSE Len(data)
        Names1(f) == \E k \in DOMAIN Filled[1] : Filled[1][k] \in f.names
        named == \A f \in Range(schema.fields) : f.required => Names1(f)
        known == \A k \in DOMAIN Filled[1] : \E f \in Range(schema.fields) : Filled[1][k] \in f.names
    IN  IF titled /\ ~named THEN ~result.valid
        ELSE (titled => schema.extra \/ ~schema.strict \/ known) =>
               /\ result.valid <=> breaches = {}
               /\ result.total = read
               /\ result.bad = Cardinality({i \in breaches : i <= read})
               /\ result.good = read - result.bad

-----------------------------------------------------------------------------
(* What the code says of itself and does not do.                           *)

\* schema_validator.cpp:879, "further errors will be suppressed".
ErrorsSuppressed ==
  \A i \in DOMAIN result.errors :
    Cardinality({j \in DOMAIN result.errors :
      result.errors[j].names = result.errors[i].names /\ result.errors[j].severity # "NOTICE"}) <= MaxErrors

\* schema_validator.hpp:121, warning_rows, "number of rows with warnings".
WarnedAreRows == result.warned <= result.total

\* A file without any line has no header.
EmptyHasNoHeader ==
  (phase = "idle" /\ next = 1 /\ file = <<>> /\ schema # <<>>) => (schema.header => ~result.valid)

\* A cell is compared with the field its column is named after.
ColumnsByName ==
  (phase = "reading" /\ next > 1 /\ header) =>
    \A i \in DOMAIN schema.fields :
      i <= Len(Filled[1]) => Filled[1][i] \in schema.fields[i].names
=============================================================================

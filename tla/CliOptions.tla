------------------------------ MODULE CliOptions ------------------------------
(***************************************************************************)
(* BBP::CLI::ConfigOverrideParser as an object: the application defines    *)
(* and removes options, and parses command lines against those there are.  *)
(* Every operation locks options_mutex_, so each is one step.              *)
(***************************************************************************)
EXTENDS CliArguments, SequencesExt

CONSTANTS
  Offered,       \* options the application may define
  Sets,          \* sequences of options that are defined together
  CommandLines,  \* command lines
  MaxChanges     \* bound: operations that change the tables

\* What is assumed of the constants.  An option is one, and has a path.
ASSUME CliOptionsAssumption ==
  /\ MaxChanges \in Nat
  /\ Sets \subseteq Seq(Offered) /\ CommandLines \subseteq Seq(DOMAIN Shape)
  /\ \A option \in Offered : option # None /\ option.path # None

VARIABLES
  definitions,  \* option_definitions_
  by_long,      \* options_by_long_name_
  by_short,     \* options_by_short_name_
  parsed,       \* observer: the line that was parsed and its result
  changes,      \* observer: operations that changed the tables
  removed       \* observer: an option with a short name has been removed

optionVars == <<definitions, by_long, by_short, parsed, changes, removed>>

OwnTables == [by_long |-> by_long, by_short |-> by_short]
Unparsed == [args |-> <<>>, result |-> Nothing]

OptionsInit ==
  /\ definitions = <<>> /\ by_long = <<>> /\ by_short = <<>>
  /\ parsed = Unparsed /\ changes = 0 /\ removed = FALSE

-----------------------------------------------------------------------------

\* Fault: only the long name is looked for.
LongOnly(d, o) == o.long \in DOMAIN d.by_long

\* Whether addOption throws.
Refused(d, o) == o.long \in DOMAIN d.by_long \/ (o.short # None /\ o.short \in DOMAIN d.by_short)

Added(d, o) ==
  [definitions |-> Append(d.definitions, o),
   by_long |-> With(d.by_long, o.long, o),
   by_short |-> IF o.short = None THEN d.by_short ELSE With(d.by_short, o.short, o)]

\* addOptions: the first that is refused ends it, and those before it stay.
AddedAll(d, options) ==
  LET after[i \in 0 .. Len(options)] ==
        IF i = 0 THEN [d |-> d, thrown |-> FALSE]
        ELSE IF after[i - 1].thrown \/ Refused(after[i - 1].d, options[i])
        THEN [after[i - 1] EXCEPT !.thrown = TRUE]
        ELSE [d |-> Added(after[i - 1].d, options[i]), thrown |-> FALSE]
  IN  after[Len(options)].d

Becomes(d) ==
  /\ definitions' = d.definitions /\ by_long' = d.by_long /\ by_short' = d.by_short
  /\ parsed' = Unparsed
  /\ changes < MaxChanges /\ changes' = changes + 1

Present == [definitions |-> definitions, by_long |-> by_long, by_short |-> by_short]

AddOptions ==
  /\ \E options \in Sets \cup {<<o>> : o \in Offered} : Becomes(AddedAll(Present, options))
  /\ UNCHANGED removed

\* What std::remove_if leaves of the list.
Without(options, name) ==
  LET kept[i \in 0 .. Len(options)] ==
        IF i = 0 THEN <<>>
        ELSE IF options[i].long = name THEN kept[i - 1]
        ELSE Append(kept[i - 1], options[i])
  IN  kept[Len(options)]

\* removeOption reads the short name of the definition it has just erased: what it finds in
\* memory that was given back is its own, none, or another one.
RemoveOption ==
  \E name \in DOMAIN by_long :
    LET own == by_long[name].short
        kept == [n \in DOMAIN by_long \ {name} |-> by_long[n]]
    IN  /\ \E short \in (IF own = None THEN {None} ELSE {own, None}) \cup DOMAIN by_short :
             Becomes([definitions |-> Without(definitions, name),
                      by_long |-> kept,
                      by_short |-> [s \in DOMAIN by_short \ {short} |-> by_short[s]]])
        /\ removed' = TRUE

ClearOptions ==
  /\ Becomes([definitions |-> <<>>, by_long |-> <<>>, by_short |-> <<>>])
  /\ removed' = FALSE

\* The parser keeps nothing of a line; one is read between two changes.
ParseLine ==
  /\ parsed = Unparsed
  /\ \E args \in CommandLines : parsed' = [args |-> args, result |-> Parse(OwnTables, args)]
  /\ UNCHANGED <<definitions, by_long, by_short, changes, removed>>

OptionsNext == AddOptions \/ RemoveOption \/ ClearOptions \/ ParseLine

OptionsSpec == OptionsInit /\ [][OptionsNext]_optionVars

-----------------------------------------------------------------------------
(* Properties.                                                             *)

\* Each name answers to one option, the one that is listed in the help: until an option is
\* removed, for the short names cannot be relied on after that, and the long ones always.
NamesAreUnique ==
  /\ \A i, j \in DOMAIN definitions : definitions[i].long = definitions[j].long => i = j
  /\ ToSet(definitions) = {by_long[n] : n \in DOMAIN by_long}
  /\ \A n \in DOMAIN by_long : by_long[n].long = n
  /\ \A s \in DOMAIN by_short : by_short[s].short = s
  /\ ~removed => {by_short[s] : s \in DOMAIN by_short} = {o \in ToSet(definitions) : o.short # None}

\* A command line is read as a whole: what it comes to is what its options say, whatever
\* stands between them and in whichever order.
LinesAreRead == Answers(OwnTables, parsed.args, parsed.result)

NamesAndLines == NamesAreUnique /\ LinesAreRead

-----------------------------------------------------------------------------
(* What one might expect and the code does not do.                         *)

\* test_config_override.cpp:196: a command line that ends with an option whose value is
\* missing is not accepted.
MissingValueFails ==
  LET args == parsed.args  last == Len(args) IN
  args # <<>> /\ Stop(args) > last /\ last \in Known(OwnTables, args)
    /\ Found(OwnTables, args[last]).type # "BOOLEAN"
  => parsed.result.status # "SUCCESS"

\* An option that has been removed is not found.
RemovedAreGone == \A s \in DOMAIN by_short : by_short[s].long \in DOMAIN by_long

\* The bounds of an option hold for its values.
BoundsHold ==
  LET at == Known(OwnTables, parsed.args) IN
  \A i \in at :
    LET option == Found(OwnTables, parsed.args[i])
        value == ParsedOption(OwnTables, parsed.args, i).value
    IN  value.type \in {"INTEGER", "DOUBLE"} =>
          /\ option.min # None => value.number >= option.min
          /\ option.max # None => value.number <= option.max
=============================================================================

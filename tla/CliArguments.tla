----------------------------- MODULE CliArguments -----------------------------
(***************************************************************************)
(* How BBP::CLI::ConfigOverrideParser reads a command line against the     *)
(* tables of options it has.                                               *)
(*                                                                         *)
(* An argument is a text; functions say what the code makes of it.  An     *)
(* option is [long, short, type, path, constraint, min, max, allowed], a   *)
(* table a function from names to options.                                 *)
(***************************************************************************)
EXTENDS Integers, Sequences, FiniteSets

CONSTANTS
  Shape,   \* argument -> [kind, name]: "empty", "help", "version", "long", "short", "other"
  Number,  \* argument -> the number std::stoi and std::stod begin with, or NaN
  NaN,
  Items,   \* argument -> what is between its commas, trimmed and not empty
  None     \* no short name, no option, no bound

\* What is assumed of the constants.
ASSUME CliArgumentsAssumption ==
  \A arg \in DOMAIN Shape :
    Shape[arg].kind \in {"empty", "help", "version", "long", "short", "other"}

\* ConfigValue: what is in it, or nothing.
Empty == [type |-> "none", number |-> 0, items |-> <<>>]

\* parseCliValue
Converted(arg, type) ==
  [type |-> type,
   number |-> IF type \in {"INTEGER", "DOUBLE"} THEN Number[arg] ELSE 0,
   items |-> CASE type = "STRING" -> <<arg>> [] type = "STRING_LIST" -> Items[arg] [] OTHER -> <<>>]

\* validateCliValue: the bounds are looked at by one of the constraints only.
ValidValue(arg, option) ==
  LET c == option.constraint  n == Number[arg] IN
  CASE option.type \in {"INTEGER", "DOUBLE"} ->
         /\ n # NaN
         /\ c = "POSITIVE" => n > 0
         /\ c = "NON_NEGATIVE" => n >= 0
         /\ c = "RANGE" => /\ option.min # None => n >= option.min
                           /\ option.max # None => n <= option.max
    [] option.type = "STRING" -> c \in {"ENUM_VALUES", "REGEX_MATCH"} => arg \in option.allowed
    [] OTHER -> Items[arg] # <<>>

\* The definition an argument names.  What follows the letter of a short option, and what
\* follows a = in a long one, is not taken apart.
Found(tables, arg) ==
  LET shape == Shape[arg]
      table == IF shape.kind = "long" THEN tables.by_long ELSE tables.by_short
  IN  IF shape.name \in DOMAIN table THEN table[shape.name] ELSE None

\* parseOption.  It names the option before it looks for a value: one that is missing or
\* not valid leaves an empty value behind, and the error is not asked for.
ParsedOption(tables, args, i) ==
  LET option == Found(tables, args[i]) IN
  IF option = None THEN [path |-> None, value |-> Empty]
  ELSE [path |-> option.path,
        value |-> IF option.type = "BOOLEAN" THEN [Empty EXCEPT !.type = "BOOLEAN"]
                  ELSE IF i < Len(args) /\ ValidValue(args[i + 1], option)
                  THEN Converted(args[i + 1], option.type)
                  ELSE Empty]

Nothing == [status |-> "SUCCESS", ends |-> FALSE, overrides |-> <<>>, errors |-> 0,
            warnings |-> 0, applied |-> 0]

With(overrides, path, value) ==
  [p \in DOMAIN overrides \cup {path} |-> IF p = path THEN value ELSE overrides[p]]

\* Fault: an option that is not known ends the parsing.
GivesUp(tables, args, i, result) ==
  LET kind == Shape[args[i]].kind IN
  CASE kind = "empty" -> result
    [] kind = "help" -> [result EXCEPT !.status = "HELP_REQUESTED", !.ends = TRUE]
    [] kind = "version" -> [result EXCEPT !.status = "VERSION_REQUESTED", !.ends = TRUE]
    [] kind = "other" -> [result EXCEPT !.warnings = @ + 1]
    [] OTHER ->
         LET parsed == ParsedOption(tables, args, i) IN
         IF parsed.path = None
         THEN [result EXCEPT !.errors = @ + 1, !.status = "INVALID_OPTION", !.ends = TRUE]
         ELSE [result EXCEPT !.overrides = With(@, parsed.path, parsed.value), !.applied = @ + 1]

\* One turn of the loop of parse.  The value of an option is an argument of its own.
Turn(tables, args, i, result) ==
  LET kind == Shape[args[i]].kind IN
  CASE kind = "empty" -> result
    [] kind = "help" -> [result EXCEPT !.status = "HELP_REQUESTED", !.ends = TRUE]
    [] kind = "version" -> [result EXCEPT !.status = "VERSION_REQUESTED", !.ends = TRUE]
    [] kind = "other" -> [result EXCEPT !.warnings = @ + 1]
    [] OTHER ->
         LET parsed == ParsedOption(tables, args, i) IN
         IF parsed.path = None
         THEN [result EXCEPT !.errors = @ + 1, !.status = "INVALID_OPTION"]
         ELSE [result EXCEPT !.overrides = With(@, parsed.path, parsed.value), !.applied = @ + 1]

Parse(tables, args) ==
  LET after[i \in 0 .. Len(args)] ==
        IF i = 0 THEN Nothing
        ELSE IF after[i - 1].ends THEN after[i - 1]
        ELSE Turn(tables, args, i, after[i - 1])
  IN  after[Len(args)]

-----------------------------------------------------------------------------
(* What parse is for, read off the whole line at once.                     *)

\* Where the line ends: before the first request for help or the version.
Stop(args) ==
  CHOOSE n \in 1 .. Len(args) + 1 :
    /\ n <= Len(args) => Shape[args[n]].kind \in {"help", "version"}
    /\ \A i \in 1 .. n - 1 : Shape[args[i]].kind \notin {"help", "version"}

\* The options of the line that are known, with the places they stand at.
Known(tables, args) ==
  {i \in 1 .. Stop(args) - 1 :
     Shape[args[i]].kind \in {"long", "short"} /\ Found(tables, args[i]) # None}

Places(args, kinds) == {i \in 1 .. Stop(args) - 1 : Shape[args[i]].kind \in kinds}

\* The last option for a path decides; a request for help is answered whatever came before;
\* otherwise one option nobody knows refuses the line, wherever it stands.
Answers(tables, args, result) ==
  LET known == Known(tables, args)
      Path(i) == Found(tables, args[i]).path
      unknown == Cardinality(Places(args, {"long", "short"}) \ known)
  IN  /\ DOMAIN result.overrides = {Path(i) : i \in known}
      /\ \A i \in known : (\A j \in known : Path(j) = Path(i) => j <= i) =>
           result.overrides[Path(i)] = ParsedOption(tables, args, i).value
      /\ result.errors = unknown
      /\ result.warnings = Cardinality(Places(args, {"other"}))
      /\ result.applied = Cardinality(known)
      /\ IF Stop(args) <= Len(args)
         THEN result.status = IF Shape[args[Stop(args)]].kind = "help"
                              THEN "HELP_REQUESTED" ELSE "VERSION_REQUESTED"
         ELSE result.status = IF unknown > 0 THEN "INVALID_OPTION" ELSE "SUCCESS"
=============================================================================

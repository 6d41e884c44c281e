---------------------------- MODULE MCConfiguration ----------------------------
(***************************************************************************)
(* Instances for TLC of the parts of the configuration: the manager with   *)
(* the file it watches, the option tables of the command line parser, and  *)
(* the manager of command line overrides.  In this code base they share no *)
(* state, so a behaviour is one of one part, chosen at the beginning; the  *)
(* variables of the others keep an initial value.                          *)
(***************************************************************************)
EXTENDS ConfigManager, CliOptions, ConfigOverride

CONSTANTS t1, t2

VARIABLE part

-----------------------------------------------------------------------------
(* The manager: documents that are loaded, refused half way, kept a thread *)
(* busy for ever, or are no YAML.                                          *)

Node(kind, text) == [kind |-> kind, text |-> text]
SomeNodes == {Node("variable", "V")}
SomeEnvironment == ("V" :> Node("word", "1")) @@ ("W" :> Node("variable", "W"))

Section(name, node) == [name |-> name, map |-> TRUE, items |-> <<<<"k", node>>>>]
SomeDocuments ==
  {Unparsable, <<Section("a", Node("variable", "W"))>>,
   <<Section("a", Node("whole", "1")), Section("b", Node("nested", ""))>>,
   <<Section("a", Node("word", "x")),
     [name |-> "b", map |-> FALSE, items |-> <<<<"value", Node("word", "x")>>>>]>>}

\* A string of digits is read back as a number.
SomeEmitted ==
  [v \in [type : {"string", "int"}, text : {"x", "1"}] |->
     Node(IF v.text = "1" THEN "whole" ELSE "word", v.text)]

-----------------------------------------------------------------------------
(* The command line: arguments of every shape.                             *)

Arguments == {"", "--help", "--threads", "-t", "--name", "-n", "--dry", "--what", "5", "0", "x", "x,5"}
ShapeOf ==
  [a \in Arguments |->
     CASE a = "" -> [kind |-> "empty", name |-> ""]
       [] a = "--help" -> [kind |-> "help", name |-> "help"]
       [] a \in {"--threads", "--name", "--dry", "--what"} -> [kind |-> "long", name |-> a]
       [] a \in {"-t", "-n"} -> [kind |-> "short", name |-> a]
       [] OTHER -> [kind |-> "other", name |-> ""]]
NumberOf == [a \in Arguments |-> CASE a = "5" -> 5 [] a = "0" -> 0 [] OTHER -> NaN]
ItemsOf == [a \in Arguments |-> IF a = "x,5" THEN <<"x", "5">> ELSE <<a>>]

Option(long, short, type, path, constraint, min) ==
  [long |-> long, short |-> short, type |-> type, path |-> path, constraint |-> constraint,
   min |-> min, max |-> None, allowed |-> {"x"}]
ThreadsOption == Option("--threads", "-t", "INTEGER", "threads", "RANGE", 1)
NameOption == Option("--name", "-n", "STRING", "name", "NONE", None)
DryOption == Option("--dry", None, "BOOLEAN", "_dry", "NONE", None)
OtherName == Option("--what", "-t", "STRING_LIST", "name", "NONE", None)

SomeOptions == {ThreadsOption, NameOption, DryOption, OtherName, [ThreadsOption EXCEPT !.min = 9]}
SomeSets == {<<NameOption, ThreadsOption, DryOption>>}
SomeCommandLines ==
  {<<"--threads", "5", "-n", "x">>, <<"-t", "0", "--what", "x,5", "-t">>,
   <<"--name", "--help", "--what">>, <<"--what", "", "x", "--dry", "-n">>}

-----------------------------------------------------------------------------
(* The overrides: lines that are applied, refused, or ask for help; a value *)
(* a rule would refuse, and an internal path, from outside.                 *)

SomeTables ==
  [by_long |-> ("--threads" :> ThreadsOption) @@ ("--name" :> NameOption) @@ ("--dry" :> DryOption),
   by_short |-> ("-t" :> ThreadsOption) @@ ("-n" :> NameOption)]
SomeLines ==
  {<<"--threads", "5", "-n", "x">>, <<"-t">>, <<"--name", "x", "--dry">>, <<"-n">>,
   <<"--threads", "5", "--what">>, <<"--threads", "5", "--help">>}
SomePaths == {"threads", "name", "_dry"}
SomeRule == [p \in SomePaths |-> IF p = "threads" THEN "threads" ELSE None]
FromOutside == {[p \in {"threads", "_dry"} |-> [type |-> "INTEGER", number |-> 0, items |-> <<>>]]}

-----------------------------------------------------------------------------

\* There is no file, or a good one; an edit makes it any other.
Loadable(text) == text # Unparsable /\ Outcome(text) = "loaded"

\* Two callers are busy at once for two of the calls; the last is made by one alone.
LoneCaller == \E t \in Callers : \A s \in Callers \ {t} : pc[s] = "idle"
LastAlone == calls = MaxCalls => LoneCaller

Begin ==
  /\ part \in {"manager", "options", "overrides"}
  /\ Init /\ OptionsInit /\ OverrideInit
  /\ \A file \in Files :
       disk[file].says = Missing \/ (part = "manager" /\ Loadable(disk[file].says))

Step ==
  \/ part = "manager" /\ Next /\ LastAlone' /\ UNCHANGED <<part, optionVars, overrideVars>>
  \/ part = "options" /\ OptionsNext /\ UNCHANGED <<part, vars, overrideVars>>
  \/ part = "overrides" /\ OverrideNext /\ UNCHANGED <<part, vars, optionVars>>

all == <<part, vars, optionVars, overrideVars>>

\* The fairness of ConfigManager, when it is the part that runs.
FairBegin ==
  /\ Begin /\ [][Step]_all
  /\ \A t \in Callers : WF_vars(part = "manager" /\ Returns(t))
  /\ \A w \in Watchers : WF_vars(part = "manager" /\ Watches(w))
=============================================================================

----------------------------- MODULE MCCsvTables -----------------------------
(***************************************************************************)
(* Instances for TLC of the four tools that work on tables: the merger,    *)
(* the delta compressor, the query engine and the schema validator.        *)
(*                                                                         *)
(* They share no state, so a behaviour is one of one tool, chosen at the   *)
(* beginning.                                                              *)
(***************************************************************************)
EXTENDS SchemaValidator, DeltaCompression, MergerEngine

CONSTANTS t1, t2

VARIABLES
  tool,
  tables, configs, hash, btree, cache, call, registered, answered

queryVars == <<tables, configs, hash, btree, cache, call, registered, answered>>

-----------------------------------------------------------------------------
(* The merger: two files whose columns stand in another order, with a cell *)
(* that has to be quoted, a short line, an empty file and a missing one.   *)

a == <<"a">>
A == <<"A", "s">>
none == <<>>
iv == <<<<"i">>, <<"v">>>>
SomeContents ==
  {<<>>,
   <<iv, <<a, a>>, <<A, none>>>>,
   <<<<<<"v">>, <<"i">>>>, <<a, <<"b">>>>, <<none, <<"d">>>>>>,
   <<iv, <<<<"q", "x">>, <<"b">>>>, <<none>>>>}
SomeSources ==
  [path : {"f", "g"}, has_header : {TRUE}, priority : {1, 2}]
    \cup [path : {"g"}, has_header : {FALSE}, priority : {0}]

Smart == [keys |-> <<<<"i">>>>, trim |-> TRUE, sensitive |-> FALSE, rule |-> "key",
          keep |-> "newest", threshold |-> 960, valid |-> TRUE, strict |-> FALSE,
          strategy |-> "smart", order |-> iv]
SomeConfigs ==
  {Smart, [Smart EXCEPT !.strategy = "priority"], [Smart EXCEPT !.keep = "first"],
   [Smart EXCEPT !.keep = "merge", !.strict = TRUE], [Smart EXCEPT !.rule = "exact"],
   [Smart EXCEPT !.rule = "hash", !.sensitive = TRUE], [Smart EXCEPT !.rule = "fuzzy"],
   [Smart EXCEPT !.strategy = "append", !.rule = "none"], [Smart EXCEPT !.valid = FALSE]}

-----------------------------------------------------------------------------
(* The delta compressor: tables in which a key comes twice and a line is   *)
(* short, and payloads with runs, repetitions and the bytes of the markers.*)

Lines == {<<"k", "a">>, <<"k", "b">>, <<"l", "a">>, <<"l">>}
DeltaTables ==
  {<<>>, <<<<"id", "v">>, <<"k", "a">>, <<"l", "a">>, <<"k", "a">>>>}
    \cup {<<<<"id", "v">>>> \o lines : lines \in BoundedSeq(Lines, 2)}
DeltaPayloads ==
  {<<1, 1, 1, 1, 1, 1, 1, 1, 1>>, <<1, 2, 1, 2, 1, 2, 1>>, <<7, 1, 1, 1, 2>>, <<1, 2, 3, 1, 2, 3, 3>>}

\* Every difference, in one call; or calls in turn, between which files, the delta
\* and the configuration change, with fewer tables and one payload.
TurnTables ==
  {<<>>, <<<<"id", "v">>, <<"k", "a">>, <<"l", "a">>>>, <<<<"id", "v">>, <<"k", "b">>>>}
TurnPayload == <<1, 1, 1, 1, 2>>
EveryPayload == DeltaPayloads \cup {TurnPayload}
InTurn == Range(files) \subseteq TurnTables \cup {Absent}

-----------------------------------------------------------------------------
(* The query engine: one name, whose table may be replaced by one with     *)
(* other columns, numbers that are shown otherwise than they are written,  *)
(* NULLs and short rows, and a query of each kind of clause.               *)

QueryCells == {"", "01", "1", "10", "2", "NULL", "x"}
ShownCell == [c \in QueryCells |-> IF c = "01" THEN "1" ELSE c]
NumberOfCell ==
  [c \in QueryCells |-> CASE c \in {"01", "1"} -> 1 [] c = "2" -> 2 [] c = "10" -> 10 [] OTHER -> NaN]
RankOfCell ==
  ("" :> 1) @@ ("01" :> 2) @@ ("1" :> 3) @@ ("10" :> 4) @@ ("2" :> 5) @@ ("NULL" :> 6) @@ ("x" :> 7)

Datasets ==
  {[header |-> <<"a", "b">>, rows |-> <<<<"1", "2">>, <<"2", "10">>, <<"1", "10">>, <<"x", "2">>>>],
   [header |-> <<"b", "a">>, rows |-> <<<<"10", "1">>, <<"2", "1">>, <<"10", "2">>>>],
   [header |-> <<"a", "b">>, rows |-> <<<<"01", "x">>, <<"1", "NULL">>, <<"10">>>>]}
Indexes ==
  {[table |-> "t", column |-> "b", type |-> "BTREE"], [table |-> "t", column |-> "a", type |-> "HASH"],
   [table |-> "t", column |-> "a", type |-> "COMPOSITE"]}

Column(c) == [column |-> c, alias |-> "", aggregate |-> "NONE"]
Select(distinct, columns) ==
  [kw |-> "SELECT", ok |-> TRUE, distinct |-> distinct, columns |-> columns]
Everything == Select(FALSE, <<Column("*")>>)
FromT == [kw |-> "FROM", ok |-> TRUE, table |-> "t"]
Where(conditions) == [kw |-> "WHERE", ok |-> TRUE, conditions |-> conditions]
If(c, op, values, link) == [column |-> c, op |-> op, values |-> values, link |-> link]
Order(c, desc) == [kw |-> "ORDER", ok |-> TRUE, columns |-> <<[column |-> c, desc |-> desc]>>]
Limit(n, offset) == [kw |-> "LIMIT", ok |-> TRUE, limit |-> n, offset |-> offset]
QueryTexts ==
  {<<Everything, FromT, Where(<<If("b", ">=", <<"2">>, "AND"), If("a", "!=", <<"2">>, "AND")>>),
     Order("b", TRUE), Limit(2, 1)>>,
   <<Select(TRUE, <<Column("b")>>), FromT, Order("b", FALSE), Limit(-1, 0)>>,
   <<Everything, FromT, Where(<<If("a", "=", <<"1">>, "OR"), If("b", "=", <<"10">>, "AND")>>)>>,
   <<Select(FALSE, <<[Column("b") EXCEPT !.aggregate = "COUNT"]>>), FromT,
     Where(<<If("b", "between", <<"1", "2">>, "AND")>>)>>,
   <<Everything, FromT, [kw |-> "HAVING", ok |-> TRUE], Where(<<If("a", "in", <<"1", "x">>, "AND")>>)>>,
   <<Everything, FromT, [kw |-> "JOIN", ok |-> TRUE]>>,
   <<Select(FALSE, <<[Column("b") EXCEPT !.alias = "c"]>>), FromT,
     Where(<<If("a", "=", <<"1">>, "AND")>>), Order("b", FALSE)>>}

Query == INSTANCE QueryEngine WITH
  Threads <- {t1, t2}, Names <- {"t"}, Texts <- QueryTexts, AutoIndex <- TRUE, CacheOn <- TRUE,
  CacheSize <- 1, Shown <- ShownCell, Number <- NumberOfCell, Rank <- RankOfCell, Modulus <- 16,
  MaxChanges <- 2, MaxQueries <- 2, changes <- registered, stats <- answered

-----------------------------------------------------------------------------
(* The schema validator: three schemas, two of which are compatible, and   *)
(* files with an unknown, a missing and a doubled column.                  *)

Texts == {"id", "ID", " id", "url", "note", "1", " 1", "9", "x", "", "NULL"}
TrimmedText == [c \in Texts |-> CASE c = " id" -> "id" [] c = " 1" -> "1" [] OTHER -> c]
Lengths == [c \in Texts |-> CASE c = "" -> 0 [] c \in {"1", "9", "x"} -> 1 [] OTHER -> 3]
NumberOfText == [c \in Texts |-> CASE c = "1" -> 1 [] c = "9" -> 9 [] OTHER -> NaN]

FieldOf(names, required, type, min, max, set) ==
  [names |-> names, required |-> required, type |-> type, min |-> min, max |-> max, set |-> set]
SomeSchemas ==
  {[version |-> <<1, 0, 0>>, strict |-> TRUE, extra |-> FALSE, header |-> TRUE,
    fields |-> <<FieldOf({"id", "ID"}, TRUE, "INTEGER", 0, 5, {}), FieldOf({"url"}, FALSE, "STRING", 2, 2, {"x"})>>],
   [version |-> <<1, 1, 0>>, strict |-> FALSE, extra |-> FALSE, header |-> TRUE,
    fields |-> <<FieldOf({"id"}, TRUE, "ENUM", 0, 0, {"1", "x"}), FieldOf({"note"}, FALSE, "DATE", 0, 0, {})>>],
   [version |-> <<2, 0, 0>>, strict |-> TRUE, extra |-> TRUE, header |-> FALSE,
    fields |-> <<FieldOf({"id"}, TRUE, "INTEGER", 0, 5, {})>>]}
SomeVersions == {<<1, 0, 0>>, <<1, 0, 1>>, <<2, 0, 0>>}
FileLines == {<<>>, <<"id", "url">>, <<" 1", "x">>, <<"9">>, <<"NULL", "1">>}
SchemaFiles ==
  {<<<<"ID", "note">>, <<"1">>>>, <<<<"note", "id">>, <<"1">>, <<"1", "9">>>>}
    \cup UNION {[1 .. n -> FileLines] : n \in {0, 1, 3}}

SomeFormats == [DATE |-> {"1"}]

ASSUME TablesAssumption == Query!QueryAssumption

-----------------------------------------------------------------------------

NoMerger ==
  /\ disk = 0 /\ merge_config = 0 /\ sources = 0 /\ doing = "none" /\ queue = 0 /\ pending = 0
  /\ merged_headers = 0 /\ all_rows = 0 /\ key_to_rows = 0 /\ merge_stats = 0 /\ outcome = 0
  /\ seen = 0 /\ merges = 0
NoDelta ==
  /\ files = 0 /\ delta = Absent /\ config = 0 /\ detector = "hash" /\ stats = 0 /\ changes = <<>>
  /\ payload = <<>> /\ made = <<<<>>, <<>>>> /\ answer = "none" /\ uses = 0
NoQuery ==
  /\ tables = 0 /\ configs = 0 /\ hash = 0 /\ btree = 0 /\ cache = 0 /\ call = 0 /\ registered = 0
  /\ answered = 0
NoValidator ==
  /\ schemas = <<>> /\ phase = "none" /\ schema = <<>> /\ file = <<>> /\ next = 0 /\ header = 0
  /\ result = 0 /\ stop_on_first_error = FALSE /\ calls = 0

Begin ==
  \/ tool = "merger" /\ MergerInit /\ NoDelta /\ NoQuery /\ NoValidator
  \/ /\ tool \in {"delta", "delta in turn"} /\ DeltaInit
     /\ tool = "delta in turn" => InTurn
     /\ NoMerger /\ NoQuery /\ NoValidator
  \/ tool = "query" /\ Query!Init /\ NoMerger /\ NoDelta /\ NoValidator
  \/ tool = "schema" /\ Init /\ NoMerger /\ NoDelta /\ NoQuery

Step ==
  \/ /\ tool = "merger" /\ MergerNext
     /\ UNCHANGED <<tool, deltaVars, queryVars, vars>>
  \/ /\ \/ tool = "delta" /\ uses = 0 /\ DeltaNext /\ payload' # TurnPayload
        \/ tool = "delta in turn" /\ DeltaNext /\ InTurn' /\ payload' \in {<<>>, TurnPayload}
     /\ UNCHANGED <<tool, mergerVars, queryVars, vars>>
  \/ /\ tool = "query" /\ Query!Next
     /\ UNCHANGED <<tool, mergerVars, deltaVars, vars>>
  \/ /\ tool = "schema" /\ Next
     /\ UNCHANGED <<tool, mergerVars, deltaVars, queryVars>>

Tools == Begin /\ [][Step]_<<tool, vars, deltaVars, mergerVars, queryVars>>

-----------------------------------------------------------------------------

\* The two threads of the query engine are alike.
Alike == Permutations({t1, t2})

\* See QueryEngine: the index that is kept by itself, and the answers.
QueryExact == tool = "query" => Query!AutoIndexExact /\ Query!SelectsTrue
=============================================================================

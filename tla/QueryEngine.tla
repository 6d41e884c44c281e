------------------------------ MODULE QueryEngine ------------------------------
(***************************************************************************)
(* BBP::CSV::QueryEngine: tables are registered by name, their columns     *)
(* indexed, and texts of queries executed by any number of threads, whose  *)
(* answers are kept in a cache by the text.  Tables, indexes and cache     *)
(* have a lock each, and a query takes one after the other.                *)
(*                                                                         *)
(* A text is a sequence of clauses, each with kw, the keyword it begins    *)
(* with, and ok, whether what follows it is well formed.  A table is       *)
(* [header, rows]; a cell is a text, and three functions say what the code *)
(* makes of it.                                                            *)
(***************************************************************************)
EXTENDS Integers, Sequences, FiniteSets, SequencesExt, TLC

CONSTANTS
  Threads,     \* threads that execute queries
  Names,       \* names of tables
  Absent,      \* no table
  Datasets,    \* what may be registered
  Indexes,     \* what createIndex may be called with: [table, column, type]
  Texts,       \* texts of queries
  AutoIndex,   \* config_.auto_index
  CacheOn,     \* config_.enable_query_cache
  CacheSize,   \* config_.query_cache_size
  Shown,       \* queryValueToString of stringToQueryValue of a cell: 01 is shown as 1
  Number,      \* the number a text is, or NaN: isNumeric and stod
  NaN,
  Rank,        \* texts in the order std::string compares them
  Modulus,     \* bound: a size_t is a natural below it
  MaxChanges,  \* bound: tables registered and indexes created
  MaxQueries   \* bound: queries executed

\* What is assumed of the constants, by the modules that instantiate this one.
QueryAssumption ==
  /\ AutoIndex \in BOOLEAN /\ CacheOn \in BOOLEAN
  /\ CacheSize \in Nat \ {0} /\ Modulus \in Nat \ {0}
  /\ MaxChanges \in Nat /\ MaxQueries \in Nat

VARIABLES
  tables,      \* table_headers_ and table_data_: name -> table, or Absent
  configs,     \* index_configs_: the <<table, column>> an index is configured for
  hash,        \* hash_indexes_: <<table, column>> -> text -> places of rows
  btree,       \* btree_indexes_
  cache,       \* query_cache_, oldest first: sequence of [text, answer]
  stats,       \* total_queries_executed, cache_hits, cache_misses
  call,        \* thread -> [at, text, query, answer]
  changes      \* observer: changes of tables and indexes

vars == <<tables, configs, hash, btree, cache, stats, call, changes>>

NoAnswer == [header |-> <<>>, rows |-> <<>>]
Thrown == [header |-> <<"invalid_argument">>, rows |-> <<>>]
Unread == [table |-> Absent]
Idle == [at |-> "idle", text |-> <<>>, query |-> Unread, answer |-> NoAnswer]

Init ==
  /\ tables = [n \in Names |-> Absent]
  /\ configs = {} /\ hash = <<>> /\ btree = <<>>
  /\ cache = <<>> /\ stats = [total |-> 0, hits |-> 0, misses |-> 0]
  /\ call = [t \in Threads |-> Idle]
  /\ changes = 0

-----------------------------------------------------------------------------
(* QueryParser::parse: each kind of clause is looked for once, in a fixed  *)
(* order, and what is left is not looked at.  HAVING is read as if WHERE   *)
(* followed it, so that its conditions, and all after them, are left.      *)

Has(text, i, kw) == i <= Len(text) /\ text[i].kw = kw
Behind(text, i, kw) == IF Has(text, i, kw) THEN i + 1 ELSE i

\* The clauses that may be left out, and where the reader is behind each of them.
Optional == <<"WHERE", "GROUP", "HAVING", "WHERE", "ORDER", "LIMIT">>
Clauses(text) ==
  LET at[k \in 0 .. Len(Optional)] ==
        CASE k = 0 -> 3
          [] k = 4 /\ at[3] = at[2] -> at[3]
          [] OTHER -> Behind(text, at[k - 1], Optional[k])
  IN  at

Valid(text) ==
  /\ Has(text, 1, "SELECT") /\ Has(text, 2, "FROM")
  /\ \A i \in 1 .. Clauses(text)[Len(Optional)] - 1 : text[i].ok

Parsed(text) ==
  LET at == Clauses(text)
      Is(k) == at[k] > at[k - 1]
      Conditions(k) == IF Is(k) THEN text[at[k - 1]].conditions ELSE <<>>
  IN  [distinct |-> text[1].distinct, columns |-> text[1].columns,
       table |-> text[2].table,
       where |-> Conditions(1) \o Conditions(4),
       grouped |-> Is(2),
       order |-> IF Is(5) THEN text[at[4]].columns ELSE <<>>,
       limit |-> IF Is(6) THEN text[at[5]].limit % Modulus ELSE 0,
       offset |-> IF Is(6) THEN text[at[5]].offset % Modulus ELSE 0,
       complete |-> at[6] > Len(text)]

-----------------------------------------------------------------------------
(* Values.  A literal is a text, and NULL is null.                         *)

Less(a, b) ==
  IF Number[a] # NaN /\ Number[b] # NaN THEN Number[a] < Number[b] ELSE Rank[a] < Rank[b]
NotLess(a, b) ==
  IF Number[a] # NaN /\ Number[b] # NaN THEN Number[a] >= Number[b] ELSE Rank[a] >= Rank[b]

\* compareValues of stringToQueryValue of a cell.
Compares(cell, op, literal) ==
  LET shown == Shown[cell]
  IN  CASE op = "is null" -> cell = "NULL"
        [] op = "is not null" -> cell # "NULL"
        [] OTHER ->
             /\ cell # "NULL" /\ literal # "NULL"
             /\ CASE op = "=" -> shown = literal
                  [] op = "!=" -> shown # literal
                  [] op = "<" -> Less(shown, literal)
                  [] op = ">=" -> NotLess(shown, literal)
                  [] op = ">" -> Less(literal, shown)
                  [] op = "<=" -> NotLess(literal, shown)

\* evaluateCondition.  The parser puts the pattern of LIKE where it is not looked for:
\* an empty one is compared.
Holds(cell, condition) ==
  LET op == condition.op  values == condition.values
      IsOne == \E i \in DOMAIN values : Compares(cell, "=", values[i])
  IN  CASE op = "in" -> IsOne
        [] op = "not in" -> ~IsOne
        [] op = "between" -> Compares(cell, ">=", values[1]) /\ Compares(cell, "<=", values[2])
        [] op = "like" -> Compares(cell, "=", "")
        [] op = "not like" -> cell # "NULL" /\ ~Compares(cell, "=", "")
        [] OTHER -> Compares(cell, op, IF values = <<>> THEN "" ELSE values[1])

Places(header, column) == {i \in DOMAIN header : header[i] = column}

\* The cell of a row in the first column of a name, if there is one.
HasCell(row, header, column) ==
  Places(header, column) # {} /\ Min(Places(header, column)) <= Len(row)
Cell(row, header, column) ==
  IF HasCell(row, header, column) THEN row[Min(Places(header, column))] ELSE ""

\* Fault: one condition that holds is enough.
SomeHolds(row, header, conditions) ==
  \E i \in DOMAIN conditions : Holds(Cell(row, header, conditions[i].column), conditions[i])

\* evaluateWhere: conditions on columns the row does not have are passed over; each is
\* connected to those before it by the word that is written after it.
EvaluateWhere(row, header, conditions) ==
  LET there == SelectSeq(conditions, LAMBDA c : HasCell(row, header, c.column))
      Is(i) == Holds(Cell(row, header, there[i].column), there[i])
      upTo[i \in 1 .. Len(there)] ==
        IF i = 1 THEN Is(1)
        ELSE IF there[i].link = "OR" THEN upTo[i - 1] \/ Is(i) ELSE upTo[i - 1] /\ Is(i)
  IN  there = <<>> \/ upTo[Len(there)]

-----------------------------------------------------------------------------
(* IndexManager.                                                           *)

\* buildHashIndex and buildBTreeIndex: text -> places of the rows that have it.
Built(table, column) ==
  LET Has1(i) == HasCell(table.rows[i], table.header, column)
      At(i) == Cell(table.rows[i], table.header, column)
      places == {i \in DOMAIN table.rows : Has1(i)}
  IN  [v \in {At(i) : i \in places} |->
         SelectSeq([i \in DOMAIN table.rows |-> i], LAMBDA i : Has1(i) /\ At(i) = v)]

With(index, at, built) == (at :> built) @@ index

\* findRowsByIndex: the hash index first, and the B-tree when it has nothing.
FindRows(at, v) ==
  CASE at \in DOMAIN hash /\ v \in DOMAIN hash[at] -> hash[at][v]
    [] at \in DOMAIN btree /\ ~(at \in DOMAIN hash /\ v \in DOMAIN hash[at])
         /\ v \in DOMAIN btree[at] -> btree[at][v]
    [] OTHER -> <<>>

\* optimizedRowSelection: of the first comparison with = of a column that has an index.
OptimizedRows(name, conditions) ==
  LET usable == {i \in DOMAIN conditions :
                   conditions[i].op = "=" /\ <<name, conditions[i].column>> \in configs}
  IN  IF usable = {} THEN <<>>
      ELSE FindRows(<<name, conditions[Min(usable)].column>>, conditions[Min(usable)].values[1])

-----------------------------------------------------------------------------
(* QueryEngine::executeInternal.                                           *)

AllColumns(q) == Len(q.columns) = 1 /\ q.columns[1].column = "*"
Titles(q) == [k \in DOMAIN q.columns |->
                IF q.columns[k].alias = "" THEN q.columns[k].column ELSE q.columns[k].alias]

\* What it finds with an index it takes; only when that is nothing it looks itself.
MatchingRows(table, q) ==
  LET found == OptimizedRows(q.table, q.where)
      all == [i \in DOMAIN table.rows |-> i]
      Matches(i) == EvaluateWhere(table.rows[i], table.header, q.where)
  IN  CASE q.where = <<>> -> all
        [] q.where # <<>> /\ found = <<>> -> SelectSeq(all, Matches)
        [] OTHER -> SelectSeq(found, LAMBDA i : i \in DOMAIN table.rows)

Projected(table, q) ==
  LET places == MatchingRows(table, q)
      Project(row) == [k \in DOMAIN q.columns |-> Cell(row, table.header, q.columns[k].column)]
  IN  [header |-> IF AllColumns(q) THEN table.header ELSE Titles(q),
       rows |-> [i \in DOMAIN places |->
                   IF AllColumns(q) THEN table.rows[places[i]] ELSE Project(table.rows[places[i]])]]

\* column_index_map_ of a result: of columns with one name it knows the last.
ResultColumn(answer, title) ==
  LET k == Max(Places(answer.header, title))
  IN  [i \in DOMAIN answer.rows |-> IF k <= Len(answer.rows[i]) THEN answer.rows[i][k] ELSE ""]

\* calculateAggregate.  The digits of a sum or a mean are left out.
Aggregate(values, function) ==
  LET numbers == SelectSeq(values, LAMBDA v : Number[v] # NaN)
      Sum1 == FoldLeft(LAMBDA a, v : a + Number[v], 0, numbers)
      Better(a, v) == IF function = "MIN" THEN Less(v, a) ELSE Less(a, v)
  IN  CASE values = <<>> -> ""
        [] values # <<>> /\ function = "COUNT" -> ToString(Len(values))
        [] values # <<>> /\ function = "SUM" -> ToString(Sum1)
        [] values # <<>> /\ function = "AVG" ->
             IF numbers = <<>> THEN "0" ELSE ToString(Sum1) \o "/" \o ToString(Len(numbers))
        [] values # <<>> /\ function = "DISTINCT" ->
             ToString(Cardinality({values[i] : i \in DOMAIN values}))
        [] values # <<>> /\ function = "GROUP_CONCAT" ->
             FoldLeft(LAMBDA a, v : a \o "," \o v, values[1], Tail(values))
        [] OTHER -> FoldLeft(LAMBDA a, v : IF Better(a, v) THEN v ELSE a, values[1], values)

\* applyAggregation: one row, whatever the groups; it asks the projection for columns by
\* the names they have in the table.
Aggregated(answer, q) ==
  IF \E k \in DOMAIN q.columns : Places(answer.header, q.columns[k].column) = {}
  THEN Thrown
  ELSE [header |-> Titles(q),
        rows |-> <<[k \in DOMAIN q.columns |->
                     LET values == ResultColumn(answer, q.columns[k].column)
                     IN  IF q.columns[k].aggregate # "NONE"
                         THEN Aggregate(values, q.columns[k].aggregate)
                         ELSE IF values = <<>> THEN "" ELSE values[1]]>>]

Distinct(rows) ==
  LET first == SelectSeq([i \in DOMAIN rows |-> i],
                         LAMBDA i : \A j \in 1 .. i - 1 : rows[j] # rows[i])
  IN  [i \in DOMAIN first |-> rows[first[i]]]

\* sortBy: the orders std::sort may give.  Numbers and other texts in one column are
\* compared by two rules that need not agree, and then any order may come out.
Sorted(answer, order) ==
  LET n == Len(answer.rows)
      At(k, i) == ResultColumn(answer, order[k].column)[i]
      Before(i, j) ==
        \E k \in DOMAIN order :
          /\ \A m \in 1 .. k - 1 : At(m, i) = At(m, j)
          /\ IF order[k].desc THEN Less(At(k, j), At(k, i)) ELSE Less(At(k, i), At(k, j))
      Tied(i, j) == ~Before(i, j) /\ ~Before(j, i)
      lawful == \A i, j, k \in 1 .. n :
                  /\ Before(i, j) /\ Before(j, k) => Before(i, k)
                  /\ Tied(i, j) /\ Tied(j, k) => Tied(i, k)
      orders == {p \in Permutations(1 .. n) :
                   lawful => \A i, j \in 1 .. n : i < j => ~Before(p[j], p[i])}
  IN  CASE order = <<>> -> {answer}
        [] \E k \in DOMAIN order : Places(answer.header, order[k].column) = {} -> {Thrown}
        [] OTHER -> {[answer EXCEPT !.rows = [i \in 1 .. n |-> answer.rows[p[i]]]] : p \in orders}

\* Fault: the limit is where the slice ends, not how long it is.
EndsAtLimit(rows, offset, limit) == SubSeq(rows, Min({offset, Len(rows)}) + 1, Min({limit, Len(rows)}))

\* slice, in size_t.
Slice(rows, offset, limit) ==
  LET start == Min({offset, Len(rows)})
  IN  SubSeq(rows, start + 1, Min({(start + limit) % Modulus, Len(rows)}))

\* What executing a query may answer now.
Answers(q) ==
  LET table == tables[q.table]
      Folded(a) == IF q.grouped \/ \E k \in DOMAIN q.columns : q.columns[k].aggregate # "NONE"
                   THEN Aggregated(a, q) ELSE a
      Once(a) == IF q.distinct THEN [a EXCEPT !.rows = Distinct(@)] ELSE a
      Limited(a) == IF a = Thrown \/ q.limit = 0 THEN a
                    ELSE [a EXCEPT !.rows = Slice(@, q.offset, q.limit)]
      unsorted == {Once(Folded(a)) : a \in {Projected(table, q)}}
  IN  IF table = Absent THEN {NoAnswer}
      ELSE {Limited(a) : a \in UNION {Sorted(b, q.order) : b \in unsorted}}

-----------------------------------------------------------------------------
(* The application: registering a table, whose first column is indexed,    *)
(* and creating an index.                                                  *)

\* Fault: the index is built from the data that was there before.
IndexedEarly(name, data) ==
  IF AutoIndex /\ tables[name] # Absent
  THEN With(hash, <<name, data.header[1]>>, Built(tables[name], data.header[1])) ELSE hash

Reindexed(name, data) ==
  IF AutoIndex /\ data.header # <<>>
  THEN With(hash, <<name, data.header[1]>>, Built(data, data.header[1])) ELSE hash

RegisterTable(name, data) ==
  /\ changes < MaxChanges
  /\ tables' = [tables EXCEPT ![name] = data]
  /\ configs' = IF AutoIndex /\ data.header # <<>>
                THEN configs \cup {<<name, data.header[1]>>} ELSE configs
  /\ hash' = Reindexed(name, data)
  /\ changes' = changes + 1
  /\ UNCHANGED <<btree, cache, stats, call>>

\* createIndex enters the configuration before it looks for the column; the index for
\* whole texts is built and never asked.
CreateIndex(i) ==
  /\ changes < MaxChanges
  /\ tables[i.table] # Absent
  /\ LET at == <<i.table, i.column>>
         found == Places(tables[i.table].header, i.column) # {}
         built == Built(tables[i.table], i.column)
     IN  /\ configs' = configs \cup {at}
         /\ hash' = IF i.type = "HASH" /\ found THEN With(hash, at, built) ELSE hash
         /\ btree' = IF i.type = "BTREE" /\ found THEN With(btree, at, built) ELSE btree
  /\ changes' = changes + 1
  /\ UNCHANGED <<tables, cache, stats, call>>

-----------------------------------------------------------------------------
(* QueryEngine::execute.                                                   *)

Cached(text) == {i \in DOMAIN cache : cache[i].text = text}
Queries == stats.total + Cardinality({t \in Threads : call[t].at # "idle"})

Moves(t, from, to) == call[t].at = from /\ call' = [call EXCEPT ![t] = to]

\* A text that is in the cache.
Hits(t, text) ==
  /\ Queries < MaxQueries
  /\ CacheOn /\ Cached(text) # {}
  /\ Moves(t, "idle", [Idle EXCEPT !.text = text, !.answer = cache[Min(Cached(text))].answer])
  /\ stats' = [stats EXCEPT !.total = @ + 1, !.hits = @ + 1]
  /\ UNCHANGED <<tables, configs, hash, btree, cache, changes>>

\* One that is not is parsed; nothing is locked any more.
Misses(t, text) ==
  /\ Queries < MaxQueries
  /\ ~(CacheOn /\ Cached(text) # {})
  /\ Moves(t, "idle", [at |-> "missed", text |-> text, answer |-> NoAnswer,
                       query |-> IF Valid(text) THEN Parsed(text) ELSE Unread])
  /\ UNCHANGED <<tables, configs, hash, btree, cache, stats, changes>>

\* A text that does not parse, or an exception: execute ends there.
Breaks(t) ==
  /\ call[t].query # Unread => Thrown \in Answers(call[t].query)
  /\ Moves(t, "missed", Idle)
  /\ UNCHANGED <<tables, configs, hash, btree, cache, stats, changes>>

\* executeInternal, under the lock of the tables.
Executes(t) ==
  /\ call[t].query # Unread
  /\ \E a \in Answers(call[t].query) \ {Thrown} :
       Moves(t, "missed", [call[t] EXCEPT !.at = "executed", !.query = Unread, !.answer = a])
  /\ UNCHANGED <<tables, configs, hash, btree, cache, stats, changes>>

\* updateStatistics.
Counts(t) ==
  /\ Moves(t, "executed", [call[t] EXCEPT !.at = "counted"])
  /\ stats' = [stats EXCEPT !.total = @ + 1, !.misses = @ + 1]
  /\ UNCHANGED <<tables, configs, hash, btree, cache, changes>>

\* cleanupCache removes the oldest entry.  Times are taken to differ.
Stores(t) ==
  /\ Moves(t, "counted", [call[t] EXCEPT !.at = "idle"])
  /\ cache' = IF ~CacheOn \/ call[t].answer.rows = <<>> THEN cache
              ELSE LET others == SelectSeq(cache, LAMBDA e : e.text # call[t].text)
                       all == Append(others, [text |-> call[t].text, answer |-> call[t].answer])
                   IN  IF Len(all) > CacheSize THEN Tail(all) ELSE all
  /\ UNCHANGED <<tables, configs, hash, btree, stats, changes>>

Next ==
  \/ \E n \in Names, d \in Datasets : RegisterTable(n, d)
  \/ \E i \in Indexes : CreateIndex(i)
  \/ \E t \in Threads :
       \/ \E text \in Texts : Hits(t, text) \/ Misses(t, text)
       \/ Breaks(t) \/ Executes(t) \/ Counts(t) \/ Stores(t)

Spec == Init /\ [][Next]_vars

-----------------------------------------------------------------------------
(* Properties.                                                             *)

\* The index made when a table is registered finds, for every text, exactly the rows of
\* the table that is there now, whatever was registered or indexed before.
AutoIndexExact ==
  AutoIndex => \A n \in Names : tables[n] # Absent =>
    LET table == tables[n]
    IN  \A i \in DOMAIN table.rows :
          HasCell(table.rows[i], table.header, table.header[1]) =>
            LET v == table.rows[i][1]
                found == FindRows(<<n, table.header[1]>>, v)
            IN  {found[k] : k \in DOMAIN found}
                  = {j \in DOMAIN table.rows : table.rows[j] # <<>> /\ table.rows[j][1] = v}

\* The queries the engine answers as SQL does: conditions that all have to hold, and no
\* index used unless it is up to date and decides alone; columns that are compared by one
\* rule; no aggregates.
OneRule(table, column) ==
  LET cells == {Cell(table.rows[i], table.header, column) : i \in DOMAIN table.rows}
  IN  (\A c \in cells : Number[c] # NaN) \/ (\A c \in cells : Number[c] = NaN)
Honoured(q, table) ==
  /\ q.complete /\ ~q.grouped
  /\ \A k \in DOMAIN q.columns : q.columns[k].aggregate = "NONE"
  /\ \A i \in DOMAIN q.where :
       /\ q.where[i].link # "OR" /\ q.where[i].op \notin {"like", "not like"}
       /\ \A r \in DOMAIN table.rows : HasCell(table.rows[r], table.header, q.where[i].column)
       /\ (q.where[i].op = "=" /\ <<q.table, q.where[i].column>> \in configs) =>
            /\ Len(q.where) = 1 /\ q.where[i].column = table.header[1] /\ AutoIndex
            /\ q.where[i].values[1] # "NULL"
            /\ \A r \in DOMAIN table.rows : Shown[table.rows[r][1]] = table.rows[r][1]
  /\ \A k \in DOMAIN q.order : OneRule(table, q.order[k].column)

Statements == {Parsed(text) : text \in {x \in Texts : Valid(x)}}
Times(rows, row) == Cardinality({i \in DOMAIN rows : rows[i] = row})

\* Whatever tables have been registered and columns indexed, such a query answers rows of
\* the table that satisfy its conditions, each as often as it should, all of them unless
\* it is limited, in its order, and the page of that order it asks for.
SelectsTrue ==
  \A q \in Statements :
    LET table == tables[q.table]
    IN  (table # Absent /\ Honoured(q, table)) =>
          LET title == IF AllColumns(q) THEN table.header ELSE Titles(q)
              View(row) == IF AllColumns(q) THEN row
                           ELSE [k \in DOMAIN q.columns |-> Cell(row, table.header, q.columns[k].column)]
              wanted == SelectSeq(table.rows, LAMBDA row :
                          \A i \in DOMAIN q.where : Holds(Cell(row, table.header, q.where[i].column), q.where[i]))
              seen == [i \in DOMAIN wanted |-> View(wanted[i])]
              expected == IF q.distinct THEN SetToSeq({seen[i] : i \in DOMAIN seen}) ELSE seen
              Before(r, s) == \E k \in DOMAIN q.order :
                LET At(row, m) == Cell(row, title, q.order[m].column)
                IN  /\ \A m \in 1 .. k - 1 : At(r, m) = At(s, m)
                    /\ IF q.order[k].desc THEN Less(At(s, k), At(r, k)) ELSE Less(At(r, k), At(s, k))
              rest == Max({0, Len(expected) - q.offset})
          IN  \A a \in Answers(q) :
                a # Thrown =>
                /\ a.header = title
                /\ Len(a.rows) = IF q.limit = 0 THEN Len(expected) ELSE Min({q.limit, rest})
                /\ \A i \in DOMAIN a.rows :
                     /\ Times(a.rows, a.rows[i]) \in 1 .. Times(expected, a.rows[i])
                     /\ \A j \in i + 1 .. Len(a.rows) : ~Before(a.rows[j], a.rows[i])
                     /\ Cardinality({k \in DOMAIN expected : Before(expected[k], a.rows[i])})
                          <= (IF q.limit = 0 THEN 0 ELSE q.offset) + i - 1

-----------------------------------------------------------------------------
(* What a reader of the documentation would expect, and the code does not do. *)

\* A text that is in the cache is answered as the tables are now.
CacheFollowsTables == \A i \in DOMAIN cache : cache[i].answer \in Answers(Parsed(cache[i].text))

\* Indexes change how long a query takes and not what it answers.
IndexesOnlySpeed ==
  \A q \in Statements :
    LET table == tables[q.table]
    IN  (q.where # <<>> /\ table # Absent) =>
          MatchingRows(table, q)
            = SelectSeq([i \in DOMAIN table.rows |-> i],
                        LAMBDA i : EvaluateWhere(table.rows[i], table.header, q.where))

\* A text with something in it that is not looked at is refused.
RefusesWhatItDoesNotRead ==
  \A q \in Statements : q.complete

\* OR is or.
OrIsOr ==
  \A q \in Statements :
    LET table == tables[q.table]
    IN  table # Absent =>
          \A i \in DOMAIN table.rows :
            (Len(q.where) = 2 /\ q.where[1].link = "OR") =>
              EvaluateWhere(table.rows[i], table.header, q.where)
                = SomeHolds(table.rows[i], table.header, q.where)
=============================================================================

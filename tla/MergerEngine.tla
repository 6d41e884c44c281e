----------------------------- MODULE MergerEngine -----------------------------
(***************************************************************************)
(* BBP::CSV::MergerEngine: the sources of a merge are files; a merge reads *)
(* them in order, row by row, drops duplicates by means of an index from   *)
(* keys to places in the result, and writes the result to a file.  The     *)
(* engine is locked throughout, but its statistics can be read at any      *)
(* time.                                                                   *)
(*                                                                         *)
(* A file is a sequence of lines, a line a row of cells: what writing a    *)
(* row and reading its line makes of the cells is in WriteRow and ReadRow. *)
(***************************************************************************)
EXTENDS DuplicateResolver, PlacesInOrder

CONSTANTS
  InputPaths,  \* files that may be there
  Output,      \* the file merges are written to
  Contents,    \* contents of files when the application begins
  Sources,     \* the sources it may add, not the output: [path, has_header, priority]
  Configs,     \* its configurations: those of DuplicateResolver, with valid, strict:
               \* strict_schema_validation, strategy, and order: the names of columns,
               \* sorted
  NoFile,      \* no such file
  MaxSources,  \* bound: sources added at a time
  MaxMerges    \* bound: merges begun

\* The characters there are in cells.
Letters ==
  LET cells == UNION {Range(row) : row \in UNION {Range(lines) : lines \in Contents}}
  IN  UNION {Range(cell) : cell \in cells}

ASSUME MergerAssumption ==
  /\ Output \notin InputPaths /\ MaxSources \in Nat /\ MaxMerges \in Nat
  /\ Contents \subseteq Seq(Seq(Seq(Letters)))
  /\ \A s \in Sources : s.path \in InputPaths
  /\ \A c \in Configs : /\ c.rule \in Rules /\ c.keep \in Resolutions
                        /\ c.keys \in Seq(Range(c.keys)) /\ c.order \in Seq(Range(c.order))

VARIABLES
  disk,           \* path -> lines, or NoFile
  merge_config,   \* config_
  sources,        \* input_sources_
  doing,          \* "idle", or the kind of merge at hand
  queue,          \* the sources the merge has not read, in the order it reads them
  pending,        \* rows read from the source at hand and not yet processed
  merged_headers, \* the names of the columns of the result
  all_rows,       \* the rows of the result
  key_to_rows,    \* the index: key -> places in all_rows
  merge_stats,    \* processed, removed and output of MergeStatistics
  outcome,        \* the answer of the last merge
  seen,           \* observer: every row processed in this merge, in order
  merges          \* observer: merges begun

merging == <<queue, pending, merged_headers, all_rows, key_to_rows, merge_stats, seen>>
mergerVars == <<disk, merge_config, sources, doing, merging, outcome, merges>>

NoMergeStats == [processed |-> 0, removed |-> 0, output |-> 0]

MergerInit ==
  /\ disk \in [InputPaths \cup {Output} -> Contents \cup {NoFile}] /\ disk[Output] = NoFile
  /\ merge_config \in Configs /\ sources = <<>>
  /\ doing = "idle" /\ queue = <<>> /\ pending = <<>> /\ merged_headers = <<>>
  /\ all_rows = <<>> /\ key_to_rows = <<>> /\ merge_stats = NoMergeStats
  /\ outcome = "none" /\ seen = <<>> /\ merges = 0

-----------------------------------------------------------------------------
(* Lines.                                                                  *)

\* writeRow: a cell with a delimiter, a quote or an end of line is quoted, and its
\* quotes are doubled.
WriteRow(row) ==
  LET Cell(cell) ==
        IF \E i \in DOMAIN cell : cell[i] \in {"d", "q", "n"}
        THEN <<"q">> \o FlattenSeq([i \in DOMAIN cell |->
               IF cell[i] = "q" THEN <<"q", "q">> ELSE <<cell[i]>>]) \o <<"q">>
        ELSE cell
  IN  FlattenSeq([k \in DOMAIN row |-> (IF k > 1 THEN <<"d">> ELSE <<>>) \o Cell(row[k])])

\* parseCsvRow: a delimiter outside quotes ends a cell, and no quote stays: the last
\* character of the cell is never one, so none is taken for a doubled quote.
ReadRow(line) ==
  LET ends == Ascending({0, Len(line) + 1}
                          \cup {i \in DOMAIN line : line[i] = "d" /\ ~Quoted(line, i)},
                        Len(line) + 1)
  IN  [k \in 1 .. Len(ends) - 1 |->
         SelectSeq(SubSeq(line, ends[k] + 1, ends[k + 1] - 1), LAMBDA ch : ch # "q")]

\* What a row is when it has been written and read again.
ReadAgain(row) == ReadRow(WriteRow(row))

-----------------------------------------------------------------------------
(* The application, between merges.                                        *)

AddInputSource(s) ==
  /\ doing = "idle" /\ Len(sources) < MaxSources
  /\ sources' = Append(sources, s)
  /\ UNCHANGED <<disk, merge_config, doing, merging, outcome, merges>>

ClearInputSources ==
  /\ doing = "idle" /\ sources # <<>>
  /\ sources' = <<>>
  /\ UNCHANGED <<disk, merge_config, doing, merging, outcome, merges>>

SetMergeConfig(c) ==
  /\ doing = "idle" /\ c # merge_config
  /\ merge_config' = c
  /\ UNCHANGED <<disk, sources, doing, merging, outcome, merges>>

-----------------------------------------------------------------------------
(* A merge.                                                                *)

SourceThere(s) == disk[s.path] # NoFile

\* readCsvHeaders: the first line, whether or not it is a header; it throws without one.
Header(s) == IF SourceThere(s) /\ disk[s.path] # <<>> THEN disk[s.path][1] ELSE NoFile

\* readCsvFile, without a row filter.
DataRows(s) == IF s.has_header /\ disk[s.path] # <<>> THEN Tail(disk[s.path]) ELSE disk[s.path]

\* loadAndValidateSources.
Validated ==
  CASE ~merge_config.valid -> "INVALID_CONFIG"
    [] merge_config.valid /\ sources = <<>> -> "INVALID_CONFIG"
    [] merge_config.valid /\ \E i \in DOMAIN sources : ~SourceThere(sources[i]) -> "FILE_NOT_FOUND"
    [] OTHER ->
         IF merge_config.strict /\ \E i \in DOMAIN sources :
              Header(sources[i]) = NoFile \/ Header(sources[i]) # Header(sources[1])
         THEN "SCHEMA_MISMATCH" ELSE "SUCCESS"

\* inferMergedSchema: every column of every source, in the order of their names.
InferredSchema ==
  LET columns == UNION {Range(Header(sources[i])) :
                          i \in {j \in DOMAIN sources : Header(sources[j]) # NoFile}}
      there == Places({k \in DOMAIN merge_config.order : merge_config.order[k] \in columns},
                      Len(merge_config.order))
  IN  [k \in DOMAIN there |-> merge_config.order[there[k]]]

\* mergeToFile truncates the output before anything is validated.
FailsMerge ==
  /\ doing = "idle" /\ merges < MaxMerges
  /\ Validated # "SUCCESS"
  /\ outcome' = Validated
  /\ disk' = [disk EXCEPT ![Output] = <<>>]
  /\ merge_stats' = NoMergeStats /\ merges' = merges + 1
  /\ UNCHANGED <<merge_config, sources, doing, queue, pending, merged_headers, all_rows,
                 key_to_rows, seen>>

\* The orders std::sort may give: by falling priority, equals in any order.
ByPriority(s) ==
  {t \in {[i \in DOMAIN s |-> s[p[i]]] : p \in Injection(DOMAIN s, DOMAIN s)} :
     \A i, j \in DOMAIN t : i < j => t[i].priority >= t[j].priority}

\* mergeToStream, performMerge, and the beginning of the strategy: priorityMerge sorts
\* the sources; all but appendMerge infer the header.
BeginsMerge ==
  /\ doing = "idle" /\ merges < MaxMerges
  /\ Validated = "SUCCESS"
  /\ queue' \in (IF merge_config.strategy = "priority" THEN ByPriority(sources) ELSE {sources})
  /\ doing' = IF merge_config.strategy = "append" THEN "append" ELSE "merge"
  /\ merged_headers' = IF merge_config.strategy = "append" THEN <<>> ELSE InferredSchema
  /\ pending' = <<>> /\ all_rows' = <<>> /\ key_to_rows' = <<>> /\ seen' = <<>>
  /\ merge_stats' = NoMergeStats /\ merges' = merges + 1
  /\ disk' = [disk EXCEPT ![Output] = <<>>]
  /\ UNCHANGED <<merge_config, sources, outcome>>

\* No source has a line.
NoSchema ==
  /\ doing = "merge" /\ merged_headers = <<>>
  /\ doing' = "idle" /\ outcome' = "SCHEMA_MISMATCH"
  /\ UNCHANGED <<disk, merge_config, sources, merging, merges>>

ReadsSource ==
  /\ doing = "merge" /\ merged_headers # <<>> /\ pending = <<>> /\ queue # <<>>
  /\ pending' = DataRows(Head(queue))
  /\ queue' = Tail(queue)
  /\ UNCHANGED <<disk, merge_config, sources, doing, merged_headers, all_rows, key_to_rows,
                 merge_stats, outcome, seen, merges>>

Processes(row) ==
  /\ doing = "merge" /\ pending # <<>> /\ row = Head(pending)
  /\ pending' = Tail(pending) /\ seen' = Append(seen, row)
  /\ UNCHANGED <<disk, merge_config, sources, doing, queue, merged_headers, outcome, merges>>

KeyOf(row) == Key(row, merged_headers, merge_config)
Indexed(row) == merge_config.rule # "none" /\ KeyOf(row) # <<>>
AtKey(row) == IF KeyOf(row) \in DOMAIN key_to_rows THEN key_to_rows[KeyOf(row)] ELSE {}

\* The rows with the same key that it is a duplicate of.
Twins(row) == {i \in AtKey(row) : AreDuplicates(row, all_rows[i], merged_headers, merge_config)}

\* A duplicate of a row that is there: the first such row becomes what is kept of both.
ResolvesDuplicate(row) ==
  /\ Processes(row) /\ Indexed(row) /\ Twins(row) # {}
  /\ \E kept \in Resolved(all_rows[Min(Twins(row))], row, merge_config) :
       all_rows' = [all_rows EXCEPT ![Min(Twins(row))] = kept]
  /\ merge_stats' = [merge_stats EXCEPT !.processed = @ + 1, !.removed = @ + 1]
  /\ UNCHANGED key_to_rows

\* Fault: a row that is not a duplicate is not entered under a key that is there.
IndexedOnce(row) ==
  [k \in DOMAIN key_to_rows \cup {KeyOf(row)} |->
     IF k \in DOMAIN key_to_rows THEN key_to_rows[k] ELSE {Len(all_rows) + 1}]

\* The index with the new row, which is put at the end.
WithNewRow(row) ==
  [k \in DOMAIN key_to_rows \cup {KeyOf(row)} |->
     IF k = KeyOf(row) THEN AtKey(row) \cup {Len(all_rows) + 1} ELSE key_to_rows[k]]

AddsRow(row) ==
  /\ Processes(row) /\ ~(Indexed(row) /\ Twins(row) # {})
  /\ all_rows' = Append(all_rows, row)
  /\ key_to_rows' = IF Indexed(row) THEN WithNewRow(row) ELSE key_to_rows
  /\ merge_stats' = [merge_stats EXCEPT !.processed = @ + 1]

\* Every row is written, whatever its width, under the merged header.
WritesAll ==
  /\ doing = "merge" /\ merged_headers # <<>> /\ pending = <<>> /\ queue = <<>>
  /\ disk' = [disk EXCEPT ![Output] =
                  <<merged_headers>> \o [i \in DOMAIN all_rows |-> ReadAgain(all_rows[i])]]
  /\ merge_stats' = [merge_stats EXCEPT !.output = Len(all_rows)]
  /\ doing' = "idle" /\ outcome' = "SUCCESS"
  /\ UNCHANGED <<merge_config, sources, queue, pending, merged_headers, all_rows, key_to_rows,
                 seen, merges>>

\* appendMerge, a source at a time: the lines as they are, the first header among them.
AppendsSource ==
  /\ doing = "append" /\ queue # <<>>
  /\ LET s == Head(queue)
         first == s.has_header /\ disk[s.path] # <<>> /\ merged_headers = <<>>
         lines == IF first THEN disk[s.path] ELSE DataRows(s)
     IN  /\ disk' = [disk EXCEPT ![Output] = @ \o lines]
         /\ merged_headers' = IF first THEN disk[s.path][1] ELSE merged_headers
         /\ merge_stats' = [merge_stats EXCEPT !.processed = @ + Len(DataRows(s)),
                                               !.output = @ + Len(DataRows(s))]
         /\ seen' = seen \o DataRows(s)
  /\ queue' = Tail(queue)
  /\ UNCHANGED <<merge_config, sources, doing, pending, all_rows, key_to_rows, outcome, merges>>

AppendEnds ==
  /\ doing = "append" /\ queue = <<>>
  /\ doing' = "idle" /\ outcome' = "SUCCESS"
  /\ UNCHANGED <<disk, merge_config, sources, merging, merges>>

Merges ==
  \/ NoSchema \/ ReadsSource \/ WritesAll \/ AppendsSource \/ AppendEnds
  \/ pending # <<>> /\ (ResolvesDuplicate(Head(pending)) \/ AddsRow(Head(pending)))

MergerNext ==
  \/ \E s \in Sources : AddInputSource(s)
  \/ ClearInputSources \/ \E c \in Configs : SetMergeConfig(c)
  \/ FailsMerge \/ BeginsMerge \/ Merges

MergerSpec == MergerInit /\ [][MergerNext]_mergerVars

-----------------------------------------------------------------------------
(* Properties.                                                             *)

\* The index finds every row: whatever resolving a conflict has made of a row, it
\* stands under the key it has now, at its place, and no two places are claimed for it.
IndexExact ==
  doing = "merge" /\ merge_config.rule # "none" =>
    /\ \A k \in DOMAIN key_to_rows :
          key_to_rows[k] = {i \in DOMAIN all_rows : KeyOf(all_rows[i]) = k}
    /\ \A i \in DOMAIN all_rows :
          KeyOf(all_rows[i]) # <<>> => KeyOf(all_rows[i]) \in DOMAIN key_to_rows

\* One row after another: the rows that begin a new row of the result, and for each
\* of those all that are the same row.
SameRow(row1, row2) ==
  row1 = row2 \/ (Indexed(row1) /\ KeyOf(row1) = KeyOf(row2)
                    /\ AreDuplicates(row1, row2, merged_headers, merge_config))
Begun == Places({i \in DOMAIN seen :
           ~Indexed(seen[i]) \/ \A j \in 1 .. i - 1 : ~SameRow(seen[j], seen[i])}, Len(seen))
Class(i) == IF Indexed(seen[i]) THEN {j \in i .. Len(seen) : SameRow(seen[i], seen[j])} ELSE {i}

\* At every row of a merge whose rule is an equivalence, and whatever the sources and
\* their order: the result has one row for each row that is different by the rule, in
\* the order they first came, no row without a key is lost, and each is the one the
\* configuration asks for, or made of the cells of its class.
MergeIsExact ==
  doing = "merge" /\ merge_config.rule # "fuzzy" =>
    /\ Len(all_rows) = Len(Begun)
    /\ merge_stats.processed = Len(seen) /\ merge_stats.removed = Len(seen) - Len(all_rows)
    /\ \A k \in DOMAIN all_rows :
         CASE merge_config.keep = "merge" ->
                \A col \in DOMAIN all_rows[k] :
                  LET cells == {seen[j][col] : j \in {i \in Class(Begun[k]) : col <= Len(seen[i])}}
                  IN  all_rows[k][col] \in (IF cells = {<<>>} THEN cells ELSE cells \ {<<>>})
           [] merge_config.keep \in {"last", "newest"} -> all_rows[k] = seen[Max(Class(Begun[k]))]
           [] OTHER -> all_rows[k] = seen[Begun[k]]

\* The result of a merge, and the index it is found by.
MergeExact == IndexExact /\ MergeIsExact

-----------------------------------------------------------------------------
(* Promises of the documentation that the code does not keep.              *)

\* merger_engine.cpp:759, "harmonize schema": a row is written in the order of its own
\* source's columns, under the columns of all sources in the order of their names.
RowsUnderTheirHeader ==
  doing = "merge" /\ pending # <<>> => \A i \in DOMAIN sources : Header(sources[i]) = merged_headers

\* merger_engine.hpp:82, "higher = more important": the source read last wins with
\* the resolution that is the default, and that is the one of least priority.
PriorityWins ==
  doing = "merge" /\ merge_config.strategy = "priority" /\ merge_config.rule = "key" /\ seen # <<>>
    => \A k \in DOMAIN all_rows : all_rows[k] = seen[Begun[k]]

\* A merge that is refused leaves the output as it was: it is emptied first.
RefusalKeepsOutput == [][FailsMerge => disk'[Output] \in {disk[Output], NoFile}]_mergerVars

\* What is written is read again: quotes in a cell are lost, ends of line break it.
OutputReadsBack == \A i \in DOMAIN all_rows : ReadAgain(all_rows[i]) = all_rows[i]
=============================================================================

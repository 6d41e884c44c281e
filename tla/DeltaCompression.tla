--------------------------- MODULE DeltaCompression ---------------------------
(***************************************************************************)
(* BBP::CSV: ChangeDetector compares two tables, DeltaCompressor writes    *)
(* the changes to a file, DeltaDecompressor applies such a file to a       *)
(* table.  A table is a sequence of rows, a row a sequence of values, the  *)
(* first row of a file the header.  Places count from 1.  Two rows have    *)
(* the same hash when they are the same: collisions are left out.          *)
(***************************************************************************)
EXTENDS Integers, Sequences, FiniteSets, SequencesExt, PlacesInOrder

CONSTANTS
  Paths,     \* files
  Tables,    \* contents of files, the header first
  Payloads,  \* what the bytes of serialized records may be
  Bytes,     \* the values of a byte, 0 .. MaxByte
  Modes,     \* detection modes in use
  Algorithms,\* algorithms in use
  Window,    \* window_size, the longest way back to a match
  Longest,   \* lookahead_size, the longest match
  Absent,    \* no such file
  MaxUses    \* bound: calls of compress and decompress

MaxByte == Cardinality(Bytes) - 1

ASSUME DeltaAssumption ==
  /\ IsFiniteSet(Bytes) /\ Bytes = 0 .. MaxByte /\ Payloads \subseteq Seq(Bytes) /\ MaxUses \in Nat
  /\ \A table \in Tables : table \in Seq(Range(table))
  /\ Longest \in 3 .. MaxByte
  /\ Window \in 1 .. (MaxByte + 1) * (MaxByte + 1) - 1
  /\ Modes \subseteq {"hash", "field", "key", "semantic", "timestamp"}
  /\ Algorithms \subseteq {"none", "rle", "lz77", "hybrid"}

-----------------------------------------------------------------------------
(* ChangeDetector.                                                         *)

InsertRecord(place, row) == [op |-> "insert", place |-> place, old |-> <<>>, new |-> row, columns |-> {}]
DeleteRecord(place, row) == [op |-> "delete", place |-> place, old |-> row, new |-> <<>>, columns |-> {}]

\* findChangedColumns: where they differ, and where only one has a column.
ChangedColumns(old, new) ==
  {k \in DOMAIN old \cup DOMAIN new :
     ~(k \in DOMAIN old /\ k \in DOMAIN new /\ old[k] = new[k])}

UpdateRecord(place, old, new) ==
  [op |-> "update", place |-> place, old |-> old, new |-> new, columns |-> ChangedColumns(old, new)]

Recorded(n, Test(_), Record(_)) ==
  LET places == Places({i \in 1 .. n : Test(i)}, n)
  IN  [k \in DOMAIN places |-> Record(places[k])]

\* The last place of each row, or of each key, as a map leaves it.
LastPlaces(table, Of(_)) ==
  {i \in DOMAIN table : \A j \in DOMAIN table : Of(table[j]) = Of(table[i]) => j <= i}

\* Deletions are found by walking through a hash map: in any order.
Deletions(table, places) ==
  {[k \in DOMAIN order |-> DeleteRecord(order[k], table[order[k]])] : order \in SetToSeqs(places)}

Occurs(table, row) == \E i \in DOMAIN table : table[i] = row

\* detectContentHashChanges.
ContentHashChanges(old, new) ==
  LET inserts == Recorded(Len(new), LAMBDA i : ~Occurs(old, new[i]),
                                    LAMBDA i : InsertRecord(i, new[i]))
      gone == {i \in LastPlaces(old, LAMBDA row : row) : ~Occurs(new, old[i])}
  IN  {inserts \o deletes : deletes \in Deletions(old, gone)}

\* Fault: rows beyond the end of the shorter table are not looked at.
CommonRowsOnly(old, new) ==
  LET common == Min({Len(old), Len(new)})
  IN  {Recorded(common, LAMBDA i : old[i] # new[i], LAMBDA i : UpdateRecord(i, old[i], new[i]))}

\* detectFieldByFieldChanges: row by row, whatever the mode says of similarity.
FieldByFieldChanges(old, new) ==
  LET common == Min({Len(old), Len(new)})
      updates == Recorded(common, LAMBDA i : old[i] # new[i],
                                  LAMBDA i : UpdateRecord(i, old[i], new[i]))
      inserts == Recorded(Len(new), LAMBDA i : i > common, LAMBDA i : InsertRecord(i, new[i]))
      deletes == Recorded(Len(old), LAMBDA i : i > common, LAMBDA i : DeleteRecord(i, old[i]))
  IN  {updates \o inserts \o deletes}

\* generateKeyFromRow: the first column, whichever columns are configured.
KeyFromRow(row) == IF row = <<>> THEN <<>> ELSE row[1]

\* detectKeyBasedChanges: every new row against the last old one with its key.
KeyBasedChanges(old, new) ==
  LET last == LastPlaces(old, KeyFromRow)
      Before(row) == {i \in last : KeyFromRow(old[i]) = KeyFromRow(row)}
      There(row) == CHOOSE i \in Before(row) : TRUE
      found == Recorded(Len(new),
                 LAMBDA i : Before(new[i]) = {} \/ old[There(new[i])] # new[i],
                 LAMBDA i : IF Before(new[i]) = {} THEN InsertRecord(i, new[i])
                            ELSE UpdateRecord(There(new[i]), old[There(new[i])], new[i]))
      gone == {i \in last : ~\E j \in DOMAIN new : KeyFromRow(new[j]) = KeyFromRow(old[i])}
  IN  {found \o deletes : deletes \in Deletions(old, gone)}

DetectChanges(mode, old, new) ==
  CASE mode \in {"field", "semantic"} -> FieldByFieldChanges(old, new)
    [] mode \in {"key", "timestamp"} -> KeyBasedChanges(old, new)
    [] OTHER -> ContentHashChanges(old, new)

-----------------------------------------------------------------------------
(* DeltaCompressor: codes.                                                 *)

\* Fault: a run is not cut at the largest count a byte can hold, and wraps round.
UncutRun(data, pos) ==
  LET length == Max({n \in 1 .. Len(data) - pos + 1 : \A k \in 0 .. n - 1 : data[pos + k] = data[pos]})
  IN  [takes |-> length, code |-> <<length % (MaxByte + 1), data[pos]>>]

\* A run is a count, of MaxByte at most, and a byte.
Run(data, pos) ==
  LET length == Max({n \in 1 .. Min({MaxByte, Len(data) - pos + 1}) :
                       \A k \in 0 .. n - 1 : data[pos + k] = data[pos]})
  IN  [takes |-> length, code |-> <<length, data[pos]>>]

\* A match of three bytes or more, the first of the longest in the window, is the marker,
\* the low and the high byte of its distance, and its length; other bytes stand for
\* themselves, the marker too.
MatchLength(data, i, pos) ==
  Max({n \in 0 .. Min({Longest, Len(data) - pos + 1}) : \A k \in 0 .. n - 1 : data[i + k] = data[pos + k]})
Match(data, pos) ==
  LET window == {i \in 1 .. pos - 1 : pos - i <= Window}
      length == Max({0} \cup {MatchLength(data, i, pos) : i \in window})
      first == Min({i \in window : MatchLength(data, i, pos) = length})
      LowByte(d) == d % (MaxByte + 1)
      HighByte(d) == (d \div (MaxByte + 1)) % (MaxByte + 1)
  IN  IF length > 2
      THEN [takes |-> length, code |-> <<MaxByte, LowByte(pos - first), HighByte(pos - first), length>>]
      ELSE [takes |-> 1, code |-> <<data[pos]>>]

\* What is written of data by a loop that takes, at a place, what the token for that
\* place takes, and writes its code.
Written(data, tokens) ==
  LET write[k \in 0 .. Len(data)] ==
        IF k = 0 THEN [at |-> 1, out |-> <<>>]
        ELSE LET s == write[k - 1]
             IN  IF s.at > Len(data) THEN s
                 ELSE [at |-> s.at + tokens[s.at].takes, out |-> s.out \o tokens[s.at].code]
  IN  write[Len(data)].out

\* applyRunLengthEncoding.
RunLengthEncoded(data) == Written(data, [pos \in 1 .. Len(data) |-> Run(data, pos)])

\* applyLZ77Compression.
LZ77Compressed(data) == Written(data, [pos \in 1 .. Len(data) |-> Match(data, pos)])

\* applyHybridCompression: the shortest of three, the first of them if equal, behind
\* a byte that names it.
Shortest(data) ==
  LET codes == <<data, RunLengthEncoded(data), LZ77Compressed(data)>>
      best == Min({i \in 1 .. 3 : \A j \in 1 .. 3 : Len(codes[i]) <= Len(codes[j])})
  IN  <<best - 1>> \o codes[best]

\* DeltaRecord::serialize, then deserialize: values and columns are written, not read.
Deserialized(record) == [record EXCEPT !.old = <<>>, !.new = <<>>, !.columns = {}]

\* writeRecords.
Encoded(algorithm, data) ==
  CASE algorithm = "rle" -> RunLengthEncoded(data)
    [] algorithm = "lz77" -> LZ77Compressed(data)
    [] algorithm = "hybrid" -> Shortest(data)
    [] OTHER -> data

-----------------------------------------------------------------------------
VARIABLES
  files,    \* path -> table, or Absent
  delta,    \* the delta file: its header and its payload, or Absent
  config,   \* DeltaCompressor::config_: detection_mode and algorithm
  detector, \* detection_mode of change_detector_, which has a configuration of its own
  stats,    \* inserts, updates, deletes and changes of DeltaStatistics
  answer,   \* what the last call answered
  changes,  \* observer: the records of the last compress that succeeded
  payload,  \* observer: their bytes
  made,     \* observer: the tables, without header, it was made from
  uses      \* observer: calls of compress and decompress

deltaVars == <<files, delta, config, detector, stats, answer, changes, payload, made, uses>>

NoStats == [inserts |-> 0, updates |-> 0, deletes |-> 0, changes |-> 0]

DeltaInit ==
  /\ files \in [Paths -> Tables \cup {Absent}]
  /\ delta = Absent
  /\ config \in [mode : Modes, algorithm : Algorithms] /\ detector = config.mode
  /\ stats = NoStats /\ answer = "none"
  /\ changes = <<>> /\ payload = <<>> /\ made = <<<<>>, <<>>>> /\ uses = 0

\* The new configuration does not reach the detector.
SetConfig(c) ==
  /\ uses \in 1 .. MaxUses - 1 /\ c # config
  /\ config' = c
  /\ UNCHANGED <<files, delta, detector, stats, answer, changes, payload, made, uses>>

\* A file is changed by others.
FileChanges(path, table) ==
  /\ uses \in 1 .. MaxUses - 1 /\ files[path] # table
  /\ files' = [files EXCEPT ![path] = table]
  /\ UNCHANGED <<delta, config, detector, stats, answer, changes, payload, made, uses>>

\* detectChangesFromFiles: a file that is not there is an exception.
CompressFails(old, new) ==
  /\ uses < MaxUses /\ uses' = uses + 1
  /\ \/ Absent \in {files[old], files[new]} /\ answer' = "IO_ERROR"
     \/ /\ Absent \notin {files[old], files[new]}
        /\ <<>> \in {files[old], files[new]} /\ answer' = "INVALID_FORMAT"
  /\ UNCHANGED <<files, delta, config, detector, stats, changes, payload, made>>

Count(records, op) == Len(SelectSeq(records, LAMBDA r : r.op = op))

\* The header of the new file is dropped.  The statistics are never reset.
Compress(old, new) ==
  /\ uses < MaxUses /\ uses' = uses + 1
  /\ \A path \in {old, new} : files[path] \notin {Absent, <<>>}
  /\ made' = <<Tail(files[old]), Tail(files[new])>>
  /\ \E found \in DetectChanges(detector, made'[1], made'[2]), data \in Payloads :
       /\ changes' = found /\ payload' = data
       /\ delta' = [mode |-> config.mode, total |-> Len(found), algorithm |-> config.algorithm,
                    data |-> Encoded(config.algorithm, data)]
       /\ stats' = [inserts |-> stats.inserts + Count(found, "insert"),
                    updates |-> stats.updates + Count(found, "update"),
                    deletes |-> stats.deletes + Count(found, "delete"),
                    changes |-> stats.changes + Len(found)]
  /\ answer' = "SUCCESS"
  /\ UNCHANGED <<files, config, detector>>

\* decompressToRecords opens the file and gives no record of it.
RecordsOf(file) == <<>>

\* applyDelta: insertions within the table; the table has its header, the places have not.
ApplyDelta(base, records) ==
  LET applied[k \in 0 .. Len(records)] ==
        IF k = 0 THEN base
        ELSE LET r == records[k]  before == applied[k - 1]
             IN  IF r.op = "insert" /\ r.place <= Len(before) /\ r.new # <<>>
                 THEN InsertAt(before, r.place, r.new) ELSE before
  IN  applied[Len(records)]

Decompress(base, output) ==
  /\ uses < MaxUses /\ uses' = uses + 1
  /\ \/ /\ files[base] = Absent
        /\ answer' = "DECOMPRESSION_FAILED" /\ UNCHANGED files
     \/ /\ files[base] = <<>>
        /\ answer' = "FILE_NOT_FOUND" /\ UNCHANGED files
     \/ /\ files[base] \notin {Absent, <<>>} /\ delta = Absent
        /\ answer' = "IO_ERROR" /\ UNCHANGED files
     \/ /\ files[base] \notin {Absent, <<>>} /\ delta # Absent
        /\ files' = [files EXCEPT ![output] = ApplyDelta(files[base], RecordsOf(delta))]
        /\ answer' = "SUCCESS"
  /\ UNCHANGED <<delta, config, detector, stats, changes, payload, made>>

DeltaNext ==
  \/ \E c \in [mode : Modes, algorithm : Algorithms] : SetConfig(c)
  \/ \E path \in Paths, table \in Tables : FileChanges(path, table)
  \/ \E old, new \in Paths : CompressFails(old, new) \/ Compress(old, new) \/ Decompress(old, new)

DeltaSpec == DeltaInit /\ [][DeltaNext]_deltaVars

-----------------------------------------------------------------------------
(* Properties.                                                             *)

ThatAre(op) == {i \in DOMAIN changes : changes[i].op = op}
OfChange(op, f(_)) == {f(changes[i]) : i \in ThatAre(op)}

\* Every row of a table by what it is known by, once each.
Distinct(table, Of(_)) == \A i, j \in DOMAIN table : Of(table[i]) = Of(table[j]) => i = j

\* The changes tell the new table from the old one: row by row, exactly; by their keys,
\* if those are unique, every row that is new, gone or different, and no other; by
\* their contents, which rows there are.
ChangesExplain ==
  LET old == made[1]  new == made[2]
      inserted == OfChange("insert", LAMBDA r : r.new)
      updated == OfChange("update", LAMBDA r : r.new)
      replaced == OfChange("update", LAMBDA r : r.place)
      deleted == OfChange("delete", LAMBDA r : r.place)
      kept == {old[i] : i \in DOMAIN old \ (replaced \cup deleted)}
  IN  /\ detector \in {"field", "semantic"} =>
           /\ Len(new) = Len(old) + Cardinality(ThatAre("insert")) - Cardinality(ThatAre("delete"))
           /\ \A i \in DOMAIN new :
                \/ \E k \in DOMAIN changes : changes[k].place = i /\ changes[k].new = new[i]
                \/ i \in DOMAIN old \ (replaced \cup deleted) /\ old[i] = new[i]
      /\ detector \in {"key", "timestamp"}
           /\ Distinct(old, KeyFromRow) /\ Distinct(new, KeyFromRow) =>
           /\ kept \cup updated \cup inserted = Range(new)
           /\ Cardinality(kept) + Len(changes) - Cardinality(ThatAre("delete")) = Len(new)
      /\ detector = "hash" =>
           (Range(old) \ OfChange("delete", LAMBDA r : r.old)) \cup inserted = Range(new)

\* A code of runs, read back a token at a time.
RunRead(code, s) ==
  [at |-> s.at + 2, out |-> s.out \o [i \in 1 .. code[s.at] |-> code[s.at + 1]]]
RunsDecoded(code) ==
  LET read[k \in 0 .. Len(code)] ==
        IF k = 0 THEN [at |-> 1, out |-> <<>>]
        ELSE LET s == read[k - 1] IN IF s.at > Len(code) THEN s ELSE RunRead(code, s)
  IN  read[Len(code)].out

\* A code of matches: the marker begins a match, which is copied byte by byte, from what
\* it writes itself if need be.
Copied(out, distance, length) ==
  [i \in 1 .. Len(out) + length |->
     IF i <= Len(out) THEN out[i]
     ELSE out[Len(out) - distance + 1 + ((i - Len(out) - 1) % distance)]]
MatchRead(code, s) ==
  IF code[s.at] = MaxByte
  THEN [at |-> s.at + 4,
        out |-> Copied(s.out, code[s.at + 1] + (MaxByte + 1) * code[s.at + 2], code[s.at + 3])]
  ELSE [at |-> s.at + 1, out |-> Append(s.out, code[s.at])]
MatchesDecoded(code) ==
  LET read[k \in 0 .. Len(code)] ==
        IF k = 0 THEN [at |-> 1, out |-> <<>>]
        ELSE LET s == read[k - 1] IN IF s.at > Len(code) THEN s ELSE MatchRead(code, s)
  IN  read[Len(code)].out

\* What a delta file holds is bytes, and they are the bytes of the records, whichever code
\* was chosen for them, in runs longer than a byte can count and in matches that overlap
\* themselves; a code of matches as long as no byte is the marker.
CodesReadBack ==
  delta # Absent =>
    LET marked == \E i \in DOMAIN payload : payload[i] = MaxByte
        Reads(algorithm, code) ==
          CASE algorithm = "rle" -> RunsDecoded(code) = payload
            [] algorithm = "lz77" -> marked \/ MatchesDecoded(code) = payload
            [] OTHER -> code = payload
    IN  /\ Range(delta.data) \subseteq Bytes
        /\ IF delta.algorithm = "hybrid"
           THEN Reads(<<"none", "rle", "lz77">>[Head(delta.data) + 1], Tail(delta.data))
           ELSE Reads(delta.algorithm, delta.data)

\* What is found explains the difference, and what is written is what was found.
DeltaExact == ChangesExplain /\ CodesReadBack

-----------------------------------------------------------------------------
(* Promises of the documentation that the code does not keep.              *)

\* delta_compression.hpp:350, "reconstructing files from compressed deltas": a delta that
\* was made from a table, applied to it, gives the table back as it was.
DeltaReconstructs ==
  [][\A base, output \in Paths :
       /\ Decompress(base, output) /\ answer' = "SUCCESS"
       /\ Tail(files[base]) = made[1]
       => Tail(files'[output]) = made[2]]_deltaVars

\* The header of a delta names the mode it was made with: setConfig does not reach the
\* detector, which keeps the mode it was built with.
HeaderNamesMode == [][delta' # delta => delta'.mode = detector]_deltaVars

\* A byte that equals the marker of a match is told from one: a payload that has it is not
\* written as it is.
MarkerIsEscaped ==
  delta # Absent /\ delta.algorithm = "lz77" /\ MaxByte \in Range(payload) => delta.data # payload

\* DeltaRecord::deserialize gives the record serialize has written.
RecordsReadBack == \A i \in DOMAIN changes : Deserialized(changes[i]) = changes[i]
=============================================================================

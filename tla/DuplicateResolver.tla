--------------------------- MODULE DuplicateResolver ---------------------------
(***************************************************************************)
(* BBP::CSV::DuplicateResolver: when two rows are the same row, and what   *)
(* is kept of them.  A cell is a sequence of characters, of which "s" is a *)
(* blank, "a" a letter and "A" the same letter in upper case, and "|" the  *)
(* character that ends each part of a key.  A configuration is keys:       *)
(* key_columns, trim: trim_key_whitespace, sensitive: case_sensitive_keys, *)
(* rule: dedup_strategy, keep: conflict_resolution, threshold:             *)
(* fuzzy_threshold, and what MergerEngine adds.                            *)
(***************************************************************************)
EXTENDS CsvText

Rules == {"none", "exact", "key", "fuzzy", "hash"}
Resolutions == {"first", "last", "newest", "oldest", "merge", "priority"}

\* MergeUtils::toLower.
Lower(cell) == [i \in DOMAIN cell |-> IF cell[i] = "A" THEN "a" ELSE cell[i]]

ColumnsNamed(column, header) == {i \in DOMAIN header : header[i] = column}

\* generateKey: a key column the header or the row does not have is passed over.
Key(row, header, c) ==
  LET Normal(cell) == LET kept == IF c.trim THEN Trimmed(cell) ELSE cell
                      IN  IF c.sensitive THEN kept ELSE Lower(kept)
      First(column) == Min(ColumnsNamed(column, header))
      Has(column) == ColumnsNamed(column, header) # {} /\ First(column) <= Len(row)
  IN  FlattenSeq([k \in DOMAIN c.keys |->
        IF Has(c.keys[k]) THEN Append(Normal(row[First(c.keys[k])]), "|") ELSE <<>>])

-----------------------------------------------------------------------------
(* Similarity, in parts of Unit: it is divided by lengths up to 4 and by   *)
(* numbers of bigrams up to 6.                                             *)

Unit == 1200

Levenshtein(s, t) ==
  LET distance[p \in (0 .. Len(s)) \X (0 .. Len(t))] ==
        IF p[1] = 0 \/ p[2] = 0 THEN p[1] + p[2]
        ELSE Min({distance[<<p[1] - 1, p[2]>>] + 1, distance[<<p[1], p[2] - 1>>] + 1,
                  distance[<<p[1] - 1, p[2] - 1>>] + (IF s[p[1]] = t[p[2]] THEN 0 ELSE 1)})
  IN  distance[<<Len(s), Len(t)>>]

LevenshteinSimilarity(s, t) ==
  LET longest == Max({Len(s), Len(t)})
  IN  Unit - (Unit * Levenshtein(s, t)) \div longest

Bigrams(s) == {<<s[i], s[i + 1]>> : i \in 1 .. Len(s) - 1}

\* Two cells of one character have no bigrams, and are alike.
JaccardSimilarity(s, t) ==
  LET a == Bigrams(s)  b == Bigrams(t)
  IN  IF a \cup b = {} THEN Unit ELSE (Unit * Cardinality(a \cap b)) \div Cardinality(a \cup b)

CalculateSimilarity(s, t) ==
  CASE s = t -> Unit
    [] s # t /\ (s = <<>> \/ t = <<>>) -> 0
    [] OTHER -> (7 * LevenshteinSimilarity(s, t) + 3 * JaccardSimilarity(s, t)) \div 10

\* Columns that are empty in both rows do not count.
FuzzyMatch(row1, row2, c) ==
  /\ Len(row1) = Len(row2)
  /\ LET compared == {i \in DOMAIN row1 : row1[i] # <<>> \/ row2[i] # <<>>}
     IN  /\ compared # {}
         /\ FoldFunctionOnSet(+, 0, [i \in DOMAIN row1 |-> CalculateSimilarity(row1[i], row2[i])],
                              compared)
              >= c.threshold * Cardinality(compared)

-----------------------------------------------------------------------------
AreDuplicates(row1, row2, header, c) ==
  \/ c.rule = "exact" /\ row1 = row2
  \/ c.rule = "key" /\ Key(row1, header, c) # <<>> /\ Key(row1, header, c) = Key(row2, header, c)
  \/ c.rule = "fuzzy" /\ FuzzyMatch(row1, row2, c)
  \/ c.rule = "hash" /\ FlattenSeq([i \in DOMAIN row1 |-> Append(row1[i], "|")])
                          = FlattenSeq([i \in DOMAIN row2 |-> Append(row2[i], "|")])

-----------------------------------------------------------------------------
(* What is kept of two of them.                                            *)

\* mergeValues: of two cells in a column the one that is not empty; of two that
\* differ, either (the order of a hash map).
Merged(old, new) ==
  LET width == Max({Len(old), Len(new)})
      Values(k) == {row[k] : row \in {r \in {old, new} : k <= Len(r)}} \ {<<>>}
  IN  {row \in [1 .. width -> UNION {Values(k) : k \in 1 .. width} \cup {<<>>}] :
         \A k \in 1 .. width : IF Values(k) = {} THEN row[k] = <<>> ELSE row[k] \in Values(k)}

\* Fault: the row that is there is always kept.
KeepsOld(old, new, c) == {old}

\* resolveConflict of the row that is there and the new one: the rows it may give.
\* newest and oldest look at the order only, priority is the first.
Resolved(old, new, c) ==
  CASE c.keep \in {"last", "newest"} -> {new}
    [] c.keep = "merge" -> Merged(old, new)
    [] OTHER -> {old}
=============================================================================

--------------------------- MODULE MCStageSelector ----------------------------
(* Small instances of StageSelector for TLC.                                 *)
EXTENDS StageSelector

CONSTANTS a, b, c, x, t1, t2

\* Dependencies are listed in this order; x is never a stage.
Listing == <<a, b, c, x>>
Some(ids) == SelectSeq(Listing, LAMBDA id : id \in ids)
\* No dependency, one, or two; of the pairs with x, only that with a.
UpToTwo == {Some(ids) : ids \in {s \in SUBSET {a, b, c, x} : Cardinality(s) <= 2}
                                  \ {{b, x}, {c, x}}}

Priorities == (a :> 1) @@ (b :> 2) @@ (c :> 2)
Timeouts == (a :> 3) @@ (b :> 2) @@ (c :> 1)
Known == (a :> {"NETWORK_DEPENDENT"}) @@ (b :> {}) @@ (c :> {"EXCLUSIVE_ACCESS"})

Include(ids) == [mode |-> "INCLUDE", criteria |-> "BY_ID", matching |-> ids]
Exclude(ids) == [mode |-> "EXCLUDE", criteria |-> "BY_TAG", matching |-> ids]
Urgent == [mode |-> "REQUIRE", criteria |-> "BY_PRIORITY", min_priority |-> 2, max_priority |-> 3]

Query(filters, level, dependencies) ==
    [filters |-> filters, validation_level |-> level, include_dependencies |-> dependencies,
     allow_partial_selection |-> FALSE, enable_caching |-> TRUE]

Config(caching) == [enable_caching |-> caching, cache_ttl |-> 1, max_cache_entries |-> 1]

\* The first application builds any pipeline of three stages and asks for
\* selections of it; the second has one stage at a time, and two threads that
\* ask again and again.
Both ==
    [selections |->
        [stages |-> [id : {a, b, c}, dependencies : UpToTwo], size |-> 3, clients |-> {t1},
         queries |-> {Query({Include({a})}, "DEPENDENCIES", TRUE),
                      Query({Exclude({b})}, "BASIC", FALSE),
                      Query({Urgent}, "COMPREHENSIVE", TRUE)},
         config |-> Config(FALSE), changes |-> {}, time |-> 0],
     caching |->
        [stages |-> {[id |-> a, dependencies |-> <<>>], [id |-> a, dependencies |-> <<b>>],
                     [id |-> b, dependencies |-> <<>>]}, size |-> 1, clients |-> {t1, t2},
         queries |-> {Query({Include({a})}, "DEPENDENCIES", TRUE)}, config |-> Config(TRUE),
         changes |-> {[cache_ttl |-> 2]}, time |-> 2]]
=============================================================================

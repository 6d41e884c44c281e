---------------------------- MODULE StageSelector -----------------------------
(* StageSelector: clients offer the stages of a pipeline and a selection       *)
(* configuration, and get the stages selected, in order.  Results are cached.  *)
(* A client that enables caching or sets the lifetime of results copies the    *)
(* configuration, changes the copy and writes it back.                        *)
EXTENDS StageAnalysis, TLC

CONSTANTS
    Clients,        \* threads that use the selector
    Constraints,    \* inferred of a stage, by id
    None            \* no task, no answer

(* An application has, besides its stages, its threads ("clients"), the        *)
(* selections they ask for ("queries": StageSelectionConfig), the              *)
(* configuration it starts with ("config": StageSelectorConfig) and the changes *)
(* made to it ("changes"), and how long it is watched ("time").                *)

VARIABLES
    config,         \* config_
    cache,          \* cache_: from keys to [at, computed, result]
    task,           \* what each client is doing, or None
    answer,         \* what its last selection returned, or None
    now             \* system_clock

selectorVars == <<config, cache, task, answer, now>>
vars == <<engineVars, selectorVars>>

\* What inferConstraintsFromConfig finds: nothing else is ever inferred.
Inferred == {"NETWORK_DEPENDENT", "FILESYSTEM_DEPENDENT", "CPU_INTENSIVE", "EXCLUSIVE_ACCESS"}

ASSUME SelectorAssumption ==
    /\ None \notin Clients
    /\ \A id \in DOMAIN Constraints : Constraints[id] \subseteq Inferred
    /\ \A a \in DOMAIN Applications : Applications[a].config.max_cache_entries > 0
-----------------------------------------------------------------------------
(* Filters.  A filter by id, name, pattern, tag or custom function has the set *)
(* of ids it matches.                                                         *)
MatchesFilter(stage, filter) ==
    CASE filter.criteria \in {"BY_ID", "BY_NAME", "BY_PATTERN", "BY_TAG", "BY_CUSTOM"} ->
             stage.id \in filter.matching
      [] filter.criteria = "BY_PRIORITY" ->
             Priority[stage.id] \in filter.min_priority..filter.max_priority
      [] filter.criteria = "BY_EXECUTION_TIME" ->
             Timeout[stage.id] \in filter.min_execution_time..filter.max_execution_time
      [] OTHER -> TRUE

\* Included by some filter if any includes, excluded by none, and all that is
\* required.
FilterStages(stages, filters) ==
    LET Of(mode) == {f \in filters : f.mode = mode}
        Kept(s) == /\ Of("INCLUDE") # {} => \E f \in Of("INCLUDE") : MatchesFilter(s, f)
                   /\ \A f \in Of("EXCLUDE") : ~MatchesFilter(s, f)
                   /\ \A f \in Of("REQUIRE") : MatchesFilter(s, f)
    IN SelectSeq(stages, Kept)
-----------------------------------------------------------------------------
(* The dependencies of a selection.                                          *)
ResolveDependencies(all, ids, transitive) ==
    UNION {IF transitive THEN GetTransitiveDependencies(all, id)
                         ELSE ToSet(DependenciesOf(Mapped(all), id)) : id \in ids} \ ids

\* Fault: only what the selection depends on directly.
WithDirectDependencies(all, stages) ==
    LET added == ResolveDependencies(all, Ids(stages), FALSE) \cap Ids(all)
    IN stages \o [i \in 1..Cardinality(added) |-> all[Named(all, SetToSeq(added)[i])]]

\* The selection with its dependencies, those that are stages: the list, then
\* the added ones in the order of a set of strings.
WithDependencies(all, stages) ==
    LET added == ResolveDependencies(all, Ids(stages), TRUE) \cap Ids(all)
    IN stages \o [i \in 1..Cardinality(added) |-> all[Named(all, SetToSeq(added)[i])]]
-----------------------------------------------------------------------------
(* Validation.                                                               *)
Incompatible ==
    {<<"SEQUENTIAL_ONLY", "PARALLEL_SAFE">>, <<"PARALLEL_SAFE", "SEQUENTIAL_ONLY">>,
     <<"PARALLEL_SAFE", "EXCLUSIVE_ACCESS">>, <<"EXCLUSIVE_ACCESS", "PARALLEL_SAFE">>}

AreCompatible(stages) ==
    \A a, b \in Ids(stages) :
        a # b => Constraints[a] \X Constraints[b] \cap Incompatible = {}

\* A level checks what the levels before it check.
ValidateStageSelection(stages, level, roots) ==
    /\ level # "NONE" => Distinct(stages)
    /\ level \in {"DEPENDENCIES", "COMPREHENSIVE"} => ~HasCircularDependency(stages, roots)
    /\ level = "COMPREHENSIVE" => AreCompatible(stages)
-----------------------------------------------------------------------------
(* performSelection.                                                         *)
Failed(status) == [status |-> status]

PerformSelection(offered, query, roots, start) ==
    LET filtered == FilterStages(offered, query.filters)
        selected == IF query.include_dependencies THEN WithDependencies(offered, filtered)
                                                  ELSE filtered
        hash == SelectSeq(roots, LAMBDA id : id \in Ids(selected))
        queue == SelectSeq(start, LAMBDA id : id \in Ids(selected)
                                              /\ InDegree(selected)[id] = 0)
    IN CASE filtered = <<>> -> Failed("EMPTY_SELECTION")
         [] ~ValidateStageSelection(selected, query.validation_level, hash) ->
                Failed("VALIDATION_FAILED")
         [] FindCycles(selected, hash) # {} -> Failed("CIRCULAR_DEPENDENCY")
         [] ~AreCompatible(selected) /\ ~query.allow_partial_selection ->
                Failed("INCOMPATIBLE_STAGES")
         [] OTHER ->
                [status |-> "SUCCESS",
                 selected_stages |-> selected,
                 execution_order |-> OptimizeExecutionOrder(selected, queue),
                 execution_levels |-> IdentifyParallelGroups(selected, queue),
                 dependency_chain |-> TopologicalSort(selected, queue)]

\* With whatever order the hash maps are iterated in.
Results(offered, query) ==
    {PerformSelection(offered, query, roots, roots) : roots \in SetToSeqs(Ids(offered))}
-----------------------------------------------------------------------------
(* The cache.                                                                *)

\* Fault: the stages are left out.
CacheKeyOfQuery(offered, query) ==
    <<query.validation_level, query.include_dependencies>>

\* The key has the ids (with names and executables), the validation level and
\* whether dependencies are included; its max_selected_stages is used nowhere
\* else.  Nothing else is in it.
CacheKey(offered, query) ==
    <<[i \in DOMAIN offered |-> offered[i].id], query.validation_level, query.include_dependencies>>

Valid(key) == key \in DOMAIN cache /\ now - cache[key].at < config.cache_ttl

Without(key) == [k \in DOMAIN cache \ {key} |-> cache[k]]

\* cacheResult: when full the oldest makes room, also for a key that is there.
CacheResult(key, entry) ==
    LET oldest == {k \in DOMAIN cache : \A other \in DOMAIN cache : cache[k].at <= cache[other].at}
    IN IF Cardinality(DOMAIN cache) >= config.max_cache_entries
       THEN \E k \in oldest : cache' = (key :> entry) @@ Without(k)
       ELSE cache' = (key :> entry) @@ cache
-----------------------------------------------------------------------------
SelectorInit ==
    /\ config = Chosen.config
    /\ cache = <<>>
    /\ task = [c \in Clients |-> None]
    /\ answer = [c \in Clients |-> None]
    /\ now = 0

(* selectStages, up to the cache: an answer from it, or else the selection is  *)
(* to be performed.  An entry that has expired is erased.                      *)
Hits(c, query) ==
    LET key == CacheKey(pipeline, query)
    IN /\ config.enable_caching /\ query.enable_caching
       /\ Valid(key)
       /\ answer' = [answer EXCEPT ![c] =
              [offered |-> pipeline, query |-> query, computed |-> cache[key],
               cached |-> TRUE, age |-> now - cache[key].at, ttl |-> config.cache_ttl]]
       /\ UNCHANGED <<cache, task>>

Misses(c, query) ==
    LET key == CacheKey(pipeline, query)
        looks == config.enable_caching /\ query.enable_caching
    IN /\ looks => ~Valid(key)
       /\ cache' = IF looks THEN Without(key) ELSE cache
       /\ task' = [task EXCEPT ![c] = [does |-> "select", offered |-> pipeline, query |-> query]]
       /\ answer' = [answer EXCEPT ![c] = None]

SelectStages(c) ==
    /\ task[c] = None
    /\ pipeline # <<>>
    /\ \E query \in Chosen.queries : Hits(c, query) \/ Misses(c, query)
    /\ UNCHANGED <<engineVars, config, now>>

(* The rest of it.  The configuration is read again before the result is kept. *)
Selects(c) ==
    /\ task[c] # None /\ task[c].does = "select"
    /\ \E result \in Results(task[c].offered, task[c].query) :
          LET entry == [at |-> now, offered |-> task[c].offered, query |-> task[c].query,
                        result |-> result]
          IN /\ IF config.enable_caching /\ task[c].query.enable_caching /\ result.status = "SUCCESS"
                THEN CacheResult(CacheKey(task[c].offered, task[c].query), entry)
                ELSE UNCHANGED cache
             /\ answer' = [answer EXCEPT ![c] =
                    [offered |-> task[c].offered, query |-> task[c].query, computed |-> entry,
                     cached |-> FALSE, age |-> 0, ttl |-> config.cache_ttl]]
    /\ task' = [task EXCEPT ![c] = None]
    /\ UNCHANGED <<engineVars, config, now>>

(* enableCaching and setCacheTTL: getConfig, without the mutex, ...            *)
CopiesConfig(c) ==
    /\ task[c] = None
    /\ \E change \in Chosen.changes :
          task' = [task EXCEPT ![c] = [does |-> "configure", change |-> change, copy |-> config]]
    /\ UNCHANGED <<engineVars, config, cache, answer, now>>

(* ... and updateConfig with the changed copy.                                *)
UpdatesConfig(c) ==
    /\ task[c] # None /\ task[c].does = "configure"
    /\ config' = task[c].change @@ task[c].copy
    /\ task' = [task EXCEPT ![c] = None]
    /\ UNCHANGED <<engineVars, cache, answer, now>>

ClearCache(c) ==
    /\ task[c] = None
    /\ cache # <<>>
    /\ cache' = <<>>
    /\ UNCHANGED <<engineVars, config, task, answer, now>>

\* The application changes its pipeline between selections: a selection works
\* on a copy.  Answers are forgotten then.
ChangesPipeline ==
    /\ \A c \in Clients : task[c] = None
    /\ EngineNext
    /\ answer' = [c \in Clients |-> None]
    /\ UNCHANGED <<config, cache, task, now>>

Tick ==
    /\ now < Chosen.time
    /\ now' = now + 1
    /\ UNCHANGED <<engineVars, config, cache, task, answer>>

Init == EngineInit /\ SelectorInit

Next ==
    \/ ChangesPipeline
    \/ Tick
    \/ \E c \in Chosen.clients : \/ SelectStages(c)
                              \/ Selects(c)
                              \/ CopiesConfig(c)
                              \/ UpdatesConfig(c)
                              \/ ClearCache(c)

Spec == Init /\ [][Next]_vars
-----------------------------------------------------------------------------
Answered == {answer[c] : c \in {d \in Clients : answer[d] # None}}

(* A successful selection that validated the ids has no cycle, has what it     *)
(* depends on when that was asked for, lists in its chain exactly the stages    *)
(* that can run without what was left out, each after its dependencies, puts    *)
(* them in levels accordingly, and executes those same stages.  One refused for *)
(* its dependencies has a cycle.                                              *)
SelectionSound ==
    \A a \in Answered :
        LET q == a.computed.query
            all == a.computed.offered
            r == a.computed.result
        IN Distinct(all) =>
           /\ r.status = "SUCCESS" =>
                 LET selected == r.selected_stages
                 IN /\ Distinct(selected) /\ ~Cyclic(selected)
                    /\ ToSet(FilterStages(all, q.filters)) \subseteq ToSet(selected)
                    /\ q.include_dependencies =>
                          Ids(selected) = (Ids(FilterStages(all, q.filters))
                             \cup Below(all, Ids(FilterStages(all, q.filters)))) \cap Ids(all)
                    /\ Sorted(selected, r.dependency_chain, Grounded(selected))
                    /\ Layered(selected, r.execution_levels, Grounded(selected))
                    /\ ToSet(r.execution_order) = Grounded(selected)
           /\ r.status \in {"CIRCULAR_DEPENDENCY", "VALIDATION_FAILED"} => Cyclic(all)

(* An answer from the cache was computed for stages of the same names, at the   *)
(* same validation level and with the same wish for dependencies, less than a   *)
(* lifetime ago; and the cache never holds more than its limit.                *)
HitsAnswerTheKey ==
    /\ \A a \in Answered : a.cached =>
          /\ Len(a.offered) = Len(a.computed.offered)
          /\ \A i \in DOMAIN a.offered : a.offered[i].id = a.computed.offered[i].id
          /\ a.query.validation_level = a.computed.query.validation_level
          /\ a.query.include_dependencies = a.computed.query.include_dependencies
          /\ a.age < a.ttl
          /\ a.computed.result.status = "SUCCESS"
    /\ Cardinality(DOMAIN cache) <= config.max_cache_entries

(* Every answer is right: the computed ones for what was asked, the others      *)
(* because they are as good as computed.                                        *)
AnswersRight == SelectionSound /\ HitsAnswerTheKey
-----------------------------------------------------------------------------
(* Promises of the documentation and of tests that the code does not keep.    *)

(* docs/stage_selector.md:36 "Generate optimal execution sequences respecting  *)
(* dependencies"; tests/test_stage_selector.cpp:253 expects it of one pipeline. *)
(* The topological order is sorted by priority.                               *)
OrderRespectsDependencies ==
    \A a \in Answered :
        LET r == a.computed.result
        IN r.status = "SUCCESS" /\ Distinct(r.selected_stages) =>
              Sorted(r.selected_stages, r.execution_order, Grounded(r.selected_stages))

(* docs/stage_selector.md:250 "Cache selection results for identical            *)
(* configurations".  Neither the filters nor the dependencies are in the key.   *)
HitsAnswerTheQuestion ==
    \A a \in Answered : a.offered = a.computed.offered /\ a.query = a.computed.query

(* docs/stage_selector.md:102 "Generate optimized execution order and parallel  *)
(* groups" of what was selected.  A stage                                       *)
(* whose dependency was not selected is in no order and in no level.           *)
EverySelectedIsOrdered ==
    \A a \in Answered :
        LET r == a.computed.result
        IN r.status = "SUCCESS" => ToSet(r.execution_order) = Ids(r.selected_stages)

(* stage_selector.hpp, setCacheTTL and enableCaching: each sets one thing.  Of  *)
(* two that overlap the later write restores the other's old value.            *)
SettingsKept ==
    [][\A c \in Clients : UpdatesConfig(c) =>
          \A field \in DOMAIN config : config'[field] # config[field] =>
              field \in DOMAIN task[c].change]_vars
=============================================================================

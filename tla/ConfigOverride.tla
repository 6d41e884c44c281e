---------------------------- MODULE ConfigOverride ----------------------------
(***************************************************************************)
(* BBP::CLI::ConfigOverrideManager: command lines are parsed, validated    *)
(* and applied, by any number of threads.  Its parser has the options the  *)
(* constructor gave it and no other.                                       *)
(*                                                                         *)
(* The overrides have a lock and the statistics another: a call takes one  *)
(* after the other.  clearOverrides and removeOverride write statistics    *)
(* under the lock of the overrides, and updateStatistics counts overrides  *)
(* under that of the statistics; each is one step here.                    *)
(***************************************************************************)
EXTENDS CliArguments, FiniteSetsExt, SequencesExt

CONSTANTS
  Threads,       \* threads that call
  Tables,        \* the options of the parser, by long and by short name
  Lines,         \* command lines
  Paths,         \* paths of the configuration
  Internal,      \* those of them that begin with _
  Rule,          \* path -> the rule whose pattern it matches, or None
  Urls,          \* texts that begin as a URL does
  Outside,       \* overrides that are applied without a command line
  RecentSize,    \* paths recent_override_paths keeps
  CallbackAsks,  \* the event callback asks the manager for its overrides
  MaxRequests    \* bound: calls that change something

\* What is assumed of the constants.  The options are for paths of the configuration.
ASSUME ConfigOverrideAssumption ==
  /\ Internal \subseteq Paths /\ IsFiniteSet(Paths) /\ CallbackAsks \in BOOLEAN
  /\ RecentSize \in Nat /\ MaxRequests \in Nat /\ Lines \subseteq Seq(DOMAIN Shape)
  /\ \A table \in {Tables.by_long, Tables.by_short} :
       \A name \in DOMAIN table : table[name].path \in Paths

VARIABLES
  current,     \* current_overrides_
  statistics,  \* statistics_: total, active, counts by path, recent paths
  request,     \* thread -> [at, args, result]
  sources,     \* observer: path -> whether it came from a command line
  requests     \* observer: calls

overrideVars == <<current, statistics, request, sources, requests>>

NoRequest == [at |-> "idle", args |-> <<>>, result |-> Nothing]
NoStatistics == [total |-> 0, active |-> 0, counts |-> <<>>, recent |-> <<>>]

OverrideInit ==
  /\ current = <<>> /\ statistics = NoStatistics /\ sources = <<>>
  /\ request = [t \in Threads |-> NoRequest]
  /\ requests = 0

-----------------------------------------------------------------------------
(* The validator.                                                          *)

\* setupDefaultValidationRules.  An empty value is of no type.
Within == [threads |-> 1 .. 10000, timeout |-> 1 .. 86400, port |-> 1 .. 65535]
ObeysRule(path, value) ==
  CASE Rule[path] = None -> TRUE
    [] Rule[path] = "url" -> value.type = "STRING" /\ value.items[1] \in Urls
    [] OTHER -> value.type = "INTEGER" /\ value.number \in Within[Rule[path]]

Validated(overrides) == \A path \in DOMAIN overrides : ObeysRule(path, overrides[path])

-----------------------------------------------------------------------------
(* processCliArguments, its parts, and the calls that are one part.        *)

\* overrides_mutex_ is free: nobody waits for it with the lock in hand.
Free == \A t \in Threads : request[t].at # "waits for itself"

Counted == requests < MaxRequests /\ requests' = requests + 1

\* Fault: what is parsed is applied, and validated afterwards.
AppliesFirst(t) ==
  /\ request[t].at = "idle" /\ Counted
  /\ \E args \in Lines :
       LET result == Parse(Tables, args) IN
       request' = [request EXCEPT ![t] =
                     [at |-> IF result.status = "SUCCESS" THEN "applies" ELSE "returned",
                   args |-> args,
                   result |-> IF Validated(result.overrides) THEN result
                              ELSE [result EXCEPT !.status = "CONSTRAINT_VIOLATION"]]]
  /\ UNCHANGED <<current, statistics, sources>>

\* Parsing and validation touch nothing that another thread could change.
Processes(t) ==
  /\ request[t].at = "idle" /\ Counted
  /\ \E args \in Lines :
       LET result == Parse(Tables, args)
           fit == result.status = "SUCCESS" /\ result.overrides # <<>>
           valid == Validated(result.overrides)
       IN  request' = [request EXCEPT ![t] =
                      [at |-> IF fit /\ valid THEN "applies" ELSE "returned", args |-> args,
                       result |-> IF fit /\ ~valid
                                  THEN [result EXCEPT !.status = "CONSTRAINT_VIOLATION",
                                                      !.errors = @ + 1]
                                  ELSE result]]
  /\ UNCHANGED <<current, statistics, sources>>

\* What does not begin with _ is kept.
Applied(overrides) == {path \in DOMAIN overrides : path \notin Internal}
Merge(old, new, paths) ==
  [p \in DOMAIN old \cup paths |-> IF p \in paths THEN new[p] ELSE old[p]]

\* An event is sent for each override with the lock in hand.
Asks(overrides) == CallbackAsks /\ Applied(overrides) # {}

Applies(t) ==
  /\ request[t].at = "applies" /\ Free
  /\ LET overrides == request[t].result.overrides
         line == [p \in DOMAIN overrides |-> TRUE]
     IN  IF Asks(overrides)
         THEN \E path \in Applied(overrides) :
                /\ current' = Merge(current, overrides, {path})
                /\ sources' = Merge(sources, line, {path})
                /\ request' = [request EXCEPT ![t].at = "waits for itself"]
         ELSE /\ current' = Merge(current, overrides, Applied(overrides))
              /\ sources' = Merge(sources, line, Applied(overrides))
              /\ request' = [request EXCEPT ![t].at = "counts"]
  /\ UNCHANGED <<statistics, requests>>

\* Fault: the list of recent paths is not cut.
NeverCut(paths) == paths

\* recent_override_paths, when paths have been put behind it and for each that is too
\* many the first erased.
Recent(paths) ==
  IF Len(paths) > RecentSize THEN SubSeq(paths, Len(paths) - RecentSize + 1, Len(paths)) ELSE paths

\* updateStatistics: every override of the line is counted, the internal ones too.
CountedOnce(counts, paths) ==
  [p \in DOMAIN counts \cup paths |->
     (IF p \in DOMAIN counts THEN counts[p] ELSE 0) + (IF p \in paths THEN 1 ELSE 0)]

\* The map is iterated in some order.
Counts(t) ==
  /\ request[t].at = "counts"
  /\ LET paths == DOMAIN request[t].result.overrides IN
     \E order \in SetToSeqs(paths) :
       statistics' = [total |-> statistics.total + Cardinality(paths),
                      active |-> Cardinality(DOMAIN current),
                      counts |-> CountedOnce(statistics.counts, paths),
                      recent |-> Recent(statistics.recent \o order)]
  /\ request' = [request EXCEPT ![t].at = "returned"]
  /\ UNCHANGED <<current, sources, requests>>

RequestReturns(t) ==
  /\ request[t].at = "returned"
  /\ request' = [request EXCEPT ![t] = NoRequest]
  /\ UNCHANGED <<current, statistics, sources, requests>>

\* applyOverrides from outside: neither validated nor counted.
ApplyOverrides(t) ==
  /\ request[t].at = "idle" /\ Free /\ Counted
  /\ \E overrides \in Outside :
       LET line == [p \in DOMAIN overrides |-> FALSE]
           paths == Applied(overrides)
       IN  IF Asks(overrides)
           THEN \E path \in paths :
                  /\ current' = Merge(current, overrides, {path})
                  /\ sources' = Merge(sources, line, {path})
                  /\ request' = [request EXCEPT ![t].at = "waits for itself"]
           ELSE /\ current' = Merge(current, overrides, paths)
                /\ sources' = Merge(sources, line, paths)
                /\ UNCHANGED request
  /\ UNCHANGED statistics

RemoveOverride(t) ==
  /\ request[t].at = "idle" /\ Free /\ Counted
  /\ \E path \in DOMAIN current :
       /\ current' = [p \in DOMAIN current \ {path} |-> current[p]]
       /\ sources' = [p \in DOMAIN current \ {path} |-> sources[p]]
  /\ statistics' = [statistics EXCEPT !.active = Cardinality(DOMAIN current')]
  /\ UNCHANGED request

ClearOverrides(t) ==
  /\ request[t].at = "idle" /\ Free /\ Counted
  /\ current' = <<>> /\ sources' = <<>>
  /\ statistics' = [statistics EXCEPT !.active = 0, !.recent = <<>>]
  /\ UNCHANGED request

ResetStatistics(t) ==
  /\ request[t].at = "idle" /\ Counted
  /\ statistics' = NoStatistics
  /\ UNCHANGED <<current, request, sources>>

OverrideNext ==
  \E t \in Threads :
    \/ Processes(t) \/ Applies(t) \/ Counts(t) \/ RequestReturns(t)
    \/ ApplyOverrides(t) \/ RemoveOverride(t) \/ ClearOverrides(t) \/ ResetStatistics(t)

OverrideSpec == OverrideInit /\ [][OverrideNext]_overrideVars

-----------------------------------------------------------------------------
(* Properties.                                                             *)

\* No override in force came from a command line that was refused, by whichever thread it
\* was handed in and whatever the others did meanwhile, and none is internal.
RefusedLeaveNothing ==
  \A path \in DOMAIN current :
    /\ path \notin Internal
    /\ sources[path] => ObeysRule(path, current[path])

\* What the statistics say fits together although two locks guard them: the total is the sum
\* of the counts, and the recent paths are counted and no more than there is room for.
StatisticsAddUp ==
  /\ statistics.total = Cardinality(
       UNION {{p} \X (1 .. statistics.counts[p]) : p \in DOMAIN statistics.counts})
  /\ Len(statistics.recent) <= RecentSize
  /\ ToSet(statistics.recent) \subseteq DOMAIN statistics.counts

OverridesInForce == RefusedLeaveNothing /\ StatisticsAddUp

-----------------------------------------------------------------------------
(* What one might expect and the code does not do.                         *)

\* active_overrides is the number of overrides in force.
ActiveIsTrue ==
  (\A t \in Threads : request[t].at = "idle") => statistics.active = Cardinality(DOMAIN current)

\* An accepted command line sets no path to nothing.
NothingIsEmpty == \A path \in DOMAIN current : current[path].type # "none"

\* What is counted as applied has been.
CountedIsApplied == DOMAIN statistics.counts \cap Internal = {}
=============================================================================

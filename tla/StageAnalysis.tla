---------------------------- MODULE StageAnalysis -----------------------------
(* StageDependencyAnalyzer and StageExecutionPlanner: what they compute from  *)
(* a list of stages.  Where the code iterates a hash map, the order it gives   *)
(* is a parameter.                                                            *)
EXTENDS PipelineEngine, FiniteSetsExt

CONSTANTS
    Priority,       \* of a stage, by id
    Timeout         \* of a stage, by id: the only estimate of its duration
-----------------------------------------------------------------------------
(* StageDependencyAnalyzer.                                                  *)

\* reverse_dependency_graph_: also of stages that a later one of their name replaces.
GetDependents(stages, id) ==
    LET above == SelectSeq(stages, LAMBDA s : id \in ToSet(s.dependencies))
    IN [i \in DOMAIN above |-> above[i].id]

\* The depth-first walks of getTransitiveDependencies and getTransitiveDependents
\* along next: what a visited stage leads to is listed, the stage itself only
\* when something leads back to it.
RECURSIVE Walk(_, _, _)
Walk(next, id, walk) ==
    LET Follow(w, d) == Walk(next, d, [w EXCEPT !.result = @ \cup {d}])
    IN IF id \in walk.visited THEN walk
       ELSE FoldLeft(Follow, [walk EXCEPT !.visited = @ \cup {id}], next[id])

Unseen == [visited |-> {}, result |-> {}]

GetTransitiveDependencies(stages, id) ==
    Walk([n \in Nodes(stages) |-> DependenciesOf(Mapped(stages), n)], id, Unseen).result
GetTransitiveDependents(stages, id) ==
    Walk([n \in Nodes(stages) |-> GetDependents(stages, n)], id, Unseen).result

\* findCycles: every back edge closes one, the part of the path from its end.
RECURSIVE CycleDFS(_, _, _)
CycleDFS(stages, id, search) ==
    LET Follow(s, d) ==
            CASE s.colours[d] = 1 ->
                     [s EXCEPT !.cycles = @ \cup
                         {Append(SubSeq(s.path, CHOOSE i \in DOMAIN s.path : s.path[i] = d,
                                        Len(s.path)), d)}]
              [] s.colours[d] = 0 -> CycleDFS(stages, d, s)
              [] OTHER            -> s
        left == FoldLeft(Follow, [search EXCEPT !.colours[id] = 1, !.path = Append(@, id)],
                         DependenciesOf(stages, id))
    IN [left EXCEPT !.colours[id] = 2, !.path = Front(@)]

FindCycles(list, roots) ==
    LET stages == Mapped(list)
        Root(s, id) == IF s.colours[id] = 0 THEN CycleDFS(stages, id, s) ELSE s
    IN FoldLeft(Root, [colours |-> [id \in Nodes(stages) |-> 0], path |-> <<>>, cycles |-> {}],
                roots).cycles

\* topologicalSort: Kahn's algorithm.  The in-degree counts every dependency,
\* also one that is not in the list: a stage with such a dependency is never
\* released.
InDegree(stages) ==
    [id \in Ids(stages) |-> Len(DependenciesOf(Mapped(stages), id))]

RECURSIVE Kahn(_, _)
Kahn(stages, sort) ==
    LET current == Head(sort.queue)
        Release(s, id) ==
            [s EXCEPT !.degree[id] = @ - 1,
                      !.queue = IF s.degree[id] = 1 THEN Append(@, id) ELSE @]
    IN IF sort.queue = <<>> THEN sort.order
       ELSE Kahn(stages, FoldLeft(Release, [sort EXCEPT !.queue = Tail(@),
                                                        !.order = Append(@, current)],
                                  GetDependents(stages, current)))

\* The orders in which the stages without dependencies may be queued.
Starts(stages) == SetToSeqs({id \in Ids(stages) : InDegree(stages)[id] = 0})
TopologicalSort(stages, start) ==
    Kahn(stages, [queue |-> start, order |-> <<>>, degree |-> InDegree(stages)])

\* calculateDependencyDepths: one more than the deepest dependency; a stage
\* whose depth is still being calculated counts as 0.
RECURSIVE CalculateDepth(_, _, _)
CalculateDepth(stages, id, memo) ==
    LET Follow(m, d) ==
            LET below == CalculateDepth(stages, d, m)
            IN [below EXCEPT !.deepest = IF below.depths[d] + 1 > m.deepest
                                         THEN below.depths[d] + 1 ELSE m.deepest]
        left == FoldLeft(Follow, [memo EXCEPT !.visited = @ \cup {id}, !.deepest = 0],
                         DependenciesOf(stages, id))
    IN IF id \in memo.visited THEN memo
       ELSE [left EXCEPT !.depths[id] = left.deepest]

CalculateDependencyDepths(list, roots) ==
    LET stages == Mapped(list)
    IN FoldLeft(LAMBDA m, id : CalculateDepth(stages, id, m),
                [visited |-> {}, depths |-> [id \in Nodes(stages) |-> 0], deepest |-> 0],
                roots).depths

\* getCriticalPath from one of the deepest stages: down to the deepest dependency
\* each time.  A stage met again is met for ever.
Endless == <<>>
RECURSIVE PathDown(_, _, _)
PathDown(stages, depths, path) ==
    LET Deeper(best, d) == IF depths[d] > depths[best] THEN d ELSE best
        below == DependenciesOf(stages, Last(path))
        next == FoldLeft(Deeper, Head(below), below)
    IN CASE below = <<>>            -> Reverse(path)
         [] next \in ToSet(path)    -> Endless
         [] OTHER                   -> PathDown(stages, depths, Append(path, next))

GetCriticalPaths(list, roots) ==
    LET depths == CalculateDependencyDepths(list, roots)
        deepest == {id \in DOMAIN depths : \A d \in DOMAIN depths : depths[d] <= depths[id]}
    IN {PathDown(Mapped(list), depths, <<id>>) : id \in deepest}
-----------------------------------------------------------------------------
(* StageExecutionPlanner.                                                    *)

\* optimizeExecutionOrder: a stable sort of the topological order.
Sooner(a, b) ==
    \/ Priority[a] > Priority[b]
    \/ Priority[a] = Priority[b] /\ Timeout[a] < Timeout[b]

OptimizeExecutionOrder(stages, start) ==
    LET Insert(o, id) ==
            LET place == SelectInSeq(o, LAMBDA later : Sooner(id, later))
            IN IF place = 0 THEN Append(o, id) ELSE InsertAt(o, place, id)
    IN FoldLeft(Insert, <<>>, TopologicalSort(stages, start))

\* Fault: only the first dependency counts.
LevelOfFirst(stages, levels, id) ==
    LET below == DependenciesOf(stages, id)
    IN IF below # <<>> /\ Head(below) \in DOMAIN levels THEN 1 + levels[Head(below)] ELSE 1

\* identifyParallelGroups: by level, one more than the highest of the
\* dependencies that are in the list.
Level(stages, levels, id) ==
    1 + Max({0} \cup {levels[d] : d \in Direct(stages, {id}) \cap DOMAIN levels})

IdentifyParallelGroups(stages, start) ==
    LET Place(levels, id) ==
            [i \in DOMAIN levels \cup {id} |->
                IF i = id THEN Level(stages, levels, id) ELSE levels[i]]
        placed == FoldLeft(Place, <<>>, TopologicalSort(stages, start))
        height == Max({0} \cup {placed[id] : id \in DOMAIN placed})
    IN [k \in 1..height |-> {id \in DOMAIN placed : placed[id] = k}]

EstimateParallelTime(stages, path) ==
    FoldLeft(LAMBDA total, id : total + IF id \in Ids(stages) THEN Timeout[id] ELSE 0, 0, path)

\* createPlan, and its is_valid (validatePlan).
CreatePlan(stages, start, path) ==
    LET order == TopologicalSort(stages, start)
    IN [execution_order |-> order,
        parallel_groups |-> IdentifyParallelGroups(stages, start),
        critical_path |-> path,
        estimated_parallel_time |-> EstimateParallelTime(stages, path),
        is_valid |-> stages # <<>> /\ order # <<>> /\ Len(order) = Len(stages)]

Plans(stages) ==
    UNION {{CreatePlan(stages, start, path) : path \in GetCriticalPaths(stages, roots)} :
              start \in Starts(stages), roots \in SetToSeqs(Ids(stages))}
-----------------------------------------------------------------------------
(* Groups of stages, each stage of which has what it depends on in earlier    *)
(* groups, and the group before it for a reason.                              *)
Layered(stages, groups, ids) ==
    /\ UNION Range(groups) = ids
    /\ \A i, j \in DOMAIN groups : i # j => groups[i] \cap groups[j] = {}
    /\ \A i \in DOMAIN groups : \A id \in groups[i] :
          LET below == Direct(stages, {id}) \cap ids
          IN /\ below \subseteq UNION {groups[j] : j \in 1..(i - 1)}
             /\ i > 1 => below \cap groups[i - 1] # {}

(* What is below and above a stage is found, also on cycles.  A plan is valid  *)
(* exactly when every stage can run; then its order and its groups respect the *)
(* dependencies, and its critical path is a chain of dependencies with one      *)
(* stage of each group, so that no chain is longer.                            *)
AnalysisTrue ==
    Distinct(pipeline) /\ pipeline # <<>> =>
        /\ \A id \in Ids(pipeline) :
              /\ GetTransitiveDependencies(pipeline, id) = Below(pipeline, {id})
              /\ GetTransitiveDependents(pipeline, id)
                    = {above \in Ids(pipeline) : id \in Below(pipeline, {above})}
        /\ \A plan \in Plans(pipeline) :
            /\ plan.is_valid = (Grounded(pipeline) = Ids(pipeline))
            /\ Layered(pipeline, plan.parallel_groups, Grounded(pipeline))
            /\ plan.is_valid =>
                  /\ Sorted(pipeline, plan.execution_order, Ids(pipeline))
                  /\ Len(plan.critical_path) = Len(plan.parallel_groups)
                  /\ \A i \in DOMAIN plan.critical_path :
                        plan.critical_path[i] \in plan.parallel_groups[i]
                  /\ \A i \in 1..(Len(plan.critical_path) - 1) :
                        plan.critical_path[i] \in Direct(pipeline, {plan.critical_path[i + 1]})
-----------------------------------------------------------------------------
(* Promises of the documentation and of comments that the code does not keep. *)

(* A plan is made, whatever the stages: docs/stage_selector.md has no          *)
(* condition on them.  The critical path of a cycle is followed for ever.      *)
PlanIsMade == pipeline # <<>> => \A plan \in Plans(pipeline) : plan.critical_path # Endless

(* stage_selector.cpp, estimateTotalExecutionTime: "Parallel execution time    *)
(* (critical path)".  The path with most stages need not be the one that takes *)
(* longest: one stage alone may take longer than it.                           *)
EstimateIsEnough ==
    \A plan \in Plans(pipeline) : Distinct(pipeline) /\ plan.is_valid =>
        \A id \in Ids(pipeline) : Timeout[id] <= plan.estimated_parallel_time
=============================================================================

---------------------------- MODULE PipelineEngine ----------------------------
(* The stages of a pipeline, as an application builds them with              *)
(* PipelineEngine, and what PipelineEngine and PipelineDependencyResolver     *)
(* say about their dependencies.  A pipeline is a list: nothing stops it from *)
(* naming a stage twice, or a dependency that is no stage.                    *)
EXTENDS Integers, FiniteSets, SequencesExt, PlacesInOrder

CONSTANTS
    Applications    \* what applications may do, by name: a record whose "stages"
                    \* are the stages it adds and "size" how many it has at most

VARIABLES
    application,    \* the name of the application
    pipeline        \* pipelines_[pipeline_id]: a sequence of stages

engineVars == <<application, pipeline>>

Chosen == Applications[application]

\* A stage has a name, whatever it is, and a list of names.
ASSUME EngineAssumption ==
    \A a \in DOMAIN Applications : \A s \in Applications[a].stages :
        s.dependencies \in Seq(ToSet(s.dependencies))
-----------------------------------------------------------------------------
(* Lists of stages, and what is true of their dependencies: the reference    *)
(* the algorithms of the code are compared with.                             *)

Ids(stages) == {stages[i].id : i \in DOMAIN stages}
Nodes(stages) == Ids(stages) \cup UNION {ToSet(stages[i].dependencies) : i \in DOMAIN stages}
Distinct(stages) == \A i, j \in DOMAIN stages : stages[i].id = stages[j].id => i = j

\* std::find_if by id: the first of that name.
Named(stages, id) ==
    CHOOSE i \in DOMAIN stages : /\ stages[i].id = id
                                 /\ \A j \in 1..(i - 1) : stages[j].id # id
DependenciesOf(stages, id) ==
    IF id \in Ids(stages) THEN stages[Named(stages, id)].dependencies ELSE <<>>

Direct(stages, ids) == UNION {ToSet(DependenciesOf(stages, id)) : id \in ids}

\* Everything ids depend on, directly or not.
Below(stages, ids) ==
    LET bound == Cardinality(Nodes(stages))
        step[n \in 0..bound] ==
            IF n = 0 THEN Direct(stages, ids)
            ELSE LET reached == step[n - 1] IN reached \cup Direct(stages, reached)
    IN step[bound]

OnCycle(stages, id) == id \in Below(stages, {id})
Cyclic(stages) == \E id \in Ids(stages) : OnCycle(stages, id)
Complete(stages) == Direct(stages, Ids(stages)) \subseteq Ids(stages)

\* The stages that can ever run: nothing below them is missing or on a cycle.
Grounded(stages) ==
    {id \in Ids(stages) : \A d \in {id} \cup Below(stages, {id}) :
                             d \in Ids(stages) /\ ~OnCycle(stages, d)}

\* order lists exactly ids, each once and after everything it depends on.
Sorted(stages, order, ids) ==
    /\ IsInjective(order) /\ ToSet(order) = ids
    /\ \A i \in DOMAIN order :
          ToSet(DependenciesOf(stages, order[i])) \subseteq {order[j] : j \in 1..(i - 1)}
-----------------------------------------------------------------------------
(* PipelineEngine.                                                           *)

\* Fault: a stage is placed although only its first dependency has been.
PlaceAfterFirst(order, s) ==
    IF s.id \in ToSet(order)
          \/ (s.dependencies # <<>> /\ Head(s.dependencies) \notin ToSet(order))
    THEN order ELSE Append(order, s.id)

\* A turn of the for loop of getExecutionOrder: processed is what is in the result.
PlaceStage(order, s) ==
    IF s.id \in ToSet(order) \/ ~(ToSet(s.dependencies) \subseteq ToSet(order))
    THEN order ELSE Append(order, s.id)

\* The for loop: one pass of the while loop.
Pass(stages, order) ==
    LET placed[k \in 0..Len(stages)] ==
            IF k = 0 THEN order ELSE PlaceStage(placed[k - 1], stages[k])
    IN placed[Len(stages)]

\* The while loop ends with a pass that adds nothing; a further one adds nothing
\* either, so as many passes as there are stages are as good.
GetExecutionOrder(stages) ==
    LET order[n \in 0..Len(stages)] ==
            IF n = 0 THEN <<>> ELSE Pass(stages, order[n - 1])
    IN order[Len(stages)]
-----------------------------------------------------------------------------
(* The depth-first searches, call by call and turn by turn: path is the stack *)
(* of the calls, at how far the loop of a stage over its dependencies has come. *)

NothingVisited(stages) ==
    [visited |-> {}, rec_stack |-> {}, path |-> <<>>, at |-> [id \in Nodes(stages) |-> 0],
     found |-> FALSE]

\* A call.
Enter(search, id) ==
    [search EXCEPT !.visited = @ \cup {id}, !.rec_stack = @ \cup {id}, !.path = Append(@, id)]

\* Fault: the stage stays on the stack, as if a second way to it were a cycle.
LeaveOnStack(search, id, cleared) == [search EXCEPT !.path = Front(@)]

\* The end of a call that found nothing; cleared are the nodes that leave rec_stack.
Leave(search, id, cleared) ==
    [search EXCEPT !.rec_stack = @ \ ({id} \cap cleared), !.path = Front(@)]

\* What the last call does next.
Turn(stages, cleared, search) ==
    LET id == Last(search.path)
        looks == [search EXCEPT !.at[id] = @ + 1]
        dep == DependenciesOf(stages, id)[looks.at[id]]
    IN IF search.at[id] = Len(DependenciesOf(stages, id)) THEN Leave(looks, id, cleared)
       ELSE IF dep \notin search.visited THEN Enter(looks, dep)
       ELSE IF dep \in search.rec_stack
            THEN [looks EXCEPT !.found = TRUE, !.path = Append(@, dep)]
       ELSE looks

\* Every turn is another one of another stage.
Turns(stages) ==
    UNION {{id} \X (0..Len(DependenciesOf(stages, id))) : id \in Nodes(stages)}

Search(stages, cleared, search, id) ==
    LET bound == Cardinality(Turns(stages))
        turn[n \in 0..bound] ==
            IF n = 0 THEN Enter(search, id)
            ELSE LET s == turn[n - 1]
                 IN IF s.found \/ s.path = <<>> THEN s ELSE Turn(stages, cleared, s)
    IN turn[bound]

\* findCycleDFS, and hasCycleDFS, which has no path: a missing stage leaves the path,
\* but stays in rec_stack.
FindCycleDFS(stages, search, id) == Search(stages, Ids(stages), search, id)

FromRoot(stages, root) == FindCycleDFS(stages, NothingVisited(stages), root)

ValidateDependencies(stages) == \A id \in Ids(stages) : ~FromRoot(stages, id).found

DetectCircularDependencies(stages) ==
    LET Finds(i) == FromRoot(stages, stages[i].id).found
        first == CHOOSE i \in DOMAIN stages : Finds(i) /\ \A j \in 1..(i - 1) : ~Finds(j)
    IN IF ValidateDependencies(stages) THEN <<>> ELSE FromRoot(stages, stages[first].id).path

\* detectCircularDependencyDFS of PipelineDependencyResolver and hasCycleDFS of
\* StageDependencyAnalyzer: white is not visited, grey is in rec_stack, black is
\* neither, and every node is black in the end.
ColourDFS(stages, search, id) == Search(stages, Nodes(stages), search, id)

\* The map of stages by id: the last of that name.
Mapped(list) ==
    LET last == Places({i \in DOMAIN list :
                          \A j \in DOMAIN list : list[j].id = list[i].id => j <= i}, Len(list))
    IN [k \in DOMAIN last |-> list[last[k]]]

\* hasCircularDependency, hasCycle; roots is the order in which the hash map
\* gives the stages.
HasCircularDependency(list, roots) ==
    LET stages == Mapped(list)
        after[k \in 0..Len(roots)] ==
            IF k = 0 THEN NothingVisited(stages)
            ELSE LET s == after[k - 1]
                 IN IF s.found \/ roots[k] \in s.visited THEN s
                    ELSE ColourDFS(stages, s, roots[k])
    IN after[Len(roots)].found
-----------------------------------------------------------------------------
(* The operations that change the pipeline.                                  *)

EngineInit == application \in DOMAIN Applications /\ pipeline = <<>>

AddStage ==
    /\ Len(pipeline) < Chosen.size
    /\ \E s \in Chosen.stages : pipeline' = Append(pipeline, s)
    /\ UNCHANGED application

RemoveStage ==
    /\ \E id \in Ids(pipeline) : pipeline' = RemoveAt(pipeline, Named(pipeline, id))
    /\ UNCHANGED application

UpdateStage ==
    /\ \E s \in Chosen.stages :
          /\ s.id \in Ids(pipeline)
          /\ pipeline' = [pipeline EXCEPT ![Named(pipeline, s.id)] = s]
    /\ UNCHANGED application

EngineNext == AddStage \/ RemoveStage \/ UpdateStage

EngineSpec == EngineInit /\ [][EngineNext]_engineVars
-----------------------------------------------------------------------------
(* getExecutionOrder lists every stage that can run and no other, each once  *)
(* and after what it depends on: an application that executes the list never *)
(* starts a stage too early, and a stage left out is really impossible.      *)
OrderIsExact ==
    Distinct(pipeline) => Sorted(pipeline, GetExecutionOrder(pipeline), Grounded(pipeline))

\* A path that detectCircularDependencies may answer: it follows dependencies
\* and ends where it has been before.
LeadsIntoCycle(path) ==
    /\ Len(path) > 1
    /\ \A i \in 1..(Len(path) - 1) : path[i + 1] \in Direct(pipeline, {path[i]})
    /\ Last(path) \in ToSet(Front(path))

(* Every cycle is found, by the engine and by the resolver, in whatever order *)
(* the hash map is iterated; the resolver reports nothing else, and neither   *)
(* does the engine when every dependency is a stage: then the path it returns *)
(* does lead into a cycle.                                                    *)
CyclesReported ==
    Distinct(pipeline) =>
        /\ \A roots \in SetToSeqs(Ids(pipeline)) :
              HasCircularDependency(pipeline, roots) = Cyclic(pipeline)
        /\ Cyclic(pipeline) => ~ValidateDependencies(pipeline)
        /\ Complete(pipeline) =>
              /\ ValidateDependencies(pipeline) = ~Cyclic(pipeline)
              /\ Cyclic(pipeline) => LeadsIntoCycle(DetectCircularDependencies(pipeline))

(* Either way the engine is right about its stages: what can run is ordered,    *)
(* and what cannot is reported.                                                 *)
OrderedOrReported == OrderIsExact /\ CyclesReported
-----------------------------------------------------------------------------
(* Promises of the documentation and of comments that the code does not keep. *)

(* pipeline_engine.cpp, detectCircularDependencies: "Find cycle and return the *)
(* stages in the cycle".  The path also has the stages that lead to it.       *)
OnlyTheCycle ==
    Distinct(pipeline) /\ Complete(pipeline) =>
        \A id \in ToSet(DetectCircularDependencies(pipeline)) : OnCycle(pipeline, id)

(* pipeline_engine.cpp, validateDependencies: "check if any stage depends     *)
(* transitively on itself".  Two stages that miss the same dependency are     *)
(* enough, because a missing stage stays in rec_stack.                        *)
OnlyCyclesRefused ==
    Distinct(pipeline) /\ ~ValidateDependencies(pipeline) => Cyclic(pipeline)
=============================================================================

------------------------- MODULE ConfigurationProofs -------------------------
(***************************************************************************)
(* OneWatcher and ValuesAreKept of ConfigManager, for any callers,         *)
(* watchers, files and documents.  OneWatcher is not inductive: a method   *)
(* that joins the watcher must find it where it left it, which the lock it *)
(* holds sees to, and a load that lets the lock go must be the one that    *)
(* holds it.                                                               *)
(*                                                                         *)
(* NamesAndLines of CliOptions, for any options and lines.  The loops that *)
(* parse a line, add options and take one off the list are recursive       *)
(* functions: that they exist, and what they come to, is shown by looking  *)
(* at the least turn at which it would be wrong.                           *)
(*                                                                         *)
(* OverridesInForce of ConfigOverride, for any threads, lines and options. *)
(* It is not inductive: what is about to be applied must have been         *)
(* validated, and what is about to be counted is for paths the parser's    *)
(* options have.                                                           *)
(***************************************************************************)
EXTENDS ConfigManager, CliOptions, ConfigOverride, FiniteSetTheorems, WellFoundedInduction, TLAPS

USE DEF data, watch, vars

AllThreads == Callers \cup Watchers
ThreadPlaces ==
  {"idle", "enters", "stamps", "spins", "waits for itself", "joins", "absent", "tests", "sleeps",
   "loads", "calls back", "ended"}

Placed == pc \in [AllThreads -> ThreadPlaces] /\ watcher_thread_ \in Watchers \cup {Nobody}

\* A load between its steps and a method that joins have the lock.
Locked == \A t \in AllThreads : pc[t] \in {"joins", "stamps"} => mutex_ = t

\* There is something to join.
Joinable == \A t \in Callers : pc[t] = "joins" => watcher_thread_ # Nobody

IInv == Placed /\ Locked /\ Joinable /\ OneWatcher

-----------------------------------------------------------------------------

\* A step of one thread that neither starts nor joins a watcher.
Calm(t, p) ==
  /\ pc' = [pc EXCEPT ![t] = p]
  /\ pc[t] # "absent"
  /\ UNCHANGED <<watching_enabled_, watcher_thread_>>
  /\ mutex_ \in {Nobody, t} \/ UNCHANGED mutex_
  /\ p = "stamps" => mutex_' = t

LEMMA CalmStep ==
  ASSUME IInv, NEW t \in AllThreads, NEW p \in ThreadPlaces \ {"absent", "joins"}, Calm(t, p)
  PROVE  IInv'
<1> USE ConfigManagerAssumption DEF IInv, Placed, AllThreads, Calm
<1>1. Placed'
  OBVIOUS
<1>2. Locked'
  BY DEF Locked
<1>3. Joinable'
  BY DEF Joinable
<1>4. OneWatcher'
  BY DEF OneWatcher
<1>5. QED
  BY <1>1, <1>2, <1>3, <1>4

\* The end of a method that has stopped the watcher, or found none.
LEMMA AfterJoinStep ==
  ASSUME IInv, NEW t \in Callers, NEW method, NEW file,
         NEW without \in [AllThreads -> ThreadPlaces],
         \A w \in Watchers : without[w] = "absent",
         \A x \in AllThreads : without[x] \in {"joins", "stamps"} => x = t,
         AfterJoin(t, method, file, without)
  PROVE  IInv'
<1> USE ConfigManagerAssumption DEF IInv, Placed, AllThreads, AfterJoin, StartsWatcher
<1>1. CASE method = "enableWatching"
  <2>1. PICK w \in Watchers :
          watcher_thread_' = w /\ pc' = [without EXCEPT ![t] = "idle", ![w] = "tests"]
    BY <1>1
  <2>2. watching_enabled_' = TRUE
    BY <1>1
  <2>3. Placed' /\ Joinable' /\ Locked'
    BY <2>1, ZenonT(30) DEF Joinable, Locked, ThreadPlaces
  <2>4. OneWatcher'
    BY <2>1, <2>2 DEF OneWatcher
  <2>5. QED
    BY <2>3, <2>4
<1>2. CASE method # "enableWatching"
  <2>1. pc' = [without EXCEPT ![t] = "idle"] /\ watcher_thread_' = Nobody
    BY <1>2
  <2>2. Placed' /\ Joinable' /\ Locked' /\ OneWatcher'
    BY <2>1 DEF Joinable, Locked, OneWatcher, ThreadPlaces
  <2>3. QED
    BY <2>2
<1>3. QED
  BY <1>1, <1>2

-----------------------------------------------------------------------------

LEMMA LoadStep ==
  ASSUME IInv, NEW t \in AllThreads, pc[t] # "absent", NEW file,
         NEW refused \in {"idle", "tests"}, LoadReads(t, file, refused, "stamps")
  PROVE  IInv'
<1>1. PICK p \in {refused, "spins", "stamps"} :
        pc' = [pc EXCEPT ![t] = p] /\ (p = "stamps" => mutex_' = t)
  BY DEF LoadReads
<1>2. Calm(t, p)
  BY <1>1 DEF LoadReads, Calm
<1>3. p \in ThreadPlaces \ {"absent", "joins"}
  BY DEF ThreadPlaces
<1>4. QED
  BY <1>2, <1>3, CalmStep

\* Every method that is one step.
LEMMA MethodStep ==
  ASSUME IInv, NEW t \in Callers,
         \/ LoadFromString(t) \/ SaveToFile(t) \/ Set(t) \/ RemoveKey(t) \/ SetSection(t)
         \/ AddTemplate(t) \/ ApplyTemplate(t) \/ AddValidationRules(t) \/ SetReloadCallback(t)
         \/ WaitsForItself(t) \/ LooksOnly(t)
  PROVE  IInv'
<1>1. pc[t] = "enters" /\ mutex_ = Nobody
  BY DEF LoadFromString, SaveToFile, Set, RemoveKey, SetSection, AddTemplate, ApplyTemplate,
     AddValidationRules, SetReloadCallback, WaitsForItself, LocksAgain, LooksOnly, ReadsOnly, Enters
<1>2. UNCHANGED <<watching_enabled_, watcher_thread_>>
  BY DEF LoadFromString, SaveToFile, Set, RemoveKey, SetSection, AddTemplate, ApplyTemplate,
     AddValidationRules, SetReloadCallback, WaitsForItself, LooksOnly, Leaves
<1>3. PICK p \in {"idle", "spins", "waits for itself"} : pc' = [pc EXCEPT ![t] = p]
  BY DEF LoadFromString, SaveToFile, Set, RemoveKey, SetSection, AddTemplate, ApplyTemplate,
     AddValidationRules, SetReloadCallback, WaitsForItself, LooksOnly, Leaves
<1>4. QED
  BY <1>1, <1>2, <1>3, CalmStep DEF Calm, ThreadPlaces, AllThreads

LEMMA ChangesWatchingStep ==
  ASSUME IInv, NEW t \in Callers, ChangesWatching(t)
  PROVE  IInv'
<1> USE ConfigManagerAssumption DEF IInv, Placed, AllThreads
<1>1. PICK method \in {"enableWatching", "disableWatching", "reset"} :
        /\ Enters(t, method)
        /\ IF StopsFirst(method)
           THEN mutex_' = t /\ pc' = [pc EXCEPT ![t] = "joins"]
                /\ UNCHANGED <<watching_enabled_, watcher_thread_>>
           ELSE AfterJoin(t, method, call[t].file, pc)
  BY DEF ChangesWatching
<1>2. mutex_ = Nobody /\ pc[t] = "enters" /\ \A x \in AllThreads : pc[x] \notin {"joins", "stamps"}
  BY <1>1 DEF Enters, Locked
<1>3. CASE StopsFirst(method)
  <2>1. watcher_thread_ # Nobody
    BY <1>3 DEF StopsFirst
  <2>2. QED
    BY <1>1, <1>2, <1>3, <2>1 DEF Locked, Joinable, OneWatcher, ThreadPlaces
<1>4. CASE ~StopsFirst(method)
  <2>1. watcher_thread_ = Nobody
    BY <1>4 DEF StopsFirst, OneWatcher
  <2>2. \A w \in Watchers : pc[w] = "absent"
    BY <2>1 DEF OneWatcher
  <2>3. QED
    BY <1>1, <1>2, <1>4, <2>2, AfterJoinStep
<1>5. QED
  BY <1>3, <1>4

LEMMA JoinsStep ==
  ASSUME IInv, NEW t \in Callers, Joins(t)
  PROVE  IInv'
<1> USE ConfigManagerAssumption DEF IInv, Placed, AllThreads
<1> DEFINE without == [pc EXCEPT ![watcher_thread_] = "absent"]
<1>1. pc[t] = "joins" /\ AfterJoin(t, call[t].method, call[t].file, without)
  BY DEF Joins
<1>2. watcher_thread_ \in Watchers /\ mutex_ = t
  BY <1>1 DEF Joinable, Locked
<1>3. without \in [AllThreads -> ThreadPlaces]
  BY DEF ThreadPlaces
<1>4. \A w \in Watchers : without[w] = "absent"
  BY <1>2 DEF OneWatcher
<1>5. \A x \in AllThreads : without[x] \in {"joins", "stamps"} => x = t
  BY <1>2 DEF Locked
<1>6. QED
  BY <1>1, <1>3, <1>4, <1>5, AfterJoinStep

LEMMA WatchesStep ==
  ASSUME IInv, NEW w \in Watchers, Watches(w)
  PROVE  IInv'
<1> USE DEF At, Goes, Calm, AllThreads
<1>1. CASE Tests(w)
  <2>1. PICK p \in {"ended", "sleeps"} : Calm(w, p)
    BY <1>1 DEF Tests
  <2>2. QED
    BY <2>1, CalmStep DEF ThreadPlaces
<1>2. CASE Looks(w)
  <2>1. PICK p \in {"loads", "tests"} : Calm(w, p)
    BY <1>2 DEF Looks
  <2>2. QED
    BY <2>1, CalmStep DEF ThreadPlaces
<1>3. CASE CallsBack(w)
  <2>1. Calm(w, "tests")
    BY <1>3 DEF CallsBack
  <2>2. QED
    BY <2>1, CalmStep DEF ThreadPlaces
<1>4. CASE pc[w] = "loads" /\ LoadReads(w, watched_file_, "tests", "stamps")
  BY <1>4, LoadStep
<1>5. CASE pc[w] = "stamps" /\ LoadStamps(w, watched_file_, "calls back")
  <2>1. Calm(w, "calls back")
    BY <1>5 DEF LoadStamps, IInv, Locked
  <2>2. QED
    BY <2>1, CalmStep DEF ThreadPlaces
<1>6. QED
  BY <1>1, <1>2, <1>3, <1>4, <1>5 DEF Watches, Reloads

-----------------------------------------------------------------------------

LEMMA IInvInit == Init => IInv
BY ConfigManagerAssumption
   DEF Init, IInv, Placed, Locked, Joinable, OneWatcher, AllThreads, ThreadPlaces

LEMMA IInvStep == IInv /\ [Next]_vars => IInv'
<1> SUFFICES ASSUME IInv, [Next]_vars PROVE IInv'
  OBVIOUS
<1>1. ASSUME UNCHANGED <<mutex_, watch, pc>> PROVE IInv'
  BY <1>1 DEF IInv, Placed, Locked, Joinable, OneWatcher
<1>2. CASE Edit \/ UNCHANGED vars
  BY <1>1, <1>2 DEF Edit
<1>3. ASSUME NEW t \in Callers, NEW method, NEW file, Calls(t, method, file) PROVE IInv'
  <2>1. Calm(t, "enters")
    BY <1>3 DEF Calls, Calm
  <2>2. QED
    BY <2>1, CalmStep DEF ThreadPlaces, AllThreads
<1>4. ASSUME NEW t \in Callers, LoadFromFile(t) PROVE IInv'
  <2>1. CASE pc[t] = "enters" /\ LoadReads(t, call[t].file, "idle", "stamps")
    BY <2>1, LoadStep DEF AllThreads
  <2>2. CASE pc[t] = "stamps" /\ LoadStamps(t, call[t].file, "idle")
    <3>1. Calm(t, "idle")
      BY <2>2 DEF LoadStamps, Calm, IInv, Locked, AllThreads
    <3>2. QED
      BY <3>1, CalmStep DEF ThreadPlaces, AllThreads
  <2>3. QED
    BY <1>4, <2>1, <2>2 DEF LoadFromFile
<1>5. QED
  BY <1>2, <1>3, <1>4, MethodStep, ChangesWatchingStep, JoinsStep, WatchesStep DEF Next, Returns

\* Whatever methods are called by how many threads, whatever the watched file
\* says and whatever the callback of a reload does: the thread that runs the
\* watcher is the one watcher_thread_ is the handle of, so that startWatcher
\* never assigns to a handle that can still be joined.
THEOREM OneWatcherRuns == Spec => []OneWatcher
<1>1. IInv => OneWatcher
  BY DEF IInv
<1>2. QED
  BY IInvInit, IInvStep, <1>1, PTL DEF Spec
-----------------------------------------------------------------------------
(* What a step does to the values that are set.                            *)

\* A value that is set wins over the template's.
LEMMA TemplateKeeps ==
  ASSUME NEW section, NEW key \in DOMAIN section
  PROVE  /\ key \in DOMAIN Merged(section, templates_, FALSE)
         /\ Merged(section, templates_, FALSE)[key] = section[key]
BY DEF Merged

LEMMA NothingLost == Keeps(sections_, sections_)
BY DEF Keeps

\* Some thread does what is meant to change values.
Changes == \E t \in AllThreads : pc'[t] # pc[t] /\ Replaces(t)

LEMMA LoadKeeps ==
  ASSUME IInv, NEW t \in AllThreads, NEW file, NEW refused \in {"idle", "tests"},
         LoadReads(t, file, refused, "stamps"), pc[t] \in {"enters", "loads"}
  PROVE  \/ UNCHANGED sections_
         \/ pc'[t] # pc[t] /\ disk[file].says \notin {Missing, Unparsable}
<1>1. CASE ~Exists(file) \/ disk[file].says = Unparsable
  BY <1>1 DEF LoadReads
<1>2. CASE Exists(file) /\ disk[file].says # Unparsable
  <2>1. pc' = [pc EXCEPT ![t] = CASE Outcome(disk[file].says) = "refused" -> refused
                                  [] Outcome(disk[file].says) = "spins" -> "spins"
                                  [] OTHER -> "stamps"]
    BY <1>2 DEF LoadReads
  <2>2. pc'[t] # pc[t]
    BY <2>1 DEF IInv, Placed
  <2>3. QED
    BY <1>2, <2>2 DEF Exists
<1>3. QED
  BY <1>1, <1>2

LEMMA MethodKeeps ==
  ASSUME IInv, NEW t \in Callers, Returns(t)
  PROVE  Changes \/ Keeps(sections_, sections_')
<1> USE DEF AllThreads
<1>1. ASSUME UNCHANGED sections_ PROVE Keeps(sections_, sections_')
  BY <1>1, NothingLost
<1>2. ASSUME pc[t] = "enters", pc'[t] # "enters",
             call[t].method \in {"set", "remove", "setSection", "loadFromString", "reset"}
      PROVE  Changes
  BY <1>2 DEF Changes, Replaces
<1>3. CASE LoadFromFile(t)
  <2>1. CASE pc[t] = "enters" /\ call[t].method = "loadFromFile"
             /\ LoadReads(t, call[t].file, "idle", "stamps")
    BY <1>1, <2>1, LoadKeeps DEF Changes, Replaces
  <2>2. CASE LoadStamps(t, call[t].file, "idle")
    BY <1>1, <2>2 DEF LoadStamps
  <2>3. QED
    BY <1>3, <2>1, <2>2 DEF LoadFromFile
<1>4. CASE LoadFromString(t)
  <2>1. PICK p \in {"idle", "spins"} : pc' = [pc EXCEPT ![t] = p]
    BY <1>4 DEF LoadFromString, Leaves
  <2>2. pc'[t] # "enters"
    BY <2>1 DEF IInv, Placed
  <2>3. QED
    BY <1>2, <1>4, <2>2 DEF LoadFromString, Enters
<1>5. CASE Set(t) \/ RemoveKey(t) \/ SetSection(t)
  <2>1. pc' = [pc EXCEPT ![t] = "idle"]
    BY <1>5 DEF Set, RemoveKey, SetSection, Leaves
  <2>2. pc'[t] # "enters"
    BY <2>1 DEF IInv, Placed
  <2>3. QED
    BY <1>2, <1>5, <2>2 DEF Set, RemoveKey, SetSection, Enters
<1>6. CASE ApplyTemplate(t)
  <2>1. sections_' = [name \in DOMAIN sections_ |-> Merged(sections_[name], templates_, FALSE)]
    BY <1>6 DEF ApplyTemplate
  <2>2. QED
    BY <2>1, TemplateKeeps DEF Keeps
<1>7. CASE ChangesWatching(t)
  <2>1. PICK method \in {"enableWatching", "disableWatching", "reset"} :
          /\ Enters(t, method)
          /\ method # "reset" => UNCHANGED sections_
          /\ IF StopsFirst(method) THEN pc' = [pc EXCEPT ![t] = "joins"]
             ELSE AfterJoin(t, method, call[t].file, pc)
    BY <1>7 DEF ChangesWatching
  <2>2. method = "reset" => pc' = [pc EXCEPT ![t] = "joins"] \/ pc' = [pc EXCEPT ![t] = "idle"]
    BY <2>1 DEF AfterJoin
  <2>3. method = "reset" => pc'[t] # "enters"
    BY <2>2 DEF IInv, Placed
  <2>4. QED
    BY <1>1, <1>2, <2>1, <2>3 DEF Enters
<1>8. CASE \/ SaveToFile(t) \/ AddTemplate(t) \/ AddValidationRules(t) \/ SetReloadCallback(t)
           \/ WaitsForItself(t) \/ LooksOnly(t) \/ Joins(t)
  BY <1>1, <1>8 DEF SaveToFile, AddTemplate, AddValidationRules, SetReloadCallback,
     WaitsForItself, LooksOnly, Joins
<1>9. QED
  BY <1>3, <1>4, <1>5, <1>6, <1>7, <1>8 DEF Returns

LEMMA WatcherKeeps ==
  ASSUME IInv, NEW w \in Watchers, Watches(w)
  PROVE  Changes \/ Keeps(sections_, sections_')
<1> USE DEF AllThreads, At, Goes
<1>1. ASSUME UNCHANGED sections_ PROVE Keeps(sections_, sections_')
  BY <1>1, NothingLost
<1>2. CASE Tests(w) \/ Looks(w)
  BY <1>1, <1>2 DEF Tests, Looks
<1>3. CASE pc[w] = "loads" /\ LoadReads(w, watched_file_, "tests", "stamps")
  BY <1>1, <1>3, LoadKeeps DEF Changes, Replaces
<1>4. CASE LoadStamps(w, watched_file_, "calls back")
  BY <1>1, <1>4 DEF LoadStamps
<1>5. CASE CallsBack(w)
  <2>1. pc[w] = "calls back" /\ pc' = [pc EXCEPT ![w] = "tests"]
    BY <1>5 DEF CallsBack
  <2>2. pc'[w] = "tests"
    BY <2>1 DEF IInv, Placed
  <2>3. QED
    BY <2>1, <2>2 DEF Changes, Replaces
<1>6. QED
  BY <1>2, <1>3, <1>4, <1>5 DEF Watches, Reloads

\* No load of a file that is missing or is not YAML, by a caller or the
\* watcher, no template, rule, save or failed method changes a value that is
\* set: what is not meant to replace the configuration keeps all of it.
THEOREM SetValuesAreKept == Spec => ValuesAreKept
<1>1. IInv /\ [Next]_vars => (~Changes => Keeps(sections_, sections_'))
  <2> SUFFICES ASSUME IInv, [Next]_vars PROVE Changes \/ Keeps(sections_, sections_')
    OBVIOUS
  <2>1. ASSUME UNCHANGED sections_ PROVE Keeps(sections_, sections_')
    BY <2>1, NothingLost
  <2>2. CASE Edit \/ UNCHANGED vars
    BY <2>1, <2>2 DEF Edit
  <2>3. ASSUME NEW t \in Callers, NEW method, NEW file, Calls(t, method, file)
        PROVE  Keeps(sections_, sections_')
    BY <2>1, <2>3 DEF Calls
  <2>4. QED
    BY <2>2, <2>3, MethodKeeps, WatcherKeeps DEF Next
<1>2. (~Changes => Keeps(sections_, sections_'))
        => ((\A t \in Callers \cup Watchers : pc'[t] # pc[t] => ~Replaces(t))
              => Keeps(sections_, sections_'))
  BY DEF Changes, AllThreads
<1>3. QED
  BY IInvInit, IInvStep, <1>1, <1>2, PTL DEF Spec, ValuesAreKept

-----------------------------------------------------------------------------
(* The loop of parse.                                                      *)

LEMMA LeastElement ==
  ASSUME NEW S \in SUBSET Nat, S # {}
  PROVE  \E m \in S : \A y \in S : m <= y
<1> DEFINE R == {q \in Nat \X Nat : q[1] < q[2]}
<1>1. IsWellFoundedOn(R, Nat)
  BY NatLessThanWellFounded DEF OpToRel
<1> HIDE DEF R
<1>2. PICK m \in S : \A y \in S : ~ (<<y, m>> \in R)
  BY <1>1, WFMin
<1>3. ASSUME NEW y \in S PROVE m <= y
  <2>1. m \in Nat /\ y \in Nat
    OBVIOUS
  <2>2. ~ (y < m)
    BY <1>2, <2>1 DEF R
  <2>3. QED
    BY <2>1, <2>2
<1>4. QED
  BY <1>3

After(tables, args, f, i) ==
  IF i = 0 THEN Nothing
  ELSE IF f[i - 1].ends THEN f[i - 1]
  ELSE Turn(tables, args, i, f[i - 1])

Turns(tables, args, n, f) == f = [i \in 0 .. n |-> After(tables, args, f, i)]

LEMMA TurnsExist ==
  ASSUME NEW tables, NEW args, NEW n \in Nat
  PROVE  \E f : Turns(tables, args, n, f)
<1> DEFINE Bad == {k \in Nat : ~ \E f : Turns(tables, args, k, f)}
<1> SUFFICES ASSUME Bad # {} PROVE FALSE
  OBVIOUS
<1>1. PICK m \in Bad : \A y \in Bad : m <= y
  BY LeastElement
<1>2. m # 0
  <2>1. Turns(tables, args, 0, [i \in 0 .. 0 |-> Nothing])
    BY DEF Turns, After
  <2>2. QED
    BY <2>1
<1>3. m - 1 \in Nat /\ m - 1 \notin Bad
  BY <1>1, <1>2
<1>4. PICK f : Turns(tables, args, m - 1, f)
  BY <1>3
<1> DEFINE g == [i \in 0 .. m |-> IF i = m THEN After(tables, args, f, m) ELSE f[i]]
<1>5. ASSUME NEW i \in 0 .. m PROVE g[i] = After(tables, args, g, i)
  <2>1. i # 0 => i - 1 \in 0 .. m - 1 /\ g[i - 1] = f[i - 1]
    BY <1>3
  <2>2. After(tables, args, g, i) = After(tables, args, f, i)
    BY <2>1 DEF After
  <2>3. i # m => f[i] = After(tables, args, f, i)
    BY <1>3, <1>4 DEF Turns
  <2>4. QED
    BY <2>2, <2>3
<1>6. Turns(tables, args, m, g)
  BY <1>5 DEF Turns
<1>7. QED
  BY <1>1, <1>6

LEMMA ParseTurns ==
  ASSUME NEW tables, NEW args, Len(args) \in Nat
  PROVE  \E after : /\ Parse(tables, args) = after[Len(args)]
                    /\ \A i \in 0 .. Len(args) : after[i] = After(tables, args, after, i)
<1> DEFINE after == CHOOSE f : Turns(tables, args, Len(args), f)
<1>1. Parse(tables, args) = after[Len(args)]
  BY DEF Parse, Turns, After
<1>2. Turns(tables, args, Len(args), after)
  BY TurnsExist
<1> HIDE DEF after
<1>3. \A i \in 0 .. Len(args) : after[i] = After(tables, args, after, i)
  BY <1>2 DEF Turns
<1>4. QED
  BY <1>1, <1>3

\* What the first m arguments say.
Named == {"long", "short"}
PlacesIn(args, kinds, m) == {j \in 1 .. m : Shape[args[j]].kind \in kinds}
KnownIn(tables, args, m) == {j \in PlacesIn(args, Named, m) : Found(tables, args[j]) # None}
UnknownIn(tables, args, m) == PlacesIn(args, Named, m) \ KnownIn(tables, args, m)
PathAt(tables, args, j) == Found(tables, args[j]).path

Offers(tables) ==
  /\ \A name \in DOMAIN tables.by_long : tables.by_long[name] \in Offered
  /\ \A name \in DOMAIN tables.by_short : tables.by_short[name] \in Offered

Asked(args, n) == Shape[args[n]].kind \in {"help", "version"}

LEMMA StopsWhereAsked ==
  ASSUME NEW args, Len(args) \in Nat
  PROVE  /\ Stop(args) \in 1 .. Len(args) + 1
         /\ Stop(args) <= Len(args) => Asked(args, Stop(args))
         /\ \A i \in 1 .. Stop(args) - 1 : ~Asked(args, i)
<1> DEFINE Ends(n) == n <= Len(args) => Asked(args, n)
           S == {n \in 1 .. Len(args) + 1 : Ends(n)}
<1>1. S \in SUBSET Nat /\ Len(args) + 1 \in S
  OBVIOUS
<1>2. PICK n \in S : \A y \in S : n <= y
  <2> HIDE DEF S
  <2>1. QED
    BY <1>1, LeastElement
<1>3. \A i \in 1 .. n - 1 : i \in 1 .. Len(args) + 1 /\ i \notin S /\ i <= Len(args)
  BY <1>1, <1>2
<1>4. \A i \in 1 .. n - 1 : ~Asked(args, i)
  BY <1>3
<1>5. n \in 1 .. Len(args) + 1 /\ (n <= Len(args) => Asked(args, n))
  BY <1>2
<1> HIDE DEF S
<1>6. QED
  BY <1>4, <1>5 DEF Stop, Asked

LEMMA PlacesGrow ==
  ASSUME NEW m \in Nat, NEW S \in SUBSET (1 .. m)
  PROVE  /\ IsFiniteSet(S) /\ Cardinality(S) \in Nat
         /\ Cardinality(S \cup {m + 1}) = Cardinality(S) + 1
<1>1. IsFiniteSet(S)
  <2>1. IsFiniteSet(1 .. m)
    BY FS_Interval
  <2>2. QED
    BY <2>1, FS_Subset
<1>2. m + 1 \notin S
  OBVIOUS
<1>3. QED
  BY <1>1, <1>2, FS_AddElement, FS_CardinalityType

\* One argument more.
LEMMA OneArgumentMore ==
  ASSUME NEW tables, NEW args, NEW m \in Nat
  PROVE  /\ \A kinds :
              PlacesIn(args, kinds, m + 1)
                = PlacesIn(args, kinds, m)
                    \cup (IF Shape[args[m + 1]].kind \in kinds THEN {m + 1} ELSE {})
         /\ KnownIn(tables, args, m + 1)
              = KnownIn(tables, args, m)
                  \cup (IF Shape[args[m + 1]].kind \in Named /\ Found(tables, args[m + 1]) # None
                        THEN {m + 1} ELSE {})
         /\ UnknownIn(tables, args, m + 1)
              = UnknownIn(tables, args, m)
                  \cup (IF Shape[args[m + 1]].kind \in Named /\ Found(tables, args[m + 1]) = None
                        THEN {m + 1} ELSE {})
<1>1. 1 .. m + 1 = 1 .. m \cup {m + 1} /\ m + 1 \notin 1 .. m
  OBVIOUS
<1>2. QED
  BY <1>1 DEF PlacesIn, KnownIn, UnknownIn

\* The result says what the first m arguments do.
Says(tables, args, m, r) ==
  LET known == KnownIn(tables, args, m) IN
  /\ DOMAIN r = {"status", "ends", "overrides", "errors", "warnings", "applied"}
  /\ DOMAIN r.overrides = {PathAt(tables, args, j) : j \in known}
  /\ \A j \in known : (\A k \in known : PathAt(tables, args, k) = PathAt(tables, args, j) => k <= j)
       => r.overrides[PathAt(tables, args, j)] = ParsedOption(tables, args, j).value
  /\ r.errors = Cardinality(UnknownIn(tables, args, m))
  /\ r.warnings = Cardinality(PlacesIn(args, {"other"}, m))
  /\ r.applied = Cardinality(known)

Accepts(r) == r.status = IF r.errors > 0 THEN "INVALID_OPTION" ELSE "SUCCESS"

GoesOn(tables, args, m, r) == Says(tables, args, m, r) /\ Accepts(r) /\ r.ends = FALSE

LEMMA AnOptionMore ==
  ASSUME NEW tables, Offers(tables), NEW args, NEW m \in Nat, NEW r,
         GoesOn(tables, args, m, r), Shape[args[m + 1]].kind \in Named
  PROVE  GoesOn(tables, args, m + 1, Turn(tables, args, m + 1, r))
<1> DEFINE turn == Turn(tables, args, m + 1, r)
           known == KnownIn(tables, args, m)
           more == KnownIn(tables, args, m + 1)
           P(j) == PathAt(tables, args, j)
           option == ParsedOption(tables, args, m + 1)
<1>1. /\ PlacesIn(args, {"other"}, m + 1) = PlacesIn(args, {"other"}, m)
      /\ Found(tables, args[m + 1]) # None =>
           /\ more = known \cup {m + 1}
           /\ UnknownIn(tables, args, m + 1) = UnknownIn(tables, args, m)
      /\ Found(tables, args[m + 1]) = None =>
           /\ more = known
           /\ UnknownIn(tables, args, m + 1) = UnknownIn(tables, args, m) \cup {m + 1}
  <2>1. Shape[args[m + 1]].kind \notin {"other"} /\ Shape[args[m + 1]].kind \in Named
    BY DEF Named
  <2>2. /\ PlacesIn(args, {"other"}, m + 1)
             = PlacesIn(args, {"other"}, m)
                 \cup (IF Shape[args[m + 1]].kind \in {"other"} THEN {m + 1} ELSE {})
        /\ more = known \cup (IF Shape[args[m + 1]].kind \in Named
                                 /\ Found(tables, args[m + 1]) # None
                              THEN {m + 1} ELSE {})
        /\ UnknownIn(tables, args, m + 1)
             = UnknownIn(tables, args, m)
                 \cup (IF Shape[args[m + 1]].kind \in Named
                          /\ Found(tables, args[m + 1]) = None
                       THEN {m + 1} ELSE {})
    <3> HIDE DEF turn, P, option
    <3>1. QED
      BY OneArgumentMore
  <2> HIDE DEF turn, P, option, more, known
  <2>3. QED
    BY <2>1, <2>2
<1>2. /\ known \subseteq 1 .. m /\ UnknownIn(tables, args, m) \subseteq 1 .. m
      /\ r.errors \in Nat /\ r.applied \in Nat
  <2>1. known \subseteq 1 .. m /\ UnknownIn(tables, args, m) \subseteq 1 .. m
    BY DEF KnownIn, UnknownIn, PlacesIn
  <2>2. QED
    BY <2>1, PlacesGrow DEF GoesOn, Says
<1>3. turn = IF option.path = None
             THEN [r EXCEPT !.errors = @ + 1, !.status = "INVALID_OPTION"]
             ELSE [r EXCEPT !.overrides = With(@, option.path, option.value), !.applied = @ + 1]
  BY DEF Turn, Named
<1>4. CASE Found(tables, args[m + 1]) = None
  <2>1. option.path = None
    BY <1>4 DEF ParsedOption
  <2>2. PICK t : t = turn /\ t = [r EXCEPT !.errors = r.errors + 1, !.status = "INVALID_OPTION"]
    BY <1>3, <2>1
  <2>3. /\ DOMAIN t = DOMAIN r /\ t.overrides = r.overrides /\ t.warnings = r.warnings
        /\ t.applied = r.applied /\ t.ends = r.ends /\ t.errors = r.errors + 1
        /\ t.status = "INVALID_OPTION"
    BY <2>2 DEF GoesOn, Says
  <2>4. Cardinality(UnknownIn(tables, args, m + 1)) = r.errors + 1
    <3>1. Cardinality(UnknownIn(tables, args, m) \cup {m + 1})
            = Cardinality(UnknownIn(tables, args, m)) + 1
      BY <1>2, PlacesGrow
    <3>2. QED
      BY <1>1, <1>4, <3>1 DEF GoesOn, Says
  <2>5. Says(tables, args, m + 1, t)
    BY <1>1, <1>4, <2>3, <2>4 DEF GoesOn, Says
  <2>6. Accepts(t) /\ t.ends = FALSE
    BY <1>2, <2>3 DEF GoesOn, Accepts
  <2>7. QED
    BY <2>2, <2>5, <2>6 DEF GoesOn
<1>5. CASE Found(tables, args[m + 1]) # None
  <2>1. option.path = P(m + 1) /\ P(m + 1) # None
    <3>1. Found(tables, args[m + 1]) \in Offered
      BY <1>5 DEF Found, Offers
    <3>2. QED
      BY <1>5, <3>1, CliOptionsAssumption DEF ParsedOption, PathAt
  <2>2. PICK t : /\ t = turn
                 /\ t = [r EXCEPT !.overrides = With(r.overrides, P(m + 1), option.value),
                                  !.applied = r.applied + 1]
    <3> HIDE DEF turn, option, P
    <3>1. QED
      BY <1>3, <2>1
  <2>3. /\ DOMAIN t = DOMAIN r /\ t.warnings = r.warnings /\ t.errors = r.errors
        /\ t.status = r.status /\ t.ends = r.ends /\ t.applied = r.applied + 1
        /\ t.overrides = With(r.overrides, P(m + 1), option.value)
    <3> HIDE DEF turn, option, P
    <3>1. QED
      BY <2>2 DEF GoesOn, Says
  <2>4. Cardinality(more) = r.applied + 1
    <3>1. Cardinality(known \cup {m + 1}) = Cardinality(known) + 1
      BY <1>2, PlacesGrow
    <3>2. QED
      BY <1>1, <1>5, <3>1 DEF GoesOn, Says
  <2>5. /\ DOMAIN t.overrides = {P(j) : j \in more}
        /\ t.overrides[P(m + 1)] = option.value
        /\ \A j \in known : P(j) # P(m + 1) => t.overrides[P(j)] = r.overrides[P(j)]
    <3> HIDE DEF option
    <3>1. DOMAIN r.overrides = {P(j) : j \in known}
      BY DEF GoesOn, Says
    <3> HIDE DEF known, more, P
    <3>2. QED
      BY <1>1, <1>5, <2>3, <3>1 DEF With
  <2>6. ASSUME NEW j \in more, \A k \in more : P(k) = P(j) => k <= j
        PROVE  t.overrides[P(j)] = ParsedOption(tables, args, j).value
    <3>1. CASE j = m + 1
      BY <2>5, <3>1
    <3>2. CASE j # m + 1
      <4>1. j \in known /\ P(j) # P(m + 1)
        <5>1. j \in known /\ m + 1 \in more /\ ~ (m + 1 <= j)
          BY <1>1, <1>2, <1>5, <3>2
        <5> HIDE DEF known, more, P
        <5>2. QED
          BY <2>6, <5>1
      <4>2. \A k \in known : P(k) = P(j) => k <= j
        BY <1>1, <1>5, <2>6
      <4>3. r.overrides[P(j)] = ParsedOption(tables, args, j).value
        BY <4>1, <4>2 DEF GoesOn, Says
      <4>4. QED
        BY <2>5, <4>1, <4>3
    <3>3. QED
      BY <3>1, <3>2
  <2>7. Says(tables, args, m + 1, t)
    <3>1. DOMAIN t = {"status", "ends", "overrides", "errors", "warnings", "applied"}
      BY <2>3 DEF GoesOn, Says
    <3>2. t.errors = Cardinality(UnknownIn(tables, args, m + 1))
      BY <1>1, <1>5, <2>3 DEF GoesOn, Says
    <3>3. t.warnings = Cardinality(PlacesIn(args, {"other"}, m + 1))
      BY <1>1, <2>3 DEF GoesOn, Says
    <3>4. t.applied = Cardinality(more)
      BY <2>3, <2>4
    <3>5. QED
      BY <2>5, <2>6, <3>1, <3>2, <3>3, <3>4 DEF GoesOn, Says
  <2>8. Accepts(t) /\ t.ends = FALSE
    BY <2>3 DEF GoesOn, Accepts
  <2>9. QED
    BY <2>2, <2>7, <2>8 DEF GoesOn
<1>6. QED
  BY <1>4, <1>5

\* An argument that names no option and asks for nothing.
LEMMA AnArgumentMore ==
  ASSUME NEW tables, NEW args, NEW m \in Nat, NEW r, GoesOn(tables, args, m, r),
         Shape[args[m + 1]].kind \in {"empty", "other"}
  PROVE  GoesOn(tables, args, m + 1, Turn(tables, args, m + 1, r))
<1>1. /\ KnownIn(tables, args, m + 1) = KnownIn(tables, args, m)
      /\ UnknownIn(tables, args, m + 1) = UnknownIn(tables, args, m)
  <2>1. Shape[args[m + 1]].kind \notin Named
    BY DEF Named
  <2>2. /\ KnownIn(tables, args, m + 1)
             = KnownIn(tables, args, m)
                 \cup (IF Shape[args[m + 1]].kind \in Named /\ Found(tables, args[m + 1]) # None
                       THEN {m + 1} ELSE {})
        /\ UnknownIn(tables, args, m + 1)
             = UnknownIn(tables, args, m)
                 \cup (IF Shape[args[m + 1]].kind \in Named /\ Found(tables, args[m + 1]) = None
                       THEN {m + 1} ELSE {})
    BY OneArgumentMore
  <2>3. QED
    BY <2>1, <2>2
<1>2. CASE Shape[args[m + 1]].kind = "empty"
  <2>1. PlacesIn(args, {"other"}, m + 1) = PlacesIn(args, {"other"}, m)
    <3>1. Shape[args[m + 1]].kind \notin {"other"}
      BY <1>2
    <3>2. PlacesIn(args, {"other"}, m + 1)
            = PlacesIn(args, {"other"}, m)
                \cup (IF Shape[args[m + 1]].kind \in {"other"} THEN {m + 1} ELSE {})
      BY OneArgumentMore
    <3>3. QED
      BY <3>1, <3>2
  <2>2. Turn(tables, args, m + 1, r) = r
    BY <1>2 DEF Turn
  <2>3. QED
    BY <1>1, <2>1, <2>2 DEF GoesOn, Says
<1>3. CASE Shape[args[m + 1]].kind = "other"
  <2>1. PlacesIn(args, {"other"}, m + 1) = PlacesIn(args, {"other"}, m) \cup {m + 1}
    <3>1. Shape[args[m + 1]].kind \in {"other"}
      BY <1>3
    <3>2. PlacesIn(args, {"other"}, m + 1)
            = PlacesIn(args, {"other"}, m)
                \cup (IF Shape[args[m + 1]].kind \in {"other"} THEN {m + 1} ELSE {})
      BY OneArgumentMore
    <3>3. QED
      BY <3>1, <3>2
  <2>2. PICK t : t = Turn(tables, args, m + 1, r) /\ t = [r EXCEPT !.warnings = r.warnings + 1]
    BY <1>3 DEF Turn
  <2>3. /\ DOMAIN t = DOMAIN r /\ t.overrides = r.overrides /\ t.errors = r.errors
        /\ t.applied = r.applied /\ t.ends = r.ends /\ t.status = r.status
        /\ t.warnings = r.warnings + 1
    BY <2>2 DEF GoesOn, Says
  <2>4. PlacesIn(args, {"other"}, m) \subseteq 1 .. m
    BY DEF PlacesIn
  <2>5. t.warnings = Cardinality(PlacesIn(args, {"other"}, m + 1))
    <3>1. Cardinality(PlacesIn(args, {"other"}, m) \cup {m + 1})
            = Cardinality(PlacesIn(args, {"other"}, m)) + 1
      BY <2>4, PlacesGrow
    <3>2. QED
      BY <2>1, <2>3, <3>1 DEF GoesOn, Says
  <2>6. Says(tables, args, m + 1, t)
    BY <1>1, <2>3, <2>5 DEF GoesOn, Says
  <2>7. Accepts(t) /\ t.ends = FALSE
    BY <2>3 DEF GoesOn, Accepts
  <2>8. QED
    BY <2>2, <2>6, <2>7 DEF GoesOn
<1>4. QED
  BY <1>2, <1>3

\* What has been read after i turns.
Answer(args) ==
  IF Shape[args[Stop(args)]].kind = "help" THEN "HELP_REQUESTED" ELSE "VERSION_REQUESTED"

ReadSoFar(tables, args, i, r) ==
  IF i < Stop(args)
  THEN GoesOn(tables, args, i, r)
  ELSE Says(tables, args, Stop(args) - 1, r) /\ r.ends = TRUE /\ r.status = Answer(args)

LEMMA ATurnMore ==
  ASSUME NEW tables, Offers(tables), NEW args \in Seq(DOMAIN Shape), NEW i \in 1 .. Len(args),
         NEW r, ReadSoFar(tables, args, i - 1, r)
  PROVE  ReadSoFar(tables, args, i, IF r.ends THEN r ELSE Turn(tables, args, i, r))
<1> DEFINE s == Stop(args)
           t == Turn(tables, args, i, r)
<1>1. /\ s \in 1 .. Len(args) + 1 /\ (s <= Len(args) => Asked(args, s))
      /\ \A j \in 1 .. s - 1 : ~Asked(args, j)
  BY StopsWhereAsked
<1>2. Shape[args[i]].kind \in {"empty", "help", "version", "long", "short", "other"}
  <2>1. args[i] \in DOMAIN Shape
    OBVIOUS
  <2>2. QED
    BY <2>1, CliArgumentsAssumption
<1> HIDE DEF s, t
<1>3. CASE i < s
  <2>1. GoesOn(tables, args, i - 1, r)
    BY <1>1, <1>3 DEF ReadSoFar, s
  <2>2. Shape[args[i]].kind \in {"empty", "long", "short", "other"}
    BY <1>1, <1>2, <1>3 DEF Asked
  <2>3. PICK m \in Nat : m = i - 1 /\ i = m + 1
    OBVIOUS
  <2>4. GoesOn(tables, args, i, t)
    <3>1. CASE Shape[args[i]].kind \in Named
      <4>1. GoesOn(tables, args, m + 1, Turn(tables, args, m + 1, r))
        BY <2>1, <2>3, <3>1, AnOptionMore
      <4>2. QED
        BY <2>3, <4>1 DEF t
    <3>2. CASE Shape[args[i]].kind \in {"empty", "other"}
      <4>1. GoesOn(tables, args, m + 1, Turn(tables, args, m + 1, r))
        BY <2>1, <2>3, <3>2, AnArgumentMore
      <4>2. QED
        BY <2>3, <4>1 DEF t
    <3>3. QED
      BY <2>2, <3>1, <3>2 DEF Named
  <2>5. QED
    BY <1>3, <2>1, <2>4 DEF GoesOn, ReadSoFar, s, t
<1>4. CASE i = s
  <2>1. Says(tables, args, s - 1, r) /\ Accepts(r) /\ r.ends = FALSE
    BY <1>1, <1>4 DEF GoesOn, ReadSoFar, s
  <2>2. Shape[args[s]].kind \in {"help", "version"}
    BY <1>1, <1>4 DEF Asked
  <2>3. t = [r EXCEPT !.status = Answer(args), !.ends = TRUE]
    BY <1>4, <2>2 DEF t, s, Turn, Answer
  <2>4. /\ DOMAIN t = DOMAIN r /\ t.overrides = r.overrides /\ t.errors = r.errors
        /\ t.warnings = r.warnings /\ t.applied = r.applied
        /\ t.ends = TRUE /\ t.status = Answer(args)
    BY <2>1, <2>3 DEF Says
  <2>5. Says(tables, args, s - 1, t)
    BY <2>1, <2>4 DEF Says
  <2>6. QED
    BY <1>4, <2>1, <2>4, <2>5 DEF ReadSoFar, s, t
<1>5. CASE i > s
  BY <1>1, <1>5 DEF ReadSoFar, s
<1>6. QED
  BY <1>1, <1>3, <1>4, <1>5

LEMMA NothingRead ==
  ASSUME NEW tables, NEW args, 0 < Stop(args)
  PROVE  ReadSoFar(tables, args, 0, Nothing)
<1>1. /\ KnownIn(tables, args, 0) = {} /\ UnknownIn(tables, args, 0) = {}
      /\ PlacesIn(args, {"other"}, 0) = {}
  BY DEF KnownIn, UnknownIn, PlacesIn
<1>2. Cardinality({}) = 0
  BY FS_EmptySet
<1>3. Says(tables, args, 0, Nothing)
  <2>1. DOMAIN Nothing.overrides = {}
    BY DEF Nothing
  <2>2. DOMAIN Nothing = {"status", "ends", "overrides", "errors", "warnings", "applied"}
    BY DEF Nothing
  <2>3. Nothing.errors = 0 /\ Nothing.warnings = 0 /\ Nothing.applied = 0
    BY DEF Nothing
  <2>4. QED
    BY <1>1, <1>2, <2>1, <2>2, <2>3 DEF Says
<1>4. Accepts(Nothing) /\ Nothing.ends = FALSE
  BY DEF Accepts, Nothing
<1>5. QED
  BY <1>3, <1>4 DEF GoesOn, ReadSoFar

LEMMA LineRead ==
  ASSUME NEW tables, Offers(tables), NEW args \in Seq(DOMAIN Shape)
  PROVE  ReadSoFar(tables, args, Len(args), Parse(tables, args))
<1>1. PICK after : /\ Parse(tables, args) = after[Len(args)]
                   /\ \A i \in 0 .. Len(args) : after[i] = After(tables, args, after, i)
  BY ParseTurns
<1> DEFINE Bad == {k \in 0 .. Len(args) : ~ReadSoFar(tables, args, k, after[k])}
<1>2. Bad = {}
  <2> SUFFICES ASSUME Bad # {} PROVE FALSE
    OBVIOUS
  <2>1. PICK m \in Bad : \A y \in Bad : m <= y
    <3>1. Bad \in SUBSET Nat
      OBVIOUS
    <3>2. QED
      BY <3>1, LeastElement
  <2>2. after[m] = After(tables, args, after, m)
    BY <1>1, <2>1
  <2>3. 0 < Stop(args)
    BY StopsWhereAsked
  <2>4. m # 0
    BY <2>1, <2>2, <2>3, NothingRead DEF After
  <2>5. m \in 1 .. Len(args) /\ m - 1 \in 0 .. Len(args) /\ ~ (m <= m - 1)
    BY <2>1, <2>4
  <2>6. ReadSoFar(tables, args, m - 1, after[m - 1])
    BY <2>1, <2>5
  <2>7. ReadSoFar(tables, args, m, after[m])
    BY <2>2, <2>5, <2>6, ATurnMore DEF After
  <2>8. QED
    BY <2>1, <2>7
<1>3. QED
  BY <1>1, <1>2

\* Parse answers what the whole line says.
LEMMA ParseAnswers ==
  ASSUME NEW tables, Offers(tables), NEW args \in Seq(DOMAIN Shape)
  PROVE  Answers(tables, args, Parse(tables, args))
<1> DEFINE s == Stop(args)
           r == Parse(tables, args)
<1>1. s \in 1 .. Len(args) + 1
  BY StopsWhereAsked
<1>2. ReadSoFar(tables, args, Len(args), r)
  BY LineRead
<1>3. /\ Known(tables, args) = KnownIn(tables, args, s - 1)
      /\ Places(args, {"long", "short"}) \ Known(tables, args) = UnknownIn(tables, args, s - 1)
      /\ Places(args, {"other"}) = PlacesIn(args, {"other"}, s - 1)
  BY DEF Known, Places, KnownIn, UnknownIn, PlacesIn, Named
<1> HIDE DEF s, r
<1>4. Says(tables, args, s - 1, r)
  BY <1>1, <1>2 DEF GoesOn, ReadSoFar, s
<1>5. s <= Len(args) => r.status = Answer(args)
  BY <1>1, <1>2 DEF GoesOn, ReadSoFar, s
<1>6. ~ (s <= Len(args)) => Accepts(r)
  BY <1>1, <1>2 DEF GoesOn, ReadSoFar, s
<1>7. QED
  BY <1>1, <1>3, <1>4, <1>5, <1>6 DEF Answers, Says, Accepts, Answer, PathAt, s, r

-----------------------------------------------------------------------------
(* NamesAndLines.                                                          *)

\* Each name answers to one of the options offered, the one that is listed.
Unique(options) == \A i, j \in DOMAIN options : options[i].long = options[j].long => i = j

Listed(d, gone) ==
  /\ d.definitions \in Seq(Offered) /\ Unique(d.definitions)
  /\ \A n \in DOMAIN d.by_long : d.by_long[n] \in Offered /\ d.by_long[n].long = n
  /\ \A s \in DOMAIN d.by_short : d.by_short[s] \in Offered /\ d.by_short[s].short = s
  /\ ToSet(d.definitions) = {d.by_long[n] : n \in DOMAIN d.by_long}
  /\ ~gone => {d.by_short[s] : s \in DOMAIN d.by_short}
                = {o \in ToSet(d.definitions) : o.short # None}

LEMMA OneMoreListed ==
  ASSUME NEW d, NEW gone, Listed(d, gone), NEW o \in Offered, ~Refused(d, o)
  PROVE  Listed(Added(d, o), gone)
<1> DEFINE e == Added(d, o)
<1>1. /\ e.definitions = Append(d.definitions, o)
      /\ e.by_long = With(d.by_long, o.long, o)
      /\ e.by_short = IF o.short = None THEN d.by_short ELSE With(d.by_short, o.short, o)
  BY DEF Added
<1>2. o.long \notin DOMAIN d.by_long /\ (o.short # None => o.short \notin DOMAIN d.by_short)
  BY DEF Refused
<1> HIDE DEF e
<1>3. e.definitions \in Seq(Offered)
  BY <1>1 DEF Listed
<1>4. ToSet(e.definitions) = ToSet(d.definitions) \cup {o}
  BY <1>1 DEF Listed, ToSet
<1>5. \A i \in DOMAIN d.definitions : d.definitions[i].long \in DOMAIN d.by_long
  <2>1. \A i \in DOMAIN d.definitions : d.definitions[i] \in ToSet(d.definitions)
    BY DEF ToSet
  <2>2. QED
    BY <2>1 DEF Listed
<1>6. Unique(e.definitions)
  BY <1>1, <1>2, <1>5 DEF Listed, Unique
<1>7. /\ \A n \in DOMAIN e.by_long : e.by_long[n] \in Offered /\ e.by_long[n].long = n
      /\ {e.by_long[n] : n \in DOMAIN e.by_long}
           = {d.by_long[n] : n \in DOMAIN d.by_long} \cup {o}
  BY <1>1, <1>2 DEF Listed, With
<1>8. \A s \in DOMAIN e.by_short : e.by_short[s] \in Offered /\ e.by_short[s].short = s
  BY <1>1, <1>2 DEF Listed, With
<1>9. {e.by_short[s] : s \in DOMAIN e.by_short}
        = {d.by_short[s] : s \in DOMAIN d.by_short} \cup (IF o.short = None THEN {} ELSE {o})
  BY <1>1, <1>2 DEF With
<1>10. ASSUME ~gone
       PROVE  {e.by_short[s] : s \in DOMAIN e.by_short}
                = {p \in ToSet(e.definitions) : p.short # None}
  BY <1>4, <1>9, <1>10 DEF Listed
<1>11. ToSet(e.definitions) = {e.by_long[n] : n \in DOMAIN e.by_long}
  BY <1>4, <1>7 DEF Listed
<1>12. QED
  BY <1>3, <1>6, <1>7, <1>8, <1>10, <1>11 DEF Listed, e

\* The loop of addOptions.
AddsTo(so_far, o) ==
  IF so_far.thrown \/ Refused(so_far.d, o) THEN [so_far EXCEPT !.thrown = TRUE]
  ELSE [d |-> Added(so_far.d, o), thrown |-> FALSE]

AddedUpTo(d, options, f, i) ==
  IF i = 0 THEN [d |-> d, thrown |-> FALSE] ELSE AddsTo(f[i - 1], options[i])

Adding(d, options, n, f) == f = [i \in 0 .. n |-> AddedUpTo(d, options, f, i)]

LEMMA AddingExists ==
  ASSUME NEW d, NEW options, NEW n \in Nat
  PROVE  \E f : Adding(d, options, n, f)
<1> DEFINE Bad == {k \in Nat : ~ \E f : Adding(d, options, k, f)}
<1> SUFFICES ASSUME Bad # {} PROVE FALSE
  OBVIOUS
<1>1. PICK m \in Bad : \A y \in Bad : m <= y
  BY LeastElement
<1>2. m # 0
  <2>1. Adding(d, options, 0, [i \in 0 .. 0 |-> [d |-> d, thrown |-> FALSE]])
    BY DEF Adding, AddedUpTo
  <2>2. QED
    BY <2>1
<1>3. m - 1 \in Nat /\ m - 1 \notin Bad
  BY <1>1, <1>2
<1>4. PICK f : Adding(d, options, m - 1, f)
  BY <1>3
<1> DEFINE g == [i \in 0 .. m |-> IF i = m THEN AddedUpTo(d, options, f, m) ELSE f[i]]
<1>5. ASSUME NEW i \in 0 .. m PROVE g[i] = AddedUpTo(d, options, g, i)
  <2>1. i # 0 => i - 1 \in 0 .. m - 1 /\ g[i - 1] = f[i - 1]
    BY <1>3
  <2>2. AddedUpTo(d, options, g, i) = AddedUpTo(d, options, f, i)
    BY <2>1 DEF AddedUpTo
  <2>3. i # m => f[i] = AddedUpTo(d, options, f, i)
    BY <1>3, <1>4 DEF Adding
  <2>4. QED
    BY <2>2, <2>3
<1>6. Adding(d, options, m, g)
  BY <1>5 DEF Adding
<1>7. QED
  BY <1>1, <1>6

LEMMA AllListed ==
  ASSUME NEW d, NEW gone, Listed(d, gone), NEW options \in Seq(Offered)
  PROVE  Listed(AddedAll(d, options), gone)
<1> DEFINE after == CHOOSE f : Adding(d, options, Len(options), f)
<1>1. AddedAll(d, options) = after[Len(options)].d
  BY DEF AddedAll, Adding, AddedUpTo, AddsTo
<1>2. Adding(d, options, Len(options), after)
  <2>1. \E f : Adding(d, options, Len(options), f)
    <3>1. Len(options) \in Nat
      OBVIOUS
    <3>2. QED
      BY <3>1, AddingExists
  <2>2. QED
    BY <2>1
<1> HIDE DEF after
<1>3. \A i \in 0 .. Len(options) : after[i] = AddedUpTo(d, options, after, i)
  BY <1>2 DEF Adding
<1> DEFINE Good(k) == DOMAIN after[k] = {"d", "thrown"} /\ Listed(after[k].d, gone)
           Bad == {k \in 0 .. Len(options) : ~Good(k)}
<1>4. Bad = {}
  <2> SUFFICES ASSUME Bad # {} PROVE FALSE
    OBVIOUS
  <2>1. PICK m \in Bad : \A y \in Bad : m <= y
    <3>1. Bad \in SUBSET Nat
      OBVIOUS
    <3>2. QED
      BY <3>1, LeastElement
  <2>2. after[m] = AddedUpTo(d, options, after, m)
    BY <1>3, <2>1
  <2>3. m # 0
    BY <2>1, <2>2 DEF AddedUpTo
  <2>4. m \in 1 .. Len(options) /\ m - 1 \in 0 .. Len(options) /\ ~ (m <= m - 1)
    BY <2>1, <2>3
  <2>5. Good(m - 1)
    BY <2>1, <2>4
  <2>6. options[m] \in Offered
    BY <2>4
  <2>7. CASE after[m - 1].thrown \/ Refused(after[m - 1].d, options[m])
    <3>1. after[m] = [after[m - 1] EXCEPT !.thrown = TRUE]
      BY <2>2, <2>3, <2>7 DEF AddedUpTo, AddsTo
    <3>2. Good(m)
      BY <2>5, <3>1
    <3>3. QED
      BY <2>1, <3>2
  <2>8. CASE ~ (after[m - 1].thrown \/ Refused(after[m - 1].d, options[m]))
    <3>1. after[m] = [d |-> Added(after[m - 1].d, options[m]), thrown |-> FALSE]
      BY <2>2, <2>3, <2>8 DEF AddedUpTo, AddsTo
    <3>2. Listed(Added(after[m - 1].d, options[m]), gone)
      BY <2>5, <2>6, <2>8, OneMoreListed
    <3>3. Good(m)
      BY <3>1, <3>2
    <3>4. QED
      BY <2>1, <3>3
  <2>9. QED
    BY <2>7, <2>8
<1>5. QED
  BY <1>1, <1>4

\* The loop that takes the option with a name off the list.
KeptUpTo(options, name, f, i) ==
  IF i = 0 THEN <<>>
  ELSE IF options[i].long = name THEN f[i - 1]
  ELSE Append(f[i - 1], options[i])

Keeping(options, name, n, f) == f = [i \in 0 .. n |-> KeptUpTo(options, name, f, i)]

LEMMA KeepingExists ==
  ASSUME NEW options, NEW name, NEW n \in Nat
  PROVE  \E f : Keeping(options, name, n, f)
<1> DEFINE Bad == {k \in Nat : ~ \E f : Keeping(options, name, k, f)}
<1> SUFFICES ASSUME Bad # {} PROVE FALSE
  OBVIOUS
<1>1. PICK m \in Bad : \A y \in Bad : m <= y
  BY LeastElement
<1>2. m # 0
  <2>1. Keeping(options, name, 0, [i \in 0 .. 0 |-> <<>>])
    BY DEF Keeping, KeptUpTo
  <2>2. QED
    BY <2>1
<1>3. m - 1 \in Nat /\ m - 1 \notin Bad
  BY <1>1, <1>2
<1>4. PICK f : Keeping(options, name, m - 1, f)
  BY <1>3
<1> DEFINE g == [i \in 0 .. m |-> IF i = m THEN KeptUpTo(options, name, f, m) ELSE f[i]]
<1>5. ASSUME NEW i \in 0 .. m PROVE g[i] = KeptUpTo(options, name, g, i)
  <2>1. i # 0 => i - 1 \in 0 .. m - 1 /\ g[i - 1] = f[i - 1]
    BY <1>3
  <2>2. KeptUpTo(options, name, g, i) = KeptUpTo(options, name, f, i)
    BY <2>1 DEF KeptUpTo
  <2>3. i # m => f[i] = KeptUpTo(options, name, f, i)
    BY <1>3, <1>4 DEF Keeping
  <2>4. QED
    BY <2>2, <2>3
<1>6. Keeping(options, name, m, g)
  BY <1>5 DEF Keeping
<1>7. QED
  BY <1>1, <1>6

LEMMA OneMoreElement ==
  ASSUME NEW S, NEW s \in Seq(S), NEW e \in S
  PROVE  \A o : (\E i \in DOMAIN Append(s, e) : Append(s, e)[i] = o)
                <=> o = e \/ \E i \in DOMAIN s : s[i] = o
<1> DEFINE t == Append(s, e)
<1>1. /\ DOMAIN t = 1 .. Len(s) + 1 /\ DOMAIN s = 1 .. Len(s)
      /\ \A i \in 1 .. Len(s) : t[i] = s[i]
      /\ t[Len(s) + 1] = e /\ Len(s) \in Nat
  OBVIOUS
<1> HIDE DEF t
<1>2. DOMAIN t = DOMAIN s \cup {Len(s) + 1} /\ \A i \in DOMAIN s : t[i] = s[i]
  BY <1>1
<1>3. \A o : (\E i \in DOMAIN t : t[i] = o) <=> o = e \/ \E i \in DOMAIN s : s[i] = o
  BY <1>1, <1>2
<1>4. QED
  BY <1>3 DEF t

LEMMA OthersKept ==
  ASSUME NEW options \in Seq(Offered), Unique(options), NEW name
  PROVE  /\ Without(options, name) \in Seq(Offered) /\ Unique(Without(options, name))
         /\ ToSet(Without(options, name)) = {o \in ToSet(options) : o.long # name}
<1> DEFINE kept == CHOOSE f : Keeping(options, name, Len(options), f)
<1>1. Without(options, name) = kept[Len(options)]
  BY DEF Without, Keeping, KeptUpTo
<1>2. Keeping(options, name, Len(options), kept)
  <2>1. \E f : Keeping(options, name, Len(options), f)
    <3>1. Len(options) \in Nat
      OBVIOUS
    <3>2. QED
      BY <3>1, KeepingExists
  <2>2. QED
    BY <2>1
<1> HIDE DEF kept
<1>3. \A i \in 0 .. Len(options) : kept[i] = KeptUpTo(options, name, kept, i)
  BY <1>2 DEF Keeping
<1> DEFINE Good(k) ==
             /\ kept[k] \in Seq(Offered) /\ Unique(kept[k])
             /\ \A o : (\E i \in DOMAIN kept[k] : kept[k][i] = o)
                         <=> \E j \in 1 .. k : options[j] = o /\ o.long # name
           Bad == {k \in 0 .. Len(options) : ~Good(k)}
<1>4. Bad = {}
  <2> SUFFICES ASSUME Bad # {} PROVE FALSE
    OBVIOUS
  <2>1. PICK m \in Bad : \A y \in Bad : m <= y
    <3>1. Bad \in SUBSET Nat
      OBVIOUS
    <3> HIDE DEF Bad
    <3>2. QED
      BY <3>1, LeastElement
  <2>2. kept[m] = KeptUpTo(options, name, kept, m)
    BY <1>3, <2>1
  <2>3. m # 0
    <3>1. ASSUME m = 0 PROVE FALSE
      <4>1. kept[0] = <<>>
        BY <2>2, <3>1 DEF KeptUpTo
      <4>2. <<>> \in Seq(Offered) /\ DOMAIN <<>> = {}
        OBVIOUS
      <4>3. Good(0)
        BY <4>1, <4>2 DEF Unique
      <4>4. QED
        BY <2>1, <3>1, <4>3
    <3>2. QED
      BY <3>1
  <2>4. m \in 1 .. Len(options) /\ m - 1 \in 0 .. Len(options) /\ ~ (m <= m - 1)
    BY <2>1, <2>3
  <2>5. Good(m - 1)
    BY <2>1, <2>4
  <2>6. options[m] \in Offered /\ \A j \in 1 .. m : j = m \/ j \in 1 .. m - 1
    BY <2>4
  <2>7. CASE options[m].long = name
    <3>1. kept[m] = kept[m - 1]
      BY <2>2, <2>3, <2>7 DEF KeptUpTo
    <3>2. ASSUME NEW o, NEW j \in 1 .. m, options[j] = o, o.long # name
          PROVE  j \in 1 .. m - 1
      BY <2>6, <2>7, <3>2
    <3>3. 1 .. m - 1 \subseteq 1 .. m
      BY <2>4
    <3>4. Good(m)
      BY <2>5, <3>1, <3>2, <3>3
    <3>5. QED
      BY <2>1, <3>4
  <2>8. CASE options[m].long # name
    <3>1. kept[m] = Append(kept[m - 1], options[m])
      BY <2>2, <2>3, <2>8 DEF KeptUpTo
    <3>2. kept[m] \in Seq(Offered)
      BY <2>5, <2>6, <3>1
    <3>3. \A i \in DOMAIN kept[m - 1] : kept[m - 1][i].long # options[m].long
      <4>1. ASSUME NEW i \in DOMAIN kept[m - 1]
            PROVE  \E j \in 1 .. m - 1 : options[j] = kept[m - 1][i]
        BY <2>5
      <4>2. \A j \in 1 .. m - 1 : options[j].long # options[m].long
        BY <2>4 DEF Unique
      <4>3. QED
        BY <4>1, <4>2
    <3>4. Unique(kept[m])
      BY <2>5, <2>6, <3>1, <3>3 DEF Unique
    <3>5. \A o : (\E i \in DOMAIN kept[m] : kept[m][i] = o)
                   <=> o = options[m] \/ \E i \in DOMAIN kept[m - 1] : kept[m - 1][i] = o
      <4>1. PICK old \in Seq(Offered), e \in Offered : old = kept[m - 1] /\ e = options[m]
        BY <2>5, <2>6
      <4> HIDE DEF Bad
      <4>2. \A o : (\E i \in DOMAIN Append(old, e) : Append(old, e)[i] = o)
                     <=> o = e \/ \E i \in DOMAIN old : old[i] = o
        BY OneMoreElement
      <4>3. kept[m] = Append(old, e)
        BY <3>1, <4>1
      <4>4. \A o : (\E i \in DOMAIN kept[m] : kept[m][i] = o)
                     <=> o = e \/ \E i \in DOMAIN old : old[i] = o
        BY <4>2, <4>3
      <4>5. QED
        BY <4>1, <4>4
    <3>6. \A o : (\E j \in 1 .. m : options[j] = o /\ o.long # name)
                   <=> o = options[m] \/ \E j \in 1 .. m - 1 : options[j] = o /\ o.long # name
      BY <2>4, <2>6, <2>8
    <3>7. Good(m)
      BY <2>5, <3>2, <3>4, <3>5, <3>6
    <3>8. QED
      BY <2>1, <3>7
  <2>9. QED
    BY <2>7, <2>8
<1>5. Good(Len(options))
  BY <1>4
<1>6. QED
  BY <1>1, <1>5 DEF ToSet

LEMMA OneLessListed ==
  ASSUME Listed(Present, removed), NEW name \in DOMAIN by_long, NEW short,
         NEW d, d = [definitions |-> Without(definitions, name),
                     by_long |-> [n \in DOMAIN by_long \ {name} |-> by_long[n]],
                     by_short |-> [s \in DOMAIN by_short \ {short} |-> by_short[s]]]
  PROVE  Listed(d, TRUE)
<1>1. /\ definitions \in Seq(Offered) /\ Unique(definitions)
      /\ \A n \in DOMAIN by_long : by_long[n] \in Offered /\ by_long[n].long = n
      /\ \A s \in DOMAIN by_short : by_short[s] \in Offered /\ by_short[s].short = s
      /\ ToSet(definitions) = {by_long[n] : n \in DOMAIN by_long}
  BY DEF Listed, Present
<1>2. d.definitions \in Seq(Offered) /\ Unique(d.definitions)
  BY <1>1, OthersKept
<1>3. ToSet(d.definitions) = {o \in ToSet(definitions) : o.long # name}
  BY <1>1, OthersKept
<1>4. /\ DOMAIN d.by_long = DOMAIN by_long \ {name}
      /\ \A n \in DOMAIN d.by_long : d.by_long[n] = by_long[n]
  OBVIOUS
<1>5. ToSet(d.definitions) = {d.by_long[n] : n \in DOMAIN d.by_long}
  BY <1>1, <1>3, <1>4
<1>6. \A s \in DOMAIN d.by_short : d.by_short[s] \in Offered /\ d.by_short[s].short = s
  BY <1>1
<1>7. QED
  BY <1>1, <1>2, <1>4, <1>5, <1>6 DEF Listed

\* What was parsed is what the tables there are make of the line.
LineKept == parsed.args \in Seq(DOMAIN Shape) /\ parsed.result = Parse(OwnTables, parsed.args)

OptionsIInv == Listed(Present, removed) /\ LineKept

LEMMA NoLine ==
  ASSUME NEW tables
  PROVE  Unparsed.args \in Seq(DOMAIN Shape) /\ Unparsed.result = Parse(tables, Unparsed.args)
<1>1. Unparsed.args = <<>> /\ Unparsed.result = Nothing
  BY DEF Unparsed
<1>2. <<>> \in Seq(DOMAIN Shape) /\ Len(<<>>) = 0
  OBVIOUS
<1>3. Parse(tables, <<>>) = Nothing
  <2>1. Len(<<>>) \in Nat
    BY <1>2
  <2>2. PICK after : /\ Parse(tables, <<>>) = after[Len(<<>>)]
                     /\ \A i \in 0 .. Len(<<>>) : after[i] = After(tables, <<>>, after, i)
    BY <2>1, ParseTurns
  <2>3. after[0] = After(tables, <<>>, after, 0)
    BY <1>2, <2>2
  <2>4. QED
    BY <1>2, <2>2, <2>3 DEF After
<1>4. QED
  BY <1>1, <1>2, <1>3

\* A change of the tables forgets the line.
LEMMA ChangeStep ==
  ASSUME NEW d, Becomes(d), Listed(d, removed')
  PROVE  OptionsIInv'
<1>1. /\ definitions' = d.definitions /\ by_long' = d.by_long /\ by_short' = d.by_short
      /\ parsed' = Unparsed
  BY DEF Becomes
<1>2. Listed(Present', removed')
  BY <1>1 DEF Listed, Present
<1>3. parsed'.args \in Seq(DOMAIN Shape) /\ parsed'.result = Parse(OwnTables', parsed'.args)
  BY <1>1, NoLine
<1>4. QED
  BY <1>2, <1>3 DEF OptionsIInv, LineKept

LEMMA NoneListed ==
  ASSUME NEW d, d.definitions = <<>>, d.by_long = <<>>, d.by_short = <<>>, NEW gone
  PROVE  Listed(d, gone)
<1>1. <<>> \in Seq(Offered) /\ DOMAIN <<>> = {} /\ ToSet(<<>>) = {}
  BY DEF ToSet
<1>2. QED
  BY <1>1 DEF Listed, Unique

LEMMA OptionsInitially == OptionsInit => OptionsIInv
<1> SUFFICES ASSUME OptionsInit PROVE OptionsIInv
  OBVIOUS
<1>1. Listed(Present, removed)
  <2>1. Present.definitions = <<>> /\ Present.by_long = <<>> /\ Present.by_short = <<>>
    BY DEF OptionsInit, Present
  <2>2. QED
    BY <2>1, NoneListed
<1>2. LineKept
  BY NoLine DEF OptionsInit, LineKept
<1>3. QED
  BY <1>1, <1>2 DEF OptionsIInv

LEMMA OptionsStep == OptionsIInv /\ [OptionsNext]_optionVars => OptionsIInv'
<1> SUFFICES ASSUME OptionsIInv, [OptionsNext]_optionVars PROVE OptionsIInv'
  OBVIOUS
<1>1. CASE UNCHANGED optionVars
  BY <1>1 DEF optionVars, OptionsIInv, LineKept, Present, OwnTables
<1>2. CASE AddOptions
  <2>1. PICK options \in Sets \cup {<<o>> : o \in Offered} : Becomes(AddedAll(Present, options))
    BY <1>2 DEF AddOptions
  <2>2. options \in Seq(Offered)
    <3>1. CASE options \in Sets
      BY <3>1, CliOptionsAssumption
    <3>2. ASSUME NEW o \in Offered, options = <<o>> PROVE options \in Seq(Offered)
      BY <3>2
    <3>3. QED
      BY <3>1, <3>2
  <2>3. Listed(AddedAll(Present, options), removed)
    BY <2>2, AllListed DEF OptionsIInv
  <2>4. removed' = removed
    BY <1>2 DEF AddOptions
  <2>5. QED
    BY <2>1, <2>3, <2>4, ChangeStep
<1>3. CASE RemoveOption
  <2>1. PICK name \in DOMAIN by_long :
          /\ \E short \in (IF by_long[name].short = None THEN {None}
                           ELSE {by_long[name].short, None}) \cup DOMAIN by_short :
               Becomes([definitions |-> Without(definitions, name),
                        by_long |-> [n \in DOMAIN by_long \ {name} |-> by_long[n]],
                        by_short |-> [s \in DOMAIN by_short \ {short} |-> by_short[s]]])
          /\ removed' = TRUE
    BY <1>3 DEF RemoveOption
  <2>2. PICK short, d :
          /\ d = [definitions |-> Without(definitions, name),
                  by_long |-> [n \in DOMAIN by_long \ {name} |-> by_long[n]],
                  by_short |-> [s \in DOMAIN by_short \ {short} |-> by_short[s]]]
          /\ Becomes(d)
    BY <2>1
  <2>3. Listed(d, TRUE)
    BY <2>2, OneLessListed DEF OptionsIInv
  <2>4. QED
    BY <2>1, <2>2, <2>3, ChangeStep
<1>4. CASE ClearOptions
  <2>1. PICK d : /\ d = [definitions |-> <<>>, by_long |-> <<>>, by_short |-> <<>>]
                 /\ Becomes(d)
    BY <1>4 DEF ClearOptions
  <2>2. Listed(d, removed')
    BY <2>1, NoneListed
  <2>3. QED
    BY <2>1, <2>2, ChangeStep
<1>5. CASE ParseLine
  <2>1. PICK args \in CommandLines : parsed' = [args |-> args, result |-> Parse(OwnTables, args)]
    BY <1>5 DEF ParseLine
  <2>2. args \in Seq(DOMAIN Shape)
    BY CliOptionsAssumption
  <2>3. OwnTables' = OwnTables /\ Present' = Present /\ removed' = removed
    BY <1>5 DEF ParseLine, OwnTables, Present
  <2>4. LineKept'
    BY <2>1, <2>2, <2>3 DEF LineKept
  <2>5. Listed(Present', removed')
    BY <2>3 DEF OptionsIInv
  <2>6. QED
    BY <2>4, <2>5 DEF OptionsIInv
<1>6. QED
  BY <1>1, <1>2, <1>3, <1>4, <1>5 DEF OptionsNext

\* Whatever options are added together or alone, refused, removed and cleared,
\* each name answers to one option, the listed ones are those that are found, and
\* the loop over a line comes to what the whole line says.
THEOREM NamesAndLinesHold == OptionsSpec => []NamesAndLines
<1>1. OptionsIInv => NamesAndLines
  <2> SUFFICES ASSUME OptionsIInv PROVE NamesAndLines
    OBVIOUS
  <2>1. NamesAreUnique
    BY DEF OptionsIInv, Listed, Unique, Present, NamesAreUnique
  <2>2. Offers(OwnTables)
    BY DEF OptionsIInv, Listed, Present, OwnTables, Offers
  <2>3. LinesAreRead
    BY <2>2, ParseAnswers DEF OptionsIInv, LineKept, LinesAreRead
  <2>4. QED
    BY <2>1, <2>3 DEF NamesAndLines
<1>2. QED
  BY <1>1, OptionsInitially, OptionsStep, PTL DEF OptionsSpec

-----------------------------------------------------------------------------
(* OverridesInForce.                                                       *)

\* What is known of the result of a line, as far as it has been read.
ResultOk(r) ==
  /\ DOMAIN r = {"status", "ends", "overrides", "errors", "warnings", "applied"}
  /\ DOMAIN r.overrides \subseteq Paths

LEMMA TurnOk ==
  ASSUME NEW args, NEW i, NEW r, ResultOk(r)
  PROVE  ResultOk(Turn(Tables, args, i, r))
<1> DEFINE option == ParsedOption(Tables, args, i)
<1>1. option.path # None => option.path \in Paths
  <2>1. CASE Found(Tables, args[i]) = None
    BY <2>1 DEF ParsedOption
  <2>2. CASE Found(Tables, args[i]) # None
    <3>1. Found(Tables, args[i]).path \in Paths
      BY <2>2, ConfigOverrideAssumption DEF Found
    <3>2. QED
      BY <2>2, <3>1 DEF ParsedOption
  <2>3. QED
    BY <2>1, <2>2
<1> HIDE DEF option
<1>2. option.path # None => DOMAIN With(r.overrides, option.path, option.value) \subseteq Paths
  BY <1>1 DEF With, ResultOk
<1>3. QED
  BY <1>2 DEF Turn, ResultOk, option

LEMMA ParsedForPaths ==
  ASSUME NEW args, Len(args) \in Nat
  PROVE  DOMAIN Parse(Tables, args).overrides \subseteq Paths
<1>1. PICK after : /\ Parse(Tables, args) = after[Len(args)]
                   /\ \A i \in 0 .. Len(args) : after[i] = After(Tables, args, after, i)
  BY ParseTurns
<1> DEFINE Bad == {k \in 0 .. Len(args) : ~ ResultOk(after[k])}
<1>2. Bad = {}
  <2> SUFFICES ASSUME Bad # {} PROVE FALSE
    OBVIOUS
  <2>1. PICK m \in Bad : \A y \in Bad : m <= y
    <3>1. Bad \in SUBSET Nat
      OBVIOUS
    <3>2. QED
      BY <3>1, LeastElement
  <2>2. after[m] = After(Tables, args, after, m)
    BY <1>1, <2>1
  <2>3. ResultOk(Nothing)
    BY DEF ResultOk, Nothing
  <2>4. m # 0
    BY <2>1, <2>2, <2>3 DEF After
  <2>5. m - 1 \in 0 .. Len(args) /\ ~ (m <= m - 1)
    BY <2>4
  <2>6. ResultOk(after[m - 1])
    BY <2>1, <2>5
  <2>7. QED
    BY <2>1, <2>2, <2>4, <2>6, TurnOk DEF After
<1>3. QED
  BY <1>1, <1>2 DEF ResultOk

-----------------------------------------------------------------------------
(* What is counted.                                                        *)

Pairs(counts) == UNION {{p} \X (1 .. counts[p]) : p \in DOMAIN counts}

LEMMA CountsAdd ==
  ASSUME NEW counts, NEW paths, IsFiniteSet(paths), IsFiniteSet(Pairs(counts)),
         \A p \in DOMAIN counts : counts[p] \in Nat
  PROVE  /\ IsFiniteSet(Pairs(CountedOnce(counts, paths)))
         /\ Cardinality(Pairs(CountedOnce(counts, paths)))
              = Cardinality(Pairs(counts)) + Cardinality(paths)
         /\ \A p \in DOMAIN CountedOnce(counts, paths) : CountedOnce(counts, paths)[p] \in Nat
<1> DEFINE Old(p) == IF p \in DOMAIN counts THEN counts[p] ELSE 0
           more == CountedOnce(counts, paths)
           Following(p) == <<p, Old(p) + 1>>
           new == {Following(p) : p \in paths}
<1>1. /\ DOMAIN more = DOMAIN counts \cup paths
      /\ \A p \in DOMAIN more : Old(p) \in Nat
      /\ \A p \in DOMAIN more : more[p] = Old(p) + (IF p \in paths THEN 1 ELSE 0)
  BY DEF CountedOnce
<1>2. \A p \in DOMAIN more : more[p] \in Nat
  BY <1>1
<1>3. \A q : q \in Pairs(counts)
               <=> \E p \in DOMAIN counts : \E k \in 1 .. counts[p] : q = <<p, k>>
  BY DEF Pairs
<1>4. \A q : q \in Pairs(more)
               <=> \E p \in DOMAIN more : \E k \in 1 .. more[p] : q = <<p, k>>
  BY DEF Pairs
<1> HIDE DEF more
<1>5. Pairs(more) = Pairs(counts) \cup new
  <2>1. ASSUME NEW p \in DOMAIN more, NEW k \in 1 .. more[p]
        PROVE  <<p, k>> \in Pairs(counts) \cup new
    <3>1. CASE k <= Old(p)
      <4>1. p \in DOMAIN counts /\ k \in 1 .. counts[p]
        BY <1>1, <3>1
      <4>2. QED
        BY <1>3, <4>1
    <3>2. CASE ~ (k <= Old(p))
      <4>1. p \in paths /\ k = Old(p) + 1
        BY <1>1, <3>2
      <4>2. QED
        BY <4>1
    <3>3. QED
      BY <3>1, <3>2
  <2>2. ASSUME NEW p \in DOMAIN counts, NEW k \in 1 .. counts[p]
        PROVE  <<p, k>> \in Pairs(more)
    <3>1. p \in DOMAIN more /\ k \in 1 .. more[p]
      BY <1>1
    <3>2. QED
      BY <1>4, <3>1
  <2>3. ASSUME NEW p \in paths
        PROVE  Following(p) \in Pairs(more)
    <3>1. p \in DOMAIN more /\ Old(p) + 1 \in 1 .. more[p]
      BY <1>1
    <3>2. QED
      BY <1>4, <3>1
  <2>4. QED
    BY <1>3, <1>4, <2>1, <2>2, <2>3
<1>6. Pairs(counts) \cap new = {}
  <2> SUFFICES ASSUME NEW p \in paths, Following(p) \in Pairs(counts) PROVE FALSE
    OBVIOUS
  <2>1. p \in DOMAIN counts /\ Old(p) + 1 \in 1 .. counts[p]
    BY <1>3
  <2>2. QED
    BY <2>1
<1>7. IsFiniteSet(new) /\ Cardinality(new) = Cardinality(paths)
  <2> DEFINE f == [p \in paths |-> Following(p)]
  <2>1. f \in Bijection(paths, new)
    <3>1. f \in [paths -> new]
      OBVIOUS
    <3>2. \A p, q \in paths : f[p] = f[q] => p = q
      OBVIOUS
    <3>3. \A n \in new : \E p \in paths : f[p] = n
      OBVIOUS
    <3>4. QED
      BY <3>1, <3>2, <3>3 DEF Bijection, Injection, Surjection, IsInjective
  <2>2. ExistsBijection(paths, new)
    BY <2>1 DEF ExistsBijection
  <2>3. QED
    BY <2>2, FS_Bijection
<1>8. /\ IsFiniteSet(Pairs(more))
      /\ Cardinality(Pairs(more)) = Cardinality(Pairs(counts)) + Cardinality(paths)
  <2>1. /\ Cardinality(Pairs(counts) \cap new) = 0
        /\ Cardinality(Pairs(counts)) \in Nat /\ Cardinality(new) \in Nat
    BY <1>6, <1>7, FS_EmptySet, FS_CardinalityType
  <2>2. IsFiniteSet(Pairs(counts)) /\ IsFiniteSet(new)
    BY <1>5, <1>7
  <2>3. /\ IsFiniteSet(Pairs(counts) \cup new)
        /\ Cardinality(Pairs(counts) \cup new)
             = Cardinality(Pairs(counts)) + Cardinality(new) - Cardinality(Pairs(counts) \cap new)
    BY <2>2, FS_Union, Zenon
  <2>4. QED
    BY <1>5, <1>7, <2>1, <2>3
<1>9. QED
  BY <1>2, <1>8 DEF more

LEMMA SeqOfMore ==
  ASSUME NEW S, NEW T, S \subseteq T, NEW s \in Seq(S)
  PROVE  s \in Seq(T)
<1>1. \A i \in 1 .. Len(s) : s[i] \in T
  OBVIOUS
<1>2. s = [i \in 1 .. Len(s) |-> s[i]] /\ Len(s) \in Nat
  OBVIOUS
<1>3. QED
  BY <1>1, <1>2

LEMMA RecentKeeps ==
  ASSUME NEW S, NEW s \in Seq(S)
  PROVE  Recent(s) \in Seq(S) /\ Len(Recent(s)) <= RecentSize
<1>1. RecentSize \in Nat /\ Len(s) \in Nat
  BY ConfigOverrideAssumption
<1>2. CASE Len(s) > RecentSize
  <2> DEFINE m == Len(s) - RecentSize + 1
  <2>1. m \in 1 .. Len(s) + 1 /\ Len(s) - m + 1 = RecentSize
    BY <1>1, <1>2
  <2>2. SubSeq(s, m, Len(s)) = [i \in 1 .. RecentSize |-> s[i + m - 1]]
    BY <1>1, <2>1
  <2>3. \A i \in 1 .. RecentSize : i + m - 1 \in 1 .. Len(s)
    BY <1>1, <1>2
  <2>4. QED
    BY <1>1, <1>2, <2>2, <2>3 DEF Recent
<1>3. CASE ~ (Len(s) > RecentSize)
  BY <1>1, <1>3 DEF Recent
<1>4. QED
  BY <1>2, <1>3

\* What a request does has been parsed and, before it is applied, validated.
RequestOk(r) ==
  /\ DOMAIN r = {"at", "args", "result"}
  /\ r.at \in {"applies", "counts"} => DOMAIN r.result.overrides \subseteq Paths
  /\ r.at = "applies" => Validated(r.result.overrides)

RequestsOk == DOMAIN request = Threads /\ \A t \in Threads : RequestOk(request[t])

\* Where an override comes from is known of those in force.
SourcesKnown == DOMAIN sources = DOMAIN current

CountsOk ==
  /\ DOMAIN statistics = {"total", "active", "counts", "recent"}
  /\ \A p \in DOMAIN statistics.counts : statistics.counts[p] \in Nat
  /\ IsFiniteSet(Pairs(statistics.counts))
  /\ statistics.total = Cardinality(Pairs(statistics.counts))
  /\ statistics.recent \in Seq(DOMAIN statistics.counts)
  /\ Len(statistics.recent) <= RecentSize

OverrideIInv == RequestsOk /\ SourcesKnown /\ RefusedLeaveNothing /\ CountsOk

\* Another request is put in the place of one.
LEMMA RequestStep ==
  ASSUME RequestsOk, NEW t \in Threads, NEW r, RequestOk(r), request' = [request EXCEPT ![t] = r]
  PROVE  RequestsOk'
BY DEF RequestsOk, RequestOk

\* Some overrides are put in force.
LEMMA MergeStep ==
  ASSUME SourcesKnown, RefusedLeaveNothing, NEW overrides, NEW source \in BOOLEAN,
         NEW paths \in SUBSET DOMAIN overrides, paths \cap Internal = {},
         source => Validated(overrides),
         current' = Merge(current, overrides, paths),
         sources' = Merge(sources, [p \in DOMAIN overrides |-> source], paths)
  PROVE  SourcesKnown' /\ RefusedLeaveNothing'
<1>1. /\ DOMAIN current' = DOMAIN current \cup paths /\ DOMAIN sources' = DOMAIN current'
      /\ \A p \in DOMAIN current' :
            /\ current'[p] = IF p \in paths THEN overrides[p] ELSE current[p]
            /\ sources'[p] = IF p \in paths THEN source ELSE sources[p]
  BY DEF Merge, SourcesKnown
<1>2. ASSUME NEW p \in DOMAIN current'
      PROVE  p \notin Internal /\ (sources'[p] => ObeysRule(p, current'[p]))
  <2>1. CASE p \in paths
    BY <1>1, <2>1 DEF Validated
  <2>2. CASE p \notin paths
    BY <1>1, <2>2 DEF RefusedLeaveNothing
  <2>3. QED
    BY <2>1, <2>2
<1>3. QED
  BY <1>1, <1>2 DEF SourcesKnown, RefusedLeaveNothing

LEMMA ProcessesStep ==
  ASSUME RequestsOk, NEW t \in Threads, Processes(t)
  PROVE  RequestsOk'
<1>1. PICK args \in Lines :
        LET result == Parse(Tables, args)
            fit == result.status = "SUCCESS" /\ result.overrides # <<>>
            valid == Validated(result.overrides)
        IN  request' = [request EXCEPT ![t] =
                          [at |-> IF fit /\ valid THEN "applies" ELSE "returned", args |-> args,
                           result |-> IF fit /\ ~valid
                                      THEN [result EXCEPT !.status = "CONSTRAINT_VIOLATION",
                                                          !.errors = @ + 1]
                                      ELSE result]]
  BY DEF Processes
<1>2. DOMAIN Parse(Tables, args).overrides \subseteq Paths
  BY ConfigOverrideAssumption, ParsedForPaths
<1> HIDE DEF Parse
<1>3. PICK r : request' = [request EXCEPT ![t] = r] /\ RequestOk(r)
  <2> DEFINE result == Parse(Tables, args)
             fit == result.status = "SUCCESS" /\ result.overrides # <<>>
             valid == Validated(result.overrides)
             r == [at |-> IF fit /\ valid THEN "applies" ELSE "returned", args |-> args,
                   result |-> IF fit /\ ~valid
                              THEN [result EXCEPT !.status = "CONSTRAINT_VIOLATION",
                                                  !.errors = @ + 1]
                              ELSE result]
  <2>1. request' = [request EXCEPT ![t] = r]
    BY <1>1
  <2>2. RequestOk(r)
    BY <1>2 DEF RequestOk
  <2>3. QED
    BY <2>1, <2>2
<1>4. QED
  BY <1>3, RequestStep

LEMMA AppliesStep ==
  ASSUME OverrideIInv, NEW t \in Threads, Applies(t)
  PROVE  OverrideIInv'
<1> DEFINE overrides == request[t].result.overrides
<1>1. /\ DOMAIN overrides \subseteq Paths /\ Validated(overrides)
      /\ DOMAIN request[t] = {"at", "args", "result"}
  BY DEF OverrideIInv, RequestsOk, RequestOk, Applies
<1>2. PICK paths \in SUBSET Applied(overrides), at \in {"waits for itself", "counts"} :
        /\ current' = Merge(current, overrides, paths)
        /\ sources' = Merge(sources, [p \in DOMAIN overrides |-> TRUE], paths)
        /\ request' = [request EXCEPT ![t].at = at]
  <2>1. CASE Asks(overrides)
    <3>1. PICK path \in Applied(overrides) :
            /\ current' = Merge(current, overrides, {path})
            /\ sources' = Merge(sources, [p \in DOMAIN overrides |-> TRUE], {path})
            /\ request' = [request EXCEPT ![t].at = "waits for itself"]
      BY <2>1 DEF Applies
    <3>2. {path} \in SUBSET Applied(overrides)
      BY <3>1
    <3>3. QED
      BY <3>1, <3>2
  <2>2. CASE ~Asks(overrides)
    BY <2>2 DEF Applies
  <2>3. QED
    BY <2>1, <2>2
<1>3. RequestsOk'
  <2>1. PICK r : request' = [request EXCEPT ![t] = r] /\ r = [request[t] EXCEPT !.at = at]
    BY <1>2
  <2>2. RequestOk(r)
    BY <1>1, <2>1 DEF RequestOk
  <2>3. QED
    BY <2>1, <2>2, RequestStep DEF OverrideIInv
<1>4. SourcesKnown' /\ RefusedLeaveNothing'
  <2>1. paths \in SUBSET DOMAIN overrides /\ paths \cap Internal = {}
    BY DEF Applied
  <2> HIDE DEF overrides
  <2>2. QED
    BY <1>1, <1>2, <2>1, MergeStep DEF OverrideIInv
<1>5. CountsOk'
  BY DEF Applies, OverrideIInv, CountsOk
<1>6. QED
  BY <1>3, <1>4, <1>5 DEF OverrideIInv

LEMMA CountsStep ==
  ASSUME OverrideIInv, NEW t \in Threads, Counts(t)
  PROVE  OverrideIInv'
<1> DEFINE paths == DOMAIN request[t].result.overrides
<1>1. IsFiniteSet(paths) /\ DOMAIN request[t] = {"at", "args", "result"}
  <2>1. paths \subseteq Paths /\ DOMAIN request[t] = {"at", "args", "result"}
    BY DEF OverrideIInv, RequestsOk, RequestOk, Counts
  <2> HIDE DEF paths
  <2>2. QED
    BY <2>1, FS_Subset, ConfigOverrideAssumption
<1>2. PICK order \in SetToSeqs(paths) :
        statistics' = [total |-> statistics.total + Cardinality(paths),
                       active |-> Cardinality(DOMAIN current),
                       counts |-> CountedOnce(statistics.counts, paths),
                       recent |-> Recent(statistics.recent \o order)]
  BY DEF Counts
<1>3. RequestsOk'
  <2>1. PICK r : request' = [request EXCEPT ![t] = r] /\ r = [request[t] EXCEPT !.at = "returned"]
    BY DEF Counts
  <2>2. RequestOk(r)
    BY <1>1, <2>1 DEF RequestOk
  <2>3. QED
    BY <2>1, <2>2, RequestStep DEF OverrideIInv
<1>4. SourcesKnown' /\ RefusedLeaveNothing'
  BY DEF Counts, OverrideIInv, SourcesKnown, RefusedLeaveNothing
<1>5. CountsOk'
  <2> HIDE DEF paths
  <2> DEFINE counts == CountedOnce(statistics.counts, paths)
  <2>1. /\ IsFiniteSet(Pairs(counts))
        /\ Cardinality(Pairs(counts)) = statistics.total + Cardinality(paths)
        /\ \A p \in DOMAIN counts : counts[p] \in Nat
    BY <1>1, CountsAdd DEF OverrideIInv, CountsOk
  <2>2. statistics.recent \o order \in Seq(DOMAIN counts)
    <3>1. DOMAIN counts = DOMAIN statistics.counts \cup paths
      BY DEF CountedOnce
    <3>2. order \in Seq(paths)
      BY <1>1, <1>2, FS_CardinalityType DEF SetToSeqs
    <3> HIDE DEF counts
    <3>3. statistics.recent \in Seq(DOMAIN counts) /\ order \in Seq(DOMAIN counts)
      BY <3>1, <3>2, SeqOfMore DEF OverrideIInv, CountsOk
    <3>4. QED
      BY <3>3
  <2> HIDE DEF counts
  <2>3. /\ Recent(statistics.recent \o order) \in Seq(DOMAIN counts)
        /\ Len(Recent(statistics.recent \o order)) <= RecentSize
    BY <2>2, RecentKeeps
  <2>4. /\ statistics'.total = statistics.total + Cardinality(paths)
        /\ statistics'.counts = counts /\ statistics'.recent = Recent(statistics.recent \o order)
        /\ DOMAIN statistics' = {"total", "active", "counts", "recent"}
    BY <1>2 DEF counts
  <2>5. QED
    BY <2>1, <2>3, <2>4 DEF CountsOk
<1>6. QED
  BY <1>3, <1>4, <1>5 DEF OverrideIInv

LEMMA OutsideStep ==
  ASSUME OverrideIInv, NEW t \in Threads, ApplyOverrides(t)
  PROVE  OverrideIInv'
<1>1. PICK overrides \in Outside :
        IF Asks(overrides)
        THEN \E path \in Applied(overrides) :
               /\ current' = Merge(current, overrides, {path})
               /\ sources' = Merge(sources, [p \in DOMAIN overrides |-> FALSE], {path})
               /\ request' = [request EXCEPT ![t].at = "waits for itself"]
        ELSE /\ current' = Merge(current, overrides, Applied(overrides))
             /\ sources' = Merge(sources, [p \in DOMAIN overrides |-> FALSE], Applied(overrides))
             /\ UNCHANGED request
  BY DEF ApplyOverrides
<1>2. PICK paths \in SUBSET Applied(overrides) :
        /\ current' = Merge(current, overrides, paths)
        /\ sources' = Merge(sources, [p \in DOMAIN overrides |-> FALSE], paths)
        /\ request' = request \/ request' = [request EXCEPT ![t].at = "waits for itself"]
  <2>1. CASE Asks(overrides)
    <3>1. PICK path \in Applied(overrides) :
            /\ current' = Merge(current, overrides, {path})
            /\ sources' = Merge(sources, [p \in DOMAIN overrides |-> FALSE], {path})
            /\ request' = [request EXCEPT ![t].at = "waits for itself"]
      BY <1>1, <2>1
    <3>2. {path} \in SUBSET Applied(overrides)
      BY <3>1
    <3>3. QED
      BY <3>1, <3>2
  <2>2. CASE ~Asks(overrides)
    BY <1>1, <2>2
  <2>3. QED
    BY <2>1, <2>2
<1>3. RequestsOk'
  <2>1. CASE request' = request
    BY <2>1 DEF OverrideIInv, RequestsOk, RequestOk
  <2>2. CASE request' = [request EXCEPT ![t].at = "waits for itself"]
    <3>1. PICK r : /\ request' = [request EXCEPT ![t] = r]
                   /\ r = [request[t] EXCEPT !.at = "waits for itself"]
      BY <2>2
    <3>2. RequestOk(r)
      BY <3>1 DEF OverrideIInv, RequestsOk, RequestOk
    <3>3. QED
      BY <3>1, <3>2, RequestStep DEF OverrideIInv
  <2>3. QED
    BY <1>2, <2>1, <2>2
<1>4. SourcesKnown' /\ RefusedLeaveNothing'
  <2>1. paths \in SUBSET DOMAIN overrides /\ paths \cap Internal = {}
    BY DEF Applied
  <2>2. QED
    BY <1>2, <2>1, MergeStep DEF OverrideIInv
<1>5. CountsOk'
  BY DEF ApplyOverrides, OverrideIInv, CountsOk
<1>6. QED
  BY <1>3, <1>4, <1>5 DEF OverrideIInv

LEMMA ReturnsStep ==
  ASSUME OverrideIInv, NEW t \in Threads, RequestReturns(t)
  PROVE  OverrideIInv'
<1>1. RequestOk(NoRequest)
  BY DEF RequestOk, NoRequest
<1>2. RequestsOk'
  BY <1>1, RequestStep DEF RequestReturns, OverrideIInv
<1>3. SourcesKnown' /\ RefusedLeaveNothing' /\ CountsOk'
  BY DEF RequestReturns, OverrideIInv, SourcesKnown, RefusedLeaveNothing, CountsOk
<1>4. QED
  BY <1>2, <1>3 DEF OverrideIInv

LEMMA RemoveStep ==
  ASSUME OverrideIInv, NEW t \in Threads, RemoveOverride(t)
  PROVE  OverrideIInv'
<1>1. PICK path \in DOMAIN current :
        /\ current' = [p \in DOMAIN current \ {path} |-> current[p]]
        /\ sources' = [p \in DOMAIN current \ {path} |-> sources[p]]
  BY DEF RemoveOverride
<1>2. SourcesKnown' /\ RefusedLeaveNothing'
  BY <1>1 DEF OverrideIInv, SourcesKnown, RefusedLeaveNothing
<1>3. RequestsOk'
  BY DEF RemoveOverride, OverrideIInv, RequestsOk, RequestOk
<1>4. /\ DOMAIN statistics' = DOMAIN statistics
      /\ statistics'.total = statistics.total
      /\ statistics'.counts = statistics.counts /\ statistics'.recent = statistics.recent
  BY DEF RemoveOverride, OverrideIInv, CountsOk
<1>5. CountsOk'
  BY <1>4 DEF OverrideIInv, CountsOk
<1>6. QED
  BY <1>2, <1>3, <1>5 DEF OverrideIInv

LEMMA ClearStep ==
  ASSUME OverrideIInv, NEW t \in Threads, ClearOverrides(t)
  PROVE  OverrideIInv'
<1>1. SourcesKnown' /\ RefusedLeaveNothing'
  BY DEF ClearOverrides, SourcesKnown, RefusedLeaveNothing
<1>2. RequestsOk'
  BY DEF ClearOverrides, OverrideIInv, RequestsOk, RequestOk
<1>3. /\ DOMAIN statistics' = DOMAIN statistics
      /\ statistics'.total = statistics.total
      /\ statistics'.counts = statistics.counts /\ statistics'.recent = <<>>
  BY DEF ClearOverrides, OverrideIInv, CountsOk
<1>4. <<>> \in Seq(DOMAIN statistics.counts)
  OBVIOUS
<1>5. CountsOk'
  BY <1>3, <1>4, ConfigOverrideAssumption DEF OverrideIInv, CountsOk
<1>6. QED
  BY <1>1, <1>2, <1>5 DEF OverrideIInv

\* Nothing counted is counted rightly.
LEMMA NothingCounted == statistics = NoStatistics => CountsOk
<1> SUFFICES ASSUME statistics = NoStatistics PROVE CountsOk
  OBVIOUS
<1>1. DOMAIN NoStatistics.counts = {}
  BY DEF NoStatistics
<1>2. Pairs(NoStatistics.counts) = {}
  BY <1>1 DEF Pairs
<1>3. IsFiniteSet({}) /\ Cardinality({}) = 0
  BY FS_EmptySet
<1>4. <<>> \in Seq(DOMAIN NoStatistics.counts)
  OBVIOUS
<1>5. NoStatistics.recent = <<>> /\ NoStatistics.total = 0
  BY DEF NoStatistics
<1>6. DOMAIN NoStatistics = {"total", "active", "counts", "recent"}
  BY DEF NoStatistics
<1>7. Len(<<>>) <= RecentSize
  BY ConfigOverrideAssumption
<1>8. QED
  BY <1>1, <1>2, <1>3, <1>4, <1>5, <1>6, <1>7 DEF CountsOk

LEMMA ResetStep ==
  ASSUME OverrideIInv, NEW t \in Threads, ResetStatistics(t)
  PROVE  OverrideIInv'
<1>1. SourcesKnown' /\ RefusedLeaveNothing'
  BY DEF ResetStatistics, OverrideIInv, SourcesKnown, RefusedLeaveNothing
<1>2. RequestsOk'
  BY DEF ResetStatistics, OverrideIInv, RequestsOk, RequestOk
<1>3. CountsOk'
  <2>1. statistics' = NoStatistics
    BY DEF ResetStatistics
  <2>2. (statistics = NoStatistics => CountsOk)'
    BY NothingCounted, PTL
  <2>3. QED
    BY <2>1, <2>2
<1>4. QED
  BY <1>1, <1>2, <1>3 DEF OverrideIInv

\* What is in force stays accounted for: no override came from a command line that was
\* refused and none is internal, and the total is the sum of the counts whose paths the
\* recent ones are, whatever the threads do to either at the same time.
THEOREM OverridesStayInForce == OverrideSpec => []OverridesInForce
<1>1. OverrideInit => OverrideIInv
  <2> SUFFICES ASSUME OverrideInit PROVE OverrideIInv
    OBVIOUS
  <2>1. RequestOk(NoRequest)
    BY DEF RequestOk, NoRequest
  <2>2. RequestsOk
    BY <2>1 DEF OverrideInit, RequestsOk
  <2>3. SourcesKnown /\ RefusedLeaveNothing
    BY DEF OverrideInit, SourcesKnown, RefusedLeaveNothing
  <2>4. CountsOk
    BY NothingCounted DEF OverrideInit
  <2>5. QED
    BY <2>2, <2>3, <2>4 DEF OverrideIInv
<1>2. OverrideIInv /\ [OverrideNext]_overrideVars => OverrideIInv'
  <2> SUFFICES ASSUME OverrideIInv, [OverrideNext]_overrideVars PROVE OverrideIInv'
    OBVIOUS
  <2>1. CASE UNCHANGED overrideVars
    BY <2>1 DEF overrideVars, OverrideIInv, RequestsOk, RequestOk, SourcesKnown,
                RefusedLeaveNothing, CountsOk
  <2>2. ASSUME NEW t \in Threads, Processes(t) PROVE OverrideIInv'
    <3>1. RequestsOk'
      BY <2>2, ProcessesStep DEF OverrideIInv
    <3>2. SourcesKnown' /\ RefusedLeaveNothing' /\ CountsOk'
      BY <2>2 DEF Processes, OverrideIInv, SourcesKnown, RefusedLeaveNothing, CountsOk
    <3>3. QED
      BY <3>1, <3>2 DEF OverrideIInv
  <2>3. QED
    BY <2>1, <2>2, AppliesStep, CountsStep, ReturnsStep, OutsideStep, RemoveStep, ClearStep,
       ResetStep DEF OverrideNext
<1>3. OverrideIInv => OverridesInForce
  <2> SUFFICES ASSUME OverrideIInv PROVE OverridesInForce
    OBVIOUS
  <2>1. ToSet(statistics.recent) \subseteq DOMAIN statistics.counts
    BY DEF OverrideIInv, CountsOk, ToSet
  <2>2. QED
    BY <2>1 DEF OverrideIInv, CountsOk, Pairs, OverridesInForce, StatisticsAddUp
<1>4. QED
  BY <1>1, <1>2, <1>3, PTL DEF OverrideSpec
=============================================================================

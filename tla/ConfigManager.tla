----------------------------- MODULE ConfigManager -----------------------------
(***************************************************************************)
(* BBP::ConfigManager: the sections of the configuration behind one lock,  *)
(* loaded from a YAML file and, while watching is enabled, loaded again by *)
(* a thread that looks at the file every second.                           *)
(*                                                                         *)
(* The lock is not recursive: a method that calls another one of the same  *)
(* object, and merge, whose two objects are the one instance there is,     *)
(* wait for the lock they hold.  A method that does not wait in the middle *)
(* is one step; a load is two, for the file may change in between.         *)
(***************************************************************************)
EXTENDS Naturals, Sequences, FiniteSets, FiniteSetsExt, SequencesExt, TLC

CONSTANTS
  Callers,      \* threads of the application
  Watchers,     \* threads that startWatcher may start
  Nobody,       \* no thread
  Files,        \* names of files
  NoFile,       \* the empty name
  Sections,     \* names of sections
  Keys,         \* keys in a section
  Nodes,        \* scalars an application may store: [kind, text]
  Documents,    \* what a file may say: a sequence of sections
  Missing,      \* no file
  Unparsable,   \* not YAML
  Emitted,      \* value -> the node that is read where YAML::Emitter wrote it
  Environment,  \* variable -> the node it is set to, or Unset
  Unset,
  Overridden,   \* BBP_DATABASE_HOST or BBP_RATE_LIMIT is set
  Callbacks,    \* what a reload callback may do: "none", "reads", "disables", "resets"
  MaxEdits,     \* bound: after as many edits and saves there is no edit
  MaxCalls      \* bound: methods called

ASSUME ConfigManagerAssumption ==
  /\ Callers \cap Watchers = {} /\ Nobody \notin Callers \cup Watchers
  /\ Overridden \in BOOLEAN
  /\ Callbacks \subseteq {"none", "reads", "disables", "resets"}
  /\ MaxEdits \in Nat /\ MaxCalls \in Nat

VARIABLES
  disk,                  \* file -> [says, stamp]
  mutex_,                \* who holds it
  sections_,             \* section -> key -> value
  templates_,            \* the template that was added, or no section at all
  validation_rules_,     \* there is a rule
  watching_enabled_,
  watched_file_,
  last_write_time_,
  watcher_thread_,
  should_stop_watching_,
  reload_callback_,
  pc,                    \* thread -> where it is
  call,                  \* caller -> [method, file]
  calls                  \* observer: methods called

data == <<sections_, templates_, validation_rules_>>
watch == <<watching_enabled_, watched_file_, last_write_time_, watcher_thread_,
           should_stop_watching_>>
vars == <<disk, mutex_, data, watch, reload_callback_, pc, call, calls>>

Idle == [method |-> "none", file |-> NoFile]

Init ==
  /\ disk \in [Files -> [says : Documents \cup {Missing}, stamp : {1}]]
  /\ mutex_ = Nobody
  /\ sections_ = <<>> /\ templates_ = <<>> /\ validation_rules_ = FALSE
  /\ watching_enabled_ = FALSE /\ watched_file_ = NoFile /\ last_write_time_ = 0
  /\ watcher_thread_ = Nobody /\ should_stop_watching_ = FALSE
  /\ reload_callback_ = "none"
  /\ pc = [t \in Callers \cup Watchers |-> IF t \in Callers THEN "idle" ELSE "absent"]
  /\ call = [t \in Callers |-> Idle]
  /\ calls = 0

-----------------------------------------------------------------------------
(* What a document says.  A section is [name, map, items]; an item is a    *)
(* pair of a key and a node.                                               *)

\* expandVariables: while there is a variable that is set it is replaced.  One whose
\* value leads back to itself is replaced for ever.
Expanded(node) ==
  LET step[n \in 0 .. Cardinality(DOMAIN Environment)] ==
        IF n = 0 THEN node
        ELSE LET last == step[n - 1]
             IN  IF last.kind = "variable" /\ Environment[last.text] # Unset
                 THEN Environment[last.text]
                 ELSE last
  IN  step[Cardinality(DOMAIN Environment)]

Spins(node) ==
  /\ node.kind = "variable"
  /\ Expanded(node).kind = "variable" /\ Environment[Expanded(node).text] # Unset

\* parseYamlValue; a map below a section is not a value.
TypeOf == [bool |-> "bool", whole |-> "int", fraction |-> "double", word |-> "string",
           variable |-> "string", list |-> "array"]
Value(node) == [type |-> TypeOf[node.kind], text |-> Expanded(node).text]
Throws(node) == node.kind = "nested"

Merged(section, other, overwrite) ==
  [key \in DOMAIN section \cup DOMAIN other |->
     IF key \in DOMAIN section /\ (overwrite => key \notin DOMAIN other)
     THEN section[key] ELSE other[key]]

\* The sections before the first that cannot be read replace all there were.
FirstBad(doc) ==
  Min({i \in 1 .. Len(doc) : \E j \in 1 .. Len(doc[i].items) :
          LET node == doc[i].items[j][2] IN Throws(node) \/ Spins(node)}
      \cup {Len(doc) + 1})

\* A load from a string keeps no value that is not in a map.
SectionOf(entry, fromFile) ==
  IF ~entry.map /\ ~fromFile THEN <<>>
  ELSE [k \in {entry.items[j][1] : j \in 1 .. Len(entry.items)} |->
          Value(entry.items[CHOOSE j \in 1 .. Len(entry.items) : entry.items[j][1] = k][2])]

Read(doc, fromFile) ==
  [name \in {doc[i].name : i \in 1 .. FirstBad(doc) - 1} |->
     SectionOf(doc[CHOOSE i \in 1 .. Len(doc) : doc[i].name = name], fromFile)]

Outcome(doc) ==
  IF FirstBad(doc) > Len(doc) THEN "loaded"
  ELSE IF \E j \in 1 .. Len(doc[FirstBad(doc)].items) :
            /\ Spins(doc[FirstBad(doc)].items[j][2])
            /\ \A k \in 1 .. j - 1 : ~Throws(doc[FirstBad(doc)].items[k][2])
       THEN "spins" ELSE "refused"

Exists(file) == file # NoFile /\ disk[file].says # Missing

-----------------------------------------------------------------------------
(* loadFromFile, by a caller or by the watcher.                            *)

\* Fault: the sections are cleared before the file is parsed.
ClearsFirst(t, file, refused, loaded) ==
  /\ mutex_ = Nobody
  /\ LET doc == disk[file].says
         parsed == Exists(file) /\ doc # Unparsable
         read == parsed /\ Outcome(doc) = "loaded"
     IN  /\ sections_' = IF parsed THEN Read(doc, TRUE) ELSE <<>>
         /\ pc' = [pc EXCEPT ![t] = IF read THEN loaded ELSE refused]
         /\ mutex_' = IF read THEN t ELSE Nobody
  /\ UNCHANGED <<disk, templates_, validation_rules_, watch, reload_callback_>>

\* Up to the sections: nothing is cleared before the file has been parsed.
LoadReads(t, file, refused, loaded) ==
  /\ mutex_ = Nobody
  /\ IF ~Exists(file) \/ disk[file].says = Unparsable
     THEN /\ pc' = [pc EXCEPT ![t] = refused]
          /\ UNCHANGED <<sections_, mutex_>>
     ELSE LET doc == disk[file].says IN
          /\ sections_' = Read(doc, TRUE)
          /\ pc' = [pc EXCEPT ![t] = CASE Outcome(doc) = "refused" -> refused
                                       [] Outcome(doc) = "spins" -> "spins"
                                       [] OTHER -> loaded]
          /\ mutex_' = IF Outcome(doc) = "refused" THEN Nobody ELSE t
  /\ UNCHANGED <<disk, templates_, validation_rules_, watch, reload_callback_>>

\* The stamp is read when the text has been: what was written in between has it.
LoadStamps(t, file, then) ==
  /\ watched_file_' = file
  /\ last_write_time_' = IF Exists(file) THEN disk[file].stamp ELSE last_write_time_
  /\ mutex_' = Nobody
  /\ pc' = [pc EXCEPT ![t] = then]
  /\ UNCHANGED <<disk, data, watching_enabled_, watcher_thread_, should_stop_watching_,
                 reload_callback_>>

\* A caller keeps its call until it returns.
Returned(t) == call' = [call EXCEPT ![t] = IF pc'[t] = "idle" THEN Idle ELSE call[t]]

LoadFromFile(t) ==
  \/ /\ pc[t] = "enters" /\ call[t].method = "loadFromFile"
     /\ LoadReads(t, call[t].file, "idle", "stamps")
     /\ Returned(t) /\ UNCHANGED calls
  \/ /\ pc[t] = "stamps" /\ t \in Callers
     /\ LoadStamps(t, call[t].file, "idle")
     /\ Returned(t) /\ UNCHANGED calls

-----------------------------------------------------------------------------
(* The methods that are one step, and those that wait for themselves.      *)

Calls(t, method, file) ==
  /\ pc[t] = "idle" /\ calls < MaxCalls
  /\ pc' = [pc EXCEPT ![t] = "enters"]
  /\ call' = [call EXCEPT ![t] = [method |-> method, file |-> file]]
  /\ calls' = calls + 1
  /\ UNCHANGED <<disk, mutex_, data, watch, reload_callback_>>

Enters(t, method) == pc[t] = "enters" /\ call[t].method = method /\ mutex_ = Nobody
Leaves(t) ==
  /\ pc' = [pc EXCEPT ![t] = "idle"] /\ call' = [call EXCEPT ![t] = Idle]
  /\ UNCHANGED <<disk, mutex_, watch, calls>>

SectionAt(name) == IF name \in DOMAIN sections_ THEN sections_[name] ELSE <<>>
WithSection(name, section) == [n \in {name} |-> section] @@ sections_

Set(t) ==
  /\ Enters(t, "set")
  /\ \E name \in Sections, key \in Keys, node \in Nodes :
       sections_' = WithSection(name, Merged(SectionAt(name), [k \in {key} |-> Value(node)], TRUE))
  /\ UNCHANGED <<templates_, validation_rules_, reload_callback_>> /\ Leaves(t)

RemoveKey(t) ==
  /\ Enters(t, "remove")
  /\ \E name \in Sections, key \in Keys :
       sections_' = IF name \in DOMAIN sections_
                    THEN WithSection(name, [k \in DOMAIN sections_[name] \ {key} |-> sections_[name][k]])
                    ELSE sections_
  /\ UNCHANGED <<templates_, validation_rules_, reload_callback_>> /\ Leaves(t)

\* setSection, with the section another section is.
SetSection(t) ==
  /\ Enters(t, "setSection")
  /\ \E name, from \in Sections : sections_' = WithSection(name, SectionAt(from))
  /\ UNCHANGED <<templates_, validation_rules_, reload_callback_>> /\ Leaves(t)

LoadFromString(t) ==
  /\ Enters(t, "loadFromString")
  /\ \E text \in Documents :
       IF text = Unparsable
       THEN UNCHANGED sections_ /\ Leaves(t)
       ELSE /\ sections_' = Read(text, FALSE)
            /\ IF Outcome(text) = "spins"
               THEN /\ mutex_' = t /\ pc' = [pc EXCEPT ![t] = "spins"]
                    /\ UNCHANGED <<disk, watch, call, calls>>
               ELSE Leaves(t)
  /\ UNCHANGED <<templates_, validation_rules_, reload_callback_>>

AddTemplate(t) ==
  /\ Enters(t, "addTemplate")
  /\ \E key \in Keys, node \in Nodes : templates_' = [k \in {key} |-> Value(node)]
  /\ UNCHANGED <<sections_, validation_rules_, reload_callback_>> /\ Leaves(t)

\* A template goes to every section there is.
ApplyTemplate(t) ==
  /\ Enters(t, "applyTemplate")
  /\ sections_' = [name \in DOMAIN sections_ |-> Merged(sections_[name], templates_, FALSE)]
  /\ UNCHANGED <<templates_, validation_rules_, reload_callback_>> /\ Leaves(t)

AddValidationRules(t) ==
  /\ Enters(t, "addValidationRules")
  /\ validation_rules_' = TRUE
  /\ UNCHANGED <<sections_, templates_, reload_callback_>> /\ Leaves(t)

SetReloadCallback(t) ==
  /\ Enters(t, "setReloadCallback")
  /\ reload_callback_' \in Callbacks
  /\ UNCHANGED data /\ Leaves(t)

\* validate asks get for the value of a rule, loadEnvironmentOverrides calls set for a
\* variable, merge locks the other object: each with the lock in hand.
LocksAgain(t) ==
  \/ Enters(t, "validate") /\ validation_rules_
  \/ Enters(t, "loadEnvironmentOverrides") /\ Overridden
  \/ Enters(t, "merge")

ReadsOnly(t) ==
  \/ Enters(t, "validate") /\ ~validation_rules_
  \/ Enters(t, "loadEnvironmentOverrides") /\ ~Overridden
  \/ Enters(t, "get")

WaitsForItself(t) ==
  /\ LocksAgain(t)
  /\ mutex_' = t /\ pc' = [pc EXCEPT ![t] = "waits for itself"]
  /\ UNCHANGED <<disk, data, watch, reload_callback_, call, calls>>

LooksOnly(t) == ReadsOnly(t) /\ UNCHANGED <<data, reload_callback_>> /\ Leaves(t)

\* saveToFile: what is in memory becomes a document, in some order.
Document ==
  LET names == SetToSeq(DOMAIN sections_)
      Written(section) ==
        LET keys == SetToSeq(DOMAIN section)
        IN  [i \in DOMAIN keys |-> <<keys[i], Emitted[section[keys[i]]]>>]
  IN  [i \in DOMAIN names |-> [name |-> names[i], map |-> TRUE, items |-> Written(sections_[names[i]])]]

\* The clock does not stand still: no two writes have one stamp.
Now == Max({disk[file].stamp : file \in Files})
Writes(file, text) == disk' = [disk EXCEPT ![file] = [says |-> text, stamp |-> Now + 1]]

SaveToFile(t) ==
  /\ Enters(t, "saveToFile")
  /\ Writes(call[t].file, Document)
  /\ pc' = [pc EXCEPT ![t] = "idle"] /\ call' = [call EXCEPT ![t] = Idle]
  /\ UNCHANGED <<mutex_, data, watch, reload_callback_, calls>>

-----------------------------------------------------------------------------
(* Watching: the lock is held while the thread that may want it is joined. *)

\* startWatcher
StartsWatcher(w) ==
  /\ pc[w] = "absent"
  /\ should_stop_watching_' = FALSE /\ watcher_thread_' = w

\* What follows the join in each method; the lock is let go.
AfterJoin(t, method, file, without) ==
  /\ IF method = "enableWatching"
     THEN /\ watched_file_' = file /\ watching_enabled_' = TRUE
          /\ last_write_time_' = IF Exists(file) THEN disk[file].stamp ELSE last_write_time_
          /\ \E w \in Watchers : StartsWatcher(w) /\ pc' = [without EXCEPT ![t] = "idle", ![w] = "tests"]
     ELSE /\ watching_enabled_' = (method = "reset" /\ watching_enabled_)
          /\ watcher_thread_' = Nobody
          /\ UNCHANGED <<watched_file_, last_write_time_>>
          /\ pc' = [without EXCEPT ![t] = "idle"]
  /\ mutex_' = Nobody /\ call' = [call EXCEPT ![t] = Idle]

StopsFirst(method) ==
  watcher_thread_ # Nobody /\ (method = "enableWatching" => watching_enabled_)

\* enableWatching, disableWatching and reset, up to the join and, with nothing to join, beyond.
ChangesWatching(t) ==
  \E method \in {"enableWatching", "disableWatching", "reset"} :
    /\ Enters(t, method)
    /\ IF method = "reset"
       THEN sections_' = <<>> /\ templates_' = <<>> /\ validation_rules_' = FALSE
       ELSE UNCHANGED data
    /\ IF StopsFirst(method)
       THEN /\ should_stop_watching_' = TRUE
            /\ mutex_' = t /\ pc' = [pc EXCEPT ![t] = "joins"]
            /\ UNCHANGED <<call, watching_enabled_, watched_file_, last_write_time_, watcher_thread_>>
       ELSE /\ AfterJoin(t, method, call[t].file, pc)
            /\ method # "enableWatching" => UNCHANGED should_stop_watching_
    /\ UNCHANGED <<disk, reload_callback_, calls>>

Joins(t) ==
  /\ pc[t] = "joins" /\ pc[watcher_thread_] = "ended"
  /\ AfterJoin(t, call[t].method, call[t].file, [pc EXCEPT ![watcher_thread_] = "absent"])
  /\ call[t].method # "enableWatching" => UNCHANGED should_stop_watching_
  /\ UNCHANGED <<disk, data, reload_callback_, calls>>

-----------------------------------------------------------------------------
(* checkFileChanges.  Nothing it reads before it loads is under the lock.  *)

At(w, place) == pc[w] = place /\ w \in Watchers
Goes(w, place) == pc' = [pc EXCEPT ![w] = place]

\* Fault: the loop does not ask whether it has been told to stop.
TestsNothing(w) ==
  /\ At(w, "tests") /\ Goes(w, "sleeps")
  /\ UNCHANGED <<disk, mutex_, data, watch, reload_callback_, call, calls>>

Tests(w) ==
  /\ At(w, "tests")
  /\ Goes(w, IF should_stop_watching_ THEN "ended" ELSE "sleeps")
  /\ UNCHANGED <<disk, mutex_, data, watch, reload_callback_, call, calls>>

\* Fault: a file that is not there ends the loop.
EndsWithTheFile(w) ==
  /\ At(w, "sleeps")
  /\ IF Exists(watched_file_) /\ disk[watched_file_].stamp # last_write_time_
     THEN last_write_time_' = disk[watched_file_].stamp /\ Goes(w, "loads")
     ELSE /\ UNCHANGED last_write_time_
          /\ Goes(w, IF Exists(watched_file_) THEN "tests" ELSE "ended")
  /\ UNCHANGED <<disk, mutex_, data, watching_enabled_, watched_file_, watcher_thread_,
                 should_stop_watching_, reload_callback_, call, calls>>

\* After the second of sleep.
Looks(w) ==
  /\ At(w, "sleeps")
  /\ IF Exists(watched_file_) /\ disk[watched_file_].stamp # last_write_time_
     THEN last_write_time_' = disk[watched_file_].stamp /\ Goes(w, "loads")
     ELSE UNCHANGED last_write_time_ /\ Goes(w, "tests")
  /\ UNCHANGED <<disk, mutex_, data, watching_enabled_, watched_file_, watcher_thread_,
                 should_stop_watching_, reload_callback_, call, calls>>

\* The name is handed over by reference: the file is the one of the moment the lock is had.
Reloads(w) ==
  \/ /\ At(w, "loads") /\ LoadReads(w, watched_file_, "tests", "stamps")
     /\ UNCHANGED <<call, calls>>
  \/ /\ At(w, "stamps") /\ LoadStamps(w, watched_file_, "calls back")
     /\ UNCHANGED <<call, calls>>

\* Fault: disableWatching writes its flag before it joins.
FlagFirst(w) ==
  /\ At(w, "calls back")
  /\ reload_callback_ # "none" => mutex_ = Nobody
  /\ should_stop_watching_' = (should_stop_watching_ \/ reload_callback_ = "disables")
  /\ watching_enabled_' = (watching_enabled_ /\ reload_callback_ # "disables")
  /\ Goes(w, "tests")
  /\ UNCHANGED <<disk, mutex_, data, watched_file_, last_write_time_, watcher_thread_,
                 reload_callback_, call, calls>>

\* A callback that stops the watcher joins the thread it runs on: join throws, the lock is
\* let go, and the loop, which catches it, ends.
CallsBack(w) ==
  /\ At(w, "calls back")
  /\ reload_callback_ # "none" => mutex_ = Nobody
  /\ IF reload_callback_ \in {"disables", "resets"} /\ watcher_thread_ # Nobody
     THEN should_stop_watching_' = TRUE ELSE UNCHANGED should_stop_watching_
  /\ IF reload_callback_ = "resets"
     THEN sections_' = <<>> /\ templates_' = <<>> /\ validation_rules_' = FALSE
     ELSE UNCHANGED data
  /\ Goes(w, "tests")
  /\ UNCHANGED <<disk, mutex_, watching_enabled_, watched_file_, last_write_time_,
                 watcher_thread_, reload_callback_, call, calls>>

-----------------------------------------------------------------------------

\* Anyone may write, or remove, a file.
Edit ==
  /\ \E file \in Files, text \in Documents \cup {Missing} :
       Now <= MaxEdits /\ Writes(file, text)
  /\ UNCHANGED <<mutex_, data, watch, reload_callback_, pc, call, calls>>

Called ==
  {"loadFromFile", "loadFromString", "saveToFile", "loadEnvironmentOverrides", "addTemplate",
   "applyTemplate", "addValidationRules", "validate", "get", "set", "remove", "setSection",
   "merge", "reset", "enableWatching", "disableWatching", "setReloadCallback"}
OfFile == {"loadFromFile", "saveToFile", "enableWatching"}

Returns(t) ==
  \/ LoadFromFile(t) \/ LoadFromString(t) \/ SaveToFile(t)
  \/ Set(t) \/ RemoveKey(t) \/ SetSection(t)
  \/ AddTemplate(t) \/ ApplyTemplate(t) \/ AddValidationRules(t) \/ SetReloadCallback(t)
  \/ WaitsForItself(t) \/ LooksOnly(t)
  \/ ChangesWatching(t) \/ Joins(t)

Watches(w) == Tests(w) \/ Looks(w) \/ Reloads(w) \/ CallsBack(w)

Next ==
  \/ Edit
  \/ \E t \in Callers :
       \/ \E method \in Called, file \in Files :
            Calls(t, method, IF method \in OfFile THEN file ELSE NoFile)
       \/ Returns(t)
  \/ \E w \in Watchers : Watches(w)

Spec == Init /\ [][Next]_vars

\* The scheduler runs every thread that can go on.
FairSpec ==
  /\ Spec
  /\ \A t \in Callers : WF_vars(Returns(t))
  /\ \A w \in Watchers : WF_vars(Watches(w))

-----------------------------------------------------------------------------
(* Properties.                                                             *)

\* A thread that watches is the one watcher_thread_ is the handle of: no handle is dropped
\* while its thread runs, which would end the process, and no file is looked at by two.
\* Without a handle watching may be enabled, with one it is.
OneWatcher ==
  /\ \A w \in Watchers : pc[w] # "absent" <=> w = watcher_thread_
  /\ watcher_thread_ # Nobody => watching_enabled_

\* Every value there was is there as it was.
Keeps(before, after) ==
  /\ DOMAIN before \subseteq DOMAIN after
  /\ \A name \in DOMAIN before : \A key \in DOMAIN before[name] :
       key \in DOMAIN after[name] /\ after[name][key] = before[name][key]

\* The steps that are meant to change values that are set.
Replaces(t) ==
  \/ pc[t] = "loads" /\ disk[watched_file_].says \notin {Missing, Unparsable}
  \/ pc[t] = "calls back"
  \/ /\ t \in Callers /\ pc[t] = "enters"
     /\ \/ call[t].method \in {"set", "remove", "setSection", "loadFromString", "reset"}
        \/ call[t].method = "loadFromFile" /\ disk[call[t].file].says \notin {Missing, Unparsable}

\* The configuration in use is replaced only by what could be read: a file that is not there
\* or is not YAML costs nothing, by whichever thread it is loaded, and no template, rule or
\* save changes a value that is set.
ValuesAreKept ==
  [][(\A t \in Callers \cup Watchers : pc'[t] # pc[t] => ~Replaces(t))
     => Keeps(sections_, sections_')]_vars

\* The ways there are to wait for ever: for a lock one holds, for a variable that leads back
\* to itself, and for a watcher that wants the lock its joiner holds.
Stuck ==
  /\ mutex_ # Nobody
  /\ \/ pc[mutex_] \in {"waits for itself", "spins"}
     \/ /\ pc[mutex_] = "joins"
        /\ \/ pc[watcher_thread_] = "loads"
           \/ pc[watcher_thread_] = "calls back" /\ reload_callback_ # "none"

\* There are no others: every call returns unless the object is stuck in one of them.
CallsReturnOrStick == \A t \in Callers : pc[t] # "idle" ~> (pc[t] = "idle" \/ Stuck)

\* While the watcher has not been told to stop, a change of the file it watches is seen,
\* whatever the loads before it came to.
Unseen(file) ==
  /\ watcher_thread_ # Nobody /\ ~should_stop_watching_
  /\ watched_file_ = file /\ Exists(file) /\ disk[file].stamp # last_write_time_
ChangeIsSeen == \A file \in Files : Unseen(file) ~> (~Unseen(file) \/ Stuck)

-----------------------------------------------------------------------------
(* What one might expect and the code does not do.                         *)

\* No call waits for ever.
CallsReturn == \A t \in Callers : pc[t] # "idle" ~> pc[t] = "idle"

\* A watcher at rest has loaded the file as it is: not what was written between the reading
\* and the stamp, nor a file that could be read only after a first try.
Quiet == /\ \A w \in Watchers : pc[w] \in {"tests", "sleeps", "absent"}
         /\ \A t \in Callers : pc[t] = "idle"
LastChangeIsLoaded ==
  (Quiet /\ watcher_thread_ # Nobody /\ ~should_stop_watching_ /\ calls = 1
     /\ Exists(watched_file_) /\ disk[watched_file_].stamp = last_write_time_
     /\ last_write_time_ > 1 /\ disk[watched_file_].says # Unparsable
     /\ Outcome(disk[watched_file_].says) = "loaded")
  => sections_ = Read(disk[watched_file_].says, TRUE)

\* A load that fails leaves the configuration it found.
LoadIsAtomic ==
  [][\A t \in Watchers : pc[t] = "loads" /\ pc'[t] = "tests" => sections_' = sections_]_vars

\* The watcher looks at the file that was asked for.
WatchesWhatWasAsked ==
  [][\A t \in Callers : call[t].method = "loadFromFile" => watched_file_' = watched_file_
        \/ ~watching_enabled_]_vars

\* isWatching is the truth.
WatchingMeansWatcher == mutex_ = Nobody /\ watching_enabled_ => watcher_thread_ # Nobody

\* What was saved is what is loaded.
SavedIsRead ==
  [][\A t \in Callers : call[t].method = "saveToFile" /\ pc[t] = "enters" /\ pc'[t] = "idle"
        => Read(Document, TRUE) = sections_]_vars
=============================================================================

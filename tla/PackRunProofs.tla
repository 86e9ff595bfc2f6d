---------------------------- MODULE PackRunProofs ----------------------------
(***************************************************************************)
(* Proofs about PackRun for packs of any size and any number of edits and  *)
(* requests: type correctness, the order in which entries are taken up and *)
(* skipped, that only the selected definitions are executed, and that the  *)
(* pack reports what its runs came to.                                     *)
(***************************************************************************)
EXTENDS PackRun, FiniteSetTheorems, TLAPS

Executing == {"check", "start", "run", "evaluate", "finish"}

SomeFailed == \E t \in Roster : entries[t].status = "failed"

(* Which entry is at work, and that no other is.                           *)
OneAtWork ==
  /\ pc = "select" => Roster = {}
  /\ pc \in Executing \cup {"count"} => current \in Roster
  /\ pc \in Executing => entries[current].status = "running"
  /\ pc \notin {"dead"} =>
       \A t \in Roster : entries[t].status = "running"
                           => pc \in Executing /\ t = current
  /\ pc = "count" => current \in Finished

(* What stop knows of the failures so far.                                 *)
StopIsKnown ==
  /\ pc \in {"select", "turn"} => (stop = TRUE <=> stopOnFailure = TRUE /\ SomeFailed)
  /\ pc \in Executing => stop = FALSE /\ ~(stopOnFailure = TRUE /\ SomeFailed)
  /\ pc = "count" => (StopFrom <=> stopOnFailure = TRUE /\ SomeFailed)

(* Nothing is resolved before it has been executed.                        *)
UntilExecuted ==
  /\ \A t \in Roster :
       /\ runs[t].metric = "resolved" => runs[t].given # Nothing
       /\ entries[t].status = "queued" \/ (pc \in {"check", "start", "run"} /\ t = current)
            => entries[t].metric = "none" /\ runs[t].metric = "none"
       /\ entries[t].status = "queued" => runs[t].given = Nothing
  /\ pc \in {"start", "run"} => runs[current].given # Nothing

(* start_run is called with the definition of the roster or not at all.    *)
GivenAsSelected ==
  \A t \in Roster :
    /\ runs[t].given \in {entries[t].definition, Nothing}
    /\ entries[t].metric = "resolved" => runs[t].given = entries[t].definition

IInv ==
  /\ TypeOK
  /\ OneAtWork
  /\ StopIsKnown
  /\ UntilExecuted
  /\ GivenAsSelected
  /\ StopsAfterFailure

-----------------------------------------------------------------------------
(* The shapes the records of entries and runs take.                        *)

LEMMA EntryTyped ==
  ASSUME TypeOK, NEW t \in Roster
  PROVE  /\ entries[t] \in EntryType
         /\ runs[t] \in RunType
  BY DEF TypeOK

LEMMA FailedTyped ==
  ASSUME NEW run \in RunType, NEW category \in Categories
  PROVE  /\ Failed(run, category) \in RunType
         /\ Failed(run, category).metric = run.metric
         /\ Failed(run, category).given = run.given
         /\ Failed(run, category).status = "failed"
  BY DEF Failed, RunType

LEMMA FindingsTyped ==
  ASSUME NEW run PROVE Findings(run) \subseteq Metrics
  BY DEF Findings, Metrics

(* Counts over the roster fit the type of the aggregates.                  *)
LEMMA RosterCounts ==
  ASSUME NEW S, S \subseteq Tasks
  PROVE  Cardinality(S) \in 0..Size
  <1>1. IsFiniteSet(1..Size) /\ Cardinality(1..Size) = Size
    BY PackAssumption, FS_Interval
  <1>2. Cardinality(S) <= Cardinality(1..Size) /\ IsFiniteSet(S)
    BY <1>1, FS_Subset DEF Tasks
  <1> QED
    BY <1>1, <1>2, FS_CardinalityType, PackAssumption

(* Writing a run or an entry of the roster leaves the rest alone.          *)
LEMMA SetRunTyped ==
  ASSUME TypeOK, current \in Roster, NEW run \in RunType, SetRun(run)
  PROVE  /\ runs' \in [Roster -> RunType]
         /\ runs'[current] = run
         /\ \A t \in Roster \ {current} : runs'[t] = runs[t]
  BY DEF TypeOK, SetRun

LEMMA TypeInit == Init => TypeOK
  <1> SUFFICES ASSUME Init PROVE TypeOK
    OBVIOUS
  <1>1. Roster = {}
    BY DEF Init, NoRows, Roster
  <1>2. entries \in [Roster -> EntryType] /\ runs \in [Roster -> RunType]
    BY <1>1 DEF Init, NoRows
  <1>3. FlagsOK
    BY Zenon DEF Init, FlagsOK
  <1> QED
    BY <1>1, <1>2, <1>3, PackAssumption
    DEF Init, TypeOK, Locations, Over

LEMMA FlagsStep ==
  ASSUME TypeOK, [Next]_vars
  PROVE  FlagsOK'
  <1> USE DEF TypeOK, FlagsOK
  <1>1. CASE UNCHANGED <<ready, packVars>>
    BY <1>1, Zenon DEF packVars
  <1>2. CASE UNCHANGED ready /\ UNCHANGED stopOnFailure /\ stop' = StopFrom
    <2>1. StopFrom \in BOOLEAN
      BY Zenon DEF StopFrom
    <2> QED
      BY <1>2, <2>1, Zenon
  <1>3. CASE Edit
    <2>1. ready' \in [Tasks -> BOOLEAN]
      BY <1>3, Zenon DEF Edit
    <2> QED
      BY <1>3, <2>1, Zenon DEF Edit, OthersFrame, packVars
  <1>4. CASE Count
    BY <1>2, <1>4, Zenon DEF Count, PackFrame, taskVars
  <1>5. CASE [Next]_vars /\ ~Edit /\ ~Count
    BY <1>1, <1>5, Zenon
    DEF Next, PackStep, Select, Begin, Skip, Conclude, Check, StartRun,
        RunReturns, Evaluate, Finish, ReadTask, BeginTests, EndTests, Crash,
        Terminated,
        PackFrame, ExecuteFrame, OthersFrame, taskVars, packVars, vars
  <1> QED
    BY <1>3, <1>4, <1>5

(* Entries and runs keep their types; after Select the roster is fixed.    *)
RowsOK ==
  /\ Roster \subseteq Tasks
  /\ entries \in [Roster -> EntryType]
  /\ runs \in [Roster -> RunType]
  /\ current \in Roster \cup {0}
  /\ testing \subseteq Roster

LEMMA RosterSelected ==
  ASSUME TypeOK, NEW members, members \subseteq Tasks,
         entries' = [t \in members |->
           [status |-> "queued", definition |-> definition[t],
            failure |-> "none", metric |-> "none"]],
         runs' = [t \in members |->
           [status |-> "queued", failure |-> "none", metric |-> "none",
            given |-> Nothing]]
  PROVE  /\ Roster' = members
         /\ entries' \in [members -> EntryType]
         /\ runs' \in [members -> RunType]
  <1>1. \A t \in members : definition[t] \in 0..MaxEdits
    BY DEF TypeOK
  <1> QED
    BY <1>1 DEF Roster, EntryType, RunType, Metrics

(* An entry may be given another status, failure or metric.                *)
LEMMA EntriesTyped ==
  ASSUME TypeOK, NEW t \in Roster,
         NEW entry \in EntryType, entries' = [entries EXCEPT ![t] = entry]
  PROVE  /\ Roster' = Roster
         /\ entries' \in [Roster -> EntryType]
         /\ entries'[t] = entry
         /\ \A u \in Roster \ {t} : entries'[u] = entries[u]
  BY DEF TypeOK, Roster

LEMMA RunsTyped ==
  ASSUME TypeOK, NEW t \in Roster,
         NEW run \in RunType, runs' = [runs EXCEPT ![t] = run]
  PROVE  /\ runs' \in [Roster -> RunType]
         /\ runs'[t] = run
         /\ \A u \in Roster \ {t} : runs'[u] = runs[u]
  BY DEF TypeOK

LEMMA CancelledTyped ==
  ASSUME NEW run \in RunType
  PROVE  /\ Cancelled(run) \in RunType
         /\ Cancelled(run).metric = run.metric
         /\ Cancelled(run).given = run.given
  BY DEF Cancelled, RunType, Categories

LEMMA ExplainedTyped ==
  ASSUME NEW run \in RunType
  PROVE  /\ Explained(run) \in RunType
         /\ Explained(run).metric = run.metric
         /\ Explained(run).given = run.given
  BY DEF Explained, RunType, Categories

(* What each step writes of the entry and the run it is about.             *)
LEMMA BeginEffect ==
  ASSUME TypeOK, NEW t \in Roster,
         entries' = [entries EXCEPT ![t].status = "running"]
  PROVE  /\ Roster' = Roster
         /\ entries' \in [Roster -> EntryType]
         /\ entries'[t].status = "running"
         /\ entries'[t].definition = entries[t].definition
         /\ entries'[t].metric = entries[t].metric
         /\ \A u \in Roster \ {t} : entries'[u] = entries[u]
  <1> DEFINE new == [entries[t] EXCEPT !.status = "running"]
  <1>1. entries' = [entries EXCEPT ![t] = new]
    OBVIOUS
  <1>2. new \in EntryType /\ new.status = "running"
        /\ new.definition = entries[t].definition /\ new.metric = entries[t].metric
    BY EntryTyped DEF EntryType
  <1> HIDE DEF new
  <1> QED
    BY <1>1, <1>2, EntriesTyped

LEMMA SkipEffect ==
  ASSUME TypeOK, NEW t \in Roster,
         entries' = [entries EXCEPT ![t].status = "skipped"],
         runs' = [runs EXCEPT ![t] = Cancelled(@)]
  PROVE  /\ Roster' = Roster
         /\ entries' \in [Roster -> EntryType]
         /\ runs' \in [Roster -> RunType]
         /\ entries'[t].status = "skipped"
         /\ entries'[t].definition = entries[t].definition
         /\ entries'[t].metric = entries[t].metric
         /\ runs'[t].metric = runs[t].metric
         /\ runs'[t].given = runs[t].given
         /\ \A u \in Roster \ {t} : entries'[u] = entries[u] /\ runs'[u] = runs[u]
  <1> DEFINE new == [entries[t] EXCEPT !.status = "skipped"]
  <1> DEFINE run == Cancelled(runs[t])
  <1>1. entries' = [entries EXCEPT ![t] = new] /\ runs' = [runs EXCEPT ![t] = run]
    OBVIOUS
  <1>2. new \in EntryType /\ new.status = "skipped"
        /\ new.definition = entries[t].definition /\ new.metric = entries[t].metric
    BY EntryTyped DEF EntryType
  <1>3. run \in RunType /\ run.metric = runs[t].metric /\ run.given = runs[t].given
    BY CancelledTyped, EntryTyped
  <1> HIDE DEF new, run
  <1>4. entries' \in [Roster -> EntryType] /\ entries'[t] = new
        /\ \A u \in Roster \ {t} : entries'[u] = entries[u]
    BY <1>1, <1>2, EntriesTyped
  <1>5. runs' \in [Roster -> RunType] /\ runs'[t] = run
        /\ \A u \in Roster \ {t} : runs'[u] = runs[u]
    BY <1>1, <1>3, RunsTyped
  <1>6. Roster' = Roster
    BY <1>1, <1>2, EntriesTyped
  <1> QED
    BY <1>2, <1>3, <1>4, <1>5, <1>6

LEMMA CountEffect ==
  ASSUME TypeOK, current \in Roster, Count
  PROVE  /\ Roster' = Roster
         /\ entries' \in [Roster -> EntryType]
         /\ \A u \in Roster : /\ entries'[u].status = entries[u].status
                              /\ entries'[u].definition = entries[u].definition
                              /\ entries'[u].metric = entries[u].metric
  <1>1. CASE entries' = entries
    BY <1>1 DEF TypeOK, Roster
  <1>2. CASE entries' = [entries EXCEPT ![current].failure = runs[current].failure]
    <2>1. PICK c \in Categories \cup {"none"} : c = runs[current].failure
      BY EntryTyped DEF RunType
    <2> DEFINE new == [entries[current] EXCEPT !.failure = c]
    <2>2. entries' = [entries EXCEPT ![current] = new]
      BY <1>2, <2>1
    <2>3. new \in EntryType /\ new.status = entries[current].status
          /\ new.definition = entries[current].definition
          /\ new.metric = entries[current].metric
      BY EntryTyped DEF EntryType
    <2> HIDE DEF new
    <2> QED
      BY <2>2, <2>3, EntriesTyped
  <1> QED
    BY <1>1, <1>2, Zenon DEF Count

(* Check, StartRun, RunReturns: only the run of the entry at work changes. *)
LEMMA CheckEffect ==
  ASSUME TypeOK, current \in Roster, Check
  PROVE  /\ runs' \in [Roster -> RunType]
         /\ runs'[current].metric = runs[current].metric
         /\ \/ /\ pc' = "start"
               /\ runs'[current].given = definition[current]
               /\ entries[current].definition = definition[current]
            \/ /\ pc' = "evaluate"
               /\ runs'[current].given = runs[current].given
         /\ \A u \in Roster \ {current} : runs'[u] = runs[u]
  <1>1. runs[current] \in RunType
    BY EntryTyped
  <1>2. CASE AsSelected(current)
    <2> DEFINE run == [runs[current] EXCEPT !.given = definition[current]]
    <2>1. run \in RunType /\ run.metric = runs[current].metric
          /\ run.given = definition[current]
      <3>1. current \in Tasks /\ definition[current] \in 0..MaxEdits
        BY DEF TypeOK
      <3> QED
        BY <1>1, <3>1 DEF RunType
    <2>2. SetRun(run) /\ pc' = "start"
      BY <1>2 DEF Check
    <2> HIDE DEF run
    <2> QED
      BY <1>2, <2>1, <2>2, SetRunTyped DEF AsSelected
  <1>3. CASE ~AsSelected(current)
    <2> DEFINE run == Failed(runs[current], "task_not_ready")
    <2>1. run \in RunType /\ run.metric = runs[current].metric
          /\ run.given = runs[current].given
      BY <1>1, FailedTyped DEF Categories
    <2>2. SetRun(run) /\ pc' = "evaluate"
      BY <1>3 DEF Check
    <2> HIDE DEF run
    <2> QED
      BY <2>1, <2>2, SetRunTyped
  <1> QED
    BY <1>2, <1>3

LEMMA StartRunEffect ==
  ASSUME TypeOK, current \in Roster, StartRun
  PROVE  /\ runs' \in [Roster -> RunType]
         /\ runs'[current].metric = runs[current].metric
         /\ \/ pc' = "run" /\ runs'[current].given = runs[current].given
            \/ pc' = "evaluate" /\ runs'[current].given = Nothing
         /\ \A u \in Roster \ {current} : runs'[u] = runs[u]
  <1>1. runs[current] \in RunType
    BY EntryTyped
  <1>2. CASE SetRun([runs[current] EXCEPT !.status = "running"]) /\ pc' = "run"
    <2> DEFINE run == [runs[current] EXCEPT !.status = "running"]
    <2>1. run \in RunType /\ run.metric = runs[current].metric
          /\ run.given = runs[current].given
      BY <1>1 DEF RunType
    <2>2. SetRun(run)
      BY <1>2
    <2> HIDE DEF run
    <2> QED
      BY <1>2, <2>1, <2>2, SetRunTyped
  <1>3. CASE /\ \E category \in {"model_provider_error", "other"} :
                  SetRun([Failed(runs[current], category) EXCEPT !.given = Nothing])
             /\ pc' = "evaluate"
    <2>1. PICK category \in {"model_provider_error", "other"} :
            SetRun([Failed(runs[current], category) EXCEPT !.given = Nothing])
      BY <1>3
    <2> DEFINE failed == Failed(runs[current], category)
    <2> DEFINE run == [failed EXCEPT !.given = Nothing]
    <2>2. failed \in RunType /\ failed.metric = runs[current].metric
      BY <1>1, FailedTyped DEF Categories
    <2> HIDE DEF failed
    <2>3. run \in RunType /\ run.metric = runs[current].metric /\ run.given = Nothing
      BY <2>2 DEF RunType
    <2>4. SetRun(run)
      BY <2>1 DEF failed
    <2> HIDE DEF run
    <2> QED
      BY <1>3, <2>3, <2>4, SetRunTyped
  <1> QED
    BY <1>2, <1>3 DEF StartRun

LEMMA RunReturnsEffect ==
  ASSUME TypeOK, current \in Roster, RunReturns
  PROVE  /\ runs' \in [Roster -> RunType]
         /\ runs'[current].given = runs[current].given
         /\ \A u \in Roster \ {current} : runs'[u] = runs[u]
  <1>1. runs[current] \in RunType
    BY EntryTyped
  <1>2. PICK metric \in Metrics :
          LET run == [runs[current] EXCEPT !.metric = metric]
          IN  \/ SetRun([run EXCEPT !.status = "completed"])
              \/ SetRun([run EXCEPT !.status = "failed", !.failure = "other"])
              \/ SetRun(Failed(run, "other"))
    BY Zenon DEF RunReturns
  <1> DEFINE returned == [runs[current] EXCEPT !.metric = metric]
  <1>3. returned \in RunType /\ returned.given = runs[current].given
    BY <1>1 DEF RunType
  <1> DEFINE completed == [returned EXCEPT !.status = "completed"]
  <1> DEFINE failed == [returned EXCEPT !.status = "failed", !.failure = "other"]
  <1> DEFINE broken == Failed(returned, "other")
  <1>4. SetRun(completed) \/ SetRun(failed) \/ SetRun(broken)
    BY <1>2
  <1> HIDE DEF returned
  <1>5. completed \in RunType /\ completed.given = runs[current].given
    BY <1>3 DEF RunType
  <1>6. failed \in RunType /\ failed.given = runs[current].given
    BY <1>3 DEF RunType, Categories
  <1>7. broken \in RunType /\ broken.given = runs[current].given
    BY <1>3, FailedTyped DEF Categories
  <1> HIDE DEF completed, failed, broken
  <1> QED
    BY <1>4, <1>5, <1>6, <1>7, SetRunTyped

LEMMA EvaluateEffect ==
  ASSUME TypeOK, current \in Roster, Evaluate
  PROVE  /\ Roster' = Roster
         /\ entries' \in [Roster -> EntryType]
         /\ runs' \in [Roster -> RunType]
         /\ entries'[current].status = entries[current].status
         /\ entries'[current].definition = entries[current].definition
         /\ entries'[current].metric \in
              {entries[current].metric, runs[current].metric, runs'[current].metric}
         /\ runs'[current].given = runs[current].given
         /\ \/ runs'[current].metric = runs[current].metric
            \/ /\ runs[current].metric = "none"
               /\ runs'[current].metric \in Findings(runs[current]) \cup {"none"}
         /\ \A u \in Roster \ {current} :
              entries'[u] = entries[u] /\ runs'[u] = runs[u]
  <1> DEFINE run == runs[current]
  <1>1. run \in RunType /\ entries[current] \in EntryType
    BY EntryTyped
  <1>2. ASSUME NEW m \in Metrics, entries' = [entries EXCEPT ![current].metric = m]
        PROVE  /\ Roster' = Roster
               /\ entries' \in [Roster -> EntryType]
               /\ entries'[current].status = entries[current].status
               /\ entries'[current].definition = entries[current].definition
               /\ entries'[current].metric = m
               /\ \A u \in Roster \ {current} : entries'[u] = entries[u]
    <2> DEFINE new == [entries[current] EXCEPT !.metric = m]
    <2>1. entries' = [entries EXCEPT ![current] = new]
      BY <1>2
    <2>2. new \in EntryType /\ new.status = entries[current].status
          /\ new.definition = entries[current].definition /\ new.metric = m
      BY <1>1 DEF EntryType
    <2> HIDE DEF new
    <2> QED
      BY <2>1, <2>2, EntriesTyped
  <1>3. CASE /\ entries' = [entries EXCEPT ![current].metric = run.metric]
             /\ UNCHANGED runs
    <2>1. PICK m \in Metrics : m = run.metric
      BY <1>1 DEF RunType
    <2> QED
      BY <1>2, <1>3, <2>1 DEF TypeOK
  <1>4. CASE /\ run.metric = "none"
             /\ \E m \in Findings(run) :
                  /\ entries' = [entries EXCEPT ![current].metric = m]
                  /\ SetRun([run EXCEPT !.metric = m])
    <2>1. PICK m \in Findings(run) :
             /\ entries' = [entries EXCEPT ![current].metric = m]
             /\ SetRun([run EXCEPT !.metric = m])
      BY <1>4
    <2>2. m \in Metrics
      BY FindingsTyped
    <2> DEFINE found == [run EXCEPT !.metric = m]
    <2>3. found \in RunType /\ found.metric = m /\ found.given = run.given
      BY <1>1, <2>2 DEF RunType
    <2>4. SetRun(found)
      BY <2>1
    <2> HIDE DEF found, run
    <2>5. /\ runs' \in [Roster -> RunType]
          /\ runs'[current] = found
          /\ \A t \in Roster \ {current} : runs'[t] = runs[t]
      BY <2>3, <2>4, SetRunTyped
    <2> QED
      BY <1>2, <1>4, <2>1, <2>2, <2>3, <2>5 DEF run
  <1>5. CASE /\ run.metric = "none"
             /\ \E m \in Findings(run) \cup {"none"} :
                  SetRun(Failed([run EXCEPT !.metric = m], "other"))
             /\ UNCHANGED entries
    <2>1. PICK m \in Findings(run) \cup {"none"} :
             SetRun(Failed([run EXCEPT !.metric = m], "other"))
      BY <1>5
    <2>2. m \in Metrics
      BY FindingsTyped DEF Metrics
    <2> DEFINE found == [run EXCEPT !.metric = m]
    <2>3. found \in RunType /\ found.metric = m /\ found.given = run.given
      BY <1>1, <2>2 DEF RunType
    <2> DEFINE failed == Failed(found, "other")
    <2>4. SetRun(failed)
      BY <2>1
    <2> HIDE DEF found
    <2>5. failed \in RunType /\ failed.metric = m /\ failed.given = run.given
      BY <2>3, FailedTyped DEF Categories
    <2> HIDE DEF failed, run
    <2>6. /\ runs' \in [Roster -> RunType]
          /\ runs'[current] = failed
          /\ \A t \in Roster \ {current} : runs'[t] = runs[t]
      BY <2>4, <2>5, SetRunTyped
    <2> QED
      BY <1>5, <2>1, <2>5, <2>6 DEF run, TypeOK, Roster
  <1> QED
    BY <1>3, <1>4, <1>5, Zenon DEF Evaluate

LEMMA FinishEffect ==
  ASSUME TypeOK, current \in Roster, Finish
  PROVE  /\ Roster' = Roster
         /\ entries' \in [Roster -> EntryType]
         /\ runs' \in [Roster -> RunType]
         /\ entries'[current].status \in {"completed", "failed"}
         /\ entries'[current].definition = entries[current].definition
         /\ entries'[current].metric = entries[current].metric
         /\ runs'[current].metric = runs[current].metric
         /\ runs'[current].given = runs[current].given
         /\ \A u \in Roster \ {current} :
              entries'[u] = entries[u] /\ runs'[u] = runs[u]
  <1> DEFINE run == Explained(runs[current])
  <1>1. run \in RunType /\ run.metric = runs[current].metric
        /\ run.given = runs[current].given
    BY EntryTyped, ExplainedTyped
  <1>2. PICK s \in {"completed", "failed"} :
          s = IF IsFailed(run) THEN "failed" ELSE "completed"
    OBVIOUS
  <1>3. PICK c \in Categories \cup {"none"} :
          c = IF IsFailed(run) THEN run.failure ELSE "none"
    <2> HIDE DEF run
    <2> QED
      BY <1>1 DEF RunType
  <1> DEFINE new == [entries[current] EXCEPT !.status = s, !.failure = c]
  <1>4. SetRun(run)
        /\ entries' = [entries EXCEPT
             ![current].status = IF IsFailed(run) THEN "failed" ELSE "completed",
             ![current].failure = IF IsFailed(run) THEN run.failure ELSE "none"]
    BY DEF Finish
  <1> HIDE DEF run
  <1>5. entries' = [entries EXCEPT ![current] = new]
    BY <1>2, <1>3, <1>4 DEF TypeOK
  <1>6. new \in EntryType /\ new.status = s
        /\ new.definition = entries[current].definition
        /\ new.metric = entries[current].metric
    BY EntryTyped DEF EntryType
  <1> HIDE DEF new
  <1>7. /\ Roster' = Roster
        /\ entries' \in [Roster -> EntryType]
        /\ entries'[current] = new
        /\ \A u \in Roster \ {current} : entries'[u] = entries[u]
    BY <1>5, <1>6, EntriesTyped
  <1>8. /\ runs' \in [Roster -> RunType]
        /\ runs'[current] = run
        /\ \A u \in Roster \ {current} : runs'[u] = runs[u]
    BY <1>1, <1>4, SetRunTyped
  <1> QED
    BY <1>1, <1>6, <1>7, <1>8

LEMMA EndTestsEffect ==
  ASSUME TypeOK, EndTests
  PROVE  /\ runs' \in [Roster -> RunType]
         /\ testing' \subseteq testing
         /\ \A u \in Roster : /\ runs'[u].metric = runs[u].metric
                              /\ runs'[u].given = runs[u].given
  <1>1. PICK t \in testing :
          /\ testing' = testing \ {t}
          /\ \/ runs' = [runs EXCEPT ![t].status = "completed"]
             \/ runs' = [runs EXCEPT ![t].status = "failed", ![t].failure = "other"]
    BY Zenon DEF EndTests
  <1>2. t \in Roster /\ runs[t] \in RunType
    BY EntryTyped DEF TypeOK
  <1> DEFINE passed == [runs[t] EXCEPT !.status = "completed"]
  <1> DEFINE failed == [runs[t] EXCEPT !.status = "failed", !.failure = "other"]
  <1>3. /\ passed \in RunType
        /\ passed.metric = runs[t].metric /\ passed.given = runs[t].given
    BY <1>2 DEF RunType
  <1>4. /\ failed \in RunType
        /\ failed.metric = runs[t].metric /\ failed.given = runs[t].given
    BY <1>2 DEF RunType, Categories
  <1>5. runs' = [runs EXCEPT ![t] = passed] \/ runs' = [runs EXCEPT ![t] = failed]
    BY <1>1, <1>2 DEF TypeOK
  <1> HIDE DEF passed, failed
  <1> QED
    BY <1>1, <1>2, <1>3, <1>4, <1>5, RunsTyped

LEMMA SelectEffect ==
  ASSUME TypeOK, Select
  PROVE  \/ /\ pc' = "refused"
            /\ UNCHANGED <<packStatus, aggregates, entries, runs>>
         \/ /\ pc' = "turn" /\ packStatus' = "running"
            /\ Roster' \subseteq Tasks
            /\ entries' \in [Roster' -> EntryType]
            /\ runs' \in [Roster' -> RunType]
            /\ aggregates' \in AggregatesType
            /\ \A t \in Roster' :
                 /\ entries'[t].status = "queued" /\ entries'[t].metric = "none"
                 /\ runs'[t].metric = "none" /\ runs'[t].given = Nothing
  <1> DEFINE members == {t \in Tasks : ready[t]}
  <1>1. CASE members = {}
    BY <1>1 DEF Select
  <1>2. CASE members # {}
    <2>1. /\ pc' = "turn" /\ packStatus' = "running"
          /\ entries' = [t \in members |->
               [status |-> "queued", definition |-> definition[t],
                failure |-> "none", metric |-> "none"]]
          /\ runs' = [t \in members |->
               [status |-> "queued", failure |-> "none", metric |-> "none",
                given |-> Nothing]]
          /\ aggregates' = [total |-> Cardinality(members), completed |-> 0,
                            failed |-> 0, skipped |-> 0, resolved |-> 0]
      BY <1>2 DEF Select
    <2>2. members \subseteq Tasks
      OBVIOUS
    <2>3. Cardinality(members) \in 0..Size
      BY <2>2, RosterCounts
    <2> HIDE DEF members
    <2>4. aggregates' \in AggregatesType
      BY <2>1, <2>3, PackAssumption DEF AggregatesType
    <2>5. /\ Roster' = members
          /\ entries' \in [members -> EntryType]
          /\ runs' \in [members -> RunType]
      BY <2>1, <2>2, RosterSelected
    <2>6. \A t \in members :
            /\ entries'[t].status = "queued" /\ entries'[t].metric = "none"
            /\ runs'[t].metric = "none" /\ runs'[t].given = Nothing
      BY <2>1
    <2> QED
      BY <2>1, <2>2, <2>4, <2>5, <2>6
  <1> QED
    BY <1>1, <1>2

(* No step but Select changes the roster.                                  *)
LEMMA RowsStep ==
  ASSUME IInv, [Next]_vars
  PROVE  RowsOK'
  <1>0. TypeOK /\ OneAtWork
    BY DEF IInv
  <1>a. RowsOK
    BY <1>0 DEF TypeOK, RowsOK
  <1>1. CASE Select
    <2>1. pc = "select" /\ UNCHANGED <<current, testing>>
      BY <1>1 DEF Select, PackFrame, requestVars
    <2>2. Roster = {}
      BY <1>0, <2>1 DEF OneAtWork
    <2>3. current = 0 /\ testing = {}
      BY <2>2, <1>a DEF RowsOK
    <2>4. CASE UNCHANGED <<packStatus, aggregates, entries, runs>>
      BY <2>1, <2>4, <1>a DEF RowsOK, Roster
    <2>5. CASE /\ Roster' \subseteq Tasks
               /\ entries' \in [Roster' -> EntryType]
               /\ runs' \in [Roster' -> RunType]
      BY <2>1, <2>3, <2>5 DEF RowsOK
    <2> QED
      BY <2>4, <2>5, <1>0, <1>1, SelectEffect
  <1>2. CASE Begin
    <2>1. PICK t \in Queued : /\ current' = t
                              /\ entries' = [entries EXCEPT ![t].status = "running"]
      BY <1>2, Zenon DEF Begin
    <2>2. t \in Roster
      BY DEF Queued, WithStatus
    <2> QED
      BY <1>0, <1>2, <1>a, <2>1, <2>2, BeginEffect
      DEF RowsOK, Begin, PackFrame, requestVars
  <1>3. CASE Skip
    <2>1. PICK t \in Queued : /\ current' = t
                              /\ entries' = [entries EXCEPT ![t].status = "skipped"]
                              /\ runs' = [runs EXCEPT ![t] = Cancelled(@)]
      BY <1>3, Zenon DEF Skip
    <2>2. t \in Roster
      BY DEF Queued, WithStatus
    <2> QED
      BY <1>0, <1>3, <1>a, <2>1, <2>2, SkipEffect
      DEF RowsOK, Skip, PackFrame, requestVars
  <1>4. CASE Count
    <2>1. current \in Roster
      BY <1>0, <1>4 DEF OneAtWork, Count
    <2> QED
      BY <1>0, <1>4, <1>a, <2>1, CountEffect
      DEF RowsOK, Count, PackFrame, requestVars
  <1>5. CASE Check \/ StartRun \/ RunReturns
    <2>1. current \in Roster /\ UNCHANGED <<entries, current, testing>>
      BY <1>0, <1>5
      DEF OneAtWork, Executing, Check, StartRun, RunReturns, ExecuteFrame,
          PackFrame, requestVars
    <2>2. runs' \in [Roster -> RunType]
      BY <1>0, <1>5, <2>1, CheckEffect, StartRunEffect, RunReturnsEffect
    <2> QED
      BY <1>a, <2>1, <2>2 DEF RowsOK, Roster
  <1>6. CASE Evaluate \/ Finish
    <2>1. current \in Roster /\ UNCHANGED <<current, testing>>
      BY <1>0, <1>6
      DEF OneAtWork, Executing, Evaluate, Finish, ExecuteFrame, PackFrame, requestVars
    <2> QED
      BY <1>0, <1>6, <1>a, <2>1, EvaluateEffect, FinishEffect DEF RowsOK
  <1>7. CASE EndTests
    BY <1>0, <1>7, <1>a, EndTestsEffect DEF RowsOK, EndTests, OthersFrame, Roster
  <1>8. CASE BeginTests
    <2>1. PICK t \in Roster \ testing : testing' = testing \cup {t}
      BY <1>8, Zenon DEF BeginTests
    <2> QED
      BY <1>8, <1>a, <2>1 DEF RowsOK, BeginTests, OthersFrame, Roster
  <1>9. CASE Crash
    BY <1>9, <1>a DEF RowsOK, Crash, Roster
  <1>10. CASE Conclude \/ Edit \/ ReadTask \/ UNCHANGED vars
    BY <1>10, <1>a
    DEF RowsOK, Conclude, Edit, ReadTask, PackFrame, OthersFrame, requestVars, vars, Roster
  <1> QED
    BY <1>1, <1>2, <1>3, <1>4, <1>5, <1>6, <1>7, <1>8, <1>9, <1>10, Zenon
    DEF Next, PackStep, Terminated

(* The parts of TypeOK that are neither flags nor rows.                    *)
LEMMA ScalarsStep ==
  ASSUME IInv, [Next]_vars
  PROVE  /\ definition' \in [Tasks -> 0..MaxEdits]
         /\ edits' \in 0..MaxEdits
         /\ pc' \in Locations
         /\ packStatus' \in {"none", "running", "completed", "partial_failure", "failed"}
         /\ aggregates' \in AggregatesType \cup {NoAggregates}
         /\ requests' \in 0..MaxRequests
  <1>0. TypeOK
    BY DEF IInv
  <1>1. CASE Select
    BY <1>0, <1>1, SelectEffect
    DEF TypeOK, Select, PackFrame, taskVars, requestVars, Locations, Over
  <1>2. CASE Count
    <2>1. aggregates' \in AggregatesType
      <3>1. \A s : WithStatus(s) \subseteq Tasks
        BY <1>0 DEF TypeOK, WithStatus
      <3>2. Roster \subseteq Tasks
            /\ {t \in Roster : entries[t].metric = "resolved"} \subseteq Tasks
        BY <1>0 DEF TypeOK
      <3>3. aggregates' = Aggregates
        BY <1>2 DEF Count
      <3> QED
        BY <3>1, <3>2, <3>3, RosterCounts DEF Aggregates, AggregatesType
    <2> QED
      BY <1>0, <1>2, <2>1
      DEF TypeOK, Count, PackFrame, taskVars, requestVars, Locations, Over
  <1>3. CASE Conclude
    BY <1>0, <1>3
    DEF TypeOK, Conclude, PackFrame, taskVars, requestVars, Locations, Over, Verdict
  <1>4. CASE Begin \/ Skip
    BY <1>0, <1>4
    DEF TypeOK, Begin, Skip, PackFrame, taskVars, requestVars, Locations, Over
  <1>5. CASE Check \/ StartRun \/ RunReturns \/ Evaluate \/ Finish
    <2>1. pc' \in {"start", "run", "evaluate", "finish", "count"}
      BY <1>5 DEF Check, StartRun, RunReturns, Evaluate, Finish
    <2>2. UNCHANGED <<definition, edits, packStatus, aggregates, requests>>
      BY <1>5
      DEF Check, StartRun, RunReturns, Evaluate, Finish, ExecuteFrame, PackFrame,
          taskVars, requestVars
    <2> QED
      BY <1>0, <2>1, <2>2 DEF TypeOK, Locations
  <1>6. CASE Edit
    <2>1. edits' \in 0..MaxEdits
      BY <1>0, <1>6, PackAssumption DEF TypeOK, Edit
    <2>2. definition' \in [Tasks -> 0..MaxEdits]
      <3>1. \/ definition' = definition
            \/ \E t \in Tasks : definition' = [definition EXCEPT ![t] = edits']
        BY <1>6, Zenon DEF Edit
      <3> QED
        BY <1>0, <2>1, <3>1 DEF TypeOK
    <2> QED
      BY <1>0, <1>6, <2>1, <2>2
      DEF TypeOK, Edit, OthersFrame, packVars, requestVars
  <1>7. CASE BeginTests \/ EndTests
    BY <1>0, <1>7, PackAssumption
    DEF TypeOK, BeginTests, EndTests, OthersFrame, packVars, taskVars
  <1>8. CASE Crash
    BY <1>0, <1>8 DEF TypeOK, Crash, packVars, taskVars, Locations, Over
  <1>9. CASE ReadTask \/ UNCHANGED vars
    BY <1>0, <1>9
    DEF TypeOK, ReadTask, OthersFrame, vars, packVars, taskVars, requestVars
  <1> QED
    BY <1>1, <1>2, <1>3, <1>4, <1>5, <1>6, <1>7, <1>8, <1>9, Zenon
    DEF Next, PackStep, Terminated

ReadsOK ==
  /\ since \in [Tasks -> 0..MaxEdits]
  /\ used \in [Tasks -> SUBSET (0..MaxEdits)]

LEMMA ReadsTyped ==
  ASSUME IInv, [Next]_vars
  PROVE  ReadsOK'
  <1>0. TypeOK /\ OneAtWork /\ ReadsOK
    BY DEF IInv, TypeOK, ReadsOK
  <1>1. CASE UNCHANGED readVars
    BY <1>0, <1>1 DEF ReadsOK, readVars
  <1>2. CASE Check
    BY <1>0, <1>2 DEF ReadsOK, Check, TypeOK
  <1>3. CASE StartRun
    <2>1. current \in Tasks /\ definition[current] \in 0..MaxEdits
      BY <1>0, <1>3 DEF StartRun, OneAtWork, Executing, TypeOK
    <2> QED
      BY <1>0, <1>3, <2>1 DEF ReadsOK, StartRun
  <1>4. CASE ReadTask
    <2>1. PICK t \in testing \cup (IF pc = "run" THEN {current} ELSE {}) :
            used' = [used EXCEPT ![t] = @ \cup {definition[t]}]
      BY <1>4, Zenon DEF ReadTask
    <2>2. t \in Tasks /\ definition[t] \in 0..MaxEdits
      BY <1>0 DEF OneAtWork, Executing, TypeOK
    <2> QED
      BY <1>0, <1>4, <2>1, <2>2 DEF ReadsOK, ReadTask
  <1> QED
    BY <1>1, <1>2, <1>3, <1>4, Zenon
    DEF Next, PackStep, Select, Begin, Skip, Count, Conclude, RunReturns, Evaluate,
        Finish, Edit, BeginTests, EndTests, Crash, Terminated, readVars, vars

LEMMA TypeStep ==
  ASSUME IInv, [Next]_vars
  PROVE  TypeOK'
  BY RowsStep, ScalarsStep, FlagsStep, ReadsTyped, Zenon
  DEF IInv, TypeOK, RowsOK, ReadsOK

-----------------------------------------------------------------------------
(* The order of the entries.                                               *)

(* In terms of the flag as a value, for leaves that also compare numbers.  *)
InOrder ==
  \A t, u \in Roster :
    /\ t < u /\ entries[u].status # "queued" => t \in Finished
    /\ t < u /\ stopOnFailure = TRUE /\ entries[t].status = "failed"
         => entries[u].status \in {"queued", "skipped"}
    /\ entries[u].status = "skipped"
         => /\ stopOnFailure = TRUE
            /\ \E s \in Roster : s < u /\ entries[s].status = "failed"

LEMMA OrderAsStated ==
  ASSUME stopOnFailure \in BOOLEAN
  PROVE  StopsAfterFailure <=> InOrder
  <1>1. stopOnFailure <=> stopOnFailure = TRUE
    BY Zenon
  <1> QED
    BY <1>1, Zenon DEF StopsAfterFailure, InOrder

Order == OneAtWork /\ StopIsKnown /\ InOrder

(* Steps that leave every status alone.                                    *)
LEMMA SameStatuses ==
  ASSUME Roster' = Roster, stopOnFailure' = stopOnFailure,
         \A u \in Roster : entries'[u].status = entries[u].status
  PROVE  /\ SomeFailed' <=> SomeFailed
         /\ Finished' = Finished
         /\ InOrder => InOrder'
  <1>1. SomeFailed' <=> SomeFailed
    BY DEF SomeFailed
  <1>2. Finished' = Finished
    BY DEF Finished
  <1>3. InOrder => InOrder'
    BY <1>2 DEF InOrder
  <1> QED
    BY <1>1, <1>2, <1>3

LEMMA SelectOrder ==
  ASSUME IInv, InOrder, Select
  PROVE  Order'
  <1>1. TypeOK /\ OneAtWork /\ StopIsKnown
    BY DEF IInv
  <1>2. pc = "select" /\ UNCHANGED <<stop, stopOnFailure>>
    BY DEF Select, PackFrame
  <1>3. Roster = {} /\ stop # TRUE
    BY <1>1, <1>2 DEF OneAtWork, StopIsKnown, SomeFailed
  <1>4. CASE pc' = "refused" /\ UNCHANGED entries
    BY <1>3, <1>4
    DEF Order, OneAtWork, StopIsKnown, InOrder, Executing, Roster
  <1>5. CASE pc' = "turn" /\ \A t \in Roster' : entries'[t].status = "queued"
    BY <1>2, <1>3, <1>5
    DEF Order, OneAtWork, StopIsKnown, InOrder, Executing, SomeFailed
  <1> QED
    BY <1>1, <1>4, <1>5, SelectEffect

LEMMA BeginOrder ==
  ASSUME IInv, InOrder, Begin
  PROVE  Order'
  <1>1. TypeOK /\ OneAtWork /\ StopIsKnown
    BY DEF IInv
  <1>2. PICK t \in Queued : /\ IsNext(t)
                            /\ current' = t
                            /\ entries' = [entries EXCEPT ![t].status = "running"]
    BY Zenon DEF Begin
  <1>3. pc = "turn" /\ pc' = "check" /\ UNCHANGED <<stop, stopOnFailure>>
    BY DEF Begin, PackFrame
  <1>4. stop = FALSE
    BY <1>1, Zenon DEF Begin, TypeOK, FlagsOK
  <1>5. ~(stopOnFailure = TRUE /\ SomeFailed)
    BY <1>1, <1>3, <1>4 DEF StopIsKnown
  <1>6. t \in Roster /\ entries[t].status = "queued"
    BY DEF Queued, WithStatus
  <1>7. /\ Roster' = Roster
        /\ entries'[t].status = "running"
        /\ \A u \in Roster \ {t} : entries'[u] = entries[u]
    BY <1>1, <1>2, <1>6, BeginEffect
  <1>8. OneAtWork'
    BY <1>1, <1>2, <1>3, <1>6, <1>7 DEF OneAtWork, Executing
  <1>9. StopIsKnown'
    BY <1>3, <1>4, <1>5, <1>6, <1>7 DEF StopIsKnown, Executing, SomeFailed
  <1>10. \A u \in Roster : u < t => u \in Finished
    <2> SUFFICES ASSUME NEW u \in Roster, u < t PROVE u \in Finished
      OBVIOUS
    <2>1. t \in Nat /\ u \in Nat
      BY <1>1, <1>6, PackAssumption DEF TypeOK, Tasks
    <2>2. entries[u].status # "queued"
      BY <1>2, <2>1 DEF IsNext, Queued, WithStatus
    <2>3. entries[u].status # "running"
      BY <1>1, <1>3 DEF OneAtWork, Executing
    <2> QED
      BY <1>1, <2>2, <2>3, EntryTyped DEF EntryType, Finished
  <1>11. InOrder'
    <2>1. t \notin Finished /\ Finished' = Finished
      BY <1>6, <1>7 DEF Finished
    <2> QED
      BY <1>3, <1>5, <1>6, <1>7, <1>10, <2>1 DEF InOrder, SomeFailed
  <1> QED
    BY <1>8, <1>9, <1>11 DEF Order

LEMMA SkipOrder ==
  ASSUME IInv, InOrder, Skip
  PROVE  Order'
  <1>1. TypeOK /\ OneAtWork /\ StopIsKnown
    BY DEF IInv
  <1>2. PICK t \in Queued : /\ IsNext(t)
                            /\ current' = t
                            /\ entries' = [entries EXCEPT ![t].status = "skipped"]
                            /\ runs' = [runs EXCEPT ![t] = Cancelled(@)]
    BY Zenon DEF Skip
  <1>3. pc = "turn" /\ pc' = "count" /\ UNCHANGED <<stop, stopOnFailure>>
    BY DEF Skip, PackFrame
  <1>4. stop = TRUE
    BY <1>1, Zenon DEF Skip, TypeOK, FlagsOK
  <1>5. stopOnFailure = TRUE /\ SomeFailed
    BY <1>1, <1>3, <1>4 DEF StopIsKnown
  <1>6. t \in Roster /\ entries[t].status = "queued"
    BY DEF Queued, WithStatus
  <1>7. /\ Roster' = Roster
        /\ entries'[t].status = "skipped"
        /\ \A u \in Roster \ {t} : entries'[u] = entries[u]
    BY <1>1, <1>2, <1>6, SkipEffect
  <1>8. t \in Finished' /\ \A u \in Finished : u \in Finished'
    BY <1>6, <1>7 DEF Finished
  <1>9. OneAtWork'
    BY <1>1, <1>2, <1>3, <1>6, <1>7, <1>8 DEF OneAtWork, Executing
  <1>10. SomeFailed'
    BY <1>5, <1>6, <1>7 DEF SomeFailed
  <1>11. StopIsKnown'
    <2>1. StopFrom'
      BY <1>3, <1>4, Zenon DEF StopFrom
    <2> QED
      BY <1>3, <1>5, <1>10, <2>1 DEF StopIsKnown, Executing
  <1>12. \A u \in Roster : u < t => u \in Finished
    <2> SUFFICES ASSUME NEW u \in Roster, u < t PROVE u \in Finished
      OBVIOUS
    <2>1. t \in Nat /\ u \in Nat
      BY <1>1, <1>6, PackAssumption DEF TypeOK, Tasks
    <2>2. entries[u].status # "queued"
      BY <1>2, <2>1 DEF IsNext, Queued, WithStatus
    <2>3. entries[u].status # "running"
      BY <1>1, <1>3 DEF OneAtWork, Executing
    <2> QED
      BY <1>1, <2>2, <2>3, EntryTyped DEF EntryType, Finished
  <1>13. \E s \in Roster : s < t /\ entries'[s].status = "failed"
    <2>1. PICK s \in Roster : entries[s].status = "failed"
      BY <1>5 DEF SomeFailed
    <2>2. ~(t < s)
      BY <1>6, <2>1 DEF InOrder, Finished
    <2>3. t \in Nat /\ s \in Nat
      BY <1>1, <1>6, PackAssumption DEF TypeOK, Tasks
    <2>4. s < t /\ s # t
      BY <1>6, <2>1, <2>2, <2>3
    <2> QED
      BY <1>7, <2>1, <2>4
  <1>14. InOrder'
    BY <1>3, <1>5, <1>6, <1>7, <1>8, <1>12, <1>13 DEF InOrder
  <1> QED
    BY <1>9, <1>11, <1>14 DEF Order

LEMMA FinishOrder ==
  ASSUME IInv, InOrder, Finish
  PROVE  Order'
  <1>1. TypeOK /\ OneAtWork /\ StopIsKnown
    BY DEF IInv
  <1>2. /\ pc = "finish" /\ pc' = "count"
        /\ UNCHANGED <<stop, stopOnFailure, current>>
    BY DEF Finish, ExecuteFrame, PackFrame
  <1>3. current \in Roster /\ entries[current].status = "running"
    BY <1>1, <1>2 DEF OneAtWork, Executing
  <1>4. stop = FALSE /\ ~(stopOnFailure = TRUE /\ SomeFailed)
    BY <1>1, <1>2 DEF StopIsKnown, Executing
  <1>5. /\ Roster' = Roster
        /\ entries'[current].status \in {"completed", "failed"}
        /\ \A u \in Roster \ {current} : entries'[u] = entries[u]
    BY <1>1, <1>3, FinishEffect
  <1>6. current \in Finished' /\ \A u \in Finished : u \in Finished'
    BY <1>3, <1>5 DEF Finished
  <1>7. OneAtWork'
    BY <1>1, <1>2, <1>3, <1>5, <1>6 DEF OneAtWork, Executing
  <1>8. StopIsKnown'
    <2>1. FlagsOK'
      BY <1>1, FlagsStep, Zenon DEF Next, PackStep
    <2>2. StopFrom' <=> stopOnFailure = TRUE /\ entries'[current].status = "failed"
      <3>1. StopFrom' <=> stop' = TRUE \/ (stopOnFailure' = TRUE
                                      /\ entries'[current'].status = "failed")
        <4>1. /\ stop' <=> stop' = TRUE
              /\ stopOnFailure' <=> stopOnFailure' = TRUE
          BY <2>1, Zenon DEF FlagsOK
        <4> QED
          BY <4>1, Zenon DEF StopFrom
      <3> QED
        BY <1>2, <1>4, <3>1
    <2>3. stopOnFailure = TRUE =>
            (SomeFailed' <=> entries'[current].status = "failed")
      BY <1>3, <1>4, <1>5 DEF SomeFailed
    <2> QED
      BY <1>2, <2>2, <2>3 DEF StopIsKnown, Executing
  <1>9. \A u \in Roster : current < u => entries[u].status = "queued"
    BY <1>3 DEF InOrder, Finished
  <1>10. InOrder'
    BY <1>2, <1>3, <1>4, <1>5, <1>6, <1>9 DEF InOrder, SomeFailed
  <1> QED
    BY <1>7, <1>8, <1>10 DEF Order

LEMMA CountOrder ==
  ASSUME IInv, InOrder, Count
  PROVE  Order'
  <1>1. TypeOK /\ OneAtWork /\ StopIsKnown
    BY DEF IInv
  <1>2. /\ pc = "count" /\ pc' = "turn" /\ stop' = StopFrom
        /\ UNCHANGED <<current, stopOnFailure>>
    BY DEF Count, PackFrame
  <1>3. current \in Roster /\ current \in Finished
    BY <1>1, <1>2 DEF OneAtWork
  <1>4. /\ Roster' = Roster
        /\ \A u \in Roster : entries'[u].status = entries[u].status
    BY <1>1, <1>3, CountEffect
  <1>5. (SomeFailed' <=> SomeFailed) /\ InOrder'
    BY <1>2, <1>4, SameStatuses
  <1>6. OneAtWork'
    BY <1>1, <1>2, <1>3, <1>4 DEF OneAtWork, Executing
  <1>7. stop' = TRUE <=> StopFrom
    <2>1. StopFrom \in BOOLEAN
      BY Zenon DEF StopFrom
    <2> QED
      BY <1>2, <2>1, Zenon
  <1>8. StopIsKnown'
    BY <1>1, <1>2, <1>5, <1>7 DEF StopIsKnown, Executing
  <1> QED
    BY <1>5, <1>6, <1>8 DEF Order

LEMMA ExecuteOrder ==
  ASSUME IInv, InOrder, Check \/ StartRun \/ RunReturns \/ Evaluate
  PROVE  Order'
  <1>1. TypeOK /\ OneAtWork /\ StopIsKnown
    BY DEF IInv
  <1>2. /\ pc \in Executing /\ pc' \in Executing
        /\ UNCHANGED <<stop, stopOnFailure, current>>
    BY DEF Check, StartRun, RunReturns, Evaluate, ExecuteFrame, PackFrame, Executing
  <1>3. pc # "count" /\ pc' \notin {"select", "turn", "count", "dead"}
    BY <1>2 DEF Executing
  <1>4. current \in Roster
    BY <1>1, <1>2 DEF OneAtWork
  <1>5. /\ Roster' = Roster
        /\ \A u \in Roster : entries'[u].status = entries[u].status
    <2>1. CASE UNCHANGED entries
      BY <2>1 DEF Roster
    <2>2. CASE Evaluate
      BY <1>1, <1>4, <2>2, EvaluateEffect
    <2> QED
      BY <2>1, <2>2 DEF Check, StartRun, RunReturns
  <1>6. (SomeFailed' <=> SomeFailed) /\ InOrder'
    BY <1>2, <1>5, SameStatuses
  <1>7. OneAtWork'
    BY <1>1, <1>2, <1>3, <1>4, <1>5 DEF OneAtWork, Executing
  <1>8. StopIsKnown'
    <2>1. stop' = FALSE /\ ~(stopOnFailure' = TRUE /\ SomeFailed')
      BY <1>1, <1>2, <1>6 DEF StopIsKnown
    <2> QED
      BY <1>3, <2>1, Zenon DEF StopIsKnown
  <1> QED
    BY <1>6, <1>7, <1>8 DEF Order

(* The steps of others, the end of the pack and the death of the process   *)
(* leave the entries alone.                                                *)
LEMMA OthersOrder ==
  ASSUME IInv, InOrder,
         UNCHANGED <<stop, stopOnFailure, current, entries>>,
         \/ UNCHANGED pc
         \/ pc = "turn" /\ pc' = "over"
         \/ pc' = "dead"
  PROVE  Order'
  <1>1. TypeOK /\ OneAtWork /\ StopIsKnown
    BY DEF IInv
  <1>2. Roster' = Roster /\ Finished' = Finished
    BY DEF Roster, Finished
  <1>3. (SomeFailed' <=> SomeFailed) /\ InOrder'
    BY <1>2, SameStatuses
  <1>4. StopFrom' <=> StopFrom
    BY Zenon DEF StopFrom
  <1>5. OneAtWork'
    BY <1>1, <1>2 DEF OneAtWork, Executing
  <1>6. StopIsKnown'
    BY <1>1, <1>3, <1>4 DEF StopIsKnown, Executing
  <1> QED
    BY <1>3, <1>5, <1>6 DEF Order

LEMMA OrderStep ==
  ASSUME IInv, [Next]_vars
  PROVE  OneAtWork' /\ StopIsKnown' /\ StopsAfterFailure'
  <1>1. InOrder
    BY OrderAsStated, Zenon DEF IInv, TypeOK, FlagsOK
  <1>2. ASSUME \/ Conclude \/ Edit \/ ReadTask \/ BeginTests \/ EndTests \/ Crash
               \/ UNCHANGED vars
        PROVE  Order'
    <2>1. /\ UNCHANGED <<stop, stopOnFailure, current, entries>>
          /\ \/ UNCHANGED pc
             \/ pc = "turn" /\ pc' = "over"
             \/ pc' = "dead"
      BY <1>2
      DEF Conclude, Edit, ReadTask, BeginTests, EndTests, Crash, PackFrame, OthersFrame,
          packVars, vars
    <2> QED
      BY <1>1, <2>1, OthersOrder
  <1>3. Order'
    BY <1>1, <1>2, SelectOrder, BeginOrder, SkipOrder, CountOrder, ExecuteOrder,
       FinishOrder, Zenon
    DEF Next, PackStep, Terminated
  <1>4. InOrder' => StopsAfterFailure'
    <2>1. stopOnFailure' \in BOOLEAN
      BY FlagsStep, Zenon DEF IInv, FlagsOK
    <2>2. stopOnFailure' <=> stopOnFailure' = TRUE
      BY <2>1, Zenon
    <2> QED
      BY <2>2, Zenon DEF StopsAfterFailure, InOrder
  <1> QED
    BY <1>3, <1>4 DEF Order

-----------------------------------------------------------------------------
(* What has been executed.                                                 *)

Results == UntilExecuted /\ GivenAsSelected

LEMMA SelectResults ==
  ASSUME IInv, Select
  PROVE  Results'
  <1>1. TypeOK /\ OneAtWork
    BY DEF IInv
  <1>2. pc = "select" /\ Roster = {} /\ pc' \in {"refused", "turn"}
    BY <1>1 DEF Select, OneAtWork
  <1>3. CASE UNCHANGED <<entries, runs>>
    BY <1>2, <1>3 DEF Results, UntilExecuted, GivenAsSelected, Roster
  <1>4. CASE \A t \in Roster' :
               /\ entries'[t].status = "queued" /\ entries'[t].metric = "none"
               /\ runs'[t].metric = "none" /\ runs'[t].given = Nothing
    BY <1>2, <1>4 DEF Results, UntilExecuted, GivenAsSelected, Nothing
  <1> QED
    BY <1>1, <1>3, <1>4, SelectEffect

LEMMA BeginResults ==
  ASSUME IInv, Begin
  PROVE  Results'
  <1>1. TypeOK /\ UntilExecuted /\ GivenAsSelected
    BY DEF IInv
  <1>2. PICK t \in Queued : /\ current' = t
                            /\ entries' = [entries EXCEPT ![t].status = "running"]
    BY Zenon DEF Begin
  <1>3. pc = "turn" /\ pc' = "check" /\ UNCHANGED runs
    BY DEF Begin
  <1>4. t \in Roster /\ entries[t].status = "queued"
    BY DEF Queued, WithStatus
  <1>5. /\ Roster' = Roster
        /\ entries'[t].status = "running"
        /\ entries'[t].definition = entries[t].definition
        /\ entries'[t].metric = entries[t].metric
        /\ \A u \in Roster \ {t} : entries'[u] = entries[u]
    BY <1>1, <1>2, <1>4, BeginEffect
  <1>6. UntilExecuted'
    BY <1>1, <1>2, <1>3, <1>4, <1>5 DEF UntilExecuted, Nothing
  <1>7. GivenAsSelected'
    BY <1>1, <1>3, <1>4, <1>5 DEF GivenAsSelected, Nothing
  <1> QED
    BY <1>6, <1>7 DEF Results

LEMMA SkipResults ==
  ASSUME IInv, Skip
  PROVE  Results'
  <1>1. TypeOK /\ UntilExecuted /\ GivenAsSelected
    BY DEF IInv
  <1>2. PICK t \in Queued : /\ current' = t
                            /\ entries' = [entries EXCEPT ![t].status = "skipped"]
                            /\ runs' = [runs EXCEPT ![t] = Cancelled(@)]
    BY Zenon DEF Skip
  <1>3. pc = "turn" /\ pc' = "count"
    BY DEF Skip
  <1>4. t \in Roster /\ entries[t].status = "queued"
    BY DEF Queued, WithStatus
  <1>5. /\ Roster' = Roster
        /\ entries'[t].status = "skipped"
        /\ entries'[t].definition = entries[t].definition
        /\ entries'[t].metric = entries[t].metric
        /\ runs'[t].metric = runs[t].metric
        /\ runs'[t].given = runs[t].given
        /\ \A u \in Roster \ {t} : entries'[u] = entries[u] /\ runs'[u] = runs[u]
    BY <1>1, <1>2, <1>4, SkipEffect
  <1>6. UntilExecuted'
    BY <1>1, <1>3, <1>4, <1>5 DEF UntilExecuted, Nothing
  <1>7. GivenAsSelected'
    BY <1>1, <1>4, <1>5 DEF GivenAsSelected, Nothing
  <1> QED
    BY <1>6, <1>7 DEF Results

(* Count, Conclude, the steps of others and the death of the process: no   *)
(* entry and no run gets another metric or definition.                     *)
LEMMA KeptResults ==
  ASSUME IInv,
         Roster' = Roster, current' = current,
         pc' = pc \/ pc' \in {"turn", "over", "dead"},
         \A u \in Roster : /\ entries'[u].status = entries[u].status
                           /\ entries'[u].definition = entries[u].definition
                           /\ entries'[u].metric = entries[u].metric
                           /\ runs'[u].metric = runs[u].metric
                           /\ runs'[u].given = runs[u].given
  PROVE  Results'
  <1>1. UntilExecuted /\ GivenAsSelected /\ OneAtWork
    BY DEF IInv
  <1>2. pc \in {"start", "run"} => current \in Roster
    BY <1>1 DEF OneAtWork, Executing
  <1>3. UntilExecuted'
    BY <1>1, <1>2 DEF UntilExecuted, Nothing
  <1>4. GivenAsSelected'
    BY <1>1 DEF GivenAsSelected, Nothing
  <1> QED
    BY <1>3, <1>4 DEF Results

LEMMA ExecuteResults ==
  ASSUME IInv, Check \/ StartRun \/ RunReturns
  PROVE  Results'
  <1>1. /\ TypeOK /\ OneAtWork /\ UntilExecuted /\ GivenAsSelected
    BY DEF IInv
  <1>2. pc \in {"check", "start", "run"} /\ UNCHANGED <<entries, current>>
    BY DEF Check, StartRun, RunReturns, ExecuteFrame
  <1>3. current \in Roster /\ entries[current].status = "running"
    BY <1>1, <1>2 DEF OneAtWork, Executing
  <1>4. Roster' = Roster
    BY <1>2 DEF Roster
  <1>5. entries[current].metric = "none" /\ runs[current].metric = "none"
    BY <1>1, <1>2, <1>3 DEF UntilExecuted
  <1>6. \A u \in Roster \ {current} : runs'[u] = runs[u]
    BY <1>1, <1>3, CheckEffect, StartRunEffect, RunReturnsEffect
  <1>7. ASSUME runs'[current].metric = "none",
               runs'[current].given \in {entries[current].definition, Nothing},
               \/ pc' \in {"start", "run"} /\ runs'[current].given # Nothing
               \/ pc' = "evaluate"
        PROVE  Results'
    <2>1. UntilExecuted'
      BY <1>1, <1>2, <1>3, <1>4, <1>5, <1>6, <1>7 DEF UntilExecuted, Nothing
    <2>2. GivenAsSelected'
      BY <1>1, <1>2, <1>3, <1>4, <1>5, <1>6, <1>7 DEF GivenAsSelected, Nothing
    <2> QED
      BY <2>1, <2>2 DEF Results
  <1>8. CASE Check
    <2>1. definition[current] # Nothing
      BY <1>1, <1>3, PackAssumption DEF TypeOK, Nothing
    <2> QED
      BY <1>1, <1>3, <1>5, <1>7, <1>8, <2>1, CheckEffect DEF GivenAsSelected
  <1>9. CASE StartRun
    <2>1. runs[current].given # Nothing
      BY <1>1, <1>9 DEF UntilExecuted, StartRun
    <2> QED
      BY <1>1, <1>3, <1>5, <1>7, <1>9, <2>1, StartRunEffect DEF GivenAsSelected
  <1>10. CASE RunReturns
    <2>1. runs[current].given # Nothing /\ pc' = "evaluate"
      BY <1>1, <1>10 DEF UntilExecuted, RunReturns
    <2>2. runs'[current].given = runs[current].given
      BY <1>1, <1>3, <1>10, RunReturnsEffect
    <2>3. UntilExecuted'
      BY <1>1, <1>2, <1>3, <1>4, <1>6, <2>1, <2>2 DEF UntilExecuted, Nothing
    <2>4. GivenAsSelected'
      BY <1>1, <1>2, <1>4, <1>6, <2>2 DEF GivenAsSelected, Nothing
    <2> QED
      BY <2>3, <2>4 DEF Results
  <1> QED
    BY <1>8, <1>9, <1>10

LEMMA EvaluateResults ==
  ASSUME IInv, Evaluate
  PROVE  Results'
  <1>1. /\ TypeOK /\ OneAtWork /\ UntilExecuted /\ GivenAsSelected
    BY DEF IInv
  <1>2. pc = "evaluate" /\ pc' = "finish" /\ UNCHANGED current
    BY DEF Evaluate, ExecuteFrame
  <1>3. current \in Roster /\ entries[current].status = "running"
    BY <1>1, <1>2 DEF OneAtWork, Executing
  <1>4. /\ Roster' = Roster
        /\ entries'[current].status = "running"
        /\ entries'[current].definition = entries[current].definition
        /\ runs'[current].given = runs[current].given
        /\ \A u \in Roster \ {current} :
             entries'[u] = entries[u] /\ runs'[u] = runs[u]
    BY <1>1, <1>3, EvaluateEffect
  <1>5. runs'[current].metric = "resolved" => runs[current].given # Nothing
    <2>1. CASE runs'[current].metric = runs[current].metric
      BY <1>1, <1>3, <2>1 DEF UntilExecuted
    <2>2. CASE runs'[current].metric \in Findings(runs[current]) \cup {"none"}
      BY <2>2 DEF Findings
    <2> QED
      BY <1>1, <1>3, <2>1, <2>2, EvaluateEffect
  <1>6. entries'[current].metric = "resolved"
          => runs[current].given = entries[current].definition
    <2>1. runs[current].given \in {entries[current].definition, Nothing}
      BY <1>1, <1>3 DEF GivenAsSelected
    <2>2. runs[current].metric = "resolved" => runs[current].given # Nothing
      BY <1>1, <1>3 DEF UntilExecuted
    <2>3. entries[current].metric = "resolved"
            => runs[current].given = entries[current].definition
      BY <1>1, <1>3 DEF GivenAsSelected
    <2>4. entries'[current].metric \in
            {entries[current].metric, runs[current].metric, runs'[current].metric}
      BY <1>1, <1>3, EvaluateEffect
    <2> QED
      BY <1>5, <2>1, <2>2, <2>3, <2>4
  <1>7. UntilExecuted'
    BY <1>1, <1>2, <1>3, <1>4, <1>5 DEF UntilExecuted, Nothing
  <1>8. GivenAsSelected'
    BY <1>1, <1>3, <1>4, <1>6 DEF GivenAsSelected, Nothing
  <1> QED
    BY <1>7, <1>8 DEF Results

LEMMA FinishResults ==
  ASSUME IInv, Finish
  PROVE  Results'
  <1>1. /\ TypeOK /\ OneAtWork /\ UntilExecuted /\ GivenAsSelected
    BY DEF IInv
  <1>2. pc = "finish" /\ pc' = "count" /\ UNCHANGED current
    BY DEF Finish, ExecuteFrame
  <1>3. current \in Roster
    BY <1>1, <1>2 DEF OneAtWork, Executing
  <1>4. /\ Roster' = Roster
        /\ entries'[current].status \in {"completed", "failed"}
        /\ entries'[current].definition = entries[current].definition
        /\ entries'[current].metric = entries[current].metric
        /\ runs'[current].metric = runs[current].metric
        /\ runs'[current].given = runs[current].given
        /\ \A u \in Roster \ {current} :
             entries'[u] = entries[u] /\ runs'[u] = runs[u]
    BY <1>1, <1>3, FinishEffect
  <1>5. UntilExecuted'
    BY <1>1, <1>2, <1>3, <1>4 DEF UntilExecuted, Nothing
  <1>6. GivenAsSelected'
    BY <1>1, <1>3, <1>4 DEF GivenAsSelected, Nothing
  <1> QED
    BY <1>5, <1>6 DEF Results

LEMMA ResultsStep ==
  ASSUME IInv, [Next]_vars
  PROVE  Results'
  <1>1. TypeOK /\ OneAtWork
    BY DEF IInv
  <1>2. ASSUME Count PROVE Results'
    <2>1. /\ pc = "count" /\ pc' = "turn" /\ UNCHANGED <<runs, current>>
      BY <1>2 DEF Count
    <2>2. current \in Roster
      BY <1>1, <2>1 DEF OneAtWork
    <2> QED
      BY <1>1, <1>2, <2>1, <2>2, CountEffect, KeptResults
  <1>3. ASSUME EndTests PROVE Results'
    <2>1. UNCHANGED <<entries, current, pc>> /\ Roster' = Roster
      BY <1>3 DEF EndTests, OthersFrame, Roster
    <2> QED
      BY <1>1, <1>3, <2>1, EndTestsEffect, KeptResults
  <1>4. ASSUME Conclude \/ Edit \/ ReadTask \/ BeginTests \/ Crash \/ UNCHANGED vars
        PROVE  Results'
    <2>1. /\ UNCHANGED <<entries, runs, current>> /\ Roster' = Roster
          /\ pc' = pc \/ pc' \in {"turn", "over", "dead"}
      BY <1>4
      DEF Conclude, Edit, ReadTask, BeginTests, Crash, OthersFrame, vars, Roster
    <2> QED
      BY <2>1, KeptResults
  <1> QED
    BY <1>2, <1>3, <1>4, SelectResults, BeginResults, SkipResults,
       ExecuteResults, EvaluateResults, FinishResults, Zenon
    DEF Next, PackStep, Terminated

-----------------------------------------------------------------------------
(* The theorems.                                                           *)

LEMMA InvInit == Init => IInv
  <1> SUFFICES ASSUME Init PROVE IInv
    OBVIOUS
  <1>1. Roster = {} /\ pc = "select" /\ stop = FALSE
    BY DEF Init, NoRows, Roster
  <1>2. OneAtWork /\ StopIsKnown /\ UntilExecuted
    BY <1>1 DEF OneAtWork, StopIsKnown, SomeFailed, UntilExecuted, Executing
  <1>3. GivenAsSelected /\ StopsAfterFailure
    BY <1>1 DEF GivenAsSelected, StopsAfterFailure
  <1> QED
    BY <1>2, <1>3, TypeInit DEF IInv

LEMMA InvStep == IInv /\ [Next]_vars => IInv'
  BY TypeStep, OrderStep, ResultsStep DEF IInv, Results

LEMMA Invariance == Spec => []IInv
  BY InvInit, InvStep, PTL DEF Spec

(* Every variable keeps its type: the roster is fixed by Select, each of   *)
(* its tasks has one entry and one run, and the committed counts stay      *)
(* within the roster (BenchmarkPackRunService.start).                      *)
THEOREM PackTypeCorrect == Spec => []TypeOK
  BY Invariance, PTL DEF IInv

(* Entries are taken up in the order of the pack, and skipped only when    *)
(* stop_on_task_failure is set and an earlier one has failed (start).      *)
THEOREM PackStops == Spec => []StopsAfterFailure
  BY Invariance, PTL DEF IInv

-----------------------------------------------------------------------------
(* What a pack run reports, proved for packs of any size: entries follow   *)
(* their runs, the committed aggregates account for the finished entries,  *)
(* the verdict of the pack follows from the aggregates, and neither the    *)
(* cause of a failure nor a saved entry is written over.                   *)

(* A run that has not been taken up is as Select left it.                  *)
QueuedUntouched ==
  \A t \in Roster :
    entries[t].status = "queued" =>
      /\ runs[t].status = "queued"
      /\ runs[t].failure = "none"
      /\ t \notin testing

TestsAreRequested == requests = 0 => testing = {}

(* What start_run and the evaluation leave behind when no client tests.    *)
Told(run, metric) ==
  \/ run.status = "completed" /\ metric # "none"
  \/ run.status = "failed" /\ run.failure # "none"

ReturnsTell ==
  requests = 0 =>
    /\ pc = "evaluate" => Told(runs[current], runs[current].metric)
    /\ pc = "finish" => Told(runs[current], entries[current].metric)

SkippedUnresolved ==
  \A t \in Roster : entries[t].status = "skipped" => entries[t].metric = "none"

Started == Executing \cup {"turn", "count"}

StatusFitsLocation ==
  /\ pc = "select" => packStatus = "none"
  /\ pc \in Started => packStatus = "running" /\ Roster # {}
  /\ packStatus # "none" => aggregates \in AggregatesType

(* The aggregates count the entries of the set that are finished.          *)
CompletedOf(S) == {t \in S : entries[t].status = "completed"}

CountsOf(S) ==
  /\ aggregates.completed = Cardinality(CompletedOf(S))
  /\ aggregates.completed + aggregates.failed + aggregates.skipped = Cardinality(S)

(* They lag behind by the entry at work until Count, for good in a pack    *)
(* that dies before it.                                                    *)
CountsFollow ==
  packStatus # "none" =>
    /\ aggregates.total = Cardinality(Roster)
    /\ aggregates.resolved <= aggregates.completed + aggregates.failed
    /\ \/ pc # "count" /\ CountsOf(Finished)
       \/ pc \in {"count", "dead"} /\ CountsOf(Finished \ {current})

ResultsInv ==
  /\ IInv
  /\ QueuedUntouched
  /\ TestsAreRequested
  /\ ReturnsTell
  /\ EntryFollowsRun
  /\ SkippedUnresolved
  /\ StatusFitsLocation
  /\ CountsFollow
  /\ PackVerdict

-----------------------------------------------------------------------------
(* What the steps of _execute write of status and failure.                 *)

LEMMA FailedTells ==
  ASSUME NEW run \in RunType, NEW category \in Categories
  PROVE  /\ Failed(run, category).status = "failed"
         /\ Failed(run, category).failure # "none"
         /\ run.failure # "none" => Failed(run, category).failure = run.failure
  BY DEF Failed, RunType, Categories

(* The failure of the run at work is kept, and no other run is written.    *)
CauseKept ==
  /\ runs[current].failure # "none" => runs'[current].failure = runs[current].failure
  /\ \A u \in Roster \ {current} : runs'[u] = runs[u]

LEMMA CheckTells ==
  ASSUME TypeOK, current \in Roster, Check
  PROVE  /\ CauseKept
         /\ pc' = "evaluate" => Told(runs'[current], runs'[current].metric)
  <1>1. runs[current] \in RunType
    BY EntryTyped
  <1>2. CASE AsSelected(current)
    <2> DEFINE run == [runs[current] EXCEPT !.given = definition[current]]
    <2>1. run \in RunType /\ run.failure = runs[current].failure
      <3>1. current \in Tasks /\ definition[current] \in 0..MaxEdits
        BY DEF TypeOK
      <3> QED
        BY <1>1, <3>1 DEF RunType
    <2>2. SetRun(run) /\ pc' = "start"
      BY <1>2 DEF Check
    <2> HIDE DEF run
    <2> QED
      BY <2>1, <2>2, SetRunTyped DEF CauseKept
  <1>3. CASE ~AsSelected(current)
    <2> DEFINE run == Failed(runs[current], "task_not_ready")
    <2>1. /\ run \in RunType /\ run.status = "failed" /\ run.failure # "none"
          /\ runs[current].failure # "none" => run.failure = runs[current].failure
      BY <1>1, FailedTyped, FailedTells DEF Categories
    <2>2. SetRun(run)
      BY <1>3 DEF Check
    <2> HIDE DEF run
    <2> QED
      BY <2>1, <2>2, SetRunTyped DEF CauseKept, Told
  <1> QED
    BY <1>2, <1>3

LEMMA StartRunTells ==
  ASSUME TypeOK, current \in Roster, StartRun
  PROVE  /\ CauseKept
         /\ pc' = "evaluate" => Told(runs'[current], runs'[current].metric)
  <1>1. runs[current] \in RunType
    BY EntryTyped
  <1>2. CASE SetRun([runs[current] EXCEPT !.status = "running"]) /\ pc' = "run"
    <2> DEFINE run == [runs[current] EXCEPT !.status = "running"]
    <2>1. run \in RunType /\ run.failure = runs[current].failure
      BY <1>1 DEF RunType
    <2>2. SetRun(run)
      BY <1>2
    <2> HIDE DEF run
    <2> QED
      BY <1>2, <2>1, <2>2, SetRunTyped DEF CauseKept
  <1>3. CASE \E category \in {"model_provider_error", "other"} :
               SetRun([Failed(runs[current], category) EXCEPT !.given = Nothing])
    <2>1. PICK category \in {"model_provider_error", "other"} :
            SetRun([Failed(runs[current], category) EXCEPT !.given = Nothing])
      BY <1>3
    <2> DEFINE failed == Failed(runs[current], category)
    <2> DEFINE run == [failed EXCEPT !.given = Nothing]
    <2>2. /\ failed \in RunType /\ failed.status = "failed" /\ failed.failure # "none"
          /\ runs[current].failure # "none" => failed.failure = runs[current].failure
      <3>1. category \in Categories
        BY <2>1 DEF Categories
      <3> QED
        BY <1>1, <3>1, FailedTyped, FailedTells
    <2> HIDE DEF failed
    <2>3. run \in RunType /\ run.status = failed.status /\ run.failure = failed.failure
      BY <2>2 DEF RunType
    <2>4. SetRun(run)
      BY <2>1 DEF failed
    <2> HIDE DEF run
    <2> QED
      BY <2>2, <2>3, <2>4, SetRunTyped DEF CauseKept, Told
  <1> QED
    BY <1>2, <1>3 DEF StartRun

LEMMA RunReturnsTells ==
  ASSUME TypeOK, current \in Roster, RunReturns
  PROVE  /\ Told(runs'[current], runs'[current].metric)
         /\ \A u \in Roster \ {current} : runs'[u] = runs[u]
  <1>1. runs[current] \in RunType
    BY EntryTyped
  <1>2. PICK metric \in Metrics :
          LET run == [runs[current] EXCEPT !.metric = metric]
          IN  \/ metric # "none" /\ SetRun([run EXCEPT !.status = "completed"])
              \/ SetRun([run EXCEPT !.status = "failed", !.failure = "other"])
              \/ SetRun(Failed(run, "other"))
    BY Zenon DEF RunReturns
  <1> DEFINE returned == [runs[current] EXCEPT !.metric = metric]
  <1>3. returned \in RunType /\ returned.metric = metric
    BY <1>1 DEF RunType
  <1> DEFINE completed == [returned EXCEPT !.status = "completed"]
  <1> DEFINE failed == [returned EXCEPT !.status = "failed", !.failure = "other"]
  <1> DEFINE broken == Failed(returned, "other")
  <1>4. \/ metric # "none" /\ SetRun(completed)
        \/ SetRun(failed)
        \/ SetRun(broken)
    BY <1>2
  <1> HIDE DEF returned
  <1>5. completed \in RunType /\ completed.status = "completed" /\ completed.metric = metric
    BY <1>3 DEF RunType
  <1>6. failed \in RunType /\ failed.status = "failed" /\ failed.failure # "none"
    BY <1>3 DEF RunType, Categories
  <1>7. broken \in RunType /\ broken.status = "failed" /\ broken.failure # "none"
    BY <1>3, FailedTyped, FailedTells DEF Categories
  <1> HIDE DEF completed, failed, broken
  <1> QED
    BY <1>4, <1>5, <1>6, <1>7, SetRunTyped DEF Told

LEMMA EvaluateTells ==
  ASSUME TypeOK, current \in Roster, Evaluate
  PROVE  /\ CauseKept
         /\ Told(runs[current], runs[current].metric)
              => Told(runs'[current], entries'[current].metric)
  <1> DEFINE run == runs[current]
  <1>1. run \in RunType /\ entries[current] \in EntryType
    BY EntryTyped
  <1>2. CASE /\ run.metric # "none"
             /\ entries' = [entries EXCEPT ![current].metric = run.metric]
             /\ UNCHANGED runs
    <2>1. entries'[current].metric = run.metric
      BY <1>1, <1>2 DEF TypeOK, EntryType
    <2> QED
      BY <1>2, <2>1 DEF CauseKept, Told
  <1>3. CASE /\ run.metric = "none"
             /\ \E m \in Findings(run) :
                  /\ entries' = [entries EXCEPT ![current].metric = m]
                  /\ SetRun([run EXCEPT !.metric = m])
    <2>1. PICK m \in Findings(run) :
             /\ entries' = [entries EXCEPT ![current].metric = m]
             /\ SetRun([run EXCEPT !.metric = m])
      BY <1>3
    <2>2. m \in Metrics /\ m # "none"
      BY FindingsTyped DEF Findings
    <2>3. entries'[current].metric = m
      BY <1>1, <2>1 DEF TypeOK, EntryType
    <2> DEFINE found == [run EXCEPT !.metric = m]
    <2>4. found \in RunType /\ found.status = run.status /\ found.failure = run.failure
      BY <1>1, <2>2 DEF RunType
    <2>5. SetRun(found)
      BY <2>1
    <2> HIDE DEF found, run
    <2>6. runs'[current] = found /\ \A u \in Roster \ {current} : runs'[u] = runs[u]
      BY <2>4, <2>5, SetRunTyped
    <2> QED
      BY <2>2, <2>3, <2>4, <2>6 DEF CauseKept, Told, run
  <1>4. CASE \E m \in Findings(run) \cup {"none"} :
               SetRun(Failed([run EXCEPT !.metric = m], "other"))
    <2>1. PICK m \in Findings(run) \cup {"none"} :
             SetRun(Failed([run EXCEPT !.metric = m], "other"))
      BY <1>4
    <2>2. m \in Metrics
      BY FindingsTyped DEF Metrics
    <2> DEFINE found == [run EXCEPT !.metric = m]
    <2>3. found \in RunType /\ found.failure = run.failure
      BY <1>1, <2>2 DEF RunType
    <2> DEFINE failed == Failed(found, "other")
    <2>4. SetRun(failed)
      BY <2>1
    <2> HIDE DEF found
    <2>5. /\ failed \in RunType /\ failed.status = "failed" /\ failed.failure # "none"
          /\ run.failure # "none" => failed.failure = run.failure
      BY <2>3, FailedTyped, FailedTells DEF Categories
    <2> HIDE DEF failed, run
    <2>6. runs'[current] = failed /\ \A u \in Roster \ {current} : runs'[u] = runs[u]
      BY <2>4, <2>5, SetRunTyped
    <2> QED
      BY <2>5, <2>6 DEF CauseKept, Told, run
  <1> QED
    BY <1>2, <1>3, <1>4, Zenon DEF Evaluate

(* The entry takes over what the run says, explained if it has failed.     *)
LEMMA FinishTells ==
  ASSUME TypeOK, current \in Roster, Finish
  PROVE  /\ CauseKept
         /\ entries'[current].status =
              IF runs[current].status = "completed" THEN "completed" ELSE "failed"
         /\ runs'[current].status = runs[current].status
         /\ entries'[current].status = "failed" =>
              /\ entries'[current].failure = runs'[current].failure
              /\ entries'[current].failure # "none"
         /\ entries'[current].metric = entries[current].metric
         /\ \A u \in Roster \ {current} : entries'[u] = entries[u]
  <1> DEFINE run == Explained(runs[current])
  <1>1. runs[current] \in RunType /\ entries[current] \in EntryType
    BY EntryTyped
  <1>2. /\ run \in RunType /\ run.status = runs[current].status
        /\ runs[current].failure # "none" => run.failure = runs[current].failure
        /\ run.status # "completed" => run.failure # "none"
    <2>1. run \in RunType
      BY <1>1, ExplainedTyped
    <2> QED
      BY <1>1, <2>1 DEF Explained, IsFailed, RunType
  <1> DEFINE status == IF IsFailed(run) THEN "failed" ELSE "completed"
  <1> DEFINE failure == IF IsFailed(run) THEN run.failure ELSE "none"
  <1>3. /\ SetRun(run)
        /\ entries' = [entries EXCEPT ![current].status = status,
                                      ![current].failure = failure]
    BY DEF Finish
  <1>4. /\ status = IF runs[current].status = "completed" THEN "completed" ELSE "failed"
        /\ status = "failed" => failure = run.failure /\ failure # "none"
    BY <1>2 DEF IsFailed
  <1> HIDE DEF run, status, failure
  <1>5. runs'[current] = run /\ \A u \in Roster \ {current} : runs'[u] = runs[u]
    BY <1>2, <1>3, SetRunTyped
  <1>6. /\ entries'[current].status = status /\ entries'[current].failure = failure
        /\ entries'[current].metric = entries[current].metric
        /\ \A u \in Roster \ {current} : entries'[u] = entries[u]
    BY <1>1, <1>3 DEF TypeOK, EntryType
  <1> QED
    BY <1>2, <1>4, <1>5, <1>6 DEF CauseKept

(* Select puts untouched runs on an empty roster.                          *)
LEMMA SelectTells ==
  ASSUME TypeOK, OneAtWork, Select
  PROVE  /\ pc = "select" /\ Roster = {} /\ testing = {}
         /\ UNCHANGED <<testing, requests, current>>
         /\ \/ /\ pc' = "refused"
               /\ UNCHANGED <<packStatus, aggregates, entries, runs>>
            \/ /\ pc' = "turn" /\ packStatus' = "running" /\ Roster' # {}
               /\ aggregates'.total = Cardinality(Roster')
               /\ aggregates'.completed = 0 /\ aggregates'.failed = 0
               /\ aggregates'.skipped = 0 /\ aggregates'.resolved = 0
               /\ \A t \in Roster' :
                    /\ entries'[t].status = "queued" /\ entries'[t].metric = "none"
                    /\ runs'[t].status = "queued" /\ runs'[t].failure = "none"
  <1>1. /\ pc = "select" /\ Roster = {} /\ testing = {}
        /\ UNCHANGED <<testing, requests, current>>
    BY DEF TypeOK, OneAtWork, Select, PackFrame, requestVars
  <1> DEFINE members == {t \in Tasks : ready[t]}
  <1>2. CASE members = {}
    BY <1>1, <1>2 DEF Select
  <1>3. CASE members # {}
    <2>1. /\ pc' = "turn" /\ packStatus' = "running"
          /\ entries' = [t \in members |->
               [status |-> "queued", definition |-> definition[t],
                failure |-> "none", metric |-> "none"]]
          /\ runs' = [t \in members |->
               [status |-> "queued", failure |-> "none", metric |-> "none",
                given |-> Nothing]]
          /\ aggregates' = [total |-> Cardinality(members), completed |-> 0,
                            failed |-> 0, skipped |-> 0, resolved |-> 0]
      BY <1>3 DEF Select
    <2> HIDE DEF members
    <2>2. Roster' = members
      BY <2>1 DEF Roster
    <2> QED
      BY <1>1, <1>3, <2>1, <2>2
  <1> QED
    BY <1>2, <1>3

(* Begin and Skip take up a queued entry, the one that is current then.    *)
LEMMA BeginTells ==
  ASSUME TypeOK, Begin
  PROVE  /\ current' \in Roster /\ Roster' = Roster
         /\ entries[current'].status = "queued"
         /\ entries'[current'].status = "running"
         /\ \A u \in Roster \ {current'} : entries'[u] = entries[u]
         /\ pc = "turn" /\ pc' = "check"
         /\ UNCHANGED <<runs, testing, requests, packStatus, aggregates>>
  <1>1. PICK t \in Queued : /\ current' = t
                            /\ entries' = [entries EXCEPT ![t].status = "running"]
    BY Zenon DEF Begin
  <1>2. t \in Roster /\ entries[t].status = "queued"
    BY DEF Queued, WithStatus
  <1> QED
    BY <1>1, <1>2, BeginEffect DEF Begin, PackFrame, requestVars

LEMMA SkipTells ==
  ASSUME TypeOK, Skip
  PROVE  /\ current' \in Roster /\ Roster' = Roster
         /\ entries[current'].status = "queued"
         /\ entries'[current'].status = "skipped"
         /\ entries'[current'].metric = entries[current'].metric
         /\ runs'[current'].status = "cancelled"
         /\ \A u \in Roster \ {current'} :
              entries'[u] = entries[u] /\ runs'[u] = runs[u]
         /\ pc = "turn" /\ pc' = "count"
         /\ UNCHANGED <<testing, requests, packStatus, aggregates>>
  <1>1. PICK t \in Queued : /\ current' = t
                            /\ entries' = [entries EXCEPT ![t].status = "skipped"]
                            /\ runs' = [runs EXCEPT ![t] = Cancelled(@)]
    BY Zenon DEF Skip
  <1>2. t \in Roster /\ entries[t].status = "queued"
    BY DEF Queued, WithStatus
  <1>3. runs'[t].status = "cancelled"
    BY <1>1, <1>2, EntryTyped DEF Cancelled, TypeOK, RunType
  <1> QED
    BY <1>1, <1>2, <1>3, SkipEffect DEF Skip, PackFrame, requestVars

LEMMA CountTells ==
  ASSUME TypeOK, OneAtWork, Count
  PROVE  /\ current \in Finished /\ Roster' = Roster
         /\ \A u \in Roster :
              /\ entries'[u].status = entries[u].status
              /\ entries'[u].metric = entries[u].metric
              /\ entries[u].status # "skipped" => entries'[u] = entries[u]
         /\ pc = "count" /\ pc' = "turn"
         /\ aggregates' = Aggregates
         /\ UNCHANGED <<runs, current, testing, requests, packStatus>>
  <1>1. current \in Finished /\ current \in Roster
    BY DEF Count, OneAtWork, Finished
  <1>2. \A u \in Roster : entries[u].status # "skipped" => entries'[u] = entries[u]
    <2>1. CASE entries[current].status = "skipped"
      BY <2>1 DEF Count, TypeOK
    <2>2. CASE entries[current].status # "skipped"
      BY <2>2 DEF Count
    <2> QED
      BY <2>1, <2>2
  <1> QED
    BY <1>1, <1>2, CountEffect DEF Count, PackFrame, requestVars

(* The steps of _execute work on the entry that is running.                *)
LEMMA ExecuteTells ==
  ASSUME OneAtWork, Check \/ StartRun \/ RunReturns \/ Evaluate \/ Finish
  PROVE  /\ current \in Roster /\ entries[current].status = "running"
         /\ pc \in Executing
         /\ UNCHANGED <<current, testing, requests, packStatus, aggregates>>
         /\ Check \/ StartRun \/ RunReturns =>
              UNCHANGED entries /\ pc' \in {"start", "run", "evaluate"}
         /\ Evaluate => pc = "evaluate" /\ pc' = "finish"
         /\ Finish => pc = "finish" /\ pc' = "count"
  <1>1. /\ pc \in Executing
        /\ UNCHANGED <<current, testing, requests, packStatus, aggregates>>
    BY DEF Check, StartRun, RunReturns, Evaluate, Finish, ExecuteFrame, PackFrame,
           requestVars, Executing
  <1>2. current \in Roster /\ entries[current].status = "running"
    BY <1>1 DEF OneAtWork
  <1>3. Check \/ StartRun \/ RunReturns =>
          UNCHANGED entries /\ pc' \in {"start", "run", "evaluate"}
    BY DEF Check, StartRun, RunReturns
  <1>4. /\ Evaluate => pc = "evaluate" /\ pc' = "finish"
        /\ Finish => pc = "finish" /\ pc' = "count"
    BY DEF Evaluate, Finish
  <1> QED
    BY <1>1, <1>2, <1>3, <1>4

(* The steps of others, a crash and the end of the pack leave entries and  *)
(* aggregates alone; only the end of tests writes a run.                   *)
LEMMA QuietTells ==
  ASSUME Conclude \/ Edit \/ ReadTask \/ Crash \/ UNCHANGED vars
  PROVE  /\ UNCHANGED <<entries, runs, current, aggregates, requests>>
         /\ Roster' = Roster
         /\ testing' \in {testing, {}}
         /\ \/ UNCHANGED <<pc, packStatus>>
            \/ Conclude /\ pc = "turn" /\ pc' = "over"
            \/ pc' = "dead" /\ UNCHANGED packStatus
  BY DEF Conclude, Edit, ReadTask, Crash, PackFrame, OthersFrame, packVars,
         requestVars, vars, Roster

LEMMA RequestTells ==
  ASSUME TypeOK, BeginTests \/ EndTests
  PROVE  /\ UNCHANGED <<entries, pc, current, aggregates, packStatus>>
         /\ Roster' = Roster
         /\ BeginTests => /\ UNCHANGED runs /\ requests' # 0
                          /\ \E t \in Roster : /\ runs[t].status = "running"
                                               /\ testing' = testing \cup {t}
         /\ EndTests => /\ UNCHANGED requests /\ testing' \subseteq testing
                        /\ \E t \in testing :
                             /\ testing' = testing \ {t}
                             /\ \A u \in Roster \ {t} : runs'[u] = runs[u]
  <1>1. /\ UNCHANGED <<entries, pc, current, aggregates, packStatus>>
        /\ Roster' = Roster
    BY DEF BeginTests, EndTests, OthersFrame, packVars, Roster
  <1>2. ASSUME BeginTests
        PROVE  /\ UNCHANGED runs /\ requests' # 0
               /\ \E t \in Roster : /\ runs[t].status = "running"
                                    /\ testing' = testing \cup {t}
    BY <1>2, PackAssumption DEF BeginTests, TypeOK
  <1>3. ASSUME EndTests
        PROVE  /\ UNCHANGED requests /\ testing' \subseteq testing
               /\ \E t \in testing :
                    /\ testing' = testing \ {t}
                    /\ \A u \in Roster \ {t} : runs'[u] = runs[u]
    <2>1. PICK t \in testing :
            /\ testing' = testing \ {t}
            /\ \/ runs' = [runs EXCEPT ![t].status = "completed"]
               \/ runs' = [runs EXCEPT ![t].status = "failed", ![t].failure = "other"]
      BY <1>3, Zenon DEF EndTests
    <2> QED
      BY <1>3, <2>1 DEF EndTests, TypeOK
  <1> QED
    BY <1>1, <1>2, <1>3

-----------------------------------------------------------------------------
(* Queued runs are not touched.                                            *)

LEMMA QueuedStep ==
  ASSUME TypeOK, OneAtWork, QueuedUntouched, [Next]_vars
  PROVE  QueuedUntouched'
  <1>1. CASE Select
    <2>1. CASE UNCHANGED <<entries, runs>>
      BY <1>1, <2>1, SelectTells DEF QueuedUntouched, Roster
    <2>2. CASE ~UNCHANGED <<entries, runs>>
      BY <1>1, <2>2, SelectTells DEF QueuedUntouched
    <2> QED
      BY <2>1, <2>2
  <1>2. CASE Begin
    BY <1>2, BeginTells DEF QueuedUntouched
  <1>3. CASE Skip
    BY <1>3, SkipTells DEF QueuedUntouched
  <1>4. CASE Count
    BY <1>4, CountTells DEF QueuedUntouched
  <1>5. CASE Check \/ StartRun \/ RunReturns
    <2>1. \A u \in Roster \ {current} : runs'[u] = runs[u]
      BY <1>5, ExecuteTells, CheckEffect, StartRunEffect, RunReturnsEffect
    <2> QED
      BY <1>5, <2>1, ExecuteTells DEF QueuedUntouched, Roster
  <1>6. CASE Evaluate
    BY <1>6, ExecuteTells, EvaluateEffect DEF QueuedUntouched
  <1>7. CASE Finish
    BY <1>7, ExecuteTells, FinishEffect DEF QueuedUntouched
  <1>8. CASE BeginTests
    <2>1. PICK t \in Roster : /\ runs[t].status = "running"
                              /\ testing' = testing \cup {t}
      BY <1>8, RequestTells
    <2> QED
      BY <1>8, <2>1, RequestTells DEF QueuedUntouched
  <1>9. CASE EndTests
    <2>1. PICK t \in testing : /\ testing' = testing \ {t}
                               /\ \A u \in Roster \ {t} : runs'[u] = runs[u]
      BY <1>9, RequestTells
    <2> QED
      BY <1>9, <2>1, RequestTells DEF QueuedUntouched
  <1>10. CASE Conclude \/ Edit \/ ReadTask \/ Crash \/ UNCHANGED vars
    BY <1>10, QuietTells DEF QueuedUntouched
  <1> QED
    BY <1>1, <1>2, <1>3, <1>4, <1>5, <1>6, <1>7, <1>8, <1>9, <1>10
    DEF Next, PackStep, Terminated

-----------------------------------------------------------------------------
(* Entries follow their runs.                                              *)

Following ==
  TestsAreRequested /\ ReturnsTell /\ EntryFollowsRun /\ SkippedUnresolved

(* The runs and entries of others than the entry at work stay, which is    *)
(* not finished before the step.                                           *)
LEMMA OthersFollow ==
  ASSUME EntryFollowsRun, SkippedUnresolved, Roster' = Roster,
         requests' = requests,
         NEW t \in Roster, t \notin Finished, t \notin Finished',
         \A u \in Roster \ {t} : entries'[u] = entries[u] /\ runs'[u] = runs[u]
  PROVE  EntryFollowsRun' /\ SkippedUnresolved'
  <1>1. Finished' = Finished
    BY DEF Finished
  <1>2. \A u \in Finished : entries'[u] = entries[u] /\ runs'[u] = runs[u]
    BY DEF Finished
  <1>3. EntryFollowsRun'
    BY <1>1, <1>2 DEF EntryFollowsRun
  <1>4. SkippedUnresolved'
    BY <1>2 DEF SkippedUnresolved, Finished
  <1> QED
    BY <1>3, <1>4

LEMMA TakeUpFollows ==
  ASSUME TypeOK, Following, UntilExecuted, Begin \/ Skip
  PROVE  Following'
  <1>1. CASE Begin
    <2>1. current' \notin Finished /\ current' \notin Finished'
      BY <1>1, BeginTells DEF Finished
    <2>2. EntryFollowsRun' /\ SkippedUnresolved'
      BY <1>1, <2>1, BeginTells, OthersFollow DEF Following
    <2> QED
      BY <1>1, <2>2, BeginTells DEF Following, TestsAreRequested, ReturnsTell
  <1>2. CASE Skip
    <2> DEFINE t == current'
    <2>1. /\ t \in Roster /\ Roster' = Roster
          /\ entries[t].status = "queued" /\ entries'[t].status = "skipped"
          /\ entries'[t].metric = entries[t].metric
          /\ runs'[t].status = "cancelled"
          /\ \A u \in Roster \ {t} : entries'[u] = entries[u] /\ runs'[u] = runs[u]
          /\ pc' = "count" /\ UNCHANGED <<testing, requests>>
      BY <1>2, SkipTells
    <2>2. entries[t].metric = "none"
      BY <2>1 DEF UntilExecuted
    <2> HIDE DEF t
    <2>3. \A u \in Finished' \ {t} :
            u \in Finished /\ entries'[u] = entries[u] /\ runs'[u] = runs[u]
      BY <2>1 DEF Finished
    <2>4. EntryFollowsRun'
      BY <2>1, <2>3 DEF Following, EntryFollowsRun
    <2>5. SkippedUnresolved'
      BY <2>1, <2>2 DEF Following, SkippedUnresolved
    <2> QED
      BY <2>1, <2>4, <2>5 DEF Following, TestsAreRequested, ReturnsTell
  <1> QED
    BY <1>1, <1>2

LEMMA CountFollows ==
  ASSUME TypeOK, OneAtWork, Following, Count
  PROVE  Following'
  <1>1. Finished' = Finished
    BY CountTells DEF Finished
  <1>2. EntryFollowsRun'
    BY <1>1, CountTells DEF Following, EntryFollowsRun, Finished
  <1>3. SkippedUnresolved'
    BY CountTells DEF Following, SkippedUnresolved
  <1> QED
    BY <1>2, <1>3, CountTells DEF Following, TestsAreRequested, ReturnsTell

LEMMA ExecuteFollows ==
  ASSUME TypeOK, OneAtWork, Following, Check \/ StartRun \/ RunReturns \/ Evaluate
  PROVE  Following'
  <1>1. current \in Roster /\ entries[current].status = "running"
        /\ UNCHANGED <<current, testing, requests>>
    BY ExecuteTells
  <1>2. /\ Roster' = Roster /\ entries'[current].status = "running"
        /\ \A u \in Roster \ {current} : entries'[u] = entries[u] /\ runs'[u] = runs[u]
    <2>1. CASE Check \/ StartRun \/ RunReturns
      BY <1>1, <2>1, ExecuteTells, CheckEffect, StartRunEffect, RunReturnsEffect
      DEF Roster
    <2>2. CASE Evaluate
      BY <1>1, <2>2, EvaluateEffect
    <2> QED
      BY <2>1, <2>2
  <1>3. EntryFollowsRun' /\ SkippedUnresolved'
    <2>1. current \notin Finished /\ current \notin Finished'
      BY <1>1, <1>2 DEF Finished
    <2> QED
      BY <1>1, <1>2, <2>1, OthersFollow DEF Following
  <1>4. ReturnsTell'
    <2>1. CASE Check \/ StartRun \/ RunReturns
      <3>1. pc' = "evaluate" => Told(runs'[current], runs'[current].metric)
        BY <1>1, <2>1, CheckTells, StartRunTells, RunReturnsTells
      <3> QED
        BY <1>1, <2>1, <3>1, ExecuteTells DEF ReturnsTell
    <2>2. CASE Evaluate
      BY <1>1, <2>2, ExecuteTells, EvaluateTells DEF Following, ReturnsTell
    <2> QED
      BY <2>1, <2>2
  <1> QED
    BY <1>1, <1>3, <1>4 DEF Following, TestsAreRequested

LEMMA FinishFollows ==
  ASSUME TypeOK, OneAtWork, Following, Finish
  PROVE  Following'
  <1>1. /\ current \in Roster /\ entries[current].status = "running"
        /\ UNCHANGED <<current, testing, requests>>
        /\ pc = "finish" /\ pc' = "count"
    BY ExecuteTells
  <1>2. Roster' = Roster
    BY <1>1, FinishEffect
  <1>3. requests = 0 => Told(runs[current], entries[current].metric)
    BY <1>1 DEF Following, ReturnsTell
  <1>4. \A u \in Finished' \ {current} :
          u \in Finished /\ entries'[u] = entries[u] /\ runs'[u] = runs[u]
    BY <1>1, <1>2, FinishEffect DEF Finished
  <1>5. /\ entries'[current].status = "failed" => entries'[current].failure # "none"
        /\ requests = 0 =>
             /\ entries'[current].status = "completed" => entries'[current].metric # "none"
             /\ entries'[current].status = "completed" <=> runs'[current].status = "completed"
             /\ entries'[current].status = "failed"
                  => entries'[current].failure = runs'[current].failure
    BY <1>1, <1>3, FinishTells DEF Told
  <1>6. EntryFollowsRun'
    BY <1>1, <1>4, <1>5 DEF Following, EntryFollowsRun
  <1>7. SkippedUnresolved'
    BY <1>1, <1>2, FinishEffect DEF Following, SkippedUnresolved
  <1> QED
    BY <1>1, <1>6, <1>7 DEF Following, TestsAreRequested, ReturnsTell

LEMMA RequestFollows ==
  ASSUME TypeOK, OneAtWork, Following, BeginTests \/ EndTests
  PROVE  Following'
  <1>1. /\ UNCHANGED <<entries, pc, current>> /\ Roster' = Roster
        /\ requests' # 0
    <2>1. CASE BeginTests
      BY <2>1, RequestTells
    <2>2. CASE EndTests
      BY <2>2, RequestTells DEF Following, TestsAreRequested
    <2> QED
      BY <2>1, <2>2, RequestTells
  <1>2. Finished' = Finished
    BY <1>1 DEF Finished
  <1> QED
    BY <1>1, <1>2
    DEF Following, TestsAreRequested, ReturnsTell, EntryFollowsRun, SkippedUnresolved

LEMMA FollowStep ==
  ASSUME TypeOK, OneAtWork, UntilExecuted, Following, [Next]_vars
  PROVE  Following'
  <1>1. CASE Select
    <2>1. Finished' = {} /\ \A t \in Roster' : entries'[t].status # "skipped"
      BY <1>1, SelectTells DEF Finished, Roster
    <2>2. pc' \notin {"evaluate", "finish"} /\ UNCHANGED <<testing, requests>>
      BY <1>1, SelectTells
    <2> QED
      BY <2>1, <2>2
      DEF Following, TestsAreRequested, ReturnsTell, EntryFollowsRun, SkippedUnresolved
  <1>2. CASE Conclude \/ Edit \/ ReadTask \/ Crash \/ UNCHANGED vars
    <2>1. Finished' = Finished
      BY <1>2, QuietTells DEF Finished
    <2> QED
      BY <1>2, <2>1, QuietTells
      DEF Following, TestsAreRequested, ReturnsTell, EntryFollowsRun, SkippedUnresolved
  <1> QED
    BY <1>1, <1>2, TakeUpFollows, CountFollows, ExecuteFollows, FinishFollows,
       RequestFollows, Zenon
    DEF Next, PackStep, Terminated

-----------------------------------------------------------------------------
(* The committed aggregates.                                               *)

LEMMA RosterFinite ==
  ASSUME TypeOK, NEW S, S \subseteq Roster
  PROVE  IsFiniteSet(S) /\ Cardinality(S) \in Nat
  <1>1. IsFiniteSet(1..Size)
    BY PackAssumption, FS_Interval
  <1>2. S \in SUBSET (1..Size)
    BY DEF TypeOK, Tasks
  <1> QED
    BY <1>1, <1>2, FS_Subset, FS_CardinalityType

LEMMA DisjointCounts ==
  ASSUME NEW A, NEW B, IsFiniteSet(A), IsFiniteSet(B), A \cap B = {}
  PROVE  /\ IsFiniteSet(A \cup B)
         /\ Cardinality(A \cup B) = Cardinality(A) + Cardinality(B)
  <1>1. Cardinality(A \cap B) = 0
    BY FS_EmptySet
  <1>2. Cardinality(A) \in Nat /\ Cardinality(B) \in Nat
    BY FS_CardinalityType
  <1>3. /\ IsFiniteSet(A \cup B)
        /\ Cardinality(A \cup B)
             = Cardinality(A) + Cardinality(B) - Cardinality(A \cap B)
    BY FS_Union
  <1> QED
    BY <1>1, <1>2, <1>3

(* calculate_pack_aggregates counts every finished entry once, and nothing *)
(* but a completed or failed entry is resolved when no entry is at work.   *)
LEMMA AggregatesCount ==
  ASSUME TypeOK, UntilExecuted, SkippedUnresolved,
         \A t \in Roster : entries[t].status # "running"
  PROVE  /\ Aggregates \in AggregatesType
         /\ Aggregates.total = Cardinality(Roster)
         /\ Aggregates.completed = Cardinality(CompletedOf(Finished))
         /\ Aggregates.completed + Aggregates.failed + Aggregates.skipped
              = Cardinality(Finished)
         /\ Aggregates.resolved <= Aggregates.completed + Aggregates.failed
  <1> DEFINE C == WithStatus("completed")
  <1> DEFINE F == WithStatus("failed")
  <1> DEFINE S == WithStatus("skipped")
  <1> DEFINE R == {t \in Roster : entries[t].metric = "resolved"}
  <1>1. C \subseteq Roster /\ F \subseteq Roster /\ S \subseteq Roster /\ R \subseteq Roster
    BY DEF WithStatus
  <1>2. /\ C \cap F = {} /\ (C \cup F) \cap S = {}
        /\ Finished = (C \cup F) \cup S
        /\ C = CompletedOf(Finished)
    BY DEF WithStatus, Finished, CompletedOf
  <1>3. R \subseteq C \cup F
    <2>1. \A t \in R : entries[t].status \notin {"queued", "skipped", "running"}
      BY DEF UntilExecuted, SkippedUnresolved
    <2>2. \A t \in Roster :
            entries[t].status \in {"queued", "running", "completed", "failed", "skipped"}
      BY EntryTyped DEF EntryType
    <2> QED
      BY <2>1, <2>2 DEF WithStatus
  <1>4. /\ Aggregates.total = Cardinality(Roster)
        /\ Aggregates.completed = Cardinality(C)
        /\ Aggregates.failed = Cardinality(F)
        /\ Aggregates.skipped = Cardinality(S)
        /\ Aggregates.resolved = Cardinality(R)
    BY DEF Aggregates
  <1>5. Aggregates \in AggregatesType
    <2>1. Roster \subseteq Tasks
      BY DEF TypeOK
    <2>2. /\ Cardinality(Roster) \in 0..Size /\ Cardinality(C) \in 0..Size
          /\ Cardinality(F) \in 0..Size /\ Cardinality(S) \in 0..Size
          /\ Cardinality(R) \in 0..Size
      <3> HIDE DEF C, F, S, R
      <3> QED
        BY <1>1, <2>1, RosterCounts
    <2> QED
      BY <2>2 DEF Aggregates, AggregatesType
  <1> HIDE DEF C, F, S, R
  <1>6. /\ IsFiniteSet(C) /\ Cardinality(C) \in Nat
        /\ IsFiniteSet(F) /\ Cardinality(F) \in Nat
        /\ IsFiniteSet(S) /\ Cardinality(S) \in Nat
        /\ Cardinality(R) \in Nat
    BY <1>1, RosterFinite
  <1>7. IsFiniteSet(C \cup F) /\ Cardinality(C \cup F) = Cardinality(C) + Cardinality(F)
    BY <1>2, <1>6, DisjointCounts
  <1>8. Cardinality(Finished) = Cardinality(C) + Cardinality(F) + Cardinality(S)
    BY <1>2, <1>6, <1>7, DisjointCounts
  <1>9. Cardinality(R) <= Cardinality(C) + Cardinality(F)
    BY <1>3, <1>7, FS_Subset
  <1> QED
    BY <1>2, <1>4, <1>5, <1>8, <1>9

Counting == StatusFitsLocation /\ CountsFollow

(* Steps that finish no entry leave what is counted.                       *)
LEMMA SameCounts ==
  ASSUME Roster' = Roster, aggregates' = aggregates,
         Finished' = Finished,
         \A t \in Finished : entries'[t].status = entries[t].status,
         packStatus # "none", CountsFollow,
         \/ pc \notin {"count", "dead"} /\ pc' # "count"
         \/ current' = current /\ (pc' = pc \/ pc' = "dead")
  PROVE  CountsFollow'
  <1>1. CountsOf(Finished)' <=> CountsOf(Finished)
    <2>1. CompletedOf(Finished)' = CompletedOf(Finished)
      BY DEF CompletedOf
    <2> QED
      BY <2>1 DEF CountsOf
  <1>2. current' = current =>
          (CountsOf(Finished \ {current})' <=> CountsOf(Finished \ {current}))
    <2> SUFFICES ASSUME current' = current
                 PROVE  CountsOf(Finished \ {current})' <=> CountsOf(Finished \ {current})
      OBVIOUS
    <2>1. CompletedOf(Finished \ {current})' = CompletedOf(Finished \ {current})
      BY DEF CompletedOf
    <2> QED
      BY <2>1 DEF CountsOf
  <1> QED
    BY <1>1, <1>2 DEF CountsFollow

(* An entry that is finished now is not counted before Count.              *)
LEMMA NotYetCounted ==
  ASSUME Roster' = Roster, aggregates' = aggregates,
         Finished' \ {current'} = Finished,
         \A t \in Finished : entries'[t].status = entries[t].status,
         packStatus # "none", CountsFollow,
         pc \notin {"count", "dead"}, pc' = "count"
  PROVE  CountsFollow'
  <1>1. CompletedOf(Finished \ {current})' = CompletedOf(Finished)
    BY DEF CompletedOf
  <1>2. CountsOf(Finished \ {current})' <=> CountsOf(Finished)
    BY <1>1 DEF CountsOf
  <1> QED
    BY <1>2 DEF CountsFollow

LEMMA SelectCounts ==
  ASSUME TypeOK, OneAtWork, Counting, Select
  PROVE  Counting'
  <1>1. CASE pc' = "refused"
    <2>1. packStatus' = "none"
      BY <1>1, SelectTells DEF Counting, StatusFitsLocation
    <2> QED
      BY <1>1, <2>1
      DEF Counting, StatusFitsLocation, CountsFollow, Started, Executing
  <1>2. CASE pc' = "turn"
    <2>1. /\ packStatus' = "running" /\ Roster' # {}
          /\ aggregates'.total = Cardinality(Roster')
          /\ aggregates'.completed = 0 /\ aggregates'.failed = 0
          /\ aggregates'.skipped = 0 /\ aggregates'.resolved = 0
          /\ \A t \in Roster' : entries'[t].status = "queued"
      BY <1>2, SelectTells
    <2>2. aggregates' \in AggregatesType
      BY <1>2, SelectEffect
    <2>3. Finished' = {}
      BY <2>1 DEF Finished
    <2>4. CountsOf(Finished)'
      <3>1. CompletedOf(Finished)' = {}
        BY <2>3 DEF CompletedOf
      <3> QED
        BY <2>1, <2>3, <3>1, FS_EmptySet DEF CountsOf
    <2>5. CountsFollow'
      BY <1>2, <2>1, <2>4 DEF CountsFollow
    <2> QED
      BY <1>2, <2>1, <2>2, <2>5 DEF Counting, StatusFitsLocation
  <1> QED
    BY <1>1, <1>2, SelectTells

LEMMA BeginCounts ==
  ASSUME TypeOK, Counting, Begin
  PROVE  Counting'
  <1>1. Finished' = Finished /\ \A t \in Finished : entries'[t] = entries[t]
    BY BeginTells DEF Finished
  <1>2. packStatus = "running"
    BY BeginTells DEF Counting, StatusFitsLocation, Started
  <1>3. CountsFollow'
    BY <1>1, <1>2, BeginTells, SameCounts DEF Counting
  <1> QED
    BY <1>2, <1>3, BeginTells DEF Counting, StatusFitsLocation, Started, Executing

LEMMA SkipCounts ==
  ASSUME TypeOK, Counting, Skip
  PROVE  Counting'
  <1>1. /\ Finished' \ {current'} = Finished
        /\ \A t \in Finished : entries'[t] = entries[t]
    BY SkipTells DEF Finished
  <1>2. packStatus = "running"
    BY SkipTells DEF Counting, StatusFitsLocation, Started
  <1>3. CountsFollow'
    BY <1>1, <1>2, SkipTells, NotYetCounted DEF Counting
  <1> QED
    BY <1>2, <1>3, SkipTells DEF Counting, StatusFitsLocation, Started

LEMMA CountCounts ==
  ASSUME TypeOK, OneAtWork, UntilExecuted, SkippedUnresolved, Counting, Count
  PROVE  Counting'
  <1>1. packStatus = "running" /\ Roster # {}
    BY CountTells DEF Counting, StatusFitsLocation, Started
  <1>2. \A t \in Roster : entries[t].status # "running"
    BY CountTells DEF OneAtWork, Executing
  <1>3. Finished' = Finished /\ Roster' = Roster /\ aggregates' = Aggregates
    BY CountTells DEF Finished
  <1>4. CompletedOf(Finished)' = CompletedOf(Finished)
    BY <1>3, CountTells DEF CompletedOf, Finished
  <1>5. CountsOf(Finished)'
    BY <1>2, <1>3, <1>4, AggregatesCount DEF CountsOf
  <1>6. CountsFollow'
    BY <1>2, <1>3, <1>5, CountTells, AggregatesCount DEF CountsFollow
  <1>7. aggregates' \in AggregatesType
    BY <1>2, <1>3, AggregatesCount
  <1> QED
    BY <1>1, <1>3, <1>6, <1>7, CountTells DEF Counting, StatusFitsLocation

LEMMA ExecuteCounts ==
  ASSUME TypeOK, OneAtWork, Counting,
         Check \/ StartRun \/ RunReturns \/ Evaluate \/ Finish
  PROVE  Counting'
  <1>1. /\ current \in Roster /\ entries[current].status = "running"
        /\ UNCHANGED <<current, packStatus, aggregates>>
        /\ pc \in Executing /\ pc' \in Executing \cup {"count"}
    BY ExecuteTells DEF Executing
  <1>2. packStatus = "running" /\ Roster # {}
    BY <1>1 DEF Counting, StatusFitsLocation, Started
  <1>3. CASE Check \/ StartRun \/ RunReturns \/ Evaluate
    <2>1. Roster' = Roster /\ \A t \in Roster : entries'[t].status = entries[t].status
      <3>1. CASE Check \/ StartRun \/ RunReturns
        BY <3>1, ExecuteTells DEF Roster
      <3>2. CASE Evaluate
        BY <1>1, <3>2, EvaluateEffect
      <3> QED
        BY <1>3, <3>1, <3>2
    <2>2. Finished' = Finished
      BY <2>1 DEF Finished
    <2>3. pc' # "count"
      BY <1>3, ExecuteTells
    <2>4. CountsFollow'
      BY <1>1, <1>2, <2>1, <2>2, <2>3, SameCounts DEF Counting, Finished, Executing
    <2> QED
      BY <1>1, <1>2, <2>1, <2>4
      DEF Counting, StatusFitsLocation, Started, Executing
  <1>4. CASE Finish
    <2>1. /\ Roster' = Roster /\ pc' = "count"
          /\ entries'[current].status \in {"completed", "failed"}
          /\ \A u \in Roster \ {current} : entries'[u] = entries[u]
      BY <1>1, <1>4, FinishEffect, FinishTells, ExecuteTells
    <2>2. /\ Finished' \ {current'} = Finished
          /\ \A t \in Finished : entries'[t] = entries[t]
      BY <1>1, <2>1 DEF Finished
    <2>3. CountsFollow'
      BY <1>1, <1>2, <2>1, <2>2, NotYetCounted DEF Counting, Executing
    <2> QED
      BY <1>1, <1>2, <2>1, <2>3 DEF Counting, StatusFitsLocation, Started
  <1> QED
    BY <1>3, <1>4

LEMMA OthersCount ==
  ASSUME TypeOK, Counting,
         \/ BeginTests \/ EndTests
         \/ Conclude \/ Edit \/ ReadTask \/ Crash \/ UNCHANGED vars
  PROVE  Counting'
  <1>1. /\ UNCHANGED <<entries, current, aggregates>> /\ Roster' = Roster
        /\ \/ UNCHANGED <<pc, packStatus>>
           \/ Conclude /\ pc = "turn" /\ pc' = "over"
           \/ pc' = "dead" /\ UNCHANGED packStatus
    BY RequestTells, QuietTells
  <1>2. Finished' = Finished
    BY <1>1 DEF Finished
  <1>3. packStatus' # "none" => packStatus # "none"
    BY <1>1 DEF Counting, StatusFitsLocation, Started
  <1>4. CountsFollow'
    <2>1. CASE packStatus' = "none"
      BY <2>1 DEF CountsFollow
    <2>2. CASE packStatus' # "none"
      <3>1. \/ pc \notin {"count", "dead"} /\ pc' # "count"
            \/ current' = current /\ (pc' = pc \/ pc' = "dead")
        BY <1>1
      <3> QED
        BY <1>1, <1>2, <1>3, <2>2, <3>1, SameCounts DEF Counting
    <2> QED
      BY <2>1, <2>2
  <1>5. StatusFitsLocation'
    BY <1>1, <1>3 DEF Counting, StatusFitsLocation, Started, Executing
  <1> QED
    BY <1>4, <1>5 DEF Counting

LEMMA CountingStep ==
  ASSUME TypeOK, OneAtWork, UntilExecuted, SkippedUnresolved, Counting, [Next]_vars
  PROVE  Counting'
  BY SelectCounts, BeginCounts, SkipCounts, CountCounts, ExecuteCounts, OthersCount,
     Zenon
  DEF Next, PackStep, Terminated

-----------------------------------------------------------------------------
(* The verdict of the pack.                                                *)

LEMMA ConcludeVerdict ==
  ASSUME TypeOK, OneAtWork, Counting, Conclude
  PROVE  PackVerdict'
  <1>1. /\ pc = "turn" /\ Queued = {} /\ packStatus' = Verdict
        /\ UNCHANGED <<entries, aggregates>>
    BY DEF Conclude
  <1>2. /\ packStatus = "running" /\ Roster # {} /\ aggregates \in AggregatesType
    BY <1>1 DEF Counting, StatusFitsLocation, Started
  <1>3. Finished = Roster
    <2>1. \A t \in Roster : entries[t].status \notin {"queued", "running"}
      BY <1>1 DEF Queued, WithStatus, OneAtWork, Executing
    <2>2. \A t \in Roster :
            entries[t].status \in {"queued", "running", "completed", "failed", "skipped"}
      BY EntryTyped DEF EntryType
    <2> QED
      BY <2>1, <2>2 DEF Finished
  <1> DEFINE C == WithStatus("completed")
  <1>4. /\ aggregates.total = Cardinality(Roster)
        /\ aggregates.completed = Cardinality(C)
    <2>1. CompletedOf(Finished) = C
      BY <1>3 DEF CompletedOf, WithStatus
    <2> QED
      BY <1>1, <1>2, <2>1 DEF Counting, CountsFollow, CountsOf
  <1>5. C \subseteq Roster
    BY DEF WithStatus
  <1>6. packStatus' = IF C = Roster THEN "completed"
                      ELSE IF C # {} THEN "partial_failure" ELSE "failed"
    BY <1>1 DEF Verdict
  <1> HIDE DEF C
  <1>7. IsFiniteSet(Roster) /\ IsFiniteSet(C)
    BY <1>5, RosterFinite
  <1>8. C = Roster <=> Cardinality(C) = Cardinality(Roster)
    BY <1>5, <1>7, FS_Subset
  <1>9. C = {} <=> Cardinality(C) = 0
    BY <1>7, FS_EmptySet
  <1>10. Finished' = Roster'
    BY <1>1, <1>3 DEF Finished, Roster
  <1> QED
    BY <1>1, <1>2, <1>4, <1>6, <1>8, <1>9, <1>10 DEF PackVerdict

LEMMA VerdictStep ==
  ASSUME TypeOK, OneAtWork, Counting, PackVerdict, [Next]_vars
  PROVE  PackVerdict'
  <1>1. CASE Conclude
    BY <1>1, ConcludeVerdict
  <1>2. CASE Select \/ Begin \/ Skip \/ Count \/ Check \/ StartRun \/ RunReturns
             \/ Evaluate \/ Finish
    <2>1. pc' # "over"
      BY <1>2 DEF Select, Begin, Skip, Count, Check, StartRun, RunReturns, Evaluate,
                  Finish
    <2> QED
      BY <2>1 DEF PackVerdict
  <1>3. CASE BeginTests \/ EndTests \/ Edit \/ ReadTask \/ Crash \/ UNCHANGED vars
    <2>1. /\ UNCHANGED <<entries, aggregates>> /\ Roster' = Roster
          /\ pc' = "dead" \/ UNCHANGED <<pc, packStatus>>
      BY <1>3
      DEF BeginTests, EndTests, Edit, ReadTask, Crash, OthersFrame, packVars, vars,
          Roster
    <2>2. Finished' = Finished
      BY <2>1 DEF Finished
    <2> QED
      BY <2>1, <2>2 DEF PackVerdict
  <1> QED
    BY <1>1, <1>2, <1>3 DEF Next, PackStep, Terminated

-----------------------------------------------------------------------------
(* The inductive invariant.                                                *)

LEMMA ResultsInit == Init => ResultsInv
  <1> SUFFICES ASSUME Init PROVE ResultsInv
    OBVIOUS
  <1>1. IInv
    BY InvInit
  <1>2. Roster = {} /\ testing = {} /\ pc = "select" /\ packStatus = "none"
    BY DEF Init, NoRows, Roster
  <1> QED
    BY <1>1, <1>2
    DEF ResultsInv, QueuedUntouched, TestsAreRequested, ReturnsTell, EntryFollowsRun,
        SkippedUnresolved, StatusFitsLocation, Started, Executing, CountsFollow,
        PackVerdict, Finished

LEMMA ResultsNext == ResultsInv /\ [Next]_vars => ResultsInv'
  <1> SUFFICES ASSUME ResultsInv, [Next]_vars PROVE ResultsInv'
    OBVIOUS
  <1>1. TypeOK /\ OneAtWork /\ UntilExecuted
    BY DEF ResultsInv, IInv
  <1>2. IInv'
    BY InvStep DEF ResultsInv
  <1>3. QueuedUntouched'
    BY <1>1, QueuedStep DEF ResultsInv
  <1>4. Following'
    BY <1>1, FollowStep DEF ResultsInv, Following
  <1>5. Counting'
    BY <1>1, CountingStep DEF ResultsInv, Counting
  <1>6. PackVerdict'
    BY <1>1, VerdictStep DEF ResultsInv, Counting
  <1> QED
    BY <1>2, <1>3, <1>4, <1>5, <1>6 DEF ResultsInv, Following, Counting

(* The inductive invariant: queued runs are untouched, steps of _execute   *)
(* leave a run and its entry explained, and the committed counts are those *)
(* of the finished entries, or of all but the one at work before Count     *)
(* (start and _execute of benchmark_packs/runs.py).                        *)
THEOREM ResultsInductive == Spec => []ResultsInv
  <1> QED
    BY ResultsInit, ResultsNext, PTL DEF Spec

LEMMA ResultsAreTrue == ResultsInv => EntriesAreTrue
  <1> SUFFICES ASSUME ResultsInv PROVE EntriesAreTrue
    OBVIOUS
  <1>1. AggregatesAgree
    BY DEF ResultsInv, CountsFollow, CountsOf, AggregatesAgree
  <1> QED
    BY <1>1 DEF ResultsInv, IInv, EntriesAreTrue

(* Entries, aggregates and the verdict of a pack of any size tell what     *)
(* became of its runs, whatever is edited, tested or cut short by a crash  *)
(* (_execute and calculate_pack_aggregates of benchmark_packs/runs.py).    *)
THEOREM PackResultsTrue == Spec => []EntriesAreTrue
  <1> QED
    BY ResultsInductive, ResultsAreTrue, PTL

-----------------------------------------------------------------------------
(* What is not written over.                                               *)

CausesKept ==
  \A t \in Roster :
    runs[t].failure # "none" /\ pc # "run" /\ testing' = testing
      => runs'[t].failure = runs[t].failure

EntriesKept ==
  \A t \in Roster :
    entries[t].status \in {"completed", "failed"} => entries'[t] = entries[t]

LEMMA CausesStep ==
  ASSUME ResultsInv, [Next]_vars
  PROVE  CausesKept
  <1>1. TypeOK /\ OneAtWork /\ QueuedUntouched
    BY DEF ResultsInv, IInv
  <1>2. CASE Select
    BY <1>1, <1>2, SelectTells DEF CausesKept
  <1>3. CASE Begin \/ Count
    BY <1>1, <1>3, BeginTells, CountTells DEF CausesKept
  <1>4. CASE Skip
    BY <1>1, <1>4, SkipTells DEF CausesKept, QueuedUntouched
  <1>5. CASE Check \/ StartRun \/ Evaluate \/ Finish
    <2>1. CauseKept
      BY <1>1, <1>5, ExecuteTells, CheckTells, StartRunTells, EvaluateTells, FinishTells
    <2> QED
      BY <2>1 DEF CauseKept, CausesKept
  <1>6. CASE RunReturns
    BY <1>6 DEF RunReturns, CausesKept
  <1>7. CASE BeginTests
    BY <1>1, <1>7, RequestTells DEF CausesKept
  <1>8. CASE EndTests
    BY <1>1, <1>8, RequestTells DEF CausesKept
  <1>9. CASE Conclude \/ Edit \/ ReadTask \/ Crash \/ UNCHANGED vars
    BY <1>9, QuietTells DEF CausesKept
  <1> QED
    BY <1>2, <1>3, <1>4, <1>5, <1>6, <1>7, <1>8, <1>9 DEF Next, PackStep, Terminated

LEMMA EntriesStep ==
  ASSUME ResultsInv, [Next]_vars
  PROVE  EntriesKept
  <1>1. TypeOK /\ OneAtWork
    BY DEF ResultsInv, IInv
  <1>2. CASE Select \/ Begin \/ Skip \/ Count
    BY <1>1, <1>2, SelectTells, BeginTells, SkipTells, CountTells DEF EntriesKept
  <1>3. CASE Check \/ StartRun \/ RunReturns
    BY <1>1, <1>3, ExecuteTells DEF EntriesKept
  <1>4. CASE Evaluate
    BY <1>1, <1>4, ExecuteTells, EvaluateEffect DEF EntriesKept
  <1>5. CASE Finish
    BY <1>1, <1>5, ExecuteTells, FinishTells DEF EntriesKept
  <1>6. CASE \/ BeginTests \/ EndTests \/ Conclude \/ Edit \/ ReadTask \/ Crash
             \/ UNCHANGED vars
    BY <1>1, <1>6, RequestTells, QuietTells DEF EntriesKept
  <1> QED
    BY <1>2, <1>3, <1>4, <1>5, <1>6 DEF Next, PackStep, Terminated

(* Neither the cause of a failure nor a saved entry is ever written over   *)
(* by the pack, in packs of any size ("preserve existing root-cause        *)
(* classifications", docs/benchmark-packs.md).                             *)
THEOREM PackHistoryKept == Spec => HistoryIsKept
  <1>1. ResultsInv /\ [Next]_vars => CausesKept /\ EntriesKept
    BY CausesStep, EntriesStep
  <1>2. Spec => [][CausesKept /\ EntriesKept]_vars
    BY <1>1, ResultsInductive, PTL DEF Spec
  <1> QED
    BY <1>2, PTL
    DEF HistoryIsKept, RootCausesAreKept, SnapshotsAreKept, CausesKept, EntriesKept

-----------------------------------------------------------------------------
(* What has been read of the tasks.                                        *)

Fits(d, t) == d = entries[t].definition \/ d > since[t]

ReadsFit ==
  /\ \A t \in Tasks \ Roster : used[t] = {}
  /\ \A t \in Roster :
       /\ entries[t].status = "queued" => used[t] = {}
       /\ used[t] # {} => runs[t].given # Nothing
       /\ runs[t].given # Nothing => since[t] <= edits /\ Fits(definition[t], t)
       /\ \A d \in used[t] : Fits(d, t)
       /\ entries[t].metric = "resolved" => used[t] # {}
       /\ t \in testing \/ runs[t].status = "running" => used[t] # {}
  /\ pc = "check" => runs[current].given = Nothing
  /\ pc \in {"check", "start"} => used[current] = {}
  /\ pc \in {"run", "evaluate", "finish"}
       => (runs[current].given # Nothing => used[current] # {})

ReadsInv == ResultsInv /\ ReadsFit

(* Nothing is read, and nothing is written that a read is about.           *)
LEMMA SameReads ==
  ASSUME ReadsFit, Roster' = Roster,
         UNCHANGED <<definition, since, used>>, edits' = edits,
         \A t \in Roster :
           /\ entries'[t].status = "queued" => entries[t].status = "queued"
           /\ entries'[t].definition = entries[t].definition
           /\ entries'[t].metric = entries[t].metric
           /\ runs'[t].given = runs[t].given
           /\ runs'[t].status \in {runs[t].status, "completed", "failed", "cancelled"}
           /\ t \in testing' => used[t] # {},
         \/ pc' \in {"turn", "count", "over", "dead"}
         \/ /\ pc' = pc /\ current' = current
            /\ pc \in {"check", "start", "run", "evaluate", "finish"} => current \in Roster
  PROVE  ReadsFit'
  BY DEF ReadsFit, Fits

LEMMA SelectReads ==
  ASSUME TypeOK, OneAtWork, ReadsFit, Select
  PROVE  ReadsFit'
  <1>1. /\ Roster = {} /\ testing' = {} /\ UNCHANGED <<definition, since, used, edits>>
        /\ pc' \in {"refused", "turn"}
    BY SelectTells DEF Select, PackFrame, taskVars, readVars
  <1>2. \A t \in Tasks : used'[t] = {}
    BY <1>1 DEF ReadsFit
  <1>3. CASE UNCHANGED <<entries, runs>>
    BY <1>1, <1>2, <1>3 DEF ReadsFit, Roster
  <1>4. CASE /\ Roster' \subseteq Tasks
             /\ \A t \in Roster' :
                  /\ entries'[t].metric = "none" /\ runs'[t].given = Nothing
                  /\ runs'[t].status = "queued"
    BY <1>1, <1>2, <1>4 DEF ReadsFit
  <1> QED
    BY <1>3, <1>4, SelectTells, SelectEffect

LEMMA BeginReads ==
  ASSUME TypeOK, UntilExecuted, ReadsFit, Begin
  PROVE  ReadsFit'
  <1>1. /\ current' \in Roster /\ Roster' = Roster
        /\ entries[current'].status = "queued"
        /\ entries'[current'].status = "running"
        /\ \A u \in Roster \ {current'} : entries'[u] = entries[u]
        /\ pc' = "check" /\ UNCHANGED <<runs, testing>>
    BY BeginTells
  <1>2. /\ entries'[current'].definition = entries[current'].definition
        /\ entries'[current'].metric = entries[current'].metric
    <2>1. PICK t \in Queued : /\ current' = t
                              /\ entries' = [entries EXCEPT ![t].status = "running"]
      BY Zenon DEF Begin
    <2> QED
      BY <1>1, <2>1, BeginEffect
  <1>3. UNCHANGED <<definition, since, used, edits>>
    BY DEF Begin, PackFrame, taskVars, readVars
  <1>4. runs[current'].given = Nothing /\ used[current'] = {}
    BY <1>1 DEF UntilExecuted, ReadsFit
  <1> QED
    BY <1>1, <1>2, <1>3, <1>4 DEF ReadsFit, Fits

LEMMA SkipReads ==
  ASSUME TypeOK, ReadsFit, Skip
  PROVE  ReadsFit'
  <1>1. PICK t \in Queued : /\ current' = t
                            /\ entries' = [entries EXCEPT ![t].status = "skipped"]
                            /\ runs' = [runs EXCEPT ![t] = Cancelled(@)]
    BY Zenon DEF Skip
  <1>2. t \in Roster
    BY DEF Queued, WithStatus
  <1>3. runs'[t].status = "cancelled" /\ pc' = "count" /\ UNCHANGED testing
    BY <1>1, SkipTells
  <1>4. UNCHANGED <<definition, since, used, edits>>
    BY DEF Skip, PackFrame, taskVars, readVars
  <1>5. /\ Roster' = Roster
        /\ entries'[t].status = "skipped"
        /\ entries'[t].definition = entries[t].definition
        /\ entries'[t].metric = entries[t].metric
        /\ runs'[t].given = runs[t].given
        /\ \A u \in Roster \ {t} : entries'[u] = entries[u] /\ runs'[u] = runs[u]
    BY <1>1, <1>2, SkipEffect
  <1>6. \A u \in Roster : u \in testing' => used[u] # {}
    BY <1>3 DEF ReadsFit
  <1> QED
    BY <1>2, <1>3, <1>4, <1>5, <1>6, SameReads

LEMMA CountReads ==
  ASSUME TypeOK, OneAtWork, ReadsFit, Count
  PROVE  ReadsFit'
  <1>1. current \in Roster
    BY DEF Count, OneAtWork
  <1>2. UNCHANGED <<definition, since, used, edits, runs, testing>> /\ pc' = "turn"
    BY DEF Count, PackFrame, taskVars, requestVars, readVars
  <1>3. \A u \in Roster : u \in testing' => used[u] # {}
    BY <1>2 DEF ReadsFit
  <1> QED
    BY <1>1, <1>2, <1>3, CountEffect, SameReads

(* A run that leaves _execute or start_run is failed or completed.         *)
LEMMA FailedStatus ==
  ASSUME TypeOK, current \in Roster, Check \/ Evaluate
  PROVE  runs'[current].status \in {runs[current].status, "failed"}
  <1>1. runs[current] \in RunType
    BY EntryTyped
  <1>2. ASSUME NEW run, SetRun(run), run.status \in {runs[current].status, "failed"}
        PROVE  runs'[current].status \in {runs[current].status, "failed"}
    BY <1>2 DEF SetRun, TypeOK
  <1>3. \A category : Failed(runs[current], category).status = "failed"
    BY <1>1 DEF Failed, RunType
  <1>4. CASE Check
    <2>1. [runs[current] EXCEPT !.given = definition[current]].status
            = runs[current].status
      BY <1>1 DEF RunType
    <2> QED
      BY <1>2, <1>3, <1>4, <2>1 DEF Check
  <1>5. CASE Evaluate
    <2>1. \A m : /\ [runs[current] EXCEPT !.metric = m].status = runs[current].status
                 /\ Failed([runs[current] EXCEPT !.metric = m], "other").status = "failed"
      BY <1>1 DEF RunType, Failed
    <2> QED
      BY <1>2, <1>5, <2>1 DEF Evaluate
  <1> QED
    BY <1>4, <1>5

LEMMA CheckReads ==
  ASSUME TypeOK, OneAtWork, ReadsFit, Check
  PROVE  ReadsFit'
  <1>1. /\ pc = "check" /\ current \in Roster /\ Roster' = Roster
        /\ UNCHANGED <<current, entries, testing>>
    BY ExecuteTells DEF Roster, Check
  <1>2. /\ used' = used /\ UNCHANGED <<definition, edits>>
    BY DEF Check, ExecuteFrame, PackFrame, taskVars
  <1>3. runs[current].given = Nothing /\ used[current] = {}
    BY <1>1 DEF ReadsFit
  <1>4. \A u \in Roster \ {current} : runs'[u] = runs[u]
    BY <1>1, CheckEffect
  <1>5. runs'[current].status # "running"
    <2>1. runs[current].status # "running"
      BY <1>1, <1>3 DEF ReadsFit
    <2> QED
      BY <1>1, <2>1, FailedStatus
  <1>6. CASE AsSelected(current)
    <2>1. /\ pc' = "start" /\ since' = [since EXCEPT ![current] = edits]
          /\ entries[current].definition = definition[current]
      BY <1>6 DEF Check, AsSelected
    <2>2. edits \in Nat /\ current \in Tasks
      BY <1>1, PackAssumption DEF TypeOK
    <2>3. since'[current] = edits /\ \A u \in Tasks \ {current} : since'[u] = since[u]
      BY <2>1, <2>2 DEF TypeOK
    <2>4. \A u \in Roster : u # current => u \in Tasks
      BY DEF TypeOK
    <2> QED
      BY <1>1, <1>2, <1>3, <1>4, <1>5, <2>1, <2>2, <2>3, <2>4 DEF ReadsFit, Fits
  <1>7. CASE ~AsSelected(current)
    <2>1. pc' = "evaluate" /\ since' = since
      BY <1>7 DEF Check
    <2>2. runs'[current].given = runs[current].given
      BY <1>1, <2>1, CheckEffect
    <2> QED
      BY <1>1, <1>2, <1>3, <1>4, <1>5, <2>1, <2>2 DEF ReadsFit, Fits
  <1> QED
    BY <1>6, <1>7

LEMMA StartRunReads ==
  ASSUME TypeOK, OneAtWork, UntilExecuted, ReadsFit, StartRun
  PROVE  ReadsFit'
  <1>1. /\ pc = "start" /\ current \in Roster /\ Roster' = Roster
        /\ UNCHANGED <<current, entries, testing>>
        /\ entries[current].status = "running"
    BY ExecuteTells DEF Roster, StartRun
  <1>2. UNCHANGED <<definition, edits, since>>
    BY DEF StartRun, ExecuteFrame, PackFrame, taskVars
  <1>3. used[current] = {} /\ runs[current].given # Nothing
    BY <1>1 DEF ReadsFit, UntilExecuted
  <1>4. \A u \in Roster \ {current} : runs'[u] = runs[u]
    BY <1>1, StartRunEffect
  <1>5. entries[current].metric # "resolved" /\ current \notin testing
    BY <1>1, <1>3 DEF ReadsFit
  <1>6. CASE pc' = "run"
    <2>1. used' = [used EXCEPT ![current] = {definition[current]}]
      BY <1>6 DEF StartRun
    <2>2. runs'[current].given = runs[current].given
      BY <1>1, <1>6, StartRunEffect
    <2>3. /\ used'[current] = {definition[current]}
          /\ \A u \in Tasks \ {current} : used'[u] = used[u]
      BY <1>1, <2>1 DEF TypeOK
    <2>4. Roster \subseteq Tasks
      BY DEF TypeOK
    <2> QED
      BY <1>1, <1>2, <1>3, <1>4, <1>6, <2>2, <2>3, <2>4 DEF ReadsFit, Fits
  <1>7. CASE pc' = "evaluate"
    <2>1. used' = used
      BY <1>7 DEF StartRun
    <2>2. runs'[current].given = Nothing
      BY <1>1, <1>7, StartRunEffect
    <2>3. runs'[current].status # "running"
      BY <1>1, <1>7, StartRunTells DEF Told
    <2> QED
      BY <1>1, <1>2, <1>3, <1>4, <1>5, <1>7, <2>1, <2>2, <2>3 DEF ReadsFit, Fits
  <1> QED
    BY <1>6, <1>7 DEF StartRun

LEMMA ReturnsReads ==
  ASSUME TypeOK, OneAtWork, ReadsFit, RunReturns
  PROVE  ReadsFit'
  <1>1. /\ pc = "run" /\ pc' = "evaluate" /\ current \in Roster /\ Roster' = Roster
        /\ UNCHANGED <<current, entries, testing>>
    BY ExecuteTells DEF Roster, RunReturns
  <1>2. UNCHANGED <<definition, edits, since, used>>
    BY DEF RunReturns, ExecuteFrame, PackFrame, taskVars, readVars
  <1>3. /\ runs'[current].given = runs[current].given
        /\ \A u \in Roster \ {current} : runs'[u] = runs[u]
    BY <1>1, RunReturnsEffect
  <1>4. runs'[current].status # "running"
    BY <1>1, RunReturnsTells DEF Told
  <1> QED
    BY <1>1, <1>2, <1>3, <1>4 DEF ReadsFit, Fits

LEMMA EvaluateReads ==
  ASSUME TypeOK, OneAtWork, UntilExecuted, UntilExecuted', ReadsFit, Evaluate
  PROVE  ReadsFit'
  <1>1. /\ pc = "evaluate" /\ pc' = "finish" /\ current \in Roster
        /\ UNCHANGED <<current, testing>> /\ entries[current].status = "running"
    BY ExecuteTells
  <1>2. UNCHANGED <<definition, edits, since, used>>
    BY DEF Evaluate, ExecuteFrame, PackFrame, taskVars, readVars
  <1>3. /\ Roster' = Roster
        /\ entries'[current].status = entries[current].status
        /\ entries'[current].definition = entries[current].definition
        /\ entries'[current].metric \in
             {entries[current].metric, runs[current].metric, runs'[current].metric}
        /\ runs'[current].given = runs[current].given
        /\ \A u \in Roster \ {current} : entries'[u] = entries[u] /\ runs'[u] = runs[u]
    BY <1>1, EvaluateEffect
  <1>4. runs'[current].status \in {runs[current].status, "failed"}
    BY <1>1, FailedStatus
  <1>5. /\ runs[current].metric = "resolved" => runs[current].given # Nothing
        /\ runs'[current].metric = "resolved" => runs'[current].given # Nothing
    BY <1>1, <1>3 DEF UntilExecuted
  <1>6. entries'[current].metric = "resolved" => used[current] # {}
    BY <1>1, <1>3, <1>5 DEF ReadsFit
  <1> QED
    BY <1>1, <1>2, <1>3, <1>4, <1>6 DEF ReadsFit, Fits

LEMMA FinishReads ==
  ASSUME TypeOK, OneAtWork, ReadsFit, Finish
  PROVE  ReadsFit'
  <1>1. /\ pc = "finish" /\ pc' = "count" /\ current \in Roster
        /\ UNCHANGED <<current, testing>>
    BY ExecuteTells
  <1>2. UNCHANGED <<definition, edits, since, used>>
    BY DEF Finish, ExecuteFrame, PackFrame, taskVars, readVars
  <1>3. /\ Roster' = Roster
        /\ entries'[current].status \in {"completed", "failed"}
        /\ entries'[current].definition = entries[current].definition
        /\ entries'[current].metric = entries[current].metric
        /\ runs'[current].given = runs[current].given
        /\ \A u \in Roster \ {current} : entries'[u] = entries[u] /\ runs'[u] = runs[u]
    BY <1>1, FinishEffect
  <1>4. runs'[current].status = runs[current].status
    BY <1>1, FinishTells
  <1>5. \A u \in Roster : u \in testing' => used[u] # {}
    BY <1>1 DEF ReadsFit
  <1> QED
    BY <1>1, <1>2, <1>3, <1>4, <1>5, SameReads

LEMMA ReadTaskReads ==
  ASSUME TypeOK, OneAtWork, UntilExecuted, ReadsFit, ReadTask
  PROVE  ReadsFit'
  <1>1. PICK t \in testing \cup (IF pc = "run" THEN {current} ELSE {}) :
          used' = [used EXCEPT ![t] = @ \cup {definition[t]}]
    BY Zenon DEF ReadTask
  <1>2. /\ Roster' = Roster
        /\ UNCHANGED <<pc, current, entries, runs, definition, edits, since, testing>>
    BY DEF ReadTask, OthersFrame, taskVars, requestVars, Roster
  <1>3. t \in Roster /\ Roster \subseteq Tasks
    BY DEF TypeOK, OneAtWork, Executing
  <1>4. used[t] # {} /\ runs[t].given # Nothing
    BY <1>3 DEF ReadsFit, UntilExecuted
  <1>5. /\ used'[t] = used[t] \cup {definition[t]}
        /\ \A u \in Tasks \ {t} : used'[u] = used[u]
    BY <1>1, <1>3 DEF TypeOK
  <1>6. Fits(definition[t], t)
    BY <1>3, <1>4 DEF ReadsFit
  <1>7. entries[t].status # "queued"
    BY <1>3, <1>4 DEF ReadsFit
  <1>8. pc \in {"check", "start"} => current # t
    BY <1>4 DEF ReadsFit
  <1>9. \A u \in Roster : Fits(definition[u], u)' = Fits(definition[u], u)
    BY <1>2 DEF Fits
  <1>10. \A u \in Roster : \A d \in used'[u] : Fits(d, u)
    BY <1>3, <1>5, <1>6 DEF ReadsFit
  <1>11. pc \in {"check", "start", "run", "evaluate", "finish"} => current \in Roster
    BY DEF OneAtWork, Executing
  <1> QED
    BY <1>2, <1>3, <1>4, <1>5, <1>7, <1>8, <1>10, <1>11 DEF ReadsFit, Fits

LEMMA EditReads ==
  ASSUME TypeOK, ReadsFit, Edit
  PROVE  ReadsFit'
  <1>1. /\ Roster' = Roster
        /\ UNCHANGED <<pc, current, entries, runs, since, used, testing>>
    BY DEF Edit, OthersFrame, requestVars, readVars, Roster
  <1>2. edits \in Nat /\ edits' = edits + 1
    BY PackAssumption DEF Edit, TypeOK
  <1>3. \A t \in Roster : since[t] \in Nat
    BY PackAssumption DEF TypeOK
  <1>4. \A t \in Roster : definition'[t] \in {definition[t], edits'}
    <2>1. \/ definition' = definition
          \/ \E t \in Tasks : definition' = [definition EXCEPT ![t] = edits']
      BY Zenon DEF Edit
    <2> QED
      BY <2>1 DEF TypeOK
  <1>5. \A t \in Roster : runs[t].given # Nothing
          => since[t] <= edits' /\ Fits(definition[t], t)'
    BY <1>1, <1>2, <1>3, <1>4 DEF ReadsFit, Fits
  <1> QED
    BY <1>1, <1>5 DEF ReadsFit, Fits

LEMMA OthersRead ==
  ASSUME TypeOK, OneAtWork, ReadsFit,
         BeginTests \/ EndTests \/ Conclude \/ Crash \/ UNCHANGED vars
  PROVE  ReadsFit'
  <1>1. /\ Roster' = Roster
        /\ UNCHANGED <<current, entries, definition, edits, since, used>>
        /\ pc' \in {pc, "over", "dead"}
    BY DEF BeginTests, EndTests, Conclude, Crash, PackFrame, OthersFrame, taskVars,
           readVars, vars, Roster
  <1>2. \A u \in Roster : u \in testing' => used[u] # {}
    <2>1. CASE BeginTests
      <3>1. PICK t \in Roster : /\ runs[t].status = "running"
                                /\ testing' = testing \cup {t}
        BY <2>1, RequestTells
      <3> QED
        BY <3>1 DEF ReadsFit
    <2>2. CASE EndTests
      BY <2>2, RequestTells DEF ReadsFit
    <2>3. CASE Conclude \/ Crash \/ UNCHANGED vars
      BY <2>3, QuietTells DEF ReadsFit
    <2> QED
      BY <2>1, <2>2, <2>3
  <1>3. \A u \in Roster :
          /\ runs'[u].given = runs[u].given
          /\ runs'[u].status \in {runs[u].status, "completed", "failed", "cancelled"}
    <2>1. CASE EndTests
      <3>1. PICK t \in testing :
              \/ runs' = [runs EXCEPT ![t].status = "completed"]
              \/ runs' = [runs EXCEPT ![t].status = "failed", ![t].failure = "other"]
        BY <2>1, Zenon DEF EndTests
      <3>2. \A u \in Roster :
              runs'[u].status \in {runs[u].status, "completed", "failed", "cancelled"}
        BY <3>1 DEF TypeOK, RunType
      <3> QED
        BY <2>1, <3>2, EndTestsEffect
    <2>2. CASE BeginTests \/ Conclude \/ Crash \/ UNCHANGED vars
      BY <2>2, RequestTells, QuietTells
    <2> QED
      BY <2>1, <2>2
  <1>4. pc \in {"check", "start", "run", "evaluate", "finish"} => current \in Roster
    BY DEF OneAtWork, Executing
  <1> QED
    BY <1>1, <1>2, <1>3, <1>4, SameReads

LEMMA ReadsInit == Init => ReadsInv
  <1> SUFFICES ASSUME Init PROVE ReadsInv
    OBVIOUS
  <1>1. Roster = {} /\ pc = "select" /\ \A t \in Tasks : used[t] = {}
    BY DEF Init, NoRows, Roster
  <1> QED
    BY <1>1, ResultsInit DEF ReadsInv, ReadsFit

LEMMA ReadsNext == ReadsInv /\ [Next]_vars => ReadsInv'
  <1> SUFFICES ASSUME ReadsInv, [Next]_vars PROVE ReadsInv'
    OBVIOUS
  <1>1. ResultsInv'
    BY ResultsNext DEF ReadsInv
  <1>2. TypeOK /\ OneAtWork /\ UntilExecuted /\ ReadsFit /\ UntilExecuted'
    BY <1>1 DEF ReadsInv, ResultsInv, IInv
  <1>3. ReadsFit'
    BY <1>2, SelectReads, BeginReads, SkipReads, CountReads, CheckReads, StartRunReads,
       ReturnsReads, EvaluateReads, FinishReads, ReadTaskReads, EditReads, OthersRead,
       Zenon
    DEF Next, PackStep, Terminated
  <1> QED
    BY <1>1, <1>3 DEF ReadsInv

LEMMA ReadsRefuseEdits == ReadsInv => EditsBeforeTurnRefused
  <1> SUFFICES ASSUME ReadsInv, NEW t \in Roster
               PROVE  LET started == runs[t].given = entries[t].definition
                      IN  /\ runs[t].given # Nothing => started
                          /\ \A d \in used[t] :
                               started /\ (d = entries[t].definition \/ d > since[t])
                          /\ entries[t].metric = "resolved" => started /\ used[t] # {}
    BY DEF EditsBeforeTurnRefused
  <1>1. /\ runs[t].given \in {entries[t].definition, Nothing}
        /\ entries[t].metric = "resolved" => runs[t].given = entries[t].definition
    BY DEF ReadsInv, ResultsInv, IInv, GivenAsSelected
  <1> QED
    BY <1>1 DEF ReadsInv, ReadsFit, Fits

(* What has been read of a task after its check is what the roster was     *)
(* made of, or was written after the check: edits between the roster and   *)
(* the turn of a task are refused and never executed, in packs of any size *)
(* and however often tasks are edited, tested and read again (_execute,    *)
(* and the reads of start_run and of test requests).                       *)
THEOREM PackRefusesEdits == Spec => []EditsBeforeTurnRefused
  <1>1. Spec => []ReadsInv
    BY ReadsInit, ReadsNext, PTL DEF Spec
  <1> QED
    BY <1>1, ReadsRefuseEdits, PTL

=============================================================================

-------------------------------- MODULE PackRun --------------------------------
(***************************************************************************)
(* BenchmarkPackRunService.start (benchmark_packs/runs.py): the roster of  *)
(* a pack is committed, then its tasks are executed one after the other,   *)
(* each a failure boundary of its own, while curators edit the tasks and   *)
(* clients test the runs.  A run is what RunLifecycle shows of it: while   *)
(* start_run is at work, and when it has returned.                         *)
(*                                                                         *)
(* Tasks are numbered in the order of the pack.                            *)
(***************************************************************************)
EXTENDS Naturals, FiniteSets

CONSTANTS
  Size,        \* number of tasks of the pack
  MaxEdits,    \* bound on edits of tasks
  MaxRequests  \* bound on test requests for runs of the pack

ASSUME PackAssumption ==
  Size \in Nat \ {0} /\ MaxEdits \in Nat /\ MaxRequests \in Nat

VARIABLES
  ready,       \* BenchmarkTask.status = "ready", per task
  definition,  \* what _definition_hash covers, per task; a number
  edits,
  stopOnFailure,  \* stop_on_task_failure of the request
  pc,
  current,     \* the entry at work
  stop,        \* the local variable of start
  packStatus,  \* BenchmarkPackRun.status, "none" before there is a row
  aggregates,  \* BenchmarkPackRun.aggregates
  entries,     \* BenchmarkPackRunTask per task of the roster
  runs,        \* AgentRun per task of the roster
  since,       \* edits there had been when a task was checked, per task
  used,        \* what has been read of it after that, per task
  testing,     \* runs on which a test request is at work
  requests

taskVars == <<ready, definition, edits>>
requestVars == <<testing, requests>>
readVars == <<since, used>>
packVars == <<stopOnFailure, packStatus, stop>>
vars == <<taskVars, packVars, pc, current, aggregates, entries, runs, requestVars,
          readVars>>

Tasks == 1..Size

Over == {"over", "refused", "dead"}

Locations == {"select", "turn", "check", "start", "run", "evaluate", "finish",
              "count"} \cup Over

Categories == {"task_not_ready", "model_provider_error", "cancelled",
               "other"}   \* whatever start_run or the evaluation came to

(* Of the metrics whether the issue is resolved; "none": no row, or only   *)
(* the usage of tokens and time.                                           *)
Metrics == {"none", "resolved", "unresolved"}

EntryType ==
  [ status : {"queued", "running", "completed", "failed", "skipped"},
    definition : 0..MaxEdits, failure : Categories \cup {"none"},
    metric : Metrics ]

Nothing == MaxEdits + 1   \* no definition

RunType ==
  [ status : {"queued", "running", "completed", "failed", "cancelled"},
    failure : Categories \cup {"none"}, metric : Metrics,
    given : 0..MaxEdits \cup {Nothing} ]   \* definition start_run is called with

AggregatesType ==
  [total : 0..Size, completed : 0..Size, failed : 0..Size, skipped : 0..Size,
   resolved : 0..Size]

NoAggregates == [absent |-> TRUE]

Roster == DOMAIN entries

FlagsOK ==
  /\ ready \in [Tasks -> BOOLEAN]
  /\ stopOnFailure \in BOOLEAN
  /\ stop \in BOOLEAN

TypeOK ==
  /\ FlagsOK
  /\ definition \in [Tasks -> 0..MaxEdits]
  /\ edits \in 0..MaxEdits
  /\ pc \in Locations
  /\ current \in Roster \cup {0}
  /\ packStatus \in {"none", "running", "completed", "partial_failure", "failed"}
  /\ aggregates \in AggregatesType \cup {NoAggregates}
  /\ Roster \subseteq Tasks
  /\ entries \in [Roster -> EntryType]
  /\ runs \in [Roster -> RunType]
  /\ testing \subseteq Roster
  /\ requests \in 0..MaxRequests
  /\ since \in [Tasks -> 0..MaxEdits]
  /\ used \in [Tasks -> SUBSET (0..MaxEdits)]

NoRows == [t \in {} |-> 0]

Init ==
  /\ ready \in [Tasks -> BOOLEAN]
  /\ definition = [t \in Tasks |-> 0]
  /\ edits = 0
  /\ stopOnFailure \in BOOLEAN
  /\ pc = "select"
  /\ current = 0
  /\ stop = FALSE
  /\ packStatus = "none"
  /\ aggregates = NoAggregates
  /\ entries = NoRows
  /\ runs = NoRows
  /\ testing = {}
  /\ requests = 0
  /\ since = [t \in Tasks |-> 0]
  /\ used = [t \in Tasks |-> {}]

-----------------------------------------------------------------------------
(* calculate_pack_aggregates: the rates and sums are left out.             *)

WithStatus(s) == {t \in Roster : entries[t].status = s}

Aggregates ==
  [ total |-> Cardinality(Roster),
    completed |-> Cardinality(WithStatus("completed")),
    failed |-> Cardinality(WithStatus("failed")),
    skipped |-> Cardinality(WithStatus("skipped")),
    resolved |-> Cardinality({t \in Roster : entries[t].metric = "resolved"}) ]

-----------------------------------------------------------------------------
(* start.                                                                  *)

PackFrame == UNCHANGED <<taskVars, requestVars, stopOnFailure>>

(* The whole roster is committed before anything is executed.              *)
Select ==
  /\ pc = "select"
  /\ LET members == {t \in Tasks : ready[t]}
     IN  IF members = {}
         THEN /\ pc' = "refused"
              /\ UNCHANGED <<packStatus, aggregates, entries, runs>>
         ELSE /\ pc' = "turn"
              /\ packStatus' = "running"
              /\ entries' = [t \in members |->
                   [status |-> "queued", definition |-> definition[t],
                    failure |-> "none", metric |-> "none"]]
              /\ runs' = [t \in members |->
                   [status |-> "queued", failure |-> "none", metric |-> "none",
                    given |-> Nothing]]
              /\ aggregates' = [total |-> Cardinality(members), completed |-> 0,
                                failed |-> 0, skipped |-> 0, resolved |-> 0]
  /\ PackFrame /\ UNCHANGED <<current, stop, readVars>>

Queued == WithStatus("queued")

IsNext(t) == t \in Queued /\ \A other \in Queued : t <= other

Begin ==
  /\ pc = "turn" /\ ~stop
  /\ \E t \in Queued :
       /\ IsNext(t)
       /\ current' = t
       /\ entries' = [entries EXCEPT ![t].status = "running"]
  /\ pc' = "check"
  /\ PackFrame /\ UNCHANGED <<packStatus, stop, aggregates, runs, readVars>>

Cancelled(run) == [run EXCEPT !.status = "cancelled", !.failure = "cancelled"]

(* Mutant: the run is cancelled, its entry is left as it is.               *)
SkipRun ==
  /\ pc = "turn" /\ stop
  /\ \E t \in Queued :
       /\ IsNext(t)
       /\ current' = t
       /\ runs' = [runs EXCEPT ![t] = Cancelled(@)]
  /\ pc' = "count"
  /\ PackFrame /\ UNCHANGED <<packStatus, stop, aggregates, entries, readVars>>

Skip ==
  /\ pc = "turn" /\ stop
  /\ \E t \in Queued :
       /\ IsNext(t)
       /\ current' = t
       /\ entries' = [entries EXCEPT ![t].status = "skipped"]
       /\ runs' = [runs EXCEPT ![t] = Cancelled(@)]
  /\ pc' = "count"
  /\ PackFrame /\ UNCHANGED <<packStatus, stop, aggregates, readVars>>

(* Mutant: stop looks at the last entry only, skipped or not.              *)
StopAfterLast == stopOnFailure /\ entries[current].status = "failed"

StopFrom == stop \/ (stopOnFailure /\ entries[current].status = "failed")

(* The category of a skipped entry is committed with the aggregates.       *)
Count ==
  /\ pc = "count"
  /\ stop' = StopFrom
  /\ aggregates' = Aggregates
  /\ entries' = IF entries[current].status = "skipped"
                THEN [entries EXCEPT ![current].failure = runs[current].failure]
                ELSE entries
  /\ pc' = "turn"
  /\ PackFrame /\ UNCHANGED <<packStatus, current, runs, readVars>>

Verdict ==
  IF WithStatus("completed") = Roster THEN "completed"
  ELSE IF WithStatus("completed") # {} THEN "partial_failure"
  ELSE "failed"

Conclude ==
  /\ pc = "turn" /\ Queued = {}
  /\ packStatus' = Verdict
  /\ pc' = "over"
  /\ PackFrame /\ UNCHANGED <<stop, current, aggregates, entries, runs, readVars>>

-----------------------------------------------------------------------------
(* _execute.                                                               *)

ExecuteFrame == PackFrame /\ UNCHANGED <<packStatus, stop, current, aggregates>>

(* Mutant: the last classification wins.                                   *)
FailedAnew(run, category) ==
  [run EXCEPT !.status = "failed", !.failure = category]

(* _fail keeps a failure that is there.                                    *)
Failed(run, category) ==
  [run EXCEPT !.status = "failed",
              !.failure = IF run.failure = "none" THEN category ELSE run.failure]

SetRun(run) == runs' = [runs EXCEPT ![current] = run]

(* Mutant: only the status of the task is looked at.                       *)
AsReady(t) == ready[t]

AsSelected(t) == ready[t] /\ definition[t] = entries[t].definition

(* The prompts of start_run show what is read here: the session forgets    *)
(* the task with the commit that marks the run as running.                 *)
Check ==
  /\ pc = "check"
  /\ IF AsSelected(current)
     THEN /\ SetRun([runs[current] EXCEPT !.given = definition[current]])
          /\ since' = [since EXCEPT ![current] = edits]
          /\ pc' = "start"
     ELSE /\ SetRun(Failed(runs[current], "task_not_ready"))
          /\ pc' = "evaluate"
          /\ UNCHANGED since
  /\ ExecuteFrame /\ UNCHANGED <<entries, used>>

(* The base commit is read after the commit, and may be the first that is  *)
(* read of an edit; a run that fails before has no workspace.              *)
StartRun ==
  /\ pc = "start"
  /\ \/ /\ SetRun([runs[current] EXCEPT !.status = "running"])
        /\ used' = [used EXCEPT ![current] = {definition[current]}]
        /\ pc' = "run"
     \/ /\ \E category \in {"model_provider_error", "other"} :
             SetRun([Failed(runs[current], category) EXCEPT !.given = Nothing])
        /\ pc' = "evaluate"
        /\ UNCHANGED used
  /\ ExecuteFrame /\ UNCHANGED <<entries, since>>

(* It returns with a completed run that has metrics or with a failed run   *)
(* that has a failure, or it raises an exception it does not catch itself. *)
RunReturns ==
  /\ pc = "run"
  /\ \E metric \in Metrics :
       LET run == [runs[current] EXCEPT !.metric = metric]
       IN  \/ metric # "none" /\ SetRun([run EXCEPT !.status = "completed"])
           \/ SetRun([run EXCEPT !.status = "failed", !.failure = "other"])
           \/ SetRun(Failed(run, "other"))
  /\ pc' = "evaluate"
  /\ ExecuteFrame /\ UNCHANGED <<entries, readVars>>

(* What an evaluation may find: nothing is resolved that has not been run. *)
Findings(run) ==
  {"unresolved"} \cup (IF run.given = Nothing THEN {} ELSE {"resolved"})

(* The saved metrics, or new ones unless the evaluation is refused or      *)
(* breaks, before or after it has stored them.                             *)
Evaluate ==
  /\ pc = "evaluate"
  /\ LET run == runs[current]
     IN  \/ /\ run.metric # "none"
            /\ entries' = [entries EXCEPT ![current].metric = run.metric]
            /\ UNCHANGED runs
         \/ /\ run.metric = "none"
            /\ \E metric \in Findings(run) :
                 /\ entries' = [entries EXCEPT ![current].metric = metric]
                 /\ SetRun([run EXCEPT !.metric = metric])
         \/ /\ run.metric = "none"
            /\ \E metric \in Findings(run) \cup {"none"} :
                 SetRun(Failed([run EXCEPT !.metric = metric], "other"))
            /\ UNCHANGED entries
  /\ pc' = "finish"
  /\ ExecuteFrame /\ UNCHANGED readVars

(* Mutant: only a resolved issue makes a completed entry.                  *)
IsFailedUnresolved(run) == run.metric # "resolved"

IsFailed(run) == run.status # "completed"

(* get_or_classify infers a failure if a request has failed the run and    *)
(* has not classified it yet.                                              *)
Explained(run) ==
  IF IsFailed(run) /\ run.failure = "none" THEN [run EXCEPT !.failure = "other"]
  ELSE run

Finish ==
  /\ pc = "finish"
  /\ LET run == Explained(runs[current])
     IN  /\ SetRun(run)
         /\ entries' = [entries EXCEPT
              ![current].status = IF IsFailed(run) THEN "failed" ELSE "completed",
              ![current].failure = IF IsFailed(run) THEN run.failure ELSE "none"]
  /\ pc' = "count"
  /\ ExecuteFrame /\ UNCHANGED readVars

-----------------------------------------------------------------------------
(* Others.                                                                 *)

OthersFrame ==
  UNCHANGED <<packVars, pc, current, aggregates, entries>>

(* The commands and allowances of a task are read when they are needed,    *)
(* anew after each commit, by start_run and by test requests.              *)
ReadTask ==
  /\ \E t \in testing \cup (IF pc = "run" THEN {current} ELSE {}) :
       used' = [used EXCEPT ![t] = @ \cup {definition[t]}]
  /\ OthersFrame /\ UNCHANGED <<taskVars, runs, requestVars, since>>

(* A task is edited, withdrawn or made ready again: the API edits metadata,*)
(* which the fingerprint covers, curators the rest in the database.        *)
Edit ==
  /\ edits < MaxEdits
  /\ edits' = edits + 1
  /\ \E t \in Tasks :
       \/ definition' = [definition EXCEPT ![t] = edits'] /\ UNCHANGED ready
       \/ ready' = [ready EXCEPT ![t] = ~@] /\ UNCHANGED definition
  /\ OthersFrame /\ UNCHANGED <<runs, requestVars, readVars>>

(* A test request is let in while the run is running; what it concludes    *)
(* is written over any status, see RunLifecycle.                           *)
BeginTests ==
  /\ requests < MaxRequests
  /\ requests' = requests + 1
  /\ \E t \in Roster \ testing :
       runs[t].status = "running" /\ testing' = testing \cup {t}
  /\ OthersFrame /\ UNCHANGED <<taskVars, runs, readVars>>

EndTests ==
  /\ \E t \in testing :
       /\ testing' = testing \ {t}
       /\ \/ runs' = [runs EXCEPT ![t].status = "completed"]
          \/ runs' = [runs EXCEPT ![t].status = "failed", ![t].failure = "other"]
  /\ OthersFrame /\ UNCHANGED <<taskVars, requests, readVars>>

(* The process dies, with its requests; nothing resumes a pack.            *)
Crash ==
  /\ pc \notin Over
  /\ pc' = "dead"
  /\ testing' = {}
  /\ UNCHANGED <<taskVars, packVars, current, aggregates, entries, runs, requests,
                 readVars>>

Terminated == pc \in Over /\ UNCHANGED vars

PackStep ==
  \/ Select \/ Begin \/ Skip \/ Count \/ Conclude
  \/ Check \/ StartRun \/ RunReturns \/ Evaluate \/ Finish

Next == PackStep \/ ReadTask \/ Edit \/ BeginTests \/ EndTests \/ Crash \/ Terminated

(* start is one synchronous call, and start_run returns (EventuallySettled *)
(* of RunLifecycle).  Nobody has to edit or to send anything.              *)
Spec == Init /\ [][Next]_vars /\ WF_vars(PackStep)

-----------------------------------------------------------------------------
(* Properties.                                                             *)

Finished == {t \in Roster : entries[t].status \in {"completed", "failed", "skipped"}}

(* What curators edit between the roster and the turn of a task is never   *)
(* executed, nor shown to a model: whatever start_run or a test request    *)
(* has read of a definition that is not the one of the roster was written  *)
(* after the check of _execute had passed, and no issue is resolved        *)
(* without that check and without a workspace.  Edits after the check are  *)
(* executed, in one run with what was there before.                        *)
EditsBeforeTurnRefused ==
  \A t \in Roster :
    LET started == runs[t].given = entries[t].definition
    IN  /\ runs[t].given # Nothing => started
        /\ \A d \in used[t] : started /\ (d = entries[t].definition \/ d > since[t])
        /\ entries[t].metric = "resolved" => started /\ used[t] # {}

(* Entries are taken up in the order of the pack, one at a time; with      *)
(* stop_on_task_failure everything after the first failed entry is skipped *)
(* and nothing else ever is, not even in a pack that a crash cut short.    *)
StopsAfterFailure ==
  \A t, u \in Roster :
    /\ t < u /\ entries[u].status # "queued" => t \in Finished
    /\ t < u /\ stopOnFailure /\ entries[t].status = "failed"
         => entries[u].status \in {"queued", "skipped"}
    /\ entries[u].status = "skipped"
         => stopOnFailure /\ \E s \in Roster : s < u /\ entries[s].status = "failed"

(* Without test requests a finished entry shows its run: the same verdict, *)
(* the failure that was classified first, and metrics if it is completed,  *)
(* whichever step of the execution has raised.                             *)
EntryFollowsRun ==
  \A t \in Finished :
    /\ entries[t].status = "failed" => entries[t].failure # "none"
    /\ requests = 0 =>
         /\ entries[t].status = "completed" => entries[t].metric # "none"
         /\ entries[t].status = "completed" <=> runs[t].status = "completed"
         /\ entries[t].status = "failed" => entries[t].failure = runs[t].failure

(* The committed aggregates account for every finished entry but the one   *)
(* at work, also after a crash, and skipped ones stay in the total.        *)
AggregatesAgree ==
  packStatus # "none" =>
    LET counted == aggregates.completed + aggregates.failed + aggregates.skipped
    IN  /\ aggregates.total = Cardinality(Roster)
        /\ counted \in {Cardinality(Finished), Cardinality(Finished \ {current})}
        /\ aggregates.resolved <= aggregates.completed + aggregates.failed

(* A pack ends completed, partly failed or failed as its committed         *)
(* aggregates say, with no entry left behind.                              *)
PackVerdict ==
  pc = "over" =>
    /\ Finished = Roster
    /\ packStatus = "completed" <=> aggregates.completed = aggregates.total
    /\ packStatus = "failed" <=> aggregates.completed = 0
    /\ packStatus # "running"

(* Entries, aggregates and the verdict of the pack tell what became of the *)
(* runs (_execute, calculate_pack_aggregates of benchmark_packs/runs.py).  *)
EntriesAreTrue == TypeOK /\ EntryFollowsRun /\ AggregatesAgree /\ PackVerdict

(* No step of the pack itself replaces the failure of a run by a less      *)
(* precise one, whichever step of _execute raises later ("preserve existing*)
(* root-cause classifications", docs/benchmark-packs.md).                  *)
RootCausesAreKept ==
  [][\A t \in Roster :
       runs[t].failure # "none" /\ pc # "run" /\ testing' = testing
         => runs'[t].failure = runs[t].failure]_vars

(* The saved result of a task stays as it is whatever requests do to its   *)
(* run later ("Snapshots make a completed result independent of later ...  *)
(* changes", docs/benchmark-packs.md).                                     *)
SnapshotsAreKept ==
  [][\A t \in Roster :
       entries[t].status \in {"completed", "failed"}
         => entries'[t] = entries[t]]_vars

(* Neither the cause of a failure nor a saved entry is written over.       *)
HistoryIsKept == RootCausesAreKept /\ SnapshotsAreKept

(* Unless the process dies the pack ends, whatever its tasks come to.      *)
PackEnds == <>(pc \in Over)

-----------------------------------------------------------------------------
(* Statements of the documentation.                                        *)

(* "A completed pack means all AgentRuns completed"                        *)
(* (docs/benchmark-packs.md): at least at the moment it is marked so.      *)
CompletedMeansAll ==
  [][pc = "turn" /\ packStatus' = "completed"
       => \A t \in Roster : runs[t].status = "completed"]_vars

=============================================================================

----------------------------- MODULE RunLifecycle -----------------------------
(***************************************************************************)
(* The row of one agent run, from its creation to its metrics, written by  *)
(* three parties: AgentRunOrchestrator.start_run (agents/orchestrator.py)  *)
(* with the loop as RepairPromise describes it, the comparison or pack     *)
(* that prepared the run, and requests to the public endpoints for tests,  *)
(* evaluation and failures, which run in other threads on the same row.    *)
(*                                                                         *)
(* One execution of a phase leaves one result that stands for those of all *)
(* its commands.  The patch of attempt i is called i.                      *)
(***************************************************************************)
EXTENDS Naturals, Sequences

CONSTANTS
  Limits,        \* values of 1 + max_repair_attempts
  SettingsSpace, \* run configurations and task definitions to consider
  Requests,      \* kinds of requests clients may send
  MaxRequests    \* bound on requests that execute tests

RequestKinds == {"baseline", "post_patch", "evaluate", "read_failure"}

(* What the run configuration, the task and the caller decide.             *)
SettingsType ==
  [ tests : BOOLEAN,    \* run_tests_after_patch
    quality : BOOLEAN,  \* run_lint_after_patch or run_format_check_after_patch
    hidden : BOOLEAN,   \* run_hidden_tests
    gold : BOOLEAN,     \* the task has a gold patch
    batch : BOOLEAN ]   \* prepared by a comparison or a pack

ASSUME RunAssumption ==
  /\ Limits \subseteq Nat \ {0}
  /\ SettingsSpace \subseteq SettingsType
  /\ Requests \subseteq RequestKinds
  /\ MaxRequests \in Nat

VARIABLES
  limit, verdicts, phase, fatal, choice, result,   \* those of RepairPromise
  settings,
  pc,           \* where start_run is, see Locations
  cause,        \* failure category start_run has in hand, "none" if None
  status,       \* AgentRun.status
  failure,      \* category of AgentRun.failure, "none" if there is no row
  selected,     \* patch with is_selected, 0 if none
  finalPassed,  \* AgentRun.final_patch_passed_tests
  results,      \* TestResult rows
  failedPhases, \* phases with a test_phase_completed event, passed = false
  hiddenDone,   \* patch of the test_phase_completed event of hidden tests
  metric,       \* AgentRun.evaluation_metric
  request,      \* the request that is executing tests
  requests      \* requests to execute tests so far

loopVars == <<limit, verdicts, phase, fatal, choice, result>>
testVars == <<results, failedPhases, hiddenDone>>
selectionVars == <<selected, finalPassed>>
requestVars == <<request, requests>>
vars == <<loopVars, settings, pc, cause, status, failure, selectionVars,
          testVars, metric, requestVars>>

Loop == INSTANCE RepairPromise

Locations ==
  { "queued", "prepare", "setup", "setup_failed", "baseline", "index",
    "loop", "restore", "quality", "hidden", "close", "complete", "evaluate",
    "fail", "classify", "evaluate_failed", "batch", "done",
    "dead",    \* the process has died
    "lost" }   \* it has died before there was a workspace

Ended == {"done", "dead", "lost"}

Terminal == {"completed", "failed"}

Categories == {"repository_checkout_failed", "setup_failed", "timeout",
               "baseline_tests_failed",
               "post_patch_tests_failed", "patch_apply_failed",
               "other"}   \* what the modelled steps do not tell apart

Outcomes == {"passed", "failed", "timeout"}

ResultType ==
  [ phase : {"setup", "baseline", "post_patch", "hidden_eval"},
    patch : Nat, attempt : Nat, outcome : Outcomes ]

Row(p, patch, attempt, outcome) ==
  [phase |-> p, patch |-> patch, attempt |-> attempt, outcome |-> outcome]

HiddenStatus == {"passed", "failed", "not_run"}

MetricType ==
  [post : BOOLEAN, hidden : HiddenStatus, resolved : BOOLEAN, ready : BOOLEAN]

NoMetric == [absent |-> TRUE]

NoRequest == [kind |-> "none", stage |-> "none", patch |-> 0, outcome |-> "none"]

RequestType ==
  [ kind : {"baseline", "post_patch"}, stage : {"run", "finalize", "classify"},
    patch : Nat, outcome : Outcomes \cup {"none", "refused"} ]

TypeOK ==
  /\ settings \in SettingsType
  /\ pc \in Locations
  /\ cause \in Categories \cup {"none"}
  /\ status \in Terminal \cup {"queued", "running"}
  /\ failure \in Categories \cup {"none"}
  /\ selected \in 0..limit
  /\ finalPassed \in {"passed", "failed", "not_run"}
  /\ results \subseteq ResultType
  /\ \A r \in results : r.patch <= limit /\ r.attempt <= limit
  /\ failedPhases \subseteq {"setup", "baseline", "post_patch"}
  /\ hiddenDone \in 0..limit
  /\ metric \in MetricType \cup {NoMetric}
  /\ request \in RequestType \cup {NoRequest}
  /\ requests \in 0..MaxRequests

Init ==
  /\ limit \in Limits
  /\ verdicts = <<>>
  /\ phase = "open"
  /\ fatal = FALSE
  /\ choice = 0
  /\ result = "none"
  /\ settings \in SettingsSpace
  /\ pc = "queued"
  /\ cause = "none"
  /\ status = "queued"
  /\ failure = "none"
  /\ selected = 0
  /\ finalPassed = "not_run"
  /\ results = {}
  /\ failedPhases = {}
  /\ hiddenDone = 0
  /\ metric = NoMetric
  /\ request = NoRequest
  /\ requests = 0

-----------------------------------------------------------------------------
(* EvaluationService.evaluate.                                             *)

AllPassed(rows) == rows # {} /\ \A r \in rows : r.outcome = "passed"

PhaseRows(p) == {r \in results : r.phase = p}

(* Mutant: the rows of every candidate count.                              *)
EveryRow(p) == PhaseRows(p)

(* Of the selected patch only the rows of its last attempt count; without  *)
(* a selected patch every row of the phase does.                           *)
EvaluatedRows(p) ==
  IF selected = 0 THEN PhaseRows(p)
  ELSE LET own == {r \in PhaseRows(p) : r.patch = selected}
       IN  {r \in own : \A other \in own : other.attempt <= r.attempt}

HiddenPassed ==
  LET rows == {r \in PhaseRows("hidden_eval") : r.patch = selected}
  IN  IF selected = 0 \/ rows = {} THEN "not_run"
      ELSE IF AllPassed(rows) /\ hiddenDone = selected THEN "passed"
      ELSE "failed"

StoredPatches ==
  Loop!Stored \cup ({r.patch : r \in results} \ {0})

(* AgentRun.generated_patch: the selected patch or the latest version.     *)
GeneratedPatch == IF selected # 0 THEN selected ELSE Loop!LatestOf(StoredPatches)

IsValid(i) ==
  /\ i \in DOMAIN verdicts
  /\ verdicts[i].outcome \in {"passed", "failed_tests", "untested"}

(* A tested patch has been applied unless its attempt came to nothing.     *)
IsApplied(i) ==
  /\ i # 0
  /\ i \in DOMAIN verdicts
       => verdicts[i].outcome \notin {"invalid_patch", "error"}

(* Readiness as far as the run decides it: a rejection by a reviewer, hard *)
(* limits of patch quality and blocking lint checks are left out.          *)
Metric ==
  LET post == /\ AllPassed(EvaluatedRows("post_patch"))
              /\ selected # 0 => finalPassed # "failed"
      resolved == post /\ HiddenPassed # "failed"
  IN  [ post |-> post, hidden |-> HiddenPassed, resolved |-> resolved,
        ready |-> resolved /\ IsApplied(GeneratedPatch) /\ failure = "none" ]

EvaluationAllowed(includeFailed) ==
  /\ settings.gold
  /\ status = "completed" \/ (includeFailed /\ status = "failed")

-----------------------------------------------------------------------------
(* start_run up to the loop.  The caught exceptions lead to "fail".        *)

Go(location) == pc' = location /\ UNCHANGED cause

Raise(category) == pc' = "fail" /\ cause' = category

(* Steps of start_run that write nothing, or one thing only.               *)
Elsewhere == UNCHANGED <<loopVars, settings, selectionVars, requestVars>>

WritesNothing == Elsewhere /\ UNCHANGED <<status, failure, testVars, metric>>

MarkStatus(s) ==
  status' = s /\ Elsewhere /\ UNCHANGED <<failure, testVars, metric>>

ClassifyAs(category) ==
  failure' = category /\ Elsewhere /\ UNCHANGED <<status, testVars, metric>>

StoreMetric(m) ==
  metric' = m /\ Elsewhere /\ UNCHANGED <<status, failure, testVars>>

(* TestExecutionService._ensure_execution_allowed.                         *)
ExecutionAllowed == status \in {"queued", "running"}

Start ==
  /\ pc = "queued"
  /\ MarkStatus("running")
  /\ Go("prepare")

(* The task is no longer ready or the model provider cannot be created:    *)
(* only the batch that has prepared the run has a row to fail.             *)
StartRefused ==
  /\ pc = "queued"
  /\ settings.batch
  /\ status' = "failed"
  /\ failure' = "other"
  /\ Go("batch")
  /\ Elsewhere /\ UNCHANGED <<testVars, metric>>

Prepare ==
  /\ pc = "prepare"
  /\ Go("setup") \/ Raise("repository_checkout_failed")
  /\ WritesNothing

Setup ==
  /\ pc = "setup"
  /\ IF ExecutionAllowed
     THEN \E outcome \in Outcomes :
            /\ results' = results \cup {Row("setup", 0, 0, outcome)}
            /\ IF outcome = "passed"
               THEN Go("baseline") /\ UNCHANGED <<status, failedPhases>>
               ELSE /\ pc' = "setup_failed"
                    /\ cause' = IF outcome = "timeout" THEN "timeout"
                                ELSE "setup_failed"
                    /\ status' = "failed"
                    /\ failedPhases' = failedPhases \cup {"setup"}
     ELSE Raise("other") /\ UNCHANGED <<status, results, failedPhases>>
  /\ Elsewhere /\ UNCHANGED <<failure, hiddenDone, metric>>

(* The test service classifies what it has marked as failed, start_run     *)
(* raises with a category of its own.                                      *)
ClassifySetup ==
  /\ pc = "setup_failed"
  /\ ClassifyAs(cause)
  /\ Raise("setup_failed")

(* Failing tests are expected here and stop nothing.                       *)
Baseline ==
  /\ pc = "baseline"
  /\ IF ExecutionAllowed
     THEN \E outcome \in {"passed", "failed"} :
            /\ results' = results \cup {Row("baseline", 0, 0, outcome)}
            /\ failedPhases' = IF outcome = "passed" THEN failedPhases
                               ELSE failedPhases \cup {"baseline"}
            /\ Go("index")
     ELSE Raise("other") /\ UNCHANGED <<results, failedPhases>>
  /\ Elsewhere /\ UNCHANGED <<status, failure, hiddenDone, metric>>

Index ==
  /\ pc = "index"
  /\ Go("loop") \/ Raise("other")
  /\ WritesNothing

-----------------------------------------------------------------------------
(* The loop and its repairs: steps of RepairPromise, with the rows they    *)
(* leave and the service checks that hold them back.                       *)

LoopFrame ==
  UNCHANGED <<settings, status, failure, selectionVars, metric, requestVars>>

SubmitAttempt ==
  /\ pc = "loop"
  /\ Loop!Submit
  /\ LoopFrame /\ UNCHANGED <<pc, cause, testVars>>

(* run_tests of the agent checks no status and names no patch.             *)
AgentRunsTests ==
  /\ pc = "loop"
  /\ phase = "open"
  /\ \E outcome \in {"passed", "failed"} :
       results' = results \cup {Row("post_patch", 0, 0, outcome)}
  /\ LoopFrame /\ UNCHANGED <<loopVars, pc, cause, failedPhases, hiddenDone>>

Current == Len(verdicts) + 1

RowsOf(i) == {r \in PhaseRows("post_patch") : r.attempt = i}

TestAttempt ==
  /\ pc = "loop"
  /\ phase = "judging"
  /\ settings.tests
  /\ ExecutionAllowed
  /\ RowsOf(Current) = {}
  /\ \E outcome \in {"passed", "failed"} :
       /\ results' = results \cup {Row("post_patch", Current, Current, outcome)}
       /\ failedPhases' = IF outcome = "passed" THEN failedPhases
                          ELSE failedPhases \cup {"post_patch"}
  /\ LoopFrame /\ UNCHANGED <<loopVars, pc, cause, hiddenDone>>

(* What assess can conclude from the rows.  Patches are neither stored nor *)
(* applied for a run that is over: such an attempt is refused or breaks.   *)
JudgeAttempt ==
  /\ pc = "loop"
  /\ Loop!Judge
  /\ LET verdict == verdicts'[Current]
         rows == RowsOf(Current)
     IN  /\ verdict.outcome = "passed" => AllPassed(rows)
         /\ verdict.outcome = "failed_tests" => rows # {} /\ ~AllPassed(rows)
         /\ verdict.outcome = "untested" => rows = {} /\ ExecutionAllowed
         /\ rows # {} => verdict.stored
  /\ LoopFrame /\ UNCHANGED <<pc, cause, testVars>>

GiveUp ==
  /\ pc = "loop"
  /\ Loop!GiveUp
  /\ LoopFrame /\ UNCHANGED <<pc, cause, testVars>>

TestsOf(i) ==
  IF i = 0 THEN "not_run"
  ELSE IF verdicts[i].outcome = "passed" THEN "passed"
  ELSE IF verdicts[i].outcome \in {"failed_tests", "invalid_patch"} THEN "failed"
  ELSE "not_run"

(* finish up to the commit of the selection.                               *)
SelectPatch ==
  /\ pc = "loop"
  /\ phase = "closed"
  /\ selected' = Loop!Best
  /\ finalPassed' = TestsOf(Loop!Best)
  /\ Go("restore")
  /\ UNCHANGED <<loopVars, settings, status, failure, testVars, metric,
                 requestVars>>

LoopRaised ==
  fatal /\ verdicts # <<>> /\ verdicts[Len(verdicts)].outcome = "error"

(* Mutant: a run that is over gets its workspace restored all the same.    *)
RestoreAnyway ==
  /\ pc = "restore"
  /\ Loop!Settle
  /\ result' = "failed" => IsValid(choice')
  /\ \/ ~LoopRaised /\ result' # "failed" /\ Go("quality")
     \/ (fatal \/ result' = "failed") /\ Raise("other")
  /\ LoopFrame /\ UNCHANGED testVars

(* finish brings the workspace back to a valid patch, which is refused for *)
(* a run that is over.  An exception of the loop is raised again; a        *)
(* provider error is an exception or a result.                             *)
RestorePatch ==
  /\ pc = "restore"
  /\ Loop!Settle
  /\ result' = "failed" => IsValid(choice')
  /\ IsValid(choice') /\ ~ExecutionAllowed => result' = "failed"
  /\ \/ ~LoopRaised /\ result' # "failed" /\ Go("quality")
     \/ (fatal \/ result' = "failed") /\ Raise("other")
  /\ LoopFrame /\ UNCHANGED testVars

-----------------------------------------------------------------------------
(* After the loop.                                                         *)

(* Lint and format rows do not count for what is modelled of the metrics.  *)
CheckQuality ==
  /\ pc = "quality"
  /\ IF settings.quality /\ result = "accepted" /\ ~ExecutionAllowed
     THEN Raise("other") ELSE Go("hidden")
  /\ WritesNothing

HiddenDue == settings.hidden /\ IsValid(choice)

(* Not if the run is over or a request has selected another patch.         *)
HiddenAllowed == ExecutionAllowed /\ selected = choice

HiddenRefused ==
  /\ pc = "hidden"
  /\ HiddenDue /\ ~HiddenAllowed
  /\ Raise("other")
  /\ WritesNothing

(* Hidden tests may break off after some of their rows are stored.         *)
RunHiddenTests ==
  /\ pc = "hidden"
  /\ HiddenDue /\ HiddenAllowed
  /\ \E outcome \in {"passed", "failed"} :
       results' = results \cup {Row("hidden_eval", choice, 0, outcome)}
  /\ \/ hiddenDone' = choice /\ Go("close")
     \/ UNCHANGED hiddenDone /\ Raise("other")
  /\ Elsewhere /\ UNCHANGED <<status, failure, failedPhases, metric>>

(* Not configured, no valid patch, or the task has no hidden tests.        *)
NoHiddenTests ==
  /\ pc = "hidden"
  /\ HiddenDue => HiddenAllowed
  /\ Go("close")
  /\ WritesNothing

(* Leaving the workspace and the container may fail too.                   *)
Close ==
  /\ pc = "close"
  /\ \/ result = "accepted" /\ Go("complete")
     \/ Raise("other")
  /\ WritesNothing

Complete ==
  /\ pc = "complete"
  /\ MarkStatus("completed")
  /\ Go("evaluate")

Finished == IF settings.batch THEN "batch" ELSE "done"

(* Mutant: a run that is not completed is waited for.                      *)
EvaluateWhenAllowed ==
  /\ pc = "evaluate"
  /\ EvaluationAllowed(FALSE)
  /\ StoreMetric(Metric)
  /\ Go(Finished)

Evaluate ==
  /\ pc = "evaluate"
  /\ IF EvaluationAllowed(FALSE)
     THEN StoreMetric(Metric) /\ Go(Finished)
     ELSE WritesNothing /\ Raise("other")

Fail ==
  /\ pc = "fail"
  /\ MarkStatus("failed")
  /\ Go("classify")

(* Mutant: the metrics of a failed run are left to others.                 *)
ClassifyOnly ==
  /\ pc = "classify"
  /\ ClassifyAs(cause)
  /\ Go(Finished)

Classify ==
  /\ pc = "classify"
  /\ ClassifyAs(cause)
  /\ Go(IF selected # 0 THEN "evaluate_failed" ELSE Finished)

EvaluateFailed ==
  /\ pc = "evaluate_failed"
  /\ StoreMetric(IF EvaluationAllowed(TRUE) THEN Metric ELSE metric)
  /\ Go(Finished)

(* The comparison or pack evaluates a run that has no metrics yet, failed  *)
(* or not, and fails it when that is impossible; only the pack keeps an    *)
(* earlier failure.                                                        *)
EvaluateInBatch ==
  /\ pc = "batch"
  /\ IF metric # NoMetric THEN WritesNothing
     ELSE IF EvaluationAllowed(TRUE) THEN StoreMetric(Metric)
     ELSE /\ status' = "failed"
          /\ failure' \in {"other", failure} \ {"none"}
          /\ Elsewhere /\ UNCHANGED <<testVars, metric>>
  /\ Go("done")

-----------------------------------------------------------------------------
(* Requests.  Those that execute tests need the workspace.                 *)

RequestFrame == UNCHANGED <<loopVars, settings, pc, cause>>

HasWorkspace ==
  /\ pc \notin {"queued", "prepare", "lost"}
  /\ cause # "repository_checkout_failed"

BeginTests ==
  /\ request = NoRequest
  /\ requests < MaxRequests
  /\ HasWorkspace
  /\ ExecutionAllowed
  /\ requests' = requests + 1
  /\ \E kind \in Requests \cap {"baseline", "post_patch"} :
       request' =
         [ kind |-> kind, stage |-> "run", outcome |-> "none",
           patch |-> IF kind = "post_patch" THEN GeneratedPatch ELSE 0 ]
  /\ RequestFrame /\ UNCHANGED <<status, failure, selectionVars, testVars, metric>>

(* run_baseline_tests with setup: only failing setup commands fail the run.*)
RequestedBaseline ==
  /\ request.kind = "baseline" /\ request.stage = "run"
  /\ \/ \E outcome \in Outcomes \ {"passed"} :
          /\ results' = results \cup {Row("setup", 0, 0, outcome)}
          /\ failedPhases' = failedPhases \cup {"baseline"}
          /\ status' = "failed"
          /\ request' = [request EXCEPT !.stage = "classify", !.outcome = outcome]
     \/ \E outcome \in {"passed", "failed"} :
          /\ results' = results \cup {Row("setup", 0, 0, "passed"),
                                      Row("baseline", 0, 0, outcome)}
          /\ failedPhases' = IF outcome = "passed" THEN failedPhases
                             ELSE failedPhases \cup {"baseline"}
          /\ request' = NoRequest
          /\ UNCHANGED status
  /\ RequestFrame /\ UNCHANGED <<failure, selectionVars, hiddenDone, metric, requests>>

(* run_post_patch_tests; "none": the task has no test commands.            *)
RequestedTests ==
  /\ request.kind = "post_patch" /\ request.stage = "run"
  /\ \/ /\ request.patch # 0
        /\ status' = "failed"
        /\ request' = [request EXCEPT !.stage = "classify", !.outcome = "refused"]
        /\ UNCHANGED results
     \/ \E outcome \in Outcomes \cup {"none"} :
          /\ results' = results \cup
               {Row("post_patch", request.patch, 0, o) : o \in {outcome} \ {"none"}}
          /\ request' = [request EXCEPT !.stage = "finalize", !.outcome = outcome]
          /\ UNCHANGED status
  /\ RequestFrame /\ UNCHANGED <<failure, selectionVars, failedPhases, hiddenDone,
                                 metric, requests>>

(* Mutant: failed tests end the request before they are classified.        *)
FinalizeUnclassified ==
  /\ request.stage = "finalize"
  /\ selected' = IF request.patch # 0 THEN request.patch ELSE selected
  /\ finalPassed' = IF request.outcome = "passed" THEN "passed" ELSE "failed"
  /\ status' = IF request.outcome = "passed" THEN "completed" ELSE "failed"
  /\ request' = NoRequest
  /\ RequestFrame /\ UNCHANGED <<failure, testVars, metric, requests>>

FinalizeTests ==
  /\ request.stage = "finalize"
  /\ selected' = IF request.patch # 0 THEN request.patch ELSE selected
  /\ finalPassed' = CASE request.outcome = "none" -> "not_run"
                      [] request.outcome = "passed" -> "passed"
                      [] OTHER -> "failed"
  /\ IF request.outcome \in {"none", "passed"}
     THEN /\ status' = "completed"
          /\ request' = NoRequest
          /\ UNCHANGED failedPhases
     ELSE /\ status' = "failed"
          /\ request' = [request EXCEPT !.stage = "classify"]
          /\ failedPhases' = failedPhases \cup {"post_patch"}
  /\ RequestFrame /\ UNCHANGED <<failure, results, hiddenDone, metric, requests>>

ClassifyTests ==
  /\ request.stage = "classify"
  /\ failure' = IF request.outcome = "timeout" THEN "timeout"
                 ELSE IF request.outcome = "refused" THEN "patch_apply_failed"
                 ELSE IF request.kind = "baseline" THEN "setup_failed"
                 ELSE "post_patch_tests_failed"
  /\ request' = NoRequest
  /\ RequestFrame /\ UNCHANGED <<status, selectionVars, testVars, metric, requests>>

(* POST /agent-runs/{id}/evaluate.                                         *)
RequestedEvaluation ==
  /\ "evaluate" \in Requests
  /\ EvaluationAllowed(FALSE)
  /\ metric' = Metric
  /\ RequestFrame /\ UNCHANGED <<status, failure, selectionVars, testVars,
                                 requestVars>>

PhaseCategory ==
  [ setup |-> "setup_failed", baseline |-> "baseline_tests_failed",
    post_patch |-> "post_patch_tests_failed" ]

(* GET /agent-runs/{id}/failure stores what it infers from the events, of  *)
(* which those of failed tests are modelled, or from a failed status.      *)
ReadFailure ==
  /\ "read_failure" \in Requests
  /\ failure = "none"
  /\ failure' \in {PhaseCategory[p] : p \in failedPhases}
                    \cup (IF status = "failed" THEN {"other"} ELSE {})
  /\ RequestFrame /\ UNCHANGED <<status, selectionVars, testVars, metric,
                                 requestVars>>

-----------------------------------------------------------------------------
(* Every thread dies; the rows and the workspace stay.  Nothing resumes a  *)
(* run, but requests are served again.                                     *)
Crash ==
  /\ pc \notin Ended
  /\ pc' = IF pc \in {"queued", "prepare"} THEN "lost" ELSE "dead"
  /\ request' = NoRequest
  /\ UNCHANGED <<loopVars, settings, cause, status, failure, selectionVars,
                 testVars, metric, requests>>

Terminated == pc \in Ended /\ UNCHANGED vars

RunStep ==
  \/ Start \/ StartRefused \/ Prepare \/ Setup \/ ClassifySetup \/ Baseline \/ Index
  \/ SubmitAttempt \/ AgentRunsTests \/ TestAttempt \/ JudgeAttempt \/ GiveUp
  \/ SelectPatch \/ RestorePatch
  \/ CheckQuality \/ HiddenRefused \/ RunHiddenTests \/ NoHiddenTests \/ Close
  \/ Complete \/ Evaluate \/ Fail \/ Classify \/ EvaluateFailed \/ EvaluateInBatch

RequestStep ==
  RequestedBaseline \/ RequestedTests \/ FinalizeTests \/ ClassifyTests

Next ==
  \/ RunStep \/ RequestStep
  \/ BeginTests \/ RequestedEvaluation \/ ReadFailure
  \/ Crash \/ Terminated

(* start_run and a request that has begun are synchronous calls with       *)
(* bounded commands.  No client has to send anything.                      *)
Spec == Init /\ [][Next]_vars /\ WF_vars(RunStep) /\ WF_vars(RequestStep)

-----------------------------------------------------------------------------
(* Properties.                                                             *)

Settled == pc = "done" /\ request = NoRequest

(* Without requests, a completed run is one the loop has accepted, with    *)
(* metrics and no failure on record; and only failed runs have a failure   *)
(* (start_run marks, classifies and evaluates in separate commits).        *)
CompletedIsEarned ==
  /\ Settled /\ status = "completed"
       => result = "accepted" /\ metric # NoMetric /\ failure = "none"
  /\ failure # "none" => status = "failed"

(* Without requests, a run that ends failed has a failure category, and    *)
(* metrics too if it has a selected patch or belongs to a batch, whichever *)
(* step of start_run has raised.                                           *)
FailedIsExplained ==
  Settled /\ status = "failed"
    => /\ failure # "none"
       /\ settings.gold /\ (selected # 0 \/ settings.batch) => metric # NoMetric

HiddenRowsFailed ==
  \E r \in PhaseRows("hidden_eval") : r.outcome # "passed"

(* Without requests, the metrics of a completed run call the issue resolved*)
(* exactly if the attempt that was chosen passed its tests and no hidden   *)
(* test failed, whatever earlier attempts or the agent's own test runs left*)
(* in the same table.                                                      *)
ResolvedIffEarned ==
  Settled /\ status = "completed"
    => (metric.resolved
          <=> verdicts[choice].outcome = "passed" /\ ~HiddenRowsFailed)

(* Without requests a run is called completed, and its issue resolved, for *)
(* what its chosen attempt has earned (start_run, evaluation/service.py).  *)
VerdictIsEarned == TypeOK /\ CompletedIsEarned /\ ResolvedIffEarned

(* With requests at any time, a run that has ended failed and that no      *)
(* request works on any more has a failure category.                       *)
FailedIsClassified == Settled /\ status = "failed" => failure # "none"

(* A run that a request has ended while the agent was still at work is not *)
(* accepted: the service checks of every later attempt and of the restore  *)
(* refuse it.                                                              *)
EndedIsNotAccepted ==
  [][phase # "done" /\ phase' = "done" /\ status \in Terminal
       => result' # "accepted"]_vars

(* Unless the process dies, start_run returns and the run is completed or  *)
(* failed for good, whatever the attempts, requests and checks came to.    *)
EventuallySettled ==
  <>[]((Settled /\ status \in Terminal) \/ pc \in {"dead", "lost"})

-----------------------------------------------------------------------------
(* Statements of the documentation.                                        *)

(* "completed runs are immutable" (README.md).                             *)
CompletedIsImmutable == [][status = "completed" => status' = "completed"]_vars

(* "post_patch_tests_passed is true only when results exist for the final  *)
(* selected patch" (docs/evaluation-metrics.md).                           *)
PassedMeansSelected == metric # NoMetric /\ metric.post => selected # 0

(* "timeout: a workspace, setup, test, or other bounded operation timed    *)
(* out" (docs/failure-classification.md).                                  *)
SetupTimeoutIsReported ==
  Settled /\ (\E r \in PhaseRows("setup") : r.outcome = "timeout")
    => failure = "timeout"

(* "Successful or still-active runs without a failure return 404 because   *)
(* there is no failure to report" (docs/failure-classification.md).        *)
OnlyFailuresAreReported == [][failure = "none" /\ failure' # "none"
                                => status = "failed"]_vars

=============================================================================

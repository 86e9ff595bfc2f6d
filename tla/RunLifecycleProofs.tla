-------------------------- MODULE RunLifecycleProofs --------------------------
(***************************************************************************)
(* The row of a run, for every limit of attempts, every configuration and  *)
(* any number of requests: its types, what start_run leaves behind when it *)
(* raises, what a completed run rests on, and that a run ended by a request*)
(* is not accepted.                                                        *)
(***************************************************************************)
EXTENDS RunLifecycle, WellFoundedInduction, TLAPS

-----------------------------------------------------------------------------
(* Types.                                                                  *)

(* The part of the loop that RepairPromise leaves implicit.                *)
LoopTypeOK ==
  /\ limit \in Nat \ {0}
  /\ verdicts \in Seq(Loop!Verdicts)
  /\ Len(verdicts) <= limit
  /\ phase \in {"open", "judging", "closed", "done"}
  /\ phase = "judging" => Len(verdicts) < limit
  /\ fatal \in BOOLEAN
  /\ choice \in 0..Len(verdicts)
  /\ result \in {"none", "accepted", "rejected", "failed"}

Typed ==
  /\ LoopTypeOK
  /\ TypeOK
  /\ request.patch \in 0..limit

-----------------------------------------------------------------------------
(* A failure on its way.                                                   *)

(* A failed run without a category is about to get one, by start_run or by *)
(* the request that has failed it, unless the process has died.            *)
Classified ==
  /\ pc \in {"setup_failed", "fail", "classify"} => cause # "none"
  /\ status = "failed" /\ failure = "none"
       => \/ pc \in {"setup_failed", "classify", "dead", "lost"}
          \/ request.stage = "classify"

ClassifiedInv == Typed /\ Classified

-----------------------------------------------------------------------------
(* A run that no request interferes with: the endpoint for evaluation only *)
(* reads what start_run has written.                                       *)

Undisturbed == Requests \subseteq {"evaluate"}

(* Where start_run is tells what the row says.                             *)
PlacesAgree ==
  /\ request = NoRequest
  /\ pc \in {"queued", "prepare", "setup", "baseline", "index", "loop", "restore",
             "quality", "hidden", "close", "complete"}
       => status \in {"queued", "running"} /\ failure = "none" /\ metric = NoMetric
  /\ pc \in {"setup_failed", "classify", "evaluate_failed"} => status = "failed"
  /\ pc \in {"batch", "done"} => status \in Terminal
  /\ pc = "batch" => settings.batch
  /\ failure # "none" => status = "failed"
  /\ status = "completed" => pc \in {"evaluate", "fail", "batch", "done", "dead"}
  /\ pc = "evaluate" => status = "completed"

(* The loop is over where it is assumed to be over.                        *)
PhasesAgree ==
  /\ pc \in {"queued", "prepare", "setup", "setup_failed", "baseline", "index"}
       => phase = "open" /\ selected = 0
  /\ pc = "loop" => selected = 0
  /\ pc = "restore" => phase = "closed"
  /\ pc \in {"quality", "hidden", "close", "complete", "evaluate"} => phase = "done"
  /\ phase = "done" => choice = Loop!Best /\ (result = "accepted" => Loop!Earned)
  /\ pc = "complete" \/ status = "completed" => phase = "done" /\ result = "accepted"
  /\ selected # 0 \/ phase = "done" \/ pc = "restore"
       => selected = Loop!Best /\ finalPassed = TestsOf(Loop!Best)

(* The tests of an attempt are those its verdict was drawn from.           *)
RowsAgree ==
  /\ \A r \in PhaseRows("post_patch") : r.patch = r.attempt
  /\ \A i \in DOMAIN verdicts :
       /\ verdicts[i].outcome = "passed" => AllPassed(RowsOf(i))
       /\ verdicts[i].outcome = "untested" => RowsOf(i) = {}

(* Hidden tests were run on the choice, and to their end if the run goes on*)
HiddenAgree ==
  /\ PhaseRows("hidden_eval") # {} => phase = "done"
  /\ \A r \in PhaseRows("hidden_eval") : r.patch = choice
  /\ pc \in {"close", "complete", "evaluate"} \/ status = "completed"
       => PhaseRows("hidden_eval") = {} \/ hiddenDone = choice
  /\ pc \in {"quality", "hidden"} => PhaseRows("hidden_eval") = {}

(* What is owed to a run has been paid when start_run returns.             *)
MetricsPaid ==
  /\ pc \in {"batch", "done"} /\ status = "completed" => metric # NoMetric
  /\ pc \in {"batch", "done"} /\ selected # 0 /\ settings.gold => metric # NoMetric
  /\ pc = "done" /\ settings.batch /\ settings.gold => metric # NoMetric

(* The metrics of a completed run say what its choice has earned.          *)
MetricAgrees ==
  status = "completed" /\ metric # NoMetric
    => (metric.resolved
          <=> verdicts[choice].outcome = "passed" /\ ~HiddenRowsFailed)

EarnedInv ==
  /\ ClassifiedInv
  /\ PlacesAgree
  /\ PhasesAgree
  /\ RowsAgree
  /\ HiddenAgree
  /\ MetricsPaid
  /\ MetricAgrees

-----------------------------------------------------------------------------
(* The operators of the model.                                             *)

(* A non-empty set of attempts has a latest one.                           *)
LEMMA LatestExists ==
  ASSUME NEW n \in Nat, NEW S \in SUBSET (1..n), S # {}
  PROVE  /\ Loop!LatestOf(S) \in S
         /\ \A j \in S : j <= Loop!LatestOf(S)
  <1> DEFINE T == {n - i : i \in S}
             less == OpToRel(<, Nat)
  <1>1. T \subseteq Nat /\ T # {}
    <2>1. \A i \in S : n - i \in Nat
      OBVIOUS
    <2> QED
      BY <2>1
  <1>2. IsWellFoundedOn(less, Nat)
    BY NatLessThanWellFounded
  <1>3. PICK x \in T : \A y \in T : ~ (<<y, x>> \in less)
    <2> HIDE DEF T, less
    <2> QED
      BY <1>1, <1>2, WFMin
  <1>4. \A y \in T : ~(y < x)
    BY <1>1, <1>3 DEF OpToRel
  <1>5. PICK i \in S : x = n - i
    BY <1>3
  <1>6. \A j \in S : j <= i
    BY <1>4, <1>5
  <1>7. Loop!LatestOf(S) = CHOOSE k \in S : \A j \in S : j <= k
    BY DEF Loop!LatestOf
  <1> QED
    BY <1>6, <1>7

(* The choice of the loop is one of its attempts, and an accepted one has  *)
(* passed its tests or could not be tested.                                *)
LEMMA BestIsAttempt ==
  ASSUME LoopTypeOK
  PROVE  /\ Loop!Best \in 0..Len(verdicts)
         /\ Loop!Earned
              => /\ Loop!Best \in DOMAIN verdicts
                 /\ verdicts[Loop!Best].outcome \in {"passed", "untested"}
  <1>1. /\ Len(verdicts) \in Nat /\ DOMAIN verdicts = 1..Len(verdicts)
    BY DEF LoopTypeOK
  <1>2. Loop!Passed \in SUBSET (1..Len(verdicts)) /\ Loop!Stored \in SUBSET (1..Len(verdicts))
    BY <1>1 DEF Loop!Passed, Loop!Stored
  <1>3. CASE Loop!Passed # {}
    <2>1. Loop!Best \in Loop!Passed
      BY <1>1, <1>2, <1>3, LatestExists DEF Loop!Best
    <2> QED
      BY <1>1, <2>1 DEF Loop!Passed
  <1>4. CASE Loop!Passed = {} /\ Loop!Stored # {}
    <2>1. Loop!Best \in Loop!Stored
      BY <1>1, <1>2, <1>4, LatestExists DEF Loop!Best
    <2> QED
      BY <1>1, <1>4, <2>1 DEF Loop!Stored, Loop!Earned
  <1>5. CASE Loop!Passed = {} /\ Loop!Stored = {}
    <2>1. Loop!Best = 0
      BY <1>5 DEF Loop!Best, Loop!LatestOf
    <2> QED
      BY <1>1, <1>5, <2>1 DEF Loop!Earned
  <1> QED
    BY <1>3, <1>4, <1>5

LEMMA MetricTyped == Metric \in MetricType /\ Metric # NoMetric
  <1> DEFINE post == /\ AllPassed(EvaluatedRows("post_patch"))
                     /\ selected # 0 => finalPassed # "failed"
             resolved == post /\ HiddenPassed # "failed"
             ready == resolved /\ IsApplied(GeneratedPatch) /\ failure = "none"
  <1>1. post \in BOOLEAN /\ resolved \in BOOLEAN /\ ready \in BOOLEAN
    BY Zenon
  <1>2. HiddenPassed \in HiddenStatus
    BY DEF HiddenPassed, HiddenStatus
  <1>3. Metric = [post |-> post, hidden |-> HiddenPassed, resolved |-> resolved,
                  ready |-> ready]
    BY Zenon DEF Metric
  <1> HIDE DEF post, resolved, ready
  <1>4. Metric \in MetricType
    BY <1>1, <1>2, <1>3, Zenon DEF MetricType
  <1>5. DOMAIN Metric = {"post", "hidden", "resolved", "ready"}
    BY <1>3
  <1>6. DOMAIN NoMetric = {"absent"}
    BY DEF NoMetric
  <1> QED
    BY <1>4, <1>5, <1>6

LEMMA GeneratedTyped ==
  ASSUME Typed
  PROVE  GeneratedPatch \in 0..limit
  <1>1. /\ limit \in Nat /\ Len(verdicts) \in Nat /\ DOMAIN verdicts = 1..Len(verdicts)
        /\ Len(verdicts) <= limit /\ selected \in 0..limit
        /\ \A r \in results : r.patch \in 0..limit
    BY DEF Typed, LoopTypeOK, TypeOK, ResultType
  <1>2. StoredPatches \in SUBSET (1..limit)
    BY <1>1 DEF StoredPatches, Loop!Stored
  <1> DEFINE latest == Loop!LatestOf(StoredPatches)
  <1>3. StoredPatches # {} => latest \in 1..limit
    BY <1>1, <1>2, LatestExists
  <1>4. StoredPatches = {} => latest = 0
    BY DEF Loop!LatestOf
  <1>5. GeneratedPatch \in {selected, latest}
    BY DEF GeneratedPatch
  <1> HIDE DEF latest
  <1> QED
    BY <1>1, <1>3, <1>4, <1>5

-----------------------------------------------------------------------------
(* Type correctness.                                                       *)

LEMMA InitTyped == Init => Typed
  <1> SUFFICES ASSUME Init PROVE Typed
    OBVIOUS
  <1>1. LoopTypeOK
    <2>1. /\ limit \in Nat \ {0} /\ verdicts = <<>> /\ phase = "open"
          /\ choice = 0 /\ result = "none"
      BY RunAssumption DEF Init
    <2>3. fatal \in BOOLEAN
      BY Zenon DEF Init
    <2>2. verdicts \in Seq(Loop!Verdicts) /\ Len(verdicts) = 0
      BY <2>1
    <2> QED
      BY <2>1, <2>2, <2>3 DEF LoopTypeOK
  <1>2. TypeOK
    BY <1>1, RunAssumption
    DEF Init, LoopTypeOK, TypeOK, Locations, Terminal, Ended
  <1> QED
    BY <1>1, <1>2 DEF Init, Typed, NoRequest, LoopTypeOK

(* Only four steps are steps of RepairPromise.                             *)
LEMMA LoopSteps ==
  ASSUME [Next]_vars
  PROVE  \/ SubmitAttempt \/ GiveUp \/ JudgeAttempt \/ RestorePatch
         \/ UNCHANGED loopVars
  <1>1. CASE \/ Start \/ StartRefused \/ Prepare \/ Setup \/ ClassifySetup \/ Baseline
             \/ Index \/ AgentRunsTests \/ TestAttempt \/ SelectPatch \/ CheckQuality
             \/ HiddenRefused \/ RunHiddenTests \/ NoHiddenTests \/ Close \/ Complete
             \/ Evaluate \/ Fail \/ Classify \/ EvaluateFailed \/ EvaluateInBatch
    BY <1>1 DEF Start, StartRefused, Prepare, Setup, ClassifySetup, Baseline, Index,
                AgentRunsTests, TestAttempt, SelectPatch, CheckQuality, HiddenRefused,
                RunHiddenTests, NoHiddenTests, Close, Complete, Evaluate, Fail, Classify,
                EvaluateFailed, EvaluateInBatch, Elsewhere, WritesNothing, MarkStatus,
                ClassifyAs, StoreMetric, LoopFrame
  <1>2. CASE \/ RequestStep \/ BeginTests \/ RequestedEvaluation \/ ReadFailure
             \/ Crash \/ UNCHANGED vars
    BY <1>2 DEF RequestStep, BeginTests, RequestedEvaluation, ReadFailure, Crash, vars,
                RequestedBaseline, RequestedTests, FinalizeTests, ClassifyTests,
                RequestFrame
  <1> QED
    BY <1>1, <1>2 DEF Next, RunStep, Terminated

(* The steps that are steps of RepairPromise.                              *)
LEMMA LoopTypeStep ==
  ASSUME Typed, [Next]_vars
  PROVE  LoopTypeOK' /\ limit' = limit
  <1>0. LoopTypeOK
    BY DEF Typed
  <1>1. CASE SubmitAttempt \/ GiveUp
    <2>1. Loop!Submit \/ Loop!GiveUp
      BY <1>1 DEF SubmitAttempt, GiveUp
    <2> QED
      BY <1>0, <2>1 DEF Loop!Submit, Loop!GiveUp, LoopTypeOK
  <1>2. CASE JudgeAttempt
    <2>1. PICK v \in Loop!Verdicts :
            /\ verdicts' = Append(verdicts, v)
            /\ fatal' = (v.outcome = "error")
            /\ phase' \in {"open", "closed"}
      BY <1>2 DEF JudgeAttempt, Loop!Judge
    <2>2. phase = "judging" /\ UNCHANGED <<limit, choice, result>>
      BY <1>2 DEF JudgeAttempt, Loop!Judge
    <2>3. /\ verdicts' \in Seq(Loop!Verdicts) /\ Len(verdicts') = Len(verdicts) + 1
          /\ Len(verdicts) \in Nat
      BY <1>0, <2>1 DEF LoopTypeOK
    <2>4. fatal' \in BOOLEAN
      BY <2>1, Zenon
    <2> QED
      BY <1>0, <2>1, <2>2, <2>3, <2>4 DEF LoopTypeOK
  <1>3. CASE RestorePatch
    <2>1. Loop!Settle
      BY <1>3 DEF RestorePatch
    <2>2. /\ phase' = "done" /\ choice' = Loop!Best
          /\ result' \in {"accepted", "rejected", "failed"}
          /\ UNCHANGED <<limit, verdicts, fatal>>
      BY <2>1 DEF Loop!Settle
    <2> QED
      BY <1>0, <2>2, BestIsAttempt DEF LoopTypeOK
  <1>4. CASE UNCHANGED loopVars
    BY <1>0, <1>4 DEF loopVars, LoopTypeOK
  <1> QED
    BY <1>1, <1>2, <1>3, <1>4, LoopSteps

(* A row is what it was built from.                                        *)
LEMMA RowTyped ==
  ASSUME NEW p \in {"setup", "baseline", "post_patch", "hidden_eval"},
         NEW patch \in Nat, NEW attempt \in Nat, NEW outcome \in Outcomes
  PROVE  /\ Row(p, patch, attempt, outcome) \in ResultType
         /\ Row(p, patch, attempt, outcome).phase = p
         /\ Row(p, patch, attempt, outcome).patch = patch
         /\ Row(p, patch, attempt, outcome).attempt = attempt
         /\ Row(p, patch, attempt, outcome).outcome = outcome
  BY DEF Row, ResultType

RowFits(r) == r \in ResultType /\ r.patch \in 0..limit /\ r.attempt \in 0..limit

RowsTyped == \A r \in results : RowFits(r)

RequestTyped ==
  /\ request \in RequestType \cup {NoRequest}
  /\ request.patch \in 0..limit
  /\ requests \in 0..MaxRequests

RunTyped ==
  /\ pc \in Locations
  /\ cause \in Categories \cup {"none"}
  /\ status \in Terminal \cup {"queued", "running"}
  /\ failure \in Categories \cup {"none"}

TestsTyped ==
  /\ selected \in 0..limit
  /\ finalPassed \in {"passed", "failed", "not_run"}
  /\ failedPhases \subseteq {"setup", "baseline", "post_patch"}
  /\ hiddenDone \in 0..limit
  /\ metric \in MetricType \cup {NoMetric}

LEMMA TypedParts ==
  Typed <=> /\ LoopTypeOK /\ settings \in SettingsType
            /\ RowsTyped /\ RequestTyped /\ RunTyped /\ TestsTyped
  <1>1. ASSUME NEW r \in ResultType, LoopTypeOK
        PROVE  /\ r.patch <= limit <=> r.patch \in 0..limit
               /\ r.attempt <= limit <=> r.attempt \in 0..limit
    BY <1>1 DEF ResultType, LoopTypeOK
  <1> QED
    BY <1>1 DEF Typed, TypeOK, RowsTyped, RowFits, RequestTyped, RunTyped, TestsTyped

LEMMA TypedPartsNext ==
  Typed' <=> (/\ LoopTypeOK /\ settings \in SettingsType
              /\ RowsTyped /\ RequestTyped /\ RunTyped /\ TestsTyped)'
  BY TypedParts, PTL

LEMMA RowsTypedStep ==
  ASSUME Typed, [Next]_vars
  PROVE  RowsTyped'
  <1>0. /\ RowsTyped /\ limit' = limit /\ limit \in Nat /\ Len(verdicts) \in Nat
        /\ choice \in 0..limit /\ request.patch \in 0..limit
        /\ phase = "judging" => Current \in 0..limit
    BY TypedParts, LoopTypeStep DEF LoopTypeOK, RequestTyped, Current
  <1>1. ASSUME \A r \in results' : r \in results \/ RowFits(r)
        PROVE  RowsTyped'
    BY <1>0, <1>1 DEF RowsTyped, RowFits
  <1>a. ASSUME NEW p \in {"setup", "baseline", "post_patch", "hidden_eval"},
               NEW patch \in 0..limit, NEW attempt \in 0..limit, NEW outcome \in Outcomes
        PROVE  RowFits(Row(p, patch, attempt, outcome))
    <2>1. patch \in Nat /\ attempt \in Nat
      BY <1>0
    <2> QED
      BY <2>1, RowTyped DEF RowFits
  <1>b. 0 \in 0..limit /\ "passed" \in Outcomes /\ "failed" \in Outcomes
    BY <1>0 DEF Outcomes
  <1>2. CASE UNCHANGED results
    BY <1>1, <1>2
  <1>3. CASE Setup
    <2>1. CASE ExecutionAllowed
      <3>1. PICK outcome \in Outcomes : results' = results \cup {Row("setup", 0, 0, outcome)}
        BY <1>3, <2>1 DEF Setup
      <3>2. RowFits(Row("setup", 0, 0, outcome))
        BY <1>a, <1>b
      <3> QED
        BY <1>1, <3>1, <3>2
    <2> QED
      BY <1>2, <1>3, <2>1 DEF Setup
  <1>4. CASE Baseline
    <2>1. CASE ExecutionAllowed
      <3>1. PICK outcome \in {"passed", "failed"} :
              results' = results \cup {Row("baseline", 0, 0, outcome)}
        BY <1>4, <2>1 DEF Baseline
      <3>2. RowFits(Row("baseline", 0, 0, outcome))
        BY <1>a, <1>b
      <3> QED
        BY <1>1, <3>1, <3>2
    <2> QED
      BY <1>2, <1>4, <2>1 DEF Baseline
  <1>5. CASE AgentRunsTests
    <2>1. PICK outcome \in {"passed", "failed"} :
            results' = results \cup {Row("post_patch", 0, 0, outcome)}
      BY <1>5 DEF AgentRunsTests
    <2>2. RowFits(Row("post_patch", 0, 0, outcome))
      BY <1>a, <1>b
    <2> QED
      BY <1>1, <2>1, <2>2
  <1>6. CASE TestAttempt
    <2>1. PICK outcome \in {"passed", "failed"} :
            results' = results \cup {Row("post_patch", Current, Current, outcome)}
      BY <1>6 DEF TestAttempt
    <2>2. Current \in 0..limit
      BY <1>0, <1>6 DEF TestAttempt
    <2>3. RowFits(Row("post_patch", Current, Current, outcome))
      BY <1>a, <1>b, <2>2
    <2> QED
      BY <1>1, <2>1, <2>3
  <1>7. CASE RunHiddenTests
    <2>1. PICK outcome \in {"passed", "failed"} :
            results' = results \cup {Row("hidden_eval", choice, 0, outcome)}
      BY <1>7 DEF RunHiddenTests
    <2>2. RowFits(Row("hidden_eval", choice, 0, outcome))
      BY <1>0, <1>a, <1>b
    <2> QED
      BY <1>1, <2>1, <2>2
  <1>8. CASE RequestedBaseline
    <2>1. \/ \E outcome \in Outcomes : results' = results \cup {Row("setup", 0, 0, outcome)}
          \/ \E outcome \in {"passed", "failed"} :
               results' = results \cup {Row("setup", 0, 0, "passed"),
                                        Row("baseline", 0, 0, outcome)}
      BY <1>8 DEF RequestedBaseline
    <2>2. \A outcome \in Outcomes :
            RowFits(Row("setup", 0, 0, outcome)) /\ RowFits(Row("baseline", 0, 0, outcome))
      BY <1>a, <1>b
    <2> QED
      BY <1>1, <1>b, <2>1, <2>2
  <1>9. CASE RequestedTests
    <2>1. \/ UNCHANGED results
          \/ \E outcome \in Outcomes \cup {"none"} :
               results' = results \cup
                 {Row("post_patch", request.patch, 0, o) : o \in {outcome} \ {"none"}}
      BY <1>9 DEF RequestedTests
    <2>2. ASSUME NEW outcome \in Outcomes \cup {"none"},
                 results' = results \cup
                   {Row("post_patch", request.patch, 0, o) : o \in {outcome} \ {"none"}}
          PROVE  RowsTyped'
      <3>1. \A o \in {outcome} \ {"none"} : RowFits(Row("post_patch", request.patch, 0, o))
        BY <1>0, <1>a, <1>b
      <3> QED
        BY <1>1, <2>2, <3>1
    <2> QED
      BY <1>2, <2>1, <2>2
  <1>10. CASE \/ Start \/ StartRefused \/ Prepare \/ ClassifySetup
              \/ Index \/ SubmitAttempt \/ JudgeAttempt \/ GiveUp \/ SelectPatch
              \/ RestorePatch \/ CheckQuality
              \/ HiddenRefused \/ NoHiddenTests \/ Close \/ Complete
              \/ Evaluate \/ Fail \/ Classify \/ EvaluateFailed \/ EvaluateInBatch
    <2>1. UNCHANGED results
      BY <1>10 DEF Start, StartRefused, Prepare, ClassifySetup, Index, SubmitAttempt,
                  JudgeAttempt, GiveUp, SelectPatch, RestorePatch, CheckQuality,
                  HiddenRefused, NoHiddenTests, Close, Complete, Evaluate, Fail, Classify,
                  EvaluateFailed, EvaluateInBatch, Elsewhere, WritesNothing, MarkStatus,
                  ClassifyAs, StoreMetric, LoopFrame, testVars
    <2> QED
      BY <1>2, <2>1
  <1>11. CASE \/ FinalizeTests \/ ClassifyTests \/ BeginTests \/ RequestedEvaluation
              \/ ReadFailure \/ Crash \/ UNCHANGED vars
    <2>1. UNCHANGED results
      BY <1>11 DEF FinalizeTests, ClassifyTests, BeginTests, RequestedEvaluation,
                   ReadFailure, Crash, vars, testVars
    <2> QED
      BY <1>2, <2>1
  <1> QED
    BY <1>3, <1>4, <1>5, <1>6, <1>7, <1>8, <1>9, <1>10, <1>11
    DEF Next, RunStep, RequestStep, Terminated

LEMMA RequestTypedStep ==
  ASSUME Typed, [Next]_vars
  PROVE  RequestTyped'
  <1>0. /\ RequestTyped /\ limit' = limit /\ limit \in Nat /\ MaxRequests \in Nat
        /\ NoRequest.patch = 0
    BY TypedParts, LoopTypeStep, RunAssumption DEF LoopTypeOK, NoRequest
  <1>1. CASE UNCHANGED requestVars
    BY <1>0, <1>1 DEF RequestTyped, requestVars
  <1>2. CASE request' = NoRequest /\ UNCHANGED requests
    BY <1>0, <1>2 DEF RequestTyped
  <1>3. CASE BeginTests
    BY <1>0, <1>3, GeneratedTyped DEF BeginTests, RequestTyped, RequestType
  <1>4. CASE RequestedBaseline \/ RequestedTests \/ FinalizeTests
    <2>1. request.stage \in {"run", "finalize"}
      BY <1>4 DEF RequestedBaseline, RequestedTests, FinalizeTests
    <2>2. request \in RequestType
      BY <1>0, <2>1 DEF RequestTyped, NoRequest
    <2>3. \/ request' = NoRequest
          \/ \E outcome \in Outcomes \cup {"none", "refused"},
                stage \in {"finalize", "classify"} :
               request' = [request EXCEPT !.stage = stage, !.outcome = outcome]
          \/ request' = [request EXCEPT !.stage = "classify"]
      BY <1>4 DEF RequestedBaseline, RequestedTests, FinalizeTests
    <2>4. UNCHANGED requests
      BY <1>4 DEF RequestedBaseline, RequestedTests, FinalizeTests
    <2>5. request'.patch = request.patch \/ request' = NoRequest
      BY <2>2, <2>3 DEF RequestType
    <2>6. request' \in RequestType \cup {NoRequest}
      BY <2>2, <2>3 DEF RequestType
    <2> QED
      BY <1>0, <2>4, <2>5, <2>6 DEF RequestTyped
  <1>5. CASE ClassifyTests \/ Crash
    BY <1>2, <1>5 DEF ClassifyTests, Crash
  <1>6. CASE RequestedEvaluation \/ ReadFailure \/ UNCHANGED vars
    BY <1>1, <1>6 DEF RequestedEvaluation, ReadFailure, vars
  <1>7. CASE RunStep
    BY <1>1, <1>7
    DEF RunStep, Start, StartRefused, Prepare, Setup, ClassifySetup, Baseline, Index,
        SubmitAttempt, AgentRunsTests, TestAttempt, JudgeAttempt, GiveUp, SelectPatch,
        RestorePatch, CheckQuality, HiddenRefused, RunHiddenTests, NoHiddenTests, Close,
        Complete, Evaluate, Fail, Classify, EvaluateFailed, EvaluateInBatch,
        Elsewhere, WritesNothing, MarkStatus, ClassifyAs, StoreMetric, LoopFrame
  <1> QED
    BY <1>3, <1>4, <1>5, <1>6, <1>7 DEF Next, RequestStep, Terminated

LEMMA RunTypedStep ==
  ASSUME Typed, [Next]_vars
  PROVE  RunTyped' /\ settings' = settings
  <1> USE DEF RunTyped, Categories, Locations, Ended, Terminal, Elsewhere, WritesNothing,
              MarkStatus, ClassifyAs, StoreMetric, Go, Raise
  <1>0. RunTyped /\ failedPhases \subseteq {"setup", "baseline", "post_patch"}
    BY TypedParts DEF TestsTyped
  <1>1. CASE Start \/ StartRefused \/ Prepare \/ ClassifySetup \/ Baseline \/ Index
    BY <1>0, <1>1 DEF Start, StartRefused, Prepare, ClassifySetup, Baseline, Index
  <1>2. CASE Setup
    BY <1>0, <1>2 DEF Setup
  <1>3. CASE SubmitAttempt \/ AgentRunsTests \/ TestAttempt \/ JudgeAttempt \/ GiveUp
             \/ SelectPatch \/ RestorePatch
    BY <1>0, <1>3 DEF SubmitAttempt, AgentRunsTests, TestAttempt, JudgeAttempt, GiveUp,
                      SelectPatch, RestorePatch, LoopFrame
  <1>4. CASE CheckQuality \/ HiddenRefused \/ RunHiddenTests \/ NoHiddenTests \/ Close
             \/ Complete
    BY <1>0, <1>4 DEF CheckQuality, HiddenRefused, RunHiddenTests, NoHiddenTests, Close,
                      Complete
  <1>5. CASE Evaluate \/ Fail \/ Classify \/ EvaluateFailed
    BY <1>0, <1>5, ZenonT(30) DEF Evaluate, Fail, Classify, EvaluateFailed, Finished
  <1>6. CASE EvaluateInBatch
    BY <1>0, <1>6 DEF EvaluateInBatch
  <1>7. CASE BeginTests \/ RequestedEvaluation
    <2>1. UNCHANGED <<settings, pc, cause, status, failure>>
      BY <1>7 DEF BeginTests, RequestedEvaluation, RequestFrame
    <2> QED
      BY <1>0, <2>1
  <1>c. CASE RequestedBaseline \/ RequestedTests
    <2>1. UNCHANGED <<settings, pc, cause, failure>> /\ status' \in {status, "failed"}
      BY <1>c DEF RequestedBaseline, RequestedTests, RequestFrame
    <2> QED
      BY <1>0, <2>1
  <1>a. CASE FinalizeTests
    BY <1>0, <1>a DEF FinalizeTests, RequestFrame
  <1>b. CASE ClassifyTests
    BY <1>0, <1>b DEF ClassifyTests, RequestFrame
  <1>8. CASE ReadFailure
    BY <1>0, <1>8 DEF ReadFailure, RequestFrame, PhaseCategory
  <1>9. CASE Crash \/ UNCHANGED vars
    BY <1>0, <1>9 DEF Crash, vars
  <1> QED
    BY <1>1, <1>2, <1>3, <1>4, <1>5, <1>6, <1>7, <1>8, <1>9, <1>a, <1>b, <1>c
    DEF Next, RunStep, RequestStep, Terminated

LEMMA TestsTypedStep ==
  ASSUME Typed, [Next]_vars
  PROVE  TestsTyped'
  <1> USE DEF Elsewhere, WritesNothing, MarkStatus, ClassifyAs, StoreMetric,
              selectionVars, testVars
  <1>0. /\ TestsTyped /\ limit' = limit /\ limit \in Nat /\ Loop!Best \in 0..limit
        /\ choice \in 0..limit /\ request.patch \in 0..limit
        /\ Metric \in MetricType
    BY TypedParts, LoopTypeStep, BestIsAttempt, MetricTyped DEF LoopTypeOK, RequestTyped
  <1> USE DEF TestsTyped
  <1>1. CASE Start \/ StartRefused \/ Prepare \/ ClassifySetup \/ Baseline \/ Index
    BY <1>0, <1>1 DEF Start, StartRefused, Prepare, ClassifySetup, Baseline, Index
  <1>2. CASE Setup
    BY <1>0, <1>2 DEF Setup
  <1>3. CASE SubmitAttempt \/ AgentRunsTests \/ TestAttempt \/ JudgeAttempt \/ GiveUp
             \/ RestorePatch
    BY <1>0, <1>3 DEF SubmitAttempt, AgentRunsTests, TestAttempt, JudgeAttempt, GiveUp,
                      RestorePatch, LoopFrame
  <1>4. CASE SelectPatch
    BY <1>0, <1>4 DEF SelectPatch, TestsOf
  <1>5. CASE CheckQuality \/ HiddenRefused \/ RunHiddenTests \/ NoHiddenTests \/ Close
             \/ Complete
    BY <1>0, <1>5 DEF CheckQuality, HiddenRefused, RunHiddenTests, NoHiddenTests, Close,
                      Complete
  <1>6. CASE Evaluate \/ Fail \/ Classify \/ EvaluateFailed
    BY <1>0, <1>6 DEF Evaluate, Fail, Classify, EvaluateFailed
  <1>7. CASE EvaluateInBatch
    BY <1>0, <1>7 DEF EvaluateInBatch
  <1>8. CASE RequestedBaseline \/ RequestedTests \/ ClassifyTests
    BY <1>0, <1>8 DEF RequestedBaseline, RequestedTests, ClassifyTests
  <1>9. CASE FinalizeTests
    BY <1>0, <1>9 DEF FinalizeTests
  <1>10. CASE BeginTests \/ RequestedEvaluation \/ ReadFailure
    BY <1>0, <1>10 DEF BeginTests, RequestedEvaluation, ReadFailure
  <1>11. CASE Crash \/ UNCHANGED vars
    BY <1>0, <1>11 DEF Crash, vars
  <1> QED
    BY <1>1, <1>2, <1>3, <1>4, <1>5, <1>6, <1>7, <1>8, <1>9, <1>10, <1>11
    DEF Next, RunStep, RequestStep, Terminated

LEMMA NextTyped == Typed /\ [Next]_vars => Typed'
  <1> SUFFICES ASSUME Typed, [Next]_vars PROVE Typed'
    OBVIOUS
  <1>1. (LoopTypeOK /\ settings \in SettingsType
          /\ RowsTyped /\ RequestTyped /\ RunTyped /\ TestsTyped)'
    BY LoopTypeStep, RowsTypedStep, RequestTypedStep, RunTypedStep, TestsTypedStep
    DEF Typed, TypeOK
  <1> QED
    BY <1>1, TypedPartsNext

-----------------------------------------------------------------------------
(* Every failure is classified.                                            *)

LEMMA ClassifiedStep ==
  ASSUME ClassifiedInv, [Next]_vars
  PROVE  Classified'
  <1> USE DEF Classified, Elsewhere, WritesNothing, MarkStatus, ClassifyAs, StoreMetric,
              Go, Raise, requestVars
  <1>0. Classified /\ NoRequest.stage = "none"
        /\ failedPhases \subseteq {"setup", "baseline", "post_patch"}
    BY DEF ClassifiedInv, NoRequest, Typed, TypeOK
  <1>1. CASE Start \/ StartRefused \/ Prepare \/ ClassifySetup \/ Baseline \/ Index
    BY <1>0, <1>1 DEF Start, StartRefused, Prepare, ClassifySetup, Baseline, Index
  <1>2. CASE Setup
    BY <1>0, <1>2 DEF Setup
  <1>3. CASE SubmitAttempt \/ AgentRunsTests \/ TestAttempt \/ JudgeAttempt \/ GiveUp
             \/ SelectPatch \/ RestorePatch
    BY <1>0, <1>3 DEF SubmitAttempt, AgentRunsTests, TestAttempt, JudgeAttempt, GiveUp,
                      SelectPatch, RestorePatch, LoopFrame
  <1>4. CASE CheckQuality \/ HiddenRefused \/ RunHiddenTests \/ NoHiddenTests \/ Close
             \/ Complete
    BY <1>0, <1>4 DEF CheckQuality, HiddenRefused, RunHiddenTests, NoHiddenTests, Close,
                      Complete
  <1>5. CASE Evaluate \/ Fail \/ Classify \/ EvaluateFailed
    BY <1>0, <1>5 DEF Evaluate, Fail, Classify, EvaluateFailed, Finished
  <1>6. CASE EvaluateInBatch
    BY <1>0, <1>6 DEF EvaluateInBatch
  <1>7. CASE RequestedBaseline \/ RequestedTests \/ FinalizeTests
    <2>a. request.stage \in {"run", "finalize"}
      BY <1>7 DEF RequestedBaseline, RequestedTests, FinalizeTests
    <2>1. request.stage # "classify" /\ request \in RequestType
      BY <1>0, <2>a DEF ClassifiedInv, Typed, TypeOK
    <2>0. UNCHANGED <<pc, cause, failure>>
      BY <1>7 DEF RequestedBaseline, RequestedTests, FinalizeTests, RequestFrame
    <2>2. CASE UNCHANGED status
      BY <1>0, <2>0, <2>1, <2>2
    <2>3. CASE status' # "failed"
      BY <1>0, <2>0, <2>3
    <2>4. CASE request'.stage = "classify"
      BY <1>0, <2>0, <2>4
    <2>5. \A outcome : [request EXCEPT !.stage = "classify", !.outcome = outcome].stage
                         = "classify"
      BY <2>1 DEF RequestType
    <2>6. [request EXCEPT !.stage = "classify"].stage = "classify"
      BY <2>1 DEF RequestType
    <2> QED
      BY <1>7, <2>2, <2>3, <2>4, <2>5, <2>6, ZenonT(30)
      DEF RequestedBaseline, RequestedTests, FinalizeTests
  <1>8. CASE ClassifyTests
    BY <1>0, <1>8 DEF ClassifyTests, RequestFrame
  <1>9. CASE BeginTests \/ RequestedEvaluation \/ ReadFailure
    BY <1>0, <1>9 DEF BeginTests, RequestedEvaluation, ReadFailure, RequestFrame,
                      PhaseCategory, NoRequest
  <1>10. CASE Crash
    BY <1>0, <1>10 DEF Crash
  <1>11. CASE UNCHANGED vars
    BY <1>0, <1>11 DEF vars
  <1> QED
    BY <1>1, <1>2, <1>3, <1>4, <1>5, <1>6, <1>7, <1>8, <1>9, <1>10, <1>11
    DEF Next, RunStep, RequestStep, Terminated

LEMMA NextClassifiedInv == ClassifiedInv /\ [Next]_vars => ClassifiedInv'
  BY NextTyped, ClassifiedStep DEF ClassifiedInv

(* The types of the row hold in every reachable state, whatever requests   *)
(* come, and a failed run without a category is about to get one.          *)
THEOREM RunInductive == Spec => []ClassifiedInv
  <1>1. Init => ClassifiedInv
    BY InitTyped DEF ClassifiedInv, Classified, Init
  <1> QED
    BY <1>1, NextClassifiedInv, PTL DEF Spec

(* The types of the row hold in every reachable state (models/agent_run.py)*)
THEOREM RunTypeCorrect == Spec => []TypeOK
  <1>1. ClassifiedInv => TypeOK
    BY DEF ClassifiedInv, Typed
  <1> QED
    BY <1>1, RunInductive, PTL

(* A run that has ended failed and that no request works on any more has a *)
(* failure category, whichever step of start_run has raised and whatever   *)
(* requests came in between (orchestrator.py, test_execution/service.py).  *)
THEOREM FailuresClassified == Spec => []FailedIsClassified
  <1>1. ClassifiedInv => FailedIsClassified
    BY DEF ClassifiedInv, Classified, FailedIsClassified, Settled, NoRequest
  <1> QED
    BY <1>1, RunInductive, PTL

-----------------------------------------------------------------------------
(* A run that is over.                                                     *)

(* The loop of a run that a request has ended meanwhile is not accepted:   *)
(* an accepted choice is a valid patch, and restoring one is refused.      *)
THEOREM EndedNotAccepted == Spec => EndedIsNotAccepted
  <1> DEFINE Ends == phase # "done" /\ phase' = "done" /\ status \in Terminal
  <1>1. ASSUME ClassifiedInv, [Next]_vars, Ends
        PROVE  result' # "accepted"
    <2>1. LoopTypeOK /\ phase # "done" /\ phase' = "done" /\ ~ExecutionAllowed
      BY <1>1 DEF ClassifiedInv, Typed, ExecutionAllowed, Terminal
    <2>2. CASE RestorePatch
      <3>1. /\ choice' = Loop!Best
            /\ result' = "accepted" => Loop!Earned
        BY <2>2 DEF RestorePatch, Loop!Settle
      <3>2. UNCHANGED verdicts
        BY <2>2 DEF RestorePatch, Loop!Settle
      <3>3. result' = "accepted" => IsValid(choice')
        BY <2>1, <3>1, <3>2, BestIsAttempt DEF IsValid
      <3>4. IsValid(choice') => result' = "failed"
        BY <2>1, <2>2 DEF RestorePatch
      <3> QED
        BY <3>3, <3>4
    <2>3. ~(SubmitAttempt \/ GiveUp \/ JudgeAttempt)
      BY <2>1 DEF SubmitAttempt, GiveUp, JudgeAttempt, Loop!Submit, Loop!GiveUp, Loop!Judge
    <2>4. phase' = phase \/ SubmitAttempt \/ GiveUp \/ JudgeAttempt \/ RestorePatch
      BY <1>1, LoopSteps DEF loopVars
    <2> QED
      BY <2>1, <2>2, <2>3, <2>4
  <1>2. ClassifiedInv /\ [Next]_vars => [Ends => result' # "accepted"]_vars
    BY <1>1
  <1> QED
    BY <1>2, RunInductive, PTL DEF Spec, EndedIsNotAccepted

-----------------------------------------------------------------------------
(* A run that no request interferes with.                                  *)

(* Nobody but start_run and the endpoint for evaluation takes a step.      *)
LEMMA UndisturbedSteps ==
  ASSUME Undisturbed, EarnedInv, [Next]_vars
  PROVE  /\ RunStep \/ RequestedEvaluation \/ Crash \/ UNCHANGED vars
         /\ request' = NoRequest
  <1>0. request = NoRequest /\ NoRequest.kind = "none" /\ NoRequest.stage = "none"
    BY DEF EarnedInv, PlacesAgree, NoRequest
  <1>1. ~RequestStep
    BY <1>0 DEF RequestStep, RequestedBaseline, RequestedTests, FinalizeTests, ClassifyTests
  <1>2. ~BeginTests /\ ~ReadFailure
    BY DEF Undisturbed, BeginTests, ReadFailure
  <1>3. RunStep => UNCHANGED requestVars
    BY DEF RunStep, Start, StartRefused, Prepare, Setup, ClassifySetup, Baseline, Index,
        SubmitAttempt, AgentRunsTests, TestAttempt, JudgeAttempt, GiveUp, SelectPatch,
        RestorePatch, CheckQuality, HiddenRefused, RunHiddenTests, NoHiddenTests, Close,
        Complete, Evaluate, Fail, Classify, EvaluateFailed, EvaluateInBatch,
        Elsewhere, WritesNothing, MarkStatus, ClassifyAs, StoreMetric, LoopFrame
  <1> QED
    BY <1>0, <1>1, <1>2, <1>3
    DEF Next, Terminated, RequestedEvaluation, Crash, requestVars, vars

LEMMA PlacesStep ==
  ASSUME Undisturbed, EarnedInv, [Next]_vars
  PROVE  PlacesAgree'
  <1> USE DEF PlacesAgree, Terminal, Elsewhere, WritesNothing, MarkStatus, ClassifyAs,
              StoreMetric, Go, Raise, requestVars
  <1>0. /\ PlacesAgree /\ request' = NoRequest
        /\ pc \in {"setup_failed", "fail", "classify"} => cause # "none"
    BY UndisturbedSteps DEF EarnedInv, ClassifiedInv, Classified
  <1>1. CASE Start \/ StartRefused \/ Prepare \/ ClassifySetup \/ Baseline \/ Index
    BY <1>0, <1>1 DEF Start, StartRefused, Prepare, ClassifySetup, Baseline, Index
  <1>2. CASE Setup
    BY <1>0, <1>2 DEF Setup
  <1>3. CASE SubmitAttempt \/ AgentRunsTests \/ TestAttempt \/ JudgeAttempt \/ GiveUp
             \/ SelectPatch \/ RestorePatch
    BY <1>0, <1>3 DEF SubmitAttempt, AgentRunsTests, TestAttempt, JudgeAttempt, GiveUp,
                      SelectPatch, RestorePatch, LoopFrame
  <1>4. CASE CheckQuality \/ HiddenRefused \/ RunHiddenTests \/ NoHiddenTests \/ Close
             \/ Complete
    BY <1>0, <1>4 DEF CheckQuality, HiddenRefused, RunHiddenTests, NoHiddenTests, Close,
                      Complete
  <1>5. CASE Evaluate \/ Fail \/ Classify \/ EvaluateFailed
    BY <1>0, <1>5 DEF Evaluate, Fail, Classify, EvaluateFailed, Finished
  <1>6. CASE EvaluateInBatch
    BY <1>0, <1>6 DEF EvaluateInBatch
  <1>7. CASE RequestedEvaluation
    BY <1>0, <1>7 DEF RequestedEvaluation, RequestFrame, EvaluationAllowed
  <1>8. CASE Crash \/ UNCHANGED vars
    BY <1>0, <1>8 DEF Crash, vars
  <1> QED
    BY <1>1, <1>2, <1>3, <1>4, <1>5, <1>6, <1>7, <1>8, UndisturbedSteps DEF RunStep

(* The choice follows from the verdicts.                                   *)
LEMMA BestKept ==
  ASSUME UNCHANGED verdicts
  PROVE  /\ Loop!Best' = Loop!Best
         /\ TestsOf(Loop!Best)' = TestsOf(Loop!Best)
         /\ UNCHANGED fatal => (Loop!Earned' <=> Loop!Earned)
  <1>1. Loop!Best' = Loop!Best
    BY DEF Loop!Best, Loop!LatestOf, Loop!Passed, Loop!Stored
  <1>2. TestsOf(Loop!Best)' = TestsOf(Loop!Best)
    BY <1>1 DEF TestsOf
  <1>3. UNCHANGED fatal => (Loop!Earned' <=> Loop!Earned)
    BY <1>1 DEF Loop!Earned, Loop!Passed
  <1> QED
    BY <1>1, <1>2, <1>3

LEMMA PhasesStep ==
  ASSUME Undisturbed, EarnedInv, [Next]_vars
  PROVE  PhasesAgree'
  <1> USE DEF PhasesAgree, Terminal, Elsewhere, WritesNothing, MarkStatus, ClassifyAs,
              StoreMetric, Go, Raise
  <1>0. PhasesAgree /\ PlacesAgree
    BY DEF EarnedInv
  <1>1. ASSUME UNCHANGED <<verdicts, fatal, phase, choice, result, selected, finalPassed,
                           status>>,
               pc' = pc \/ pc' \in {"fail", "dead", "lost", "classify", "done", "batch",
                                    "evaluate_failed"}
        PROVE  PhasesAgree'
    BY <1>0, <1>1, BestKept
  <1>2. CASE Start \/ StartRefused \/ Prepare \/ Setup \/ ClassifySetup \/ Baseline \/ Index
    <2>1. UNCHANGED <<verdicts, fatal, phase, choice, result, selected, finalPassed>>
      BY <1>2 DEF Start, StartRefused, Prepare, Setup, ClassifySetup, Baseline, Index,
                  loopVars, selectionVars
    <2>2. /\ phase = "open" /\ selected = 0 /\ status # "completed"
          /\ pc' \in {"prepare", "setup", "setup_failed", "baseline", "index", "loop",
                      "fail", "batch"}
          /\ status' # "completed"
      BY <1>0, <1>2 DEF Start, StartRefused, Prepare, Setup, ClassifySetup, Baseline,
                        Index, PlacesAgree
    <2> QED
      BY <2>1, <2>2
  <1>3. CASE SubmitAttempt \/ AgentRunsTests \/ TestAttempt \/ JudgeAttempt \/ GiveUp
    <2>1. /\ pc = "loop" /\ pc' = "loop" /\ UNCHANGED <<selected, status>>
          /\ phase' # "done"
      BY <1>3 DEF SubmitAttempt, AgentRunsTests, TestAttempt, JudgeAttempt, GiveUp,
                  LoopFrame, loopVars, selectionVars, Loop!Submit, Loop!Judge, Loop!GiveUp
    <2> QED
      BY <1>0, <2>1 DEF PlacesAgree
  <1>4. CASE SelectPatch
    <2>1. /\ pc = "loop" /\ pc' = "restore" /\ UNCHANGED <<status, phase, verdicts>>
          /\ phase = "closed"
          /\ selected' = Loop!Best /\ finalPassed' = TestsOf(Loop!Best)
      BY <1>4 DEF SelectPatch, loopVars
    <2> QED
      BY <1>0, <2>1, BestKept DEF PlacesAgree
  <1>5. CASE RestorePatch
    <2>1. /\ pc = "restore" /\ pc' \in {"quality", "fail"}
          /\ UNCHANGED <<status, selected, finalPassed>>
      BY <1>5 DEF RestorePatch, LoopFrame, selectionVars
    <2>2. /\ phase' = "done" /\ choice' = Loop!Best /\ UNCHANGED <<verdicts, fatal>>
          /\ result' = "accepted" => Loop!Earned
      BY <1>5 DEF RestorePatch, Loop!Settle
    <2> QED
      BY <1>0, <2>1, <2>2, BestKept DEF PlacesAgree
  <1>6. CASE CheckQuality \/ HiddenRefused \/ RunHiddenTests \/ NoHiddenTests \/ Close
             \/ Complete
    <2>1. /\ pc \in {"quality", "hidden", "close", "complete"}
          /\ pc' \in {"hidden", "close", "complete", "evaluate", "fail"}
          /\ UNCHANGED <<verdicts, fatal, phase, choice, result, selected, finalPassed>>
          /\ status' = status \/ (pc = "complete" /\ status' = "completed")
          /\ pc' = "complete" => result = "accepted"
      BY <1>6 DEF CheckQuality, HiddenRefused, RunHiddenTests, NoHiddenTests, Close,
                  Complete, loopVars, selectionVars
    <2> QED
      BY <1>0, <2>1, BestKept DEF PlacesAgree
  <1>7. CASE Evaluate \/ Fail \/ Classify \/ EvaluateFailed \/ EvaluateInBatch
    <2>1. /\ UNCHANGED <<verdicts, fatal, phase, choice, result, selected, finalPassed>>
          /\ status' \in {status, "failed"}
          /\ pc' \in {"fail", "classify", "done", "batch", "evaluate_failed"}
      BY <1>7 DEF Evaluate, Fail, Classify, EvaluateFailed, EvaluateInBatch, Finished,
                  loopVars, selectionVars
    <2> QED
      BY <1>0, <2>1, BestKept
  <1>8. CASE RequestedEvaluation \/ Crash \/ UNCHANGED vars
    BY <1>1, <1>8 DEF RequestedEvaluation, RequestFrame, Crash, vars, loopVars, selectionVars
  <1> QED
    BY <1>2, <1>3, <1>4, <1>5, <1>6, <1>7, <1>8, UndisturbedSteps DEF RunStep

(* A new row joins those of its phase.                                     *)
LEMMA RowAdded ==
  ASSUME NEW row, results' = results \cup {row}
  PROVE  /\ \A p : PhaseRows(p)' = IF row.phase = p THEN PhaseRows(p) \cup {row}
                                   ELSE PhaseRows(p)
         /\ \A i : RowsOf(i)' = IF row.phase = "post_patch" /\ row.attempt = i
                                THEN RowsOf(i) \cup {row} ELSE RowsOf(i)
  BY DEF PhaseRows, RowsOf

LEMMA RowsStep ==
  ASSUME Undisturbed, EarnedInv, [Next]_vars
  PROVE  RowsAgree'
  <1>0. /\ RowsAgree /\ LoopTypeOK /\ Len(verdicts) \in Nat
        /\ DOMAIN verdicts = 1..Len(verdicts)
    BY DEF EarnedInv, ClassifiedInv, Typed, LoopTypeOK
  <1>1. ASSUME PhaseRows("post_patch")' = PhaseRows("post_patch"), UNCHANGED verdicts
        PROVE  RowsAgree'
    <2>1. \A i : RowsOf(i)' = RowsOf(i)
      BY <1>1 DEF RowsOf
    <2> QED
      BY <1>0, <1>1, <2>1 DEF RowsAgree, AllPassed
  <1>2. CASE UNCHANGED <<results, verdicts>>
    <2>1. PhaseRows("post_patch")' = PhaseRows("post_patch")
      BY <1>2 DEF PhaseRows
    <2> QED
      BY <1>1, <1>2, <2>1
  <1>3. CASE Setup \/ Baseline \/ RunHiddenTests
    <2>1. UNCHANGED verdicts
      BY <1>3 DEF Setup, Baseline, RunHiddenTests, Elsewhere, loopVars
    <2>2. \/ UNCHANGED results
          \/ \E p \in {"setup", "baseline", "hidden_eval"}, patch \in Nat,
                outcome \in Outcomes : results' = results \cup {Row(p, patch, 0, outcome)}
      <3>1. choice \in Nat /\ "passed" \in Outcomes /\ "failed" \in Outcomes
        BY <1>0 DEF LoopTypeOK, Outcomes
      <3> QED
        BY <1>3, <3>1 DEF Setup, Baseline, RunHiddenTests
    <2>3. ASSUME NEW p \in {"setup", "baseline", "hidden_eval"}, NEW patch \in Nat,
                 NEW outcome \in Outcomes, results' = results \cup {Row(p, patch, 0, outcome)}
          PROVE  RowsAgree'
      <3>1. Row(p, patch, 0, outcome).phase # "post_patch"
        BY RowTyped
      <3>2. PhaseRows("post_patch")' = PhaseRows("post_patch")
        BY <2>3, <3>1, RowAdded
      <3> QED
        BY <1>1, <2>1, <3>2
    <2> QED
      BY <1>2, <2>1, <2>2, <2>3
  <1>4. ASSUME UNCHANGED verdicts, NEW k \in Nat, k \notin DOMAIN verdicts,
               NEW outcome \in {"passed", "failed"},
               results' = results \cup {Row("post_patch", k, k, outcome)}
        PROVE  RowsAgree'
    <2> DEFINE row == Row("post_patch", k, k, outcome)
    <2>1. row.phase = "post_patch" /\ row.patch = k /\ row.attempt = k
      BY RowTyped DEF Outcomes
    <2> HIDE DEF row
    <2>2. /\ PhaseRows("post_patch")' = PhaseRows("post_patch") \cup {row}
          /\ \A i : RowsOf(i)' = IF i = k THEN RowsOf(i) \cup {row} ELSE RowsOf(i)
      BY <1>4, <2>1, RowAdded DEF row
    <2>3. \A i \in DOMAIN verdicts : RowsOf(i)' = RowsOf(i)
      BY <1>4, <2>2
    <2> QED
      BY <1>0, <1>4, <2>1, <2>2, <2>3 DEF RowsAgree, AllPassed
  <1>5. CASE AgentRunsTests
    <2>1. UNCHANGED verdicts /\ 0 \notin DOMAIN verdicts
      BY <1>0, <1>5 DEF AgentRunsTests, loopVars
    <2> QED
      BY <1>4, <1>5, <2>1 DEF AgentRunsTests
  <1>6. CASE TestAttempt
    <2>1. UNCHANGED verdicts /\ Current \in Nat /\ Current \notin DOMAIN verdicts
      BY <1>0, <1>6 DEF TestAttempt, loopVars, Current
    <2>2. PICK outcome \in {"passed", "failed"} :
            results' = results \cup {Row("post_patch", Current, Current, outcome)}
      BY <1>6 DEF TestAttempt
    <2> QED
      BY <1>4, <2>1, <2>2
  <1>7. CASE JudgeAttempt
    <2>1. /\ UNCHANGED results
          /\ \E v : verdicts' = Append(verdicts, v)
          /\ verdicts'[Current].outcome = "passed" => AllPassed(RowsOf(Current))
          /\ verdicts'[Current].outcome = "untested" => RowsOf(Current) = {}
      BY <1>7 DEF JudgeAttempt, Loop!Judge, testVars
    <2>2. /\ DOMAIN verdicts' = 1..Current
          /\ \A i \in DOMAIN verdicts : verdicts'[i] = verdicts[i]
          /\ \A i \in 1..Current : i = Current \/ i \in DOMAIN verdicts
      BY <1>0, <2>1 DEF Current, LoopTypeOK
    <2>3. /\ \A i : RowsOf(i)' = RowsOf(i)
          /\ PhaseRows("post_patch")' = PhaseRows("post_patch")
      BY <2>1 DEF RowsOf, PhaseRows
    <2>4. \A i \in DOMAIN verdicts' :
            /\ verdicts'[i].outcome = "passed" => AllPassed(RowsOf(i))
            /\ verdicts'[i].outcome = "untested" => RowsOf(i) = {}
      BY <1>0, <2>1, <2>2 DEF RowsAgree
    <2> QED
      BY <1>0, <2>3, <2>4 DEF RowsAgree, AllPassed
  <1>8. CASE \/ Start \/ StartRefused \/ Prepare \/ ClassifySetup \/ Index
             \/ SubmitAttempt \/ GiveUp \/ SelectPatch \/ RestorePatch \/ CheckQuality
             \/ HiddenRefused \/ NoHiddenTests \/ Close \/ Complete
             \/ Evaluate \/ Fail \/ Classify \/ EvaluateFailed \/ EvaluateInBatch
    <2>1. UNCHANGED <<results, verdicts>>
      BY <1>8 DEF Start, StartRefused, Prepare, ClassifySetup, Index, SubmitAttempt,
                  GiveUp, SelectPatch, RestorePatch, CheckQuality,
                  HiddenRefused, NoHiddenTests, Close, Complete, Evaluate, Fail, Classify,
                  EvaluateFailed, EvaluateInBatch, Elsewhere, WritesNothing, MarkStatus,
                  ClassifyAs, StoreMetric, LoopFrame, testVars, loopVars,
                  Loop!Submit, Loop!GiveUp, Loop!Settle
    <2> QED
      BY <1>2, <2>1
  <1>9. CASE RequestedEvaluation \/ Crash \/ UNCHANGED vars
    BY <1>2, <1>9 DEF RequestedEvaluation, RequestFrame, Crash, vars, loopVars, testVars
  <1> QED
    BY <1>3, <1>5, <1>6, <1>7, <1>8, <1>9, UndisturbedSteps DEF RunStep

LEMMA HiddenStep ==
  ASSUME Undisturbed, EarnedInv, [Next]_vars
  PROVE  HiddenAgree'
  <1> DEFINE goesOn == pc \in {"close", "complete", "evaluate"} \/ status = "completed"
             rows == PhaseRows("hidden_eval")
  <1>0. /\ HiddenAgree /\ PlacesAgree /\ PhasesAgree /\ LoopTypeOK
    BY DEF EarnedInv, ClassifiedInv, Typed
  <1>1. ASSUME rows' = rows, UNCHANGED hiddenDone,
               (phase' = phase /\ choice' = choice) \/ phase # "done",
               goesOn' => goesOn \/ rows = {},
               pc' \in {"quality", "hidden"} => pc \in {"quality", "hidden"} \/ rows = {}
        PROVE  HiddenAgree'
    BY <1>0, <1>1 DEF HiddenAgree
  <1>2. ASSUME UNCHANGED results PROVE rows' = rows
    BY <1>2 DEF PhaseRows
  <1>3. CASE Start \/ StartRefused \/ Prepare \/ ClassifySetup \/ Index
    <2>1. UNCHANGED <<results, hiddenDone, phase, choice>>
      BY <1>3 DEF Start, StartRefused, Prepare, ClassifySetup, Index,
                  Elsewhere, WritesNothing, MarkStatus, ClassifyAs, testVars, loopVars
    <2>2. /\ status' \in {status, "running", "failed"}
          /\ pc' \in {"prepare", "setup", "fail", "loop", "batch"}
      BY <1>3 DEF Start, StartRefused, Prepare, ClassifySetup, Index, WritesNothing,
                  MarkStatus, ClassifyAs, Go, Raise
    <2> QED
      BY <1>1, <1>2, <2>1, <2>2
  <1>4. CASE Setup \/ Baseline
    <2>1. /\ UNCHANGED <<hiddenDone, phase, choice>>
          /\ status' \in {status, "failed"}
          /\ pc' \in {"setup_failed", "baseline", "index", "fail"}
      BY <1>4 DEF Setup, Baseline, Elsewhere, loopVars, Go, Raise
    <2>2. \/ UNCHANGED results
          \/ \E p \in {"setup", "baseline"}, outcome \in Outcomes :
               results' = results \cup {Row(p, 0, 0, outcome)}
      <3>1. "passed" \in Outcomes /\ "failed" \in Outcomes
        BY DEF Outcomes
      <3> QED
        BY <1>4, <3>1 DEF Setup, Baseline
    <2>3. ASSUME NEW p \in {"setup", "baseline"}, NEW outcome \in Outcomes,
                 results' = results \cup {Row(p, 0, 0, outcome)}
          PROVE  rows' = rows
      <3>1. Row(p, 0, 0, outcome).phase # "hidden_eval"
        BY RowTyped
      <3> QED
        BY <2>3, <3>1, RowAdded
    <2> QED
      BY <1>1, <1>2, <2>1, <2>2, <2>3
  <1>5. CASE SubmitAttempt \/ JudgeAttempt \/ GiveUp \/ SelectPatch \/ RestorePatch
    <2>1. UNCHANGED <<results, hiddenDone, status>>
      BY <1>5 DEF SubmitAttempt, JudgeAttempt, GiveUp, SelectPatch, RestorePatch,
                  LoopFrame, testVars
    <2>2. pc' \in {pc, "restore", "quality", "fail"} /\ pc \in {"loop", "restore"}
      BY <1>5 DEF SubmitAttempt, JudgeAttempt, GiveUp, SelectPatch, RestorePatch, Go, Raise
    <2>3. phase # "done"
      BY <1>5 DEF SubmitAttempt, JudgeAttempt, GiveUp, SelectPatch, RestorePatch,
                  Loop!Submit, Loop!Judge, Loop!GiveUp, Loop!Settle
    <2>4. rows = {}
      BY <1>0, <2>3 DEF HiddenAgree
    <2> QED
      BY <1>1, <1>2, <2>1, <2>2, <2>3, <2>4
  <1>6. CASE AgentRunsTests \/ TestAttempt
    <2>1. /\ pc = "loop" /\ UNCHANGED <<pc, phase, choice, status, hiddenDone>>
      BY <1>6 DEF AgentRunsTests, TestAttempt, LoopFrame, loopVars
    <2>2. \E k \in Nat, outcome \in Outcomes :
            results' = results \cup {Row("post_patch", k, k, outcome)}
      <3>1. Current \in Nat /\ 0 \in Nat /\ "passed" \in Outcomes /\ "failed" \in Outcomes
        BY <1>0 DEF Outcomes, LoopTypeOK, Current
      <3> QED
        BY <1>6, <3>1 DEF AgentRunsTests, TestAttempt
    <2>3. PICK k \in Nat, outcome \in Outcomes :
            results' = results \cup {Row("post_patch", k, k, outcome)}
      BY <2>2
    <2>4. Row("post_patch", k, k, outcome).phase # "hidden_eval"
      BY RowTyped
    <2>5. rows' = rows
      BY <2>3, <2>4, RowAdded
    <2> QED
      BY <1>1, <2>1, <2>5
  <1>7. CASE RunHiddenTests
    <2>1. /\ pc = "hidden" /\ phase = "done" /\ status # "completed"
          /\ rows = {} /\ UNCHANGED <<phase, choice, status>>
          /\ \/ hiddenDone' = choice /\ pc' = "close"
             \/ pc' = "fail"
      BY <1>0, <1>7 DEF RunHiddenTests, Elsewhere, loopVars, Go, Raise, PhasesAgree,
                        PlacesAgree, HiddenAgree
    <2>2. PICK outcome \in {"passed", "failed"} :
            results' = results \cup {Row("hidden_eval", choice, 0, outcome)}
      BY <1>7 DEF RunHiddenTests
    <2> DEFINE row == Row("hidden_eval", choice, 0, outcome)
    <2>3. row.phase = "hidden_eval" /\ row.patch = choice
      BY <1>0, RowTyped, SMTT(30) DEF LoopTypeOK, Outcomes
    <2> HIDE DEF row
    <2>4. rows' = {row}
      BY <2>1, <2>2, <2>3, RowAdded DEF row
    <2> QED
      BY <2>1, <2>3, <2>4 DEF HiddenAgree
  <1>8. CASE CheckQuality \/ HiddenRefused \/ NoHiddenTests \/ Close \/ Complete
    <2>1. UNCHANGED <<results, hiddenDone, phase, choice>>
      BY <1>8 DEF CheckQuality, HiddenRefused, NoHiddenTests, Close, Complete,
                  Elsewhere, WritesNothing, MarkStatus, testVars, loopVars
    <2>2. \/ pc \in {"quality", "hidden"} /\ status' = status
             /\ pc' \in {"hidden", "close", "fail"}
          \/ pc = "close" /\ pc' \in {"complete", "fail"} /\ status' = status
          \/ pc = "complete" /\ pc' = "evaluate"
      BY <1>8 DEF CheckQuality, HiddenRefused, NoHiddenTests, Close, Complete,
                  WritesNothing, Go, Raise
    <2>3. pc \in {"quality", "hidden"} => rows = {}
      BY <1>0 DEF HiddenAgree
    <2> QED
      BY <1>1, <1>2, <2>1, <2>2, <2>3
  <1>9. CASE Evaluate \/ Fail \/ Classify \/ EvaluateFailed \/ EvaluateInBatch
    <2>1. UNCHANGED <<results, hiddenDone, phase, choice>>
      BY <1>9 DEF Evaluate, Fail, Classify, EvaluateFailed, EvaluateInBatch,
                  Elsewhere, WritesNothing, MarkStatus, ClassifyAs, StoreMetric,
                  testVars, loopVars
    <2>2. /\ status' \in {status, "failed"}
          /\ pc' \in {"fail", "classify", "evaluate_failed", "batch", "done"}
      BY <1>9 DEF Evaluate, Fail, Classify, EvaluateFailed, EvaluateInBatch, Finished,
                  WritesNothing, MarkStatus, ClassifyAs, StoreMetric, Go, Raise
    <2> QED
      BY <1>1, <1>2, <2>1, <2>2
  <1>10. CASE RequestedEvaluation \/ Crash \/ UNCHANGED vars
    <2>1. /\ UNCHANGED <<results, hiddenDone, phase, choice, status>>
          /\ pc' \in {pc, "lost", "dead"}
      BY <1>10 DEF RequestedEvaluation, RequestFrame, Crash, vars, loopVars, testVars
    <2> QED
      BY <1>1, <1>2, <2>1
  <1> QED
    BY <1>3, <1>4, <1>5, <1>6, <1>7, <1>8, <1>9, <1>10, UndisturbedSteps DEF RunStep

LEMMA MetricsPaidStep ==
  ASSUME Undisturbed, EarnedInv, [Next]_vars
  PROVE  MetricsPaid'
  <1> USE DEF MetricsPaid, Elsewhere, WritesNothing, MarkStatus, ClassifyAs, StoreMetric,
              Go, Raise, Terminal, selectionVars
  <1>0. /\ MetricsPaid /\ PlacesAgree /\ PhasesAgree /\ Metric # NoMetric
        /\ settings' = settings
    BY MetricTyped, RunTypedStep DEF EarnedInv, ClassifiedInv
  <1>1. CASE pc' \notin {"batch", "done"}
    BY <1>1
  <1>2. CASE StartRefused
    BY <1>0, <1>2 DEF StartRefused, PhasesAgree
  <1>3. CASE Evaluate
    BY <1>0, <1>3 DEF Evaluate
  <1>4. CASE Classify
    BY <1>0, <1>4 DEF Classify, PlacesAgree, Finished
  <1>5. CASE EvaluateFailed
    BY <1>0, <1>5 DEF EvaluateFailed, PlacesAgree, EvaluationAllowed, Finished
  <1>6. CASE EvaluateInBatch
    BY <1>0, <1>6 DEF EvaluateInBatch, PlacesAgree, EvaluationAllowed
  <1>7. CASE RequestedEvaluation
    BY <1>0, <1>7 DEF RequestedEvaluation, RequestFrame
  <1>8. CASE UNCHANGED vars
    BY <1>0, <1>8 DEF vars
  <1>9. CASE Crash
    BY <1>1, <1>9 DEF Crash
  <1>10. CASE \/ Start \/ Prepare \/ Setup \/ ClassifySetup \/ Baseline \/ Index
              \/ SubmitAttempt \/ AgentRunsTests \/ TestAttempt \/ JudgeAttempt \/ GiveUp
              \/ SelectPatch \/ RestorePatch \/ CheckQuality \/ HiddenRefused
              \/ RunHiddenTests \/ NoHiddenTests \/ Close \/ Complete \/ Fail
    BY <1>1, <1>10 DEF Start, Prepare, Setup, ClassifySetup, Baseline, Index,
        SubmitAttempt, AgentRunsTests, TestAttempt, JudgeAttempt, GiveUp, SelectPatch,
        RestorePatch, CheckQuality, HiddenRefused, RunHiddenTests, NoHiddenTests, Close,
        Complete, Fail
  <1> QED
    BY <1>2, <1>3, <1>4, <1>5, <1>6, <1>7, <1>8, <1>9, <1>10, UndisturbedSteps DEF RunStep

(* Metrics taken from a completed run are those of its choice: rows of     *)
(* other attempts and of the agent's own test runs do not count.           *)
LEMMA MetricEarned ==
  ASSUME EarnedInv, status = "completed"
  PROVE  Metric.resolved
           <=> verdicts[choice].outcome = "passed" /\ ~HiddenRowsFailed
  <1>0. /\ LoopTypeOK /\ RowsAgree /\ HiddenAgree /\ PhasesAgree
    BY DEF EarnedInv, ClassifiedInv, Typed
  <1>1. /\ phase = "done" /\ result = "accepted" /\ choice = Loop!Best /\ Loop!Earned
        /\ selected = choice /\ finalPassed = TestsOf(choice)
    BY <1>0 DEF PhasesAgree
  <1>2. /\ choice \in DOMAIN verdicts /\ choice # 0
        /\ verdicts[choice].outcome \in {"passed", "untested"}
    BY <1>0, <1>1, BestIsAttempt DEF LoopTypeOK
  <1>3. EvaluatedRows("post_patch") = RowsOf(choice)
    <2>1. {r \in PhaseRows("post_patch") : r.patch = selected} = RowsOf(choice)
      BY <1>0, <1>1 DEF RowsAgree, RowsOf
    <2>2. \A r, other \in RowsOf(choice) : other.attempt <= r.attempt
      <3>1. \A r \in RowsOf(choice) : r.attempt = choice
        BY DEF RowsOf
      <3>2. choice <= choice
        BY <1>0 DEF LoopTypeOK
      <3> QED
        BY <3>1, <3>2
    <2> QED
      BY <1>1, <1>2, <2>1, <2>2 DEF EvaluatedRows
  <1>4. AllPassed(EvaluatedRows("post_patch")) <=> verdicts[choice].outcome = "passed"
    BY <1>0, <1>2, <1>3 DEF RowsAgree, AllPassed
  <1>5. finalPassed # "failed"
    BY <1>1, <1>2 DEF TestsOf
  <1>6. HiddenPassed # "failed" <=> ~HiddenRowsFailed
    <2> DEFINE rows == PhaseRows("hidden_eval")
    <2>1. {r \in rows : r.patch = selected} = rows
      BY <1>0, <1>1 DEF HiddenAgree
    <2>2. rows = {} \/ hiddenDone = selected
      BY <1>0, <1>1 DEF HiddenAgree
    <2>3. HiddenRowsFailed <=> \E r \in rows : r.outcome # "passed"
      BY DEF HiddenRowsFailed
    <2>4. HiddenPassed = IF rows = {} THEN "not_run"
                         ELSE IF AllPassed(rows) THEN "passed" ELSE "failed"
      <3> HIDE DEF rows
      <3> QED
        BY <1>1, <1>2, <2>1, <2>2 DEF HiddenPassed, rows
    <2> HIDE DEF rows
    <2> QED
      BY <2>3, <2>4 DEF AllPassed
  <1> DEFINE post == /\ AllPassed(EvaluatedRows("post_patch"))
                     /\ selected # 0 => finalPassed # "failed"
             resolved == post /\ HiddenPassed # "failed"
  <1>7. Metric.resolved = resolved
    BY Zenon DEF Metric
  <1>8. resolved <=> verdicts[choice].outcome = "passed" /\ ~HiddenRowsFailed
    BY <1>4, <1>5, <1>6
  <1> HIDE DEF resolved
  <1> QED
    BY <1>7, <1>8, Zenon

LEMMA MetricAgreesStep ==
  ASSUME Undisturbed, EarnedInv, [Next]_vars
  PROVE  MetricAgrees'
  <1> USE DEF Elsewhere, WritesNothing, MarkStatus, ClassifyAs, StoreMetric,
              loopVars, testVars
  <1>0. MetricAgrees /\ PlacesAgree /\ MetricsPaid
    BY DEF EarnedInv
  <1>1. CASE status' # "completed" \/ metric' = NoMetric
    BY <1>1 DEF MetricAgrees
  <1>2. ASSUME UNCHANGED <<verdicts, choice, results>>, status = "completed",
               metric' \in {metric, Metric}
        PROVE  MetricAgrees'
    <2>1. /\ (verdicts[choice].outcome)' = verdicts[choice].outcome
          /\ HiddenRowsFailed' <=> HiddenRowsFailed
      BY <1>2 DEF HiddenRowsFailed, PhaseRows
    <2>2. CASE metric' = metric
      BY <1>0, <1>2, <2>1, <2>2 DEF MetricAgrees
    <2>3. CASE metric' = Metric
      BY <1>2, <2>1, <2>3, MetricEarned DEF MetricAgrees
    <2> QED
      BY <1>2, <2>2, <2>3
  <1>3. CASE Evaluate
    <2>1. status = "completed"
      BY <1>0, <1>3 DEF Evaluate, PlacesAgree
    <2> QED
      BY <1>2, <1>3, <2>1 DEF Evaluate
  <1>4. CASE RequestedEvaluation
    BY <1>2, <1>4 DEF RequestedEvaluation, RequestFrame, EvaluationAllowed
  <1>5. CASE EvaluateInBatch
    <2>1. status = "completed" => metric # NoMetric
      BY <1>0, <1>5 DEF EvaluateInBatch, MetricsPaid
    <2>2. CASE status = "completed"
      BY <1>2, <1>5, <2>1, <2>2 DEF EvaluateInBatch
    <2>3. CASE status # "completed"
      BY <1>1, <1>5, <2>3 DEF EvaluateInBatch
    <2> QED
      BY <2>2, <2>3
  <1>6. CASE Fail \/ EvaluateFailed \/ Classify
    BY <1>0, <1>1, <1>6 DEF Fail, EvaluateFailed, Classify, PlacesAgree
  <1>7. CASE Complete
    BY <1>0, <1>1, <1>7 DEF Complete, PlacesAgree
  <1>8. CASE \/ Start \/ StartRefused \/ Prepare \/ Setup \/ ClassifySetup \/ Baseline
             \/ Index \/ SubmitAttempt \/ AgentRunsTests \/ TestAttempt \/ JudgeAttempt
             \/ GiveUp \/ SelectPatch \/ RestorePatch \/ CheckQuality \/ HiddenRefused
             \/ RunHiddenTests \/ NoHiddenTests \/ Close
    <2>1. /\ status' \in {status, "running", "failed"}
          /\ pc \in {"queued", "prepare", "setup", "setup_failed", "baseline", "index",
                     "loop", "restore", "quality", "hidden", "close"}
      BY <1>8 DEF Start, StartRefused, Prepare, Setup, ClassifySetup, Baseline, Index,
        SubmitAttempt, AgentRunsTests, TestAttempt, JudgeAttempt, GiveUp, SelectPatch,
        RestorePatch, CheckQuality, HiddenRefused, RunHiddenTests, NoHiddenTests, Close,
        LoopFrame
    <2> QED
      BY <1>0, <1>1, <2>1 DEF PlacesAgree
  <1>9. CASE Crash \/ UNCHANGED vars
    <2>1. UNCHANGED <<verdicts, choice, results, status, metric>>
      BY <1>9 DEF Crash, vars
    <2> QED
      BY <1>1, <1>2, <2>1
  <1> QED
    BY <1>3, <1>4, <1>5, <1>6, <1>7, <1>8, <1>9, UndisturbedSteps DEF RunStep

LEMMA NextEarnedInv == Undisturbed /\ EarnedInv /\ [Next]_vars => EarnedInv'
  <1> SUFFICES ASSUME Undisturbed, EarnedInv, [Next]_vars PROVE EarnedInv'
    OBVIOUS
  <1> QED
    BY NextClassifiedInv, PlacesStep, PhasesStep, RowsStep, HiddenStep, MetricsPaidStep,
       MetricAgreesStep DEF EarnedInv

LEMMA InitEarnedInv == Init => EarnedInv
  <1> SUFFICES ASSUME Init PROVE EarnedInv
    OBVIOUS
  <1>1. ClassifiedInv
    BY InitTyped DEF ClassifiedInv, Classified, Init
  <1>2. /\ verdicts = <<>> /\ DOMAIN verdicts = {} /\ results = {} /\ pc = "queued"
        /\ status = "queued" /\ phase = "open" /\ selected = 0 /\ metric = NoMetric
        /\ failure = "none" /\ request = NoRequest
    BY DEF Init
  <1>3. \A p : PhaseRows(p) = {}
    BY <1>2 DEF PhaseRows
  <1> QED
    BY <1>1, <1>2, <1>3
    DEF EarnedInv, PlacesAgree, PhasesAgree, RowsAgree, HiddenAgree, MetricsPaid,
        MetricAgrees

(* Without requests that write to the row, everything start_run relies on  *)
(* from one commit to the next holds in every reachable state.             *)
THEOREM EarnedInductive ==
  ASSUME Undisturbed
  PROVE  Spec => []EarnedInv
  <1>1. EarnedInv /\ [Next]_vars => EarnedInv'
    BY NextEarnedInv
  <1> QED
    BY <1>1, InitEarnedInv, PTL DEF Spec

(* A run that nobody interferes with and that ends failed has a failure    *)
(* category, and metrics too if it has a selected patch or belongs to a    *)
(* batch, whichever step of start_run has raised (orchestrator.py).        *)
THEOREM FailuresExplained ==
  ASSUME Undisturbed
  PROVE  Spec => []FailedIsExplained
  <1>1. EarnedInv => FailedIsExplained
    BY DEF EarnedInv, ClassifiedInv, Classified, MetricsPaid, FailedIsExplained, Settled,
           NoRequest
  <1> QED
    BY <1>1, EarnedInductive, PTL

(* Such a run is completed, and its issue called resolved, only for what   *)
(* its chosen attempt has earned (orchestrator.py, evaluation/service.py). *)
THEOREM VerdictsEarned ==
  ASSUME Undisturbed
  PROVE  Spec => []VerdictIsEarned
  <1>1. ASSUME EarnedInv PROVE VerdictIsEarned
    <2>1. TypeOK
      BY <1>1 DEF EarnedInv, ClassifiedInv, Typed
    <2>2. CompletedIsEarned
      BY <1>1 DEF EarnedInv, PlacesAgree, PhasesAgree, MetricsPaid, CompletedIsEarned,
                  Settled
    <2>3. ResolvedIffEarned
      BY <1>1 DEF EarnedInv, MetricsPaid, MetricAgrees, ResolvedIffEarned, Settled
    <2> QED
      BY <2>1, <2>2, <2>3 DEF VerdictIsEarned
  <1>2. EarnedInv => VerdictIsEarned
    BY <1>1
  <1> QED
    BY <1>2, EarnedInductive, PTL

=============================================================================

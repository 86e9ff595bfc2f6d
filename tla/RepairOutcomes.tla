----------------------------- MODULE RepairOutcomes -----------------------------
(***************************************************************************)
(* GET /analytics/repair-outcomes (analytics/repair_outcomes.py) over the  *)
(* runs RepairPromise describes: one run after the other makes its         *)
(* attempts, ends or is lost with its process, and is counted from the     *)
(* rows and events it left, in full or, for runs older than the events,    *)
(* from its test results.  Meanwhile the agent runs tests of its own, and  *)
(* clients store patches, have them tested and have the run evaluated.     *)
(*                                                                         *)
(* A version is 0 for none, the number of the attempt that stored it, or,  *)
(* above these, a client's.                                                *)
(***************************************************************************)
EXTENDS Naturals, Sequences, FiniteSets, SequencesExt, FiniteSetsExt

CONSTANTS
  Limits,    \* values of 1 + max_repair_attempts
  Models,    \* providers and models
  MaxRuns, MaxGiven    \* bounds of the model

OutcomesAssumption ==
  Limits \subseteq Nat \ {0} /\ IsFiniteSet(Models) /\ {MaxRuns, MaxGiven} \subseteq Nat

VARIABLES
  limit, verdicts, phase, fatal, choice, result,   \* those of RepairPromise
  tests,     \* post-patch results of the attempts
  outside,   \* those of no attempt, by the version they are of
  given,     \* versions stored by clients
  picked,    \* version that is selected
  flag,      \* final_patch_passed_tests
  answer,    \* what tests of a client came to, once passed for good (history)
  completed, \* such a request has left the run completed
  evaluated, \* post_patch_tests_passed of the metric, "none" without one
  runs       \* what the runs that are over have stored

Loop == INSTANCE RepairPromise
loopVars == <<limit, verdicts, phase, fatal, choice, result>>
runVars == <<tests, outside, given, picked, flag, answer, completed, evaluated>>
vars == <<loopVars, runVars, runs>>

Failures == {"error", "failed_tests", "invalid_patch"}
Outcomes == Failures \cup {"passed", "untested"}
Results == {"none", "passed", "failed"}
(* What the words of an invalid attempt's summary tell of it.              *)
Words == {"quality", "apply", "other"}

GivenVersions == {Max(Limits) + n : n \in 1..given}
Versions == {i \in DOMAIN verdicts : verdicts[i].stored} \cup GivenVersions

(* Invalid and broken attempts may have come to their tests or not.        *)
ResultsOf(v) ==
  CASE v.outcome = "passed" -> {"passed"}
    [] v.outcome = "failed_tests" -> {"failed"}
    [] v.outcome = "untested" \/ ~v.stored -> {"none"}
    [] OTHER -> Results

(* EvaluationService: with a selected version its rows count, of its       *)
(* attempt if there are such; otherwise every row there is.                *)
PostPatchPassed ==
  IF picked = 0
  THEN LET all == ToSet(tests) \cup Range(outside)
       IN  "passed" \in all /\ "failed" \notin all
  ELSE /\ flag # "failed"
       /\ "passed" = IF picked \in DOMAIN tests /\ tests[picked] # "none"
                     THEN tests[picked] ELSE outside[picked]

(* finish classifies a run by its limit if its best patch does not hold.   *)
LimitIsTheReason ==
  /\ phase = "done" /\ result = "rejected" /\ limit > 1 /\ Len(verdicts) = limit
  /\ choice # 0 => verdicts[choice].outcome \in Failures

(* The row, the patches, the events, the results, the metric and the      *)
(* failure of the current run; "left" are the results of an attempt that   *)
(* was being judged.                                                       *)
Stored(model, events, words, left, classified) ==
  LET begun == Len(verdicts) + IF phase = "judging" THEN 1 ELSE 0
      rows == IF phase = "judging" THEN Append(tests, left) ELSE tests
  IN  [ model |-> model,
        used |-> IF begun = 0 THEN 0 ELSE begun - 1,
        patches |-> Cardinality(Versions), given |-> given,
        events |-> IF events
                   THEN [i \in DOMAIN verdicts |-> <<verdicts[i].outcome, words[i]>>] ELSE <<>>,
        tests |-> rows,
        exhausted |-> \/ events /\ Len(verdicts) = limit
                                /\ Last(verdicts).outcome \in {"failed_tests", "invalid_patch"}
                      \/ classified /\ LimitIsTheReason,
        final |-> flag = "passed", metric |-> evaluated, picked |-> picked, answer |-> answer ]

-----------------------------------------------------------------------------
(* _event_attempt, _derived_failure_category: each failure has one.        *)
Category(outcome, words) ==
  CASE outcome = "failed_tests" -> "post_patch_tests_failed"
    [] outcome = "error" -> "unknown"
    [] outcome = "invalid_patch" -> CASE words = "quality" -> "patch_quality_blocked"
                                      [] words = "apply" -> "patch_apply_failed"
                                      [] OTHER -> "patch_generation_failed"
    [] OTHER -> "none"

(* _legacy_attempts: attempts that have test results, in their order.      *)
LegacyAttempts(run) ==
  LET results == SelectSeq(run.tests, LAMBDA t : t # "none")
  IN  [n \in DOMAIN results |->
         <<IF results[n] = "passed" THEN "passed" ELSE "failed_tests", "other">>]

Attempts(run) == IF run.events # <<>> THEN run.events ELSE LegacyAttempts(run)

Minus1(n) == IF n = 0 THEN 0 ELSE n - 1
RepairAttempts(run) == Max({run.used, Minus1(Len(Attempts(run))), Minus1(run.patches)})

HasRepairs(run) == RepairAttempts(run) > 0
FirstFailed(run) == Attempts(run) # <<>> /\ Attempts(run)[1][1] \in Failures
FirstPassed(run) == Attempts(run) # <<>> /\ Attempts(run)[1][1] = "passed"
FinalPassed(run) == IF run.metric # "none" THEN run.metric = "passed" ELSE run.final
RepairSucceeded(run) == HasRepairs(run) /\ FirstFailed(run) /\ FinalPassed(run)

IndexesOf(P(_)) == {i \in DOMAIN runs : P(runs[i])}
Repaired == IndexesOf(HasRepairs)

(* _metric_set over the runs of a group: numerators and denominators.      *)
MetricSet(group) ==
  [ repairs |-> Cardinality(group),
    attempts |-> MapThenSumSet(LAMBDA i : RepairAttempts(runs[i]), group),
    initiallyFailed |-> Cardinality({i \in group : FirstFailed(runs[i])}),
    succeeded |-> Cardinality({i \in group : FirstFailed(runs[i]) /\ RepairSucceeded(runs[i])}),
    passed |-> Cardinality({i \in group : FinalPassed(runs[i])}),
    exhausted |-> Cardinality({i \in group : runs[i].exhausted}) ]

ByModel == [m \in {runs[i].model : i \in Repaired} |->
              MetricSet({i \in Repaired : runs[i].model = m})]

(* Categories of the first attempts of all runs; of the others of runs     *)
(* with repairs, and of these as a whole.                                  *)
CategoryAt(i, n) == LET a == Attempts(runs[i])[n] IN Category(a[1], a[2])
InitialFailures(category) ==
  Cardinality({i \in DOMAIN runs : FirstFailed(runs[i]) /\ CategoryAt(i, 1) = category})
RepairFailures(category) ==
  Cardinality({<<i, n>> \in Repaired \X (2..Max(Limits)) :
                 n <= Len(Attempts(runs[i])) /\ CategoryAt(i, n) = category})
  + IF category = "max_repair_attempts_reached"
    THEN Cardinality({i \in Repaired : runs[i].exhausted}) ELSE 0

-----------------------------------------------------------------------------
RowType ==
  [ model : Models, used : Nat, patches : Nat, given : 0..MaxGiven,
    events : Seq(Outcomes \X Words), tests : Seq(Results),
    exhausted : BOOLEAN, final : BOOLEAN, metric : Results,
    picked : 0..(Max(Limits) + MaxGiven), answer : Results ]

TypeOK ==
  /\ phase \in {"open", "judging", "closed", "done"} /\ choice \in 0..Len(verdicts)
  /\ Len(verdicts) <= limit /\ limit \in Limits /\ Len(tests) = Len(verdicts)
  /\ given \in 0..MaxGiven /\ picked \in Versions \cup {0}
  /\ {flag, answer, evaluated} \cup ToSet(tests) \cup Range(outside) \subseteq Results
  /\ \A i \in DOMAIN runs : runs[i] \in RowType

Untested == [v \in 0..(Max(Limits) + MaxGiven) |-> "none"]

Init ==
  /\ limit \in Limits /\ Loop!Init /\ runs = <<>>
  /\ tests = <<>> /\ outside = Untested /\ given = 0 /\ picked = 0
  /\ flag = "none" /\ answer = "none" /\ completed = FALSE /\ evaluated = "none"

Working == Len(runs) < MaxRuns

(* A verdict, with the results of its attempt.                             *)
Work ==
  /\ Working /\ Loop!Next /\ phase' # "done"
  /\ IF verdicts' = verdicts THEN tests' = tests
     ELSE \E t \in ResultsOf(Last(verdicts')) : tests' = Append(tests, t)
  /\ UNCHANGED <<outside, given, picked, flag, answer, completed, evaluated, runs>>

(* AgentRepairService.finish *)
Finish ==
  /\ Working /\ Loop!Settle /\ picked' = choice'
  /\ flag' = IF choice' = 0 THEN "none"
             ELSE CASE verdicts[choice'].outcome = "passed" -> "passed"
                    [] verdicts[choice'].outcome \in {"failed_tests", "invalid_patch"} -> "failed"
                    [] OTHER -> "none"
  /\ UNCHANGED <<tests, outside, given, answer, completed, evaluated, runs>>

(* A client stores a patch.                                                *)
Give ==
  /\ Working /\ given < MaxGiven /\ given' = given + 1
  /\ UNCHANGED <<loopVars, tests, outside, picked, flag, answer, completed, evaluated, runs>>

(* Rows of no attempt: of the agent's run_tests, or of a client's request, *)
(* which tests the version the run had when it began, if any.              *)
NewResults(v, passed) ==
  /\ Working /\ v \in Versions \cup {0}
  /\ outside' = [outside EXCEPT ![v] = IF passed /\ @ # "failed" THEN "passed" ELSE "failed"]
  /\ UNCHANGED <<loopVars, tests, given, evaluated, runs>>

Answer(passed) == answer' = IF passed \/ answer = "passed" THEN "passed" ELSE "failed"

RunTests(passed) ==
  /\ NewResults(0, passed) /\ UNCHANGED <<picked, flag, answer, completed>>

(* A request that is still at work, or breaks off.                         *)
TestRows(v, passed) ==
  /\ NewResults(v, passed) /\ Answer(passed) /\ UNCHANGED <<picked, flag, completed>>

(* run_post_patch_tests with finalize_run: the run ends as its tests say.  *)
TestFinal(v, passed) ==
  /\ NewResults(v, passed) /\ Answer(passed)
  /\ picked' = IF v = 0 THEN picked ELSE v
  /\ flag' = (IF passed THEN "passed" ELSE "failed")
  /\ completed' = passed

(* On request for a completed run, and at the end of start_run.            *)
Evaluate ==
  /\ Working /\ (completed \/ (phase \in {"closed", "done"} /\ picked # 0))
  /\ evaluated' = IF PostPatchPassed THEN "passed" ELSE "failed"
  /\ UNCHANGED <<loopVars, tests, outside, given, picked, flag, answer, completed, runs>>

(* The run is over or its process has died: what it stored stays, and      *)
(* another run begins.                                                     *)
End(model, events, left, classified) ==
  /\ Working /\ (classified => LimitIsTheReason)
  /\ left # "none" => phase = "judging"
  /\ \E words \in [DOMAIN verdicts -> Words] :
       /\ \A i \in DOMAIN verdicts :
            words[i] # "other" => events /\ verdicts[i].outcome = "invalid_patch"
       /\ runs' = Append(runs, Stored(model, events, words, left, classified))
  /\ limit' \in Limits /\ verdicts' = <<>> /\ phase' = "open" /\ fatal' = FALSE
  /\ choice' = 0 /\ result' = "none"
  /\ tests' = <<>> /\ outside' = Untested /\ given' = 0 /\ picked' = 0
  /\ flag' = "none" /\ answer' = "none" /\ completed' = FALSE /\ evaluated' = "none"

Terminated == Len(runs) = MaxRuns /\ UNCHANGED vars

Next ==
  \/ Work \/ Finish \/ Give \/ Evaluate
  \/ \E passed \in BOOLEAN :
       \/ RunTests(passed)
       \/ \E v \in Versions \cup {0} : TestRows(v, passed) \/ TestFinal(v, passed)
  \/ \E m \in Models, t \in Results, events, classified \in BOOLEAN : End(m, events, t, classified)
  \/ Terminated

Spec == Init /\ [][Next]_vars

-----------------------------------------------------------------------------
(* Properties *)

(* A repair counts as a success only if its first attempt failed and,      *)
(* unless a client's tests have passed, an attempt passed its tests: the   *)
(* selected one if no client had any run, and a later one than the first   *)
(* if clients stored no patches, which count as repairs                    *)
(* (_RunOutcome.repair_succeeded, EvaluationService.evaluate).             *)
SuccessIsEarned ==
  \A i \in DOMAIN runs :
    RepairSucceeded(runs[i]) =>
      /\ ~FirstPassed(runs[i])
      /\ runs[i].answer # "passed" =>
           \E k \in DOMAIN runs[i].tests :
             /\ runs[i].tests[k] = "passed" /\ (k > 1 \/ runs[i].given > 0)
             /\ runs[i].answer = "none" => k = runs[i].picked

(* A run that is counted from its test results alone succeeds only if its  *)
(* events would have said so (_legacy_attempts): the fallback loses        *)
(* attempts without results but invents no success.                        *)
LegacyAgrees ==
  \A t \in IF phase = "judging" THEN Results ELSE {"none"} :
    LET words == [i \in DOMAIN verdicts |-> "other"]
        Row(events) == Stored(CHOOSE m \in Models : TRUE, events, words, t, FALSE)
        old == Row(FALSE)
        new == Row(TRUE)
    IN  /\ RepairSucceeded(old) => RepairSucceeded(new)
        /\ FirstFailed(old) => FirstFailed(new)
        /\ RepairAttempts(old) <= RepairAttempts(new)

(* Every number of a group is of its runs with repairs, successes are      *)
(* among the runs that passed in the end, and the rows of the models add   *)
(* up to the whole (_metric_set).                                          *)
RatesAreFractions ==
  LET all == MetricSet(Repaired)
  IN  /\ all.succeeded <= all.initiallyFailed /\ all.succeeded <= all.passed
      /\ all.initiallyFailed <= all.repairs /\ all.passed <= all.repairs
      /\ all.exhausted <= all.repairs
      /\ \A f \in DOMAIN all :
           MapThenSumSet(LAMBDA m : ByModel[m][f], DOMAIN ByModel) = all[f]

(* Every failed attempt of a run with repairs has one category, that of    *)
(* the first attempt in one table and that of the others in the other,     *)
(* which has one more of each run that used up its attempts                *)
(* (build_repair_outcome_analytics).                                       *)
Categories ==
  {"post_patch_tests_failed", "unknown", "patch_generation_failed", "patch_apply_failed",
   "patch_quality_blocked", "max_repair_attempts_reached"}
EveryFailureHasItsCategory ==
  LET failed(i) ==
        Cardinality({n \in DOMAIN Attempts(runs[i]) : Attempts(runs[i])[n][1] \in Failures})
      firsts == {i \in DOMAIN runs : FirstFailed(runs[i])}
  IN  /\ MapThenSumSet(InitialFailures, Categories) = Cardinality(firsts)
      /\ MapThenSumSet(RepairFailures, Categories) + Cardinality(firsts \cap Repaired)
           = MapThenSumSet(failed, Repaired) + MetricSet(Repaired).exhausted

-----------------------------------------------------------------------------
(* Statements of the documentation that the code does not keep.            *)

(* docs/analytics.md: a success is a run "with at least one retry whose    *)
(* final selected patch passed visible post-patch tests".                  *)
SelectedPatchPassed ==
  \A i \in DOMAIN runs : RepairSucceeded(runs[i]) => runs[i].picked # 0

(* docs/analytics.md: runs with repairs are those "that made at least one  *)
(* additional submission after the first".                                 *)
RepairsAreSubmissions == \A i \in Repaired : runs[i].used > 0
=============================================================================

----------------------------- MODULE FlakinessCheck -----------------------------
(***************************************************************************)
(* FlakinessCheckService.run (flakiness/service.py): the tests of a task   *)
(* are repeated in one sandbox run (module SandboxRun), the flat list of   *)
(* their results is cut into repetitions, and a status is derived.         *)
(***************************************************************************)
EXTENDS SandboxRun

VARIABLE check   \* the stored FlakinessCheck, or NoCheck

checkVars == <<runVars, check>>

NoCheck == [status |-> "none"]

CheckStatuses == {"stable", "flaky", "failed_setup", "inconclusive"}

CheckTypeOK ==
  /\ RunTypeOK
  /\ \/ check = NoCheck
     \/ /\ check.status \in CheckStatuses
        /\ check.groups \in Seq(Seq(ResultType))
        /\ check.outcomes \in Seq(BOOLEAN)

CheckInit == RunInit /\ check = NoCheck

-----------------------------------------------------------------------------
(* _group_repetitions.                                                     *)

Flat == [i \in DOMAIN tests |-> tests[i].result]

Groups ==
  LET n == request.commands
      count == (Len(Flat) + n - 1) \div n IN
  [r \in 1..(IF count < request.repetitions THEN count ELSE request.repetitions) |->
     SubSeq(Flat, (r - 1) * n + 1, IF r * n < Len(Flat) THEN r * n ELSE Len(Flat))]

Outcomes ==
  [r \in DOMAIN Groups |->
     /\ Len(Groups[r]) = request.commands
     /\ \A i \in DOMAIN Groups[r] : Groups[r][i] = "passed"]

Different(outcomes) == \E r, s \in DOMAIN outcomes : outcomes[r] # outcomes[s]

(* _status.  Mutant: an error does not matter once there are outcomes.     *)
StatusOptimistic ==
  IF response = "setup_failed" THEN "failed_setup"
  ELSE IF response \in {"clone_failed", "checkout_failed"} \/ Outcomes = <<>>
  THEN "inconclusive"
  ELSE IF Different(Outcomes) THEN "flaky"
  ELSE IF Len(Outcomes) < request.repetitions THEN "inconclusive"
  ELSE "stable"

Status ==
  IF response = "setup_failed" THEN "failed_setup"
  ELSE IF response \in {"clone_failed", "checkout_failed", "sandbox_error"}
            \/ Outcomes = <<>>
  THEN "inconclusive"
  ELSE IF Different(Outcomes) THEN "flaky"
  ELSE IF Len(Outcomes) < request.repetitions THEN "inconclusive"
  ELSE "stable"

(* The check and its runs are committed together.                          *)
Record ==
  /\ stage = "over" /\ ~escaped /\ check = NoCheck
  /\ check' = [status |-> Status, groups |-> Groups, outcomes |-> Outcomes]
  /\ UNCHANGED runVars

CheckEnded ==
  /\ stage = "over" /\ (escaped \/ check # NoCheck)
  /\ UNCHANGED checkVars

CheckNext ==
  \/ RunNext /\ UNCHANGED check
  \/ Record \/ CheckEnded

CheckSpec == CheckInit /\ [][CheckNext]_checkVars

-----------------------------------------------------------------------------
(* Properties.                                                             *)

ResultsOf(r) == {tests[i].result : i \in {j \in DOMAIN tests : tests[j].repetition = r}}

(* The slices of the flat list are the repetitions as they were run: a     *)
(* loop that goes on behind an incomplete repetition would shift all that  *)
(* follow (run of sandbox/runner.py against _group_repetitions).           *)
SlicesAreRepetitions ==
  check # NoCheck =>
    /\ Len(check.groups) =
         Cardinality({tests[i].repetition : i \in DOMAIN tests})
    /\ \A r \in DOMAIN check.groups : {check.groups[r][i] : i \in DOMAIN check.groups[r]} = ResultsOf(r)

(* Flaky: one repetition passed with all its commands, another one did not,*)
(* and no command ended with an error of the sandbox.                      *)
FlakyIsWitnessed ==
  check.status = "flaky" =>
    /\ \E r \in 1..request.repetitions :
         Cardinality({i \in DOMAIN tests :
           tests[i].repetition = r /\ tests[i].result = "passed"}) = request.commands
    /\ \E i \in DOMAIN tests : tests[i].result # "passed"
    /\ "error" \notin TestResults

(* Stable: all repetitions were begun, and all passed or none did.         *)
StableIsComplete ==
  check.status = "stable" =>
    /\ \A r \in 1..request.repetitions : ResultsOf(r) # {}
    /\ \/ TestResults = {"passed"}
       \/ \A r \in 1..request.repetitions : ResultsOf(r) # {"passed"}
    /\ "error" \notin TestResults

(* A verdict rests on whole repetitions that were run: flaky on one that   *)
(* passed and one that did not, stable on all of them, passed on every     *)
(* command; and what a sandbox leaves behind is reported (run of           *)
(* sandbox/runner.py with run of flakiness/service.py).                    *)
VerdictsAreWitnessed ==
  /\ CheckTypeOK /\ LeftoversAreReported /\ PassedIsComplete
  /\ SlicesAreRepetitions /\ FlakyIsWitnessed /\ StableIsComplete

-----------------------------------------------------------------------------
(* Statements of the documentation.                                        *)

(* "setup failure and infrastructure failures are reported separately"     *)
(* (docs/benchmark-validation.md): a command that Docker failed to run     *)
(* makes no check flaky.                                                   *)
InfrastructureIsSeparate ==
  check.status = "flaky" =>
    \E i \in DOMAIN tests : tests[i].result \in {"failed", "timed_out"}

=============================================================================

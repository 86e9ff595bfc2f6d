----------------------------- MODULE AgentRepair -----------------------------
(***************************************************************************)
(* AgentRepairService (agents/repairs.py) with the part of PatchService    *)
(* (patches/service.py) it stands on: the stored patch versions of a run,  *)
(* the record of the submission attempts, the verdict on each of them and  *)
(* the final selection.  The operators here describe single steps; module  *)
(* AgentLoop puts them into the order the loop runs them in.               *)
(*                                                                         *)
(* The workspace is represented by its unified diff against the base       *)
(* commit, an element of Diffs.                                            *)
(***************************************************************************)
EXTENDS ReasoningGates, Sequences

CONSTANTS
  Diffs,   \* workspace diffs
  NoDiff   \* the empty diff: the workspace equals the base commit

ASSUME DiffsAssumption == NoDiff \in Diffs

VARIABLES
  workspace,     \* the diff git would print now
  patches,       \* stored GeneratedPatch rows; the index is the version
  attempts,      \* one entry per submission attempt; the index is its number
  lastPatch,     \* version of _last_patch, 0 if None
  passingPatch,  \* version of _passing_patch, 0 if None
  requiredAfter, \* attempt whose revisions are _required_after, 0 if None
  selected,      \* version with is_selected, 0 if none
  finalPassed,   \* AgentRun.final_patch_passed_tests
  accepted       \* RepairOutcome.accepted

repairVars == <<workspace, patches, attempts, lastPatch, passingPatch,
                requiredAfter, selected, finalPassed, accepted>>

(* The three values of "passed": True, False, None.                        *)
TestStatus == {"passed", "failed", "not_run"}

(* _outcomes.get(patch.id, (False, None)) is kept with the patch.          *)
PatchType == [text : Diffs, valid : BOOLEAN, tests : TestStatus]

(* The repair_attempt_started and repair_attempt_completed events of one   *)
(* attempt; version is 0 while nothing has been stored for it.             *)
AttemptOutcomes ==
  {"started", "passed", "failed_tests", "untested", "invalid_patch", "error"}

AttemptType ==
  [ hypothesis : Nat, plan : Nat, candidate : Nat,
    version : Nat, tests : TestStatus, outcome : AttemptOutcomes ]

RepairTypeOK ==
  /\ workspace \in Diffs
  /\ patches \in Seq(PatchType)
  /\ attempts \in Seq(AttemptType)
  /\ lastPatch \in 0..Len(patches)
  /\ passingPatch \in 0..Len(patches)
  /\ requiredAfter \in 0..Len(attempts)
  /\ selected \in 0..Len(patches)
  /\ finalPassed \in TestStatus
  /\ accepted \in BOOLEAN

RepairInit ==
  /\ workspace = NoDiff
  /\ patches = <<>>
  /\ attempts = <<>>
  /\ lastPatch = 0
  /\ passingPatch = 0
  /\ requiredAfter = 0
  /\ selected = 0
  /\ finalPassed = "not_run"
  /\ accepted = FALSE

MaxAttempts == 1 + config.maxRepairAttempts

Attempt == Len(attempts)   \* attempt_number

-----------------------------------------------------------------------------
(* Before a call: fresh reasoning is required after failed tests.          *)

CheckAction(tool) ==
  requiredAfter # 0 =>
    LET previous == attempts[requiredAfter]
        current == ReasoningRevisions
    IN  /\ config.requirePlanUpdate => current.plan > previous.plan
        /\ tool = "write_file" /\ config.requireCandidateUpdate
             => current.candidate > previous.candidate
        /\ tool = "submit_patch" /\ config.requireHypothesisUpdate
             => current.hypothesis > previous.hypothesis

AttemptBegun ==
  LET used == ReasoningRevisions
  IN  Append(attempts,
        [ hypothesis |-> used.hypothesis, plan |-> used.plan,
          candidate |-> used.candidate, version |-> 0,
          tests |-> "not_run", outcome |-> "started" ])

-----------------------------------------------------------------------------
(* Patches in the database and in the workspace.                           *)

(* Mutant: a diff equal to the latest version is not stored again.         *)
StoredPatchOnce(text) ==
  IF patches # <<>> /\ patches[Len(patches)].text = text THEN patches
  ELSE Append(patches, [text |-> text, valid |-> FALSE, tests |-> "not_run"])

StoredPatch(text) ==
  Append(patches, [text |-> text, valid |-> FALSE, tests |-> "not_run"])

TextOf(version) == patches[version].text

(* Diffs the workspace may show after git has been asked to have text      *)
(* applied: an empty patch and one that is already there change nothing, a *)
(* clean tree gets exactly the patch; on top of other changes git may merge*)
(* it into any diff (or refuse: the callers have a failing branch too).    *)
AppliedDiffs(text) ==
  IF text = NoDiff \/ workspace = text THEN {workspace}
  ELSE IF workspace = NoDiff THEN {text}
  ELSE Diffs

-----------------------------------------------------------------------------
(* The verdict on the current attempt, once its patch is known to be valid *)
(* or invalid and its tests to have passed, failed or not run.             *)

OutcomeOf(valid, tests) ==
  IF ~valid THEN "invalid_patch"
  ELSE IF tests = "passed" THEN "passed"
  ELSE IF tests = "failed" THEN "failed_tests"
  ELSE "untested"

AttemptsRemain == Attempt < MaxAttempts

(* Mutant: the last attempt does not stop the loop.                        *)
StopAfterVerdict(valid, tests) ==
  \/ valid /\ tests = "not_run"
  \/ valid /\ tests = "passed" /\ config.stopOnFirstPass

StopAfter(valid, tests) ==
  \/ ~AttemptsRemain
  \/ valid /\ tests = "not_run"
  \/ valid /\ tests = "passed" /\ config.stopOnFirstPass

(* Reasoning has to be renewed after failed tests when the loop goes on.   *)
Reconsider(valid, tests) == tests = "failed" /\ ~StopAfter(valid, tests)

(* Mutant: the first failure remains the one to compare with.              *)
NextRequiredFirst(valid, tests) ==
  IF Reconsider(valid, tests) /\ requiredAfter = 0 THEN Attempt
  ELSE IF valid /\ tests # "failed" THEN 0
  ELSE requiredAfter

NextRequired(valid, tests) ==
  IF Reconsider(valid, tests) THEN Attempt
  ELSE IF valid /\ tests # "failed" THEN 0
  ELSE requiredAfter

(* Mutant: the first passing patch is kept.                                *)
NextPassingFirst(version, valid, tests) ==
  IF valid /\ tests = "passed" /\ passingPatch = 0 THEN version ELSE passingPatch

NextPassing(version, valid, tests) ==
  IF valid /\ tests = "passed" THEN version ELSE passingPatch

(* An invalid patch counts as failed, whatever its tests said.             *)
JudgedPatches(version, valid, tests) ==
  IF version = 0 THEN patches
  ELSE [patches EXCEPT ![version].valid = valid,
                       ![version].tests = IF valid THEN tests ELSE "failed"]

Assessed(version, valid, tests) ==
  /\ attempts' = [attempts EXCEPT ![Attempt].version = version,
                                  ![Attempt].tests = tests,
                                  ![Attempt].outcome = OutcomeOf(valid, tests)]
  /\ patches' = JudgedPatches(version, valid, tests)
  /\ passingPatch' = NextPassing(version, valid, tests)
  /\ requiredAfter' = NextRequired(valid, tests)
  /\ candidates' = IF Reconsider(valid, tests) THEN RepairBegun ELSE candidates

-----------------------------------------------------------------------------
(* The final selection.                                                    *)

(* Mutant: the latest candidate wins.                                      *)
FinalPatchLast == lastPatch

FinalPatch == IF passingPatch # 0 THEN passingPatch ELSE lastPatch

FinalIsValid == FinalPatch # 0 /\ patches[FinalPatch].valid

FinalTests == IF FinalPatch = 0 THEN "not_run" ELSE patches[FinalPatch].tests

FatalStop(reason) ==
  reason \notin {"patch_submitted", "max_steps", "max_tool_errors"}

FinalIsAccepted(reason) ==
  FinalIsValid /\ FinalTests # "failed" /\ ~FatalStop(reason)

=============================================================================

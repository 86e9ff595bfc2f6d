------------------------------ MODULE AgentLoop ------------------------------
(***************************************************************************)
(* One agent run from the first model call to the selected patch:          *)
(* AgentLoop.run (agents/loop.py), the repairs it drives (AgentRepair) and *)
(* the gates in front of its tools (ReasoningGates), up to the return of   *)
(* AgentRepairService.finish, while the public patch endpoint may write to *)
(* the same workspace and the same run.                                    *)
(*                                                                         *)
(* The answers of the model are not represented: which tool it calls next, *)
(* with what arguments and whether another call follows in the same        *)
(* response is chosen when the loop gets there.                            *)
(***************************************************************************)
EXTENDS AgentRepair

CONSTANT MaxApiApplies   \* bound on calls of POST /agent-runs/{id}/patch/apply

ASSUME ApiAssumption == MaxApiApplies \in Nat

VARIABLES
  pc,          \* where the run is, see Locations
  modelCalls,  \* model_calls
  steps,       \* len(steps): tool calls carried out or refused
  toolErrors,  \* tool_errors
  stopReason,  \* AgentLoopResult.stop_reason, "none" while the loop runs
  apiApplies   \* calls of the endpoint so far

loopVars == <<pc, modelCalls, steps, toolErrors, stopReason, apiApplies>>
vars == <<gateVars, repairVars, loopVars>>

Terminal == {"returned", "restore_failed"}

Locations ==
  { "generate",   \* head of the while loop
    "tool",       \* a tool call of the response is next
    "store",      \* attempt begun, submit_patch about to read and store the diff
    "check",      \* assess: does the workspace still show the stored patch?
    "test",       \* assess: apply if needed and run the configured tests
    "verify",     \* assess: compare with the workspace again and decide
    "finish",     \* the loop has returned or raised
    "restore",    \* selection committed, workspace to be brought back to it
    "reapply" }   \* other changes undone, selected patch to be applied
  \cup Terminal

StopReasons ==
  {"none", "provider_error", "max_steps", "max_tool_errors", "patch_submitted",
   "unrecoverable_error"}

LoopTypeOK ==
  /\ pc \in Locations
  /\ modelCalls \in Nat
  /\ steps \in Nat
  /\ toolErrors \in Nat
  /\ stopReason \in StopReasons
  /\ apiApplies \in 0..MaxApiApplies

TypeOK == GatesTypeOK /\ RepairTypeOK /\ LoopTypeOK

Init ==
  /\ GatesInit
  /\ RepairInit
  /\ pc = "generate"
  /\ modelCalls = 0
  /\ steps = 0
  /\ toolErrors = 0
  /\ stopReason = "none"
  /\ apiApplies = 0

-----------------------------------------------------------------------------
(* The while loop.                                                         *)

Stop(reason) ==
  /\ pc' = "finish"
  /\ stopReason' = reason

(* The response may or may not hold another tool call.                     *)
Proceed ==
  /\ pc' \in {"tool", "generate"}
  /\ UNCHANGED stopReason

BudgetLeft == modelCalls < config.maxSteps /\ steps < config.maxSteps

CallModel ==
  /\ pc = "generate"
  /\ BudgetLeft
  /\ modelCalls' = modelCalls + 1
  /\ \/ Stop("provider_error")
     \/ Proceed
  /\ UNCHANGED <<gateVars, repairVars, steps, toolErrors, apiApplies>>

(* Both after the while loop and inside a batch that is too long.          *)
StepLimit ==
  /\ \/ pc = "generate" /\ ~BudgetLeft
     \/ pc = "tool" /\ steps >= config.maxSteps
  /\ Stop("max_steps")
  /\ UNCHANGED <<gateVars, repairVars, modelCalls, steps, toolErrors, apiApplies>>

-----------------------------------------------------------------------------
(* Tool calls other than submit_patch.                                     *)

ToolTurn ==
  /\ pc = "tool"
  /\ steps < config.maxSteps
  /\ steps' = steps + 1
  /\ UNCHANGED <<config, modelCalls, apiApplies>>

Succeeded == UNCHANGED toolErrors /\ Proceed

(* Mutant: one error too many is tolerated.                                *)
ErrorLimitExceeded(errors) == errors > config.maxToolErrors

ErrorLimitReached(errors) == errors >= config.maxToolErrors

Failed ==
  /\ toolErrors' = toolErrors + 1
  /\ IF ErrorLimitReached(toolErrors') THEN Stop("max_tool_errors") ELSE Proceed

(* list_files, get_diff and run_tests change nothing the loop reads back.  *)
OtherToolSucceeds ==
  /\ ToolTurn
  /\ Succeeded
  /\ UNCHANGED <<evidence, readable, plan, candidates, hypotheses, repairVars>>

(* An unknown tool, malformed arguments, a tool that raised, or a write or *)
(* a submission refused by MayWrite or MaySubmit.                          *)
ToolFails ==
  /\ ToolTurn
  /\ Failed
  /\ UNCHANGED <<evidence, readable, plan, candidates, hypotheses, repairVars>>

ObserveFiles ==
  /\ ToolTurn
  /\ \E tool \in ObservationTools, files \in SUBSET Files : Observe(tool, files)
  /\ Succeeded
  /\ UNCHANGED <<plan, candidates, hypotheses, repairVars>>

SubmitPlan ==
  /\ ToolTurn
  /\ \E wellFormed \in BOOLEAN, cited \in SUBSET Files :
       plan' = PlanSubmitted(wellFormed, cited)
  /\ IF plan'.accepted THEN Succeeded ELSE Failed
  /\ UNCHANGED <<evidence, readable, candidates, hypotheses, repairVars>>

SubmitCandidates ==
  /\ ToolTurn
  /\ \E wellFormed \in BOOLEAN, ranked \in SUBSET Files \ {{}} :
       IF CandidatesAreAccepted(wellFormed, ranked)
       THEN candidates' = CandidatesSubmitted /\ Succeeded
       ELSE UNCHANGED candidates /\ Failed
  /\ UNCHANGED <<evidence, readable, plan, hypotheses, repairVars>>

(* A submission that does not validate is one of ToolFails.                *)
SubmitHypothesis ==
  /\ ToolTurn
  /\ \E isLive \in BOOLEAN : hypotheses' = HypothesisSubmitted(isLive)
  /\ Succeeded
  /\ UNCHANGED <<evidence, readable, plan, candidates, repairVars>>

MayWrite == CheckAction("write_file") /\ PlanCheckEdit /\ CandidatesCheckEdit

WriteFile ==
  /\ ToolTurn
  /\ MayWrite
  /\ workspace' \in Diffs
  /\ candidates' = EditingStarted
  /\ Succeeded
  /\ UNCHANGED <<evidence, readable, plan, hypotheses, patches, attempts,
                 lastPatch, passingPatch, requiredAfter, selected, finalPassed,
                 accepted>>

-----------------------------------------------------------------------------
(* submit_patch and its assessment.                                        *)

MaySubmit == CheckAction("submit_patch") /\ PlanCheckEdit /\ HypothesisCheckPatch

(* begin_attempt; the step is counted when the tool has returned.          *)
SubmitPatch ==
  /\ pc = "tool"
  /\ steps < config.maxSteps
  /\ MaySubmit
  /\ AttemptsRemain
  /\ attempts' = AttemptBegun
  /\ pc' = "store"
  /\ UNCHANGED <<gateVars, workspace, patches, lastPatch, passingPatch,
                 requiredAfter, selected, finalPassed, accepted,
                 modelCalls, steps, toolErrors, stopReason, apiApplies>>

(* Mutant: the calls left in the response are carried out.                 *)
ConcludeWithinResponse(valid, tests) ==
  /\ toolErrors' = IF valid THEN toolErrors ELSE toolErrors + 1
  /\ IF ErrorLimitReached(toolErrors') THEN Stop("max_tool_errors")
     ELSE IF StopAfter(valid, tests) THEN Stop("patch_submitted")
     ELSE Proceed

(* What the loop makes of the decision: an invalid patch is a tool error,  *)
(* the error limit comes before the decision to stop, and the calls left   *)
(* in the response are skipped.                                            *)
Conclude(valid, tests) ==
  /\ toolErrors' = IF valid THEN toolErrors ELSE toolErrors + 1
  /\ IF ErrorLimitReached(toolErrors') THEN Stop("max_tool_errors")
     ELSE IF StopAfter(valid, tests) THEN Stop("patch_submitted")
     ELSE pc' = "generate" /\ UNCHANGED stopReason

Assess(version, valid, tests) ==
  /\ Assessed(version, valid, tests)
  /\ Conclude(valid, tests)
  /\ UNCHANGED <<config, evidence, readable, plan, hypotheses,
                 selected, finalPassed, accepted, modelCalls, apiApplies>>

(* An error of any other kind ends the run: assess re-raises it.           *)
Break ==
  /\ attempts' = [attempts EXCEPT ![Attempt].outcome = "error"]
  /\ Stop("unrecoverable_error")
  /\ UNCHANGED <<gateVars, workspace, patches, lastPatch, passingPatch,
                 requiredAfter, selected, finalPassed, accepted,
                 modelCalls, apiApplies>>

StorePatch ==
  /\ pc = "store"
  /\ steps' = steps + 1
  /\ patches' = StoredPatch(workspace)
  /\ lastPatch' = Len(patches) + 1
  /\ attempts' = [attempts EXCEPT ![Attempt].version = Len(patches) + 1]
  /\ pc' = "check"
  /\ UNCHANGED <<gateVars, workspace, passingPatch, requiredAfter, selected,
                 finalPassed, accepted, modelCalls, toolErrors, stopReason,
                 apiApplies>>

(* Patch limits, patch quality or the run's state refuse the diff.         *)
StoreRefused ==
  /\ pc = "store"
  /\ steps' = steps + 1
  /\ Assess(0, FALSE, "not_run")
  /\ UNCHANGED <<workspace, lastPatch>>

StoreBreaks ==
  /\ pc = "store"
  /\ steps' = steps + 1
  /\ toolErrors' = toolErrors + 1
  /\ Break

Current == attempts[Attempt]

WorkspaceMatches == workspace = TextOf(Current.version)

CheckWorkspace ==
  /\ pc = "check"
  /\ \/ /\ WorkspaceMatches
        /\ pc' = "test"
        /\ UNCHANGED <<gateVars, patches, attempts, passingPatch, requiredAfter,
                       selected, finalPassed, accepted, modelCalls, toolErrors,
                       stopReason, apiApplies>>
     \/ /\ ~WorkspaceMatches
        /\ Assess(Current.version, FALSE, "not_run")
  /\ UNCHANGED <<workspace, lastPatch, steps>>

TestResults == IF config.runsTests THEN {"passed", "failed"} ELSE {"not_run"}

(* The tests run on a copy in the container; only git apply touches the    *)
(* workspace, and only if somebody else has changed it since the check.    *)
TestPatch ==
  /\ pc = "test"
  /\ workspace' \in AppliedDiffs(TextOf(Current.version))
  /\ \E result \in TestResults :
       attempts' = [attempts EXCEPT ![Attempt].tests = result]
  /\ pc' = "verify"
  /\ UNCHANGED <<gateVars, patches, lastPatch, passingPatch, requiredAfter,
                 selected, finalPassed, accepted, modelCalls, steps, toolErrors,
                 stopReason, apiApplies>>

ApplyRefused ==
  /\ pc = "test"
  /\ Assess(Current.version, FALSE, "not_run")
  /\ UNCHANGED <<workspace, lastPatch, steps>>

VerifyWorkspace ==
  /\ pc = "verify"
  /\ Assess(Current.version, WorkspaceMatches, Current.tests)
  /\ UNCHANGED <<workspace, lastPatch, steps>>

AssessBreaks ==
  /\ pc \in {"check", "test", "verify"}
  /\ Break
  /\ UNCHANGED <<steps, toolErrors>>

-----------------------------------------------------------------------------
(* AgentRepairService.finish and PatchService.restore_candidate.           *)

Finish ==
  /\ pc = "finish"
  /\ selected' = FinalPatch
  /\ finalPassed' = FinalTests
  /\ accepted' = FinalIsAccepted(stopReason)
  /\ pc' = IF FinalIsValid THEN "restore" ELSE "returned"
  /\ UNCHANGED <<gateVars, workspace, patches, attempts, lastPatch, passingPatch,
                 requiredAfter, modelCalls, steps, toolErrors, stopReason,
                 apiApplies>>

RestoreFrame ==
  UNCHANGED <<gateVars, patches, attempts, lastPatch, passingPatch, requiredAfter,
              selected, finalPassed, accepted, modelCalls, steps, toolErrors,
              stopReason, apiApplies>>

(* The tree already shows the selected patch, or is reset to the base.     *)
RestoreUndo ==
  /\ pc = "restore"
  /\ IF workspace = TextOf(selected)
     THEN pc' = "returned" /\ UNCHANGED workspace
     ELSE pc' = "reapply" /\ workspace' = NoDiff
  /\ RestoreFrame

(* Mutant: the result of git apply is not compared with the patch.         *)
RestoreApplyUnverified ==
  /\ pc = "reapply"
  /\ workspace' \in AppliedDiffs(TextOf(selected))
  /\ pc' = "returned"
  /\ RestoreFrame

RestoreApply ==
  /\ pc = "reapply"
  /\ workspace' \in AppliedDiffs(TextOf(selected))
  /\ pc' = IF workspace' = TextOf(selected) THEN "returned" ELSE "restore_failed"
  /\ RestoreFrame

RestoreFails ==
  /\ pc \in {"restore", "reapply"}
  /\ pc' = "restore_failed"
  /\ UNCHANGED workspace
  /\ RestoreFrame

-----------------------------------------------------------------------------
(* POST /agent-runs/{id}/patch/apply from another thread: the patch is     *)
(* applied and, unless storing it fails, becomes the next version.         *)
ApiApply ==
  /\ pc \notin Terminal
  /\ apiApplies < MaxApiApplies
  /\ apiApplies' = apiApplies + 1
  /\ \E text \in Diffs \ {NoDiff} :
       /\ workspace' \in AppliedDiffs(text)
       /\ patches' \in {patches, StoredPatch(text)}
  /\ UNCHANGED <<gateVars, attempts, lastPatch, passingPatch, requiredAfter,
                 selected, finalPassed, accepted, pc, modelCalls, steps,
                 toolErrors, stopReason>>

Terminated == pc \in Terminal /\ UNCHANGED vars

LoopStep ==
  \/ CallModel \/ StepLimit
  \/ OtherToolSucceeds \/ ToolFails \/ ObserveFiles
  \/ SubmitPlan \/ SubmitCandidates \/ SubmitHypothesis
  \/ WriteFile \/ SubmitPatch
  \/ StorePatch \/ StoreRefused \/ StoreBreaks
  \/ CheckWorkspace \/ TestPatch \/ ApplyRefused \/ VerifyWorkspace \/ AssessBreaks
  \/ Finish \/ RestoreUndo \/ RestoreApply \/ RestoreFails

Next == LoopStep \/ ApiApply \/ Terminated

(* The loop is one synchronous call: nothing but the process dying keeps   *)
(* it from its next step.  Nothing obliges a client to call the endpoint.  *)
Spec == Init /\ [][Next]_vars /\ WF_vars(LoopStep)

-----------------------------------------------------------------------------
(* Properties.                                                             *)

(* No budget of the configuration is ever exceeded: model calls, tool      *)
(* calls, tool errors and submission attempts (while conditions and the    *)
(* checks inside the batch, loop.py; begin_attempt and assess, repairs.py).*)
BudgetsRespected ==
  /\ modelCalls <= config.maxSteps
  /\ steps <= config.maxSteps
  /\ toolErrors <= config.maxToolErrors
  /\ Attempt <= MaxAttempts

(* begin_attempt never has to refuse: as long as the loop can reach another*)
(* submit_patch an attempt is left, because assess stops the loop after    *)
(* the last one.                                                           *)
AttemptAlwaysLeft == pc \in {"generate", "tool"} => AttemptsRemain

(* The model sees the assessment of a patch before it acts again: calls    *)
(* that follow submit_patch in a response are skipped, so no response      *)
(* accounts for two attempts.                                              *)
OneSubmissionPerResponse == Attempt <= modelCalls

(* Every invalid patch counts against max_tool_errors, also when the tool  *)
(* call itself has succeeded.                                              *)
InvalidPatchesAreErrors ==
  Cardinality({i \in DOMAIN attempts : attempts[i].outcome = "invalid_patch"})
    <= toolErrors

Settles(i) == attempts[i].outcome \in {"passed", "untested"}

(* Between a failed test run and a later attempt, with no valid passing or *)
(* untested patch in between, the reasoning has been renewed: the later    *)
(* attempt uses a strictly newer hypothesis (and plan) revision, however   *)
(* many invalid or failing attempts lie between the two.                   *)
FreshReasoning ==
  \A i, j \in DOMAIN attempts :
    /\ i < j
    /\ attempts[i].tests = "failed"
    /\ \A k \in i..(j - 1) : ~Settles(k)
    => /\ config.requireHypothesisUpdate
            => attempts[j].hypothesis > attempts[i].hypothesis
       /\ config.requirePlanUpdate => attempts[j].plan > attempts[i].plan

(* While a failed test run has not been answered, the ranking of candidate *)
(* files is open or has been renewed already: nothing is edited against    *)
(* the old ranking, and the gate that asks for a new one can be satisfied. *)
RankingRenewable ==
  (requiredAfter # 0 /\ config.requireCandidateUpdate /\ pc \notin Terminal)
    => \/ ~candidates.editingStarted
       \/ candidates.revision > attempts[requiredAfter].candidate

(* After failed tests the repair rests on new reasoning, and can get it.   *)
ReasoningIsRenewed == FreshReasoning /\ RankingRenewable

(* Once the plan revisions are used up without an accepted plan, the run   *)
(* neither edits nor submits again (planning.py never resets a counter).   *)
PlanLocked ==
  /\ config.requirePlan
  /\ plan.revision > config.maxPlanRevisions
  /\ ~plan.accepted

PlanLockoutIsFinal ==
  [][PlanLocked /\ pc = "tool"
       => PlanLocked' /\ Attempt' = Attempt
          /\ (workspace' # workspace => apiApplies' # apiApplies)]_vars

(* "patch_submitted" is reported only for a reason: the attempts are used  *)
(* up, the patch could not be tested, or it passed and the configuration   *)
(* stops at the first pass.                                                *)
StopsForAReason ==
  stopReason = "patch_submitted"
    => \/ Attempt = MaxAttempts
       \/ Current.outcome = "untested"
       \/ Current.outcome = "passed" /\ config.stopOnFirstPass

PassedAttempts == {i \in DOMAIN attempts : attempts[i].outcome = "passed"}

StoredAttempts == {i \in DOMAIN attempts : attempts[i].version # 0}

IsLatest(version, among) ==
  \E i \in among :
    attempts[i].version = version /\ \A j \in among : j <= i

(* The selected patch is the one of the latest passing attempt, or of the  *)
(* latest attempt that stored a patch, never one a client has applied; and *)
(* final_patch_passed_tests says passed exactly if some attempt passed.    *)
SelectionIsLatest ==
  pc \in Terminal
    => /\ IF PassedAttempts # {} THEN IsLatest(selected, PassedAttempts)
          ELSE IF StoredAttempts # {} THEN IsLatest(selected, StoredAttempts)
          ELSE selected = 0
       /\ finalPassed = "passed" <=> PassedAttempts # {}

(* A passing candidate survives later failures, tool-error and step limits,*)
(* and nothing else than a passing or an untested patch is accepted.       *)
AcceptedIffEarned ==
  pc = "returned"
    => (accepted <=>
          /\ ~FatalStop(stopReason)
          /\ \/ PassedAttempts # {}
             \/ attempts # <<>> /\ Current.outcome = "untested")

(* What a run ends with is earned: its stop reason, its selection, its     *)
(* verdict, and the error count that invalid patches belong to.            *)
OutcomeIsEarned ==
  /\ InvalidPatchesAreErrors
  /\ StopsForAReason
  /\ SelectionIsLatest
  /\ AcceptedIffEarned

(* finish returns an accepted outcome only with the workspace showing the  *)
(* selected patch, whatever the agent or a client did to it meanwhile.     *)
ReturnsSelectedWorkspace ==
  [][(pc' = "returned" /\ pc # "returned" /\ accepted')
       => workspace' = TextOf(selected)']_vars

-----------------------------------------------------------------------------
(* The loop implements the promise: gates, tools, budgets and the client's *)
(* patches are invisible there.                                            *)
JudgedAttempts ==
  IF attempts # <<>> /\ Current.outcome = "started" THEN Attempt - 1 ELSE Attempt

PromisedVerdicts ==
  [i \in 1..JudgedAttempts |->
     [outcome |-> attempts[i].outcome, stored |-> attempts[i].version # 0]]

PromisedPhase ==
  IF pc \in {"generate", "tool"} THEN "open"
  ELSE IF pc \in {"store", "check", "test", "verify"} THEN "judging"
  ELSE IF pc \in Terminal THEN "done" ELSE "closed"

PromisedFatal == stopReason # "none" /\ FatalStop(stopReason)

PromisedChoice ==
  IF pc \in Terminal /\ selected # 0
  THEN CHOOSE i \in DOMAIN attempts : attempts[i].version = selected
  ELSE 0

PromisedResult ==
  IF pc = "restore_failed" THEN "failed"
  ELSE IF pc = "returned" THEN (IF accepted THEN "accepted" ELSE "rejected")
  ELSE "none"

Promise == INSTANCE RepairPromise WITH
  limit <- MaxAttempts,
  verdicts <- PromisedVerdicts,
  phase <- PromisedPhase,
  fatal <- PromisedFatal,
  choice <- PromisedChoice,
  result <- PromisedResult

(* The run ends (within its budgets, whatever the model answers) with the  *)
(* best attempt chosen and a result that its verdicts alone determine.     *)
ImplementsPromise == Promise!Spec

=============================================================================

--------------------------- MODULE AgentLoopProofs ---------------------------
(***************************************************************************)
(* Proofs about AgentLoop for every set of files and diffs, every set of   *)
(* configurations and any number of patches of the client: type            *)
(* correctness, the budgets and the accounting of attempts; what a run     *)
(* ends with; and that the loop implements RepairPromise.                  *)
(***************************************************************************)
EXTENDS AgentLoop, FiniteSetTheorems, TLAPS

Judging == {"store", "check", "test", "verify"}

Working == {"generate", "tool"} \cup Judging

(* An attempt under assessment exists and has its patch once it is stored, *)
(* and only a selected patch is restored.                                  *)
AttemptUnderWay ==
  /\ pc \in Judging => Attempt > 0
  /\ pc \in Judging \ {"store"} => Current.version > 0
  /\ pc \in {"restore", "reapply"} => selected > 0
  /\ \A i \in DOMAIN attempts : attempts[i].version <= Len(patches)

(* What the budgets rest on: inside the loop there is room for one more    *)
(* error, and a tool call is only begun with room for one more step.       *)
RoomLeft ==
  /\ pc \in Working => toolErrors < config.maxToolErrors
  /\ pc = "store" => steps < config.maxSteps
  /\ pc = "tool" => Attempt < modelCalls

IInv ==
  /\ TypeOK
  /\ AttemptUnderWay
  /\ BudgetsRespected
  /\ AttemptAlwaysLeft
  /\ OneSubmissionPerResponse
  /\ RoomLeft

(* Every configuration has its budgets in Nat.                             *)
LEMMA ConfigTypes ==
  ASSUME TypeOK
  PROVE  /\ config.maxSteps \in Nat \ {0}
         /\ config.maxToolErrors \in Nat \ {0}
         /\ config.maxRepairAttempts \in Nat
         /\ config.maxPlanRevisions \in Nat
         /\ MaxAttempts \in Nat
  BY ConfigsAssumption DEF TypeOK, GatesTypeOK, ConfigType, MaxAttempts

(* The initial states satisfy the inductive invariant.                     *)
LEMMA InitIInv == Init => IInv
  <1> SUFFICES ASSUME Init PROVE IInv
    OBVIOUS
  <1>1. TypeOK
    <2>1. GatesTypeOK
      BY DEF Init, GatesInit, GatesTypeOK
    <2>2. RepairTypeOK
      <3>1. patches \in Seq(PatchType) /\ attempts \in Seq(AttemptType)
        BY DEF Init, RepairInit
      <3>2. Len(patches) = 0 /\ Len(attempts) = 0
        BY DEF Init, RepairInit
      <3>3. accepted \in BOOLEAN
        BY Zenon DEF Init, RepairInit
      <3>4. workspace \in Diffs
        BY DiffsAssumption DEF Init, RepairInit
      <3>5. /\ lastPatch \in 0..Len(patches)
            /\ passingPatch \in 0..Len(patches)
            /\ requiredAfter \in 0..Len(attempts)
            /\ selected \in 0..Len(patches)
        BY <3>2 DEF Init, RepairInit
      <3>6. finalPassed \in TestStatus
        BY DEF Init, RepairInit, TestStatus
      <3> QED
        BY <3>1, <3>3, <3>4, <3>5, <3>6, Zenon DEF RepairTypeOK
    <2>3. LoopTypeOK
      BY ApiAssumption DEF Init, LoopTypeOK, Locations, Terminal, StopReasons
    <2> QED
      BY <2>1, <2>2, <2>3 DEF TypeOK
  <1>2. QED
    BY <1>1, ConfigTypes
    DEF Init, RepairInit, IInv, AttemptUnderWay, BudgetsRespected, Attempt,
        AttemptAlwaysLeft, AttemptsRemain, MaxAttempts,
        OneSubmissionPerResponse, RoomLeft, Working, Judging

(* The gates keep their types.                                             *)
LEMMA GatesStep ==
  ASSUME TypeOK, [Next]_vars
  PROVE  GatesTypeOK'
  <1> USE DEF TypeOK, GatesTypeOK
  <1>1. CASE UNCHANGED gateVars
    BY <1>1 DEF gateVars
  <1>2. CASE ObserveFiles
    BY <1>2 DEF ObserveFiles, ToolTurn, Observe
  <1>3. CASE SubmitPlan
    <2>1. PICK wellFormed \in BOOLEAN, cited \in SUBSET Files :
            plan' = PlanSubmitted(wellFormed, cited)
      BY <1>3 DEF SubmitPlan
    <2>2. PlanIsAccepted(wellFormed, cited) \in BOOLEAN
      BY Zenon DEF PlanIsAccepted
    <2>3. plan.revision + 1 \in Nat
      OBVIOUS
    <2>4. plan' \in [revision : Nat, accepted : BOOLEAN]
      BY <2>1, <2>2, <2>3, Zenon DEF PlanSubmitted
    <2> QED
      BY <1>3, <2>4 DEF SubmitPlan, ToolTurn
  <1>4. CASE SubmitCandidates
    BY <1>4 DEF SubmitCandidates, ToolTurn, CandidatesSubmitted
  <1>5. CASE SubmitHypothesis
    BY <1>5 DEF SubmitHypothesis, ToolTurn, HypothesisSubmitted
  <1>6. CASE WriteFile
    BY <1>6 DEF WriteFile, ToolTurn, EditingStarted
  <1>7. ASSUME NEW version, NEW valid, NEW tests, Assess(version, valid, tests)
        PROVE  GatesTypeOK'
    BY <1>7 DEF Assess, Assessed, RepairBegun
  <1> QED
    BY <1>1, <1>2, <1>3, <1>4, <1>5, <1>6, <1>7
    DEF Next, LoopStep, vars, gateVars, CallModel, StepLimit, OtherToolSucceeds,
        ToolFails, ToolTurn, SubmitPatch, StorePatch, StoreRefused, StoreBreaks,
        Break, CheckWorkspace, TestPatch, ApplyRefused, VerifyWorkspace,
        AssessBreaks, Finish, RestoreUndo, RestoreApply, RestoreFails,
        RestoreFrame, ApiApply, Terminated

-----------------------------------------------------------------------------
(* Changing one field of one attempt, or the verdict on one patch, keeps   *)
(* the records and their number.                                           *)
LEMMA AttemptRecorded ==
  ASSUME NEW S \in Seq(AttemptType), NEW k \in 1..Len(S)
  PROVE  /\ \A v \in Nat :
              LET T == [S EXCEPT ![k].version = v]
              IN  /\ T \in Seq(AttemptType)
                  /\ Len(T) = Len(S)
                  /\ \A i \in 1..Len(S) : T[i].version = IF i = k THEN v ELSE S[i].version
         /\ \A t \in TestStatus :
              LET T == [S EXCEPT ![k].tests = t]
              IN  /\ T \in Seq(AttemptType)
                  /\ Len(T) = Len(S)
                  /\ \A i \in 1..Len(S) : T[i].version = S[i].version
         /\ \A o \in AttemptOutcomes :
              LET T == [S EXCEPT ![k].outcome = o]
              IN  /\ T \in Seq(AttemptType)
                  /\ Len(T) = Len(S)
                  /\ \A i \in 1..Len(S) : T[i].version = S[i].version
  <1>1. S[k] \in AttemptType
    OBVIOUS
  <1>2. /\ \A v \in Nat : [S[k] EXCEPT !.version = v] \in AttemptType
        /\ \A t \in TestStatus : [S[k] EXCEPT !.tests = t] \in AttemptType
        /\ \A o \in AttemptOutcomes : [S[k] EXCEPT !.outcome = o] \in AttemptType
    BY <1>1 DEF AttemptType
  <1>3. \A r \in AttemptType :
          /\ [S EXCEPT ![k] = r] \in Seq(AttemptType)
          /\ Len([S EXCEPT ![k] = r]) = Len(S)
          /\ \A i \in 1..Len(S) :
               [S EXCEPT ![k] = r][i] = IF i = k THEN r ELSE S[i]
    OBVIOUS
  <1>4. /\ \A v \in Nat : [S[k] EXCEPT !.version = v].version = v
        /\ \A t \in TestStatus : [S[k] EXCEPT !.tests = t].version = S[k].version
        /\ \A o \in AttemptOutcomes :
             [S[k] EXCEPT !.outcome = o].version = S[k].version
    BY <1>1 DEF AttemptType
  <1> QED
    BY <1>2, <1>3, <1>4

(* An assessment keeps the types of the records it touches.                *)
LEMMA AssessedTypes ==
  ASSUME TypeOK, AttemptUnderWay, Attempt > 0,
         NEW version \in 0..Len(patches), NEW valid \in BOOLEAN,
         NEW tests \in TestStatus, Assessed(version, valid, tests)
  PROVE  /\ attempts' \in Seq(AttemptType)
         /\ Len(attempts') = Len(attempts)
         /\ \A i \in 1..Len(attempts) : attempts'[i].version <= Len(patches)
         /\ patches' \in Seq(PatchType)
         /\ Len(patches') = Len(patches)
         /\ passingPatch' \in 0..Len(patches)
         /\ requiredAfter' \in 0..Len(attempts)
  <1> USE DEF Attempt
  <1>1. /\ attempts \in Seq(AttemptType) /\ patches \in Seq(PatchType)
        /\ Len(attempts) \in 1..Len(attempts)
    BY DEF TypeOK, RepairTypeOK
  <1>2. OutcomeOf(valid, tests) \in AttemptOutcomes
    BY DEF OutcomeOf, AttemptOutcomes
  <1>3. /\ attempts' \in Seq(AttemptType)
        /\ Len(attempts') = Len(attempts)
        /\ \A i \in 1..Len(attempts) : attempts'[i].version <= Len(patches)
    <2> DEFINE k == Len(attempts)
               A == [attempts EXCEPT ![k].version = version]
               B == [A EXCEPT ![k].tests = tests]
               C == [B EXCEPT ![k].outcome = OutcomeOf(valid, tests)]
    <2>1. attempts' = C
      BY DEF Assessed
    <2>2. /\ A \in Seq(AttemptType) /\ Len(A) = k
          /\ \A i \in 1..k : A[i].version <= Len(patches)
      BY <1>1, AttemptRecorded DEF AttemptUnderWay
    <2>3. /\ B \in Seq(AttemptType) /\ Len(B) = k
          /\ \A i \in 1..k : B[i].version = A[i].version
      <3> HIDE DEF A
      <3> QED
        BY <1>1, <2>2, AttemptRecorded
    <2>4. /\ C \in Seq(AttemptType) /\ Len(C) = k
          /\ \A i \in 1..k : C[i].version = B[i].version
      <3> HIDE DEF B
      <3> QED
        BY <1>1, <1>2, <2>3, AttemptRecorded
    <2> HIDE DEF A, B, C
    <2> QED
      BY <2>1, <2>2, <2>3, <2>4
  <1>4. patches' \in Seq(PatchType) /\ Len(patches') = Len(patches)
    <2>1. CASE version = 0
      BY <1>1, <2>1 DEF Assessed, JudgedPatches
    <2>2. CASE version # 0
      <3> DEFINE t == IF valid THEN tests ELSE "failed"
                 q == [patches[version] EXCEPT !.valid = valid]
                 r == [q EXCEPT !.tests = t]
      <3>1. patches[version] \in PatchType
        BY <1>1, <2>2
      <3>2. t \in TestStatus
        BY DEF TestStatus
      <3>3. q \in PatchType
        BY <3>1, Zenon DEF PatchType
      <3>4. r \in PatchType
        <4> HIDE DEF q, t
        <4> QED
          BY <3>2, <3>3, Zenon DEF PatchType
      <3>5. patches' = [patches EXCEPT ![version] = r]
        <4>1. patches' = [patches EXCEPT ![version].valid = valid,
                                         ![version].tests = t]
          BY <2>2, Zenon DEF Assessed, JudgedPatches
        <4> HIDE DEF t
        <4> QED
          BY <1>1, <2>2, <4>1
      <3> HIDE DEF r
      <3> QED
        BY <1>1, <2>2, <3>4, <3>5
    <2> QED
      BY <2>1, <2>2
  <1>5. passingPatch' \in 0..Len(patches)
    BY DEF Assessed, NextPassing, TypeOK, RepairTypeOK
  <1>6. requiredAfter' \in 0..Len(attempts)
    BY <1>1 DEF Assessed, NextRequired, TypeOK, RepairTypeOK
  <1> QED
    BY <1>3, <1>4, <1>5, <1>6

(* Facts about an attempt under assessment.                                *)
LEMMA CurrentTypes ==
  ASSUME TypeOK, AttemptUnderWay, pc \in Judging
  PROVE  /\ Attempt > 0
         /\ Current \in AttemptType
         /\ Current.version \in 0..Len(patches)
         /\ Current.tests \in TestStatus
         /\ pc # "store" => TextOf(Current.version) \in Diffs
  <1>1. Attempt > 0 /\ Attempt \in 1..Len(attempts)
    BY DEF AttemptUnderWay, Attempt, TypeOK, RepairTypeOK
  <1>2. Current \in AttemptType
    BY <1>1 DEF Current, TypeOK, RepairTypeOK
  <1>3. Current.version \in Nat /\ Current.tests \in TestStatus
    BY <1>2 DEF AttemptType
  <1>4. Current.version <= Len(patches)
    BY <1>1 DEF Current, AttemptUnderWay, TypeOK, RepairTypeOK
  <1>5. pc # "store" => patches[Current.version] \in PatchType
    BY <1>3, <1>4 DEF AttemptUnderWay, TypeOK, RepairTypeOK
  <1>6. pc # "store" => TextOf(Current.version) \in Diffs
    BY <1>5 DEF PatchType, TextOf
  <1> QED
    BY <1>1, <1>2, <1>3, <1>4, <1>6 DEF TypeOK, RepairTypeOK

(* An action that assesses does so with a verdict of the right type.       *)
LEMMA AssessTypes ==
  ASSUME TypeOK, AttemptUnderWay, pc \in Judging,
         \/ StoreRefused \/ CheckWorkspace \/ ApplyRefused \/ VerifyWorkspace
  PROVE  \/ CheckWorkspace /\ pc' = "test" /\ UNCHANGED <<repairVars, toolErrors>>
         \/ /\ \E version \in 0..Len(patches), valid \in BOOLEAN, tests \in TestStatus :
                 Assess(version, valid, tests)
            /\ UNCHANGED <<workspace, lastPatch>>
  <1>1. 0 \in 0..Len(patches) /\ "not_run" \in TestStatus
    BY DEF TestStatus, TypeOK, RepairTypeOK
  <1>2. CASE StoreRefused
    BY <1>1, <1>2 DEF StoreRefused
  <1>3. CASE CheckWorkspace
    BY <1>1, <1>3, CurrentTypes DEF CheckWorkspace, repairVars
  <1>4. CASE ApplyRefused
    BY <1>1, <1>4, CurrentTypes DEF ApplyRefused
  <1>5. CASE VerifyWorkspace
    <2>1. WorkspaceMatches \in BOOLEAN
      BY Zenon DEF WorkspaceMatches
    <2> QED
      BY <1>5, <2>1, CurrentTypes, Zenon DEF VerifyWorkspace
  <1> QED
    BY <1>2, <1>3, <1>4, <1>5

(* The repair records keep their types, and the attempt under assessment   *)
(* stays where AttemptUnderWay says.                                       *)
LEMMA RepairStep ==
  ASSUME TypeOK, AttemptUnderWay, [Next]_vars
  PROVE  RepairTypeOK' /\ AttemptUnderWay'
  <1> DEFINE Indices ==
        /\ lastPatch \in 0..Len(patches)
        /\ passingPatch \in 0..Len(patches)
        /\ requiredAfter \in 0..Len(attempts)
        /\ selected \in 0..Len(patches)
         Guarded == Judging \cup {"restore", "reapply"}
  <1>0. /\ attempts \in Seq(AttemptType) /\ patches \in Seq(PatchType)
        /\ Len(attempts) \in Nat /\ Len(patches) \in Nat
        /\ workspace \in Diffs /\ Indices
    BY DEF TypeOK, RepairTypeOK
  <1>a. \A i \in 1..Len(attempts) :
          attempts[i].version \in Nat /\ attempts[i].version <= Len(patches)
    <2>1. \A i \in 1..Len(attempts) : attempts[i] \in AttemptType
      BY <1>0
    <2> QED
      BY <1>0, <2>1, SMTT(30) DEF AttemptType, AttemptUnderWay
  <1>1. CASE UNCHANGED repairVars /\ (pc' = pc \/ pc' \notin Guarded)
    <2>1. UNCHANGED <<workspace, patches, attempts, lastPatch, passingPatch,
                      requiredAfter, selected, finalPassed, accepted>>
      BY <1>1 DEF repairVars
    <2>2. RepairTypeOK'
      BY <2>1, Zenon DEF TypeOK, RepairTypeOK
    <2> QED
      BY <1>1, <2>1, <2>2 DEF AttemptUnderWay, Attempt, Current, Judging
  <1>2. CASE WriteFile
    <2>1. UNCHANGED <<patches, attempts, lastPatch, passingPatch, requiredAfter,
                      selected, finalPassed, accepted>> /\ workspace' \in Diffs
      BY <1>2 DEF WriteFile
    <2>2. pc' \notin Guarded
      BY <1>2 DEF WriteFile, Succeeded, Proceed, Judging
    <2>3. RepairTypeOK'
      BY <2>1, Zenon DEF TypeOK, RepairTypeOK
    <2> QED
      BY <2>1, <2>2, <2>3 DEF AttemptUnderWay, Attempt
  <1>3. CASE SubmitPatch
    <2> DEFINE new == [ hypothesis |-> ReasoningRevisions.hypothesis,
                        plan |-> ReasoningRevisions.plan,
                        candidate |-> ReasoningRevisions.candidate, version |-> 0,
                        tests |-> "not_run", outcome |-> "started" ]
    <2>1. attempts' = Append(attempts, new)
      BY <1>3 DEF SubmitPatch, AttemptBegun
    <2>2. /\ ReasoningRevisions.hypothesis \in Nat
          /\ ReasoningRevisions.plan \in Nat
          /\ ReasoningRevisions.candidate \in Nat
      BY DEF TypeOK, GatesTypeOK, ReasoningRevisions
    <2>3. new \in AttemptType
      BY <2>2 DEF AttemptType, TestStatus, AttemptOutcomes
    <2>4. new.version = 0
      OBVIOUS
    <2>5. /\ attempts' \in Seq(AttemptType) /\ Len(attempts') = Len(attempts) + 1
          /\ \A i \in 1..Len(attempts') : attempts'[i].version <= Len(patches)
      <3> HIDE DEF new
      <3> QED
        BY <1>0, <2>1, <2>3, <2>4 DEF AttemptUnderWay
    <2>6. UNCHANGED <<workspace, patches, lastPatch, passingPatch, requiredAfter,
                      selected, finalPassed, accepted>>
      BY <1>3 DEF SubmitPatch
    <2>7. Indices'
      BY <1>0, <2>5, <2>6
    <2>8. RepairTypeOK'
      <3> HIDE DEF new
      <3> QED
        BY <2>5, <2>6, <2>7, Zenon DEF TypeOK, RepairTypeOK
    <2> QED
      BY <1>0, <1>3, <2>5, <2>6, <2>8 DEF SubmitPatch, AttemptUnderWay, Attempt, Judging
  <1>4. CASE StorePatch
    <2> DEFINE new == [text |-> workspace, valid |-> FALSE, tests |-> "not_run"]
               k == Len(attempts)
    <2>1. k \in 1..Len(attempts)
      BY <1>0, <1>4 DEF StorePatch, AttemptUnderWay, Attempt, Judging
    <2>2. patches' = Append(patches, new)
      BY <1>4 DEF StorePatch, StoredPatch
    <2>3. new \in PatchType
      <3>1. "not_run" \in TestStatus
        BY DEF TestStatus
      <3> QED
        BY <1>0, <3>1, Zenon DEF PatchType
    <2>4. patches' \in Seq(PatchType) /\ Len(patches') = Len(patches) + 1
      <3> HIDE DEF new
      <3> QED
        BY <1>0, <2>2, <2>3
    <2>5. PICK v \in Nat : v = Len(patches) + 1
      BY <1>0
    <2>6. /\ attempts' \in Seq(AttemptType) /\ Len(attempts') = k
          /\ \A i \in 1..k : attempts'[i].version <= Len(patches')
          /\ attempts'[k].version = v
      <3>1. attempts' = [attempts EXCEPT ![k].version = v]
        BY <1>4, <2>5 DEF StorePatch, Attempt
      <3>2. /\ attempts' \in Seq(AttemptType) /\ Len(attempts') = k
            /\ \A i \in 1..k :
                 attempts'[i].version = IF i = k THEN v ELSE attempts[i].version
        BY <1>0, <2>1, <3>1, AttemptRecorded
      <3> HIDE DEF new, k
      <3>3. k \in Nat /\ k \in 1..k
        BY <1>0, <2>1 DEF k
      <3>4. \A i \in 1..k : attempts[i].version \in Nat /\ attempts[i].version <= Len(patches)
        BY <1>a DEF k
      <3> QED
        <4>0. PICK n \in Nat : n = Len(patches)
          BY <1>0
        <4>n. v = n + 1 /\ Len(patches') = n + 1
          BY <2>4, <2>5, <4>0
        <4>1. ASSUME NEW i \in 1..k
              PROVE  attempts'[i].version <= Len(patches')
          <5>1. CASE i = k
            BY <3>2, <4>n, <5>1
          <5>2. CASE i # k
            <6>1. attempts'[i].version = attempts[i].version
              BY <3>2, <5>2
            <6>2. PICK m \in Nat : m = attempts[i].version
              BY <3>4
            <6>3. m <= n
              BY <3>4, <4>0, <6>2
            <6> QED
              BY <4>n, <6>1, <6>2, <6>3
          <5> QED
            BY <5>1, <5>2
        <4>2. attempts'[k].version = v
          BY <3>2, <3>3
        <4> QED
          BY <3>2, <4>1, <4>2
    <2>7. UNCHANGED <<workspace, passingPatch, requiredAfter,
                      selected, finalPassed, accepted>>
      BY <1>4 DEF StorePatch
    <2>8. Indices'
      BY <1>0, <1>4, <2>4, <2>6, <2>7 DEF StorePatch
    <2>9. RepairTypeOK'
      <3> HIDE DEF new, k
      <3> QED
        BY <2>4, <2>6, <2>7, <2>8, Zenon DEF TypeOK, RepairTypeOK
    <2> QED
      BY <1>0, <1>4, <2>1, <2>5, <2>6, <2>9 DEF StorePatch, AttemptUnderWay, Attempt, Current
  <1>5. CASE TestPatch
    <2>1. PICK result \in TestResults :
            attempts' = [attempts EXCEPT ![Attempt].tests = result]
      BY <1>5 DEF TestPatch
    <2>2. result \in TestStatus
      BY <2>1 DEF TestResults, TestStatus
    <2>3. Attempt \in 1..Len(attempts)
      BY <1>0, <1>5 DEF TestPatch, AttemptUnderWay, Attempt, Judging
    <2>4. /\ attempts' \in Seq(AttemptType) /\ Len(attempts') = Len(attempts)
          /\ \A i \in 1..Len(attempts) : attempts'[i].version = attempts[i].version
      BY <1>0, <2>1, <2>2, <2>3, AttemptRecorded
    <2>5. UNCHANGED <<patches, lastPatch, passingPatch, requiredAfter,
                      selected, finalPassed, accepted>>
      BY <1>5 DEF TestPatch
    <2>6. workspace' \in Diffs
      <3>1. TextOf(Current.version) \in Diffs
        BY <1>5, CurrentTypes DEF TestPatch, Judging
      <3> QED
        BY <1>0, <1>5, <3>1 DEF TestPatch, AppliedDiffs
    <2>7. Indices'
      BY <1>0, <2>4, <2>5
    <2>8. RepairTypeOK'
      BY <2>4, <2>5, <2>6, <2>7, Zenon DEF TypeOK, RepairTypeOK
    <2> QED
      BY <1>0, <1>5, <2>3, <2>4, <2>5, <2>8
      DEF TestPatch, AttemptUnderWay, Attempt, Current, Judging
  <1>6. CASE StoreRefused \/ CheckWorkspace \/ ApplyRefused \/ VerifyWorkspace
    <2>1. pc \in Judging
      BY <1>6 DEF StoreRefused, CheckWorkspace, ApplyRefused, VerifyWorkspace, Judging
    <2>2. CASE CheckWorkspace /\ pc' = "test" /\ UNCHANGED repairVars
      <3>1. UNCHANGED <<workspace, patches, attempts, lastPatch, passingPatch,
                        requiredAfter, selected, finalPassed, accepted>>
        BY <2>2 DEF repairVars
      <3>2. RepairTypeOK'
        BY <3>1, Zenon DEF TypeOK, RepairTypeOK
      <3>3. pc = "check"
        BY <2>2 DEF CheckWorkspace
      <3> QED
        BY <2>2, <3>1, <3>2, <3>3 DEF AttemptUnderWay, Attempt, Current, Judging
    <2>3. ASSUME NEW version \in 0..Len(patches), NEW valid \in BOOLEAN,
                 NEW tests \in TestStatus, Assess(version, valid, tests),
                 UNCHANGED <<workspace, lastPatch>>
          PROVE  RepairTypeOK' /\ AttemptUnderWay'
      <3>1. /\ attempts' \in Seq(AttemptType) /\ Len(attempts') = Len(attempts)
            /\ \A i \in 1..Len(attempts) : attempts'[i].version <= Len(patches)
            /\ patches' \in Seq(PatchType) /\ Len(patches') = Len(patches)
            /\ passingPatch' \in 0..Len(patches)
            /\ requiredAfter' \in 0..Len(attempts)
        BY <2>1, <2>3, AssessedTypes, CurrentTypes DEF Assess
      <3>2. UNCHANGED <<workspace, lastPatch, selected, finalPassed, accepted>>
        BY <2>3 DEF Assess
      <3>3. Indices'
        BY <1>0, <3>1, <3>2
      <3>4. RepairTypeOK'
        BY <3>1, <3>2, <3>3, Zenon DEF TypeOK, RepairTypeOK
      <3>5. pc' \in {"generate", "finish"}
        BY <2>3 DEF Assess, Conclude, Stop
      <3> QED
        BY <1>0, <3>1, <3>4, <3>5 DEF AttemptUnderWay, Attempt, Judging
    <2> QED
      BY <1>6, <2>1, <2>2, <2>3, AssessTypes
  <1>7. ASSUME Break, pc \in Judging
        PROVE  RepairTypeOK' /\ AttemptUnderWay'
    <2>1. /\ attempts' = [attempts EXCEPT ![Attempt].outcome = "error"]
          /\ UNCHANGED <<workspace, patches, lastPatch, passingPatch, requiredAfter,
                         selected, finalPassed, accepted>>
      BY <1>7 DEF Break
    <2>2. Attempt \in 1..Len(attempts) /\ "error" \in AttemptOutcomes
      BY <1>0, <1>7 DEF AttemptUnderWay, Attempt, AttemptOutcomes
    <2>3. /\ attempts' \in Seq(AttemptType) /\ Len(attempts') = Len(attempts)
          /\ \A i \in 1..Len(attempts) : attempts'[i].version = attempts[i].version
      BY <1>0, <2>1, <2>2, AttemptRecorded
    <2>4. Indices'
      BY <1>0, <2>1, <2>3
    <2>5. RepairTypeOK'
      BY <1>0, <2>1, <2>3, <2>4, Zenon DEF TypeOK, RepairTypeOK
    <2> QED
      BY <1>0, <1>7, <2>1, <2>2, <2>3, <2>5
      DEF Break, Stop, AttemptUnderWay, Attempt, Judging
  <1>8. CASE Finish
    <2>1. /\ FinalPatch \in 0..Len(patches)
          /\ FinalTests \in TestStatus
      <3>1. FinalPatch \in 0..Len(patches)
        BY <1>0 DEF FinalPatch
      <3>2. CASE FinalPatch = 0
        BY <3>1, <3>2 DEF FinalTests, TestStatus
      <3>3. CASE FinalPatch # 0
        <4>1. patches[FinalPatch] \in PatchType
          BY <1>0, <3>1, <3>3
        <4>2. patches[FinalPatch].tests \in TestStatus
          BY <4>1 DEF PatchType
        <4> QED
          BY <3>1, <3>3, <4>2 DEF FinalTests
      <3> QED
        BY <3>2, <3>3
    <2>2. FinalIsAccepted(stopReason) \in BOOLEAN
      BY Zenon DEF FinalIsAccepted
    <2>3. /\ selected' = FinalPatch /\ finalPassed' = FinalTests
          /\ accepted' = FinalIsAccepted(stopReason)
          /\ UNCHANGED <<workspace, patches, attempts, lastPatch, passingPatch, requiredAfter>>
      BY <1>8, Zenon DEF Finish
    <2>4. Indices'
      BY <1>0, <2>1, <2>3
    <2>5. RepairTypeOK'
      BY <1>0, <2>1, <2>2, <2>3, <2>4, Zenon DEF TypeOK, RepairTypeOK
    <2>6. pc' \notin Judging /\ (pc' \in {"restore", "reapply"} => FinalPatch > 0)
      BY <1>8, <2>1 DEF Finish, FinalIsValid, Judging
    <2> QED
      BY <2>3, <2>5, <2>6 DEF AttemptUnderWay, Attempt
  <1>9. ASSUME workspace' \in {NoDiff, workspace} \cup AppliedDiffs(TextOf(selected)),
               selected # 0,
               RestoreFrame, pc' \notin Judging
        PROVE  RepairTypeOK' /\ AttemptUnderWay'
    <2>1. workspace' \in Diffs
      <3>1. patches[selected] \in PatchType
        BY <1>0, <1>9
      <3>2. patches[selected].text \in Diffs
        BY <3>1 DEF PatchType
      <3> QED
        BY <1>0, <1>9, <3>2, DiffsAssumption DEF AppliedDiffs, TextOf
    <2>2. UNCHANGED <<patches, attempts, lastPatch, passingPatch, requiredAfter,
                      selected, finalPassed, accepted>>
      BY <1>9 DEF RestoreFrame
    <2>3. RepairTypeOK'
      BY <2>1, <2>2, Zenon DEF TypeOK, RepairTypeOK
    <2> QED
      BY <1>0, <1>9, <2>2, <2>3 DEF AttemptUnderWay, Attempt
  <1>10. CASE RestoreUndo \/ RestoreApply \/ RestoreFails
    <2>1. selected # 0
      BY <1>10 DEF RestoreUndo, RestoreApply, RestoreFails, AttemptUnderWay
    <2>2. workspace' \in {NoDiff, workspace} \cup AppliedDiffs(TextOf(selected))
      BY <1>10 DEF RestoreUndo, RestoreApply, RestoreFails
    <2> QED
      BY <1>9, <1>10, <2>1, <2>2
      DEF RestoreUndo, RestoreApply, RestoreFails, Judging
  <1>11. CASE ApiApply
    <2>1. PICK text \in Diffs \ {NoDiff} :
            /\ workspace' \in AppliedDiffs(text)
            /\ patches' \in {patches, StoredPatch(text)}
      BY <1>11 DEF ApiApply
    <2>2. workspace' \in Diffs
      BY <1>0, <2>1 DEF AppliedDiffs
    <2>3. patches' \in Seq(PatchType) /\ Len(patches') >= Len(patches)
      <3> DEFINE new == [text |-> text, valid |-> FALSE, tests |-> "not_run"]
      <3>1. "not_run" \in TestStatus
        BY DEF TestStatus
      <3>2. new \in PatchType
        BY <3>1, Zenon DEF PatchType
      <3>3. patches' = patches \/ patches' = Append(patches, new)
        BY <2>1 DEF StoredPatch
      <3> HIDE DEF new
      <3> QED
        BY <1>0, <3>2, <3>3
    <2>4. UNCHANGED <<attempts, lastPatch, passingPatch, requiredAfter,
                      selected, finalPassed, accepted, pc>>
      BY <1>11 DEF ApiApply
    <2>5. Indices' /\ Len(patches') \in Nat
      BY <1>0, <2>3, <2>4
    <2>6. RepairTypeOK'
      BY <2>2, <2>3, <2>4, <2>5, Zenon DEF TypeOK, RepairTypeOK
    <2>7. \A i \in DOMAIN attempts : attempts[i].version <= Len(patches')
      BY <1>0, <1>a, <2>3, <2>5, SMTT(30)
    <2> QED
      BY <1>0, <2>4, <2>6, <2>7 DEF AttemptUnderWay, Attempt, Current
  <1>12. CASE UNCHANGED vars
    BY <1>1, <1>12 DEF vars, loopVars
  <1>13. CASE \/ CallModel \/ StepLimit \/ OtherToolSucceeds \/ ToolFails
              \/ ObserveFiles \/ SubmitPlan \/ SubmitCandidates \/ SubmitHypothesis
    <2>1. UNCHANGED repairVars
      BY <1>13 DEF CallModel, StepLimit, OtherToolSucceeds, ToolFails,
                   ObserveFiles, SubmitPlan, SubmitCandidates, SubmitHypothesis
    <2>2. pc' \in {"tool", "generate", "finish"}
      BY <1>13 DEF CallModel, StepLimit, OtherToolSucceeds, ToolFails,
                   ObserveFiles, SubmitPlan, SubmitCandidates, SubmitHypothesis,
                   Succeeded, Failed, Proceed, Stop
    <2> QED
      BY <1>1, <2>1, <2>2 DEF Judging
  <1>14. CASE StoreBreaks \/ AssessBreaks
    BY <1>7, <1>14 DEF StoreBreaks, AssessBreaks, Judging
  <1> QED
    BY <1>2, <1>3, <1>4, <1>5, <1>6, <1>8, <1>10, <1>11, <1>12, <1>13, <1>14
    DEF Next, LoopStep, Terminated

(* No action changes the number of attempts, but for submit_patch, and none*)
(* changes the configuration.                                              *)
LEMMA AttemptsCounted ==
  ASSUME TypeOK, AttemptUnderWay, [Next]_vars
  PROVE  /\ config' = config
         /\ Attempt' = IF SubmitPatch THEN Attempt + 1 ELSE Attempt
  <1>0. attempts \in Seq(AttemptType)
    BY DEF TypeOK, RepairTypeOK
  <1>1. CASE SubmitPatch
    BY <1>0, <1>1 DEF SubmitPatch, AttemptBegun, Attempt, gateVars
  <1>2. CASE StoreRefused \/ CheckWorkspace \/ ApplyRefused \/ VerifyWorkspace
    <2>1. pc \in Judging /\ ~SubmitPatch
      BY <1>2 DEF StoreRefused, CheckWorkspace, ApplyRefused, VerifyWorkspace,
                  Judging, SubmitPatch
    <2>2. config' = config
      BY <1>2 DEF StoreRefused, CheckWorkspace, ApplyRefused, VerifyWorkspace,
                  Assess, gateVars
    <2>3. Len(attempts') = Len(attempts)
      BY <1>2, <2>1, AssessTypes, AssessedTypes, CurrentTypes DEF Assess, repairVars
    <2> QED
      BY <2>1, <2>2, <2>3 DEF Attempt
  <1>3. CASE StorePatch \/ TestPatch
    BY <1>0, <1>3 DEF StorePatch, TestPatch, SubmitPatch, Attempt, gateVars
  <1>4. CASE StoreBreaks \/ AssessBreaks
    BY <1>0, <1>4 DEF StoreBreaks, AssessBreaks, Break, SubmitPatch, Attempt, gateVars
  <1>5. CASE /\ UNCHANGED <<config, attempts>>
             /\ ~SubmitPatch
    BY <1>5 DEF Attempt
  <1>6. CASE \/ CallModel \/ StepLimit \/ OtherToolSucceeds \/ ToolFails
             \/ ObserveFiles \/ SubmitPlan \/ SubmitCandidates \/ SubmitHypothesis
             \/ WriteFile \/ Finish \/ RestoreUndo \/ RestoreApply \/ RestoreFails
             \/ ApiApply \/ UNCHANGED vars
    <2>1. UNCHANGED <<config, attempts>>
      BY <1>6
      DEF CallModel, StepLimit, OtherToolSucceeds, ToolFails, ObserveFiles,
          SubmitPlan, SubmitCandidates, SubmitHypothesis, WriteFile, ToolTurn,
          Finish, RestoreUndo, RestoreApply, RestoreFails, RestoreFrame, ApiApply,
          vars, gateVars, repairVars
    <2>2. SubmitPatch => Len(attempts') = Len(attempts) + 1
      BY <1>0 DEF SubmitPatch, AttemptBegun
    <2>3. ~SubmitPatch
      BY <1>0, <2>1, <2>2
    <2> QED
      BY <1>5, <2>1, <2>3
  <1> QED
    BY <1>1, <1>2, <1>3, <1>4, <1>6 DEF Next, LoopStep, Terminated

(* The counters keep their types and their bounds: one step per action.    *)
LEMMA LoopStepCounted ==
  ASSUME IInv, [Next]_vars
  PROVE  /\ LoopTypeOK'
         /\ BudgetsRespected'
         /\ AttemptAlwaysLeft'
         /\ OneSubmissionPerResponse'
         /\ RoomLeft'
  <1> DEFINE Goal == /\ LoopTypeOK'
                     /\ BudgetsRespected'
                     /\ AttemptAlwaysLeft'
                     /\ OneSubmissionPerResponse'
                     /\ RoomLeft'
  <1>0. /\ TypeOK /\ AttemptUnderWay
        /\ modelCalls \in Nat /\ steps \in Nat /\ toolErrors \in Nat
        /\ Attempt \in Nat /\ apiApplies \in 0..MaxApiApplies
        /\ config.maxSteps \in Nat \ {0} /\ config.maxToolErrors \in Nat \ {0}
        /\ MaxAttempts \in Nat
    BY ConfigTypes DEF IInv, TypeOK, LoopTypeOK, RepairTypeOK, Attempt
  <1>1. config' = config /\ MaxAttempts' = MaxAttempts
    BY <1>0, AttemptsCounted DEF MaxAttempts
  <1>2. /\ modelCalls <= config.maxSteps
        /\ steps <= config.maxSteps
        /\ toolErrors <= config.maxToolErrors
        /\ Attempt <= MaxAttempts
        /\ Attempt <= modelCalls
        /\ pc \in {"generate", "tool"} => Attempt < MaxAttempts
        /\ pc \in Working => toolErrors < config.maxToolErrors
        /\ pc = "store" => steps < config.maxSteps
        /\ pc = "tool" => Attempt < modelCalls
    BY DEF IInv, BudgetsRespected, AttemptAlwaysLeft, AttemptsRemain,
           OneSubmissionPerResponse, RoomLeft
  (* What has to be shown of a step.                                       *)
  <1>3. ASSUME modelCalls' \in Nat, steps' \in Nat, toolErrors' \in Nat,
               apiApplies' \in 0..MaxApiApplies, pc' \in Locations,
               stopReason' \in StopReasons, Attempt' \in Nat,
               modelCalls' <= config.maxSteps, steps' <= config.maxSteps,
               toolErrors' <= config.maxToolErrors, Attempt' <= MaxAttempts,
               Attempt' <= modelCalls',
               pc' \in {"generate", "tool"} => Attempt' < MaxAttempts,
               pc' \in Working => toolErrors' < config.maxToolErrors,
               pc' = "store" => steps' < config.maxSteps,
               pc' = "tool" => Attempt' < modelCalls'
        PROVE  Goal
    BY <1>1, <1>3
    DEF LoopTypeOK, BudgetsRespected, AttemptAlwaysLeft, AttemptsRemain,
        OneSubmissionPerResponse, RoomLeft
  <1>4. pc \in Locations /\ stopReason \in StopReasons
    BY DEF IInv, TypeOK, LoopTypeOK
  <1> USE DEF Locations, Terminal, StopReasons, Working, Judging
  <1>5. CASE CallModel
    <2>1. Attempt' = Attempt
      BY <1>0, <1>5, AttemptsCounted DEF CallModel, SubmitPatch
    <2> QED
      BY <1>0, <1>2, <1>3, <1>4, <1>5, <2>1 DEF CallModel, BudgetLeft, Stop, Proceed
  <1>6. CASE StepLimit
    <2>1. Attempt' = Attempt
      BY <1>6 DEF StepLimit, repairVars, Attempt
    <2> QED
      BY <1>0, <1>2, <1>3, <1>4, <1>6, <2>1 DEF StepLimit, Stop
  <1>7. CASE \/ OtherToolSucceeds \/ ToolFails \/ ObserveFiles \/ SubmitPlan
             \/ SubmitCandidates \/ SubmitHypothesis \/ WriteFile
    <2>1. ToolTurn /\ (Succeeded \/ Failed) /\ UNCHANGED attempts
      BY <1>7 DEF OtherToolSucceeds, ToolFails, ObserveFiles, SubmitPlan,
                  SubmitCandidates, SubmitHypothesis, WriteFile, repairVars
    <2>2. CASE Succeeded
      BY <1>0, <1>2, <1>3, <1>4, <2>1, <2>2 DEF ToolTurn, Succeeded, Proceed, Attempt
    <2>3. CASE Failed
      <3>1. toolErrors' = toolErrors + 1
        BY <2>3 DEF Failed
      <3>2. \/ toolErrors' >= config.maxToolErrors /\ pc' = "finish" /\ stopReason' = "max_tool_errors"
            \/ /\ ~(toolErrors' >= config.maxToolErrors)
               /\ pc' \in {"tool", "generate"} /\ stopReason' = stopReason
        BY <1>1, <2>3 DEF Failed, ErrorLimitReached, Stop, Proceed
      <3> QED
        BY <1>0, <1>2, <1>3, <1>4, <2>1, <3>1, <3>2 DEF ToolTurn, Attempt
    <2> QED
      BY <2>1, <2>2, <2>3
  <1>8. CASE SubmitPatch
    <2>1. Attempt' = Attempt + 1
      BY <1>0, <1>8, AttemptsCounted
    <2> QED
      BY <1>0, <1>2, <1>3, <1>4, <1>8, <2>1 DEF SubmitPatch
  <1>9. ASSUME NEW version, NEW valid \in BOOLEAN, NEW tests,
               Assess(version, valid, tests), Attempt' = Attempt, pc \in Judging,
               steps' \in Nat, steps' <= config.maxSteps
        PROVE  Goal
    <2>1. toolErrors' = IF valid THEN toolErrors ELSE toolErrors + 1
      BY <1>9 DEF Assess, Conclude
    <2>2. /\ modelCalls' = modelCalls /\ apiApplies' = apiApplies
          /\ StopAfter(valid, tests) \/ Attempt < MaxAttempts
      BY <1>9 DEF Assess, StopAfter, AttemptsRemain
    <2>3. \/ /\ toolErrors' >= config.maxToolErrors
             /\ pc' = "finish" /\ stopReason' = "max_tool_errors"
          \/ pc' = "finish" /\ stopReason' = "patch_submitted"
          \/ /\ toolErrors' < config.maxToolErrors /\ ~StopAfter(valid, tests)
             /\ pc' = "generate" /\ stopReason' = stopReason
      BY <1>0, <1>1, <1>9, <2>1 DEF Assess, Conclude, ErrorLimitReached, Stop
    <2>4. toolErrors' \in Nat /\ toolErrors' <= config.maxToolErrors
      BY <1>0, <1>2, <1>9, <2>1
    <2> QED
      BY <1>0, <1>2, <1>3, <1>4, <1>9, <2>2, <2>3, <2>4
  <1>10. CASE StoreRefused \/ CheckWorkspace \/ ApplyRefused \/ VerifyWorkspace
    <2>1. pc \in Judging /\ Attempt' = Attempt
      BY <1>0, <1>10, AttemptsCounted
      DEF StoreRefused, CheckWorkspace, ApplyRefused, VerifyWorkspace, SubmitPatch
    <2>2. steps' \in Nat /\ steps' <= config.maxSteps
      <3>1. \/ steps' = steps
            \/ pc = "store" /\ steps' = steps + 1
        BY <1>10
        DEF StoreRefused, CheckWorkspace, ApplyRefused, VerifyWorkspace
      <3> QED
        BY <1>0, <1>2, <3>1
    <2>3. CASE CheckWorkspace /\ pc' = "test" /\ UNCHANGED <<repairVars, toolErrors>>
      <3>1. pc = "check" /\ modelCalls' = modelCalls /\ stopReason' = stopReason
        BY <2>3 DEF CheckWorkspace, Assess, Conclude, Stop
      <3> QED
        BY <1>0, <1>2, <1>3, <1>4, <2>1, <2>2, <2>3, <3>1 DEF CheckWorkspace, Assess
    <2> QED
      BY <1>0, <1>9, <1>10, <2>1, <2>2, <2>3, AssessTypes
  <1>11. CASE StorePatch
    <2>1. Attempt' = Attempt
      BY <1>0, <1>11, AttemptsCounted DEF StorePatch, SubmitPatch
    <2> QED
      BY <1>0, <1>2, <1>3, <1>4, <1>11, <2>1 DEF StorePatch
  <1>12. CASE TestPatch
    <2>1. Attempt' = Attempt
      BY <1>0, <1>12, AttemptsCounted DEF TestPatch, SubmitPatch
    <2> QED
      BY <1>0, <1>2, <1>3, <1>4, <1>12, <2>1 DEF TestPatch
  <1>13. CASE StoreBreaks \/ AssessBreaks
    <2>1. Attempt' = Attempt
      BY <1>0, <1>13, AttemptsCounted DEF StoreBreaks, AssessBreaks, SubmitPatch
    <2> QED
      BY <1>0, <1>2, <1>3, <1>4, <1>13, <2>1 DEF StoreBreaks, AssessBreaks, Break, Stop
  <1>14. CASE Finish \/ RestoreUndo \/ RestoreApply \/ RestoreFails
    <2>1. /\ pc' \in {"restore", "reapply"} \cup Terminal
          /\ UNCHANGED <<modelCalls, steps, toolErrors, stopReason, apiApplies, attempts>>
      BY <1>14 DEF Finish, RestoreUndo, RestoreApply, RestoreFails, RestoreFrame
    <2> QED
      BY <1>0, <1>2, <1>3, <1>4, <2>1 DEF Attempt
  <1>15. CASE ApiApply
    BY <1>0, <1>2, <1>3, <1>4, <1>15, ApiAssumption DEF ApiApply, Attempt
  <1>16. CASE UNCHANGED vars
    BY <1>0, <1>2, <1>3, <1>4, <1>16 DEF vars, loopVars, repairVars, Attempt
  <1> QED
    BY <1>5, <1>6, <1>7, <1>8, <1>10, <1>11, <1>12, <1>13, <1>14, <1>15, <1>16
    DEF Next, LoopStep, Terminated

(* IInv is inductive.                                                      *)
LEMMA NextIInv == IInv /\ [Next]_vars => IInv'
  <1> SUFFICES ASSUME IInv, [Next]_vars PROVE IInv'
    OBVIOUS
  <1>1. TypeOK /\ AttemptUnderWay
    BY DEF IInv
  <1>2. GatesTypeOK'
    BY <1>1, GatesStep
  <1>3. RepairTypeOK' /\ AttemptUnderWay'
    BY <1>1, RepairStep
  <1> QED
    BY <1>2, <1>3, LoopStepCounted DEF IInv, TypeOK

(* Hence it holds in every reachable state.                                *)
THEOREM Inductive == Spec => []IInv
  BY InitIInv, NextIInv, PTL DEF Spec

(* Every reachable state is well typed: the attempt and patch records the  *)
(* repair service indexes always exist.                                    *)
THEOREM TypeCorrect == Spec => []TypeOK
  <1>1. IInv => TypeOK
    BY DEF IInv
  <1> QED
    BY <1>1, Inductive, PTL

(* The loop stays within every budget of every configuration: model calls, *)
(* tool calls, tool errors and attempts (loop.py, repairs.py).             *)
THEOREM BudgetsHold == Spec => []BudgetsRespected
  <1>1. IInv => BudgetsRespected
    BY DEF IInv
  <1> QED
    BY <1>1, Inductive, PTL

(* begin_attempt never meets an exhausted budget of attempts: assess has   *)
(* ended the loop before.                                                  *)
THEOREM AttemptsSuffice == Spec => []AttemptAlwaysLeft
  <1>1. IInv => AttemptAlwaysLeft
    BY DEF IInv
  <1> QED
    BY <1>1, Inductive, PTL

(* A response of the model never accounts for two attempts: the calls that *)
(* follow submit_patch are skipped.                                        *)
THEOREM SubmissionsPaced == Spec => []OneSubmissionPerResponse
  <1>1. IInv => OneSubmissionPerResponse
    BY DEF IInv
  <1> QED
    BY <1>1, Inductive, PTL

-----------------------------------------------------------------------------
(* What a run of AgentLoop ends with, for every configuration and any      *)
(* number of patches of the client: the selection is the latest attempt    *)
(* that passed, or else that was stored, the verdict is the one its        *)
(* attempts have earned, invalid patches count as errors, and reasoning is *)
(* renewed after failed tests.                                             *)

(* The steps, by what they do to the record of the run.                    *)

(* Of the attempts only the one under way is rewritten, and never the      *)
(* reasoning it was begun with.                                            *)
Records(version, tests, outcome) ==
  /\ Len(attempts') = Len(attempts)
  /\ \A i \in 1..Len(attempts) :
       /\ attempts'[i].hypothesis = attempts[i].hypothesis
       /\ attempts'[i].plan = attempts[i].plan
       /\ attempts'[i].candidate = attempts[i].candidate
       /\ attempts'[i].version = IF i = Attempt THEN version ELSE attempts[i].version
       /\ attempts'[i].tests = IF i = Attempt THEN tests ELSE attempts[i].tests
       /\ attempts'[i].outcome = IF i = Attempt THEN outcome ELSE attempts[i].outcome

(* The agent works: no attempt is begun or judged.                         *)
AgentWorks ==
  /\ pc \in {"generate", "tool"}
  /\ UNCHANGED <<patches, attempts, lastPatch, passingPatch, requiredAfter,
                 selected, finalPassed, accepted>>
  /\ toolErrors' \in {toolErrors, toolErrors + 1}
  /\ \/ pc' \in {"generate", "tool"} /\ UNCHANGED stopReason
     \/ /\ pc' = "finish"
        /\ stopReason' \in {"provider_error", "max_steps", "max_tool_errors"}

(* Rewriting the three fields an assessment sets, or one of them.          *)
LEMMA AttemptRewritten ==
  ASSUME TypeOK, Attempt > 0,
         NEW version \in Nat, NEW tests \in TestStatus, NEW outcome \in AttemptOutcomes
  PROVE  /\ attempts' = [attempts EXCEPT ![Attempt].version = version,
                                         ![Attempt].tests = tests,
                                         ![Attempt].outcome = outcome]
              => Records(version, tests, outcome)
         /\ attempts' = [attempts EXCEPT ![Attempt].version = version]
              => Records(version, Current.tests, Current.outcome)
         /\ attempts' = [attempts EXCEPT ![Attempt].tests = tests]
              => Records(Current.version, tests, Current.outcome)
         /\ attempts' = [attempts EXCEPT ![Attempt].outcome = outcome]
              => Records(Current.version, Current.tests, outcome)
  <1> DEFINE k == Attempt
             old == attempts[k]
  <1>1. /\ attempts \in Seq(AttemptType) /\ k \in 1..Len(attempts)
        /\ Len(attempts) \in Nat
    BY DEF TypeOK, RepairTypeOK, Attempt
  <1>2. old \in AttemptType
    BY <1>1
  <1>3. ASSUME NEW new, attempts' = [attempts EXCEPT ![k] = new],
               new.hypothesis = old.hypothesis, new.plan = old.plan,
               new.candidate = old.candidate
        PROVE  Records(new.version, new.tests, new.outcome)
    <2>1. Len(attempts') = Len(attempts)
      BY <1>1, <1>3
    <2>2. \A i \in 1..Len(attempts) : attempts'[i] = IF i = k THEN new ELSE attempts[i]
      BY <1>1, <1>3
    <2> HIDE DEF k
    <2> QED
      BY <1>3, <2>1, <2>2 DEF Records, k
  <1>4. ASSUME attempts' = [attempts EXCEPT ![k].version = version,
                                            ![k].tests = tests,
                                            ![k].outcome = outcome]
        PROVE  Records(version, tests, outcome)
    <2> DEFINE new == [old EXCEPT !.version = version, !.tests = tests,
                                  !.outcome = outcome]
    <2>1. attempts' = [attempts EXCEPT ![k] = new]
      BY <1>1, <1>4
    <2>2. /\ new.hypothesis = old.hypothesis /\ new.plan = old.plan
          /\ new.candidate = old.candidate
          /\ new.version = version /\ new.tests = tests /\ new.outcome = outcome
      BY <1>2 DEF AttemptType
    <2> HIDE DEF new
    <2> QED
      BY <1>3, <2>1, <2>2
  <1>5. ASSUME attempts' = [attempts EXCEPT ![k].version = version]
        PROVE  Records(version, old.tests, old.outcome)
    <2> DEFINE new == [old EXCEPT !.version = version]
    <2>1. attempts' = [attempts EXCEPT ![k] = new]
      BY <1>1, <1>5
    <2>2. /\ new.hypothesis = old.hypothesis /\ new.plan = old.plan
          /\ new.candidate = old.candidate
          /\ new.version = version /\ new.tests = old.tests /\ new.outcome = old.outcome
      BY <1>2 DEF AttemptType
    <2> HIDE DEF new
    <2> QED
      BY <1>3, <2>1, <2>2
  <1>6. ASSUME attempts' = [attempts EXCEPT ![k].tests = tests]
        PROVE  Records(old.version, tests, old.outcome)
    <2> DEFINE new == [old EXCEPT !.tests = tests]
    <2>1. attempts' = [attempts EXCEPT ![k] = new]
      BY <1>1, <1>6
    <2>2. /\ new.hypothesis = old.hypothesis /\ new.plan = old.plan
          /\ new.candidate = old.candidate
          /\ new.version = old.version /\ new.tests = tests /\ new.outcome = old.outcome
      BY <1>2 DEF AttemptType
    <2> HIDE DEF new
    <2> QED
      BY <1>3, <2>1, <2>2
  <1>7. ASSUME attempts' = [attempts EXCEPT ![k].outcome = outcome]
        PROVE  Records(old.version, old.tests, outcome)
    <2> DEFINE new == [old EXCEPT !.outcome = outcome]
    <2>1. attempts' = [attempts EXCEPT ![k] = new]
      BY <1>1, <1>7
    <2>2. /\ new.hypothesis = old.hypothesis /\ new.plan = old.plan
          /\ new.candidate = old.candidate
          /\ new.version = old.version /\ new.tests = old.tests /\ new.outcome = outcome
      BY <1>2 DEF AttemptType
    <2> HIDE DEF new
    <2> QED
      BY <1>3, <2>1, <2>2
  <1> QED
    BY <1>4, <1>5, <1>6, <1>7 DEF Current

(* The patch under assessment is judged, and the loop goes on or stops.    *)
Judges(version, valid, tests) ==
  /\ pc \in Judging
  /\ version # 0 <=> pc # "store"
  /\ version \in {0, Current.version}
  /\ tests \in {"not_run", Current.tests}
  /\ pc = "verify" => tests = Current.tests
  /\ valid => pc = "verify"
  /\ Records(version, tests, OutcomeOf(valid, tests))
  /\ patches' = JudgedPatches(version, valid, tests)
  /\ passingPatch' = NextPassing(version, valid, tests)
  /\ requiredAfter' = NextRequired(valid, tests)
  /\ UNCHANGED <<lastPatch, selected, finalPassed, accepted>>
  /\ toolErrors' = IF valid THEN toolErrors ELSE toolErrors + 1
  /\ \/ pc' = "finish" /\ stopReason' = "max_tool_errors"
     \/ pc' = "finish" /\ stopReason' = "patch_submitted" /\ StopAfter(valid, tests)
     \/ pc' = "generate" /\ UNCHANGED stopReason /\ ~StopAfter(valid, tests)

(* An exception ends the loop with the attempt under way.                  *)
Breaks ==
  /\ pc \in Judging
  /\ Records(Current.version, Current.tests, "error")
  /\ UNCHANGED <<patches, lastPatch, passingPatch, requiredAfter,
                 selected, finalPassed, accepted>>
  /\ toolErrors' \in {toolErrors, toolErrors + 1}
  /\ pc' = "finish" /\ stopReason' = "unrecoverable_error"

Stores ==
  /\ pc = "store" /\ pc' = "check"
  /\ Records(Len(patches) + 1, Current.tests, Current.outcome)
  /\ patches' = StoredPatch(workspace)
  /\ lastPatch' = Len(patches) + 1
  /\ UNCHANGED <<passingPatch, requiredAfter, selected, finalPassed, accepted,
                 toolErrors, stopReason>>

(* Between check and verify only the tests of the attempt are recorded.    *)
Tests ==
  /\ \/ pc = "check" /\ pc' = "test" /\ UNCHANGED attempts
     \/ /\ pc = "test" /\ pc' = "verify"
        /\ \E result \in TestStatus : Records(Current.version, result, Current.outcome)
  /\ UNCHANGED <<patches, lastPatch, passingPatch, requiredAfter,
                 selected, finalPassed, accepted, toolErrors, stopReason>>

(* The selected patch is restored, or the restore fails.                   *)
Restores ==
  /\ pc \in {"restore", "reapply"}
  /\ pc' \in {"reapply"} \cup Terminal
  /\ RestoreFrame

(* Nothing but the workspace and the patches, which may grow, changes.     *)
ClientApplies ==
  /\ \E text \in Diffs : patches' \in {patches, StoredPatch(text)}
  /\ UNCHANGED <<attempts, lastPatch, passingPatch, requiredAfter, selected,
                 finalPassed, accepted, pc, toolErrors, stopReason>>

(* A call of Assess is a step of that kind.                                *)
LEMMA AssessJudges ==
  ASSUME IInv, pc \in Judging,
         NEW version \in 0..Len(patches), NEW valid \in BOOLEAN, NEW tests \in TestStatus,
         Assess(version, valid, tests), UNCHANGED <<workspace, lastPatch>>,
         version # 0 <=> pc # "store", version \in {0, Current.version},
         tests \in {"not_run", Current.tests}, pc = "verify" => tests = Current.tests,
         valid => pc = "verify"
  PROVE  Judges(version, valid, tests)
  <1>1. OutcomeOf(valid, tests) \in AttemptOutcomes /\ version \in Nat
    BY DEF OutcomeOf, AttemptOutcomes, IInv, TypeOK, RepairTypeOK
  <1>2. Records(version, tests, OutcomeOf(valid, tests))
    BY <1>1, AttemptRewritten DEF IInv, AttemptUnderWay, Assess, Assessed
  <1>3. \/ pc' = "finish" /\ stopReason' = "max_tool_errors"
        \/ pc' = "finish" /\ stopReason' = "patch_submitted" /\ StopAfter(valid, tests)
        \/ pc' = "generate" /\ UNCHANGED stopReason /\ ~StopAfter(valid, tests)
    BY Zenon DEF Assess, Conclude, Stop
  <1> QED
    BY <1>2, <1>3, Zenon DEF Judges, Assess, Assessed, Conclude

(* Every step is of one of these kinds.                                    *)
LEMMA StepKinds ==
  ASSUME IInv, [Next]_vars
  PROVE  \/ AgentWorks
         \/ SubmitPatch
         \/ Stores
         \/ Tests
         \/ \E version \in 0..Len(patches), valid \in BOOLEAN, tests \in TestStatus :
              Judges(version, valid, tests)
         \/ Breaks
         \/ Finish
         \/ Restores
         \/ ClientApplies
  <1>0. /\ TypeOK /\ AttemptUnderWay
        /\ attempts \in Seq(AttemptType) /\ Len(patches) \in Nat
        /\ 0 \in 0..Len(patches) /\ "not_run" \in TestStatus
    BY DEF IInv, TypeOK, RepairTypeOK, TestStatus
  <1>b. pc \in Judging \ {"store"} => Current.version # 0
    BY <1>0 DEF AttemptUnderWay
  <1>a. pc \in Judging => Current.tests \in TestStatus /\ Current.outcome \in AttemptOutcomes
                          /\ Current.version \in 0..Len(patches) /\ Attempt > 0
    BY <1>0, CurrentTypes DEF AttemptType
  <1>1. CASE CallModel
    BY <1>1 DEF CallModel, AgentWorks, Stop, Proceed, repairVars
  <1>2. CASE StepLimit
    BY <1>2 DEF StepLimit, AgentWorks, Stop, repairVars
  <1>3. CASE \/ OtherToolSucceeds \/ ToolFails \/ ObserveFiles \/ SubmitPlan
             \/ SubmitCandidates \/ SubmitHypothesis \/ WriteFile
    <2>1. /\ ToolTurn /\ (Succeeded \/ Failed)
          /\ UNCHANGED <<patches, attempts, lastPatch, passingPatch, requiredAfter,
                         selected, finalPassed, accepted>>
      BY <1>3 DEF OtherToolSucceeds, ToolFails, ObserveFiles, SubmitPlan,
                  SubmitCandidates, SubmitHypothesis, WriteFile, repairVars
    <2> QED
      BY <2>1 DEF AgentWorks, ToolTurn, Succeeded, Failed, Proceed, Stop
  <1>4. CASE StorePatch
    <2>1. /\ pc \in Judging /\ Len(patches) + 1 \in Nat
          /\ attempts' = [attempts EXCEPT ![Attempt].version = Len(patches) + 1]
      BY <1>0, <1>4 DEF StorePatch, Judging
    <2>2. Records(Len(patches) + 1, Current.tests, Current.outcome)
      BY <1>0, <1>a, <2>1, AttemptRewritten
    <2> QED
      BY <1>4, <2>2 DEF StorePatch, Stores
  <1>5. CASE StoreRefused
    <2>1. pc = "store" /\ pc \in Judging
      BY <1>5 DEF StoreRefused, Judging
    <2>2. Assess(0, FALSE, "not_run") /\ UNCHANGED <<workspace, lastPatch>>
      BY <1>5 DEF StoreRefused
    <2>3. Judges(0, FALSE, "not_run")
      BY <1>0, <2>1, <2>2, AssessJudges
    <2> QED
      BY <1>0, <2>3
  <1>6. CASE StoreBreaks \/ AssessBreaks
    <2>1. "error" \in AttemptOutcomes /\ pc \in Judging
      BY <1>6 DEF StoreBreaks, AssessBreaks, AttemptOutcomes, Judging
    <2>2. Records(Current.version, Current.tests, "error")
      BY <1>0, <1>a, <1>6, <2>1, AttemptRewritten DEF StoreBreaks, AssessBreaks, Break
    <2> QED
      BY <1>6, <2>1, <2>2 DEF StoreBreaks, AssessBreaks, Break, Breaks, Stop
  <1>7. CASE CheckWorkspace
    <2>1. pc = "check" /\ pc \in Judging /\ Current.version # 0
      BY <1>b, <1>7 DEF CheckWorkspace, Judging
    <2>2. CASE WorkspaceMatches
      BY <1>7, <2>1, <2>2 DEF CheckWorkspace, Tests
    <2>3. CASE ~WorkspaceMatches
      <3>1. Assess(Current.version, FALSE, "not_run") /\ UNCHANGED <<workspace, lastPatch>>
        BY <1>7, <2>3 DEF CheckWorkspace
      <3>2. Judges(Current.version, FALSE, "not_run")
        BY <1>0, <1>a, <2>1, <3>1, AssessJudges
      <3> QED
        BY <1>0, <1>a, <2>1, <3>2
    <2> QED
      BY <2>2, <2>3
  <1>8. CASE TestPatch
    <2>1. pc = "test" /\ pc \in Judging
      BY <1>8 DEF TestPatch, Judging
    <2>2. PICK result \in TestResults : attempts' = [attempts EXCEPT ![Attempt].tests = result]
      BY <1>8 DEF TestPatch
    <2>3. result \in TestStatus
      BY DEF TestResults, TestStatus
    <2>4. Records(Current.version, result, Current.outcome)
      BY <1>0, <1>a, <2>1, <2>2, <2>3, AttemptRewritten
    <2> QED
      BY <1>8, <2>1, <2>3, <2>4 DEF TestPatch, Tests
  <1>9. CASE ApplyRefused
    <2>1. pc = "test" /\ pc \in Judging /\ Current.version # 0
      BY <1>b, <1>9 DEF ApplyRefused, Judging
    <2>2. Assess(Current.version, FALSE, "not_run") /\ UNCHANGED <<workspace, lastPatch>>
      BY <1>9 DEF ApplyRefused
    <2>3. Judges(Current.version, FALSE, "not_run")
      BY <1>0, <1>a, <2>1, <2>2, AssessJudges
    <2> QED
      BY <1>0, <1>a, <2>1, <2>3
  <1>10. CASE VerifyWorkspace
    <2>1. pc = "verify" /\ pc \in Judging /\ Current.version # 0
      BY <1>b, <1>10 DEF VerifyWorkspace, Judging
    <2>2. PICK valid \in BOOLEAN : valid = WorkspaceMatches
      BY Zenon DEF WorkspaceMatches
    <2>3. Assess(Current.version, valid, Current.tests) /\ UNCHANGED <<workspace, lastPatch>>
      BY <1>10, <2>2 DEF VerifyWorkspace
    <2> QED
      BY <1>a, <2>1, <2>3, AssessJudges
  <1>11. CASE RestoreUndo \/ RestoreApply \/ RestoreFails
    BY <1>11 DEF RestoreUndo, RestoreApply, RestoreFails, Restores, Terminal
  <1>12. CASE ApiApply
    BY <1>12 DEF ApiApply, ClientApplies
  <1>13. CASE UNCHANGED vars
    BY <1>0, <1>13, DiffsAssumption DEF vars, repairVars, loopVars, ClientApplies
  <1> QED
    BY <1>1, <1>2, <1>3, <1>4, <1>5, <1>6, <1>7, <1>8, <1>9, <1>10, <1>11, <1>12, <1>13
    DEF Next, LoopStep, Terminated


(* submit_patch appends an attempt that has neither patch nor tests yet.   *)
LEMMA AttemptAppended ==
  ASSUME TypeOK, SubmitPatch
  PROVE  /\ Len(attempts') = Len(attempts) + 1
         /\ \A i \in 1..Len(attempts) : attempts'[i] = attempts[i]
         /\ LET new == attempts'[Len(attempts) + 1]
            IN  /\ new.hypothesis = ReasoningRevisions.hypothesis
                /\ new.plan = ReasoningRevisions.plan
                /\ new.version = 0
                /\ new.tests = "not_run"
                /\ new.outcome = "started"
  <1> DEFINE new == [ hypothesis |-> ReasoningRevisions.hypothesis,
                      plan |-> ReasoningRevisions.plan,
                      candidate |-> ReasoningRevisions.candidate, version |-> 0,
                      tests |-> "not_run", outcome |-> "started" ]
  <1>1. attempts \in Seq(AttemptType)
    BY DEF TypeOK, RepairTypeOK
  <1>2. attempts' = Append(attempts, new)
    BY DEF SubmitPatch, AttemptBegun
  <1>3. /\ new.hypothesis = ReasoningRevisions.hypothesis
        /\ new.plan = ReasoningRevisions.plan
        /\ new.version = 0 /\ new.tests = "not_run" /\ new.outcome = "started"
    OBVIOUS
  <1> HIDE DEF new
  <1> QED
    BY <1>1, <1>2, <1>3

(* A verdict is written to one patch, and no other patch changes.          *)
LEMMA PatchJudged ==
  ASSUME TypeOK, NEW version \in 0..Len(patches), NEW valid \in BOOLEAN,
         NEW tests \in TestStatus, patches' = JudgedPatches(version, valid, tests)
  PROVE  /\ Len(patches') = Len(patches)
         /\ \A v \in 1..Len(patches) : v # version => patches'[v] = patches[v]
         /\ version # 0
              => /\ patches'[version].text = patches[version].text
                 /\ patches'[version].valid <=> valid
                 /\ patches'[version].tests = IF valid THEN tests ELSE "failed"
  <1>1. patches \in Seq(PatchType)
    BY DEF TypeOK, RepairTypeOK
  <1>2. CASE version = 0
    BY <1>1, <1>2 DEF JudgedPatches
  <1>3. CASE version # 0
    <2> DEFINE result == IF valid THEN tests ELSE "failed"
               old == patches[version]
               validated == [old EXCEPT !.valid = valid]
               new == [validated EXCEPT !.tests = result]
    <2>1. old \in PatchType
      BY <1>1, <1>3
    <2>2. patches' = [patches EXCEPT ![version] = new]
      <3>1. patches' = [patches EXCEPT ![version].valid = valid,
                                       ![version].tests = result]
        BY <1>3, Zenon DEF JudgedPatches
      <3> HIDE DEF result
      <3> QED
        BY <1>1, <1>3, <3>1
    <2>3. /\ validated \in PatchType
          /\ validated.text = old.text /\ (validated.valid <=> valid)
      <3> HIDE DEF old
      <3> QED
        BY <2>1, Zenon DEF PatchType
    <2>4. new.text = old.text /\ (new.valid <=> valid) /\ new.tests = result
      <3> HIDE DEF old, validated, result
      <3> QED
        BY <2>3, Zenon DEF PatchType
    <2>5. /\ Len(patches') = Len(patches)
          /\ \A v \in 1..Len(patches) : v # version => patches'[v] = patches[v]
          /\ patches'[version] = new
      <3> HIDE DEF new
      <3> QED
        BY <1>1, <1>3, <2>2
    <2> HIDE DEF new
    <2> QED
      BY <1>3, <2>4, <2>5
  <1> QED
    BY <1>2, <1>3

(* A stored patch is a new version without a verdict.                      *)
LEMMA PatchStored ==
  ASSUME TypeOK, NEW text \in Diffs, patches' = StoredPatch(text)
  PROVE  /\ Len(patches') = Len(patches) + 1
         /\ \A v \in 1..Len(patches) : patches'[v] = patches[v]
         /\ LET new == patches'[Len(patches) + 1]
            IN  /\ new.text = text
                /\ ~new.valid
                /\ new.tests = "not_run"
  <1> DEFINE new == [text |-> text, valid |-> FALSE, tests |-> "not_run"]
  <1>1. patches \in Seq(PatchType)
    BY DEF TypeOK, RepairTypeOK
  <1>2. patches' = Append(patches, new)
    BY DEF StoredPatch
  <1>3. new.text = text /\ ~new.valid /\ new.tests = "not_run"
    BY Zenon
  <1> HIDE DEF new
  <1> QED
    BY <1>1, <1>2, <1>3


-----------------------------------------------------------------------------
(* What the outcome of a run rests on.                                     *)

(* Exactly the attempt under way has no verdict; it has no patch before it *)
(* is stored, and no test results before they are verified.                *)
UnderJudgement ==
  /\ \A i \in DOMAIN attempts :
       attempts[i].outcome = "started" <=> pc \in Judging /\ i = Attempt
  /\ pc = "store" => Current.version = 0
  /\ pc \in Judging \ {"verify"} => Current.tests = "not_run"

(* An untested patch and an exception end the loop: no attempt follows.    *)
LoopOpen ==
  /\ stopReason = "none" <=> pc \in Working
  /\ \A i \in DOMAIN attempts :
       i < Attempt \/ pc \in Working => attempts[i].outcome \notin {"untested", "error"}

(* Attempts store their patches in their order, and only a patch that is   *)
(* stored gets a verdict other than invalid.                               *)
VersionsGrow ==
  /\ \A i, j \in DOMAIN attempts :
       i < j /\ attempts[i].version # 0 /\ attempts[j].version # 0
         => attempts[i].version < attempts[j].version
  /\ \A i \in DOMAIN attempts :
       attempts[i].outcome \in {"passed", "failed_tests", "untested"}
         => attempts[i].version # 0

(* What a patch is marked with is the verdict on its attempt.              *)
VerdictOf(outcome) ==
  CASE outcome = "passed" -> "passed"
    [] outcome \in {"failed_tests", "invalid_patch"} -> "failed"
    [] OTHER -> "not_run"

VerdictsAgree ==
  \A i \in DOMAIN attempts :
    attempts[i].version # 0
      => /\ patches[attempts[i].version].valid
              <=> attempts[i].outcome \in {"passed", "failed_tests", "untested"}
         /\ patches[attempts[i].version].tests = VerdictOf(attempts[i].outcome)

(* _last_patch and _passing_patch are those of the latest such attempts.   *)
LatestKept ==
  /\ IF StoredAttempts = {} THEN lastPatch = 0
     ELSE IsLatest(lastPatch, StoredAttempts)
  /\ IF PassedAttempts = {} THEN passingPatch = 0
     ELSE IsLatest(passingPatch, PassedAttempts)

(* After finish the selection is what it was made from.                    *)
SelectionMade ==
  pc \in {"restore", "reapply"} \cup Terminal
    => /\ selected = FinalPatch
       /\ finalPassed = FinalTests
       /\ accepted = FinalIsAccepted(stopReason)

OutcomeInv ==
  /\ IInv
  /\ UnderJudgement
  /\ LoopOpen
  /\ VersionsGrow
  /\ VerdictsAgree
  /\ LatestKept
  /\ SelectionMade
  /\ InvalidPatchesAreErrors
  /\ StopsForAReason

(* The shapes the cases below start from, before and after a step.         *)
LEMMA Shapes ==
  ASSUME OutcomeInv, [Next]_vars
  PROVE  /\ IInv /\ IInv' /\ TypeOK
         /\ Len(attempts) \in Nat /\ DOMAIN attempts = 1..Len(attempts)
         /\ Len(attempts') \in Nat /\ DOMAIN attempts' = 1..Len(attempts')
         /\ \A i \in 1..Len(attempts) : attempts[i] \in AttemptType
         /\ Len(patches) \in Nat /\ Len(patches') \in Nat
         /\ \A i \in 1..Len(attempts) : attempts[i].version \in 0..Len(patches)
         /\ pc \in Judging => Attempt > 0
  <1>1. IInv /\ IInv'
    BY NextIInv DEF OutcomeInv
  <1>2. /\ attempts \in Seq(AttemptType) /\ attempts' \in Seq(AttemptType)
        /\ patches \in Seq(PatchType) /\ patches' \in Seq(PatchType)
    BY <1>1 DEF IInv, TypeOK, RepairTypeOK
  <1>3. \A i \in 1..Len(attempts) : attempts[i] \in AttemptType
    BY <1>2
  <1>4. \A i \in 1..Len(attempts) : attempts[i].version \in 0..Len(patches)
    BY <1>1, <1>2, <1>3, SMTT(30) DEF AttemptType, IInv, AttemptUnderWay
  <1> QED
    BY <1>1, <1>2, <1>3, <1>4 DEF IInv, AttemptUnderWay

LEMMA UnderJudgementStep ==
  ASSUME OutcomeInv, [Next]_vars
  PROVE  UnderJudgement'
  <1> USE DEF UnderJudgement, Attempt, Current, Judging
  <1>0. UnderJudgement
    BY DEF OutcomeInv
  <1>1. CASE AgentWorks
    BY <1>0, <1>1, Shapes DEF AgentWorks
  <1>2. CASE SubmitPatch
    BY <1>0, <1>2, Shapes, AttemptAppended DEF SubmitPatch
  <1>3. CASE Stores
    BY <1>0, <1>3, Shapes DEF Stores, Records
  <1>4. CASE Tests
    BY <1>0, <1>4, Shapes DEF Tests, Records
  <1>5. ASSUME NEW version \in 0..Len(patches), NEW valid \in BOOLEAN,
               NEW tests \in TestStatus, Judges(version, valid, tests)
        PROVE  UnderJudgement'
    <2>1. OutcomeOf(valid, tests) # "started"
      BY DEF OutcomeOf
    <2> QED
      BY <1>0, <1>5, <2>1, Shapes DEF Judges, Records
  <1>6. CASE Breaks
    BY <1>0, <1>6, Shapes DEF Breaks, Records
  <1>7. CASE Finish
    BY <1>0, <1>7, Shapes DEF Finish
  <1>8. CASE Restores
    BY <1>0, <1>8, Shapes DEF Restores, RestoreFrame, Terminal
  <1>9. CASE ClientApplies
    BY <1>0, <1>9, Shapes DEF ClientApplies
  <1> QED
    BY <1>1, <1>2, <1>3, <1>4, <1>5, <1>6, <1>7, <1>8, <1>9, Shapes, StepKinds

LEMMA LoopOpenStep ==
  ASSUME OutcomeInv, [Next]_vars
  PROVE  LoopOpen'
  <1> USE DEF LoopOpen, Attempt, Current, Judging, Working
  <1>0. LoopOpen /\ UnderJudgement /\ stopReason \in StopReasons
    BY DEF OutcomeInv, IInv, TypeOK, LoopTypeOK
  <1>1. CASE AgentWorks
    BY <1>0, <1>1, Shapes DEF AgentWorks
  <1>2. CASE SubmitPatch
    BY <1>0, <1>2, Shapes, AttemptAppended DEF SubmitPatch
  <1>3. CASE Stores
    BY <1>0, <1>3, Shapes DEF Stores, Records
  <1>4. CASE Tests
    BY <1>0, <1>4, Shapes DEF Tests, Records
  <1>5. ASSUME NEW version \in 0..Len(patches), NEW valid \in BOOLEAN,
               NEW tests \in TestStatus, Judges(version, valid, tests)
        PROVE  LoopOpen'
    <2>1. /\ OutcomeOf(valid, tests) # "error"
          /\ OutcomeOf(valid, tests) = "untested" => StopAfter(valid, tests)
      BY DEF OutcomeOf, StopAfter, TestStatus
    <2> QED
      BY <1>0, <1>5, <2>1, Shapes DEF Judges, Records
  <1>6. CASE Breaks
    BY <1>0, <1>6, Shapes DEF Breaks, Records
  <1>7. CASE Finish
    BY <1>0, <1>7, Shapes DEF Finish
  <1>8. CASE Restores
    BY <1>0, <1>8, Shapes DEF Restores, RestoreFrame, Terminal
  <1>9. CASE ClientApplies
    BY <1>0, <1>9, Shapes DEF ClientApplies
  <1> QED
    BY <1>1, <1>2, <1>3, <1>4, <1>5, <1>6, <1>7, <1>8, <1>9, Shapes, StepKinds


LEMMA VersionsGrowStep ==
  ASSUME OutcomeInv, [Next]_vars
  PROVE  VersionsGrow'
  <1> USE DEF Attempt, Current, Judging
  <1>0. VersionsGrow /\ UnderJudgement
    BY DEF OutcomeInv
  <1>a. \A i, j \in 1..Len(attempts) :
          i < j /\ attempts[i].version # 0 /\ attempts[j].version # 0
            => attempts[i].version < attempts[j].version
    BY <1>0, Shapes DEF VersionsGrow
  <1>b. \A i \in 1..Len(attempts) :
          attempts[i].outcome \in {"passed", "failed_tests", "untested"}
            => attempts[i].version # 0
    BY <1>0, Shapes DEF VersionsGrow
  <1>1. CASE UNCHANGED attempts
    BY <1>0, <1>1 DEF VersionsGrow
  <1>2. CASE SubmitPatch
    <2>1. \A i \in 1..Len(attempts') :
            \/ i \in 1..Len(attempts) /\ attempts'[i] = attempts[i]
            \/ attempts'[i].version = 0 /\ attempts'[i].outcome = "started"
      BY <1>2, Shapes, AttemptAppended
    <2> QED
      BY <1>a, <1>b, <2>1, Shapes DEF VersionsGrow
  <1>3. CASE Stores
    <2>1. Current.outcome = "started"
      BY <1>0, <1>3, Shapes DEF Stores, UnderJudgement
    <2>2. /\ Len(attempts') = Len(attempts)
          /\ \A i \in 1..Len(attempts) :
               \/ /\ i < Len(attempts)
                  /\ attempts'[i].version = attempts[i].version
                  /\ attempts'[i].outcome = attempts[i].outcome
               \/ /\ i = Len(attempts)
                  /\ attempts'[i].version = Len(patches) + 1
                  /\ attempts'[i].outcome = "started"
      BY <1>3, <2>1, Shapes DEF Stores, Records
    <2>3. \A i, j \in 1..Len(attempts) :
            i < j /\ attempts'[i].version # 0 /\ attempts'[j].version # 0
              => attempts'[i].version < attempts'[j].version
      BY <1>a, <2>2, Shapes
    <2> QED
      BY <1>b, <2>2, <2>3, Shapes DEF VersionsGrow
  <1>4. CASE Tests
    BY <1>0, <1>4, Shapes DEF Tests, Records, VersionsGrow
  <1>5. ASSUME NEW version \in 0..Len(patches), NEW valid \in BOOLEAN,
               NEW tests \in TestStatus, Judges(version, valid, tests)
        PROVE  VersionsGrow'
    <2>1. version = Current.version
      BY <1>0, <1>5 DEF Judges, UnderJudgement
    <2>2. OutcomeOf(valid, tests) \in {"passed", "failed_tests", "untested"} => version # 0
      BY <1>5 DEF OutcomeOf, Judges
    <2> QED
      BY <1>0, <1>5, <2>1, <2>2, Shapes, SMTT(30) DEF Judges, Records, VersionsGrow
  <1>6. CASE Breaks
    BY <1>0, <1>6, Shapes DEF Breaks, Records, VersionsGrow
  <1> QED
    BY <1>1, <1>2, <1>3, <1>4, <1>5, <1>6, StepKinds, Shapes
    DEF AgentWorks, Finish, Restores, RestoreFrame, ClientApplies

(* Two attempts never share a patch.                                       *)
LEMMA OwnPatch ==
  ASSUME OutcomeInv, NEW i \in DOMAIN attempts, NEW j \in DOMAIN attempts,
         attempts[i].version = attempts[j].version, attempts[i].version # 0
  PROVE  i = j
  <1>1. /\ i \in Nat /\ j \in Nat
        /\ attempts[i].version \in Nat /\ attempts[j].version \in Nat
    <2>1. attempts \in Seq(AttemptType)
      BY DEF OutcomeInv, IInv, TypeOK, RepairTypeOK
    <2>2. attempts[i] \in AttemptType /\ attempts[j] \in AttemptType
      BY <2>1
    <2> QED
      BY <2>1, <2>2, SMTT(30) DEF AttemptType
  <1>2. i < j \/ j < i \/ i = j
    BY <1>1
  <1> QED
    BY <1>1, <1>2 DEF OutcomeInv, VersionsGrow

LEMMA VerdictsAgreeStep ==
  ASSUME OutcomeInv, [Next]_vars
  PROVE  VerdictsAgree'
  <1> USE DEF VerdictsAgree, Attempt, Current, Judging
  <1>0. VerdictsAgree /\ UnderJudgement /\ TypeOK
    BY Shapes DEF OutcomeInv
  <1>1. CASE UNCHANGED <<attempts, patches>>
    BY <1>0, <1>1
  <1>2. CASE SubmitPatch
    <2>1. UNCHANGED patches
      BY <1>2 DEF SubmitPatch
    <2> QED
      BY <1>0, <1>2, <2>1, Shapes, AttemptAppended
  <1>3. CASE Stores
    <2>1. Current.outcome = "started" /\ workspace \in Diffs
      BY <1>0, <1>3, Shapes DEF Stores, UnderJudgement, TypeOK, RepairTypeOK
    <2>2. /\ \A v \in 1..Len(patches) : patches'[v] = patches[v]
          /\ ~patches'[Len(patches) + 1].valid
          /\ patches'[Len(patches) + 1].tests = "not_run"
      BY <1>0, <1>3, <2>1, PatchStored DEF Stores
    <2> QED
      BY <1>0, <1>3, <2>1, <2>2, Shapes, SMTT(30) DEF Stores, Records, VerdictOf
  <1>4. CASE Tests
    BY <1>0, <1>4, Shapes DEF Tests, Records
  <1>5. ASSUME NEW version \in 0..Len(patches), NEW valid \in BOOLEAN,
               NEW tests \in TestStatus, Judges(version, valid, tests)
        PROVE  VerdictsAgree'
    <2> DEFINE outcome == OutcomeOf(valid, tests)
    <2>1. version = Current.version
      BY <1>0, <1>5 DEF Judges, UnderJudgement
    <2>2. /\ valid <=> outcome \in {"passed", "failed_tests", "untested"}
          /\ (IF valid THEN tests ELSE "failed") = VerdictOf(outcome)
      BY DEF OutcomeOf, VerdictOf, TestStatus
    <2>3. /\ \A v \in 1..Len(patches) : v # version => patches'[v] = patches[v]
          /\ version # 0
               => /\ patches'[version].valid <=> valid
                  /\ patches'[version].tests = IF valid THEN tests ELSE "failed"
      BY <1>0, <1>5, PatchJudged DEF Judges
    <2>4. \A i \in 1..Len(attempts) :
            i # Attempt /\ attempts[i].version # 0 => attempts[i].version # version
      BY <2>1, OwnPatch, Shapes, <1>5 DEF Judges
    <2>5. Records(version, tests, outcome)
      BY <1>5 DEF Judges
    <2> HIDE DEF outcome
    <2>6. ASSUME NEW i \in 1..Len(attempts), attempts'[i].version # 0
          PROVE  /\ patches'[attempts'[i].version].valid
                      <=> attempts'[i].outcome \in {"passed", "failed_tests", "untested"}
                 /\ patches'[attempts'[i].version].tests = VerdictOf(attempts'[i].outcome)
      <3>1. CASE i = Attempt
        BY <2>2, <2>3, <2>5, <2>6, <3>1 DEF Records
      <3>2. CASE i # Attempt
        BY <1>0, <2>3, <2>4, <2>5, <2>6, <3>2, Shapes DEF Records
      <3> QED
        BY <3>1, <3>2
    <2> QED
      BY <2>5, <2>6, Shapes DEF Records
  <1>6. CASE Breaks
    <2>1. Current.outcome = "started" /\ UNCHANGED patches
      BY <1>0, <1>6, Shapes DEF Breaks, UnderJudgement
    <2> QED
      BY <1>0, <1>6, <2>1, Shapes DEF Breaks, Records, VerdictOf
  <1>7. CASE ClientApplies
    <2>1. PICK text \in Diffs : patches' \in {patches, StoredPatch(text)}
      BY <1>7 DEF ClientApplies
    <2>2. \A v \in 1..Len(patches) : patches'[v] = patches[v]
      BY <1>0, <2>1, PatchStored
    <2> QED
      BY <1>0, <1>7, <2>2, Shapes DEF ClientApplies
  <1> QED
    BY <1>1, <1>2, <1>3, <1>4, <1>5, <1>6, <1>7, StepKinds, Shapes
    DEF AgentWorks, Finish, Restores, RestoreFrame


LEMMA LatestKeptStep ==
  ASSUME OutcomeInv, [Next]_vars
  PROVE  LatestKept'
  <1> DEFINE Latest(version, among) ==
               IF among = {} THEN version = 0 ELSE IsLatest(version, among)
  <1>0. Latest(lastPatch, StoredAttempts) /\ Latest(passingPatch, PassedAttempts)
    BY DEF OutcomeInv, LatestKept
  <1>1. /\ StoredAttempts = {i \in 1..Len(attempts) : attempts[i].version # 0}
        /\ PassedAttempts = {i \in 1..Len(attempts) : attempts[i].outcome = "passed"}
        /\ StoredAttempts' = {i \in 1..Len(attempts') : attempts'[i].version # 0}
        /\ PassedAttempts' = {i \in 1..Len(attempts') : attempts'[i].outcome = "passed"}
    BY Shapes DEF StoredAttempts, PassedAttempts
  (* The attempts in question and their patches are those of before.       *)
  <1>2. ASSUME StoredAttempts' = StoredAttempts, lastPatch' = lastPatch,
               \A i \in StoredAttempts : attempts'[i].version = attempts[i].version
        PROVE  Latest(lastPatch, StoredAttempts)'
    BY <1>0, <1>2 DEF IsLatest
  <1>3. ASSUME PassedAttempts' = PassedAttempts, passingPatch' = passingPatch,
               \A i \in PassedAttempts : attempts'[i].version = attempts[i].version
        PROVE  Latest(passingPatch, PassedAttempts)'
    BY <1>0, <1>3 DEF IsLatest
  (* No attempt is later than the last one.                                *)
  <1>4. ASSUME Attempt \in StoredAttempts', Len(attempts') = Attempt,
               lastPatch' = attempts'[Attempt].version
        PROVE  Latest(lastPatch, StoredAttempts)'
    BY <1>1, <1>4, Shapes DEF IsLatest
  <1>5. ASSUME Attempt \in PassedAttempts', Len(attempts') = Attempt,
               passingPatch' = attempts'[Attempt].version
        PROVE  Latest(passingPatch, PassedAttempts)'
    BY <1>1, <1>5, Shapes DEF IsLatest
  <1>6. SUFFICES Latest(lastPatch, StoredAttempts)' /\ Latest(passingPatch, PassedAttempts)'
    BY DEF LatestKept
  <1> HIDE DEF Latest
  <1> USE DEF Attempt, Current
  <1>7. CASE UNCHANGED <<attempts, lastPatch, passingPatch>>
    BY <1>1, <1>2, <1>3, <1>7
  <1>8. CASE SubmitPatch
    <2>1. UNCHANGED <<lastPatch, passingPatch>>
      BY <1>8 DEF SubmitPatch
    <2>2. \A i \in 1..Len(attempts') :
            \/ i \in 1..Len(attempts) /\ attempts'[i] = attempts[i]
            \/ attempts'[i].version = 0 /\ attempts'[i].outcome = "started"
      BY <1>8, Shapes, AttemptAppended
    <2>3. /\ Len(attempts') = Len(attempts) + 1
          /\ \A i \in 1..Len(attempts) : attempts'[i] = attempts[i]
      BY <1>8, Shapes, AttemptAppended
    <2>4. StoredAttempts' = StoredAttempts /\ PassedAttempts' = PassedAttempts
      BY <1>1, <2>2, <2>3, Shapes
    <2> QED
      BY <1>1, <1>2, <1>3, <2>1, <2>3, <2>4
  <1>9. ASSUME pc \in Judging, NEW version, NEW tests, NEW outcome,
               Records(version, tests, outcome), version = Current.version
        PROVE  StoredAttempts' = StoredAttempts
               /\ \A i \in 1..Len(attempts) : attempts'[i].version = attempts[i].version
    BY <1>1, <1>9, Shapes DEF Records
  <1>10. ASSUME pc \in Judging, NEW version, NEW tests, NEW outcome,
                Records(version, tests, outcome), outcome # "passed"
         PROVE  /\ PassedAttempts' = PassedAttempts
                /\ \A i \in PassedAttempts : attempts'[i].version = attempts[i].version
    <2>1. Attempt \notin PassedAttempts
      BY <1>1, <1>10 DEF OutcomeInv, UnderJudgement, PassedAttempts
    <2> QED
      BY <1>1, <1>10, <2>1, Shapes DEF Records
  <1>11. CASE Stores
    <2>1. Current.outcome # "passed" /\ pc \in Judging
      BY <1>11, Shapes DEF Stores, OutcomeInv, UnderJudgement, Judging
    <2>2. Attempt \in StoredAttempts' /\ lastPatch' = attempts'[Attempt].version
          /\ Len(attempts') = Attempt
      BY <1>1, <1>11, <2>1, Shapes DEF Stores, Records
    <2> QED
      BY <1>3, <1>4, <1>10, <1>11, <2>1, <2>2 DEF Stores
  <1>12. CASE Tests
    <2>1. Current.outcome # "passed" /\ pc \in Judging
      BY <1>12, Shapes DEF Tests, OutcomeInv, UnderJudgement, Judging
    <2> QED
      BY <1>1, <1>2, <1>3, <1>7, <1>9, <1>10, <1>12, <2>1 DEF Tests
  <1>13. ASSUME NEW version \in 0..Len(patches), NEW valid \in BOOLEAN,
                NEW tests \in TestStatus, Judges(version, valid, tests)
         PROVE  Latest(lastPatch, StoredAttempts)' /\ Latest(passingPatch, PassedAttempts)'
    <2>1. version = Current.version /\ pc \in Judging
      BY <1>13 DEF Judges, OutcomeInv, UnderJudgement
    <2>2. Latest(lastPatch, StoredAttempts)'
      BY <1>1, <1>2, <1>9, <1>13, <2>1 DEF Judges
    <2>3. CASE valid /\ tests = "passed"
      <3>1. OutcomeOf(valid, tests) = "passed"
        BY <2>3 DEF OutcomeOf
      <3>2. Records(version, tests, "passed") /\ passingPatch' = version
        BY <1>13, <2>3, <3>1 DEF Judges, NextPassing
      <3>3. Attempt \in PassedAttempts' /\ passingPatch' = attempts'[Attempt].version
            /\ Len(attempts') = Attempt
        BY <1>1, <2>1, <3>2, Shapes DEF Records
      <3> QED
        BY <1>5, <2>2, <3>3
    <2>4. CASE ~(valid /\ tests = "passed")
      <3>1. OutcomeOf(valid, tests) # "passed" /\ passingPatch' = passingPatch
        BY <1>13, <2>4 DEF OutcomeOf, Judges, NextPassing
      <3> QED
        BY <1>3, <1>10, <1>13, <2>1, <2>2, <3>1 DEF Judges
    <2> QED
      BY <2>3, <2>4
  <1>14. CASE Breaks
    BY <1>1, <1>2, <1>3, <1>9, <1>10, <1>14 DEF Breaks
  <1> QED
    BY <1>7, <1>8, <1>11, <1>12, <1>13, <1>14, StepKinds, Shapes
    DEF AgentWorks, Finish, Restores, RestoreFrame, ClientApplies

LEMMA SelectionMadeStep ==
  ASSUME OutcomeInv, [Next]_vars
  PROVE  SelectionMade'
  <1> USE DEF SelectionMade
  <1>0. SelectionMade /\ TypeOK /\ FinalPatch \in 0..Len(patches)
    BY Shapes DEF OutcomeInv, TypeOK, RepairTypeOK, FinalPatch
  <1>1. CASE pc' \notin {"restore", "reapply"} \cup Terminal
    BY <1>1
  <1>2. ASSUME UNCHANGED <<patches, lastPatch, passingPatch, stopReason>>
        PROVE  /\ FinalPatch' = FinalPatch /\ FinalTests' = FinalTests
               /\ FinalIsAccepted(stopReason)' = FinalIsAccepted(stopReason)
    <2>1. /\ patches' = patches /\ lastPatch' = lastPatch
          /\ passingPatch' = passingPatch /\ stopReason' = stopReason
      BY <1>2
    <2> QED
      BY <2>1, Zenon DEF FinalPatch, FinalTests, FinalIsAccepted, FinalIsValid, FatalStop
  <1>3. CASE Finish
    <2>1. UNCHANGED <<patches, lastPatch, passingPatch, stopReason>>
      BY <1>3 DEF Finish
    <2> QED
      BY <1>2, <1>3, <2>1, Zenon DEF Finish
  <1>4. CASE Restores
    <2>1. /\ UNCHANGED <<patches, lastPatch, passingPatch, stopReason>>
          /\ selected' = selected /\ finalPassed' = finalPassed /\ accepted' = accepted
          /\ pc \in {"restore", "reapply"}
      BY <1>4 DEF Restores, RestoreFrame
    <2>2. /\ selected = FinalPatch /\ finalPassed = FinalTests
          /\ accepted = FinalIsAccepted(stopReason)
      BY <1>0, <2>1, Zenon
    <2> QED
      BY <1>2, <2>1, <2>2, Zenon
  <1>5. CASE ClientApplies
    <2>1. PICK text \in Diffs : patches' \in {patches, StoredPatch(text)}
      BY <1>5 DEF ClientApplies
    <2>2. \A v \in 1..Len(patches) : patches'[v] = patches[v]
      BY <1>0, <2>1, PatchStored
    <2>3. FinalPatch' = FinalPatch /\ (FinalPatch # 0 => patches'[FinalPatch] = patches[FinalPatch])
      BY <1>0, <1>5, <2>2, Shapes DEF ClientApplies, FinalPatch
    <2>4. /\ FinalTests' = FinalTests
          /\ FinalIsAccepted(stopReason)' = FinalIsAccepted(stopReason)
      BY <1>5, <2>3, Zenon DEF ClientApplies, FinalTests, FinalIsAccepted, FinalIsValid, FatalStop
    <2> QED
      BY <1>0, <1>5, <2>3, <2>4, Zenon DEF ClientApplies
  <1> QED
    BY <1>1, <1>3, <1>4, <1>5, StepKinds, Shapes
    DEF AgentWorks, SubmitPatch, Stores, Tests, Judges, Breaks, Terminal


(* An invalid patch adds itself to the invalid ones and one to the errors. *)
LEMMA InvalidPatchesStep ==
  ASSUME OutcomeInv, [Next]_vars
  PROVE  InvalidPatchesAreErrors'
  <1> DEFINE Invalid == {i \in 1..Len(attempts) : attempts[i].outcome = "invalid_patch"}
  <1>0. /\ Cardinality(Invalid) <= toolErrors /\ toolErrors \in Nat
        /\ IsFiniteSet(Invalid) /\ Cardinality(Invalid) \in Nat
    <2>1. IsFiniteSet(1..Len(attempts))
      BY Shapes, FS_Interval
    <2>2. IsFiniteSet(Invalid)
      BY <2>1, FS_Subset
    <2> QED
      BY <2>2, FS_CardinalityType, Shapes
      DEF OutcomeInv, InvalidPatchesAreErrors, IInv, TypeOK, LoopTypeOK
  <1>1. SUFFICES Cardinality(Invalid') <= toolErrors'
    BY Shapes DEF InvalidPatchesAreErrors
  <1>2. ASSUME Invalid' = Invalid, toolErrors' \in {toolErrors, toolErrors + 1}
        PROVE  Cardinality(Invalid') <= toolErrors'
    <2> HIDE DEF Invalid
    <2> QED
      BY <1>0, <1>2
  <1>3. ASSUME Invalid' = Invalid \cup {Attempt}, toolErrors' = toolErrors + 1
        PROVE  Cardinality(Invalid') <= toolErrors'
    <2> HIDE DEF Invalid
    <2>1. Cardinality(Invalid') \in {Cardinality(Invalid), Cardinality(Invalid) + 1}
      BY <1>0, <1>3, FS_AddElement
    <2> QED
      BY <1>0, <1>3, <2>1
  <1>4. CASE UNCHANGED <<attempts, toolErrors>>
    BY <1>2, <1>4
  <1>5. CASE AgentWorks
    BY <1>2, <1>5 DEF AgentWorks
  <1>6. CASE SubmitPatch
    <2>1. \A i \in 1..Len(attempts') :
            \/ i \in 1..Len(attempts) /\ attempts'[i] = attempts[i]
            \/ attempts'[i].outcome = "started"
      BY <1>6, Shapes, AttemptAppended
    <2>2. /\ Len(attempts') = Len(attempts) + 1
          /\ \A i \in 1..Len(attempts) : attempts'[i] = attempts[i]
      BY <1>6, Shapes, AttemptAppended
    <2>3. Invalid' = Invalid
      BY <2>1, <2>2, Shapes
    <2> QED
      BY <1>2, <1>6, <2>3 DEF SubmitPatch
  <1>7. ASSUME pc \in Judging, NEW version, NEW tests, NEW outcome,
               Records(version, tests, outcome)
        PROVE  Invalid' = IF outcome = "invalid_patch" THEN Invalid \cup {Attempt} ELSE Invalid
    <2>1. Current.outcome = "started" /\ Attempt \in 1..Len(attempts)
      BY <1>7, Shapes DEF OutcomeInv, UnderJudgement, Current, Attempt
    <2> QED
      BY <1>7, <2>1, Shapes DEF Records, Current
  <1>8. CASE Stores \/ Tests
    <2>1. Current.outcome = "started" /\ pc \in Judging
      BY <1>8, Shapes DEF Stores, Tests, OutcomeInv, UnderJudgement, Judging, Current, Attempt
    <2>2. Invalid' = Invalid
      <3>1. CASE UNCHANGED attempts
        BY <3>1
      <3>2. CASE \E version, tests : Records(version, tests, Current.outcome)
        BY <1>7, <2>1, <3>2
      <3> QED
        BY <1>8, <3>1, <3>2 DEF Stores, Tests
    <2>3. toolErrors' = toolErrors
      BY <1>8 DEF Stores, Tests
    <2> QED
      BY <1>2, <2>2, <2>3
  <1>9. ASSUME NEW version \in 0..Len(patches), NEW valid \in BOOLEAN,
               NEW tests \in TestStatus, Judges(version, valid, tests)
        PROVE  Cardinality(Invalid') <= toolErrors'
    <2>1. Records(version, tests, OutcomeOf(valid, tests)) /\ pc \in Judging
      BY <1>9 DEF Judges
    <2>2. CASE valid
      <3>1. OutcomeOf(valid, tests) # "invalid_patch" /\ toolErrors' = toolErrors
        BY <1>9, <2>2 DEF OutcomeOf, Judges
      <3>2. Invalid' = Invalid
        BY <1>7, <2>1, <3>1
      <3> QED
        BY <1>2, <3>1, <3>2
    <2>3. CASE ~valid
      <3>1. OutcomeOf(valid, tests) = "invalid_patch" /\ toolErrors' = toolErrors + 1
        BY <1>9, <2>3 DEF OutcomeOf, Judges
      <3>2. Invalid' = Invalid \cup {Attempt}
        BY <1>7, <2>1, <3>1
      <3> QED
        BY <1>3, <3>1, <3>2
    <2> QED
      BY <2>2, <2>3
  <1>10. CASE Breaks
    <2>1. Invalid' = Invalid
      BY <1>7, <1>10 DEF Breaks
    <2> QED
      BY <1>2, <1>10, <2>1 DEF Breaks
  <1> QED
    BY <1>4, <1>5, <1>6, <1>8, <1>9, <1>10, StepKinds, Shapes
    DEF Finish, Restores, RestoreFrame, ClientApplies

LEMMA StopsForAReasonStep ==
  ASSUME OutcomeInv, [Next]_vars
  PROVE  StopsForAReason'
  <1> USE DEF StopsForAReason, Attempt, Current
  <1>0. /\ StopsForAReason /\ UnderJudgement
        /\ stopReason = "none" <=> pc \in Working
        /\ config' = config /\ MaxAttempts' = MaxAttempts
        /\ MaxAttempts \in Nat /\ Len(attempts) <= MaxAttempts
    BY Shapes, AttemptsCounted, ConfigTypes
    DEF OutcomeInv, LoopOpen, IInv, MaxAttempts, BudgetsRespected
  <1>1. CASE UNCHANGED <<attempts, stopReason>>
    BY <1>0, <1>1
  <1>2. CASE stopReason' # "patch_submitted"
    BY <1>2
  <1>3. CASE UNCHANGED stopReason /\ pc \in Working
    BY <1>0, <1>3
  <1>4. ASSUME NEW version \in 0..Len(patches), NEW valid \in BOOLEAN,
               NEW tests \in TestStatus, Judges(version, valid, tests),
               stopReason' = "patch_submitted"
        PROVE  StopsForAReason'
    <2>1. StopAfter(valid, tests) /\ pc \in Judging
      BY <1>0, <1>4 DEF Judges, Working
    <2>2. \/ Len(attempts) = MaxAttempts
          \/ OutcomeOf(valid, tests) = "untested"
          \/ OutcomeOf(valid, tests) = "passed" /\ config.stopOnFirstPass
      BY <1>0, <2>1, Shapes DEF StopAfter, AttemptsRemain, OutcomeOf
    <2>3. /\ Len(attempts') = Len(attempts)
          /\ attempts'[Len(attempts)].outcome = OutcomeOf(valid, tests)
      BY <1>4, <2>1, Shapes DEF Judges, Records
    <2> QED
      BY <1>0, <2>2, <2>3
  <1> QED
    BY <1>0, <1>1, <1>2, <1>3, <1>4, StepKinds, Shapes
    DEF AgentWorks, SubmitPatch, Stores, Tests, Breaks, Finish, Restores,
        RestoreFrame, ClientApplies, Working, Judging


LEMMA InitOutcomeInv == Init => OutcomeInv
  <1> SUFFICES ASSUME Init PROVE OutcomeInv
    OBVIOUS
  <1>1. IInv
    BY InitIInv
  <1>2. /\ attempts = <<>> /\ DOMAIN attempts = {} /\ pc = "generate"
        /\ stopReason = "none" /\ lastPatch = 0 /\ passingPatch = 0
        /\ toolErrors = 0
    BY DEF Init, RepairInit
  <1>3. StoredAttempts = {} /\ PassedAttempts = {}
    BY <1>2 DEF StoredAttempts, PassedAttempts
  <1>4. Cardinality({i \in DOMAIN attempts : attempts[i].outcome = "invalid_patch"}) = 0
    <2>1. {i \in DOMAIN attempts : attempts[i].outcome = "invalid_patch"} = {}
      BY <1>2
    <2> QED
      BY <2>1, FS_EmptySet
  <1> QED
    BY <1>1, <1>2, <1>3, <1>4
    DEF OutcomeInv, UnderJudgement, LoopOpen, VersionsGrow, VerdictsAgree, LatestKept,
        SelectionMade, InvalidPatchesAreErrors, StopsForAReason, Judging, Working, Terminal

(* OutcomeInv is inductive.                                                *)
LEMMA NextOutcomeInv == OutcomeInv /\ [Next]_vars => OutcomeInv'
  <1> SUFFICES ASSUME OutcomeInv, [Next]_vars PROVE OutcomeInv'
    OBVIOUS
  <1> QED
    BY Shapes, UnderJudgementStep, LoopOpenStep, VersionsGrowStep, VerdictsAgreeStep,
       LatestKeptStep, SelectionMadeStep, InvalidPatchesStep, StopsForAReasonStep
    DEF OutcomeInv

(* The invariant behind the outcome of a run holds in every reachable      *)
(* state: which attempt is under way, what its patch is marked with, which *)
(* patches are remembered and what was selected (repairs.py).              *)
THEOREM OutcomeInductive == Spec => []OutcomeInv
  BY InitOutcomeInv, NextOutcomeInv, PTL DEF Spec

(* What finish chooses, in terms of the attempts alone.                    *)
LEMMA FinalChoice ==
  ASSUME OutcomeInv
  PROVE  /\ IF PassedAttempts # {} THEN IsLatest(FinalPatch, PassedAttempts)
            ELSE IF StoredAttempts # {} THEN IsLatest(FinalPatch, StoredAttempts)
            ELSE FinalPatch = 0
         /\ FinalTests = "passed" <=> PassedAttempts # {}
         /\ FinalIsValid /\ FinalTests # "failed"
              <=> \/ PassedAttempts # {}
                  \/ attempts # <<>> /\ Current.outcome = "untested"
  <1>1. /\ attempts \in Seq(AttemptType) /\ DOMAIN attempts = 1..Len(attempts)
        /\ Len(attempts) \in Nat
        /\ \A i \in 1..Len(attempts) : attempts[i].version \in Nat
    <2>1. attempts \in Seq(AttemptType)
      BY DEF OutcomeInv, IInv, TypeOK, RepairTypeOK
    <2>2. \A i \in 1..Len(attempts) : attempts[i] \in AttemptType
      BY <2>1
    <2> QED
      BY <2>1, <2>2 DEF AttemptType
  <1>2. LatestKept /\ VersionsGrow /\ VerdictsAgree /\ LoopOpen
    BY DEF OutcomeInv
  <1>3. CASE PassedAttempts # {}
    <2>1. PICK i \in PassedAttempts : attempts[i].version = passingPatch
      BY <1>2, <1>3 DEF LatestKept, IsLatest
    <2>2. i \in DOMAIN attempts /\ attempts[i].outcome = "passed" /\ attempts[i].version # 0
      BY <1>2, <2>1 DEF PassedAttempts, VersionsGrow
    <2>3. /\ passingPatch # 0 /\ FinalPatch = passingPatch
          /\ patches[FinalPatch].valid /\ patches[FinalPatch].tests = "passed"
      BY <1>2, <2>1, <2>2 DEF FinalPatch, VerdictsAgree, VerdictOf
    <2> QED
      BY <1>2, <1>3, <2>3 DEF LatestKept, FinalTests, FinalIsValid
  <1>4. CASE PassedAttempts = {} /\ StoredAttempts # {}
    <2>1. PICK i \in StoredAttempts :
            attempts[i].version = lastPatch /\ \A j \in StoredAttempts : j <= i
      BY <1>2, <1>4 DEF LatestKept, IsLatest
    <2>2. i \in DOMAIN attempts /\ lastPatch # 0 /\ attempts[i].outcome # "passed"
      BY <1>4, <2>1 DEF StoredAttempts, PassedAttempts
    <2>3. FinalPatch = lastPatch
      BY <1>2, <1>4 DEF LatestKept, FinalPatch
    <2>4. /\ patches[FinalPatch].valid <=> attempts[i].outcome \in {"failed_tests", "untested"}
          /\ patches[FinalPatch].tests = VerdictOf(attempts[i].outcome)
      BY <1>2, <2>1, <2>2, <2>3 DEF VerdictsAgree
    <2>5. /\ FinalTests # "passed"
          /\ FinalIsValid /\ FinalTests # "failed" <=> attempts[i].outcome = "untested"
      BY <2>2, <2>3, <2>4 DEF FinalTests, FinalIsValid, VerdictOf
    <2>6. attempts[i].outcome = "untested" => i = Len(attempts)
      BY <1>1, <1>2, <2>2 DEF LoopOpen, Attempt
    <2>7. Current.outcome = "untested" /\ attempts # <<>> => i = Len(attempts)
      BY <1>1, <1>2, <2>1, <2>2 DEF VersionsGrow, Current, Attempt, StoredAttempts
    <2>8. attempts # <<>>
      BY <1>1, <2>2
    <2> QED
      BY <1>2, <1>4, <2>3, <2>5, <2>6, <2>7, <2>8 DEF LatestKept, Current, Attempt
  <1>5. CASE PassedAttempts = {} /\ StoredAttempts = {}
    <2>1. FinalPatch = 0 /\ FinalTests = "not_run" /\ ~FinalIsValid
      BY <1>2, <1>5 DEF LatestKept, FinalPatch, FinalTests, FinalIsValid
    <2>2. attempts # <<>> => Current.outcome # "untested"
      BY <1>1, <1>2, <1>5 DEF VersionsGrow, StoredAttempts, Current, Attempt
    <2> QED
      BY <1>5, <2>1, <2>2
  <1> QED
    BY <1>3, <1>4, <1>5

(* What a run ends with is what its attempts have earned: the latest       *)
(* passing patch, or else the latest stored one, is selected; the run is   *)
(* accepted exactly for a passing or an untested patch without a fatal     *)
(* stop; it stops for a reason, and every invalid patch is an error.       *)
THEOREM OutcomeEarned == Spec => []OutcomeIsEarned
  <1>1. OutcomeInv => OutcomeIsEarned
    <2> SUFFICES ASSUME OutcomeInv PROVE OutcomeIsEarned
      OBVIOUS
    <2>1. SelectionMade /\ InvalidPatchesAreErrors /\ StopsForAReason
      BY DEF OutcomeInv
    <2>2. SelectionIsLatest
      BY <2>1, FinalChoice DEF SelectionIsLatest, SelectionMade
    <2>3. AcceptedIffEarned
      <3>1. pc = "returned" => (accepted <=> FinalIsAccepted(stopReason))
        BY <2>1 DEF SelectionMade, Terminal
      <3> QED
        BY <3>1, FinalChoice DEF AcceptedIffEarned, FinalIsAccepted
    <2> QED
      BY <2>1, <2>2, <2>3 DEF OutcomeIsEarned
  <1> QED
    BY <1>1, OutcomeInductive, PTL


-----------------------------------------------------------------------------
(* The workspace a run returns with.                                       *)

(* finish reports an accepted outcome only when the workspace shows the    *)
(* selected patch, whatever the agent or a client has made of it before.   *)
THEOREM SelectedWorkspaceReturned == Spec => ReturnsSelectedWorkspace
  <1> DEFINE Return == pc' = "returned" /\ pc # "returned" /\ accepted'
  <1>1. ASSUME [Next]_vars, Return
        PROVE  workspace' = TextOf(selected)'
    <2>1. pc # "returned" /\ pc' = "returned" /\ accepted'
      BY <1>1
    <2>2. CASE Finish
      <3>1. ~FinalIsValid /\ accepted' = FinalIsAccepted(stopReason)
        BY <2>1, <2>2 DEF Finish
      <3> QED
        BY <2>1, <3>1, Zenon DEF FinalIsAccepted
    <2>3. CASE RestoreUndo
      BY <2>1, <2>3 DEF RestoreUndo, RestoreFrame, TextOf
    <2>4. CASE RestoreApply
      BY <2>1, <2>4 DEF RestoreApply, RestoreFrame, TextOf
    <2>5. ~(CallModel \/ StepLimit \/ SubmitPatch \/ StorePatch \/ StoreBreaks
            \/ TestPatch \/ AssessBreaks \/ RestoreFails \/ ApiApply \/ UNCHANGED vars)
      BY <2>1 DEF CallModel, StepLimit, SubmitPatch, StorePatch, StoreBreaks, TestPatch,
                  AssessBreaks, RestoreFails, ApiApply, vars, loopVars, Break, Stop, Proceed
    <2>6. ~(OtherToolSucceeds \/ ToolFails \/ ObserveFiles \/ SubmitPlan
            \/ SubmitCandidates \/ SubmitHypothesis \/ WriteFile)
      BY <2>1 DEF OtherToolSucceeds, ToolFails, ObserveFiles, SubmitPlan, SubmitCandidates,
                  SubmitHypothesis, WriteFile, Succeeded, Failed, Stop, Proceed
    <2>7. ~(StoreRefused \/ CheckWorkspace \/ ApplyRefused \/ VerifyWorkspace)
      BY <2>1 DEF StoreRefused, CheckWorkspace, ApplyRefused, VerifyWorkspace, Assess,
                  Conclude, Stop
    <2> QED
      BY <1>1, <2>1, <2>2, <2>3, <2>4, <2>5, <2>6, <2>7 DEF Next, LoopStep, Terminated
  <1>2. [Next]_vars => [Return => workspace' = TextOf(selected)']_vars
    BY <1>1
  <1> QED
    BY <1>2, PTL DEF Spec, ReturnsSelectedWorkspace

-----------------------------------------------------------------------------
(* Reasoning after failed tests.                                           *)

(* The attempts whose assessment is over.                                  *)
Concluded == IF pc \in Judging THEN Attempt - 1 ELSE Attempt

(* _required_after remembers the latest failure that nothing has answered, *)
(* so that comparing with it compares with every earlier one.              *)
RequiredCovers ==
  pc \in Working
    => /\ requiredAfter <= Concluded
       /\ \A i \in 1..Concluded :
            attempts[i].tests = "failed" /\ (\A k \in i..Concluded : ~Settles(k))
              => i <= requiredAfter

ReasoningInv ==
  /\ OutcomeInv
  /\ RequiredCovers
  /\ FreshReasoning
  /\ RankingRenewable

LEMMA InitReasoningInv == Init => ReasoningInv
  <1> SUFFICES ASSUME Init PROVE ReasoningInv
    OBVIOUS
  <1>1. /\ attempts = <<>> /\ DOMAIN attempts = {} /\ Len(attempts) = 0
        /\ pc = "generate" /\ requiredAfter = 0
    BY DEF Init, RepairInit
  <1> QED
    BY <1>1, InitOutcomeInv
    DEF ReasoningInv, RequiredCovers, FreshReasoning, RankingRenewable, Concluded,
        Judging, Attempt

LEMMA RequiredCoversStep ==
  ASSUME ReasoningInv, [Next]_vars
  PROVE  RequiredCovers'
  <1> USE DEF Attempt, Judging, Working
  <1>0. OutcomeInv /\ RequiredCovers /\ requiredAfter \in 0..Len(attempts)
    BY DEF ReasoningInv, OutcomeInv, IInv, TypeOK, RepairTypeOK
  <1>1. CASE pc' \notin Working
    BY <1>1 DEF RequiredCovers
  <1>2. ASSUME pc \in Working, UNCHANGED <<attempts, requiredAfter>>, Concluded' = Concluded
        PROVE  RequiredCovers'
    BY <1>0, <1>2 DEF RequiredCovers, Settles
  <1>3. CASE AgentWorks
    BY <1>1, <1>2, <1>3 DEF AgentWorks, Concluded
  <1>4. CASE SubmitPatch
    <2>1. /\ Concluded = Len(attempts) /\ Concluded' = Len(attempts) /\ pc \in Working
          /\ requiredAfter' = requiredAfter
      BY <1>4, Shapes, <1>0, AttemptAppended DEF SubmitPatch, Concluded
    <2>2. \A i \in 1..Len(attempts) : attempts'[i] = attempts[i]
      BY <1>0, <1>4, Shapes, AttemptAppended
    <2> QED
      BY <1>0, <2>1, <2>2, Shapes DEF RequiredCovers, Settles
  <1>5. CASE Stores \/ Tests
    <2>1. Concluded' = Concluded /\ Concluded = Len(attempts) - 1 /\ pc \in Working
          /\ requiredAfter' = requiredAfter
      BY <1>0, <1>5, Shapes DEF Stores, Tests, Records, Concluded
    <2>2. \A i \in 1..Concluded : /\ attempts'[i].tests = attempts[i].tests
                                  /\ Settles(i)' <=> Settles(i)
      <3>1. CASE UNCHANGED attempts
        BY <3>1 DEF Settles
      <3>2. ASSUME NEW version, NEW tests, NEW outcome, Records(version, tests, outcome)
            PROVE  \A i \in 1..Concluded : /\ attempts'[i].tests = attempts[i].tests
                                           /\ Settles(i)' <=> Settles(i)
        BY <1>0, <2>1, <3>2, Shapes, SMTT(30) DEF Records, Settles
      <3> QED
        BY <1>5, <3>1, <3>2 DEF Stores, Tests
    <2>3. requiredAfter <= Concluded /\ pc \in Working /\ Concluded \in Int
      BY <1>0, <2>1, Shapes DEF RequiredCovers
    <2>4. ASSUME NEW i \in 1..Concluded, attempts'[i].tests = "failed",
                 \A k \in i..Concluded : ~Settles(k)'
          PROVE  i <= requiredAfter
      <3>1. \A k \in i..Concluded : ~Settles(k)
        BY <2>2, <2>3, <2>4
      <3> QED
        BY <1>0, <2>2, <2>3, <2>4, <3>1 DEF RequiredCovers
    <2> QED
      BY <2>1, <2>3, <2>4 DEF RequiredCovers
  <1>6. ASSUME NEW version \in 0..Len(patches), NEW valid \in BOOLEAN,
               NEW tests \in TestStatus, Judges(version, valid, tests),
               pc' \in Working
        PROVE  RequiredCovers'
    <2>1. /\ pc' = "generate" /\ pc \in Judging /\ ~StopAfter(valid, tests)
          /\ Records(version, tests, OutcomeOf(valid, tests))
          /\ requiredAfter' = NextRequired(valid, tests)
      BY <1>6 DEF Judges
    <2>2. Concluded = Len(attempts) - 1 /\ Concluded' = Len(attempts) /\ Len(attempts) > 0
          /\ Len(attempts') = Len(attempts)
      BY <1>0, <2>1, Shapes DEF Concluded, Records
    <2>3. CASE tests = "failed"
      <3>1. requiredAfter' = Len(attempts)
        BY <2>1, <2>3 DEF NextRequired, Reconsider
      <3> QED
        BY <2>2, <3>1, <1>0, Shapes DEF RequiredCovers
    <2>4. CASE tests # "failed" /\ valid
      <3>1. OutcomeOf(valid, tests) \in {"passed", "untested"}
        BY <2>4 DEF OutcomeOf
      <3>2. attempts'[Len(attempts)].outcome \in {"passed", "untested"}
        BY <2>1, <2>2, <3>1, <1>0, Shapes DEF Records
      <3>3. requiredAfter' = 0
        BY <2>1, <2>4 DEF NextRequired, Reconsider
      <3> QED
        BY <2>2, <3>2, <3>3, <1>0, Shapes DEF RequiredCovers, Settles
    <2>5. CASE tests # "failed" /\ ~valid
      <3>1. requiredAfter' = requiredAfter
        BY <2>1, <2>5 DEF NextRequired, Reconsider
      <3>2. /\ attempts'[Len(attempts)].tests # "failed"
            /\ \A i \in 1..Concluded : /\ attempts'[i].tests = attempts[i].tests
                                       /\ attempts'[i].outcome = attempts[i].outcome
        BY <2>1, <2>2, <2>5, <1>0, Shapes DEF Records
      <3>3. ASSUME NEW i \in 1..Len(attempts), attempts'[i].tests = "failed",
                   \A k \in i..Len(attempts) : ~Settles(k)'
            PROVE  i <= requiredAfter
        <4>1. i \in 1..Concluded /\ attempts[i].tests = "failed"
          BY <2>2, <3>2, <3>3, <1>0, Shapes, SMTT(30)
        <4>2. \A k \in i..Concluded : ~Settles(k)
          BY <2>2, <3>2, <3>3, <1>0, Shapes DEF Settles
        <4> QED
          BY <1>0, <2>1, <4>1, <4>2 DEF RequiredCovers
      <3>4. requiredAfter <= Concluded
        BY <1>0, <2>1 DEF RequiredCovers
      <3> QED
        BY <2>2, <3>1, <3>3, <3>4, <1>0, Shapes DEF RequiredCovers
    <2> QED
      BY <2>3, <2>4, <2>5
  <1>7. CASE ClientApplies
    BY <1>1, <1>2, <1>7 DEF ClientApplies, Concluded
  <1> QED
    BY <1>0, <1>1, <1>3, <1>4, <1>5, <1>6, <1>7, StepKinds, Shapes
    DEF Breaks, Finish, Restores, Terminal


(* submit_patch is refused unless the reasoning is newer than that of the  *)
(* attempt _required_after remembers.                                      *)
LEMMA SubmitIsFresh ==
  ASSUME ReasoningInv, [Next]_vars, SubmitPatch, requiredAfter # 0
  PROVE  LET new == attempts'[Len(attempts) + 1]
             old == attempts[requiredAfter]
         IN  /\ config.requireHypothesisUpdate => new.hypothesis > old.hypothesis
             /\ config.requirePlanUpdate => new.plan > old.plan
  <1>1. CheckAction("submit_patch") /\ TypeOK
    BY DEF SubmitPatch, MaySubmit, ReasoningInv, OutcomeInv, IInv
  <1>2. /\ config.requireHypothesisUpdate
             => ReasoningRevisions.hypothesis > attempts[requiredAfter].hypothesis
        /\ config.requirePlanUpdate
             => ReasoningRevisions.plan > attempts[requiredAfter].plan
    BY <1>1 DEF CheckAction
  <1> QED
    BY <1>1, <1>2, AttemptAppended

LEMMA FreshReasoningStep ==
  ASSUME ReasoningInv, [Next]_vars
  PROVE  FreshReasoning'
  <1> USE DEF Attempt
  <1>0. /\ OutcomeInv /\ FreshReasoning /\ RequiredCovers
        /\ requiredAfter \in 0..Len(attempts) /\ config' = config
    BY AttemptsCounted
    DEF ReasoningInv, OutcomeInv, IInv, TypeOK, RepairTypeOK
  <1>a. \A i \in 1..Len(attempts) : attempts[i].hypothesis \in Nat /\ attempts[i].plan \in Nat
    BY <1>0, Shapes DEF AttemptType
  <1>1. CASE UNCHANGED attempts
    BY <1>0, <1>1 DEF FreshReasoning, Settles
  (* Attempts only change where no later attempt is compared with them.    *)
  <1>2. ASSUME NEW version, NEW tests, NEW outcome, Records(version, tests, outcome)
        PROVE  FreshReasoning'
    <2>1. SUFFICES ASSUME NEW i \in 1..Len(attempts), NEW j \in 1..Len(attempts), i < j,
                          attempts'[i].tests = "failed",
                          \A k \in i..(j - 1) : ~Settles(k)'
                   PROVE  /\ config.requireHypothesisUpdate
                               => attempts'[j].hypothesis > attempts'[i].hypothesis
                          /\ config.requirePlanUpdate
                               => attempts'[j].plan > attempts'[i].plan
      BY <1>0, <1>2, Shapes DEF FreshReasoning, Records
    <2>2. \A k \in i..(j - 1) : k \in 1..Len(attempts) /\ k # Len(attempts)
      BY <1>0, Shapes
    <2>3. attempts[i].tests = "failed"
      BY <1>0, <1>2, <2>1, Shapes DEF Records
    <2>4. \A k \in i..(j - 1) : ~Settles(k)
      BY <1>2, <2>1, <2>2 DEF Records, Settles
    <2>5. /\ config.requireHypothesisUpdate => attempts[j].hypothesis > attempts[i].hypothesis
          /\ config.requirePlanUpdate => attempts[j].plan > attempts[i].plan
      BY <1>0, <2>1, <2>3, <2>4, Shapes DEF FreshReasoning
    <2> QED
      BY <1>2, <2>5 DEF Records
  <1>3. CASE SubmitPatch
    <2> DEFINE n == Len(attempts)
    <2>1. /\ Len(attempts') = n + 1 /\ n \in Nat
          /\ \A i \in 1..n : attempts'[i] = attempts[i]
      BY <1>0, <1>3, Shapes, AttemptAppended
    <2>2. SUFFICES ASSUME NEW i \in 1..(n + 1), NEW j \in 1..(n + 1), i < j,
                          attempts'[i].tests = "failed",
                          \A k \in i..(j - 1) : ~Settles(k)'
                   PROVE  /\ config.requireHypothesisUpdate
                               => attempts'[j].hypothesis > attempts'[i].hypothesis
                          /\ config.requirePlanUpdate
                               => attempts'[j].plan > attempts'[i].plan
      BY <1>0, <2>1, Shapes DEF FreshReasoning
    <2>3. /\ i \in 1..n /\ attempts[i].tests = "failed"
          /\ \A k \in i..(j - 1) : k \in 1..n /\ ~Settles(k)
      BY <2>1, <2>2 DEF Settles
    <2>4. CASE j \in 1..n
      BY <1>0, <2>1, <2>2, <2>3, <2>4, Shapes DEF FreshReasoning
    <2>5. CASE j = n + 1
      <3>1. /\ i <= requiredAfter /\ requiredAfter \in 1..n
        <4>1. pc \in Working /\ Concluded = n
          BY <1>3 DEF SubmitPatch, Working, Concluded, Judging
        <4> QED
          BY <1>0, <2>3, <2>5, <4>1 DEF RequiredCovers
      <3>2. /\ config.requireHypothesisUpdate
                 => attempts'[j].hypothesis > attempts[requiredAfter].hypothesis
            /\ config.requirePlanUpdate => attempts'[j].plan > attempts[requiredAfter].plan
        BY <1>3, <2>5, <3>1, SubmitIsFresh
      <3>3. CASE i = requiredAfter
        BY <2>1, <2>3, <3>2, <3>3
      <3>4. CASE i < requiredAfter
        <4>1. \A k \in i..(requiredAfter - 1) : ~Settles(k)
          BY <2>1, <2>3, <2>5, <3>1
        <4>2. /\ config.requireHypothesisUpdate
                   => attempts[requiredAfter].hypothesis > attempts[i].hypothesis
              /\ config.requirePlanUpdate
                   => attempts[requiredAfter].plan > attempts[i].plan
          BY <1>0, <2>3, <3>1, <3>4, <4>1, Shapes DEF FreshReasoning
        <4>3. /\ attempts'[j].hypothesis \in Nat /\ attempts'[j].plan \in Nat
          <5>1. attempts' \in Seq(AttemptType) /\ j \in 1..Len(attempts')
            BY <1>0, <2>1, <2>5, Shapes DEF IInv, TypeOK, RepairTypeOK
          <5>2. attempts'[j] \in AttemptType
            BY <5>1
          <5> QED
            BY <5>2 DEF AttemptType
        <4> QED
          BY <1>a, <2>1, <2>3, <3>1, <3>2, <4>2, <4>3, SMTT(30)
      <3> QED
        BY <2>1, <3>1, <3>3, <3>4
    <2> QED
      BY <2>4, <2>5
  <1> QED
    BY <1>0, <1>1, <1>2, <1>3, StepKinds, Shapes
    DEF AgentWorks, Stores, Tests, Judges, Breaks, Finish, Restores, RestoreFrame,
        ClientApplies


(* The revision of the ranking an attempt was begun with never changes.    *)
LEMMA RankingKept ==
  ASSUME OutcomeInv, [Next]_vars
  PROVE  \A i \in 1..Len(attempts) : attempts'[i].candidate = attempts[i].candidate
  <1>1. CASE UNCHANGED attempts
    BY <1>1
  <1>2. ASSUME NEW version, NEW tests, NEW outcome, Records(version, tests, outcome)
        PROVE  \A i \in 1..Len(attempts) : attempts'[i].candidate = attempts[i].candidate
    BY <1>2 DEF Records
  <1>3. CASE SubmitPatch
    BY <1>3, Shapes, AttemptAppended
  <1> QED
    BY <1>1, <1>2, <1>3, StepKinds, Shapes
    DEF AgentWorks, Stores, Tests, Judges, Breaks, Finish, Restores, RestoreFrame,
        ClientApplies

(* The ranking changes in three ways only: a write closes it, a submission *)
(* renews it, a verdict on failed tests opens it.                          *)
LEMMA RankingRenewableStep ==
  ASSUME ReasoningInv, [Next]_vars
  PROVE  RankingRenewable'
  <1> DEFINE Old == attempts[requiredAfter].candidate
  <1>0. /\ OutcomeInv /\ RankingRenewable /\ config' = config
        /\ requiredAfter \in 0..Len(attempts)
        /\ candidates \in [revision : Nat, editingStarted : BOOLEAN]
    BY AttemptsCounted
    DEF ReasoningInv, OutcomeInv, IInv, TypeOK, RepairTypeOK, GatesTypeOK
  <1>1. requiredAfter # 0 => /\ attempts'[requiredAfter].candidate = Old
                             /\ Old \in Nat
    BY <1>0, RankingKept, Shapes DEF AttemptType
  <1>2. CASE requiredAfter' = 0 \/ pc' \in Terminal
    BY <1>2 DEF RankingRenewable
  <1>3. ASSUME UNCHANGED <<requiredAfter, candidates>>, pc \notin Terminal
        PROVE  RankingRenewable'
    BY <1>0, <1>1, <1>3 DEF RankingRenewable
  <1>4. CASE WriteFile
    <2>1. /\ candidates'.revision = candidates.revision
          /\ requiredAfter # 0 /\ config.requireCandidateUpdate => candidates.revision > Old
          /\ requiredAfter' = requiredAfter
      BY <1>0, <1>4 DEF WriteFile, MayWrite, EditingStarted, CheckAction, ReasoningRevisions
    <2> QED
      BY <1>0, <1>1, <2>1 DEF RankingRenewable
  <1>5. CASE SubmitCandidates
    <2>1. /\ requiredAfter' = requiredAfter /\ pc \notin Terminal
          /\ candidates' = candidates \/ candidates' = CandidatesSubmitted
      BY <1>5 DEF SubmitCandidates, repairVars, ToolTurn, Terminal
    <2>2. CASE candidates' = CandidatesSubmitted
      <3>1. /\ candidates'.revision = candidates.revision + 1
            /\ candidates'.editingStarted = candidates.editingStarted
        BY <1>0, <2>2, Zenon DEF CandidatesSubmitted
      <3> QED
        BY <1>0, <1>1, <2>1, <3>1 DEF RankingRenewable
    <2> QED
      BY <1>3, <2>1, <2>2
  <1>6. ASSUME NEW version, NEW valid, NEW tests, Assess(version, valid, tests), pc \in Judging
        PROVE  RankingRenewable'
    <2>1. CASE Reconsider(valid, tests)
      <3>1. candidates' = RepairBegun
        BY <1>6, <2>1 DEF Assess, Assessed
      <3>2. ~candidates'.editingStarted
        BY <1>0, <3>1, Zenon DEF RepairBegun
      <3> QED
        BY <3>2 DEF RankingRenewable
    <2>2. CASE ~Reconsider(valid, tests)
      <3>1. candidates' = candidates /\ requiredAfter' \in {0, requiredAfter}
        BY <1>6, <2>2 DEF Assess, Assessed, NextRequired
      <3> QED
        BY <1>2, <1>3, <1>6, <3>1 DEF Judging, Terminal
    <2> QED
      BY <2>1, <2>2
  <1>7. CASE StoreRefused \/ CheckWorkspace \/ ApplyRefused \/ VerifyWorkspace
    <2>1. pc \in Judging /\ pc \notin Terminal
      BY <1>7 DEF StoreRefused, CheckWorkspace, ApplyRefused, VerifyWorkspace, Judging, Terminal
    <2> QED
      BY <1>3, <1>6, <1>7, <2>1
      DEF StoreRefused, CheckWorkspace, ApplyRefused, VerifyWorkspace, gateVars
  <1>8. CASE \/ CallModel \/ StepLimit \/ OtherToolSucceeds \/ ToolFails
             \/ ObserveFiles \/ SubmitPlan \/ SubmitHypothesis
    <2>1. UNCHANGED <<requiredAfter, candidates>> /\ pc \notin Terminal
      BY <1>8 DEF CallModel, StepLimit, OtherToolSucceeds, ToolFails, ObserveFiles,
                  SubmitPlan, SubmitHypothesis, ToolTurn, gateVars, repairVars, Terminal
    <2> QED
      BY <1>3, <2>1
  <1>9. CASE \/ SubmitPatch \/ StorePatch \/ StoreBreaks \/ TestPatch \/ AssessBreaks
             \/ Finish \/ RestoreUndo \/ RestoreApply \/ RestoreFails \/ ApiApply
    <2>1. UNCHANGED <<requiredAfter, candidates>> /\ pc \notin Terminal
      BY <1>9 DEF SubmitPatch, StorePatch, StoreBreaks, TestPatch, AssessBreaks, Break,
                  Finish, RestoreUndo, RestoreApply, RestoreFails, RestoreFrame, ApiApply,
                  gateVars, Terminal
    <2> QED
      BY <1>3, <2>1
  <1>10. CASE UNCHANGED vars
    BY <1>2, <1>3, <1>10 DEF vars, gateVars, repairVars, loopVars
  <1> QED
    BY <1>4, <1>5, <1>7, <1>8, <1>9, <1>10 DEF Next, LoopStep, Terminated

LEMMA NextReasoningInv == ReasoningInv /\ [Next]_vars => ReasoningInv'
  <1> SUFFICES ASSUME ReasoningInv, [Next]_vars PROVE ReasoningInv'
    OBVIOUS
  <1> QED
    BY NextOutcomeInv, RequiredCoversStep, FreshReasoningStep, RankingRenewableStep
    DEF ReasoningInv

(* After failed tests a later attempt rests on a newer hypothesis and plan *)
(* wherever the configuration asks for it, over any number of invalid or   *)
(* failing attempts between the two, and the ranking of candidate files    *)
(* can be renewed before the next edit (repairs.py, candidate_files.py).   *)
THEOREM ReasoningRenewed == Spec => []ReasoningIsRenewed
  <1>1. ReasoningInv => ReasoningIsRenewed
    BY DEF ReasoningInv, ReasoningIsRenewed
  <1> QED
    BY <1>1, InitReasoningInv, NextReasoningInv, PTL DEF Spec

-----------------------------------------------------------------------------
(* The plan gate.                                                          *)

(* Once the plan revisions are used up without an accepted plan, no later  *)
(* plan is accepted, nothing is submitted, and only a client can still     *)
(* change the workspace (planning.py).                                     *)
THEOREM LockoutIsFinal == Spec => PlanLockoutIsFinal
  <1> DEFINE Kept == PlanLocked' /\ Attempt' = Attempt
                     /\ (workspace' # workspace => apiApplies' # apiApplies)
  <1>1. ASSUME TypeOK, [Next]_vars, PlanLocked, pc = "tool"
        PROVE  Kept
    <2>0. /\ config \in ConfigType /\ config.maxPlanRevisions \in Nat
          /\ plan.revision \in Nat /\ apiApplies \in Nat
      BY <1>1, ConfigsAssumption, ConfigTypes, ApiAssumption
      DEF TypeOK, GatesTypeOK, LoopTypeOK
    <2>1. CASE UNCHANGED <<config, plan, attempts, workspace>>
      BY <1>1, <2>1 DEF PlanLocked, Attempt
    <2>2. CASE SubmitPlan
      <3>1. PICK wellFormed \in BOOLEAN, cited \in SUBSET Files :
              plan' = PlanSubmitted(wellFormed, cited)
        BY <2>2 DEF SubmitPlan
      <3>2. ~PlanIsAccepted(wellFormed, cited)
        BY <1>1, <2>0 DEF PlanLocked, PlanIsAccepted
      <3>3. plan'.revision = plan.revision + 1 /\ ~plan'.accepted
        BY <3>1, <3>2, Zenon DEF PlanSubmitted
      <3>4. UNCHANGED <<config, attempts, workspace>>
        BY <2>2 DEF SubmitPlan, ToolTurn, repairVars
      <3> QED
        BY <1>1, <2>0, <3>3, <3>4 DEF PlanLocked, Attempt
    <2>3. ~WriteFile /\ ~SubmitPatch
      BY <1>1 DEF WriteFile, SubmitPatch, MayWrite, MaySubmit, PlanCheckEdit, PlanLocked
    <2>4. CASE ApiApply
      <3>1. apiApplies' = apiApplies + 1 /\ UNCHANGED <<config, plan, attempts>>
        BY <2>4 DEF ApiApply, gateVars
      <3> QED
        BY <1>1, <2>0, <3>1 DEF PlanLocked, Attempt
    <2>5. CASE \/ CallModel \/ StepLimit \/ OtherToolSucceeds \/ ToolFails
               \/ ObserveFiles \/ SubmitCandidates \/ SubmitHypothesis
      BY <2>1, <2>5
      DEF CallModel, StepLimit, OtherToolSucceeds, ToolFails, ObserveFiles,
          SubmitCandidates, SubmitHypothesis, ToolTurn, gateVars, repairVars
    <2>6. ~(\/ StorePatch \/ StoreRefused \/ StoreBreaks \/ CheckWorkspace \/ TestPatch
            \/ ApplyRefused \/ VerifyWorkspace \/ AssessBreaks \/ Finish
            \/ RestoreUndo \/ RestoreApply \/ RestoreFails \/ Terminated)
      BY <1>1
      DEF StorePatch, StoreRefused, StoreBreaks, CheckWorkspace, TestPatch, ApplyRefused,
          VerifyWorkspace, AssessBreaks, Finish, RestoreUndo, RestoreApply, RestoreFails,
          Terminated, Terminal
    <2>7. CASE UNCHANGED vars
      BY <2>1, <2>7 DEF vars, gateVars, repairVars
    <2> QED
      BY <1>1, <2>2, <2>3, <2>4, <2>5, <2>6, <2>7 DEF Next, LoopStep
  <1>2. TypeOK /\ [Next]_vars => [PlanLocked /\ pc = "tool" => Kept]_vars
    BY <1>1
  <1> QED
    BY <1>2, TypeCorrect, PTL DEF Spec, PlanLockoutIsFinal

-----------------------------------------------------------------------------
(* AgentLoop implements RepairPromise for every configuration, every set   *)
(* of files and any number of the client's patches: each of its steps is a *)
(* step of the promise or changes nothing the promise speaks of.           *)

(* What the promise speaks of, in terms of the loop.                       *)
promised == <<MaxAttempts, PromisedVerdicts, PromisedPhase, PromisedFatal,
              PromisedChoice, PromisedResult>>

-----------------------------------------------------------------------------
(* The verdicts.                                                           *)

(* The promise speaks of the verdicts on the concluded attempts.           *)
VerdictsMatch ==
  /\ JudgedAttempts = IF pc \in Judging THEN Len(attempts) - 1 ELSE Len(attempts)
  /\ JudgedAttempts \in Nat
  /\ DOMAIN PromisedVerdicts = 1..JudgedAttempts
  /\ Len(PromisedVerdicts) = JudgedAttempts
  /\ PromisedVerdicts \in Seq(Promise!Verdicts)
  /\ \A i \in 1..JudgedAttempts :
       /\ i \in DOMAIN attempts
       /\ attempts[i].outcome # "started"
       /\ PromisedVerdicts[i].outcome = attempts[i].outcome
       /\ PromisedVerdicts[i].stored <=> attempts[i].version # 0

LEMMA VerdictsPromised == OutcomeInv => VerdictsMatch
  <1> SUFFICES ASSUME OutcomeInv PROVE VerdictsMatch
    OBVIOUS
  <1> DEFINE n == JudgedAttempts
             verdict(i) == [outcome |-> attempts[i].outcome,
                            stored |-> attempts[i].version # 0]
  <1>1. /\ attempts \in Seq(AttemptType) /\ DOMAIN attempts = 1..Len(attempts)
        /\ Len(attempts) \in Nat /\ (attempts = <<>> <=> Len(attempts) = 0)
        /\ pc \in Judging => Len(attempts) > 0
    BY DEF OutcomeInv, IInv, TypeOK, RepairTypeOK, AttemptUnderWay, Attempt
  <1>2. n = IF pc \in Judging THEN Len(attempts) - 1 ELSE Len(attempts)
    BY <1>1 DEF OutcomeInv, UnderJudgement, JudgedAttempts, Attempt, Current
  <1>3. n \in Nat /\ \A i \in 1..n : i \in DOMAIN attempts
    <2>1. CASE pc \in Judging
      BY <1>1, <1>2, <2>1
    <2>2. CASE pc \notin Judging
      BY <1>1, <1>2, <2>2
    <2> QED
      BY <2>1, <2>2
  <1>4. \A i \in 1..n : attempts[i].outcome # "started"
    <2>1. CASE pc \in Judging
      BY <1>1, <1>2, <1>3, <2>1 DEF OutcomeInv, UnderJudgement, Attempt
    <2>2. CASE pc \notin Judging
      BY <1>1, <1>3, <2>2 DEF OutcomeInv, UnderJudgement
    <2> QED
      BY <2>1, <2>2
  <1>5. \A i \in 1..n : verdict(i) \in Promise!Verdicts
    <2> SUFFICES ASSUME NEW i \in 1..n PROVE verdict(i) \in Promise!Verdicts
      OBVIOUS
    <2>1. i \in DOMAIN attempts /\ attempts[i].outcome # "started"
      BY <1>3, <1>4
    <2>2. attempts[i] \in AttemptType
      BY <1>1, <2>1
    <2>3. attempts[i].outcome \in AttemptOutcomes
      BY <2>2 DEF AttemptType
    <2>4. (attempts[i].version # 0) \in BOOLEAN
      BY Zenon
    <2>5. attempts[i].outcome
            \in {"passed", "failed_tests", "untested", "invalid_patch", "error"}
      BY <2>1, <2>3 DEF AttemptOutcomes
    <2> QED
      BY <2>4, <2>5, Zenon DEF Promise!Verdicts
  <1>6. PromisedVerdicts = [i \in 1..n |-> verdict(i)]
    BY DEF PromisedVerdicts
  <1>7. \A i \in 1..n : verdict(i).outcome = attempts[i].outcome
                        /\ (verdict(i).stored <=> attempts[i].version # 0)
    BY Zenon
  <1> HIDE DEF n, verdict
  <1>8. PromisedVerdicts \in Seq(Promise!Verdicts)
    BY <1>3, <1>5, <1>6
  <1>9. Len(PromisedVerdicts) = n /\ DOMAIN PromisedVerdicts = 1..n
    BY <1>3, <1>6
  <1> QED
    BY <1>2, <1>3, <1>4, <1>6, <1>7, <1>8, <1>9 DEF n, VerdictsMatch

LEMMA VerdictsPromisedNext == OutcomeInv' => VerdictsMatch'
  BY VerdictsPromised, PTL

(* Nothing else of the attempts shows in the promise.                      *)
LEMMA VerdictsKept ==
  ASSUME OutcomeInv, JudgedAttempts' = JudgedAttempts,
         \A i \in 1..JudgedAttempts :
           /\ attempts'[i].outcome = attempts[i].outcome
           /\ attempts'[i].version # 0 <=> attempts[i].version # 0
  PROVE  PromisedVerdicts' = PromisedVerdicts
  <1>1. \A i \in 1..JudgedAttempts : (attempts'[i].version # 0) = (attempts[i].version # 0)
    BY Zenon
  <1> QED
    BY <1>1, Zenon DEF PromisedVerdicts

(* The verdict on the attempt under way is appended to them.               *)
LEMMA VerdictAdded ==
  ASSUME OutcomeInv, OutcomeInv', pc \in Judging, pc' \notin Judging,
         NEW version, NEW tests, NEW outcome, Records(version, tests, outcome)
  PROVE  \E v \in Promise!Verdicts :
           /\ v.outcome = outcome
           /\ v.stored <=> version # 0
           /\ PromisedVerdicts' = Append(PromisedVerdicts, v)
  <1> DEFINE n == JudgedAttempts
             v == PromisedVerdicts'[n + 1]
  <1>0. VerdictsMatch /\ VerdictsMatch'
    BY VerdictsPromised, VerdictsPromisedNext
  <1>1. /\ n \in Nat /\ n + 1 = Len(attempts) /\ JudgedAttempts' = n + 1
        /\ PromisedVerdicts \in Seq(Promise!Verdicts) /\ Len(PromisedVerdicts) = n
        /\ PromisedVerdicts' \in Seq(Promise!Verdicts) /\ Len(PromisedVerdicts') = n + 1
        /\ v \in Promise!Verdicts
    <2>1. Len(attempts) \in Nat /\ Len(attempts') = Len(attempts)
      BY DEF OutcomeInv, IInv, TypeOK, RepairTypeOK, Records
    <2>2. n \in Nat /\ n = Len(attempts) - 1
      BY <1>0 DEF VerdictsMatch
    <2>3. JudgedAttempts' = Len(attempts)
      BY <1>0, <2>1 DEF VerdictsMatch
    <2> HIDE DEF n
    <2> QED
      BY <1>0, <2>1, <2>2, <2>3 DEF VerdictsMatch, n
  <1>2. \A i \in 1..n : PromisedVerdicts'[i] = PromisedVerdicts[i]
    <2> SUFFICES ASSUME NEW i \in 1..n
                 PROVE  PromisedVerdicts'[i] = PromisedVerdicts[i]
      OBVIOUS
    <2>1. i \in 1..Len(attempts) /\ i # Attempt /\ i \in 1..JudgedAttempts'
      BY <1>1 DEF Attempt
    <2>2. /\ attempts'[i].outcome = attempts[i].outcome
          /\ (attempts'[i].version # 0) = (attempts[i].version # 0)
      BY <2>1, Zenon DEF Records
    <2> QED
      BY <2>1, <2>2, Zenon DEF PromisedVerdicts
  <1>3. v.outcome = outcome /\ (v.stored <=> version # 0)
    <2>1. /\ n + 1 \in 1..JudgedAttempts' /\ n + 1 \in 1..Len(attempts)
          /\ n + 1 = Attempt
      BY <1>1 DEF Attempt
    <2>2. attempts'[n + 1].outcome = outcome /\ attempts'[n + 1].version = version
      BY <2>1 DEF Records
    <2>3. /\ PromisedVerdicts'[n + 1].outcome = attempts'[n + 1].outcome
          /\ PromisedVerdicts'[n + 1].stored <=> attempts'[n + 1].version # 0
      BY <1>0, <2>1, Zenon DEF VerdictsMatch
    <2> QED
      BY <2>2, <2>3, Zenon
  <1>4. PromisedVerdicts' = Append(PromisedVerdicts, v)
    <2> HIDE DEF n, v
    <2> QED
      BY <1>1, <1>2 DEF v
  <1> QED
    BY <1>1, <1>3, <1>4

-----------------------------------------------------------------------------
(* The choice.                                                             *)

LEMMA LatestIs ==
  ASSUME NEW S \in SUBSET Nat, NEW i \in S, \A j \in S : j <= i
  PROVE  Promise!LatestOf(S) = i
  <1>1. \A k \in S : (\A j \in S : j <= k) => k = i
    OBVIOUS
  <1>2. S # {} /\ Promise!LatestOf(S) = CHOOSE k \in S : \A j \in S : j <= k
    BY DEF Promise!LatestOf
  <1> QED
    BY <1>1, <1>2

(* Without an attempt under way, the verdicts determine what finish selects*)
(* and, with the reason of the stop, whether it accepts it.                *)
LEMMA ChoiceDetermined ==
  ASSUME OutcomeInv, pc \notin Judging \cup Working
  PROVE  /\ FinalPatch = 0 => Promise!Best = 0
         /\ FinalPatch # 0
              => /\ Promise!Best \in DOMAIN attempts
                 /\ attempts[Promise!Best].version = FinalPatch
         /\ Promise!Earned <=> FinalIsAccepted(stopReason)
  <1>0. /\ VerdictsMatch /\ LatestKept /\ VersionsGrow /\ LoopOpen
        /\ attempts \in Seq(AttemptType) /\ Len(attempts) \in Nat
        /\ DOMAIN attempts = 1..Len(attempts)
    BY VerdictsPromised DEF OutcomeInv, IInv, TypeOK, RepairTypeOK
  <1>1. JudgedAttempts = Len(attempts) /\ DOMAIN PromisedVerdicts = DOMAIN attempts
    BY <1>0 DEF VerdictsMatch
  <1>2. Promise!Passed = PassedAttempts /\ Promise!Stored = StoredAttempts
    BY <1>0, <1>1 DEF VerdictsMatch, Promise!Passed, Promise!Stored, PassedAttempts,
                      StoredAttempts
  <1>3. PassedAttempts \in SUBSET Nat /\ StoredAttempts \in SUBSET Nat
    BY <1>0 DEF PassedAttempts, StoredAttempts
  <1>4. PromisedFatal <=> FatalStop(stopReason)
    BY <1>0 DEF PromisedFatal, LoopOpen
  <1>5. CASE PassedAttempts # {}
    <2>1. PICK i \in PassedAttempts :
            attempts[i].version = FinalPatch /\ \A j \in PassedAttempts : j <= i
      BY <1>5, FinalChoice DEF IsLatest
    <2>2. Promise!Best = i
      BY <1>2, <1>3, <1>5, <2>1, LatestIs DEF Promise!Best
    <2>3. i \in DOMAIN attempts /\ attempts[i].version # 0
      BY <1>0 DEF PassedAttempts, VersionsGrow
    <2>4. FinalIsValid /\ FinalTests # "failed"
      BY <1>5, FinalChoice
    <2> QED
      BY <1>2, <1>4, <1>5, <2>1, <2>2, <2>3, <2>4 DEF Promise!Earned, FinalIsAccepted
  <1>6. CASE PassedAttempts = {} /\ StoredAttempts # {}
    <2>1. PICK i \in StoredAttempts :
            attempts[i].version = FinalPatch /\ \A j \in StoredAttempts : j <= i
      BY <1>6, FinalChoice DEF IsLatest
    <2>2. Promise!Best = i
      BY <1>2, <1>3, <1>6, <2>1, LatestIs DEF Promise!Best
    <2>3. /\ i \in DOMAIN attempts /\ i # 0 /\ attempts[i].version # 0
          /\ PromisedVerdicts[i].outcome = attempts[i].outcome
      <3>1. i \in DOMAIN attempts /\ attempts[i].version # 0
        BY DEF StoredAttempts
      <3>2. i \in 1..JudgedAttempts /\ i # 0
        BY <1>0, <1>1, <3>1
      <3>3. PromisedVerdicts[i].outcome = attempts[i].outcome
        BY <1>0, <3>2 DEF VerdictsMatch
      <3> QED
        BY <3>1, <3>2, <3>3
    <2>4. attempts[i].outcome = "untested" => i = Attempt
      BY <1>0, <2>3 DEF LoopOpen, Attempt
    <2>5. Current.outcome = "untested" /\ attempts # <<>> => i = Attempt
      <3>1. attempts # <<>> => Attempt \in DOMAIN attempts
        BY <1>0 DEF Attempt
      <3>2. Current.outcome = "untested" /\ attempts # <<>> => Attempt \in StoredAttempts
        BY <1>0, <3>1 DEF VersionsGrow, Current, StoredAttempts
      <3> QED
        BY <1>0, <2>1, <2>3, <3>2 DEF Attempt
    <2>6. attempts[i].outcome = "untested" <=> FinalIsValid /\ FinalTests # "failed"
      <3>1. attempts # <<>>
        BY <1>0, <2>3
      <3> QED
        BY <1>6, <2>4, <2>5, <3>1, FinalChoice DEF Current
    <2> QED
      BY <1>2, <1>4, <1>6, <2>1, <2>2, <2>3, <2>6 DEF Promise!Earned, FinalIsAccepted
  <1>7. CASE PassedAttempts = {} /\ StoredAttempts = {}
    <2>1. FinalPatch = 0
      BY <1>7, FinalChoice
    <2>2. Promise!Best = 0
      BY <1>2, <1>7 DEF Promise!Best, Promise!LatestOf
    <2>3. ~FinalIsValid
      BY <2>1 DEF FinalIsValid
    <2> QED
      BY <1>2, <1>7, <2>1, <2>2, <2>3 DEF Promise!Earned, FinalIsAccepted
  <1> QED
    BY <1>5, <1>6, <1>7

-----------------------------------------------------------------------------
(* The steps.                                                              *)

(* What the promise reads from a state.                                    *)
LEMMA PhasesPromised ==
  ASSUME OutcomeInv
  PROVE  /\ pc \in {"generate", "tool"} <=> PromisedPhase = "open"
         /\ pc \in Judging <=> PromisedPhase = "judging"
         /\ pc \in {"finish", "restore", "reapply"} <=> PromisedPhase = "closed"
         /\ pc \notin Terminal => PromisedChoice = 0 /\ PromisedResult = "none"
         /\ pc \in Working => PromisedFatal = FALSE
  <1>1. pc \in Locations /\ LoopOpen
    BY DEF OutcomeInv, IInv, TypeOK, LoopTypeOK
  <1> QED
    BY <1>1 DEF Locations, Judging, Working, Terminal, LoopOpen, PromisedPhase,
                PromisedChoice, PromisedResult, PromisedFatal

(* A step that keeps the verdicts and stays where it is in the promise.    *)
LEMMA Stutters ==
  ASSUME OutcomeInv, OutcomeInv', MaxAttempts' = MaxAttempts,
         PromisedVerdicts' = PromisedVerdicts, UNCHANGED stopReason,
         \/ pc \in {"generate", "tool"} /\ pc' \in {"generate", "tool"}
         \/ pc \in Judging /\ pc' \in Judging
         \/ /\ pc \in {"finish", "restore", "reapply"}
            /\ pc' \in {"finish", "restore", "reapply"}
  PROVE  UNCHANGED promised
  <1>1. PromisedFatal' = PromisedFatal
    BY Zenon DEF PromisedFatal, FatalStop
  <1>2. /\ PromisedPhase' = PromisedPhase
        /\ PromisedChoice = 0 /\ PromisedChoice' = 0
        /\ PromisedResult = "none" /\ PromisedResult' = "none"
    BY DEF PromisedPhase, PromisedChoice, PromisedResult, Judging, Terminal
  <1> QED
    BY <1>1, <1>2 DEF promised

(* Steps that keep the attempts keep the verdicts.                         *)
LEMMA SameAttempts ==
  ASSUME UNCHANGED attempts
  PROVE  PromisedVerdicts' = PromisedVerdicts
  BY Zenon DEF PromisedVerdicts, JudgedAttempts, Attempt, Current

LEMMA AgentWorksPromised ==
  ASSUME OutcomeInv, OutcomeInv', AgentWorks, MaxAttempts' = MaxAttempts
  PROVE  Promise!GiveUp \/ UNCHANGED promised
  <1>1. PromisedVerdicts' = PromisedVerdicts
    BY SameAttempts DEF AgentWorks
  <1>2. CASE pc' \in {"generate", "tool"}
    BY <1>1, <1>2, Stutters DEF AgentWorks
  <1>3. CASE pc' = "finish"
    <2>1. PromisedPhase = "open" /\ PromisedPhase' = "closed"
      BY <1>3 DEF AgentWorks, PromisedPhase, Terminal
    <2>2. /\ PromisedChoice = 0 /\ PromisedChoice' = 0
          /\ PromisedResult = "none" /\ PromisedResult' = "none"
      BY <1>3 DEF AgentWorks, PromisedChoice, PromisedResult, Terminal
    <2>3. PromisedFatal' \in BOOLEAN
      BY Zenon DEF PromisedFatal
    <2> QED
      BY <1>1, <2>1, <2>2, <2>3 DEF Promise!GiveUp
  <1> QED
    BY <1>2, <1>3 DEF AgentWorks

LEMMA SubmitPromised ==
  ASSUME OutcomeInv, OutcomeInv', SubmitPatch, MaxAttempts' = MaxAttempts
  PROVE  Promise!Submit
  <1>1. /\ VerdictsMatch /\ VerdictsMatch'
        /\ pc = "tool" /\ pc' = "store" /\ UNCHANGED stopReason
    BY VerdictsPromised, VerdictsPromisedNext DEF SubmitPatch
  <1>2. /\ Len(attempts) \in Nat /\ Len(attempts') = Len(attempts) + 1
        /\ \A i \in 1..Len(attempts) : attempts'[i] = attempts[i]
    BY AttemptAppended DEF OutcomeInv, IInv, TypeOK, RepairTypeOK
  <1>3. JudgedAttempts = Len(attempts) /\ JudgedAttempts' = Len(attempts)
    BY <1>1, <1>2 DEF VerdictsMatch, Judging
  <1>4. PromisedVerdicts' = PromisedVerdicts
    BY <1>2, <1>3, VerdictsKept
  <1>5. Len(PromisedVerdicts) < MaxAttempts
    BY <1>1, <1>3 DEF VerdictsMatch, SubmitPatch, AttemptsRemain, Attempt
  <1>6. PromisedFatal' = PromisedFatal
    BY <1>1, Zenon DEF PromisedFatal, FatalStop
  <1>7. /\ PromisedPhase = "open" /\ PromisedPhase' = "judging"
        /\ PromisedChoice = 0 /\ PromisedChoice' = 0
        /\ PromisedResult = "none" /\ PromisedResult' = "none"
    BY <1>1 DEF PromisedPhase, PromisedChoice, PromisedResult, Terminal
  <1> QED
    BY <1>4, <1>5, <1>6, <1>7 DEF Promise!Submit

(* Storing and testing a patch are not steps of the promise.               *)
LEMMA AssessmentHidden ==
  ASSUME OutcomeInv, OutcomeInv', Stores \/ Tests, MaxAttempts' = MaxAttempts
  PROVE  UNCHANGED promised
  <1>1. /\ pc \in Judging /\ pc' \in Judging /\ UNCHANGED stopReason
        /\ \/ UNCHANGED attempts
           \/ \E version, tests, outcome : Records(version, tests, outcome)
    BY DEF Stores, Tests, Judging
  <1>2. PromisedVerdicts' = PromisedVerdicts
    <2>1. CASE UNCHANGED attempts
      BY <2>1, SameAttempts
    <2>2. ASSUME NEW version, NEW tests, NEW outcome, Records(version, tests, outcome)
          PROVE  PromisedVerdicts' = PromisedVerdicts
      <3>1. /\ VerdictsMatch /\ VerdictsMatch' /\ Len(attempts) \in Nat
            /\ Len(attempts') = Len(attempts)
        BY <2>2, VerdictsPromised, VerdictsPromisedNext
        DEF OutcomeInv, IInv, TypeOK, RepairTypeOK, Records
      <3>2. JudgedAttempts = Len(attempts) - 1 /\ JudgedAttempts' = Len(attempts) - 1
        BY <1>1, <3>1 DEF VerdictsMatch
      <3>3. \A i \in 1..JudgedAttempts : i \in 1..Len(attempts) /\ i # Attempt
        BY <3>1, <3>2 DEF Attempt
      <3>4. \A i \in 1..JudgedAttempts :
              /\ attempts'[i].outcome = attempts[i].outcome
              /\ attempts'[i].version # 0 <=> attempts[i].version # 0
        BY <2>2, <3>3 DEF Records
      <3> QED
        BY <3>2, <3>4, VerdictsKept
    <2> QED
      BY <1>1, <2>1, <2>2
  <1> QED
    BY <1>1, <1>2, Stutters

LEMMA JudgesPromised ==
  ASSUME OutcomeInv, OutcomeInv', MaxAttempts' = MaxAttempts,
         NEW version \in 0..Len(patches), NEW valid \in BOOLEAN, NEW tests \in TestStatus,
         Judges(version, valid, tests)
  PROVE  Promise!Judge
  <1> DEFINE outcome == OutcomeOf(valid, tests)
  <1>1. /\ pc \in Judging /\ pc' \in {"generate", "finish"} /\ pc' \notin Judging
        /\ Records(version, tests, outcome)
        /\ version # 0 <=> pc # "store"
        /\ valid => pc = "verify"
    BY DEF Judges, Judging
  <1>2. PICK v \in Promise!Verdicts :
          /\ v.outcome = outcome
          /\ v.stored <=> version # 0
          /\ PromisedVerdicts' = Append(PromisedVerdicts, v)
    BY <1>1, VerdictAdded
  <1>3. /\ outcome # "error"
        /\ outcome \in {"passed", "failed_tests", "untested"} => version # 0
        /\ outcome = "untested" => valid /\ tests = "not_run"
    BY <1>1 DEF OutcomeOf, TestStatus
  <1>4. v.outcome \in {"passed", "failed_tests", "untested"} => v.stored
    BY <1>2, <1>3
  <1>5. PromisedFatal' = FALSE
    <2>1. stopReason = "none"
      BY <1>1 DEF OutcomeInv, LoopOpen, Working
    <2> QED
      BY <2>1 DEF Judges, PromisedFatal, FatalStop
  <1>6. /\ PromisedPhase = "judging"
        /\ pc' = "generate" => PromisedPhase' = "open"
        /\ pc' = "finish" => PromisedPhase' = "closed"
        /\ PromisedChoice = 0 /\ PromisedChoice' = 0
        /\ PromisedResult = "none" /\ PromisedResult' = "none"
    BY <1>1 DEF PromisedPhase, PromisedChoice, PromisedResult, Judging, Terminal
  <1>7. pc' = "generate" => outcome # "untested" /\ Len(PromisedVerdicts') # MaxAttempts
    <2>1. SUFFICES ASSUME pc' = "generate"
                   PROVE  outcome # "untested" /\ Len(PromisedVerdicts') # MaxAttempts
      OBVIOUS
    <2>2. ~StopAfter(valid, tests)
      BY <2>1 DEF Judges
    <2>3. VerdictsMatch' /\ Len(attempts) \in Nat /\ Len(attempts') = Len(attempts)
      BY <1>1, VerdictsPromisedNext DEF OutcomeInv, IInv, TypeOK, RepairTypeOK, Records
    <2>4. Len(PromisedVerdicts') = Len(attempts)
      BY <1>1, <2>3 DEF VerdictsMatch
    <2>5. MaxAttempts \in Nat
      BY ConfigTypes DEF OutcomeInv, IInv
    <2> QED
      BY <1>3, <2>2, <2>3, <2>4, <2>5 DEF StopAfter, AttemptsRemain, Attempt
  <1> HIDE DEF outcome
  <1>8. PromisedPhase' \in
          IF v.outcome \in {"error", "untested"} \/ Len(PromisedVerdicts') = MaxAttempts
          THEN {"closed"} ELSE {"open", "closed"}
    BY <1>1, <1>2, <1>3, <1>6, <1>7
  <1>9. PromisedFatal' = (v.outcome = "error")
    BY <1>2, <1>3, <1>5
  <1> QED
    BY <1>2, <1>4, <1>6, <1>8, <1>9 DEF Promise!Judge

LEMMA BreaksPromised ==
  ASSUME OutcomeInv, OutcomeInv', Breaks, MaxAttempts' = MaxAttempts
  PROVE  Promise!Judge
  <1>1. /\ pc \in Judging /\ pc' = "finish" /\ pc' \notin Judging
        /\ Records(Current.version, Current.tests, "error")
    BY DEF Breaks, Judging
  <1>2. PICK v \in Promise!Verdicts :
          v.outcome = "error" /\ PromisedVerdicts' = Append(PromisedVerdicts, v)
    BY <1>1, VerdictAdded
  <1>3. PromisedFatal' = TRUE
    BY DEF Breaks, PromisedFatal, FatalStop
  <1>4. /\ PromisedPhase = "judging" /\ PromisedPhase' = "closed"
        /\ PromisedChoice = 0 /\ PromisedChoice' = 0
        /\ PromisedResult = "none" /\ PromisedResult' = "none"
    BY <1>1 DEF PromisedPhase, PromisedChoice, PromisedResult, Judging, Terminal
  <1> QED
    BY <1>2, <1>3, <1>4 DEF Promise!Judge

(* The run ends: the choice and the result are those of the verdicts.      *)
LEMMA Settled ==
  ASSUME OutcomeInv, MaxAttempts' = MaxAttempts,
         pc \in {"finish", "restore", "reapply"}, pc' \in Terminal,
         UNCHANGED <<attempts, stopReason>>,
         selected' = FinalPatch, accepted' = FinalIsAccepted(stopReason)
  PROVE  Promise!Settle
  <1>1. PromisedVerdicts' = PromisedVerdicts
    BY SameAttempts
  <1>2. PromisedFatal' = PromisedFatal
    BY Zenon DEF PromisedFatal, FatalStop
  <1>3. pc \notin Judging \cup Working /\ pc \notin Terminal
    BY DEF Judging, Working, Terminal
  <1>4. PromisedPhase = "closed" /\ PromisedPhase' = "done"
    BY DEF PromisedPhase, Terminal
  <1>5. PromisedChoice' = Promise!Best
    <2>1. CASE FinalPatch = 0
      BY <1>3, <2>1, ChoiceDetermined DEF PromisedChoice
    <2>2. CASE FinalPatch # 0
      <3>1. /\ Promise!Best \in DOMAIN attempts
            /\ attempts[Promise!Best].version = FinalPatch
        BY <1>3, <2>2, ChoiceDetermined
      <3>2. \A i \in DOMAIN attempts : attempts[i].version = FinalPatch => i = Promise!Best
        BY <2>2, <3>1, OwnPatch
      <3>3. Promise!Best = CHOOSE i \in DOMAIN attempts : attempts[i].version = FinalPatch
        BY <3>1, <3>2
      <3>4. PromisedChoice'
              = CHOOSE i \in DOMAIN attempts : attempts[i].version = FinalPatch
        BY <2>2, Zenon DEF PromisedChoice
      <3> QED
        BY <3>3, <3>4
    <2> QED
      BY <2>1, <2>2
  <1>6. accepted' <=> Promise!Earned
    <2>1. Promise!Earned <=> FinalIsAccepted(stopReason)
      BY <1>3, ChoiceDetermined
    <2> QED
      BY <2>1, Zenon
  <1>7. PromisedResult' \in {IF Promise!Earned THEN "accepted" ELSE "rejected", "failed"}
    <2>1. pc' = "restore_failed" => PromisedResult' = "failed"
      BY DEF PromisedResult
    <2>2. pc' = "returned"
            => PromisedResult' = IF accepted' THEN "accepted" ELSE "rejected"
      BY DEF PromisedResult
    <2>3. pc' = "returned" => PromisedResult' = IF Promise!Earned THEN "accepted" ELSE "rejected"
      BY <1>6, <2>2, Zenon
    <2> QED
      BY <2>1, <2>3 DEF Terminal
  <1> QED
    BY <1>1, <1>2, <1>4, <1>5, <1>7 DEF Promise!Settle

LEMMA EndPromised ==
  ASSUME OutcomeInv, OutcomeInv', Finish \/ Restores, MaxAttempts' = MaxAttempts
  PROVE  Promise!Settle \/ UNCHANGED promised
  <1>1. CASE Finish
    <2>1. /\ pc = "finish" /\ pc' \in {"restore", "returned"}
          /\ UNCHANGED <<attempts, stopReason>>
          /\ selected' = FinalPatch
          /\ accepted' = FinalIsAccepted(stopReason)
      BY <1>1, Zenon DEF Finish
    <2>2. CASE pc' = "restore"
      BY <2>1, <2>2, SameAttempts, Stutters
    <2>3. CASE pc' = "returned"
      BY <2>1, <2>3, Settled DEF Terminal
    <2> QED
      BY <2>1, <2>2, <2>3
  <1>2. CASE Restores
    <2>1. /\ pc \in {"restore", "reapply"} /\ pc' \in {"reapply"} \cup Terminal
          /\ UNCHANGED <<attempts, stopReason, selected, accepted>>
      BY <1>2 DEF Restores, RestoreFrame
    <2>2. selected = FinalPatch /\ accepted = FinalIsAccepted(stopReason)
      BY <2>1 DEF OutcomeInv, SelectionMade
    <2>3. CASE pc' = "reapply"
      BY <2>1, <2>3, SameAttempts, Stutters
    <2>4. CASE pc' \in Terminal
      <3>1. accepted' = FinalIsAccepted(stopReason)
        BY <2>1, <2>2, Zenon
      <3> QED
        BY <2>1, <2>2, <2>4, <3>1, Settled
    <2> QED
      BY <2>1, <2>3, <2>4
  <1> QED
    BY <1>1, <1>2

(* The client's patches are invisible.                                     *)
LEMMA ClientHidden ==
  ASSUME ClientApplies, MaxAttempts' = MaxAttempts
  PROVE  UNCHANGED promised
  <1>1. PromisedVerdicts' = PromisedVerdicts
    BY SameAttempts DEF ClientApplies
  <1>2. /\ attempts' = attempts /\ pc' = pc /\ selected' = selected
        /\ accepted' = accepted /\ stopReason' = stopReason
    BY DEF ClientApplies
  <1>3. PromisedFatal' = PromisedFatal
    BY <1>2, Zenon DEF PromisedFatal, FatalStop
  <1>4. PromisedChoice' = PromisedChoice
    BY <1>2 DEF PromisedChoice, Terminal
  <1>5. PromisedPhase' = PromisedPhase
    BY <1>2, Zenon DEF PromisedPhase, Terminal
  <1>6. PromisedResult' = PromisedResult
    BY <1>2, Zenon DEF PromisedResult
  <1> QED
    BY <1>1, <1>3, <1>4, <1>5, <1>6 DEF promised

LEMMA StepPromised == OutcomeInv /\ [Next]_vars => [Promise!Next]_promised
  <1> SUFFICES ASSUME OutcomeInv, [Next]_vars
               PROVE  Promise!Next \/ UNCHANGED promised
    OBVIOUS
  <1>1. OutcomeInv' /\ IInv
    BY NextOutcomeInv DEF OutcomeInv
  <1>2. MaxAttempts' = MaxAttempts
    <2>1. TypeOK /\ AttemptUnderWay
      BY <1>1 DEF IInv
    <2> QED
      BY <2>1, AttemptsCounted DEF MaxAttempts
  <1> QED
    BY <1>1, <1>2, StepKinds, AgentWorksPromised, SubmitPromised, AssessmentHidden,
       JudgesPromised, BreaksPromised, EndPromised, ClientHidden DEF Promise!Next

(* The initial states of the loop are initial states of the promise.       *)
LEMMA InitPromised == Init => Promise!Init
  <1> SUFFICES ASSUME Init PROVE Promise!Init
    OBVIOUS
  <1>1. MaxAttempts \in Nat \ {0}
    BY InitIInv, ConfigTypes DEF IInv, MaxAttempts
  <1>2. /\ attempts = <<>> /\ pc = "generate" /\ stopReason = "none"
    BY DEF Init, RepairInit
  <1>3. PromisedVerdicts = <<>>
    <2>1. JudgedAttempts = 0
      BY <1>2 DEF JudgedAttempts, Attempt
    <2> QED
      BY <2>1 DEF PromisedVerdicts
  <1>4. /\ PromisedPhase = "open" /\ PromisedFatal = FALSE
        /\ PromisedChoice = 0 /\ PromisedResult = "none"
    BY <1>2 DEF PromisedPhase, PromisedFatal, PromisedChoice, PromisedResult, Terminal
  <1> QED
    BY <1>1, <1>3, <1>4 DEF Promise!Init

(* Whatever the model answers and a client does, a run of the loop is a run*)
(* of the promise: at most limit attempts, a verdict on each before the    *)
(* next is begun, and a choice and a result that follow from the verdicts  *)
(* alone (AgentLoop.run, begin_attempt, assess and finish).  That the run  *)
(* does end rests on fairness, and TLC checks it (ImplementsPromise).      *)
THEOREM PromiseKept == Spec => Promise!Init /\ [][Promise!Next]_promised
  <1>1. Init => Promise!Init
    BY InitPromised
  <1>2. OutcomeInv /\ [Next]_vars => [Promise!Next]_promised
    BY StepPromised
  <1> QED
    BY <1>1, <1>2, OutcomeInductive, PTL DEF Spec

=============================================================================

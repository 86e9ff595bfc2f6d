---------------------------- MODULE MCAgentLoop ----------------------------
(***************************************************************************)
(* Small instances of AgentLoop for TLC.                                   *)
(***************************************************************************)
EXTENDS AgentLoop, TLC

CONSTANTS f1, d0, d1, d2

OneFile == {f1}
TwoDiffs == {d0, d1}
ThreeDiffs == {d0, d1, d2}

Defaults ==
  [ maxSteps |-> 6, maxToolErrors |-> 3, maxRepairAttempts |-> 0,
    maxPlanRevisions |-> 1, planMinEvidence |-> 1,
    requirePlan |-> TRUE, requireCandidates |-> TRUE, requireHypothesis |-> TRUE,
    requirePlanUpdate |-> FALSE, requireCandidateUpdate |-> FALSE,
    requireHypothesisUpdate |-> TRUE,
    stopOnFirstPass |-> TRUE, runsTests |-> TRUE ]

(* The gates as they are by default, with one repair.                      *)
GateConfigs ==
  {[Defaults EXCEPT !.maxSteps = 8, !.maxToolErrors = 2, !.maxRepairAttempts = 1]}

(* Repairs with nothing required before the first edit: with every update  *)
(* required after a failure, and with none but the default one.            *)
Repairs ==
  [Defaults EXCEPT !.maxSteps = 5, !.maxToolErrors = 2, !.maxRepairAttempts = 2,
     !.requirePlan = FALSE, !.requireCandidates = FALSE,
     !.requireHypothesis = FALSE]

RepairConfigs ==
  { [Repairs EXCEPT !.requireCandidateUpdate = TRUE, !.stopOnFirstPass = FALSE],
    Repairs,
    [Repairs EXCEPT !.requirePlanUpdate = TRUE, !.requireHypothesisUpdate = FALSE,
                    !.maxRepairAttempts = 1],
    [Repairs EXCEPT !.runsTests = FALSE] }

(* Small enough for the liveness graph.                                    *)
PromiseConfigs ==
  { [Repairs EXCEPT !.maxSteps = 4, !.stopOnFirstPass = s] : s \in BOOLEAN }

LoopConfigs == GateConfigs \union RepairConfigs

EditedDiffs == Permutations({d1, d2})

=============================================================================

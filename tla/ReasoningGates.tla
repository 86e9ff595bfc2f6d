--------------------------- MODULE ReasoningGates ---------------------------
(***************************************************************************)
(* The run-local gates an agent has to open before it may edit or submit:  *)
(* an accepted plan (planning.py), a ranking of candidate files            *)
(* (candidate_files.py) and a live root-cause hypothesis (hypotheses.py).  *)
(*                                                                         *)
(* Texts, confidences and timestamps are left out.  A path is a member of  *)
(* Files.  Whatever the validators check besides the evidence (schema,     *)
(* size, path shape) is one Boolean, wellFormed, chosen by the model's     *)
(* answer.                                                                 *)
(***************************************************************************)
EXTENDS Naturals, FiniteSets

CONSTANTS
  Files,    \* workspace paths a tool call can name
  Configs   \* the AgentRunConfig values a run may be started with

(* The part of AgentRunConfig the loop, the gates and the repairs read.    *)
(* runsTests stands for run_tests_after_patch with at least one configured *)
(* test command: without commands the phase has no results and the patch   *)
(* is as untested as with the flag off.                                    *)
ConfigType ==
  [ maxSteps : Nat \ {0}, maxToolErrors : Nat \ {0},
    maxRepairAttempts : Nat, maxPlanRevisions : Nat,
    planMinEvidence : Nat \ {0},
    requirePlan : BOOLEAN, requireCandidates : BOOLEAN,
    requireHypothesis : BOOLEAN,
    requirePlanUpdate : BOOLEAN, requireCandidateUpdate : BOOLEAN,
    requireHypothesisUpdate : BOOLEAN,
    stopOnFirstPass : BOOLEAN, runsTests : BOOLEAN ]

ASSUME ConfigsAssumption == Configs \subseteq ConfigType

VARIABLES
  config,     \* the configuration of this run, fixed at the start
  evidence,   \* AgentPlanningService.evidence
  readable,   \* read_files and retrieved_files of the candidate service
  plan,       \* revision and accepted of the planning service
  candidates, \* revision and editing_started of the candidate service
  hypotheses  \* number of stored revisions, and the live one (0: none)

gateVars == <<config, evidence, readable, plan, candidates, hypotheses>>

GatesTypeOK ==
  /\ config \in Configs
  /\ evidence \in SUBSET Files
  /\ readable \in SUBSET Files
  /\ plan \in [revision : Nat, accepted : BOOLEAN]
  /\ candidates \in [revision : Nat, editingStarted : BOOLEAN]
  /\ hypotheses \in [revision : Nat, active : Nat]

GatesInit ==
  /\ config \in Configs
  /\ evidence = {}
  /\ readable = {}
  /\ plan = [revision |-> 0, accepted |-> FALSE]
  /\ candidates = [revision |-> 0, editingStarted |-> FALSE]
  /\ hypotheses = [revision |-> 0, active |-> 0]

-----------------------------------------------------------------------------
(* Tool observations.                                                      *)

ObservationTools == {"read_file", "search_code", "retrieve_relevant_files"}

(* Both services see every successful result: all three tools give plan    *)
(* evidence, search hits do not qualify a candidate file.                  *)
Observe(tool, files) ==
  /\ evidence' = evidence \cup files
  /\ readable' = IF tool = "search_code" THEN readable ELSE readable \cup files

-----------------------------------------------------------------------------
(* The gates, checked before a tool runs.                                  *)

PlanCheckEdit == config.requirePlan => plan.accepted

CandidatesCheckEdit == config.requireCandidates => candidates.revision > 0

HypothesisCheckPatch == config.requireHypothesis => hypotheses.active # 0

-----------------------------------------------------------------------------
(* Submissions to the gates.                                               *)

(* Mutant: the revision limit is not consulted.                            *)
PlanIsAcceptedUnlimited(wellFormed, cited) ==
  /\ wellFormed
  /\ cited \subseteq evidence
  /\ Cardinality(cited) >= config.planMinEvidence

PlanIsAccepted(wellFormed, cited) ==
  /\ plan.revision + 1 <= 1 + config.maxPlanRevisions
  /\ wellFormed
  /\ cited \subseteq evidence
  /\ Cardinality(cited) >= config.planMinEvidence

(* Every submission uses up a revision and replaces the earlier verdict.   *)
PlanSubmitted(wellFormed, cited) ==
  [revision |-> plan.revision + 1, accepted |-> PlanIsAccepted(wellFormed, cited)]

CandidatesAreAccepted(wellFormed, ranked) ==
  /\ ~candidates.editingStarted
  /\ wellFormed
  /\ ranked \subseteq readable

CandidatesSubmitted == [candidates EXCEPT !.revision = @ + 1]

(* A live submission (active or confirmed) turns the earlier live one into *)
(* a revised one; a rejected or revised one only joins the history.        *)
HypothesisSubmitted(isLive) ==
  [ revision |-> hypotheses.revision + 1,
    active |-> IF isLive THEN hypotheses.revision + 1 ELSE hypotheses.active ]

(* A successful write freezes the ranking, a repair thaws it.              *)
EditingStarted == [candidates EXCEPT !.editingStarted = TRUE]

RepairBegun == [candidates EXCEPT !.editingStarted = FALSE]

(* AgentLoop._reasoning_revisions: 0 stands for None, which check_action   *)
(* reads as 0 too.                                                         *)
ReasoningRevisions ==
  [ hypothesis |-> hypotheses.active,
    plan |-> IF plan.accepted THEN plan.revision ELSE 0,
    candidate |-> candidates.revision ]

=============================================================================

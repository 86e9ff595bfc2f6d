------------------------------ MODULE PatchReview ------------------------------
(***************************************************************************)
(* Human reviews of generated patches (approvals/service.py) and the       *)
(* readiness that is stored with the metrics of a run                      *)
(* (review_readiness/service.py).  Requests run concurrently, each with a  *)
(* session of its own: it reads, commits, reads again and commits again,   *)
(* and of a row that it has loaded it writes the columns that it changes.  *)
(***************************************************************************)
EXTENDS Naturals, FiniteSets

CONSTANTS
  Clients,       \* requests; a client is also the name of its reviewer
  MaxVersions,   \* bound on the patches of the run
  Facts          \* blockers that the metrics themselves imply, e.g.
                 \* "visible_tests_failed"

Earlier == "earlier"   \* reviewer of what has been reviewed before

PatchReviewAssumption ==
  /\ Earlier \notin Clients /\ MaxVersions \in Nat \ {0}
  /\ "not evaluated" \notin Facts

VARIABLES
  versions,   \* patches of the run: 1..versions
  selected,   \* the selected one, or 0
  review,     \* row of human_reviews for a patch
  quality,    \* stored quality of a patch
  failed,     \* a failure of the run is stored
  metric,     \* row of evaluation_metrics
  client,     \* requests
  stale       \* history: an input of the readiness has changed without a
              \* refresh that has seen it

vars == <<versions, selected, review, quality, failed, metric, client, stale>>

Patches == 1..MaxVersions

Decisions == {"approved", "rejected"}

NoReview == [decision |-> "pending", reviewer |-> Earlier]

ReviewType == [decision : Decisions, reviewer : Clients \cup {Earlier}] \cup {NoReview}

Blockers == Facts \cup {"patch_quality_rejected", "run_failure", "human_review_rejected"}

MetricType == [facts : SUBSET Facts, ready : BOOLEAN, blockers : SUBSET Blockers]

NoMetric == [facts |-> {}, ready |-> FALSE, blockers |-> {"not evaluated"}]

NewClient ==
  [pc |-> "idle", patch |-> 1, decision |-> "pending", update |-> FALSE,
   row |-> NoReview, metric |-> NoMetric, blockers |-> {}, answer |-> "none"]

ClientType ==
  [pc : {"idle", "record", "load", "store", "done"}, patch : Patches,
   decision : Decisions \cup {"pending"}, update : BOOLEAN, row : ReviewType,
   metric : MetricType \cup {NoMetric}, blockers : SUBSET Blockers,
   answer : {"none", "ok", "conflict", "error", "forbidden"}]

TypeOK ==
  /\ versions \in Patches /\ selected \in 0..versions
  /\ review \in [Patches -> ReviewType]
  /\ quality \in [Patches -> {"unknown", "kept", "broken"}]
  /\ failed \in BOOLEAN /\ stale \in BOOLEAN
  /\ metric \in MetricType \cup {NoMetric}
  /\ client \in [Clients -> ClientType]

-----------------------------------------------------------------------------

(* run.generated_patch: the selected patch, else the last version.         *)
Current == IF selected # 0 THEN selected ELSE versions

(* calculate_review_readiness, as far as blockers go.                      *)
Calculate(facts) ==
  facts
    \cup (IF quality[Current] = "broken" THEN {"patch_quality_rejected"} ELSE {})
    \cup (IF failed THEN {"run_failure"} ELSE {})
    \cup (IF review[Current].decision = "rejected" THEN {"human_review_rejected"} ELSE {})

Evaluated(facts) ==
  [facts |-> facts, ready |-> Calculate(facts) = {}, blockers |-> Calculate(facts)]

(* A run, evaluated or not, with patches reviewed before or not.           *)
Init ==
  /\ versions \in Patches /\ selected \in 0..versions
  /\ review \in [Patches -> {NoReview} \cup [decision : Decisions, reviewer : {Earlier}]]
  /\ \A p \in Patches : p > versions => review[p] = NoReview
  /\ quality \in [Patches -> {"unknown", "kept", "broken"}]
  /\ \A p \in Patches : p > versions => quality[p] = "unknown"
  /\ failed \in BOOLEAN
  /\ metric \in {NoMetric} \cup {Evaluated(facts) : facts \in SUBSET Facts}
  /\ client = [c \in Clients |-> NewClient]
  /\ stale = FALSE

InWindow == {c \in Clients : client[c].pc = "store"}

(* An input has changed: a refresh that is between its reading and its     *)
(* commit does not know.                                                   *)
InputChanged == stale' = (stale \/ InWindow # {})

Finish(c, answer) == client' = [client EXCEPT ![c].pc = "done", ![c].answer = answer]

-----------------------------------------------------------------------------
(* Requests.                                                               *)

(* POST /patches/{id}/approve and /reject up to the reading of the row.    *)
Decide(c) ==
  /\ client[c].pc = "idle"
  /\ \E p \in 1..versions, d \in Decisions, update \in BOOLEAN, agent \in BOOLEAN :
       \/ agent /\ Finish(c, "forbidden")
       \/ ~agent /\ review[p] # NoReview /\ ~update /\ Finish(c, "conflict")
       \/ /\ ~agent /\ (review[p] = NoReview \/ update)
          /\ client' = [client EXCEPT ![c] =
               [NewClient EXCEPT !.pc = "record", !.patch = p, !.decision = d,
                                 !.update = update, !.row = review[p]]]
  /\ UNCHANGED <<versions, selected, review, quality, failed, metric, stale>>

(* The commit of _record_review: an insert, refused when somebody was      *)
(* faster (IntegrityError, which nobody handles), or an update of the      *)
(* columns that differ from what was loaded.                               *)
Record(c) ==
  LET me == client[c]
      p == me.patch IN
  /\ me.pc = "record"
  /\ \/ /\ me.row = NoReview /\ review[p] # NoReview
        /\ Finish(c, "error")
        /\ UNCHANGED <<review, stale>>
     \/ /\ me.row = NoReview /\ review[p] = NoReview
        /\ review' = [review EXCEPT ![p] = [decision |-> me.decision, reviewer |-> c]]
        /\ client' = [client EXCEPT ![c].pc = "load"]
        /\ InputChanged
     \/ /\ me.row # NoReview
        /\ review' = [review EXCEPT
             ![p].decision = IF me.decision = me.row.decision THEN @ ELSE me.decision,
             ![p].reviewer = c]
        /\ client' = [client EXCEPT ![c].pc = "load"]
        /\ InputChanged
  /\ UNCHANGED <<versions, selected, quality, failed, metric>>

(* POST /agent-runs/{id}/evaluate: what is evaluated is committed, then    *)
(* the readiness is refreshed.                                             *)
Evaluate(c) ==
  /\ client[c].pc = "idle"
  /\ \E facts \in SUBSET Facts :
       metric' = IF metric = NoMetric
                 THEN [facts |-> facts, ready |-> FALSE, blockers |-> {}]
                 ELSE [metric EXCEPT !.facts = facts]
  /\ client' = [client EXCEPT ![c].pc = "load"]
  /\ InputChanged
  /\ UNCHANGED <<versions, selected, review, quality, failed>>

(* GET /patches/{id}/quality, and the run report for the current patch.    *)
Quality(c) ==
  /\ client[c].pc = "idle"
  /\ \E p \in 1..versions :
       /\ IF quality[p] = "unknown"
          THEN /\ \E q \in {"kept", "broken"} : quality' = [quality EXCEPT ![p] = q]
               /\ InputChanged
          ELSE UNCHANGED <<quality, stale>>
       /\ client' = [client EXCEPT ![c].pc = IF p = Current THEN "load" ELSE "done"]
  /\ UNCHANGED <<versions, selected, review, failed, metric>>

(* Mutant: the review that is known is that of the request.                *)
LoadOwn(c) ==
  /\ client[c].pc = "load"
  /\ client' = [client EXCEPT ![c].pc = "store", ![c].metric = metric,
       ![c].blockers =
          (Calculate(metric.facts) \ {"human_review_rejected"})
            \cup (IF client[c].decision = "rejected" THEN {"human_review_rejected"} ELSE {})]
  /\ stale' = (stale /\ InWindow # {})
  /\ UNCHANGED <<versions, selected, review, quality, failed, metric>>

(* refresh: reading (the queries follow one another without a commit).     *)
Load(c) ==
  /\ client[c].pc = "load"
  /\ IF metric = NoMetric
     THEN Finish(c, "ok") /\ UNCHANGED stale
     ELSE /\ client' = [client EXCEPT ![c].pc = "store", ![c].metric = metric,
                                      ![c].blockers = Calculate(metric.facts)]
          /\ stale' = (stale /\ InWindow # {})
  /\ UNCHANGED <<versions, selected, review, quality, failed, metric>>

(* refresh: the columns that have changed are committed.                   *)
Store(c) ==
  LET me == client[c]
      ready == me.blockers = {} IN
  /\ me.pc = "store"
  /\ metric' = [metric EXCEPT
       !.ready = IF ready = me.metric.ready THEN @ ELSE ready,
       !.blockers = IF me.blockers = me.metric.blockers THEN @ ELSE me.blockers]
  /\ Finish(c, "ok")
  /\ UNCHANGED <<versions, selected, review, quality, failed, stale>>

-----------------------------------------------------------------------------
(* Inputs that change without a refresh.                                   *)

(* A test phase that fails, or a view of a failed run, classifies it.      *)
Classify ==
  /\ ~failed /\ failed' = TRUE /\ stale' = TRUE
  /\ UNCHANGED <<versions, selected, review, quality, metric, client>>

(* A patch that is stored gets its quality, not its review.                *)
AddVersion ==
  /\ versions < MaxVersions
  /\ versions' = versions + 1
  /\ \E q \in {"kept", "broken"} : quality' = [quality EXCEPT ![versions'] = q]
  /\ stale' = (stale \/ selected = 0)
  /\ UNCHANGED <<selected, review, failed, metric, client>>

AtRest == \A c \in Clients : client[c].pc \in {"idle", "done"}

Terminated == (\A c \in Clients : client[c].pc = "done") /\ UNCHANGED vars

Next ==
  \/ \E c \in Clients :
       Decide(c) \/ Record(c) \/ Evaluate(c) \/ Quality(c) \/ Load(c) \/ Store(c)
  \/ Classify \/ AddVersion \/ Terminated

Spec == Init /\ [][Next]_vars

-----------------------------------------------------------------------------
(* Properties.                                                             *)

(* A review that is there is changed by a request with update_existing     *)
(* only, whoever decided at the same time (_record_review).                *)
ReviewsAreNotReplaced ==
  [][\A p \in Patches :
       review[p] # NoReview /\ review'[p] # review[p] =>
         \E c \in Clients : client[c].pc = "record" /\ client[c].update
                              /\ client[c].patch = p]_vars

(* Reviews, evaluations and new qualities all reach the stored readiness:  *)
(* it can lag behind only for a failure or a version that came later, or   *)
(* behind a request that overlapped with another one.                      *)
ReadinessIsCurrent ==
  AtRest /\ metric # NoMetric /\ ~stale => metric = Evaluated(metric.facts)

ReadinessIsSound == TypeOK /\ ReadinessIsCurrent

-----------------------------------------------------------------------------
(* Statements of the documentation.                                        *)

(* "a persisted run failure ... always block readiness"                    *)
(* (docs/evaluation-metrics.md).                                           *)
FailureBlocks ==
  AtRest /\ metric # NoMetric /\ failed => ~metric.ready

(* "rejected human review always block readiness", at least when all       *)
(* requests have been answered and nothing is missing from the run.        *)
RejectionBlocks ==
  AtRest /\ metric # NoMetric /\ review[Current].decision = "rejected" => ~metric.ready

(* "Updating replaces the decision, reviewer name, notes" (docs/           *)
(* human-approval.md): a row has the decision of the reviewer it names.    *)
ReviewIsOneReviewers ==
  \A p \in Patches : review[p].reviewer \in Clients =>
    review[p].decision = client[review[p].reviewer].decision

(* "A second approve or reject request returns a conflict unless the       *)
(* request explicitly includes update_existing" (docs/human-approval.md).  *)
DuplicatesConflict == \A c \in Clients : client[c].answer # "error"

=============================================================================

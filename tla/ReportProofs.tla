---------------------------- MODULE ReportProofs ----------------------------
(***************************************************************************)
(* Proofs about PatchReview for any number of requests and versions and    *)
(* any facts: the stored readiness is current but where it is known to lag *)
(* behind, and reviews are not replaced unasked; and about RunTrace for    *)
(* any calls, test results and payloads: what a snapshot tells of a run    *)
(* that has ended is all of it, however its reads fall.                    *)
(***************************************************************************)
EXTENDS PatchReview, RunTrace, TLAPS

(* A request that is about to record: what it has read may be old, but a   *)
(* review that was there is there, and it is replaced on demand only.      *)
RecordFollows ==
  \A c \in Clients :
    client[c].pc = "record" =>
      /\ client[c].patch <= versions /\ client[c].decision \in Decisions
      /\ client[c].row # NoReview
           => client[c].update = TRUE /\ review[client[c].patch] # NoReview

(* What a request is about to store is what the inputs say, unless they    *)
(* have changed; a column that it leaves alone has that value already.     *)
StoreFollows ==
  \A c \in Clients :
    client[c].pc = "store" =>
      /\ metric # NoMetric
      /\ stale = FALSE =>
           /\ client[c].blockers = Calculate(metric.facts)
           /\ client[c].metric.blockers = client[c].blockers
                => metric.blockers = client[c].blockers
           /\ client[c].metric.ready = (client[c].blockers = {})
                => metric.ready = (client[c].blockers = {})

Refreshing == \E c \in Clients : client[c].pc \in {"load", "store"}

(* With no refresh under way, the readiness is that of the inputs.         *)
RestIsCurrent ==
  metric # NoMetric /\ stale = FALSE /\ ~Refreshing => metric = Evaluated(metric.facts)

ReviewInv == TypeOK /\ RecordFollows /\ StoreFollows /\ RestIsCurrent

-----------------------------------------------------------------------------
(* Data.                                                                   *)

LEMMA NoMetricIsNone ==
  ASSUME PatchReviewAssumption
  PROVE  NoMetric \notin MetricType
  <1>1. SUFFICES ASSUME NoMetric \in MetricType PROVE FALSE
    OBVIOUS
  <1>2. NoMetric.blockers \in SUBSET Blockers
    BY <1>1 DEF MetricType
  <1>3. "not evaluated" \in Blockers
    BY <1>2 DEF NoMetric
  <1> QED
    BY <1>3 DEF Blockers, PatchReviewAssumption

LEMMA NoReviewFields ==
  /\ NoReview \in ReviewType /\ NoReview.decision = "pending" /\ NoReview.reviewer = Earlier
  /\ \A r \in ReviewType : r # NoReview <=> r.decision \in Decisions
  /\ \A r \in ReviewType \ {NoReview} :
       r \in [decision : Decisions, reviewer : Clients \cup {Earlier}]
  BY DEF NoReview, ReviewType, Decisions

LEMMA ReviewUpdated ==
  ASSUME NEW r \in [decision : Decisions, reviewer : Clients \cup {Earlier}], NEW d, NEW c
  PROVE  [r EXCEPT !.decision = d, !.reviewer = c] = [decision |-> d, reviewer |-> c]
  <1> DEFINE new == [r EXCEPT !.decision = d, !.reviewer = c]
  <1>1. DOMAIN r = {"decision", "reviewer"}
    OBVIOUS
  <1>2. DOMAIN new = {"decision", "reviewer"} /\ new.decision = d /\ new.reviewer = c
    BY <1>1
  <1>3. new = [f \in {"decision", "reviewer"} |-> new[f]]
    BY <1>1
  <1> HIDE DEF new
  <1>4. new = [decision |-> d, reviewer |-> c]
    BY <1>2, <1>3
  <1> QED
    BY <1>4 DEF new

LEMMA CurrentIsPatch ==
  ASSUME PatchReviewAssumption, TypeOK
  PROVE  /\ 1..versions \subseteq Patches /\ 1 \in Patches
         /\ versions \in Nat /\ selected \in 0..versions
         /\ Current \in 1..versions /\ Current \in Patches
  <1>1. MaxVersions \in Nat \ {0} /\ versions \in 1..MaxVersions /\ selected \in 0..versions
    BY DEF PatchReviewAssumption, TypeOK, Patches
  <1>2. 1..versions \subseteq Patches /\ 1 \in Patches /\ versions \in Nat
    BY <1>1 DEF Patches
  <1>3. Current \in 1..versions
    BY <1>1 DEF Current
  <1> QED
    BY <1>1, <1>2, <1>3

LEMMA CalculateTyped ==
  ASSUME NEW facts \in SUBSET Facts
  PROVE  Calculate(facts) \in SUBSET Blockers /\ Evaluated(facts) \in MetricType
  <1>1. Calculate(facts) \in SUBSET Blockers
    BY DEF Calculate, Blockers
  <1> QED
    BY <1>1 DEF Evaluated, MetricType

LEMMA MetricFields ==
  ASSUME NEW m \in MetricType
  PROVE  /\ m.facts \in SUBSET Facts /\ m.ready \in BOOLEAN /\ m.blockers \in SUBSET Blockers
         /\ m = [facts |-> m.facts, ready |-> m.ready, blockers |-> m.blockers]
  BY DEF MetricType

LEMMA ClientFields ==
  ASSUME TypeOK, NEW c \in Clients
  PROVE  /\ client[c] \in ClientType
         /\ client[c].pc \in {"idle", "record", "load", "store", "done"}
         /\ client[c].patch \in Patches /\ client[c].decision \in Decisions \cup {"pending"}
         /\ client[c].update \in BOOLEAN /\ client[c].row \in ReviewType
         /\ client[c].metric \in MetricType \cup {NoMetric}
         /\ client[c].blockers \in SUBSET Blockers
  BY DEF TypeOK, ClientType

-----------------------------------------------------------------------------
(* What steps do to requests.                                              *)

Becomes(c, new) ==
  /\ new \in ClientType /\ client'[c] = new
  /\ \A d \in Clients \ {c} : client'[d] = client[d]
  /\ client' \in [Clients -> ClientType]

LEMMA Replacing ==
  ASSUME TypeOK, NEW c \in Clients, NEW new \in ClientType, client' = [client EXCEPT ![c] = new]
  PROVE  Becomes(c, new)
  BY DEF TypeOK, Becomes

LEMMA Placing ==
  ASSUME TypeOK, NEW c \in Clients, NEW place \in {"load", "done"},
         client' = [client EXCEPT ![c].pc = place]
  PROVE  Becomes(c, [client[c] EXCEPT !.pc = place]) /\ client'[c].pc = place
  <1>1. client[c] \in ClientType
    BY ClientFields
  <1>2. [client[c] EXCEPT !.pc = place] \in ClientType
    BY <1>1 DEF ClientType
  <1> QED
    BY <1>1, <1>2 DEF TypeOK, Becomes, ClientType

LEMMA Finishing ==
  ASSUME TypeOK, NEW c \in Clients, NEW answer \in {"ok", "conflict", "error", "forbidden"},
         Finish(c, answer)
  PROVE  Becomes(c, [client[c] EXCEPT !.pc = "done", !.answer = answer]) /\ client'[c].pc = "done"
  <1> DEFINE new == [client[c] EXCEPT !.pc = "done", !.answer = answer]
  <1>1. client[c] \in ClientType
    BY ClientFields
  <1>2. new \in ClientType /\ new.pc = "done"
    BY <1>1 DEF ClientType
  <1>3. client' = [client EXCEPT ![c] = new]
    BY <1>1 DEF Finish, TypeOK
  <1> HIDE DEF new
  <1>4. Becomes(c, new)
    BY <1>2, <1>3, Replacing
  <1>5. client'[c].pc = "done"
    BY <1>2, <1>4 DEF Becomes
  <1> QED
    BY <1>4, <1>5 DEF new

LEMMA DecideTells ==
  ASSUME TypeOK, PatchReviewAssumption, NEW c \in Clients, Decide(c)
  PROVE  /\ \E new \in ClientType :
              /\ Becomes(c, new) /\ new.pc \in {"record", "done"}
              /\ new.pc = "record" =>
                   /\ new.patch \in 1..versions /\ new.decision \in Decisions
                   /\ new.row = review[new.patch]
                   /\ new.row # NoReview => new.update = TRUE
         /\ client[c].pc = "idle"
         /\ UNCHANGED <<versions, selected, review, quality, failed, metric, stale>>
  <1>1. PICK p \in 1..versions, d \in Decisions, update \in BOOLEAN, agent \in BOOLEAN :
          \/ agent /\ Finish(c, "forbidden")
          \/ ~agent /\ review[p] # NoReview /\ ~update /\ Finish(c, "conflict")
          \/ /\ ~agent /\ (review[p] = NoReview \/ update)
             /\ client' = [client EXCEPT ![c] =
                  [NewClient EXCEPT !.pc = "record", !.patch = p, !.decision = d,
                                    !.update = update, !.row = review[p]]]
    BY DEF Decide
  <1>2. /\ client[c].pc = "idle"
        /\ UNCHANGED <<versions, selected, review, quality, failed, metric, stale>>
    BY DEF Decide
  <1>3. CASE Finish(c, "forbidden") \/ Finish(c, "conflict")
    <2>1. \E answer \in {"ok", "conflict", "error", "forbidden"} : Finish(c, answer)
      BY <1>3
    <2>2. PICK answer \in {"ok", "conflict", "error", "forbidden"} : Finish(c, answer)
      BY <2>1
    <2>3. /\ Becomes(c, [client[c] EXCEPT !.pc = "done", !.answer = answer])
          /\ client'[c].pc = "done"
      BY <2>2, Finishing
    <2>4. client'[c] \in ClientType /\ Becomes(c, client'[c])
      BY <2>3 DEF Becomes
    <2> QED
      BY <1>2, <2>3, <2>4
  <1>4. CASE /\ review[p] = NoReview \/ update
             /\ client' = [client EXCEPT ![c] =
                  [NewClient EXCEPT !.pc = "record", !.patch = p, !.decision = d,
                                    !.update = update, !.row = review[p]]]
    <2> DEFINE new == [NewClient EXCEPT !.pc = "record", !.patch = p, !.decision = d,
                                        !.update = update, !.row = review[p]]
    <2>1. p \in Patches /\ 1 \in Patches
      BY CurrentIsPatch
    <2>2. review[p] \in ReviewType /\ NoMetric \in MetricType \cup {NoMetric}
      BY <2>1 DEF TypeOK
    <2>3. NewClient \in ClientType
      BY <2>1, <2>2, NoReviewFields DEF NewClient, ClientType
    <2>4. new \in ClientType
      BY <2>1, <2>2, <2>3 DEF ClientType
    <2>5. Becomes(c, new)
      BY <1>4, <2>4, Replacing
    <2>6. /\ new.pc = "record" /\ new.patch = p /\ new.decision = d /\ new.row = review[p]
          /\ new.update = update
      BY <2>3 DEF ClientType
    <2>7. new.row # NoReview => new.update = TRUE
      BY <1>4, <2>6
    <2> HIDE DEF new
    <2> QED
      BY <1>2, <2>4, <2>5, <2>6, <2>7
  <1> QED
    BY <1>1, <1>3, <1>4

LEMMA RecordTells ==
  ASSUME TypeOK, PatchReviewAssumption, RecordFollows, NEW c \in Clients, Record(c)
  PROVE  /\ client[c].pc = "record" /\ Becomes(c, client'[c])
         /\ \/ client'[c].pc = "done" /\ UNCHANGED <<review, stale>>
            \/ client'[c].pc = "load" /\ InputChanged
         /\ review' \in [Patches -> ReviewType]
         /\ \A p \in Patches : review[p] # NoReview => review'[p] # NoReview
         /\ \A p \in Patches :
              review[p] # NoReview /\ review'[p] # review[p]
                => client[c].update = TRUE /\ client[c].patch = p
         /\ UNCHANGED <<versions, selected, quality, failed, metric>>
  <1> DEFINE me == client[c]
             p == me.patch
  <1>1. /\ me.pc = "record" /\ UNCHANGED <<versions, selected, quality, failed, metric>>
        /\ \/ Finish(c, "error") /\ UNCHANGED <<review, stale>>
           \/ /\ me.row = NoReview /\ review[p] = NoReview
              /\ review' = [review EXCEPT ![p] = [decision |-> me.decision, reviewer |-> c]]
              /\ client' = [client EXCEPT ![c].pc = "load"]
              /\ InputChanged
           \/ /\ me.row # NoReview
              /\ review' = [review EXCEPT
                   ![p].decision = IF me.decision = me.row.decision THEN @ ELSE me.decision,
                   ![p].reviewer = c]
              /\ client' = [client EXCEPT ![c].pc = "load"]
              /\ InputChanged
    BY DEF Record
  <1>2. p \in Patches /\ me.decision \in Decisions
        /\ (me.row # NoReview => me.update = TRUE /\ review[p] # NoReview)
    BY <1>1, ClientFields DEF RecordFollows
  <1>3. review \in [Patches -> ReviewType]
    BY DEF TypeOK
  <1>4. review[p] \in ReviewType /\ c \in Clients \cup {Earlier}
    BY <1>2, <1>3
  <1> HIDE DEF me, p
  <1>5. CASE Finish(c, "error") /\ UNCHANGED <<review, stale>>
    <2>1. Becomes(c, [client[c] EXCEPT !.pc = "done", !.answer = "error"]) /\ client'[c].pc = "done"
      BY <1>5, Finishing
    <2>2. Becomes(c, client'[c])
      BY <2>1 DEF Becomes
    <2> QED
      BY <1>1, <1>3, <1>5, <2>1, <2>2 DEF me
  <1>6. ASSUME client' = [client EXCEPT ![c].pc = "load"]
        PROVE  Becomes(c, client'[c]) /\ client'[c].pc = "load"
    <2>1. Becomes(c, [client[c] EXCEPT !.pc = "load"]) /\ client'[c].pc = "load"
      BY <1>6, Placing
    <2> QED
      BY <2>1 DEF Becomes
  <1>7. CASE /\ me.row = NoReview /\ review[p] = NoReview
             /\ review' = [review EXCEPT ![p] = [decision |-> me.decision, reviewer |-> c]]
             /\ client' = [client EXCEPT ![c].pc = "load"]
             /\ InputChanged
    <2> DEFINE row == [decision |-> me.decision, reviewer |-> c]
    <2>1. row \in ReviewType /\ row # NoReview
      BY <1>2, <1>4, NoReviewFields DEF ReviewType, NoReview, Decisions
    <2>2. /\ review' \in [Patches -> ReviewType] /\ review'[p] = row
          /\ \A q \in Patches \ {p} : review'[q] = review[q]
      BY <1>2, <1>3, <1>7, <2>1
    <2> QED
      BY <1>1, <1>6, <1>7, <2>1, <2>2 DEF me
  <1>8. CASE /\ me.row # NoReview
             /\ review' = [review EXCEPT
                  ![p].decision = IF me.decision = me.row.decision THEN @ ELSE me.decision,
                  ![p].reviewer = c]
             /\ client' = [client EXCEPT ![c].pc = "load"]
             /\ InputChanged
    <2>1. review[p] \in [decision : Decisions, reviewer : Clients \cup {Earlier}]
      BY <1>2, <1>4, <1>8, NoReviewFields
    <2> DEFINE decided == IF me.decision = me.row.decision THEN review[p].decision
                          ELSE me.decision
               row == [decision |-> decided, reviewer |-> c]
    <2>2. decided \in Decisions
      BY <1>2, <2>1
    <2>3. row \in ReviewType /\ row # NoReview
      BY <1>4, <2>2, NoReviewFields DEF ReviewType, NoReview, Decisions
    <2>4. [review[p] EXCEPT !.decision = decided, !.reviewer = c] = row
      BY <2>1, ReviewUpdated
    <2> HIDE DEF row
    <2>5. review' = [review EXCEPT ![p] = row]
      <3>1. review' = [review EXCEPT ![p] = [review[p] EXCEPT !.decision = decided,
                                                              !.reviewer = c]]
        BY <1>2, <1>3, <1>8
      <3> QED
        BY <2>4, <3>1
    <2> HIDE DEF decided
    <2>7. /\ review' \in [Patches -> ReviewType] /\ review'[p] = row
          /\ \A q \in Patches \ {p} : review'[q] = review[q]
      BY <1>2, <1>3, <2>3, <2>5
    <2>6. me.update = TRUE
      BY <1>2, <1>8
    <2> QED
      BY <1>1, <1>6, <1>8, <2>3, <2>6, <2>7 DEF me, p
  <1> QED
    BY <1>1, <1>5, <1>7, <1>8

LEMMA EvaluateTells ==
  ASSUME TypeOK, PatchReviewAssumption, NEW c \in Clients, Evaluate(c)
  PROVE  /\ client[c].pc = "idle" /\ Becomes(c, client'[c]) /\ client'[c].pc = "load"
         /\ metric' \in MetricType /\ InputChanged
         /\ UNCHANGED <<versions, selected, review, quality, failed>>
  <1>1. PICK facts \in SUBSET Facts :
          metric' = IF metric = NoMetric
                    THEN [facts |-> facts, ready |-> FALSE, blockers |-> {}]
                    ELSE [metric EXCEPT !.facts = facts]
    BY DEF Evaluate
  <1>2. metric \in MetricType \cup {NoMetric}
    BY DEF TypeOK
  <1>3. metric' \in MetricType
    BY <1>1, <1>2 DEF MetricType
  <1>4. /\ client[c].pc = "idle" /\ client' = [client EXCEPT ![c].pc = "load"] /\ InputChanged
        /\ UNCHANGED <<versions, selected, review, quality, failed>>
    BY DEF Evaluate
  <1>5. Becomes(c, [client[c] EXCEPT !.pc = "load"]) /\ client'[c].pc = "load"
    BY <1>4, Placing
  <1> QED
    BY <1>3, <1>4, <1>5 DEF Becomes

LEMMA QualityTells ==
  ASSUME TypeOK, PatchReviewAssumption, NEW c \in Clients, Quality(c)
  PROVE  /\ client[c].pc = "idle" /\ Becomes(c, client'[c])
         /\ quality' \in [Patches -> {"unknown", "kept", "broken"}]
         /\ InputChanged \/ UNCHANGED <<quality, stale>>
         /\ client'[c].pc \in {"load", "done"}
         /\ client'[c].pc = "done" => quality'[Current] = quality[Current]
         /\ UNCHANGED <<versions, selected, review, failed, metric>>
  <1>1. PICK p \in 1..versions :
          /\ IF quality[p] = "unknown"
             THEN /\ \E q \in {"kept", "broken"} : quality' = [quality EXCEPT ![p] = q]
                  /\ InputChanged
             ELSE UNCHANGED <<quality, stale>>
          /\ client' = [client EXCEPT ![c].pc = IF p = Current THEN "load" ELSE "done"]
    BY DEF Quality
  <1>2. client[c].pc = "idle" /\ UNCHANGED <<versions, selected, review, failed, metric>>
    BY DEF Quality
  <1>3. p \in Patches /\ Current \in Patches
    BY CurrentIsPatch
  <1>4. quality \in [Patches -> {"unknown", "kept", "broken"}]
    BY DEF TypeOK
  <1>5. /\ quality' \in [Patches -> {"unknown", "kept", "broken"}]
        /\ InputChanged \/ UNCHANGED <<quality, stale>>
        /\ p # Current => quality'[Current] = quality[Current]
    <2>1. CASE UNCHANGED <<quality, stale>>
      BY <1>4, <2>1
    <2>2. CASE quality[p] = "unknown"
      <3>1. PICK q \in {"kept", "broken"} : quality' = [quality EXCEPT ![p] = q]
        BY <1>1, <2>2
      <3> QED
        BY <1>1, <1>3, <1>4, <2>2, <3>1
    <2> QED
      BY <1>1, <2>1, <2>2
  <1>6. /\ Becomes(c, client'[c]) /\ client'[c].pc \in {"load", "done"}
        /\ client'[c].pc = "done" => p # Current
    <2>1. CASE p = Current
      <3>1. client' = [client EXCEPT ![c].pc = "load"]
        BY <1>1, <2>1
      <3>2. Becomes(c, [client[c] EXCEPT !.pc = "load"]) /\ client'[c].pc = "load"
        BY <3>1, Placing
      <3> QED
        BY <3>2 DEF Becomes
    <2>2. CASE p # Current
      <3>1. client' = [client EXCEPT ![c].pc = "done"]
        BY <1>1, <2>2
      <3>2. Becomes(c, [client[c] EXCEPT !.pc = "done"]) /\ client'[c].pc = "done"
        BY <3>1, Placing
      <3> QED
        BY <2>2, <3>2 DEF Becomes
    <2> QED
      BY <2>1, <2>2
  <1> QED
    BY <1>2, <1>5, <1>6

LEMMA LoadTells ==
  ASSUME TypeOK, PatchReviewAssumption, NEW c \in Clients, Load(c)
  PROVE  /\ client[c].pc = "load" /\ Becomes(c, client'[c])
         /\ \/ metric = NoMetric /\ client'[c].pc = "done" /\ stale' = stale
            \/ /\ metric # NoMetric /\ client'[c].pc = "store"
               /\ client'[c].metric = metric
               /\ client'[c].blockers = Calculate(metric.facts)
               /\ stale' = (stale /\ InWindow # {})
         /\ UNCHANGED <<versions, selected, review, quality, failed, metric>>
  <1>1. /\ client[c].pc = "load"
        /\ UNCHANGED <<versions, selected, review, quality, failed, metric>>
        /\ \/ metric = NoMetric /\ Finish(c, "ok") /\ stale' = stale
           \/ /\ metric # NoMetric
              /\ client' = [client EXCEPT ![c].pc = "store", ![c].metric = metric,
                                          ![c].blockers = Calculate(metric.facts)]
              /\ stale' = (stale /\ InWindow # {})
    BY DEF Load
  <1>2. CASE metric = NoMetric /\ Finish(c, "ok") /\ stale' = stale
    <2>1. /\ Becomes(c, [client[c] EXCEPT !.pc = "done", !.answer = "ok"])
          /\ client'[c].pc = "done"
      BY <1>2, Finishing
    <2> QED
      BY <1>1, <1>2, <2>1 DEF Becomes
  <1>3. CASE /\ metric # NoMetric
             /\ client' = [client EXCEPT ![c].pc = "store", ![c].metric = metric,
                                         ![c].blockers = Calculate(metric.facts)]
             /\ stale' = (stale /\ InWindow # {})
    <2>1. metric \in MetricType
      BY <1>3 DEF TypeOK
    <2>2. Calculate(metric.facts) \in SUBSET Blockers
      BY <2>1, MetricFields, CalculateTyped
    <2> DEFINE blocked == Calculate(metric.facts)
               new == [client[c] EXCEPT !.pc = "store", !.metric = metric, !.blockers = blocked]
    <2>3. client[c] \in ClientType
      BY ClientFields
    <2>4. client' = [client EXCEPT ![c] = new]
      BY <1>3 DEF TypeOK
    <2> HIDE DEF blocked
    <2>5. new \in ClientType
      BY <2>1, <2>2, <2>3 DEF ClientType, blocked
    <2>6. new.pc = "store" /\ new.metric = metric /\ new.blockers = blocked
      BY <2>3 DEF ClientType
    <2> HIDE DEF new
    <2>7. Becomes(c, new)
      BY <2>4, <2>5, Replacing
    <2>8. client'[c] = new
      BY <2>7 DEF Becomes
    <2> QED
      BY <1>1, <1>3, <2>6, <2>7, <2>8 DEF blocked
  <1> QED
    BY <1>1, <1>2, <1>3

LEMMA StoreTells ==
  ASSUME TypeOK, PatchReviewAssumption, StoreFollows, NEW c \in Clients, Store(c)
  PROVE  /\ client[c].pc = "store" /\ Becomes(c, client'[c]) /\ client'[c].pc = "done"
         /\ metric \in MetricType /\ metric' \in MetricType
         /\ metric'.facts = metric.facts
         /\ metric'.ready = IF (client[c].blockers = {}) = client[c].metric.ready
                            THEN metric.ready ELSE client[c].blockers = {}
         /\ metric'.blockers = IF client[c].blockers = client[c].metric.blockers
                               THEN metric.blockers ELSE client[c].blockers
         /\ UNCHANGED <<versions, selected, review, quality, failed, stale>>
  <1>1. /\ client[c].pc = "store" /\ Finish(c, "ok")
        /\ metric' = [metric EXCEPT
             !.ready = IF (client[c].blockers = {}) = client[c].metric.ready
                       THEN @ ELSE client[c].blockers = {},
             !.blockers = IF client[c].blockers = client[c].metric.blockers
                          THEN @ ELSE client[c].blockers]
        /\ UNCHANGED <<versions, selected, review, quality, failed, stale>>
    BY DEF Store
  <1>2. metric \in MetricType
    BY <1>1 DEF TypeOK, StoreFollows
  <1> DEFINE ready == IF (client[c].blockers = {}) = client[c].metric.ready
                      THEN metric.ready ELSE client[c].blockers = {}
             blocked == IF client[c].blockers = client[c].metric.blockers
                        THEN metric.blockers ELSE client[c].blockers
  <1>3. metric' = [metric EXCEPT !.ready = ready, !.blockers = blocked]
    BY <1>1, <1>2 DEF MetricType
  <1>4. ready \in BOOLEAN
    BY <1>2, MetricFields
  <1>5. blocked \in SUBSET Blockers
    BY <1>2, MetricFields, ClientFields
  <1>6. client[c] \in ClientType
    BY ClientFields
  <1>7. Becomes(c, client'[c]) /\ client'[c].pc = "done"
    BY <1>1, Finishing DEF Becomes
  <1> HIDE DEF ready, blocked
  <1>8. /\ metric' \in MetricType /\ metric'.facts = metric.facts
        /\ metric'.ready = ready /\ metric'.blockers = blocked
    BY <1>2, <1>3, <1>4, <1>5 DEF MetricType
  <1> QED
    BY <1>1, <1>2, <1>7, <1>8 DEF ready, blocked

LEMMA ClassifyTells ==
  ASSUME Classify
  PROVE  /\ failed' = TRUE /\ stale' = TRUE
         /\ UNCHANGED <<versions, selected, review, quality, metric, client>>
  BY DEF Classify

LEMMA AddVersionTells ==
  ASSUME TypeOK, PatchReviewAssumption, AddVersion
  PROVE  /\ versions' = versions + 1 /\ versions' \in Patches
         /\ quality' \in [Patches -> {"unknown", "kept", "broken"}]
         /\ \/ stale' = TRUE
            \/ /\ stale' = stale /\ selected # 0
               /\ quality'[selected] = quality[selected]
         /\ UNCHANGED <<selected, review, failed, metric, client>>
  <1>1. /\ versions < MaxVersions /\ versions' = versions + 1
        /\ stale' = (stale \/ selected = 0)
        /\ UNCHANGED <<selected, review, failed, metric, client>>
    BY DEF AddVersion
  <1>2. PICK q \in {"kept", "broken"} : quality' = [quality EXCEPT ![versions'] = q]
    BY DEF AddVersion
  <1>3. versions \in Nat /\ selected \in 0..versions /\ MaxVersions \in Nat
    BY CurrentIsPatch DEF PatchReviewAssumption
  <1>4. versions' \in 1..MaxVersions /\ selected # versions'
    BY <1>1, <1>3
  <1>5. quality \in [Patches -> {"unknown", "kept", "broken"}] /\ stale \in BOOLEAN
    BY DEF TypeOK
  <1>6. quality' \in [Patches -> {"unknown", "kept", "broken"}]
    BY <1>2, <1>5
  <1>7. selected # 0 => selected \in 1..MaxVersions
    BY <1>1, <1>3
  <1>8. selected # 0 => quality'[selected] = quality[selected]
    BY <1>2, <1>4, <1>5, <1>7 DEF Patches
  <1>9. stale' = TRUE \/ (stale' = stale /\ selected # 0)
    BY <1>1, <1>5
  <1> QED
    BY <1>1, <1>4, <1>6, <1>8, <1>9 DEF Patches

-----------------------------------------------------------------------------
(* The three kinds of steps around a refresh.                              *)

(* An input changes and its request goes on to refresh.                    *)
LEMMA ChangeFollows ==
  ASSUME TypeOK, StoreFollows, NEW c \in Clients, Becomes(c, client'[c]),
         client'[c].pc = "load", InputChanged, metric # NoMetric => metric' # NoMetric
  PROVE  StoreFollows' /\ RestIsCurrent'
  <1>1. stale' = FALSE => \A d \in Clients : client[d].pc # "store"
    BY DEF InputChanged, InWindow, TypeOK
  <1>2. \A d \in Clients : client'[d].pc = "store" =>
          /\ client[d].pc = "store" /\ client'[d] = client[d]
    BY DEF Becomes
  <1>3. StoreFollows'
    <2>1. SUFFICES ASSUME NEW d \in Clients, client'[d].pc = "store"
                   PROVE  metric' # NoMetric /\ stale' # FALSE
      BY DEF StoreFollows
    <2> QED
      BY <1>1, <1>2, <2>1 DEF StoreFollows
  <1>4. Refreshing'
    BY DEF Refreshing
  <1> QED
    BY <1>3, <1>4 DEF RestIsCurrent

(* An input changes and nobody refreshes for it.                           *)
LEMMA LagFollows ==
  ASSUME StoreFollows, UNCHANGED <<client, metric>>, stale' = TRUE
  PROVE  StoreFollows' /\ RestIsCurrent'
  BY DEF StoreFollows, RestIsCurrent

(* Nothing that matters to a refresh changes.                              *)
LEMMA QuietFollows ==
  ASSUME StoreFollows, RestIsCurrent, UNCHANGED <<metric, stale>>,
         \A facts : Calculate(facts)' = Calculate(facts),
         \A d \in Clients :
           \/ client'[d] = client[d]
           \/ /\ client'[d].pc # "store"
              /\ client[d].pc \in {"load", "store"} => metric = NoMetric
  PROVE  StoreFollows' /\ RestIsCurrent'
  <1>1. ASSUME NEW d \in Clients, client'[d].pc = "store"
        PROVE  client[d].pc = "store" /\ client'[d] = client[d]
    BY <1>1
  <1>2. ASSUME NEW facts PROVE Calculate(facts)' = Calculate(facts)
    OBVIOUS
  <1>3. StoreFollows'
    <2>1. SUFFICES ASSUME NEW d \in Clients, client'[d].pc = "store"
                   PROVE  /\ metric' # NoMetric
                          /\ stale' = FALSE =>
                               /\ client'[d].blockers = Calculate(metric.facts)'
                               /\ client'[d].metric.blockers = client'[d].blockers
                                    => metric'.blockers = client'[d].blockers
                               /\ client'[d].metric.ready = (client'[d].blockers = {})
                                    => metric'.ready = (client'[d].blockers = {})
      BY DEF StoreFollows
    <2>2. client[d].pc = "store" /\ client'[d] = client[d]
      BY <1>1, <2>1
    <2>3. Calculate(metric.facts)' = Calculate(metric.facts)
      OBVIOUS
    <2> QED
      BY <2>2, <2>3 DEF StoreFollows
  <1>4. RestIsCurrent'
    <2>1. SUFFICES ASSUME metric # NoMetric, stale = FALSE, ~Refreshing'
                   PROVE  metric = Evaluated(metric.facts)'
      BY DEF RestIsCurrent
    <2>2. ~Refreshing
      BY <2>1 DEF Refreshing
    <2>3. metric = Evaluated(metric.facts)
      BY <2>1, <2>2 DEF RestIsCurrent
    <2> QED
      BY <2>3 DEF Evaluated
  <1> QED
    BY <1>3, <1>4

LEMMA SameInputs ==
  ASSUME versions' = versions, selected' = selected, failed' = failed, review' = review,
         quality'[Current] = quality[Current]
  PROVE  \A facts : Calculate(facts)' = Calculate(facts)
  <1>1. Current' = Current
    BY DEF Current
  <1> QED
    BY <1>1 DEF Calculate

-----------------------------------------------------------------------------
(* Steps.                                                                  *)

(* What kind of step it is.                                                *)
LEMMA Cases ==
  ASSUME [Next]_vars
  PROVE  \/ \E c \in Clients :
               Decide(c) \/ Record(c) \/ Evaluate(c) \/ Quality(c) \/ Load(c) \/ Store(c)
         \/ Classify \/ AddVersion \/ UNCHANGED vars
  BY DEF Next, Terminated

LEMMA ReviewTypesStep ==
  ASSUME PatchReviewAssumption, TypeOK, RecordFollows, StoreFollows, [Next]_vars
  PROVE  TypeOK'
  <1>1. ASSUME NEW c \in Clients, Decide(c) PROVE TypeOK'
    BY <1>1, DecideTells DEF TypeOK, Becomes
  <1>2. ASSUME NEW c \in Clients, Record(c) PROVE TypeOK'
    <2>1. stale' \in BOOLEAN
      BY <1>2, RecordTells DEF TypeOK, InputChanged
    <2> QED
      BY <1>2, <2>1, RecordTells DEF TypeOK, Becomes
  <1>3. ASSUME NEW c \in Clients, Evaluate(c) PROVE TypeOK'
    <2>1. stale' \in BOOLEAN
      BY <1>3, EvaluateTells DEF TypeOK, InputChanged
    <2> QED
      BY <1>3, <2>1, EvaluateTells DEF TypeOK, Becomes
  <1>4. ASSUME NEW c \in Clients, Quality(c) PROVE TypeOK'
    <2>1. stale' \in BOOLEAN
      BY <1>4, QualityTells DEF TypeOK, InputChanged
    <2> QED
      BY <1>4, <2>1, QualityTells DEF TypeOK, Becomes
  <1>5. ASSUME NEW c \in Clients, Load(c) PROVE TypeOK'
    <2>1. stale' \in BOOLEAN
      BY <1>5, LoadTells DEF TypeOK
    <2> QED
      BY <1>5, <2>1, LoadTells DEF TypeOK, Becomes
  <1>6. ASSUME NEW c \in Clients, Store(c) PROVE TypeOK'
    BY <1>6, StoreTells DEF TypeOK, Becomes
  <1>7. CASE Classify
    BY <1>7, ClassifyTells DEF TypeOK
  <1>8. CASE AddVersion
    <2>1. selected \in 0..versions'
      BY <1>8, AddVersionTells, CurrentIsPatch
    <2>2. stale' \in BOOLEAN
      BY <1>8, AddVersionTells DEF TypeOK
    <2> QED
      BY <1>8, <2>1, <2>2, AddVersionTells DEF TypeOK
  <1>9. CASE UNCHANGED vars
    BY <1>9 DEF TypeOK, vars
  <1> QED
    BY <1>1, <1>2, <1>3, <1>4, <1>5, <1>6, <1>7, <1>8, <1>9, Cases

(* A request at the place "record" has just read, or is where it was.      *)
LEMMA RecordFollowsStep ==
  ASSUME PatchReviewAssumption, TypeOK, RecordFollows, StoreFollows, [Next]_vars
  PROVE  RecordFollows'
  <1>1. ASSUME UNCHANGED versions \/ versions' = versions + 1,
               \A p \in Patches : review[p] # NoReview => review'[p] # NoReview,
               \A c \in Clients : client'[c].pc = "record" => client'[c] = client[c]
        PROVE  RecordFollows'
    <2>1. SUFFICES ASSUME NEW c \in Clients, client'[c].pc = "record"
                   PROVE  /\ client'[c].patch <= versions' /\ client'[c].decision \in Decisions
                          /\ client'[c].row # NoReview
                               => /\ client'[c].update = TRUE
                                  /\ review'[client'[c].patch] # NoReview
      BY DEF RecordFollows
    <2>2. client'[c] = client[c] /\ client[c].pc = "record" /\ client[c].patch \in Patches
      BY <1>1, <2>1, ClientFields
    <2>3. client[c].patch <= versions'
      <3>1. client[c].patch <= versions /\ client[c].patch \in Nat /\ versions \in Nat
        BY <2>2, CurrentIsPatch DEF RecordFollows, Patches
      <3> QED
        BY <1>1, <3>1
    <2> QED
      BY <1>1, <2>2, <2>3 DEF RecordFollows
  <1>2. ASSUME NEW c \in Clients, Decide(c) PROVE RecordFollows'
    <2>1. PICK new \in ClientType :
            /\ Becomes(c, new) /\ new.pc \in {"record", "done"}
            /\ new.pc = "record" =>
                 /\ new.patch \in 1..versions /\ new.decision \in Decisions
                 /\ new.row = review[new.patch]
                 /\ new.row # NoReview => new.update = TRUE
      BY <1>2, DecideTells
    <2>2. versions' = versions /\ review' = review
      BY <1>2, DecideTells
    <2>3. new.pc = "record" => new.patch <= versions
      BY <2>1, CurrentIsPatch
    <2> QED
      BY <2>1, <2>2, <2>3 DEF RecordFollows, Becomes
  <1>3. ASSUME NEW c \in Clients, Record(c) PROVE RecordFollows'
    <2>1. \A d \in Clients : client'[d].pc = "record" => client'[d] = client[d]
      BY <1>3, RecordTells DEF Becomes
    <2> QED
      BY <1>1, <1>3, <2>1, RecordTells
  <1>4. ASSUME NEW c \in Clients, Evaluate(c) \/ Quality(c) \/ Load(c) \/ Store(c)
        PROVE  RecordFollows'
    <2>1. /\ Becomes(c, client'[c]) /\ client'[c].pc \in {"load", "store", "done"}
          /\ versions' = versions /\ review' = review
      BY <1>4, EvaluateTells, QualityTells, LoadTells, StoreTells
    <2>2. \A d \in Clients : client'[d].pc = "record" => client'[d] = client[d]
      BY <2>1 DEF Becomes
    <2> QED
      BY <1>1, <2>1, <2>2
  <1>5. CASE Classify \/ AddVersion \/ UNCHANGED vars
    <2>1. /\ client' = client /\ review' = review
          /\ versions' = versions \/ versions' = versions + 1
      BY <1>5, ClassifyTells, AddVersionTells DEF vars
    <2> QED
      BY <1>1, <2>1
  <1> QED
    BY <1>2, <1>3, <1>4, <1>5, Cases

(* Storing what has been computed: the readiness is that of the inputs,    *)
(* and what others are about to store is the same.                         *)
LEMMA StoreKeepsFollowing ==
  ASSUME PatchReviewAssumption, TypeOK, StoreFollows, NEW c \in Clients, Store(c)
  PROVE  StoreFollows' /\ RestIsCurrent'
  <1>1. /\ client[c].pc = "store" /\ Becomes(c, client'[c]) /\ client'[c].pc = "done"
        /\ metric \in MetricType /\ metric' \in MetricType /\ metric'.facts = metric.facts
        /\ metric'.ready = IF (client[c].blockers = {}) = client[c].metric.ready
                           THEN metric.ready ELSE client[c].blockers = {}
        /\ metric'.blockers = IF client[c].blockers = client[c].metric.blockers
                              THEN metric.blockers ELSE client[c].blockers
        /\ UNCHANGED <<versions, selected, review, quality, failed, stale>>
    BY StoreTells
  <1>2. metric' # NoMetric
    BY <1>1, NoMetricIsNone
  <1>3. \A facts : Calculate(facts)' = Calculate(facts)
    BY <1>1, SameInputs
  <1> DEFINE due == Calculate(metric.facts)
  <1>4. Calculate(metric.facts)' = due
    BY <1>1, <1>3
  <1>5. stale = FALSE => /\ client[c].blockers = due
                         /\ metric'.blockers = due /\ metric'.ready = (due = {})
    BY <1>1 DEF StoreFollows
  <1>6. StoreFollows'
    <2>1. SUFFICES ASSUME NEW d \in Clients, client'[d].pc = "store", stale = FALSE
                   PROVE  /\ client'[d].blockers = Calculate(metric.facts)'
                          /\ metric'.blockers = client'[d].blockers
                          /\ metric'.ready = (client'[d].blockers = {})
      BY <1>1, <1>2 DEF StoreFollows
    <2>2. client'[d] = client[d] /\ client[d].pc = "store"
      BY <1>1, <2>1 DEF Becomes
    <2>3. client[d].blockers = due
      BY <2>1, <2>2 DEF StoreFollows
    <2> QED
      BY <1>4, <1>5, <2>1, <2>2, <2>3
  <1>7. RestIsCurrent'
    <2>1. SUFFICES ASSUME stale = FALSE PROVE metric' = Evaluated(metric.facts)'
      BY <1>1 DEF RestIsCurrent
    <2>2. Evaluated(metric.facts)' = [facts |-> metric'.facts, ready |-> due = {}, blockers |-> due]
      BY <1>4 DEF Evaluated
    <2>3. metric' = [facts |-> metric'.facts, ready |-> metric'.ready,
                     blockers |-> metric'.blockers]
      BY <1>1, MetricFields
    <2> QED
      BY <1>5, <2>1, <2>2, <2>3
  <1> QED
    BY <1>6, <1>7

(* What has been read under one state of the inputs is what they say.      *)
LEMMA LoadKeepsFollowing ==
  ASSUME PatchReviewAssumption, TypeOK, StoreFollows, NEW c \in Clients,
         Load(c), metric # NoMetric
  PROVE  StoreFollows' /\ RestIsCurrent'
  <1>1. /\ client[c].pc = "load" /\ Becomes(c, client'[c]) /\ client'[c].pc = "store"
        /\ client'[c].metric = metric /\ client'[c].blockers = Calculate(metric.facts)
        /\ stale' = (stale /\ InWindow # {})
        /\ UNCHANGED <<versions, selected, review, quality, failed, metric>>
    BY LoadTells
  <1>2. \A facts : Calculate(facts)' = Calculate(facts)
    BY <1>1, SameInputs
  <1>3. Calculate(metric.facts)' = Calculate(metric.facts)
    BY <1>1, <1>2
  <1>4. StoreFollows'
    <2>1. SUFFICES ASSUME NEW d \in Clients, client'[d].pc = "store"
                   PROVE  stale' = FALSE =>
                            /\ client'[d].blockers = Calculate(metric.facts)'
                            /\ client'[d].metric.blockers = client'[d].blockers
                                 => metric'.blockers = client'[d].blockers
                            /\ client'[d].metric.ready = (client'[d].blockers = {})
                                 => metric'.ready = (client'[d].blockers = {})
      BY <1>1 DEF StoreFollows
    <2>2. CASE d = c
      BY <1>1, <1>3, <2>2
    <2>3. CASE d # c
      <3>1. client'[d] = client[d] /\ client[d].pc = "store"
        BY <1>1, <2>1, <2>3 DEF Becomes
      <3>2. InWindow # {}
        BY <3>1 DEF InWindow
      <3>3. stale' = FALSE => stale = FALSE
        BY <1>1, <3>2 DEF TypeOK
      <3> QED
        BY <1>1, <1>3, <3>1, <3>3 DEF StoreFollows
    <2> QED
      BY <2>2, <2>3
  <1>5. Refreshing'
    BY <1>1 DEF Refreshing
  <1> QED
    BY <1>4, <1>5 DEF RestIsCurrent

LEMMA FollowingStep ==
  ASSUME PatchReviewAssumption, ReviewInv, [Next]_vars
  PROVE  StoreFollows' /\ RestIsCurrent'
  <1> USE DEF ReviewInv
  <1>1. ASSUME NEW c \in Clients, Decide(c) PROVE StoreFollows' /\ RestIsCurrent'
    <2>1. /\ client[c].pc = "idle" /\ client'[c].pc \in {"record", "done"}
          /\ \A d \in Clients \ {c} : client'[d] = client[d]
          /\ UNCHANGED <<versions, selected, review, quality, failed, metric, stale>>
      BY <1>1, DecideTells DEF Becomes
    <2>2. \A facts : Calculate(facts)' = Calculate(facts)
      BY <2>1, SameInputs
    <2> QED
      BY <2>1, <2>2, QuietFollows
  <1>2. ASSUME NEW c \in Clients, Record(c) PROVE StoreFollows' /\ RestIsCurrent'
    <2>1. CASE client'[c].pc = "load" /\ InputChanged
      BY <1>2, <2>1, RecordTells, ChangeFollows
    <2>2. CASE client'[c].pc = "done" /\ UNCHANGED <<review, stale>>
      <3>1. /\ client[c].pc = "record" /\ \A d \in Clients \ {c} : client'[d] = client[d]
            /\ UNCHANGED <<versions, selected, quality, failed, metric>>
        BY <1>2, RecordTells DEF Becomes
      <3>2. \A facts : Calculate(facts)' = Calculate(facts)
        BY <2>2, <3>1, SameInputs
      <3> QED
        BY <2>2, <3>1, <3>2, QuietFollows
    <2> QED
      BY <1>2, <2>1, <2>2, RecordTells
  <1>3. ASSUME NEW c \in Clients, Evaluate(c) PROVE StoreFollows' /\ RestIsCurrent'
    BY <1>3, EvaluateTells, ChangeFollows, NoMetricIsNone
  <1>4. ASSUME NEW c \in Clients, Quality(c) PROVE StoreFollows' /\ RestIsCurrent'
    <2>1. /\ client[c].pc = "idle" /\ Becomes(c, client'[c])
          /\ InputChanged \/ UNCHANGED <<quality, stale>>
          /\ client'[c].pc \in {"load", "done"}
          /\ client'[c].pc = "done" => quality'[Current] = quality[Current]
          /\ UNCHANGED <<versions, selected, review, failed, metric>>
      BY <1>4, QualityTells
    <2>2. CASE UNCHANGED <<quality, stale>>
      <3>1. \A facts : Calculate(facts)' = Calculate(facts)
        BY <2>1, <2>2, SameInputs
      <3>2. \A d \in Clients \ {c} : client'[d] = client[d]
        BY <2>1 DEF Becomes
      <3> QED
        BY <2>1, <2>2, <3>1, <3>2, QuietFollows
    <2>3. CASE InputChanged /\ client'[c].pc = "load"
      BY <2>1, <2>3, ChangeFollows
    <2>4. CASE InputChanged /\ client'[c].pc = "done"
      <3>1. \A facts : Calculate(facts)' = Calculate(facts)
        BY <2>1, <2>4, SameInputs
      <3>2. \A d \in Clients \ {c} : client'[d] = client[d]
        BY <2>1 DEF Becomes
      <3>3. CASE stale' = stale
        BY <2>1, <2>4, <3>1, <3>2, <3>3, QuietFollows
      <3>4. CASE stale' # stale
        <4>1. stale' = TRUE
          BY <2>4, <3>4 DEF InputChanged, TypeOK
        <4>2. \A d \in Clients : client'[d].pc = "store" => client[d].pc = "store"
          BY <2>4, <3>2
        <4> QED
          BY <2>1, <4>1, <4>2 DEF StoreFollows, RestIsCurrent
      <3> QED
        BY <3>3, <3>4
    <2> QED
      BY <2>1, <2>2, <2>3, <2>4
  <1>5. ASSUME NEW c \in Clients, Load(c) PROVE StoreFollows' /\ RestIsCurrent'
    <2>1. CASE metric # NoMetric
      BY <1>5, <2>1, LoadKeepsFollowing
    <2>2. CASE metric = NoMetric
      <3>1. /\ client'[c].pc = "done" /\ \A d \in Clients \ {c} : client'[d] = client[d]
            /\ UNCHANGED <<versions, selected, review, quality, failed, metric, stale>>
        BY <1>5, <2>2, LoadTells DEF Becomes
      <3>2. \A facts : Calculate(facts)' = Calculate(facts)
        BY <3>1, SameInputs
      <3> QED
        BY <2>2, <3>1, <3>2, QuietFollows
    <2> QED
      BY <2>1, <2>2
  <1>6. ASSUME NEW c \in Clients, Store(c) PROVE StoreFollows' /\ RestIsCurrent'
    BY <1>6, StoreKeepsFollowing
  <1>7. CASE Classify
    BY <1>7, ClassifyTells, LagFollows
  <1>8. CASE AddVersion
    <2>1. CASE stale' = TRUE
      BY <1>8, <2>1, AddVersionTells, LagFollows
    <2>2. CASE stale' = stale /\ selected # 0 /\ quality'[selected] = quality[selected]
      <3>1. UNCHANGED <<selected, review, failed, metric, client, stale>>
        BY <1>8, <2>2, AddVersionTells
      <3>2. Current = selected /\ Current' = selected
        BY <2>2, <3>1 DEF Current
      <3>3. \A facts : Calculate(facts)' = Calculate(facts)
        BY <2>2, <3>1, <3>2 DEF Calculate
      <3> QED
        BY <3>1, <3>3, QuietFollows
    <2> QED
      BY <1>8, <2>1, <2>2, AddVersionTells
  <1>9. CASE UNCHANGED vars
    <2>1. UNCHANGED <<versions, selected, review, quality, failed, metric, client, stale>>
      BY <1>9 DEF vars
    <2>2. \A facts : Calculate(facts)' = Calculate(facts)
      BY <2>1, SameInputs
    <2> QED
      BY <2>1, <2>2, QuietFollows
  <1> QED
    BY <1>1, <1>2, <1>3, <1>4, <1>5, <1>6, <1>7, <1>8, <1>9, Cases

LEMMA ReviewInit ==
  ASSUME PatchReviewAssumption, Init
  PROVE  ReviewInv
  <1>1. review \in [Patches -> ReviewType]
    BY NoReviewFields DEF Init, ReviewType
  <1>2. metric \in {NoMetric} \cup MetricType /\ stale = FALSE
    BY CalculateTyped DEF Init
  <1>3. NewClient \in ClientType
    <2>1. 1 \in Patches
      <3>1. MaxVersions \in Nat \ {0}
        BY DEF PatchReviewAssumption
      <3> QED
        BY <3>1 DEF Patches
    <2> QED
      BY <2>1, NoReviewFields DEF NewClient, ClientType
  <1>4. client \in [Clients -> ClientType] /\ \A c \in Clients : client[c].pc = "idle"
    BY <1>3 DEF Init, NewClient
  <1>5. TypeOK
    BY <1>1, <1>2, <1>4 DEF Init, TypeOK
  <1>6. metric # NoMetric => metric = Evaluated(metric.facts)
    <2>1. SUFFICES ASSUME metric # NoMetric PROVE metric = Evaluated(metric.facts)
      OBVIOUS
    <2>2. PICK facts \in SUBSET Facts : metric = Evaluated(facts)
      BY <2>1 DEF Init
    <2>3. metric.facts = facts
      BY <2>2 DEF Evaluated
    <2> QED
      BY <2>2, <2>3
  <1> QED
    BY <1>4, <1>5, <1>6 DEF ReviewInv, RecordFollows, StoreFollows, RestIsCurrent

-----------------------------------------------------------------------------
(* Theorems.                                                               *)

(* What is read, computed and stored by reviews, evaluations, views and    *)
(* their refreshes fits together wherever the requests are.                *)
THEOREM ReviewInductive ==
  ASSUME PatchReviewAssumption
  PROVE  Spec => []ReviewInv
  <1>1. Init => ReviewInv
    BY ReviewInit
  <1>2. ReviewInv /\ [Next]_vars => ReviewInv'
    BY ReviewTypesStep, RecordFollowsStep, FollowingStep DEF ReviewInv
  <1> QED
    BY <1>1, <1>2, PTL DEF Spec

(* The stored readiness of every run is one of its inputs, and when all    *)
(* requests have been answered it is that of the inputs now, unless one of *)
(* them changed without a refresh that saw it (refresh of                  *)
(* review_readiness/service.py).                                           *)
THEOREM ReadinessKept ==
  ASSUME PatchReviewAssumption
  PROVE  Spec => []ReadinessIsSound
  <1>1. ReviewInv => ReadinessIsSound
    BY DEF ReadinessIsSound, ReviewInv, RestIsCurrent, ReadinessIsCurrent, AtRest, Refreshing,
           TypeOK
  <1> QED
    BY <1>1, ReviewInductive, PTL

(* Whoever decides at the same time, a review is replaced only by a        *)
(* request with update_existing for its patch (_record_review of           *)
(* approvals/service.py).                                                  *)
THEOREM ReviewsStay ==
  ASSUME PatchReviewAssumption
  PROVE  Spec => ReviewsAreNotReplaced
  <1> DEFINE Asked ==
        \A p \in Patches :
          review[p] # NoReview /\ review'[p] # review[p] =>
            \E c \in Clients : client[c].pc = "record" /\ client[c].update /\ client[c].patch = p
  <1>1. ReviewInv /\ [Next]_vars => [Asked]_vars
    <2>1. SUFFICES ASSUME ReviewInv, Next PROVE Asked
      BY DEF vars
    <2>2. CASE \E c \in Clients : Record(c)
      <3>1. PICK c \in Clients : Record(c)
        BY <2>2
      <3> QED
        BY <2>1, <3>1, RecordTells DEF ReviewInv
    <2>3. CASE review' = review
      BY <2>3
    <2> QED
      BY <2>1, <2>2, <2>3, DecideTells, EvaluateTells, QualityTells, LoadTells, StoreTells,
         ClassifyTells, AddVersionTells DEF ReviewInv, Next, Terminated, vars
  <1>2. []ReviewInv /\ [][Next]_vars => [][Asked]_vars
    BY <1>1, PTL
  <1> QED
    BY <1>2, ReviewInductive, PTL DEF Spec, ReviewsAreNotReplaced

-----------------------------------------------------------------------------
(***************************************************************************)
(* Traces and replay snapshots.                                            *)
(***************************************************************************)

(* Events of calls are those of the loop, and what settles a call is       *)
(* small, so that a trace keeps its id.                                    *)
CallEvents ==
  \A i \in DOMAIN log :
    /\ log[i].type \in Settling \cup {"tool_call_requested"} => log[i].phase = "loop"
    /\ log[i].type \in Settling => log[i].large = FALSE

(* A terminal event is one of the latest request before it.                *)
OutcomesBelong ==
  \A j \in Positions(log, Settling) :
    \E i \in Requests :
      /\ i < j /\ log[i].id = log[j].id
      /\ \A k \in Requests : k > i => j < k

Open == {"requested", "executed", "refused"}

(* All requests have an outcome but the one that is being carried out.     *)
RequestsSettled ==
  \A i \in Requests :
    \/ \E j \in OutcomesOf(i) : log[j].id = log[i].id
    \/ call.pc \in Open /\ \A k \in Requests : k <= i

CallUnderWay ==
  call # NoCall =>
    \E i \in Requests : log[i].id = call.id /\ \A k \in Requests : k <= i

(* The loop is at the call it has not settled.                             *)
LoopAtCall == call.pc \in Open => Looping

(* Every set of positions has a last one.                                  *)
Lasts(length) ==
  \A S \in SUBSET (1..length) : S # {} => \E m \in S : \A n \in S : n <= m

HasLasts == Lasts(Len(log))

AtType ==
  {a \in [pc : Places, phase : Phases \cup {"run"}, passed : BOOLEAN] :
     a.pc = "testing" => a.phase \in Phases}

LogTyped ==
  /\ log \in Seq(EventType) /\ rows \in Seq([phase : Phases, passed : BOOLEAN])
  /\ status \in Terminal \cup {"running"} /\ failure \in BOOLEAN
  /\ call \in [pc : {"none", "requested", "executed", "refused", "submitted"},
               id : CallIds \cup {NoId}, payload : Payloads \cup {NoCall.payload}]
  /\ call.pc = "none" => call = NoCall
  /\ at \in [Writers -> AtType] /\ writes \in Nat

LogInv ==
  /\ LogTyped /\ CallEvents /\ OutcomesBelong /\ RequestsSettled
  /\ CallUnderWay /\ LoopAtCall /\ HasLasts

-----------------------------------------------------------------------------
(* Data.                                                                   *)

LEMMA EventFields ==
  ASSUME NEW e \in EventType
  PROVE  /\ e.type \in EventTypes /\ e.id \in CallIds \cup {NoId} /\ e.keys \subseteq Kinds
         /\ e.large \in BOOLEAN /\ e.success \in {"yes", "no", "unset"}
         /\ e.phase \in Phases \cup {"loop", "run"}
  BY DEF EventType

LEMMA EventMade ==
  ASSUME NEW type \in EventTypes, NEW id \in CallIds \cup {NoId},
         NEW payload \in [keys : SUBSET Kinds, large : BOOLEAN],
         NEW success \in {"yes", "no", "unset"}, NEW phase \in Phases \cup {"loop", "run"}
  PROVE  /\ Event(type, id, payload, success, phase) \in EventType
         /\ Event(type, id, payload, success, phase).type = type
         /\ Event(type, id, payload, success, phase).id = id
         /\ Event(type, id, payload, success, phase).large = payload.large
         /\ Event(type, id, payload, success, phase).phase = phase
  BY DEF Event, EventType

LEMMA PlainPayloads ==
  ASSUME TraceAssumption, NEW p \in Payloads \cup {NoCall.payload, Plain}
  PROVE  p \in [keys : SUBSET Kinds, large : BOOLEAN]
  <1>1. NoCall.payload = [keys |-> {}, large |-> FALSE]
        /\ NoCall.payload \in [keys : SUBSET Kinds, large : BOOLEAN]
    BY DEF NoCall
  <1>2. Plain \in [keys : SUBSET Kinds, large : BOOLEAN]
    BY DEF Plain, Kinds
  <1> QED
    BY <1>1, <1>2 DEF TraceAssumption

LEMMA Literals ==
  /\ {"model_call_completed", "tool_call_requested", "agent_tool_call", "test_phase_completed"}
       \subseteq EventTypes
  /\ {"yes", "no", "unset"} \subseteq {"yes", "no", "unset"}
  /\ "loop" \in Phases \cup {"loop", "run"} /\ NoId \in CallIds \cup {NoId}
  BY DEF EventTypes

LEMMA PlainIsSmall == Plain.large = FALSE
  BY DEF Plain

LEMMA EventReadTells ==
  ASSUME NEW e \in EventType
  PROVE  LET r == EventRead(e) IN
         /\ r.type = e.type
         /\ r.id = IF e.large \/ e.phase = "hidden_eval" THEN NoId ELSE e.id
         /\ r.cut = (e.large /\ e.phase # "hidden_eval")
         /\ r.success = IF r.cut THEN "unset" ELSE e.success
         /\ r.keys \cap {"secret", "protected"} = {} /\ r.paths \subseteq {"path"}
         /\ e.phase = "hidden_eval" => r.keys \subseteq {"status"} /\ r.paths = {}
         /\ r.severity = IF r.success = "no" \/ r.type \in {"tool_call_failed", "agent_run_failed"}
                         THEN "error" ELSE "info"
  <1> DEFINE hidden == e.phase = "hidden_eval"
             kept == IF hidden THEN e.keys \cap {"status"} ELSE e.keys
             cut == e.large /\ ~hidden
             s == [ keys |-> kept \ {"secret", "protected"}, marks |-> kept \cap {"secret", "protected"},
                    cut |-> cut, id |-> IF cut \/ hidden THEN NoId ELSE e.id,
                    success |-> IF cut THEN "unset" ELSE e.success ]
  <1>1. e.large \in BOOLEAN
    BY EventFields
  <1>2. Sanitize(e) = s
    BY DEF Sanitize, IsHiddenContext
  <1>3. /\ s.keys = kept \ {"secret", "protected"} /\ s.cut = cut
        /\ s.id = (IF cut \/ hidden THEN NoId ELSE e.id)
        /\ s.success = (IF cut THEN "unset" ELSE e.success)
    OBVIOUS
  <1>4. Paths(e) = IF hidden THEN {} ELSE e.keys \cap {"path"}
    BY DEF Paths, IsHiddenContext
  <1> HIDE DEF s
  <1>5. EventRead(e) = [type |-> e.type, id |-> s.id, success |-> s.success, keys |-> s.keys,
                        marks |-> s.marks, cut |-> s.cut, paths |-> Paths(e),
                        severity |-> Severity(e.type, s.success)]
    BY <1>2 DEF EventRead
  <1>6. /\ EventRead(e).type = e.type /\ EventRead(e).id = s.id
        /\ EventRead(e).success = s.success /\ EventRead(e).keys = s.keys
        /\ EventRead(e).cut = s.cut /\ EventRead(e).paths = Paths(e)
        /\ EventRead(e).severity = Severity(e.type, s.success)
    BY <1>5
  <1> HIDE DEF hidden, kept, cut
  <1>7. (cut \/ hidden) <=> (e.large \/ hidden)
    BY DEF cut
  <1>8. s.keys \subseteq kept /\ s.keys \cap {"secret", "protected"} = {}
    BY <1>3
  <1>9. hidden => kept \subseteq {"status"} /\ Paths(e) = {}
    BY <1>4 DEF kept
  <1>10. Paths(e) \subseteq {"path"}
    BY <1>4
  <1>11. EventRead(e).id = IF e.large \/ hidden THEN NoId ELSE e.id
    BY <1>3, <1>6, <1>7
  <1>12. EventRead(e).cut = cut /\ EventRead(e).success = IF EventRead(e).cut THEN "unset" ELSE e.success
    BY <1>3, <1>6
  <1>13. EventRead(e).keys \cap {"secret", "protected"} = {} /\ EventRead(e).paths \subseteq {"path"}
    BY <1>6, <1>8, <1>10
  <1>14. hidden => EventRead(e).keys \subseteq {"status"} /\ EventRead(e).paths = {}
    BY <1>6, <1>8, <1>9
  <1>15. EventRead(e).severity
           = IF EventRead(e).success = "no" \/ EventRead(e).type \in {"tool_call_failed", "agent_run_failed"}
             THEN "error" ELSE "info"
    BY <1>6 DEF Severity
  <1> QED
    BY <1>6, <1>11, <1>12, <1>13, <1>14, <1>15 DEF hidden, cut

LEMMA TraceTells ==
  ASSUME NEW l \in Seq(EventType)
  PROVE  /\ DOMAIN Trace(l) = 1..Len(l) /\ Len(l) \in Nat
         /\ \A i \in 1..Len(l) : /\ l[i] \in EventType
                                 /\ Trace(l)[i] = EventRead(l[i])
                                 /\ Trace(l)[i].type = l[i].type
  BY EventReadTells DEF Trace

LEMMA SamePositions ==
  ASSUME NEW l \in Seq(EventType), NEW T
  PROVE  Positions(Trace(l), T) = Positions(l, T) /\ Positions(l, T) \subseteq 1..Len(l)
  BY TraceTells DEF Positions

LEMMA PositionsGrow ==
  ASSUME NEW l \in Seq(EventType), NEW e \in EventType, NEW T
  PROVE  Positions(Append(l, e), T)
           = Positions(l, T) \cup IF e.type \in T THEN {Len(l) + 1} ELSE {}
  BY DEF Positions

Terminals(trace, id) == {i \in Positions(trace, Settling) : trace[i].id = id /\ id # NoId}

LEMMA LastTerminal ==
  ASSUME NEW l \in Seq(EventType), Lasts(Len(l)), NEW id
  PROVE  LET t == TerminalOf(Trace(l), id) IN
         /\ Terminals(Trace(l), id) \subseteq 1..Len(l)
         /\ Terminals(Trace(l), id) = {} => t = 0
         /\ Terminals(Trace(l), id) # {} => t \in Terminals(Trace(l), id)
  <1> DEFINE T == Terminals(Trace(l), id)
             t == TerminalOf(Trace(l), id)
  <1>1. T \subseteq 1..Len(l)
    BY SamePositions DEF Terminals
  <1>2. t = CHOOSE x \in {0} \cup T : \A y \in {0} \cup T : x >= y
    BY DEF TerminalOf, Terminals, Max
  <1>3. CASE T = {}
    <2>1. \E x \in {0} \cup T : \A y \in {0} \cup T : x >= y
      BY <1>3
    <2> HIDE DEF T, t
    <2>2. t \in {0} \cup T
      BY <1>2, <2>1
    <2> QED
      BY <1>1, <1>3, <2>2 DEF T, t
  <1>4. CASE T # {}
    <2>1. PICK m \in T : \A n \in T : n <= m
      BY <1>1, <1>4 DEF Lasts
    <2> HIDE DEF T, t
    <2>2. m \in {0} \cup T /\ \A y \in {0} \cup T : m >= y
      BY <1>1, <2>1
    <2>3. t \in {0} \cup T /\ \A y \in {0} \cup T : t >= y
      BY <1>2, <2>2
    <2>4. t # 0
      BY <1>1, <2>1, <2>3
    <2> QED
      BY <1>1, <1>4, <2>3, <2>4 DEF T, t
  <1> QED
    BY <1>3, <1>4

(* What follows an event of another kind shows no call and no response.    *)
LEMMA EndShowsNothing ==
  ASSUME NEW l \in Seq(EventType), NEW e \in EventType,
         Lasts(Len(l)), e.type \in {"agent_run_completed", "agent_run_failed", "test_phase_completed"}
  PROVE  /\ ToolCallSequence(Trace(Append(l, e))) = ToolCallSequence(Trace(l))
         /\ Responses(Trace(Append(l, e))) = Responses(Trace(l))
  <1> DEFINE old == Trace(l)
             new == Trace(Append(l, e))
  <1>1. Append(l, e) \in Seq(EventType) /\ Len(Append(l, e)) = Len(l) + 1
    OBVIOUS
  <1>2. \A i \in 1..Len(l) : Append(l, e)[i] = l[i]
    OBVIOUS
  <1>3. \A i \in 1..Len(l) : new[i] = old[i]
    <2>1. \A i \in 1..Len(l) : old[i] = EventRead(l[i])
      BY TraceTells
    <2>2. PICK m : m = Append(l, e)
      OBVIOUS
    <2>3. m \in Seq(EventType) /\ Len(m) = Len(l) + 1 /\ Len(l) \in Nat
      BY <1>1, <2>2
    <2>4. \A i \in 1..Len(m) : Trace(m)[i] = EventRead(m[i])
      BY <2>3, TraceTells
    <2>5. \A i \in 1..Len(l) : i \in 1..Len(m) /\ m[i] = l[i]
      BY <1>2, <2>2, <2>3
    <2>6. \A i \in 1..Len(l) : Trace(m)[i] = Trace(l)[i]
      BY <2>1, <2>4, <2>5
    <2> QED
      BY <2>2, <2>6
  <1>4. ASSUME NEW T, e.type \notin T
        PROVE  Positions(new, T) = Positions(old, T) /\ Positions(old, T) \subseteq 1..Len(l)
    <2>1. PICK m : m = Append(l, e)
      OBVIOUS
    <2>2. Positions(Trace(m), T) = Positions(m, T)
      BY <1>1, <2>1, SamePositions
    <2>3. Positions(m, T) = Positions(l, T)
      <3>1. Positions(Append(l, e), T)
              = Positions(l, T) \cup IF e.type \in T THEN {Len(l) + 1} ELSE {}
        BY PositionsGrow
      <3> QED
        BY <1>4, <2>1, <3>1
    <2>4. Positions(Trace(l), T) = Positions(l, T) /\ Positions(l, T) \subseteq 1..Len(l)
      BY SamePositions
    <2> QED
      BY <2>1, <2>2, <2>3, <2>4
  <1>5. /\ Positions(new, Settling) = Positions(old, Settling)
        /\ Positions(old, Settling) \subseteq 1..Len(l)
    BY <1>4 DEF Settling
  <1>6. Positions(new, {"model_call_completed"}) = Positions(old, {"model_call_completed"})
        /\ Positions(old, {"model_call_completed"}) \subseteq 1..Len(l)
    BY <1>4
  <1> DEFINE entries == Positions(old, {"tool_call_requested", "agent_tool_call"})
  <1>7. Positions(new, {"tool_call_requested", "agent_tool_call"}) = entries
        /\ entries \subseteq 1..Len(l)
    BY <1>4
  <1> HIDE DEF old, new, entries
  <1>8. \A id : TerminalOf(new, id) = TerminalOf(old, id)
    <2>1. SUFFICES ASSUME NEW id PROVE TerminalOf(new, id) = TerminalOf(old, id)
      OBVIOUS
    <2>2. {i \in Positions(new, Settling) : new[i].id = id /\ id # NoId}
          = {i \in Positions(old, Settling) : old[i].id = id /\ id # NoId}
      BY <1>3, <1>5
    <2> QED
      BY <2>2 DEF TerminalOf
  <1>9. \A i \in entries : Executed(new, i) = Executed(old, i)
    BY <1>3, <1>7 DEF Executed
  <1>10. \A id : TerminalOf(old, id) # 0 => new[TerminalOf(old, id)] = old[TerminalOf(old, id)]
    BY <1>3, LastTerminal DEF old
  <1>11. \A i \in entries : Requested(new, i) = Requested(old, i)
    <2>1. SUFFICES ASSUME NEW i \in entries PROVE Requested(new, i) = Requested(old, i)
      OBVIOUS
    <2>2. PICK t : t = TerminalOf(old, old[i].id)
      OBVIOUS
    <2>3. new[i] = old[i] /\ TerminalOf(new, new[i].id) = t
      BY <1>3, <1>7, <1>8, <2>2
    <2>4. t # 0 => new[t] = old[t]
      BY <1>10, <2>2
    <2> QED
      BY <2>2, <2>3, <2>4 DEF Requested
  <1> DEFINE Entry(trace, i) == IF trace[i].type = "tool_call_requested" THEN Requested(trace, i)
                                ELSE Executed(trace, i)
             shown == {i \in entries : Cardinality({j \in entries : j < i}) < MaxCalls}
  <1>12. \A i \in shown : Entry(new, i) = Entry(old, i)
    BY <1>3, <1>7, <1>9, <1>11
  <1>13. ToolCallSequence(old) = [i \in shown |-> Entry(old, i)]
    BY DEF ToolCallSequence, entries
  <1>14. ToolCallSequence(new) = [i \in shown |-> Entry(new, i)]
    BY <1>7 DEF ToolCallSequence
  <1> HIDE DEF shown, Entry
  <1>15. ToolCallSequence(new) = ToolCallSequence(old)
    BY <1>12, <1>13, <1>14
  <1>16. Responses(new) = Responses(old)
    BY <1>3, <1>6 DEF Responses
  <1> QED
    BY <1>15, <1>16 DEF old, new

-----------------------------------------------------------------------------
(* The log and the call that is being carried out.                         *)

(* One more event at the end.                                              *)
LEMMA LogGrows ==
  ASSUME NEW l \in Seq(EventType), NEW e \in EventType
  PROVE  /\ Append(l, e) \in Seq(EventType) /\ Len(Append(l, e)) = Len(l) + 1 /\ Len(l) \in Nat
         /\ DOMAIN l = 1..Len(l) /\ DOMAIN Append(l, e) = 1..(Len(l) + 1)
         /\ \A i \in 1..Len(l) : Append(l, e)[i] = l[i]
         /\ Append(l, e)[Len(l) + 1] = e
  OBVIOUS

LEMMA LastsGrow ==
  ASSUME NEW n \in Nat, Lasts(n)
  PROVE  Lasts(n + 1)
  <1>1. SUFFICES ASSUME NEW S \in SUBSET (1..(n + 1)), S # {}
                 PROVE  \E m \in S : \A k \in S : k <= m
    BY DEF Lasts
  <1>2. CASE n + 1 \in S
    <2>1. \A k \in S : k <= n + 1
      BY <1>1
    <2> QED
      BY <1>2, <2>1
  <1>3. CASE n + 1 \notin S
    <2>1. S \in SUBSET (1..n)
      BY <1>1, <1>3
    <2> QED
      BY <1>1, <2>1 DEF Lasts
  <1> QED
    BY <1>2, <1>3

(* What the steps that write an event do to the log and the call.          *)
Wrote(e) ==
  /\ log' = Append(log, e) /\ writes' = writes + 1
  /\ UNCHANGED <<status, failure, view, snapshots>>

LEMMA RespondTells ==
  ASSUME TraceAssumption, LogTyped, ModelResponds
  PROVE  \E e \in EventType :
           /\ Wrote(e) /\ e.type = "model_call_completed"
           /\ Looping /\ BetweenCalls /\ call' = NoCall /\ UNCHANGED <<rows, at>>
  <1> DEFINE p == [keys |-> {"status", "content"}, large |-> FALSE]
             e == Event("model_call_completed", NoId, p, "yes", "loop")
  <1>1. p \in [keys : SUBSET Kinds, large : BOOLEAN]
    BY DEF Kinds
  <1> HIDE DEF p
  <1>2. e \in EventType /\ e.type = "model_call_completed"
    <2>1. /\ "model_call_completed" \in EventTypes /\ NoId \in CallIds \cup {NoId}
          /\ "yes" \in {"yes", "no", "unset"} /\ "loop" \in Phases \cup {"loop", "run"}
      BY Literals
    <2> QED
      BY <1>1, <2>1, EventMade
  <1>3. Wrote(e) /\ Looping /\ BetweenCalls /\ call' = NoCall /\ UNCHANGED <<rows, at>>
    BY DEF ModelResponds, Log, Wrote, p
  <1> QED
    BY <1>2, <1>3

LEMMA RequestTells ==
  ASSUME TraceAssumption, LogTyped, NEW id \in CallIds \cup {NoId}, NEW p \in Payloads,
         Request(id, p)
  PROVE  \E e \in EventType :
           /\ Wrote(e) /\ e.type = "tool_call_requested" /\ e.id = id /\ e.phase = "loop"
           /\ Looping /\ call = NoCall /\ UNCHANGED <<rows, at>>
           /\ call' = [pc |-> "requested", id |-> id, payload |-> p]
  <1> DEFINE e == Event("tool_call_requested", id, p, "unset", "loop")
  <1>1. p \in [keys : SUBSET Kinds, large : BOOLEAN]
    BY PlainPayloads
  <1>2. e \in EventType /\ e.type = "tool_call_requested" /\ e.id = id /\ e.phase = "loop"
    BY <1>1, EventMade, Literals
  <1>3. /\ Wrote(e) /\ Looping /\ call = NoCall /\ UNCHANGED <<rows, at>>
        /\ call' = [pc |-> "requested", id |-> id, payload |-> p]
    BY DEF Request, Log, Wrote
  <1> QED
    BY <1>2, <1>3

LEMMA ExecuteTells ==
  ASSUME TraceAssumption, LogTyped, NEW success \in {"yes", "no"}, Execute(success)
  PROVE  \E e \in EventType :
           /\ Wrote(e) /\ e.type = "agent_tool_call"
           /\ Looping /\ call.pc = "requested" /\ UNCHANGED at
           /\ rows' \in Seq([phase : Phases, passed : BOOLEAN])
           /\ \E pc \in {"executed", "refused"} : call' = [call EXCEPT !.pc = pc]
  <1> DEFINE e == Event("agent_tool_call", NoId, call.payload, success, "loop")
  <1>1. call.payload \in Payloads \cup {NoCall.payload}
    BY DEF LogTyped
  <1>2. call.payload \in [keys : SUBSET Kinds, large : BOOLEAN]
    BY <1>1, PlainPayloads
  <1>3. e \in EventType /\ e.type = "agent_tool_call"
    BY <1>2, EventMade, Literals
  <1>4. Wrote(e) /\ Looping /\ call.pc = "requested" /\ UNCHANGED at
    BY DEF Execute, Log, Wrote
  <1>5. \E pc \in {"executed", "refused"} : call' = [call EXCEPT !.pc = pc]
    BY DEF Execute
  <1>6. rows' \in Seq([phase : Phases, passed : BOOLEAN])
    <2>1. rows' = rows \/ \E b \in BOOLEAN : rows' = Append(rows, [phase |-> "post_patch", passed |-> b])
      BY DEF Execute
    <2>2. rows \in Seq([phase : Phases, passed : BOOLEAN])
      BY DEF LogTyped
    <2>3. rows' = rows \/ \E row \in [phase : Phases, passed : BOOLEAN] : rows' = Append(rows, row)
      <3>1. \A b \in BOOLEAN :
              [phase |-> "post_patch", passed |-> b] \in [phase : Phases, passed : BOOLEAN]
        BY DEF Phases
      <3> QED
        BY <2>1, <3>1
    <2>4. \A row \in [phase : Phases, passed : BOOLEAN] :
            Append(rows, row) \in Seq([phase : Phases, passed : BOOLEAN])
      BY <2>2
    <2> QED
      BY <2>2, <2>3, <2>4
  <1> QED
    BY <1>3, <1>4, <1>5, <1>6

LEMMA FinishTells ==
  ASSUME TraceAssumption, LogTyped, FinishCall
  PROVE  \E e \in EventType :
           /\ Wrote(e) /\ e.type \in Settling /\ e.id = call.id /\ e.phase = "loop"
           /\ e.large = FALSE
           /\ Looping /\ call.pc \in {"executed", "refused", "submitted"}
           /\ call' \in {NoCall, [call EXCEPT !.pc = "submitted"]}
           /\ UNCHANGED <<rows, at>>
  <1> DEFINE type == IF call.pc = "executed" THEN "tool_call_completed" ELSE "tool_call_failed"
             e == Event(type, call.id, Plain, "unset", "loop")
  <1>1. Plain \in [keys : SUBSET Kinds, large : BOOLEAN]
    BY PlainPayloads
  <1>2. type \in Settling /\ type \in EventTypes /\ call.id \in CallIds \cup {NoId}
    BY DEF Settling, EventTypes, LogTyped
  <1> HIDE DEF type
  <1>3. /\ e \in EventType /\ e.type \in Settling /\ e.id = call.id /\ e.phase = "loop"
        /\ e.large = FALSE
    BY <1>1, <1>2, EventMade, PlainIsSmall
  <1>4. /\ Wrote(e) /\ Looping /\ call.pc \in {"executed", "refused", "submitted"}
        /\ UNCHANGED <<rows, at>>
    BY DEF FinishCall, Log, Wrote, type
  <1>5. call' \in {NoCall, [call EXCEPT !.pc = "submitted"]}
    BY DEF FinishCall
  <1> QED
    BY <1>3, <1>4, <1>5

LEMMA PhaseTells ==
  ASSUME TraceAssumption, LogTyped, NEW w \in Writers, PhaseCompleted(w)
  PROVE  \E e \in EventType :
           Wrote(e) /\ e.type = "test_phase_completed" /\ UNCHANGED <<rows, call>>
  <1> DEFINE success == IF at[w].passed THEN "yes" ELSE "no"
             e == Event("test_phase_completed", NoId, Plain, success, at[w].phase)
  <1>1. Plain \in [keys : SUBSET Kinds, large : BOOLEAN]
    BY PlainPayloads
  <1>2. success \in {"yes", "no", "unset"} /\ at[w].phase \in Phases \cup {"loop", "run"}
    BY DEF LogTyped, AtType
  <1> HIDE DEF success
  <1>3. e \in EventType /\ e.type = "test_phase_completed"
    <2>1. "test_phase_completed" \in EventTypes /\ NoId \in CallIds \cup {NoId}
      BY Literals
    <2> QED
      BY <1>1, <1>2, <2>1, EventMade
  <1>4. Wrote(e) /\ UNCHANGED <<rows, call>>
    BY DEF PhaseCompleted, Log, Wrote, success
  <1> QED
    BY <1>3, <1>4

LEMMA EndTells ==
  ASSUME TraceAssumption, LogTyped, LogEnd
  PROVE  \E e \in EventType :
           /\ Wrote(e) /\ e.type \in {"agent_run_completed", "agent_run_failed"}
           /\ UNCHANGED <<rows, call>>
  <1> DEFINE type == IF at[Agent].pc = "failed" THEN "agent_run_failed" ELSE "agent_run_completed"
             e == Event(type, NoId, Plain, "unset", "run")
  <1>1. Plain \in [keys : SUBSET Kinds, large : BOOLEAN]
    BY PlainPayloads
  <1>2. type \in {"agent_run_completed", "agent_run_failed"} /\ type \in EventTypes
    BY DEF EventTypes
  <1> HIDE DEF type
  <1>3. e \in EventType /\ e.type = type
    BY <1>1, <1>2, EventMade
  <1>4. Wrote(e) /\ UNCHANGED <<rows, call>>
    BY DEF LogEnd, Log, Wrote, type
  <1> QED
    BY <1>2, <1>3, <1>4

-----------------------------------------------------------------------------
(* Where the writers are.                                                  *)

(* What a step of one writer does to where it is: it begins or goes on     *)
(* with a phase, or is no longer busy; and the agent leaves no call.       *)
Moves(w) ==
  /\ at' \in [Writers -> AtType] /\ \A v \in Writers \ {w} : at'[v] = at[v]
  /\ Running \/ at[w].pc = "testing" \/ at'[w].pc \notin {"loop", "testing"}
  /\ w = Agent => BetweenCalls \/ ~Looping

LEMMA PlacesMade ==
  ASSUME NEW pc \in Places \ {"testing"}
  PROVE  At(pc) \in AtType /\ At(pc).pc = pc
  BY DEF At, AtType

LEMMA PhaseMoves ==
  ASSUME LogTyped, NEW w \in Writers,
         \/ \E p \in Phases : BeginPhase(w, p)
         \/ \E b \in BOOLEAN : TestRow(w, b)
         \/ RunBaseline(w) \/ Finalize(w) \/ PhaseCompleted(w) \/ BreakOff(w)
  PROVE  Moves(w)
  <1>1. at \in [Writers -> AtType] /\ at[w] \in AtType
    BY DEF LogTyped
  <1>2. ASSUME NEW new \in AtType, at' = [at EXCEPT ![w] = new]
        PROVE  /\ at' \in [Writers -> AtType] /\ at'[w] = new
               /\ \A v \in Writers \ {w} : at'[v] = at[v]
    BY <1>1, <1>2
  <1>3. Back(w) \in AtType /\ At("away") \in AtType /\ At("away").pc = "away"
    BY PlacesMade DEF Back, Places
  <1>4. CASE \E p \in Phases : BeginPhase(w, p)
    <2>1. PICK p \in Phases : BeginPhase(w, p)
      BY <1>4
    <2>2. PICK pc \in {"testing", "refused"} :
            at' = [at EXCEPT ![w] = [pc |-> pc, phase |-> p, passed |-> TRUE]]
      BY <2>1 DEF BeginPhase
    <2>3. [pc |-> pc, phase |-> p, passed |-> TRUE] \in AtType
      BY <2>2 DEF AtType, Places
    <2>4. Running /\ (w = Agent => BetweenCalls)
      BY <2>1 DEF BeginPhase
    <2> QED
      BY <1>2, <2>2, <2>3, <2>4 DEF Moves
  <1>5. CASE \E b \in BOOLEAN : TestRow(w, b)
    <2>1. PICK b \in BOOLEAN : TestRow(w, b)
      BY <1>5
    <2>2. PICK new : new = [at[w] EXCEPT !.passed = @ /\ b]
      OBVIOUS
    <2>3. new \in AtType
      BY <1>1, <2>2 DEF AtType
    <2>4. at[w].pc = "testing" /\ at' = [at EXCEPT ![w] = new]
      BY <1>1, <2>1, <2>2 DEF TestRow
    <2> QED
      BY <1>2, <2>3, <2>4 DEF Moves, Looping
  <1>6. CASE RunBaseline(w)
    <2>1. PICK new : new = [at[w] EXCEPT !.phase = "baseline"]
      OBVIOUS
    <2>2. new \in AtType
      BY <1>1, <2>1 DEF AtType, Phases
    <2>3. at[w].pc = "testing" /\ at' = [at EXCEPT ![w] = new]
      BY <1>1, <1>6, <2>1 DEF RunBaseline
    <2> QED
      BY <1>2, <2>2, <2>3 DEF Moves, Looping
  <1>7. CASE Finalize(w)
    <2>1. PICK pc \in {"settled", "unclassified"} :
            at' = [at EXCEPT ![w] = [at[w] EXCEPT !.pc = pc]]
      BY <1>1, <1>7 DEF Finalize
    <2>2. [at[w] EXCEPT !.pc = pc] \in AtType /\ [at[w] EXCEPT !.pc = pc].pc = pc
      BY <1>1, <2>1 DEF AtType, Places
    <2>3. at[w].pc \in {"testing", "refused"}
      BY <1>7 DEF Finalize
    <2> QED
      BY <1>2, <2>1, <2>2, <2>3 DEF Moves, Looping
  <1>8. CASE PhaseCompleted(w)
    <2>1. CASE at[w].pc = "testing" /\ at' = [at EXCEPT ![w] = Back(w)]
      BY <1>2, <1>3, <2>1 DEF Moves, Looping
    <2>2. CASE at[w].pc = "settled" /\ ~(at[w].pc = "testing" /\ at' = [at EXCEPT ![w] = Back(w)])
      <3>1. PICK new : new = IF at[w].passed THEN At("away") ELSE [at[w] EXCEPT !.pc = "unclassified"]
        OBVIOUS
      <3>2. [at[w] EXCEPT !.pc = "unclassified"] \in AtType
            /\ [at[w] EXCEPT !.pc = "unclassified"].pc = "unclassified"
        BY <1>1 DEF AtType, Places
      <3>3. new \in AtType /\ new.pc \notin {"loop", "testing"}
        BY <1>3, <3>1, <3>2
      <3>4. at' = [at EXCEPT ![w] = new]
        BY <1>1, <1>8, <2>2, <3>1 DEF PhaseCompleted
      <3> QED
        BY <1>2, <2>2, <3>3, <3>4 DEF Moves, Looping
    <2> QED
      BY <1>8, <2>1, <2>2 DEF PhaseCompleted
  <1>9. CASE BreakOff(w)
    <2>1. at[w].pc = "testing" /\ at' = [at EXCEPT ![w] = Back(w)]
      BY <1>9 DEF BreakOff
    <2> QED
      BY <1>2, <1>3, <2>1 DEF Moves, Looping
  <1> QED
    BY <1>4, <1>5, <1>6, <1>7, <1>8, <1>9

LEMMA EndMoves ==
  ASSUME LogTyped, NEW w \in Writers,
         \/ ClassifyRun(w)
         \/ w = Agent /\ (LogEnd \/ \E s \in Terminal : Mark(s))
  PROVE  Moves(w)
  <1>1. at \in [Writers -> AtType]
    BY DEF LogTyped
  <1>2. ASSUME NEW pc \in Places \ {"testing"}, at' = [at EXCEPT ![w] = At(pc)]
        PROVE  /\ at' \in [Writers -> AtType] /\ at'[w].pc = pc
               /\ \A v \in Writers \ {w} : at'[v] = at[v]
    BY <1>1, <1>2, PlacesMade
  <1>3. CASE ClassifyRun(w)
    <2>1. PICK pc \in {"broken", "away"} : at' = [at EXCEPT ![w] = At(pc)]
      BY <1>1, <1>3 DEF ClassifyRun
    <2>2. pc \in Places /\ pc \notin {"loop", "testing"}
      BY <2>1 DEF Places
    <2>3. at[w].pc = "unclassified"
      BY <1>3 DEF ClassifyRun
    <2> QED
      BY <1>2, <2>1, <2>2, <2>3 DEF Moves, Looping
  <1>4. CASE w = Agent /\ LogEnd
    <2>1. PICK pc \in {"unclassified", "away"} : at' = [at EXCEPT ![w] = At(pc)]
      BY <1>1, <1>4 DEF LogEnd
    <2>2. pc \in Places /\ pc \notin {"loop", "testing"}
      BY <2>1 DEF Places
    <2>3. at[w].pc \in Terminal
      BY <1>4 DEF LogEnd
    <2> QED
      BY <1>2, <1>4, <2>1, <2>2, <2>3 DEF Moves, Looping, Terminal
  <1>5. CASE w = Agent /\ \E s \in Terminal : Mark(s)
    <2>1. PICK s \in Terminal : Mark(s)
      BY <1>5
    <2>2. s \in Places /\ s \notin {"loop", "testing"}
      BY DEF Terminal, Places
    <2>3. at' = [at EXCEPT ![w] = At(s)] /\ BetweenCalls
      BY <1>5, <2>1 DEF Mark
    <2> QED
      BY <1>2, <2>2, <2>3 DEF Moves
  <1> QED
    BY <1>3, <1>4, <1>5

LEMMA OpenCalls ==
  /\ \A c : c.pc \in {"none", "submitted"} => c.pc \notin Open
  /\ BetweenCalls => call.pc \notin Open
  /\ NoCall.pc \notin Open
  BY DEF Open, BetweenCalls, NoCall

(* The loop stays at its call, and no one is busy again after the end.     *)
LEMMA MovesTell ==
  ASSUME LogTyped, LoopAtCall, NEW w \in Writers, Moves(w), call' \in {call, NoCall}
  PROVE  /\ LoopAtCall'
         /\ status \in Terminal => \A v \in Writers : Busy(v)' => Busy(v)
  <1>1. LoopAtCall'
    <2>1. SUFFICES ASSUME call'.pc \in Open PROVE at'[Agent].pc = "loop"
      BY DEF LoopAtCall, Looping
    <2>2. call' = call /\ Looping
      BY <2>1, OpenCalls DEF LoopAtCall
    <2>3. w # Agent /\ Agent \in Writers
      BY <2>1, <2>2, OpenCalls DEF Moves, Writers
    <2> QED
      BY <2>2, <2>3 DEF Moves, Looping
  <1>2. ASSUME status \in Terminal, NEW v \in Writers, Busy(v)' PROVE Busy(v)
    <2>1. ~Running
      BY <1>2 DEF Running, Terminal
    <2> QED
      BY <1>2, <2>1 DEF Moves, Busy
  <1> QED
    BY <1>1, <1>2

-----------------------------------------------------------------------------
(* What the three kinds of events leave true.                              *)

LEMMA Grown ==
  ASSUME LogTyped, CallEvents, HasLasts, NEW e \in EventType, Wrote(e),
         e.type \in Settling \cup {"tool_call_requested"} => e.phase = "loop",
         e.type \in Settling => e.large = FALSE
  PROVE  /\ log' \in Seq(EventType) /\ Len(log) \in Nat /\ Len(log') = Len(log) + 1
         /\ Positions(log, Settling) \subseteq 1..Len(log) /\ Requests \subseteq 1..Len(log)
         /\ \A i \in 1..Len(log) : log'[i] = log[i]
         /\ log'[Len(log) + 1] = e
         /\ Positions(log', Settling)
              = Positions(log, Settling) \cup IF e.type \in Settling THEN {Len(log) + 1} ELSE {}
         /\ Requests' = Requests \cup IF e.type = "tool_call_requested" THEN {Len(log) + 1} ELSE {}
         /\ CallEvents' /\ HasLasts'
  <1>1. log \in Seq(EventType) /\ log' = Append(log, e)
    BY DEF LogTyped, Wrote
  <1>2. /\ log' \in Seq(EventType) /\ Len(log) \in Nat /\ Len(log') = Len(log) + 1
        /\ DOMAIN log = 1..Len(log) /\ DOMAIN log' = 1..(Len(log) + 1)
        /\ \A i \in 1..Len(log) : log'[i] = log[i]
        /\ log'[Len(log) + 1] = e
    BY <1>1, LogGrows
  <1>3. \A T : Positions(Append(log, e), T)
                = Positions(log, T) \cup IF e.type \in T THEN {Len(log) + 1} ELSE {}
    BY <1>1, PositionsGrow
  <1>4. \A T : Positions(log', T)
                = Positions(log, T) \cup IF e.type \in T THEN {Len(log) + 1} ELSE {}
    BY <1>1, <1>3
  <1>5. Requests' = Positions(log', {"tool_call_requested"})
    BY DEF Requests
  <1>6. Requests' = Requests \cup IF e.type = "tool_call_requested" THEN {Len(log) + 1} ELSE {}
    BY <1>4, <1>5 DEF Requests
  <1>7. \A T : Positions(log, T) \subseteq 1..Len(log)
    BY <1>1, SamePositions
  <1>8. CallEvents'
    <2>1. SUFFICES ASSUME NEW i \in DOMAIN log'
                   PROVE  /\ log'[i].type \in Settling \cup {"tool_call_requested"}
                                => log'[i].phase = "loop"
                          /\ log'[i].type \in Settling => log'[i].large = FALSE
      BY DEF CallEvents
    <2>2. CASE i \in 1..Len(log)
      BY <1>2, <2>2 DEF CallEvents
    <2>3. CASE i = Len(log) + 1
      BY <1>2, <2>3
    <2>4. i \in 1..Len(log) \/ i = Len(log) + 1
      BY <1>2
    <2> QED
      BY <2>2, <2>3, <2>4
  <1>9. HasLasts'
    BY <1>2, LastsGrow DEF HasLasts
  <1> QED
    BY <1>2, <1>4, <1>6, <1>7, <1>8, <1>9 DEF Requests

(* An event that is not of a call.                                         *)
LEMMA OtherEvent ==
  ASSUME LogInv, NEW e \in EventType, Wrote(e),
         e.type \notin Settling \cup {"tool_call_requested"},
         \/ call' = call
         \/ call' = NoCall /\ call.pc \notin Open
         \/ /\ call.pc \in Open /\ call'.pc \in Open /\ call'.id = call.id
            /\ call # NoCall
  PROVE  CallEvents' /\ OutcomesBelong' /\ RequestsSettled' /\ CallUnderWay' /\ HasLasts'
  <1>1. /\ Positions(log, Settling) \subseteq 1..Len(log) /\ Requests \subseteq 1..Len(log)
        /\ \A i \in 1..Len(log) : log'[i] = log[i]
        /\ Positions(log', Settling) = Positions(log, Settling)
        /\ Requests' = Requests
        /\ CallEvents' /\ HasLasts'
    BY Grown DEF LogInv
  <1>2. OutcomesBelong'
    <2>1. SUFFICES ASSUME NEW j \in Positions(log', Settling)
                   PROVE  \E i \in Requests' : /\ i < j /\ log'[i].id = log'[j].id
                                              /\ \A k \in Requests' : k > i => j < k
      BY DEF OutcomesBelong
    <2> QED
      BY <1>1 DEF LogInv, OutcomesBelong
  <1>3. RequestsSettled'
    <2>1. SUFFICES ASSUME NEW i \in Requests'
                   PROVE  \/ \E j \in OutcomesOf(i)' : log'[j].id = log'[i].id
                          \/ call'.pc \in Open /\ \A k \in Requests' : k <= i
      BY DEF RequestsSettled
    <2>2. OutcomesOf(i)' = OutcomesOf(i)
      BY <1>1 DEF OutcomesOf
    <2>3. OutcomesOf(i) \subseteq 1..Len(log)
      BY <1>1 DEF OutcomesOf
    <2> QED
      BY <1>1, <2>2, <2>3, OpenCalls DEF LogInv, RequestsSettled
  <1>4. CallUnderWay'
    BY <1>1, OpenCalls DEF LogInv, CallUnderWay, Wrote
  <1> QED
    BY <1>1, <1>2, <1>3, <1>4

LEMMA RequestEvent ==
  ASSUME LogInv, NEW e \in EventType, Wrote(e), e.type = "tool_call_requested",
         e.phase = "loop", call = NoCall, call'.pc = "requested", call'.id = e.id
  PROVE  CallEvents' /\ OutcomesBelong' /\ RequestsSettled' /\ CallUnderWay' /\ HasLasts'
  <1>0. "tool_call_requested" \notin Settling
    BY DEF Settling
  <1>1. /\ Len(log) \in Nat
        /\ Positions(log, Settling) \subseteq 1..Len(log) /\ Requests \subseteq 1..Len(log)
        /\ \A i \in 1..Len(log) : log'[i] = log[i]
        /\ log'[Len(log) + 1] = e
        /\ Positions(log', Settling) = Positions(log, Settling)
        /\ Requests' = Requests \cup {Len(log) + 1}
        /\ CallEvents' /\ HasLasts'
    BY <1>0, Grown DEF LogInv
  <1>2. OutcomesBelong'
    <2>1. SUFFICES ASSUME NEW j \in Positions(log', Settling)
                   PROVE  \E i \in Requests' : /\ i < j /\ log'[i].id = log'[j].id
                                              /\ \A k \in Requests' : k > i => j < k
      BY DEF OutcomesBelong
    <2>2. PICK i \in Requests : /\ i < j /\ log[i].id = log[j].id
                                /\ \A k \in Requests : k > i => j < k
      BY <1>1 DEF LogInv, OutcomesBelong
    <2>3. i \in Requests' /\ log'[i].id = log'[j].id
      BY <1>1, <2>2
    <2>4. \A k \in Requests' : k > i => j < k
      BY <1>1, <2>2
    <2> QED
      BY <2>2, <2>3, <2>4
  <1>3. RequestsSettled'
    <2>1. SUFFICES ASSUME NEW i \in Requests'
                   PROVE  \/ \E j \in OutcomesOf(i)' : log'[j].id = log'[i].id
                          \/ call'.pc \in Open /\ \A k \in Requests' : k <= i
      BY DEF RequestsSettled
    <2>2. CASE i = Len(log) + 1
      <3>1. call'.pc \in Open
        BY DEF Open
      <3>2. \A k \in Requests' : k <= Len(log) + 1
        <4>1. Len(log) \in Nat /\ Requests \subseteq 1..Len(log)
              /\ Requests' = Requests \cup {Len(log) + 1}
          BY <1>1
        <4> QED
          BY <4>1
      <3> QED
        BY <2>2, <3>1, <3>2
    <2>3. CASE i \in Requests
      <3>1. PICK j \in OutcomesOf(i) : log[j].id = log[i].id
        BY <2>3 DEF LogInv, RequestsSettled, NoCall, Open
      <3>2. j \in Positions(log, Settling) /\ j > i /\ \A k \in Requests : k > i => j < k
        BY DEF OutcomesOf
      <3>3. \A k \in Requests' : k > i => j < k
        BY <1>1, <3>2
      <3>4. j \in OutcomesOf(i)'
        BY <1>1, <3>2, <3>3 DEF OutcomesOf
      <3> QED
        BY <1>1, <2>3, <3>1, <3>2, <3>4
    <2> QED
      BY <1>1, <2>2, <2>3
  <1>4. CallUnderWay'
    <2>1. Len(log) + 1 \in Requests' /\ log'[Len(log) + 1].id = call'.id
      BY <1>1
    <2>2. \A k \in Requests' : k <= Len(log) + 1
      BY <1>1
    <2> QED
      BY <2>1, <2>2 DEF CallUnderWay
  <1> QED
    BY <1>1, <1>2, <1>3, <1>4

LEMMA FinishEvent ==
  ASSUME LogInv, NEW e \in EventType, Wrote(e), e.type \in Settling, e.id = call.id,
         e.phase = "loop", e.large = FALSE, call # NoCall,
         call' = NoCall \/ call'.id = call.id
  PROVE  CallEvents' /\ OutcomesBelong' /\ RequestsSettled' /\ CallUnderWay' /\ HasLasts'
  <1>0. "tool_call_requested" \notin Settling
    BY DEF Settling
  <1>1. /\ Len(log) \in Nat
        /\ Positions(log, Settling) \subseteq 1..Len(log) /\ Requests \subseteq 1..Len(log)
        /\ \A i \in 1..Len(log) : log'[i] = log[i]
        /\ log'[Len(log) + 1] = e
        /\ Positions(log', Settling) = Positions(log, Settling) \cup {Len(log) + 1}
        /\ Requests' = Requests
        /\ CallEvents' /\ HasLasts'
    BY <1>0, Grown DEF LogInv
  <1>2. PICK r \in Requests : log[r].id = call.id /\ \A k \in Requests : k <= r
    BY DEF LogInv, CallUnderWay
  <1>3. OutcomesBelong'
    <2>1. SUFFICES ASSUME NEW j \in Positions(log', Settling)
                   PROVE  \E i \in Requests' : /\ i < j /\ log'[i].id = log'[j].id
                                              /\ \A k \in Requests' : k > i => j < k
      BY DEF OutcomesBelong
    <2>2. CASE j = Len(log) + 1
      BY <1>1, <1>2, <2>2
    <2>3. CASE j \in Positions(log, Settling)
      BY <1>1, <2>3 DEF LogInv, OutcomesBelong
    <2> QED
      BY <1>1, <2>2, <2>3
  <1>4. RequestsSettled'
    <2>1. SUFFICES ASSUME NEW i \in Requests'
                   PROVE  \E j \in OutcomesOf(i)' : log'[j].id = log'[i].id
      BY DEF RequestsSettled
    <2>2. CASE \E j \in OutcomesOf(i) : log[j].id = log[i].id
      <3>1. PICK j \in OutcomesOf(i) : log[j].id = log[i].id
        BY <2>2
      <3>2. j \in Positions(log, Settling) /\ j > i /\ \A k \in Requests : k > i => j < k
        BY DEF OutcomesOf
      <3>3. j \in OutcomesOf(i)'
        BY <1>1, <3>2 DEF OutcomesOf
      <3> QED
        BY <1>1, <3>1, <3>2, <3>3
    <2>3. CASE \A k \in Requests : k <= i
      <3>1. i = r
        BY <1>1, <1>2, <2>3
      <3>2. Len(log) + 1 \in OutcomesOf(i)'
        BY <1>1, <2>3 DEF OutcomesOf
      <3>3. log'[Len(log) + 1].id = log'[i].id
        BY <1>1, <1>2, <3>1
      <3> QED
        BY <3>2, <3>3
    <2> QED
      BY <1>1, <2>2, <2>3 DEF LogInv, RequestsSettled
  <1>5. CallUnderWay'
    BY <1>1, <1>2 DEF CallUnderWay, Wrote
  <1> QED
    BY <1>1, <1>3, <1>4, <1>5

-----------------------------------------------------------------------------
(* Every step keeps what is known of the log and the call.                 *)

CallType ==
  [pc : {"none", "requested", "executed", "refused", "submitted"},
   id : CallIds \cup {NoId}, payload : Payloads \cup {NoCall.payload}]

LEMMA CallFields ==
  ASSUME LogTyped
  PROVE  /\ call \in CallType /\ NoCall \in CallType /\ NoCall.pc = "none"
         /\ call.pc = "none" => call = NoCall
         /\ \A pc \in {"executed", "refused", "submitted"} :
              /\ [call EXCEPT !.pc = pc] \in CallType
              /\ [call EXCEPT !.pc = pc].pc = pc
              /\ [call EXCEPT !.pc = pc].id = call.id
  <1>1. NoCall.pc = "none" /\ NoCall.id = NoId /\ NoCall.payload = NoCall.payload
    BY DEF NoCall
  <1>2. NoCall = [pc |-> "none", id |-> NoId, payload |-> NoCall.payload]
    BY DEF NoCall
  <1>3. NoCall \in CallType
    BY <1>2 DEF CallType
  <1>4. call \in CallType
    BY DEF LogTyped, CallType
  <1>5. \A pc \in {"executed", "refused", "submitted"} :
              /\ [call EXCEPT !.pc = pc] \in CallType
              /\ [call EXCEPT !.pc = pc].pc = pc
              /\ [call EXCEPT !.pc = pc].id = call.id
    BY <1>4 DEF CallType
  <1> QED
    BY <1>1, <1>3, <1>4, <1>5 DEF LogTyped

LEMMA TypedLog ==
  ASSUME LogTyped, NEW e \in EventType, Wrote(e), call' \in CallType,
         call'.pc = "none" => call' = NoCall,
         rows' \in Seq([phase : Phases, passed : BOOLEAN]), at' \in [Writers -> AtType]
  PROVE  LogTyped'
  <1>1. log' \in Seq(EventType) /\ writes' \in Nat
    BY DEF LogTyped, Wrote
  <1> QED
    BY <1>1 DEF LogTyped, Wrote, CallType

LEMMA LogKept ==
  ASSUME LogInv, log' = log, call' = call \/ (call' = NoCall /\ call.pc \notin Open),
         LogTyped', LoopAtCall'
  PROVE  LogInv'
  <1>1. CallEvents' /\ HasLasts'
    BY DEF LogInv, CallEvents, HasLasts
  <1>2. OutcomesBelong'
    BY DEF LogInv, OutcomesBelong, Requests
  <1>3. RequestsSettled'
    BY DEF LogInv, RequestsSettled, Requests, OutcomesOf
  <1>4. CallUnderWay'
    BY DEF LogInv, CallUnderWay, Requests
  <1> QED
    BY <1>1, <1>2, <1>3, <1>4 DEF LogInv

(* A step of one writer that writes no event.                              *)
LEMMA MoveKeeps ==
  ASSUME LogInv, NEW w \in Writers, Moves(w), log' = log,
         call' = call \/ (call' = NoCall /\ call.pc \notin Open),
         rows' \in Seq([phase : Phases, passed : BOOLEAN]),
         status' \in Terminal \cup {"running"}, failure' \in BOOLEAN, writes' \in Nat
  PROVE  LogInv'
  <1>1. LogTyped /\ LoopAtCall /\ call' \in {call, NoCall}
    BY DEF LogInv
  <1>2. call' \in CallType /\ (call'.pc = "none" => call' = NoCall)
    BY <1>1, CallFields
  <1>3. LogTyped'
    <2>1. at' \in [Writers -> AtType] /\ log' \in Seq(EventType)
      BY <1>1 DEF Moves, LogTyped
    <2> QED
      BY <1>2, <2>1 DEF LogTyped, CallType
  <1>4. LoopAtCall'
    BY <1>1, MovesTell
  <1> QED
    BY <1>3, <1>4, LogKept

LEMMA LogStep ==
  ASSUME TraceAssumption, LogInv, TraceNext
  PROVE  LogInv'
  <1>0. /\ LogTyped /\ LoopAtCall /\ rows \in Seq([phase : Phases, passed : BOOLEAN])
        /\ at \in [Writers -> AtType] /\ writes \in Nat /\ writes + 1 \in Nat
        /\ status \in Terminal \cup {"running"} /\ failure \in BOOLEAN
        /\ call \in CallType /\ NoCall \in CallType /\ NoCall.pc = "none"
        /\ call.pc = "none" => call = NoCall
    BY CallFields DEF LogInv, LogTyped
  <1>01. ASSUME Looping, at' = at PROVE LoopAtCall'
    BY <1>01 DEF LoopAtCall, Looping
  <1>1. CASE ModelResponds
    <2>1. PICK e \in EventType :
            /\ Wrote(e) /\ e.type = "model_call_completed"
            /\ Looping /\ BetweenCalls /\ call' = NoCall /\ UNCHANGED <<rows, at>>
      BY <1>0, <1>1, RespondTells
    <2>2. e.type \notin Settling \cup {"tool_call_requested"} /\ call.pc \notin Open
      BY <2>1, OpenCalls DEF Settling
    <2>3. LogTyped'
      BY <1>0, <2>1, TypedLog
    <2> QED
      BY <1>01, <2>1, <2>2, <2>3, OtherEvent DEF LogInv
  <1>2. ASSUME NEW id \in CallIds \cup {NoId}, NEW p \in Payloads, Request(id, p)
        PROVE  LogInv'
    <2>1. PICK e \in EventType :
            /\ Wrote(e) /\ e.type = "tool_call_requested" /\ e.id = id /\ e.phase = "loop"
            /\ Looping /\ call = NoCall /\ UNCHANGED <<rows, at>>
            /\ call' = [pc |-> "requested", id |-> id, payload |-> p]
      BY <1>0, <1>2, RequestTells
    <2>2. call' \in CallType /\ call'.pc = "requested" /\ call'.id = e.id
      BY <2>1 DEF CallType
    <2>3. LogTyped'
      BY <1>0, <2>1, <2>2, TypedLog
    <2> QED
      BY <1>01, <2>1, <2>2, <2>3, RequestEvent DEF LogInv
  <1>3. ASSUME NEW success \in {"yes", "no"}, Execute(success)
        PROVE  LogInv'
    <2>1. PICK e \in EventType :
           /\ Wrote(e) /\ e.type = "agent_tool_call"
           /\ Looping /\ call.pc = "requested" /\ UNCHANGED at
           /\ rows' \in Seq([phase : Phases, passed : BOOLEAN])
           /\ \E pc \in {"executed", "refused"} : call' = [call EXCEPT !.pc = pc]
      BY <1>0, <1>3, ExecuteTells
    <2>2. call' \in CallType /\ call'.pc \in {"executed", "refused"} /\ call'.id = call.id
      BY <1>0, <2>1, CallFields
    <2>3. LogTyped'
      BY <1>0, <2>1, <2>2, TypedLog
    <2>4. e.type \notin Settling \cup {"tool_call_requested"}
      BY <2>1 DEF Settling
    <2>5. call.pc \in Open /\ call'.pc \in Open /\ call # NoCall
      BY <1>0, <2>1, <2>2 DEF Open
    <2> QED
      BY <1>01, <2>1, <2>2, <2>3, <2>4, <2>5, OtherEvent DEF LogInv
  <1>4. CASE Refuse
    <2>1. /\ call.pc = "requested" /\ call' = [call EXCEPT !.pc = "refused"] /\ Looping
          /\ UNCHANGED <<log, rows, status, failure, at, writes>>
      BY <1>4 DEF Refuse
    <2>2. call' \in CallType /\ call'.pc = "refused" /\ call'.id = call.id /\ call # NoCall
      BY <1>0, <2>1, CallFields
    <2>3. LogTyped'
      BY <1>0, <2>1, <2>2 DEF LogTyped, CallType
    <2>4. CallEvents' /\ HasLasts' /\ OutcomesBelong'
      BY <2>1 DEF LogInv, CallEvents, HasLasts, OutcomesBelong, Requests
    <2>5. RequestsSettled'
      BY <2>1, <2>2 DEF LogInv, RequestsSettled, Requests, OutcomesOf, Open
    <2>6. CallUnderWay'
      BY <2>1, <2>2 DEF LogInv, CallUnderWay, Requests
    <2> QED
      BY <1>01, <2>1, <2>3, <2>4, <2>5, <2>6 DEF LogInv
  <1>5. CASE FinishCall
    <2>1. PICK e \in EventType :
           /\ Wrote(e) /\ e.type \in Settling /\ e.id = call.id /\ e.phase = "loop"
           /\ e.large = FALSE
           /\ Looping /\ call.pc \in {"executed", "refused", "submitted"}
           /\ call' \in {NoCall, [call EXCEPT !.pc = "submitted"]}
           /\ UNCHANGED <<rows, at>>
      BY <1>0, <1>5, FinishTells
    <2>2. /\ call' \in CallType /\ (call'.pc = "none" => call' = NoCall)
          /\ call # NoCall /\ (call' = NoCall \/ call'.id = call.id)
      BY <1>0, <2>1, CallFields
    <2>3. LogTyped'
      BY <1>0, <2>1, <2>2, TypedLog
    <2> QED
      BY <1>01, <2>1, <2>2, <2>3, FinishEvent DEF LogInv
  <1>6. ASSUME NEW w \in Writers, NEW e \in EventType, Wrote(e), Moves(w),
               e.type \in {"agent_run_completed", "agent_run_failed", "test_phase_completed"},
               UNCHANGED <<rows, call>>
        PROVE  LogInv'
    <2>1. e.type \notin Settling \cup {"tool_call_requested"}
      BY <1>6 DEF Settling
    <2>2. LogTyped'
      BY <1>0, <1>6, TypedLog DEF Moves
    <2>3. LoopAtCall'
      BY <1>0, <1>6, MovesTell
    <2> QED
      BY <1>6, <2>1, <2>2, <2>3, OtherEvent DEF LogInv
  <1>7. CASE LogEnd
    <2>1. Agent \in Writers
      BY DEF Writers
    <2>2. Moves(Agent)
      BY <1>0, <1>7, <2>1, EndMoves
    <2> QED
      BY <1>0, <1>6, <1>7, <2>1, <2>2, EndTells
  <1>8. ASSUME NEW w \in Writers, PhaseCompleted(w) PROVE LogInv'
    <2>1. Moves(w)
      BY <1>0, <1>8, PhaseMoves
    <2> QED
      BY <1>0, <1>6, <1>8, <2>1, PhaseTells
  <1>9. ASSUME NEW w \in Writers, NEW b \in BOOLEAN, TestRow(w, b)
        PROVE  LogInv'
    <2>1. at[w].phase \in Phases
      BY <1>0, <1>9 DEF TestRow, AtType
    <2>2. rows' \in Seq([phase : Phases, passed : BOOLEAN])
      BY <1>0, <1>9, <2>1 DEF TestRow
    <2>3. UNCHANGED <<log, status, failure, call>> /\ writes' = writes + 1
      BY <1>9 DEF TestRow
    <2>4. Moves(w)
      BY <1>0, <1>9, PhaseMoves
    <2> QED
      BY <1>0, <2>2, <2>3, <2>4, MoveKeeps
  <1>10. ASSUME NEW w \in Writers,
                \/ \E p \in Phases : BeginPhase(w, p)
                \/ RunBaseline(w) \/ Finalize(w) \/ BreakOff(w) \/ ClassifyRun(w)
         PROVE  LogInv'
    <2>1. UNCHANGED <<log, rows, call>> /\ writes' \in {writes, writes + 1}
      BY <1>10 DEF BeginPhase, RunBaseline, Finalize, BreakOff, ClassifyRun
    <2>2. status' \in Terminal \cup {"running"} /\ failure' \in BOOLEAN
      BY <1>0, <1>10 DEF BeginPhase, RunBaseline, Finalize, BreakOff, ClassifyRun, Terminal
    <2>3. Moves(w)
      BY <1>0, <1>10, PhaseMoves, EndMoves
    <2> QED
      BY <1>0, <2>1, <2>2, <2>3, MoveKeeps
  <1>11. ASSUME NEW t \in Terminal, Mark(t)
         PROVE  LogInv'
    <2>1. /\ UNCHANGED <<log, rows, failure>> /\ call' = NoCall /\ BetweenCalls
          /\ status' = t /\ writes' = writes + 1
      BY <1>11 DEF Mark
    <2>2. call.pc \notin Open /\ Agent \in Writers
      BY <2>1, OpenCalls DEF Writers
    <2>3. Moves(Agent)
      BY <1>0, <1>11, <2>2, EndMoves
    <2> QED
      BY <1>0, <2>1, <2>2, <2>3, MoveKeeps
  <1>12. CASE Begin \/ ReadEvents \/ ReadPhases \/ Build \/ TraceEnded
    <2>1. UNCHANGED <<log, rows, status, failure, call, at, writes>>
      BY <1>12 DEF Begin, ReadEvents, ReadPhases, Build, TraceEnded, traceVars
    <2>2. LogTyped' /\ LoopAtCall'
      BY <1>0, <2>1 DEF LogTyped, LoopAtCall, Looping
    <2> QED
      BY <2>1, <2>2, LogKept
  <1> QED
    BY <1>1, <1>2, <1>3, <1>4, <1>5, <1>7, <1>8, <1>9, <1>10, <1>11, <1>12 DEF TraceNext

-----------------------------------------------------------------------------
(* What a builder has read against what is written.                        *)

Seen == view.pc \in {"phases", "counts"}

(* If nothing has been written since it began, what it has read is so now. *)
ViewCurrent ==
  view.pc # "idle" /\ view.from = writes =>
    /\ view.status = status
    /\ Seen => view.events = Trace(log)
    /\ view.pc = "counts" => view.phases = PhaseSummaries(rows) /\ view.failure = failure

(* If the run had ended, what those who were not at work any more had done *)
(* is what it shows.                                                       *)
ViewEnded ==
  view.pc # "idle" /\ view.status \in Terminal =>
    /\ status \in Terminal
    /\ Agent \notin view.writers =>
         /\ ~Busy(Agent)
         /\ Seen => /\ ToolCallSequence(view.events) = ToolCallSequence(Trace(log))
                    /\ Responses(view.events) = Responses(Trace(log))
    /\ view.writers = {} =>
         /\ BusyWriters = {}
         /\ view.pc = "counts" => view.phases = PhaseSummaries(rows)

(* Of the requests it shows only the last can be without an outcome.       *)
LastPending(calls) ==
  /\ DOMAIN calls \subseteq 1..Len(log)
  /\ \A i \in DOMAIN calls \cap Requests :
       calls[i].status = "pending" /\ Matchable(i)
         => \A k \in DOMAIN calls \cap Requests : k <= i

ViewPending == Seen => LastPending(ToolCallSequence(view.events))

CurrentContent ==
  [ status |-> status, writers |-> {}, calls |-> ToolCallSequence(Trace(log)),
    responses |-> Responses(Trace(log)), phases |-> PhaseSummaries(rows), failure |-> failure,
    eventCount |-> Len(log), resultCount |-> Len(rows), truncated |-> Truncated(Trace(log)),
    from |-> 0, to |-> 0, exported |-> 0 ]

SnapshotFits(s) ==
  /\ s.from \in Nat /\ s.to \in Nat /\ s.from <= s.to /\ s.to <= writes
  /\ view.pc # "idle" => s.to <= view.from
  /\ s.from = writes => Content(s) = CurrentContent
  /\ s.status \in Terminal =>
       /\ status \in Terminal
       /\ Agent \notin s.writers => /\ ~Busy(Agent)
                                   /\ s.calls = ToolCallSequence(Trace(log))
                                   /\ s.responses = Responses(Trace(log))
       /\ s.writers = {} => /\ BusyWriters = {}
                            /\ s.phases = PhaseSummaries(rows) /\ s.resultCount = Len(rows)
  /\ LastPending(s.calls)
  /\ \A i \in DOMAIN s.calls : /\ s.calls[i].status \in {"pending", "completed", "failed"}
                               /\ "content" \notin s.calls[i].output

SnapshotsFit ==
  /\ snapshots \in Seq(ToSet(snapshots))
  /\ \A i \in DOMAIN snapshots : SnapshotFits(snapshots[i])
  /\ ChecksumIsStable

ViewFields == {"pc", "status", "writers", "events", "phases", "failure", "from"}

ViewTyped ==
  /\ view.pc \in {"idle", "events", "phases", "counts"}
  /\ view.from \in Nat /\ view.from <= writes /\ view.writers \subseteq Writers
  /\ DOMAIN view = ViewFields

ViewInv == ViewTyped /\ ViewCurrent /\ ViewEnded /\ ViewPending /\ SnapshotsFit

TraceInv == LogInv /\ ViewInv

-----------------------------------------------------------------------------
(* What a step of the run may do to those who read it.                     *)

Grows == log' = log \/ \E e \in EventType : log' = Append(log, e)

(* After the end no one takes up work, and who is not at work adds nothing *)
(* that is shown.                                                          *)
EndStays ==
  status \in Terminal =>
    /\ status' \in Terminal
    /\ ~Busy(Agent) => /\ at'[Agent].pc \notin {"loop", "testing"}
                       /\ ToolCallSequence(Trace(log')) = ToolCallSequence(Trace(log))
                       /\ Responses(Trace(log')) = Responses(Trace(log))
    /\ BusyWriters = {} => BusyWriters' = {} /\ rows' = rows

Writing == writes' > writes /\ UNCHANGED <<view, snapshots>> /\ EndStays /\ Grows

(* A step that writes nothing.                                             *)
Quiet == UNCHANGED <<log, rows, status, failure, writes>> /\ EndStays

LEMMA BusyStays ==
  ASSUME LogTyped, LoopAtCall, NEW w \in Writers, Moves(w), call' \in {call, NoCall},
         status \in Terminal
  PROVE  /\ ~Busy(Agent) => at'[Agent].pc \notin {"loop", "testing"}
         /\ BusyWriters = {} => BusyWriters' = {}
  <1>1. \A v \in Writers : at'[v].pc \in {"loop", "testing"} => Busy(v)
    BY MovesTell DEF Busy
  <1>2. Agent \in Writers
    BY DEF Writers
  <1>3. BusyWriters' = {v \in Writers : at'[v].pc \in {"loop", "testing"}}
    BY DEF BusyWriters, Busy
  <1> QED
    BY <1>1, <1>2, <1>3 DEF BusyWriters

LEMMA StandingStays ==
  ASSUME UNCHANGED <<log, rows, status, at>>
  PROVE  EndStays
  <1>1. BusyWriters' = BusyWriters
    BY DEF BusyWriters, Busy
  <1> QED
    BY <1>1 DEF EndStays, Busy

(* What the loop writes.                                                   *)
LEMMA LoopWrites ==
  ASSUME LogTyped, NEW e \in EventType, Wrote(e), Looping
  PROVE  Writing
  <1>1. Busy(Agent) /\ Agent \in BusyWriters
    BY DEF Looping, Busy, BusyWriters, Writers
  <1>2. writes' > writes
    BY DEF LogTyped, Wrote
  <1> QED
    BY <1>1, <1>2 DEF Writing, EndStays, Wrote, Grows

(* The events of phases and of the end.                                    *)
LEMMA EventWrites ==
  ASSUME LogTyped, LoopAtCall, HasLasts, NEW w \in Writers, NEW e \in EventType, Wrote(e),
         e.type \in {"agent_run_completed", "agent_run_failed", "test_phase_completed"},
         UNCHANGED <<rows, call>>, Moves(w)
  PROVE  Writing
  <1>1. writes' > writes /\ log \in Seq(EventType) /\ log' = Append(log, e)
    BY DEF LogTyped, Wrote
  <1>2. /\ ToolCallSequence(Trace(log')) = ToolCallSequence(Trace(log))
        /\ Responses(Trace(log')) = Responses(Trace(log))
    BY <1>1, EndShowsNothing DEF HasLasts
  <1>3. EndStays
    BY <1>2, BusyStays DEF EndStays, Wrote
  <1> QED
    BY <1>1, <1>3 DEF Writing, Wrote, Grows

(* What else a writer does.                                                *)
LEMMA MoveStays ==
  ASSUME LogTyped, LoopAtCall, NEW w \in Writers, Moves(w), log' = log, rows' = rows \/ Busy(w),
         status' = status \/ status' \in Terminal, call' \in {call, NoCall}
  PROVE  EndStays
  <1>1. Busy(w) => BusyWriters # {}
    BY DEF BusyWriters
  <1> QED
    BY <1>1, BusyStays DEF EndStays

LEMMA StepKinds ==
  ASSUME TraceAssumption, LogInv, TraceNext
  PROVE  \/ Writing
         \/ Quiet /\ UNCHANGED <<view, snapshots>>
         \/ Begin \/ ReadEvents \/ ReadPhases \/ Build
  <1>0. LogTyped /\ LoopAtCall /\ HasLasts /\ writes \in Nat /\ writes + 1 > writes
        /\ Agent \in Writers
    BY DEF LogInv, LogTyped, Writers
  <1>1. CASE \/ ModelResponds \/ FinishCall
             \/ \E id \in CallIds \cup {NoId}, p \in Payloads : Request(id, p)
             \/ \E t \in {"yes", "no"} : Execute(t)
    <2>1. \E e \in EventType : Wrote(e) /\ Looping
      BY <1>0, <1>1, RespondTells, FinishTells, RequestTells, ExecuteTells
    <2> QED
      BY <1>0, <2>1, LoopWrites
  <1>2. CASE LogEnd
    <2>1. Moves(Agent)
      BY <1>0, <1>2, EndMoves
    <2> QED
      BY <1>0, <1>2, <2>1, EndTells, EventWrites
  <1>3. ASSUME NEW w \in Writers, PhaseCompleted(w) PROVE Writing
    <2>1. Moves(w)
      BY <1>0, <1>3, PhaseMoves
    <2> QED
      BY <1>0, <1>3, <2>1, PhaseTells, EventWrites
  <1>4. ASSUME NEW w \in Writers, NEW b \in BOOLEAN, TestRow(w, b) PROVE Writing
    <2>1. Moves(w)
      BY <1>0, <1>4, PhaseMoves
    <2>2. Busy(w) /\ UNCHANGED <<log, status, call, view, snapshots>> /\ writes' = writes + 1
      BY <1>4 DEF TestRow, Busy
    <2>3. EndStays
      BY <1>0, <2>1, <2>2, MoveStays
    <2> QED
      BY <1>0, <2>2, <2>3 DEF Writing, Grows
  <1>5. ASSUME NEW w \in Writers, Finalize(w) \/ ClassifyRun(w) PROVE Writing
    <2>1. Moves(w)
      BY <1>0, <1>5, PhaseMoves, EndMoves
    <2>2. /\ UNCHANGED <<log, rows, call, view, snapshots>> /\ writes' = writes + 1
          /\ status' = status \/ status' \in Terminal
      BY <1>5 DEF Finalize, ClassifyRun, Terminal
    <2>3. EndStays
      BY <1>0, <2>1, <2>2, MoveStays
    <2> QED
      BY <1>0, <2>2, <2>3 DEF Writing, Grows
  <1>6. ASSUME NEW t \in Terminal, Mark(t) PROVE Writing
    <2>1. Moves(Agent)
      BY <1>0, <1>6, EndMoves
    <2>2. /\ UNCHANGED <<log, rows, view, snapshots>> /\ writes' = writes + 1
          /\ status' \in Terminal /\ call' = NoCall
      BY <1>6 DEF Mark
    <2>3. EndStays
      BY <1>0, <2>1, <2>2, MoveStays
    <2> QED
      BY <1>0, <2>2, <2>3 DEF Writing, Grows
  <1>7. ASSUME NEW w \in Writers,
               (\E p \in Phases : BeginPhase(w, p)) \/ RunBaseline(w) \/ BreakOff(w)
        PROVE  Quiet /\ UNCHANGED <<view, snapshots>>
    <2>1. Moves(w)
      BY <1>0, <1>7, PhaseMoves
    <2>2. UNCHANGED <<log, rows, status, failure, call, writes, view, snapshots>>
      BY <1>7 DEF BeginPhase, RunBaseline, BreakOff
    <2>3. EndStays
      BY <1>0, <2>1, <2>2, MoveStays
    <2> QED
      BY <2>2, <2>3 DEF Quiet
  <1>8. CASE Refuse \/ TraceEnded
    BY <1>8, StandingStays DEF Refuse, TraceEnded, traceVars, Quiet
  <1> QED
    BY <1>1, <1>2, <1>3, <1>4, <1>5, <1>6, <1>7, <1>8 DEF TraceNext

-----------------------------------------------------------------------------
(* What the steps leave true of views and snapshots.                       *)

(* Of what was shown, requests and their payloads stay as they are.        *)
LEMMA PendingStays ==
  ASSUME LogTyped, Grows, NEW calls, LastPending(calls)
  PROVE  LastPending(calls)'
  <1>1. log \in Seq(EventType)
    BY DEF LogTyped
  <1>2. CASE log' = log
    BY <1>2 DEF LastPending, Requests, Matchable
  <1>3. ASSUME NEW e \in EventType, log' = Append(log, e)
        PROVE  LastPending(calls)'
    <2>1. /\ Len(log) \in Nat /\ Len(log') = Len(log) + 1
          /\ \A i \in 1..Len(log) : log'[i] = log[i]
      BY <1>1, <1>3, LogGrows
    <2>2. Requests' \subseteq Requests \cup {Len(log) + 1}
      BY <1>1, <1>3, PositionsGrow DEF Requests
    <2>3. DOMAIN calls \subseteq 1..Len(log)
      BY DEF LastPending
    <2>4. DOMAIN calls \cap Requests' \subseteq DOMAIN calls \cap Requests
      BY <2>1, <2>2, <2>3
    <2>5. \A i \in DOMAIN calls : Matchable(i)' <=> Matchable(i)
      BY <2>1, <2>3 DEF Matchable
    <2>6. DOMAIN calls \subseteq 1..Len(log')
      BY <2>1, <2>3
    <2> QED
      BY <2>4, <2>5, <2>6 DEF LastPending
  <1> QED
    BY <1>2, <1>3 DEF Grows

LEMMA SnapshotStays ==
  ASSUME LogTyped, Grows, EndStays, NEW s, SnapshotFits(s),
         s.to <= writes', view'.pc # "idle" => s.to <= view'.from,
         s.from = writes' => Content(s) = CurrentContent'
  PROVE  SnapshotFits(s)'
  <1>1. LastPending(s.calls)'
    BY PendingStays DEF SnapshotFits
  <1>2. s.status \in Terminal =>
       /\ status' \in Terminal
       /\ Agent \notin s.writers => /\ at'[Agent].pc \notin {"loop", "testing"}
                                   /\ s.calls = ToolCallSequence(Trace(log'))
                                   /\ s.responses = Responses(Trace(log'))
       /\ s.writers = {} => /\ BusyWriters' = {}
                            /\ s.phases = PhaseSummaries(rows') /\ s.resultCount = Len(rows')
    BY DEF SnapshotFits, EndStays
  <1> QED
    BY <1>1, <1>2 DEF SnapshotFits, Busy

LEMMA WritingKeeps ==
  ASSUME TraceInv, LogTyped', Writing
  PROVE  ViewInv'
  <1>1. /\ LogTyped /\ writes \in Nat /\ view.from \in Nat /\ view.from <= writes
        /\ ViewTyped /\ ViewEnded /\ ViewPending /\ SnapshotsFit
    BY DEF TraceInv, LogInv, LogTyped, ViewInv, ViewTyped
  <1>2. /\ writes' > writes /\ view' = view /\ snapshots' = snapshots /\ EndStays /\ Grows
        /\ writes' \in Nat
    BY DEF Writing, LogTyped
  <1>3. ViewTyped'
    <2>1. view'.from <= writes'
      BY <1>1, <1>2
    <2> QED
      BY <1>1, <1>2, <2>1 DEF ViewTyped
  <1>4. ViewCurrent'
    <2>1. view'.from # writes'
      BY <1>1, <1>2
    <2> QED
      BY <2>1 DEF ViewCurrent
  <1>5. ViewEnded'
    BY <1>1, <1>2 DEF ViewEnded, EndStays, Seen, Busy
  <1>6. ViewPending'
    <2>1. PICK calls : calls = ToolCallSequence(view.events)
      OBVIOUS
    <2>2. Seen => LastPending(calls)'
      BY <1>1, <1>2, <2>1, PendingStays DEF ViewPending
    <2> QED
      BY <1>2, <2>1, <2>2 DEF ViewPending, LastPending, Seen
  <1>7. SnapshotsFit'
    <2>1. ASSUME NEW s, SnapshotFits(s) PROVE SnapshotFits(s)'
      <3>1. s.from \in Nat /\ s.to \in Nat /\ s.from <= s.to /\ s.to <= writes
            /\ (view.pc # "idle" => s.to <= view.from)
        BY <2>1 DEF SnapshotFits
      <3>2. s.to <= writes' /\ s.from # writes'
        BY <1>1, <1>2, <3>1
      <3> QED
        BY <1>1, <1>2, <2>1, <3>1, <3>2, SnapshotStays
    <2>2. /\ snapshots \in Seq(ToSet(snapshots)) /\ ChecksumIsStable
          /\ \A i \in DOMAIN snapshots : SnapshotFits(snapshots[i])
      BY <1>1 DEF SnapshotsFit
    <2>3. \A i \in DOMAIN snapshots' : SnapshotFits(snapshots[i])'
      <3>1. SUFFICES ASSUME NEW i \in DOMAIN snapshots PROVE SnapshotFits(snapshots[i])'
        BY <1>2
      <3>2. PICK s : s = snapshots[i]
        OBVIOUS
      <3>3. SnapshotFits(s)'
        BY <2>1, <2>2, <3>2
      <3> QED
        BY <1>2, <3>2, <3>3 DEF SnapshotFits, LastPending
    <2>4. ChecksumIsStable'
      BY <1>2, <2>2 DEF ChecksumIsStable
    <2> QED
      BY <1>2, <2>2, <2>3, <2>4 DEF SnapshotsFit
  <1> QED
    BY <1>3, <1>4, <1>5, <1>6, <1>7 DEF ViewInv

LEMMA StillKeeps ==
  ASSUME TraceInv, Quiet, snapshots' = snapshots,
         view'.pc # "idle" =>
           view'.from = writes \/ (view.pc # "idle" /\ view'.from = view.from)
  PROVE  SnapshotsFit'
  <1>1. CurrentContent' = CurrentContent
    BY DEF Quiet, CurrentContent
  <1>2. ASSUME NEW s, SnapshotFits(s) PROVE SnapshotFits(s)'
    <2>1. /\ s.to <= writes /\ (view.pc # "idle" => s.to <= view.from)
          /\ (s.from = writes => Content(s) = CurrentContent)
      BY <1>2 DEF SnapshotFits
    <2>2. LogTyped /\ Grows /\ EndStays /\ writes' = writes
      BY DEF TraceInv, LogInv, Quiet, Grows
    <2>3. view'.pc # "idle" => s.to <= view'.from
      BY <2>1
    <2> QED
      BY <1>1, <1>2, <2>1, <2>2, <2>3, SnapshotStays
  <1>3. /\ snapshots \in Seq(ToSet(snapshots)) /\ ChecksumIsStable
        /\ \A i \in DOMAIN snapshots : SnapshotFits(snapshots[i])
    BY DEF TraceInv, ViewInv, SnapshotsFit
  <1>4. \A i \in DOMAIN snapshots' : SnapshotFits(snapshots[i])'
    <2>1. SUFFICES ASSUME NEW i \in DOMAIN snapshots PROVE SnapshotFits(snapshots[i])'
      OBVIOUS
    <2>2. PICK s : s = snapshots[i]
      OBVIOUS
    <2>3. SnapshotFits(s)'
      BY <1>2, <1>3, <2>2
    <2> QED
      BY <2>2, <2>3 DEF SnapshotFits, LastPending
  <1>5. ChecksumIsStable'
    BY <1>3 DEF ChecksumIsStable
  <1> QED
    BY <1>3, <1>4, <1>5 DEF SnapshotsFit

LEMMA QuietKeeps ==
  ASSUME TraceInv, Quiet, UNCHANGED <<view, snapshots>>
  PROVE  ViewInv'
  <1>1. SnapshotsFit'
    <2>1. view'.pc # "idle" =>
            view'.from = writes \/ (view.pc # "idle" /\ view'.from = view.from)
      OBVIOUS
    <2> QED
      BY <2>1, StillKeeps
  <1>2. ViewTyped' /\ ViewCurrent'
    BY DEF TraceInv, ViewInv, ViewTyped, ViewCurrent, Quiet, Seen
  <1>3. ViewEnded'
    BY DEF TraceInv, ViewInv, ViewEnded, Quiet, EndStays, Seen, Busy
  <1>4. ViewPending'
    BY DEF TraceInv, ViewInv, ViewPending, LastPending, Seen, Quiet, Requests, Matchable
  <1> QED
    BY <1>1, <1>2, <1>3, <1>4 DEF ViewInv

(* What a builder does leaves the run alone.                               *)
LEMMA ReadingIsQuiet ==
  ASSUME Begin \/ ReadEvents \/ ReadPhases \/ Build
  PROVE  Quiet
  BY StandingStays DEF Begin, ReadEvents, ReadPhases, Build, Quiet

LEMMA CallsTell ==
  ASSUME NEW trace
  PROVE  \A i \in DOMAIN ToolCallSequence(trace) :
           /\ ToolCallSequence(trace)[i].status \in {"pending", "completed", "failed"}
           /\ "content" \notin ToolCallSequence(trace)[i].output
           /\ ToolCallSequence(trace)[i] = IF trace[i].type = "tool_call_requested"
                                           THEN Requested(trace, i) ELSE Executed(trace, i)
           /\ i \in Positions(trace, {"tool_call_requested", "agent_tool_call"})
  <1>1. \A x : Status(x) \in {"completed", "failed"}
    BY DEF Status
  <1>2. \A i : /\ Requested(trace, i).status \in {"pending", "completed", "failed"}
               /\ "content" \notin Requested(trace, i).output
    <2>1. SUFFICES ASSUME NEW i
                   PROVE  /\ Requested(trace, i).status \in {"pending", "completed", "failed"}
                          /\ "content" \notin Requested(trace, i).output
      OBVIOUS
    <2> DEFINE t == TerminalOf(trace, trace[i].id)
    <2>2. /\ Requested(trace, i).status = IF t = 0 THEN "pending" ELSE Status(trace[t].success)
          /\ Requested(trace, i).output = IF t = 0 THEN {} ELSE trace[t].keys \ {"content"}
      BY DEF Requested
    <2> HIDE DEF t
    <2> QED
      BY <1>1, <2>2
  <1>3. \A i : /\ Executed(trace, i).status \in {"pending", "completed", "failed"}
               /\ "content" \notin Executed(trace, i).output
    BY <1>1 DEF Executed
  <1> QED
    BY <1>2, <1>3 DEF ToolCallSequence

LEMMA ReadOfLog ==
  ASSUME LogTyped
  PROVE  \A i \in DOMAIN log :
           LET r == EventRead(log[i]) IN
           /\ Trace(log)[i] = r /\ r.type = log[i].type
           /\ r.id = IF log[i].large \/ log[i].phase = "hidden_eval" THEN NoId ELSE log[i].id
           /\ r.cut = (log[i].large /\ log[i].phase # "hidden_eval")
           /\ r.success = IF r.cut THEN "unset" ELSE log[i].success
           /\ r.keys \cap {"secret", "protected"} = {} /\ r.paths \subseteq {"path"}
           /\ log[i].phase = "hidden_eval" => r.keys \subseteq {"status"} /\ r.paths = {}
           /\ r.severity = IF r.success = "no" \/ r.type \in {"tool_call_failed", "agent_run_failed"}
                           THEN "error" ELSE "info"
  <1>1. log \in Seq(EventType) /\ DOMAIN log = 1..Len(log)
    BY DEF LogTyped
  <1>2. \A i \in DOMAIN log : log[i] \in EventType /\ Trace(log)[i] = EventRead(log[i])
    BY <1>1, TraceTells
  <1> QED
    BY <1>2, EventReadTells

(* The request that is without an outcome is the one under way.            *)
LEMMA CallTells ==
  ASSUME LogInv, NEW i \in DOMAIN ToolCallSequence(Trace(log)) \cap Requests
  PROVE  LET shown == ToolCallSequence(Trace(log))[i].status
             t == TerminalOf(Trace(log), log[i].id)
         IN  /\ ~Matchable(i) => shown = "pending"
             /\ shown # "pending" /\ Unique(i) => t \in OutcomesOf(i)
             /\ Matchable(i) /\ shown = "pending"
                  => call.pc \in Open /\ \A k \in Requests : k <= i
  <1> DEFINE tr == Trace(log)
             shown == ToolCallSequence(tr)[i].status
  <1>1. i \in Requests
    OBVIOUS
  <1>2. LogTyped /\ log \in Seq(EventType) /\ Lasts(Len(log))
    BY DEF LogInv, LogTyped, HasLasts
  <1>3. /\ i \in DOMAIN log /\ log[i].type = "tool_call_requested" /\ log[i].phase = "loop"
        /\ log[i].large \in BOOLEAN
    <2>1. i \in DOMAIN log /\ log[i].type \in {"tool_call_requested"}
      BY <1>1 DEF Requests, Positions
    <2>2. log[i] \in EventType
      BY <1>2, <2>1, TraceTells
    <2> QED
      BY <2>1, <2>2, EventFields DEF LogInv, CallEvents
  <1>4. \A j \in Positions(log, Settling) :
          j \in DOMAIN log /\ tr[j].id = log[j].id /\ tr[j].type = log[j].type
    <2>1. SUFFICES ASSUME NEW j \in Positions(log, Settling)
                   PROVE  j \in DOMAIN log /\ tr[j].id = log[j].id /\ tr[j].type = log[j].type
      OBVIOUS
    <2>2. j \in DOMAIN log /\ log[j].type \in Settling
      BY DEF Positions
    <2>3. log[j].phase = "loop" /\ log[j].large = FALSE
      BY <2>2 DEF LogInv, CallEvents
    <2> QED
      BY <1>2, <2>2, <2>3, ReadOfLog
  <1>5. Positions(tr, Settling) = Positions(log, Settling)
    BY <1>2, SamePositions
  <1> DEFINE id == tr[i].id
             t == TerminalOf(tr, id)
  <1>6. id = (IF log[i].large THEN NoId ELSE log[i].id) /\ tr[i].type = "tool_call_requested"
    BY <1>2, <1>3, ReadOfLog
  <1>7. /\ Terminals(tr, id) \subseteq 1..Len(log)
        /\ Terminals(tr, id) = {} => t = 0
        /\ Terminals(tr, id) # {} => t \in Terminals(tr, id)
    BY <1>2, LastTerminal
  <1>9. shown = "pending" <=> t = 0
    <2>1. ToolCallSequence(tr)[i] = Requested(tr, i)
      BY <1>6, CallsTell
    <2>2. Requested(tr, i).status = IF t = 0 THEN "pending" ELSE Status(tr[t].success)
      BY DEF Requested
    <2>3. \A x : Status(x) # "pending"
      BY DEF Status
    <2> HIDE DEF t
    <2> QED
      BY <2>1, <2>2, <2>3
  <1> HIDE DEF tr, id, t, shown
  <1>13. CASE ~Matchable(i)
    <2>1. id = NoId
      BY <1>3, <1>6, <1>13 DEF Matchable
    <2>2. Terminals(tr, id) = {}
      BY <2>1 DEF Terminals
    <2>3. shown = "pending"
      BY <1>7, <1>9, <2>2
    <2> QED
      BY <1>13, <2>3 DEF shown, tr
  <1>14. CASE Matchable(i)
    <2>1. id = log[i].id /\ id # NoId
      BY <1>6, <1>14 DEF Matchable
    <2>2. shown = "pending" => call.pc \in Open /\ \A k \in Requests : k <= i
      <3>1. SUFFICES ASSUME NEW j \in OutcomesOf(i), log[j].id = log[i].id PROVE shown # "pending"
        BY <1>1 DEF LogInv, RequestsSettled
      <3>2. j \in Positions(log, Settling)
        BY DEF OutcomesOf
      <3>3. j \in Terminals(tr, id)
        BY <1>4, <1>5, <2>1, <3>1, <3>2 DEF Terminals
      <3>4. t # 0
        BY <1>7, <3>3
      <3> QED
        BY <1>9, <3>4
    <2>3. ASSUME shown # "pending", Unique(i) PROVE t \in OutcomesOf(i)
      <3>1. t \in Terminals(tr, id) /\ t # 0
        BY <1>7, <1>9, <2>3
      <3>2. t \in Positions(log, Settling) /\ log[t].id = id
        BY <1>4, <1>5, <3>1 DEF Terminals
      <3>3. PICK r \in Requests : r < t /\ log[r].id = id /\ \A k \in Requests : k > r => t < k
        BY <3>2 DEF LogInv, OutcomesBelong
      <3>4. r = i
        BY <2>1, <2>3, <3>3 DEF Unique
      <3>5. t > r
        BY <1>7, <3>1, <3>3, SamePositions, <1>2 DEF Requests
      <3> QED
        BY <3>2, <3>3, <3>4, <3>5 DEF OutcomesOf
    <2>4. TerminalOf(tr, log[i].id) = t
      BY <2>1 DEF t
    <2> QED
      BY <1>14, <2>2, <2>3, <2>4 DEF shown, tr
  <1> QED
    BY <1>13, <1>14

LEMMA LogPending ==
  ASSUME LogInv
  PROVE  LastPending(ToolCallSequence(Trace(log)))
  <1> DEFINE calls == ToolCallSequence(Trace(log))
  <1>1. log \in Seq(EventType)
    BY DEF LogInv, LogTyped
  <1>2. DOMAIN calls \subseteq 1..Len(log)
    <2>1. SUFFICES ASSUME NEW i \in DOMAIN calls PROVE i \in 1..Len(log)
      OBVIOUS
    <2>2. i \in Positions(Trace(log), {"tool_call_requested", "agent_tool_call"})
      BY CallsTell
    <2> QED
      BY <1>1, <2>2, SamePositions
  <1>3. \A i \in DOMAIN calls \cap Requests :
          calls[i].status = "pending" /\ Matchable(i) => \A k \in Requests : k <= i
    BY CallTells
  <1> HIDE DEF calls
  <1>4. LastPending(calls)
    BY <1>2, <1>3 DEF LastPending
  <1> QED
    BY <1>4 DEF calls

LEMMA ViewRecord ==
  ASSUME ViewTyped, NEW pc, NEW events, NEW phases, NEW wasFailure
  PROVE  LET read == [view EXCEPT !.pc = pc, !.events = events]
             both == [view EXCEPT !.pc = pc, !.phases = phases, !.failure = wasFailure]
         IN  /\ read.pc = pc /\ read.events = events /\ read.status = view.status
             /\ read.from = view.from /\ read.phases = view.phases
             /\ read.writers = view.writers
             /\ DOMAIN read = DOMAIN view
             /\ both.pc = pc /\ both.phases = phases /\ both.failure = wasFailure
             /\ both.status = view.status /\ both.from = view.from
             /\ both.writers = view.writers
             /\ both.events = view.events /\ DOMAIN both = DOMAIN view
  BY DEF ViewTyped, ViewFields

LEMMA BeginKeeps ==
  ASSUME TraceInv, Begin
  PROVE  ViewInv'
  <1> DEFINE new == [pc |-> "events", status |-> status, writers |-> BusyWriters, events |-> <<>>,
                     phases |-> <<>>, failure |-> FALSE, from |-> writes]
  <1>1. view' = new /\ Quiet /\ UNCHANGED <<at, snapshots>>
    BY ReadingIsQuiet DEF Begin, NoView
  <1>2. /\ new.pc = "events" /\ new.status = status /\ new.from = writes
        /\ new.writers = BusyWriters /\ DOMAIN new = ViewFields
    BY DEF ViewFields
  <1>3. writes \in Nat /\ BusyWriters \subseteq Writers
    BY DEF TraceInv, LogInv, LogTyped, BusyWriters
  <1>31. BusyWriters' = BusyWriters /\ (Agent \notin BusyWriters => ~Busy(Agent))
    BY <1>1 DEF BusyWriters, Busy, Writers
  <1> HIDE DEF new
  <1>4. SnapshotsFit' /\ writes' = writes
    BY <1>1, <1>2, StillKeeps DEF Quiet
  <1>5. ViewTyped'
    BY <1>1, <1>2, <1>3, <1>4 DEF ViewTyped
  <1>6. ViewCurrent' /\ ViewPending'
    BY <1>1, <1>2 DEF ViewCurrent, ViewPending, Quiet, Seen
  <1>7. ViewEnded'
    BY <1>1, <1>2, <1>31 DEF ViewEnded, Quiet, Seen, Busy
  <1> QED
    BY <1>4, <1>5, <1>6, <1>7 DEF ViewInv

LEMMA ReadEventsKeeps ==
  ASSUME TraceInv, ReadEvents
  PROVE  ViewInv'
  <1> DEFINE new == [view EXCEPT !.pc = "phases", !.events = Trace(log)]
  <1>1. view' = new /\ Quiet /\ UNCHANGED <<at, snapshots>> /\ view.pc = "events"
    BY ReadingIsQuiet DEF ReadEvents
  <1>2. /\ new.pc = "phases" /\ new.events = Trace(log) /\ new.status = view.status
        /\ new.writers = view.writers /\ new.from = view.from /\ DOMAIN new = DOMAIN view
    BY ViewRecord DEF TraceInv, ViewInv
  <1>21. BusyWriters' = BusyWriters
    BY <1>1 DEF BusyWriters, Busy
  <1> HIDE DEF new
  <1>3. SnapshotsFit' /\ writes' = writes
    BY <1>1, <1>2, StillKeeps DEF Quiet
  <1>4. ViewTyped'
    BY <1>1, <1>2, <1>3 DEF TraceInv, ViewInv, ViewTyped
  <1>5. ViewCurrent'
    BY <1>1, <1>2, <1>3 DEF TraceInv, ViewInv, ViewCurrent, Quiet
  <1>6. ViewEnded'
    BY <1>1, <1>2, <1>21 DEF TraceInv, ViewInv, ViewEnded, Quiet, Busy
  <1>7. ViewPending'
    <2>1. PICK calls : calls = ToolCallSequence(Trace(log))
      OBVIOUS
    <2>2. LastPending(calls)
      BY <2>1, LogPending DEF TraceInv
    <2>3. LogTyped /\ Grows
      BY <1>1 DEF TraceInv, LogInv, Quiet, Grows
    <2>4. LastPending(calls)'
      BY <2>2, <2>3, PendingStays
    <2> QED
      BY <1>1, <1>2, <2>1, <2>4 DEF ViewPending, LastPending
  <1> QED
    BY <1>3, <1>4, <1>5, <1>6, <1>7 DEF ViewInv

LEMMA ReadPhasesKeeps ==
  ASSUME TraceInv, ReadPhases
  PROVE  ViewInv'
  <1> DEFINE new == [view EXCEPT !.pc = "counts", !.phases = PhaseSummaries(rows),
                                 !.failure = failure]
  <1>1. view' = new /\ Quiet /\ UNCHANGED <<at, snapshots>> /\ view.pc = "phases"
    BY ReadingIsQuiet DEF ReadPhases
  <1>2. /\ new.pc = "counts" /\ new.phases = PhaseSummaries(rows) /\ new.failure = failure
        /\ new.status = view.status /\ new.from = view.from /\ new.events = view.events
        /\ new.writers = view.writers /\ DOMAIN new = DOMAIN view
    BY ViewRecord DEF TraceInv, ViewInv
  <1>21. BusyWriters' = BusyWriters
    BY <1>1 DEF BusyWriters, Busy
  <1> HIDE DEF new
  <1>3. SnapshotsFit' /\ writes' = writes
    BY <1>1, <1>2, StillKeeps DEF Quiet
  <1>4. ViewTyped'
    BY <1>1, <1>2, <1>3 DEF TraceInv, ViewInv, ViewTyped
  <1>5. ViewCurrent'
    BY <1>1, <1>2, <1>3 DEF TraceInv, ViewInv, ViewCurrent, Quiet, Seen
  <1>6. ViewEnded'
    BY <1>1, <1>2, <1>21 DEF TraceInv, ViewInv, ViewEnded, Quiet, Seen, Busy
  <1>7. ViewPending'
    <2>1. PICK calls : calls = ToolCallSequence(view.events)
      OBVIOUS
    <2>2. LastPending(calls)
      BY <1>1, <2>1 DEF TraceInv, ViewInv, ViewPending, Seen
    <2>3. LogTyped /\ Grows
      BY <1>1 DEF TraceInv, LogInv, Quiet, Grows
    <2>4. LastPending(calls)'
      BY <2>2, <2>3, PendingStays
    <2> QED
      BY <1>1, <1>2, <2>1, <2>4 DEF ViewPending, LastPending
  <1> QED
    BY <1>3, <1>4, <1>5, <1>6, <1>7 DEF ViewInv

LEMMA OneMore ==
  ASSUME NEW s, s \in Seq(ToSet(s)), NEW e
  PROVE  /\ Append(s, e) \in Seq(ToSet(Append(s, e)))
         /\ DOMAIN Append(s, e) = DOMAIN s \cup {Len(s) + 1} /\ Len(s) \in Nat
         /\ DOMAIN s = 1..Len(s)
         /\ \A i \in DOMAIN s : Append(s, e)[i] = s[i]
         /\ Append(s, e)[Len(s) + 1] = e
  <1>1. /\ DOMAIN s = 1..Len(s) /\ Len(s) \in Nat
        /\ DOMAIN Append(s, e) = 1..(Len(s) + 1)
        /\ \A i \in 1..Len(s) : Append(s, e)[i] = s[i]
        /\ Append(s, e)[Len(s) + 1] = e
    OBVIOUS
  <1>2. Append(s, e) \in Seq(ToSet(s) \cup {e})
    OBVIOUS
  <1>3. ToSet(s) \cup {e} = ToSet(Append(s, e))
    BY <1>1 DEF ToSet
  <1> QED
    BY <1>1, <1>2, <1>3

LEMMA TimesCleared ==
  ASSUME NEW a, NEW b, NEW c, NEW d, NEW f, NEW n, NEW m, NEW t, NEW w, NEW x, NEW y, NEW z
  PROVE  Content([status |-> a, writers |-> w, calls |-> b, responses |-> c, phases |-> d,
                 failure |-> f, eventCount |-> n, resultCount |-> m, truncated |-> t, from |-> x,
                 to |-> y, exported |-> z])
           = [status |-> a, writers |-> {}, calls |-> b, responses |-> c, phases |-> d,
              failure |-> f, eventCount |-> n, resultCount |-> m, truncated |-> t, from |-> 0,
              to |-> 0, exported |-> 0]
  <1>1. [[status |-> a, writers |-> w, calls |-> b, responses |-> c, phases |-> d,
          failure |-> f, eventCount |-> n, resultCount |-> m, truncated |-> t, from |-> x,
          to |-> y, exported |-> z]
          EXCEPT !.from = 0]
        = [status |-> a, writers |-> w, calls |-> b, responses |-> c, phases |-> d,
           failure |-> f, eventCount |-> n, resultCount |-> m, truncated |-> t, from |-> 0,
           to |-> y, exported |-> z]
    OBVIOUS
  <1>2. [[status |-> a, writers |-> w, calls |-> b, responses |-> c, phases |-> d,
          failure |-> f, eventCount |-> n, resultCount |-> m, truncated |-> t, from |-> 0,
          to |-> y, exported |-> z]
          EXCEPT !.to = 0]
        = [status |-> a, writers |-> w, calls |-> b, responses |-> c, phases |-> d,
           failure |-> f, eventCount |-> n, resultCount |-> m, truncated |-> t, from |-> 0,
           to |-> 0, exported |-> z]
    OBVIOUS
  <1>3. [[status |-> a, writers |-> w, calls |-> b, responses |-> c, phases |-> d,
          failure |-> f, eventCount |-> n, resultCount |-> m, truncated |-> t, from |-> 0,
          to |-> 0, exported |-> z]
          EXCEPT !.writers = {}]
        = [status |-> a, writers |-> {}, calls |-> b, responses |-> c, phases |-> d,
           failure |-> f, eventCount |-> n, resultCount |-> m, truncated |-> t, from |-> 0,
           to |-> 0, exported |-> z]
    OBVIOUS
  <1>4. [[status |-> a, writers |-> {}, calls |-> b, responses |-> c, phases |-> d,
          failure |-> f, eventCount |-> n, resultCount |-> m, truncated |-> t, from |-> 0,
          to |-> 0, exported |-> z]
          EXCEPT !.exported = 0]
        = [status |-> a, writers |-> {}, calls |-> b, responses |-> c, phases |-> d,
           failure |-> f, eventCount |-> n, resultCount |-> m, truncated |-> t, from |-> 0,
           to |-> 0, exported |-> 0]
    OBVIOUS
  <1> QED
    BY <1>1, <1>2, <1>3, <1>4 DEF Content

LEMMA BuildKeeps ==
  ASSUME TraceInv, Build
  PROVE  ViewInv'
  <1> DEFINE calls == ToolCallSequence(view.events)
             new == [ status |-> view.status, writers |-> view.writers, calls |-> calls,
                responses |-> Responses(view.events), phases |-> view.phases,
                failure |-> view.failure, eventCount |-> Len(log), resultCount |-> Len(rows),
                truncated |-> Truncated(view.events), from |-> view.from, to |-> writes,
                exported |-> Len(snapshots) + 1 ]
  <1>1. /\ snapshots' = Append(snapshots, new) /\ view' = NoView /\ Quiet /\ view.pc = "counts"
        /\ at' = at /\ LogInv /\ ViewInv
    BY ReadingIsQuiet DEF Build, TraceInv
  <1>2. /\ new.status = view.status /\ new.writers = view.writers /\ new.calls = calls
        /\ new.responses = Responses(view.events) /\ new.phases = view.phases
        /\ new.resultCount = Len(rows) /\ new.from = view.from /\ new.to = writes
    OBVIOUS
  <1>3. Content(new) = [ status |-> view.status, writers |-> {}, calls |-> calls,
                responses |-> Responses(view.events), phases |-> view.phases,
                failure |-> view.failure, eventCount |-> Len(log), resultCount |-> Len(rows),
                truncated |-> Truncated(view.events), from |-> 0, to |-> 0, exported |-> 0 ]
    BY TimesCleared
  <1>4. view.from = writes => Content(new) = CurrentContent
    BY <1>1, <1>3 DEF ViewInv, ViewCurrent, Seen, CurrentContent
  <1>5. writes \in Nat /\ view.from \in Nat /\ view.from <= writes
    BY <1>1 DEF LogInv, LogTyped, ViewInv, ViewTyped
  <1>6. NoView.pc = "idle" /\ NoView.from = 0 /\ NoView.writers = {}
        /\ DOMAIN NoView = ViewFields
    BY DEF NoView, ViewFields
  <1> HIDE DEF new
  <1>7. writes' = writes /\ CurrentContent' = CurrentContent /\ Grows /\ EndStays /\ LogTyped
    BY <1>1 DEF Quiet, CurrentContent, Grows, LogInv
  <1>8. view'.pc = "idle"
    BY <1>1, <1>6
  <1>9. ViewTyped' /\ ViewCurrent' /\ ViewEnded' /\ ViewPending'
    BY <1>1, <1>5, <1>6, <1>7, <1>8 DEF ViewTyped, ViewCurrent, ViewEnded, ViewPending, Seen
  <1>10. ASSUME NEW s, SnapshotFits(s) PROVE SnapshotFits(s)'
    <2>1. s.to <= writes /\ (s.from = writes => Content(s) = CurrentContent)
      BY <1>10 DEF SnapshotFits
    <2> QED
      BY <1>7, <1>8, <1>10, <2>1, SnapshotStays
  <1>11. ASSUME NEW s, s = new PROVE SnapshotFits(s)'
    <2>1. new.status \in Terminal =>
       /\ status \in Terminal
       /\ Agent \notin new.writers => /\ ~Busy(Agent)
                                     /\ new.calls = ToolCallSequence(Trace(log))
                                     /\ new.responses = Responses(Trace(log))
       /\ new.writers = {} => /\ BusyWriters = {}
                              /\ new.phases = PhaseSummaries(rows) /\ new.resultCount = Len(rows)
      BY <1>1, <1>2 DEF ViewInv, ViewEnded, Seen
    <2>2. \A i \in DOMAIN new.calls : /\ new.calls[i].status \in {"pending", "completed", "failed"}
                                      /\ "content" \notin new.calls[i].output
      BY <1>2, CallsTell
    <2>3. new.from \in Nat /\ new.to \in Nat /\ new.from <= new.to /\ new.to <= writes
          /\ (new.from = writes => Content(new) = CurrentContent)
      BY <1>2, <1>4, <1>5
    <2>4. LastPending(new.calls)
      BY <1>1, <1>2 DEF ViewInv, ViewPending, Seen
    <2>5. LastPending(s.calls)'
      BY <1>7, <1>11, <2>4, PendingStays
    <2>6. s.status \in Terminal =>
       /\ status' \in Terminal
       /\ Agent \notin s.writers => /\ at'[Agent].pc \notin {"loop", "testing"}
                                   /\ s.calls = ToolCallSequence(Trace(log'))
                                   /\ s.responses = Responses(Trace(log'))
       /\ s.writers = {} => /\ BusyWriters' = {}
                            /\ s.phases = PhaseSummaries(rows') /\ s.resultCount = Len(rows')
      BY <1>7, <1>11, <2>1 DEF EndStays
    <2> QED
      BY <1>7, <1>8, <1>11, <2>2, <2>3, <2>5, <2>6 DEF SnapshotFits, Busy
  <1>12. /\ snapshots \in Seq(ToSet(snapshots)) /\ ChecksumIsStable
         /\ \A i \in DOMAIN snapshots : SnapshotFits(snapshots[i])
    BY <1>1 DEF ViewInv, SnapshotsFit
  <1>13. /\ snapshots' \in Seq(ToSet(snapshots'))
         /\ DOMAIN snapshots' = DOMAIN snapshots \cup {Len(snapshots) + 1}
         /\ Len(snapshots) \in Nat /\ DOMAIN snapshots = 1..Len(snapshots)
         /\ \A i \in DOMAIN snapshots : snapshots'[i] = snapshots[i]
         /\ snapshots'[Len(snapshots) + 1] = new
    BY <1>1, <1>12, OneMore
  <1>14. \A i \in DOMAIN snapshots' : SnapshotFits(snapshots[i])'
    <2>1. SUFFICES ASSUME NEW i \in DOMAIN snapshots' PROVE SnapshotFits(snapshots[i])'
      OBVIOUS
    <2>2. PICK s : s = snapshots'[i]
      OBVIOUS
    <2>3. CASE i \in DOMAIN snapshots
      BY <1>10, <1>12, <1>13, <2>2, <2>3 DEF SnapshotFits, LastPending
    <2>4. CASE i = Len(snapshots) + 1
      BY <1>11, <1>13, <2>2, <2>4 DEF SnapshotFits, LastPending
    <2> QED
      BY <1>13, <2>3, <2>4
  <1>15. ChecksumIsStable'
    <2>1. SUFFICES ASSUME NEW i \in DOMAIN snapshots', NEW j \in DOMAIN snapshots',
                          i < j, snapshots'[i].from = snapshots'[j].to
                   PROVE  Content(snapshots'[i]) = Content(snapshots'[j])
      BY DEF ChecksumIsStable, Content
    <2>2. CASE j \in DOMAIN snapshots
      <3>1. i \in DOMAIN snapshots
        BY <1>13, <2>1, <2>2
      <3> QED
        BY <1>12, <1>13, <2>1, <2>2, <3>1 DEF ChecksumIsStable
    <2>3. CASE j = Len(snapshots) + 1
      <3>1. i \in DOMAIN snapshots /\ snapshots'[i] = snapshots[i] /\ snapshots'[j] = new
        BY <1>13, <2>1, <2>3
      <3>2. PICK s : s = snapshots[i]
        OBVIOUS
      <3>3. SnapshotFits(s)
        BY <1>12, <3>1, <3>2
      <3>4. s.from = writes /\ s.from \in Nat /\ s.to \in Nat /\ s.from <= s.to /\ s.to <= view.from
        BY <1>1, <1>2, <2>1, <3>1, <3>2, <3>3 DEF SnapshotFits
      <3>5. view.from = writes
        BY <1>5, <3>4
      <3>6. Content(s) = CurrentContent
        BY <3>3, <3>4 DEF SnapshotFits
      <3> QED
        BY <1>4, <3>1, <3>2, <3>5, <3>6
    <2> QED
      BY <1>13, <2>2, <2>3
  <1> QED
    BY <1>9, <1>13, <1>14, <1>15 DEF ViewInv, SnapshotsFit

LEMMA TraceStep ==
  ASSUME TraceAssumption, TraceInv, [TraceNext]_traceVars
  PROVE  TraceInv'
  <1>1. CASE TraceNext
    <2>1. LogInv' /\ LogTyped'
      BY <1>1, LogStep DEF TraceInv, LogInv
    <2>2. \/ Writing
          \/ Quiet /\ UNCHANGED <<view, snapshots>>
          \/ Begin \/ ReadEvents \/ ReadPhases \/ Build
      BY <1>1, StepKinds DEF TraceInv
    <2> QED
      BY <2>1, <2>2, WritingKeeps, QuietKeeps, BeginKeeps, ReadEventsKeeps, ReadPhasesKeeps,
         BuildKeeps DEF TraceInv
  <1>2. CASE UNCHANGED traceVars
    <2>1. UNCHANGED <<log, rows, status, failure, call, at, writes, view, snapshots>>
      BY <1>2 DEF traceVars
    <2>2. LogTyped' /\ LoopAtCall'
      BY <2>1 DEF TraceInv, LogInv, LogTyped, LoopAtCall, Looping
    <2>3. LogInv'
      BY <2>1, <2>2, LogKept DEF TraceInv
    <2> QED
      BY <2>1, <2>3, StandingStays, QuietKeeps DEF TraceInv, Quiet
  <1> QED
    BY <1>1, <1>2

LEMMA TraceInitially ==
  ASSUME TraceAssumption, TraceInit
  PROVE  TraceInv
  <1>1. /\ log = <<>> /\ rows = <<>> /\ status = "running" /\ failure = FALSE
        /\ call = NoCall /\ writes = 0 /\ view = NoView /\ snapshots = <<>>
    BY DEF TraceInit
  <1>2. Len(log) = 0 /\ Len(rows) = 0 /\ DOMAIN log = {} /\ DOMAIN snapshots = {}
    BY <1>1
  <1>3. LogTyped
    <2>1. NoCall \in CallType /\ NoCall.pc = "none"
      <3>1. NoCall = [pc |-> "none", id |-> NoId, payload |-> NoCall.payload]
        BY DEF NoCall
      <3> QED
        BY <3>1 DEF CallType
    <2>2. log \in Seq(EventType) /\ rows \in Seq([phase : Phases, passed : BOOLEAN])
      BY <1>1
    <2>3. at \in [Writers -> AtType]
      <3>1. PICK pc \in {"loop", "away"} :
              at = [w \in Writers |-> At(IF w = Agent THEN pc ELSE "away")]
        BY DEF TraceInit
      <3>2. pc \in Places \ {"testing"} /\ "away" \in Places \ {"testing"}
        BY <3>1 DEF Places
      <3>3. \A w \in Writers : At(IF w = Agent THEN pc ELSE "away") \in AtType
        BY <3>2, PlacesMade
      <3> QED
        BY <3>1, <3>3
    <2> QED
      BY <1>1, <2>1, <2>2, <2>3 DEF LogTyped, CallType
  <1>4. \A T : Positions(log, T) = {}
    BY <1>2 DEF Positions
  <1>5. HasLasts
    <2>1. 1..0 = {}
      OBVIOUS
    <2> QED
      BY <1>2, <2>1 DEF HasLasts, Lasts
  <1>6. CallEvents /\ OutcomesBelong /\ RequestsSettled /\ CallUnderWay /\ LoopAtCall
    BY <1>1, <1>2, <1>4, OpenCalls
       DEF CallEvents, OutcomesBelong, RequestsSettled, Requests, CallUnderWay, LoopAtCall
  <1>7. view.pc = "idle" /\ view.from = 0 /\ view.writers = {} /\ DOMAIN view = ViewFields
    BY <1>1 DEF NoView, ViewFields
  <1>8. ViewTyped /\ ViewCurrent /\ ViewEnded /\ ViewPending
    BY <1>1, <1>7 DEF ViewTyped, ViewCurrent, ViewEnded, ViewPending, Seen
  <1>9. SnapshotsFit
    BY <1>1, <1>2 DEF SnapshotsFit, ChecksumIsStable
  <1> QED
    BY <1>3, <1>5, <1>6, <1>8, <1>9 DEF TraceInv, LogInv, ViewInv

(* All requests but that of the call the loop is at have an outcome; what  *)
(* a builder has read is what is written, or something was written since;  *)
(* and what a snapshot of an ended run shows of those who had stopped is   *)
(* what is written now, while the others go on: the invariant from which   *)
(* TraceIsWhole follows (AgentRunReplaySnapshotService.build against the   *)
(* loop and the requests of tests).                                        *)
THEOREM TraceInductive ==
  ASSUME TraceAssumption
  PROVE  TraceSpec => []TraceInv
  <1>1. TraceInit => TraceInv
    BY TraceInitially
  <1>2. TraceInv /\ [TraceNext]_traceVars => TraceInv'
    BY TraceStep
  <1> QED
    BY <1>1, <1>2, PTL DEF TraceSpec

-----------------------------------------------------------------------------
(* What it says of a snapshot.                                             *)

LEMMA SnapshotsTell ==
  ASSUME TraceInv
  PROVE  \A s \in ToSet(snapshots) : SnapshotFits(s)
  <1>1. SUFFICES ASSUME NEW s \in ToSet(snapshots) PROVE SnapshotFits(s)
    OBVIOUS
  <1>2. PICK i \in DOMAIN snapshots : s = snapshots[i]
    BY DEF ToSet
  <1>3. \A k \in DOMAIN snapshots : SnapshotFits(snapshots[k])
    BY DEF TraceInv, ViewInv, SnapshotsFit
  <1> QED
    BY <1>2, <1>3

LEMMA WholeWhenEnded ==
  ASSUME TraceInv
  PROVE  EndedIsWhole
  BY SnapshotsTell DEF EndedIsWhole, SnapshotFits

LEMMA ProtectedIsKept ==
  ASSUME TraceInv
  PROVE  NothingProtectedIsShown /\ FailuresAreErrors
  <1>1. LogTyped
    BY DEF TraceInv, LogInv
  <1>2. \A s \in ToSet(snapshots) : \A i \in DOMAIN s.calls : "content" \notin s.calls[i].output
    BY SnapshotsTell DEF SnapshotFits
  <1>3. \A i \in DOMAIN log :
          LET e == EventRead(log[i])
          IN  /\ e.keys \cap {"secret", "protected"} = {} /\ "gold" \notin e.paths
              /\ log[i].phase = "hidden_eval" => e.keys \subseteq {"status"} /\ e.paths = {}
    BY <1>1, ReadOfLog
  <1>4. FailuresAreErrors
    BY <1>1, ReadOfLog DEF FailuresAreErrors
  <1> QED
    BY <1>2, <1>3, <1>4 DEF NothingProtectedIsShown

LEMMA CallsSettled ==
  ASSUME TraceInv
  PROVE  CallsAreSettled
  <1>1. SUFFICES ASSUME NEW s \in ToSet(snapshots), NEW i \in DOMAIN s.calls \cap Requests
                 PROVE  /\ s.calls[i].status = "pending" /\ Matchable(i)
                             => \A k \in DOMAIN s.calls \cap Requests : k <= i
                        /\ s.status \in Terminal /\ Agent \notin s.writers =>
                             /\ s.calls[i].status = "pending" <=> ~Matchable(i)
                             /\ s.calls[i].status # "pending" /\ Unique(i)
                                  => TerminalOf(Trace(log), log[i].id) \in OutcomesOf(i)
    BY DEF CallsAreSettled
  <1>2. SnapshotFits(s)
    BY SnapshotsTell
  <1>3. s.calls[i].status = "pending" /\ Matchable(i)
           => \A k \in DOMAIN s.calls \cap Requests : k <= i
    BY <1>2 DEF SnapshotFits, LastPending
  <1>4. ASSUME s.status \in Terminal, Agent \notin s.writers
        PROVE  /\ s.calls[i].status = "pending" <=> ~Matchable(i)
               /\ s.calls[i].status # "pending" /\ Unique(i)
                    => TerminalOf(Trace(log), log[i].id) \in OutcomesOf(i)
    <2>1. ~Busy(Agent) /\ s.calls = ToolCallSequence(Trace(log))
      BY <1>2, <1>4 DEF SnapshotFits
    <2>2. call.pc \notin Open
      BY <2>1 DEF TraceInv, LogInv, LoopAtCall, Looping, Busy
    <2>3. i \in DOMAIN ToolCallSequence(Trace(log)) \cap Requests
      BY <2>1
    <2> QED
      BY <2>1, <2>2, <2>3, CallTells DEF TraceInv
  <1> QED
    BY <1>3, <1>4

LEMMA InvIsWhole ==
  ASSUME TraceInv
  PROVE  TraceIsWhole
  <1>1. LogTyped /\ ViewTyped /\ SnapshotsFit
    BY DEF TraceInv, LogInv, ViewInv
  <1>2. \A s \in ToSet(snapshots) :
          \A i \in DOMAIN s.calls : s.calls[i].status \in {"pending", "completed", "failed"}
    BY SnapshotsTell DEF SnapshotFits
  <1>3. TraceTypeOK
    <2>1. /\ call.pc \in {"none", "requested", "executed", "refused", "submitted"}
          /\ call.id \in CallIds \cup {NoId} /\ call.payload \in Payloads \cup {NoCall.payload}
      BY <1>1 DEF LogTyped
    <2> QED
      BY <1>1, <1>2, <2>1 DEF TraceTypeOK, LogTyped, ViewTyped, AtType
  <1> QED
    BY <1>1, <1>3, WholeWhenEnded, ProtectedIsKept, CallsSettled DEF TraceIsWhole, SnapshotsFit

(* However the reads of a builder, the commits of the loop and those of    *)
(* the clients' test requests fall: the snapshot of an ended run holds all *)
(* that those had done who were no longer at work, no call but the last    *)
(* one is pending, what is protected is shown nowhere, and snapshots       *)
(* between which nothing was written have one checksum (run_traces,        *)
(* replay_snapshots).                                                      *)
THEOREM TraceWhole ==
  ASSUME TraceAssumption
  PROVE  TraceSpec => []TraceIsWhole
  <1>1. TraceInv => TraceIsWhole
    BY InvIsWhole
  <1> QED
    BY <1>1, TraceInductive, PTL

==============================================================================

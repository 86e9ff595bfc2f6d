---------------------------- MODULE ModelComparison ----------------------------
(***************************************************************************)
(* ModelComparisonService (agents/comparison.py): one request runs several *)
(* models on one benchmark task, one after the other, each behind a        *)
(* failure boundary of its own, and ranks what has passed.                 *)
(*                                                                         *)
(* A run is represented by its position in the roster.  What start_run and *)
(* evaluate do is in RunLifecycle; here they are the commits by which a    *)
(* reader of the comparison sees them.                                     *)
(***************************************************************************)
EXTENDS Integers, Sequences, FiniteSets, FiniteSetsExt

CONSTANTS
  Models,    \* positions in the roster, 1..n
  Name,      \* rank of (provider, model, run id) in the order of strings
  Metrics,   \* metrics an evaluation may compute, see MetricType
  Unknown    \* SQL's NULL

Worst == 1000  \* float("inf")

Counts == Nat \cup {Unknown}

MetricType == [passed : BOOLEAN, applied : BOOLEAN, localization : Counts,
               unrelated : Counts, modified : Counts, cost : Counts, time : Counts]

ComparisonAssumption ==
  /\ IsFiniteSet(Models) /\ Cardinality(Models) >= 2 /\ Models = 1..Cardinality(Models)
  /\ Name \in [Models -> Nat] /\ \A m, n \in Models : Name[m] = Name[n] => m = n
  /\ Metrics \subseteq MetricType /\ Unknown \notin Nat
  /\ \A x \in Metrics : {x.localization, x.unrelated, x.modified, x.cost, x.time}
                          \subseteq (0..(Worst - 1)) \cup {Unknown}

VARIABLES
  place,     \* where the request is
  at,        \* the model being run
  ready,     \* status of the benchmark task is "ready"
  status,    \* status of each run's row
  metric,    \* its evaluation_metrics row, or Unknown
  explained, \* it has a failure classification
  finished,  \* status in its finished event, or Unknown
  reason,    \* failure_reason of the run being executed is set
  answer     \* status of the answer to the request, or Unknown

comparisonVars == <<place, at, ready, status, metric, explained, finished, reason, answer>>

Statuses == {"queued", "running", "completed", "failed"}
Ended == {"completed", "failed"}

ComparisonStatus(rows) ==
  LET seen == {rows[m] : m \in Models} IN
  CASE seen = {"queued"}                    -> "queued"
    [] seen \cap {"queued", "running"} # {} /\ seen # {"queued"} -> "running"
    [] seen = {"completed"}                 -> "completed"
    [] OTHER -> IF "completed" \in seen THEN "partial_failure" ELSE "failed"

ComparisonTypeOK ==
  /\ place \in {"idle", "start", "run", "evaluate", "finish", "read", "done"}
  /\ at \in Models
  /\ ready \in BOOLEAN
  /\ status \in [Models -> Statuses \cup {"none"}]
  /\ metric \in [Models -> Metrics \cup {Unknown}]
  /\ explained \in [Models -> BOOLEAN]
  /\ finished \in [Models -> Ended \cup {Unknown}]
  /\ reason \in BOOLEAN
  /\ answer \in {"not ready", "completed", "partial_failure", "failed", Unknown}

ComparisonInit ==
  /\ place = "idle" /\ at = 1 /\ ready \in BOOLEAN
  /\ status = [m \in Models |-> "none"]
  /\ metric = [m \in Models |-> Unknown]
  /\ explained = [m \in Models |-> FALSE]
  /\ finished = [m \in Models |-> Unknown]
  /\ reason = FALSE /\ answer = Unknown

-----------------------------------------------------------------------------
(* The request *)

Refuse ==
  /\ place = "idle" /\ ~ready
  /\ place' = "done" /\ answer' = "not ready"
  /\ UNCHANGED <<at, ready, status, metric, explained, finished, reason>>

(* The whole roster is committed before the first model runs. *)
Enlist ==
  /\ place = "idle" /\ ready
  /\ place' = "start"
  /\ status' = [m \in Models |-> "queued"]
  /\ UNCHANGED <<at, ready, metric, explained, finished, reason, answer>>

Announce ==
  /\ place = "start"
  /\ place' = "run" /\ reason' = FALSE
  /\ UNCHANGED <<at, ready, status, metric, explained, finished, answer>>

FailRun(m) ==
  /\ status' = [status EXCEPT ![m] = "failed"]
  /\ explained' = [explained EXCEPT ![m] = TRUE]

Begin ==
  /\ place = "run" /\ ready /\ status[at] = "queued"
  /\ status' = [status EXCEPT ![at] = "running"]
  /\ UNCHANGED <<place, at, ready, metric, explained, finished, reason, answer>>

(* start_run commits that the run is completed, then what evaluate has     *)
(* computed of it; readiness and events come after that.                   *)
Complete ==
  /\ place = "run" /\ status[at] = "running"
  /\ status' = [status EXCEPT ![at] = "completed"]
  /\ UNCHANGED <<place, at, ready, metric, explained, finished, reason, answer>>

Evaluate ==
  /\ place = "run" /\ status[at] = "completed" /\ metric[at] = Unknown
  /\ \E row \in Metrics : metric' = [metric EXCEPT ![at] = row]
  /\ UNCHANGED <<place, at, ready, status, explained, finished, reason, answer>>

Return ==
  /\ place = "run" /\ status[at] = "completed" /\ metric[at] # Unknown
  /\ place' = "evaluate"
  /\ UNCHANGED <<at, ready, status, metric, explained, finished, reason, answer>>

(* An exception that start_run handles, which may come after any of these  *)
(* commits, marks the run failed and classifies it.  A run with a final    *)
(* patch is evaluated (again, of the same rows and events; only the time   *)
(* is another), unless that is refused.                                    *)
HandleFailure ==
  /\ place = "run" /\ status[at] \in {"running", "completed"}
  /\ status' = [status EXCEPT ![at] = "failed"] /\ reason' = TRUE
  /\ UNCHANGED <<place, at, ready, metric, explained, finished, answer>>

Classify ==
  /\ place = "run" /\ status[at] = "failed" /\ ~explained[at]
  /\ explained' = [explained EXCEPT ![at] = TRUE]
  /\ UNCHANGED <<place, at, ready, status, metric, finished, reason, answer>>

Recomputed(old) ==
  {row \in Metrics : old = Unknown \/ row = [old EXCEPT !.time = row.time]}

ReturnFailed ==
  /\ place = "run" /\ status[at] = "failed" /\ explained[at]
  /\ \/ UNCHANGED metric
     \/ \E row \in Recomputed(metric[at]) : metric' = [metric EXCEPT ![at] = row]
  /\ place' = "evaluate"
  /\ UNCHANGED <<at, ready, status, explained, finished, reason, answer>>

(* start_run refuses (provider not configured, task no longer ready) or an *)
(* exception leaves it at any later point; only what it has committed      *)
(* survives.                                                               *)
Raise ==
  /\ place = "run"
  /\ FailRun(at)
  /\ reason' = TRUE /\ place' = "evaluate"
  /\ UNCHANGED <<at, ready, metric, finished, answer>>

KeepMetric ==
  /\ place = "evaluate" /\ metric[at] # Unknown
  /\ place' = "finish"
  /\ UNCHANGED <<at, ready, status, metric, explained, finished, reason, answer>>

EvaluateFailed ==
  /\ place = "evaluate" /\ metric[at] = Unknown
  /\ \E row \in Metrics : metric' = [metric EXCEPT ![at] = row]
  /\ place' = "finish"
  /\ UNCHANGED <<at, ready, status, explained, finished, reason, answer>>

(* The metric is committed before readiness is refreshed, so it may be     *)
(* there although evaluate has raised.                                     *)
EvaluationRaises ==
  /\ place = "evaluate" /\ metric[at] = Unknown
  /\ \E row \in Metrics \cup {Unknown} : metric' = [metric EXCEPT ![at] = row]
  /\ FailRun(at)
  /\ reason' = TRUE /\ place' = "finish"
  /\ UNCHANGED <<at, ready, finished, answer>>

FinishModel ==
  /\ place = "finish"
  /\ finished' = [finished EXCEPT ![at] = status[at]]
  /\ IF at + 1 \in Models THEN at' = at + 1 /\ place' = "start"
                          ELSE UNCHANGED at /\ place' = "read"
  /\ UNCHANGED <<ready, status, metric, explained, reason, answer>>

Reply ==
  /\ place = "read"
  /\ answer' = ComparisonStatus(status) /\ place' = "done"
  /\ UNCHANGED <<at, ready, status, metric, explained, finished, reason>>

(* Another request edits the task. *)
EditTask ==
  /\ place # "done"
  /\ ready' = ~ready
  /\ UNCHANGED <<place, at, status, metric, explained, finished, reason, answer>>

ComparisonEnded == place = "done" /\ UNCHANGED comparisonVars

InStartRun == Begin \/ Complete \/ Evaluate \/ Return
              \/ HandleFailure \/ Classify \/ ReturnFailed \/ Raise
Execute == Announce \/ InStartRun \/ KeepMetric \/ EvaluateFailed \/ EvaluationRaises
           \/ FinishModel \/ Reply

ComparisonNext == Refuse \/ Enlist \/ Execute \/ EditTask \/ ComparisonEnded

(* The request runs in one thread, which calls nothing that blocks for ever*)
(* (commands and model calls have timeouts).                               *)
ComparisonSpec == ComparisonInit /\ [][ComparisonNext]_comparisonVars /\ WF_comparisonVars(Execute)

-----------------------------------------------------------------------------
(* calculate_aggregates, as a GET computes them at any time *)

Passing == {m \in Models : /\ status[m] = "completed"
                           /\ metric[m] # Unknown /\ metric[m].passed /\ metric[m].applied}

OrWorst(x) == IF x = Unknown THEN Worst ELSE x
OrZero(x) == IF x = Unknown THEN 0 ELSE x

(* Mutant: what is unknown counts as zero. *)
BestKeyUnknownFirst(m) ==
  << -OrZero(metric[m].localization), OrZero(metric[m].unrelated),
     OrZero(metric[m].modified), OrZero(metric[m].cost), OrZero(metric[m].time), Name[m] >>

BestKey(m) ==
  << -OrZero(metric[m].localization), OrWorst(metric[m].unrelated),
     OrWorst(metric[m].modified), OrWorst(metric[m].cost), OrWorst(metric[m].time),
     Name[m] >>

Before(k, l) == \E i \in DOMAIN k : k[i] < l[i] /\ \A j \in 1..(i - 1) : k[j] = l[j]

Winner(candidates, Key(_)) ==
  {m \in candidates : \A n \in candidates \ {m} : Before(Key(m), Key(n))}

BestPassing == Winner(Passing, BestKey)

CostKey(m) == <<metric[m].cost>> \o BestKey(m)
TimeKey(m) == <<metric[m].time>> \o BestKey(m)

LowestCost == Winner({m \in Passing : metric[m].cost # Unknown}, CostKey)
Fastest == Winner({m \in Passing : metric[m].time # Unknown}, TimeKey)

TotalCost == MapThenSumSet(LAMBDA m : IF metric[m] = Unknown THEN 0 ELSE OrZero(metric[m].cost),
                           Models)

-----------------------------------------------------------------------------
(* The request answers only when every run of the roster has ended, has    *)
(* announced the status its row shows, has been evaluated or failed, and a *)
(* failed one is classified: no failure leaves later models behind.        *)
AnsweredIsSettled ==
  answer \notin {Unknown, "not ready"} =>
    \A m \in Models :
      /\ status[m] \in Ended /\ finished[m] = status[m]
      /\ status[m] = "failed" => explained[m]
      /\ metric[m] = Unknown => status[m] = "failed"

(* At most one run is under way, those before it are finished and those    *)
(* after it untouched: runs are sequential and independent.                *)
InRosterOrder ==
  place \notin {"idle", "done", "read"} =>
    \A m \in Models :
      /\ m < at => status[m] \in Ended /\ finished[m] = status[m]
      /\ m > at => status[m] = "queued" /\ metric[m] = Unknown /\ ~explained[m]

(* What a model has achieved is never changed by the fate of a later one.  *)
KeepsFinished ==
  \A m \in Models : finished[m] # Unknown =>
    /\ status'[m] = status[m] /\ metric'[m] = metric[m]
    /\ explained'[m] = explained[m] /\ finished'[m] = finished[m]

(* The run shown as the best has passed, and no other passing run is at    *)
(* least as good in every respect and better in one, where what is unknown *)
(* is never taken for better than what is known.                           *)
AtLeast(x, y) == y = Unknown \/ (x # Unknown /\ x <= y)
Dominates(m, n) ==
  LET a == metric[m]  b == metric[n] IN
  /\ OrZero(a.localization) >= OrZero(b.localization)
  /\ AtLeast(a.unrelated, b.unrelated) /\ AtLeast(a.modified, b.modified)
  /\ AtLeast(a.cost, b.cost) /\ AtLeast(a.time, b.time)
  /\ [a EXCEPT !.localization = OrZero(@)] # [b EXCEPT !.localization = OrZero(@)]

BestIsUndominated ==
  \A m \in BestPassing :
    /\ status[m] = "completed" /\ metric[m].passed
    /\ ~\E n \in Passing : Dominates(n, m)

(* Nobody who has passed is cheaper than the cheapest, no one as cheap is  *)
(* a better patch, and there is exactly one winner when there is a choice. *)
CheapestIsCheapest ==
  LET known == {m \in Passing : metric[m].cost # Unknown} IN
  /\ known # {} => Cardinality(LowestCost) = 1
  /\ \A m \in LowestCost, n \in known :
       /\ metric[m].cost <= metric[n].cost
       /\ metric[m].cost = metric[n].cost => ~Dominates(n, m)

(* The models of a comparison run one after the other, each to an end that *)
(* is explained, and awards go to the best among those that passed         *)
(* (agents/comparison.py).                                                 *)
ComparisonIsFair ==
  /\ ComparisonTypeOK /\ AnsweredIsSettled /\ InRosterOrder
  /\ BestIsUndominated /\ CheapestIsCheapest

(* An award that has been shown is lost only to a run that has passed      *)
(* since, or when its own run, which has not finished, is marked failed    *)
(* although it was completed and evaluated: no other step of the           *)
(* comparison takes it away.                                               *)
Kept(award, next) ==
  \/ award \subseteq next
  \/ next \subseteq Passing' \ Passing
  \/ award \subseteq Passing \ Passing'

AwardsStay ==
  /\ Kept(BestPassing, BestPassing') /\ Kept(LowestCost, LowestCost') /\ Kept(Fastest, Fastest')
  /\ \A m \in Passing \ Passing' : m = at /\ finished[m] = Unknown /\ status'[m] = "failed"
  /\ BestPassing # {} => BestPassing' # {} \/ Passing' = {}

(* Nor does a later model make the comparison cheaper.                     *)
KeepsAwards == AwardsStay /\ TotalCost <= TotalCost'

(* Neither results nor awards are taken back (agents/comparison.py).       *)
ResultsStand == [][KeepsFinished /\ AwardsStay]_comparisonVars

(* A request that has begun is answered, whatever its models do and even   *)
(* when its task is edited under way.                                      *)
EventuallyAnswered == place # "idle" ~> answer # Unknown
=============================================================================

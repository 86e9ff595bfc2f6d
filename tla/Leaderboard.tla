------------------------------- MODULE Leaderboard -------------------------------
(***************************************************************************)
(* GET /analytics/summary, by-repository, by-pack and model-leaderboard    *)
(* (analytics/service.py): what the runs came to, by where they ran and by *)
(* which model, asked for at any time while runs start, end, are evaluated *)
(* and reviewed.  Rates and scores are in millionths, costs in cents and   *)
(* localization in percent.                                                *)
(***************************************************************************)
EXTENDS Integers, Sequences, FiniteSets, TLC, SequencesExt, FiniteSetsExt

CONSTANTS
  Runs, Packs,
  ModelOf,      \* provider and name of a run's model, compared exactly
  NameKey,      \* where a model stands in the alphabet, the case of its letters apart
  RepoOf,       \* the repository of a run's task
  Outcomes,     \* what an evaluation can measure
  Null,         \* no metric, no pack, no filter, no rate
  MinRuns,      \* of a model in the leaderboard
  MaxReviews    \* of all runs, bound of the model

Million == 1000000
Models == {ModelOf[r] : r \in Runs}

LeaderboardAssumption ==
  /\ IsFiniteSet(Runs) /\ MinRuns \in Nat \ {0} /\ Null \notin Packs /\ Null \notin Outcomes
  /\ DOMAIN NameKey = Models /\ DOMAIN RepoOf = Runs
  /\ \A o \in Outcomes :
       /\ o.resolved <=> o.visible /\ o.hidden # "failed"   \* EvaluationService.evaluate
       /\ o.localization \in (0..100) \cup {Null} /\ o.time \in Nat \cup {Null}
       /\ {o.cost, o.tokens, o.unrelated} \subseteq Nat

VARIABLES
  rows,     \* the runs in the order of started_at
  status,   \* of each run
  metric,   \* EvaluationMetric of a run
  packOf,   \* the pack whose run a run belongs to
  reviews   \* of the patches of a run: decisions in the order they were made

vars == <<rows, status, metric, packOf, reviews>>

-----------------------------------------------------------------------------
(* _load_runs *)
NoFilter == [repository |-> Null, model |-> Null, pack |-> Null]
Load(f) ==
  {r \in ToSet(rows) : /\ f.repository \in {Null, RepoOf[r]}
                       /\ f.model = Null \/ f.model = ModelOf[r]
                       /\ f.pack \in {Null, packOf[r]}}

(* _rate and _average, 0 for nothing. *)
Rate(part, whole) == IF whole = {} THEN 0 ELSE (Million * Cardinality(part)) \div Cardinality(whole)
Average(rs, Value(_)) ==
  LET present == {r \in rs : Value(r) # Null}
  IN  IF present = {} THEN 0
      ELSE (Million * MapThenSumSet(Value, present)) \div Cardinality(present)

Decided(rs, decision) ==
  MapThenSumSet(LAMBDA r : Len(SelectSeq(reviews[r], LAMBDA d : d = decision)), rs)

(* _aggregate *)
Aggregate(rs) ==
  LET evaluated == {r \in rs : metric[r] # Null}
      hidden == {r \in evaluated : metric[r].hidden # "none"}
      cost == MapThenSumSet(LAMBDA r : metric[r].cost, evaluated)
  IN  [ total |-> Cardinality(rs),
        completed |-> Cardinality({r \in rs : status[r] = "completed"}),
        failed |-> Cardinality({r \in rs : status[r] = "failed"}),
        approved |-> Decided(rs, "approved"),
        rejected |-> Decided(rs, "rejected"),
        visible |-> Rate({r \in evaluated : metric[r].visible}, evaluated),
        hidden |-> IF hidden = {} THEN Null
                   ELSE Rate({r \in hidden : metric[r].hidden = "passed"}, hidden),
        resolved |-> Rate({r \in evaluated : metric[r].resolved}, evaluated),
        localization |-> Average(evaluated, LAMBDA r : metric[r].localization),
        unrelated |-> Average(evaluated, LAMBDA r : metric[r].unrelated),
        time |-> Average(evaluated, LAMBDA r : metric[r].time),
        tokens |-> MapThenSumSet(LAMBDA r : metric[r].tokens, evaluated),
        cost |-> cost,
        perRun |-> IF rs = {} THEN 0 ELSE (Million * cost) \div Cardinality(rs) ]

ByRepository(f) ==
  [p \in {RepoOf[r] : r \in Load(f)} |-> Aggregate({r \in Load(f) : RepoOf[r] = p})]
ByPack(f) ==
  [p \in {packOf[r] : r \in Load(f)} \ {Null} |-> Aggregate({r \in Load(f) : packOf[r] = p})]

-----------------------------------------------------------------------------
(* _composite_score.                                                       *)
Capped(value, cap) == Min({value, cap})
Performance(s) ==
  ( 55 * s.resolved + 15 * s.visible + 10 * (IF s.hidden = Null THEN 0 ELSE s.hidden)
    + 20 * (s.localization \div 100) ) \div 100
Penalties(s) ==
  ( 4 * (Capped(s.perRun, 100 * Million) \div 100) + 3 * (Capped(s.time, 600 * Million) \div 600)
    + 3 * (Capped(s.unrelated, 5 * Million) \div 5) ) \div 100
Composite(s) == Max({0, Performance(s) - Penalties(s)})

(* The runs of a row.  Mutant: of any model of its provider. *)
OfProvider(m) ==
  {r \in Load(NoFilter) : ModelOf[r][1] = m[1] /\ \E q \in ToSet(rows) : ModelOf[q] = m}
OfModel(m) == {r \in Load(NoFilter) : ModelOf[r] = m}

FirstRow(m) == Min({i \in DOMAIN rows : ModelOf[rows[i]] = m})

(* _leaderboard_row; the key the rows are sorted by, those it does not     *)
(* tell apart in the order of their first runs.                            *)
SortKey(m, s) == << -Composite(s), -s.resolved, s.perRun, NameKey[m], FirstRow(m) >>
Summaries ==
  {[model |-> m, summary |-> Aggregate(OfModel(m))] :
     m \in {m \in Models : Cardinality(OfModel(m)) >= MinRuns}}
Leaderboard ==
  {[model |-> a.model, summary |-> a.summary, key |-> SortKey(a.model, a.summary)] : a \in Summaries}
Above(k, l) == \E i \in DOMAIN k : k[i] < l[i] /\ \A j \in 1..(i - 1) : k[j] = l[j]

(* What a row is ranked by, the greater the better.                        *)
Values(s) ==
  [issue |-> s.resolved, cost |-> -s.perRun, speed |-> -s.time, localization |-> s.localization]

(* _assign_competition_ranks walks the rows from the best.                 *)
Ranks(values) ==
  LET order == SortSeq(values, >)
      rank[i \in DOMAIN order] == IF i > 1 /\ order[i] = order[i - 1] THEN rank[i - 1] ELSE i
  IN  [i \in DOMAIN order |-> <<order[i], rank[i]>>]

-----------------------------------------------------------------------------
TypeOK ==
  /\ ToSet(rows) \subseteq Runs /\ IsInjective(rows)
  /\ \A r \in Runs :
       /\ status[r] \in {"queued", "running", "completed", "failed"}
       /\ metric[r] \in Outcomes \cup {Null} /\ packOf[r] \in Packs \cup {Null}
       /\ metric[r] # Null => status[r] \in {"completed", "failed"}
       /\ r \notin ToSet(rows) => status[r] = "queued" /\ reviews[r] = <<>> /\ packOf[r] = Null

Init ==
  /\ rows = <<>> /\ status = [r \in Runs |-> "queued"] /\ metric = [r \in Runs |-> Null]
  /\ packOf = [r \in Runs |-> Null] /\ reviews = [r \in Runs |-> <<>>]

Create(r, pack) ==
  /\ r \notin ToSet(rows)
  /\ rows' = Append(rows, r) /\ packOf' = [packOf EXCEPT ![r] = pack]
  /\ UNCHANGED <<status, metric, reviews>>

(* A run that starts gets a new started_at, later than every other.        *)
Start(r) ==
  /\ r \in ToSet(rows) /\ status[r] = "queued"
  /\ status' = [status EXCEPT ![r] = "running"]
  /\ rows' = Append(SelectSeq(rows, LAMBDA q : q # r), r)
  /\ UNCHANGED <<metric, packOf, reviews>>

Finish(r, result) ==
  /\ r \in ToSet(rows)
  /\ status[r] = "running" \/ (status[r] = "queued" /\ result = "failed")
  /\ status' = [status EXCEPT ![r] = result]
  /\ UNCHANGED <<rows, metric, packOf, reviews>>

(* Metrics come after the status, may never come, and are replaced when a  *)
(* run is evaluated again.                                                 *)
Evaluate(r, o) ==
  /\ status[r] \in {"completed", "failed"}
  /\ metric' = [metric EXCEPT ![r] = o]
  /\ UNCHANGED <<rows, status, packOf, reviews>>

Review(r, decision) ==
  /\ status[r] # "queued"
  /\ MapThenSumSet(LAMBDA q : Len(reviews[q]), Runs) < MaxReviews
  /\ reviews' = [reviews EXCEPT ![r] = Append(@, decision)]
  /\ UNCHANGED <<rows, status, metric, packOf>>

Next ==
  \E r \in Runs :
    \/ \E pack \in Packs \cup {Null} : Create(r, pack)
    \/ Start(r)
    \/ \E result \in {"completed", "failed"} : Finish(r, result)
    \/ \E o \in Outcomes : Evaluate(r, o)
    \/ \E decision \in {"approved", "rejected"} : Review(r, decision)

Spec == Init /\ [][Next]_vars

-----------------------------------------------------------------------------
(* Properties *)

(* What the repositories and the models came to adds up to what all runs   *)
(* came to, and the row of a pack or a repository is the summary asked for *)
(* with that filter (by_repository, by_pack, _load_runs).                  *)
PartsAddUp ==
  LET all == Aggregate(Load(NoFilter))
      repos == ByRepository(NoFilter)
      packs == ByPack(NoFilter)
      PerRepo(Of(_)) == MapThenSumSet(LAMBDA p : Of(repos[p]), DOMAIN repos)
      PerModel(Of(_)) == MapThenSumSet(LAMBDA m : Of(Aggregate(OfModel(m))), Models)
      Fits(Of(_)) == PerRepo(Of) = Of(all) /\ PerModel(Of) = Of(all)
  IN  /\ Fits(LAMBDA s : s.total) /\ Fits(LAMBDA s : s.cost) /\ Fits(LAMBDA s : s.tokens)
      /\ Fits(LAMBDA s : s.completed + s.failed) /\ Fits(LAMBDA s : s.approved)
      /\ \A p \in DOMAIN repos :
           repos[p] = Aggregate(Load([NoFilter EXCEPT !.repository = p]))
      /\ \A p \in Packs : LET filter == [NoFilter EXCEPT !.pack = p]
                          IN  IF p \in DOMAIN packs
                              THEN packs[p] = Aggregate(Load(filter)) /\ ByPack(filter)[p] = packs[p]
                              ELSE Load(filter) = {}

(* "Exact ties share a rank and the next position is skipped": a rank is   *)
(* one more than the rows strictly better.                                 *)
RanksAreCompetition ==
  LET board == SetToSeq(Leaderboard)
  IN  \A field \in {"issue", "cost", "speed", "localization"} :
        LET values == [i \in DOMAIN board |-> Values(board[i].summary)[field]]
        IN  \A ranked \in ToSet(Ranks(values)) :
              ranked[2] = 1 + Cardinality({i \in DOMAIN values : values[i] > ranked[1]})

(* Performance is "the primary signal": a model that resolved every issue  *)
(* it was evaluated on stands above one that resolved none, whatever both  *)
(* cost, how long they took and which files they found.                    *)
ResolvingWins ==
  LET board == Leaderboard
  IN  \A a, b \in board :
        (a.summary.resolved = Million /\ b.summary.resolved = 0) => Above(a.key, b.key)

(* The rows of some models and which of them stand above which.            *)
Standings(models) ==
  LET board == {a \in Leaderboard : a.model \in models}
  IN  [ rows |-> {<<a.model, a.summary>> : a \in board},
        above |-> {<<p[1].model, p[2].model>> :
                     p \in {p \in board \X board : Above(p[1].key, p[2].key)}} ]

(* A step of one model's run changes neither the row of another model nor  *)
(* how two others compare: pairs are grouped exactly.                      *)
KeepsOthers ==
  \A m \in Models :
    (\A r \in Runs : ModelOf[r] # m =>
         /\ UNCHANGED <<status[r], metric[r], reviews[r]>>
         /\ (r \in ToSet(rows)) = (r \in ToSet(rows)'))
    => UNCHANGED Standings(Models \ {m})
=============================================================================

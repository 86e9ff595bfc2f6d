-------------------------------- MODULE MCReports ---------------------------
(* The components that tell what runs have come to: the readiness of a     *)
(* patch for review and traces with replay snapshots, which this module    *)
(* extends, and instances of the analytics of tools, repairs and files and *)
(* of the leaderboard. A behaviour is one of one of them; traces are once  *)
(* of two calls, once of a call while a client's request ends the run, and *)
(* once of test phases; localization and the leaderboard have two          *)
(* instances each.                                                         *)
EXTENDS PatchReview, RunTrace, Integers, TLC

CONSTANTS
  r1, r2, Unknown, Null

(* Reviewers differ in nothing but their names.                            *)
Reviewers == {r1, r2}
Symmetric == Permutations(Reviewers)

(* Payloads of tool calls and results.                                     *)
SomePayloads == { [keys |-> {"detail", "secret", "content", "path", "gold"}, large |-> FALSE],
                  [keys |-> {"detail"}, large |-> TRUE] }

(* Two models, one with two runs, in two repositories; and three, of which *)
(* two are alike but for the case of their names.                          *)
Entrants == {"r1", "r2", "r3"}
TwoModels == [r \in Entrants |-> IF r = "r3" THEN <<"p", "y">> ELSE <<"p", "x">>]
ThreeModels == [r \in Entrants |-> CASE r = "r1" -> <<"p", "x">> [] r = "r2" -> <<"p", "X">>
                                     [] r = "r3" -> <<"q", "y">>]
Alphabet(models) == [m \in models |-> IF m[2] = "y" THEN 2 ELSE 1]
TwoRepos == [r \in Entrants |-> IF r = "r1" THEN "left" ELSE "right"]

Outcome(resolved, visible, hidden, localization, time, unrelated, cost) ==
  [resolved |-> resolved, visible |-> visible, hidden |-> hidden, localization |-> localization,
   time |-> time, unrelated |-> unrelated, cost |-> cost, tokens |-> 10 * cost]

(* A run whose time was not measured; others are not evaluated at all.     *)
Usual == { Outcome(TRUE, TRUE, "passed", 50, Null, 0, 10) }

(* The worst run that resolves its issue and the best that does not.       *)
Extremes == { Outcome(TRUE, TRUE, "none", 0, 900, 7, 300),
              Outcome(FALSE, TRUE, "failed", 100, 1, 0, 0) }

(* A path whose prefix is dropped; runs that share a gold file.            *)
OneGold == [r \in {"r1"} |-> { <<".", "x">> }]
SharedGold == [r \in {"r1", "r2"} |-> IF r = "r1" THEN { <<"a", "x">> }
                                      ELSE { <<"a", "x">>, <<"b", "y">> }]

-----------------------------------------------------------------------------
VARIABLES
  part,   \* the component at work, for good
  usageEvents, usageCall, made,
  limit, verdicts, phase, fatal, choice, result, runs,
  tests, outside, given, picked, flag, answer, completed, evaluated,
  boardRows, boardStatus, boardMetric, packOf, reviews,
  searchEvents, searchPatch, searchFound, searchEdited,
  sharedEvents, sharedPatch, sharedFound, sharedEdited

Usage == INSTANCE ToolUsage WITH
  Runs <- {"r1", "s1"}, Scripted <- {"s1"},
  ModelOf <- [r \in {"r1", "s1"} |-> r], CallIds <- {"c1"},
  Tools <- {"read_file"}, MaxCalls <- 3, events <- usageEvents,
  call <- usageCall

Repairs == INSTANCE RepairOutcomes WITH
  Limits <- {2}, Models <- {"m1", "m2"}, MaxRuns <- 2, MaxGiven <- 1

Board == INSTANCE Leaderboard WITH
  Runs <- Entrants, Packs <- {"pack"}, ModelOf <- TwoModels,
  NameKey <- Alphabet({TwoModels[r] : r \in Entrants}), RepoOf <- TwoRepos,
  Outcomes <- Usual, MinRuns <- 2, MaxReviews <- 1, rows <- boardRows,
  status <- boardStatus, metric <- boardMetric

Ranks == INSTANCE Leaderboard WITH
  Runs <- Entrants, Packs <- {}, ModelOf <- ThreeModels,
  NameKey <- Alphabet({ThreeModels[r] : r \in Entrants}), RepoOf <- TwoRepos,
  Outcomes <- Extremes, MinRuns <- 1, MaxReviews <- 0, rows <- boardRows,
  status <- boardStatus, metric <- boardMetric

Search == INSTANCE FileLocalization WITH
  Runs <- {"r1"}, Files <- { <<"x">>, <<"a", "x">> }, GoldOf <- OneGold,
  MaxEvents <- 3, events <- searchEvents, patch <- searchPatch,
  found <- searchFound, edited <- searchEdited

Shared == INSTANCE FileLocalization WITH
  Runs <- {"r1", "r2"}, Files <- { <<"x">>, <<"y">> }, GoldOf <- SharedGold,
  MaxEvents <- 2, events <- sharedEvents, patch <- sharedPatch,
  found <- sharedFound, edited <- sharedEdited

usageVars ==
  <<usageEvents, usageCall, made>>
repairsVars ==
  <<limit, verdicts, phase, fatal, choice, result, runs, tests, outside, given, picked, flag,
    answer, completed, evaluated>>
boardVars ==
  <<boardRows, boardStatus, boardMetric, packOf, reviews>>
searchVars ==
  <<searchEvents, searchPatch, searchFound, searchEdited>>
sharedVars ==
  <<sharedEvents, sharedPatch, sharedFound, sharedEdited>>
reportsVars == <<part, vars, traceVars, usageVars, repairsVars, boardVars,
                 searchVars, sharedVars>>

ASSUME ReportsAssumption ==
  /\ PatchReviewAssumption
  /\ TraceAssumption
  /\ Usage!UsageAssumption
  /\ Repairs!OutcomesAssumption
  /\ Board!LeaderboardAssumption
  /\ Ranks!LeaderboardAssumption
  /\ Search!LocalizationAssumption
  /\ Shared!LocalizationAssumption

(* A component that is not at work rests in one of its initial states.     *)
ReportsInit ==
  /\ part \in {"review", "calls", "ended", "results", "usage", "repairs", "board",
               "ranks", "search", "shared"}
  /\ Init
  /\ versions = 1
  /\ part # "review" => /\ selected = 0
                        /\ ~failed
                        /\ review[1] = NoReview
                        /\ quality[1] = "unknown"
                        /\ metric = NoMetric
  /\ TraceInit
  /\ part \notin {"calls", "ended", "results"} => Looping
  /\ Usage!Init
  /\ Repairs!Init
  /\ IF part = "ranks" THEN Ranks!Init ELSE Board!Init
  /\ Search!Init
  /\ Shared!Init

Built == Len(snapshots) + IF view = NoView THEN 0 ELSE 1
Tests == Count("test_phase_completed") + Cardinality({w \in Writers : at[w].phase \in Phases})

OneSnapshot == Built <= 1
OneResponse == Count("model_call_completed") <= 1
NoPhase == Tests = 0

(* A call that can be matched, and a client that tests the patch; and the  *)
(* snapshots of runs that have ended.                                      *)
OneCall == Count("tool_call_requested") <= 1 /\ call.id = "c1" /\ ~call.payload.large
OnePhase == /\ Tests <= 1 /\ at[Agent].phase = "run" /\ at["t1"].phase \in {"run", "post_patch"}
            /\ at["t1"].pc # "refused"
OneEnding == /\ call # NoCall => OneCall
             /\ OnePhase /\ (view # NoView => view.status \in Terminal)

(* Two snapshots, the second one between the phases and not while a        *)
(* failure is recorded, or one of the end while two test the patch.        *)
FewTests ==
  /\ Built + Tests <= IF at["t1"].pc = "refused" THEN 1 ELSE 3
  /\ Built = 2 => at["t1"].pc = "away" /\ at[Agent].pc \in {"loop", "completed", "away"}
  /\ Tests = 2 => /\ \A w \in Writers : at[w].phase \in {"run", "post_patch"}
                  /\ view # NoView => view.status \in Terminal

(* A run whose patches clients store and test, or two no client touches,   *)
(* of which the first has been evaluated and has results where it must.    *)
OneTested == Cardinality({v \in DOMAIN outside : outside[v] # "none"}) <= 1
Untouched == given = 0 /\ outside = Repairs!Untested
Comparable(run) ==
  /\ run.given = 0 /\ run.answer = "none" /\ run.metric # "none" /\ run.model = "m1"
  /\ run.events # <<>>
  /\ \A i \in DOMAIN run.events :
       /\ run.events[i][2] = "other"
       /\ run.events[i][1] \in {"error", "invalid_patch"} => run.tests[i] = "none"
FewRepairs ==
  /\ OneTested
  /\ runs # <<>> => /\ Untouched
                    /\ Comparable(runs[1]) \/ (Len(runs) = 1 /\ verdicts = <<>> /\ phase = "open")

ReportsNext ==
  \/ /\ part = "review" /\ Next
     /\ UNCHANGED <<part, traceVars, usageVars, repairsVars, boardVars, searchVars, sharedVars>>
  \/ /\ part = "calls" /\ TraceNext /\ NoPhase' /\ rows' = <<>> /\ OneResponse' /\ OneSnapshot'
     /\ UNCHANGED <<part, vars, usageVars, repairsVars, boardVars, searchVars, sharedVars>>
  \/ /\ part = "ended" /\ TraceNext /\ OneEnding' /\ OneResponse' /\ OneSnapshot'
     /\ UNCHANGED <<part, vars, usageVars, repairsVars, boardVars, searchVars, sharedVars>>
  \/ /\ part = "results" /\ TraceNext /\ Count("model_call_completed")' = 0 /\ FewTests'
     /\ UNCHANGED <<part, vars, usageVars, repairsVars, boardVars, searchVars, sharedVars>>
  \/ /\ part = "usage" /\ Usage!Next
     /\ UNCHANGED <<part, vars, traceVars, repairsVars, boardVars, searchVars, sharedVars>>
  \/ /\ part = "repairs" /\ Repairs!Next /\ FewRepairs'
     /\ UNCHANGED <<part, vars, traceVars, usageVars, boardVars, searchVars, sharedVars>>
  \/ /\ part = "board" /\ Board!Next
     /\ UNCHANGED <<part, vars, traceVars, usageVars, repairsVars, searchVars, sharedVars>>
  \/ /\ part = "ranks" /\ Ranks!Next
     /\ UNCHANGED <<part, vars, traceVars, usageVars, repairsVars, searchVars, sharedVars>>
  \/ /\ part = "search" /\ Search!Next
     /\ UNCHANGED <<part, vars, traceVars, usageVars, repairsVars, boardVars, sharedVars>>
  \/ /\ part = "shared" /\ Shared!Next
     /\ UNCHANGED <<part, vars, traceVars, usageVars, repairsVars, boardVars, searchVars>>
  \* These may come to their bounds.
  \/ part \in {"calls", "ended", "results", "repairs", "board", "ranks"} /\ UNCHANGED reportsVars

ReportsSpec == ReportsInit /\ [][ReportsNext]_reportsVars

-----------------------------------------------------------------------------

(* What has been reported stays: reviews without update_existing, the rows *)
(* of other models on the leaderboard, and what was found before the first *)
(* edit; events missing from an old run invent no success.                 *)
ShownResultsStand ==
  /\ ReviewsAreNotReplaced
  /\ [][/\ part = "ranks" => Ranks!KeepsOthers
        /\ part = "search" => Search!KeepsFindings]_reportsVars
  /\ [](part = "repairs" => Repairs!LegacyAgrees)

-----------------------------------------------------------------------------
(* Statements of the documentation that the code does not keep             *)
(* (FailedCallsAreShown of RunTrace is another one).                       *)

(* docs/analytics.md: a request is matched to its final event.             *)
FinalOutcomeCounts == part = "usage" => Usage!FinalOutcomeCounts

(* docs/analytics.md: a repair succeeded if the selected patch passed; a   *)
(* run with repairs made more than one submission.                         *)
SelectedPatchPassed == part = "repairs" => Repairs!SelectedPatchPassed
RepairsAreSubmissions == part = "repairs" => Repairs!RepairsAreSubmissions

=============================================================================

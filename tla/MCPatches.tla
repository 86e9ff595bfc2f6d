-------------------------------- MODULE MCPatches ---------------------------
(* The components that keep, check and test patches: their versions in the *)
(* store, which this module extends, and instances of the policy in front  *)
(* of them and of the choice of their tests. A behaviour is one of one of  *)
(* them; the store is once at work with two clients and one edit, and once *)
(* with one client, two edits, files without a last newline and texts that *)
(* break the limits.                                                       *)
EXTENDS PatchStore

CONSTANTS
  NoPatch, Unmeasured

(* Files and patches for the policy: one file of each kind.                *)
SomeKinds ==
  [ calc |-> {"code"}, io |-> {"code"}, test |-> {"code", "test"}, readme |-> {"docs"},
    lock |-> {"config", "lock"}, setup |-> {"code", "config", "dependency"}, data |-> {},
    bundle |-> {"code", "generated"}, gold |-> {"protected"}, home |-> {"outside"} ]

Hunk(f, a, r) ==
  [ file |-> f, added |-> a, removed |-> r, hidden |-> 0, body |-> f, distinct |-> a,
    marked |-> FALSE, reformats |-> FALSE ]
Patch(fs, hs) == [files |-> fs, hunks |-> hs, bytes |-> 10, binary |-> FALSE]

Small == Patch({"calc"}, <<Hunk("calc", 10, 5)>>)
Broad == Patch({"calc", "io"},
               << [Hunk("calc", 90, 40) EXCEPT !.distinct = 9],
                  [Hunk("io", 5, 5) EXCEPT !.reformats = TRUE], Hunk("calc", 120, 5) >>)
Docs == Patch({"calc", "readme"}, <<Hunk("calc", 1, 1), Hunk("readme", 1, 0)>>)
OfKind(f) == Patch({f}, <<Hunk(f, 1, 0)>>)

Sql == Patch({"calc"}, <<[Hunk("calc", 100, 100) EXCEPT !.hidden = 150]>>)

SomePatches ==
  { Small, Sql, Broad, Docs, OfKind("lock"), OfKind("setup"), OfKind("bundle"),
    OfKind("gold"), OfKind("home"), [Small EXCEPT !.binary = TRUE],
    [Small EXCEPT !.bytes = 2000] }

Event(t, fs) == [type |-> t, files |-> fs, ok |-> TRUE]
SomeEvidence ==
  { Event("read", {"calc", "io"}), Event("candidates", {"calc", "io", "data"}),
    Event("write", {"calc"}), Event("plan", {"calc", "readme"}),
    [Event("plan", {"calc"}) EXCEPT !.ok = FALSE] }

SomePolicy ==
  [ bytes |-> 1000, pathLimit |-> 100, files |-> 2, lines |-> 240, locks |-> FALSE,
    dependencies |-> FALSE, inCandidates |-> TRUE, inPlan |-> FALSE, tests |-> TRUE,
    docs |-> FALSE, config |-> FALSE ]

(* Paths and commands for the choice of tests.                             *)
Path(d, b, a, e) == [dir |-> d, base |-> b, affix |-> a, ext |-> e, chars |-> "plain"]
Calc == Path("src", "calc", "", ".py")
CalcTest == Path("tests", "calc", "test_", ".py")
CalcSpec == Path("web", "calc", ".test", ".js")
IoTest == Path("tests", "io", "test_", ".py")
OddTest == [Path("tests", "odd", "test_", ".py") EXCEPT !.chars = "odd"]
GoldTest == Path("tests", "gold", "test_", ".py")
Unsafe == [IoTest EXCEPT !.chars = "unsafe"]

Command(r, ts) == [runner |-> r, targets |-> ts]
(* "npm test" names the directory "test" by its own second word.           *)
Npm == Command("npm", {Path("test", "*", "", "")})
Suite ==
  << Command("make", {}), Command("pytest", {IoTest}), Command("pytest", {GoldTest}),
     Command("pytest", {}), Npm >>

SomeChanges == { <<Calc>>, <<CalcTest, Unsafe, CalcSpec>>, <<Calc, OddTest, CalcSpec>> }

-----------------------------------------------------------------------------
VARIABLES
  part,   \* the component at work, for good
  trusted, log, overrides, stored, pending, reapplied,
  patches, selected, candidates, inspected, attempt, testing, chosen,
  selection, quiet

Quality == INSTANCE PatchQuality WITH
  Kinds <- SomeKinds, Patches <- SomePatches, Evidence <- SomeEvidence,
  Gold <- {"calc"}, Policy <- SomePolicy, MaxEvents <- 2, MaxStored <- 1

Tests == INSTANCE TargetedTests WITH
  Configured <- Suite, GoldTests <- <<GoldTest>>,
  IndexedPaths <- <<Calc, CalcSpec, CalcTest, OddTest>>,
  Language <- "python", Patches <- SomeChanges,
  Rankings <- {<<IoTest, Calc>>}, Readable <- {GoldTest, Calc, IoTest},
  Limits <- {1, 2}, MaxPatches <- 2, MaxReads <- 1

qualityVars ==
  <<trusted, log, overrides, stored, pending, reapplied>>
testsVars ==
  <<patches, selected, candidates, inspected, attempt, testing,
    chosen, selection, quiet>>
patchesVars == <<part, vars, qualityVars, testsVars>>

ASSUME PatchesAssumption ==
  /\ PatchStoreAssumption
  /\ Quality!QualityAssumption
  /\ Tests!TargetedAssumption

(* A component that is not at work rests in one of its initial states.     *)
PatchesInit ==
  /\ part \in {"store", "unended", "quality", "tests"}
  /\ Init
  /\ part \notin {"store", "unended"} => justified = Files
  /\ Quality!Init
  /\ part # "quality" => /\ ~trusted
                         /\ stored = <<>>
  /\ Tests!Init

(* Every file has a last newline, also those in patches of clients.        *)
FilesEnd ==
  \A f \in Files :
    /\ workspace[f].newline = TRUE
    /\ \A c \in Clients : actor[c].text[f].newline = TRUE

(* No file has a text that makes a diff binary or too long.                *)
FilesFit ==
  \A f \in Files :
    /\ workspace[f].text \notin Barred
    /\ \A c \in Clients : actor[c].text[f].text \notin Barred

PatchesNext ==
  \/ /\ part = "store" /\ Next /\ FilesEnd' /\ FilesFit' /\ edits' <= 1
     /\ UNCHANGED <<part, qualityVars, testsVars>>
  \/ /\ part = "unended" /\ Next /\ actor'["c2"] = Idle
     /\ UNCHANGED <<part, qualityVars, testsVars>>
  \/ /\ part = "quality" /\ Quality!Next
     /\ UNCHANGED <<part, vars, testsVars>>
  \/ /\ part = "tests" /\ Tests!Next
     /\ UNCHANGED <<part, vars, qualityVars>>
  \* These may come to their bounds.
  \/ part \in {"quality", "tests"} /\ UNCHANGED patchesVars

PatchesSpec == PatchesInit /\ [][PatchesNext]_patchesVars

-----------------------------------------------------------------------------
(* No override lifts the hard rules, a patch that breaks the rules of      *)
(* edited files is audited, and a score is what its breakdown leaves       *)
(* (PatchQualityService with _validate_policy of the patch service).       *)
QualityIsExplained == part = "quality" =>
  /\ Quality!TypeOK /\ Quality!HardRulesHold /\ Quality!ScopeOrAudit
  /\ Quality!ScoreExplained

(* Only the whole suite exceeds the limit of commands, and the commands    *)
(* are chosen for the patch that is tested (select of                      *)
(* targeted_tests/service.py in the post-patch tests).                     *)
SelectionFollowsPatch == part = "tests" =>
  Tests!TypeOK /\ Tests!WholeSuiteOrLimit /\ Tests!SeenIsTested

(* What has been stored stays what it was: versions, the files that were   *)
(* inspected before the first edit, and the verdict on a patch that is     *)
(* applied again; what is chosen to test it derives from evidence and      *)
(* commands of the task.                                                   *)
NothingIsRewritten ==
  /\ VersionsAreImmutable
  /\ Quality!InspectedBeforeEdit /\ Quality!ReapplyAgrees
  /\ Tests!DerivedFromEvidence /\ Tests!RelevantCommands

-----------------------------------------------------------------------------
(* Statements of the documentation that the code does not keep.            *)

(* docs/patch-management.md: changed lines are capped, and an audit lets   *)
(* the same patch be applied again.                                        *)
LinesAreCapped == Quality!LinesAreCapped
OverrideCoversItsPatch == Quality!OverrideCoversItsPatch

(* docs/test-execution.md: changed test files are preferred.               *)
ChangedTestsPreferred == Tests!ChangedTestsPreferred

=============================================================================

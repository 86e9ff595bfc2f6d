----------------------------- MODULE TargetedTests -----------------------------
(***************************************************************************)
(* The choice of the test commands for a patch                             *)
(* (targeted_tests/service.py), during the post-patch tests of a run       *)
(* (test_execution/service.py) and on request of a client.                 *)
(*                                                                         *)
(* A path is a record: its directory, the base of its file name, the       *)
(* affix that marks tests ("" for none), the suffix, and whether its       *)
(* characters are plain, unfit for a command line or unsafe.  A command is *)
(* its runner and the targets it names; a target is a path or, with the    *)
(* base "*", a directory.  A command that the service derives names the    *)
(* path it appends.                                                        *)
(***************************************************************************)
EXTENDS Naturals, Sequences, FiniteSets, SequencesExt

CONSTANTS
  Configured,   \* test_commands of the benchmark task, without repetitions
  GoldTests,    \* test files of the gold patch, <<>> when there is none
  IndexedPaths, \* paths of the repository index
  Language,     \* language of the repository
  Patches,      \* lists of changed files a patch may have
  Rankings,     \* lists of candidate files the agent may submit
  Readable,     \* paths the agent may read
  Limits,       \* values of targeted_tests_max_commands
  MaxPatches, MaxReads   \* bounds of the model

TestDirectories == {"__tests__", "spec", "specs", "test", "tests", "testing"}
Runners == {"pytest", "jest", "npm"}
TargetedAssumption ==
  /\ Limits \subseteq 1..20 /\ MaxPatches \in Nat /\ MaxReads \in Nat
  /\ \A i, j \in DOMAIN Configured : Configured[i] = Configured[j] => i = j

VARIABLES
  patches,     \* changed files of the stored versions
  selected,    \* the version with is_selected, 0 for none
  candidates,  \* ranked files of the latest candidate_files_submitted
  inspected,   \* files of the successful read and retrieval events
  attempt,     \* the version the repair loop goes on to test, 0 for none
  testing,     \* the version whose post-patch tests are running, 0 for none
  chosen,      \* the running test phase has its commands
  selection,   \* the latest targeted_tests_selected event
  quiet        \* the agent alone has stored and tested patches so far

vars == <<patches, selected, candidates, inspected, attempt, testing, chosen, selection, quiet>>

Nothing == [commands |-> <<>>, confidence |-> "low", stage |-> "fallback",
            limit |-> 1, seen |-> 0, tested |-> 0]

-----------------------------------------------------------------------------
(* Paths *)

IsTest(f) == f.dir \in TestDirectories \/ f.affix # ""

Family(f) ==
  CASE f.ext = ".py" -> "python"
    [] f.ext \in {".js", ".ts"} -> "javascript"
    [] OTHER -> Language

IsSource(f) == f.ext \in {".py", ".js", ".ts"}

SafePaths(s) == SelectSeq(s, LAMBDA f : f.chars # "unsafe")
SafeCli(f) == f.chars = "plain"

Unique(s) == FoldLeft(LAMBDA acc, x : IF Contains(acc, x) THEN acc ELSE Append(acc, x), <<>>, s)

SameName(f, t) == f.base = t.base /\ f.affix = t.affix /\ f.ext = t.ext
TargetMatches(f, t) ==
  IF t.base = "*" THEN f.dir = t.dir ELSE SameName(f, t)

(* _infer_related_tests: tests with the stem and language of a source.     *)
InferRelatedTests(sources, known) ==
  LET tests == SelectSeq(known, IsTest)
      Related(f) == SelectSeq(tests, LAMBDA t : t.base = f.base /\ Family(t) = Family(f))
  IN  Unique(FlattenSeq([i \in DOMAIN sources |-> Related(sources[i])]))

-----------------------------------------------------------------------------
(* Commands *)

Recognized(c) == c.runner \in Runners

Truncate(s, n) == IF Len(s) <= n THEN s ELSE SubSeq(s, 1, n)

MatchingConfigured(tests, limit) ==
  LET Matches(c) == Recognized(c) /\ \E t \in c.targets : \E f \in ToSet(tests) : TargetMatches(f, t)
  IN  Truncate(SelectSeq(Configured, Matches), limit)

Derive(c, f) == [c EXCEPT !.targets = @ \cup {f}]

(* Mutant: the first recognized runner is extended whatever it runs already. *)
CommandsForAny(tests, limit) ==
  LET plain == SelectSeq(Configured, Recognized)
      safe == SelectSeq(tests, SafeCli)
  IN  IF MatchingConfigured(tests, limit) # <<>> THEN MatchingConfigured(tests, limit)
      ELSE IF plain = <<>> THEN <<>>
      ELSE [i \in DOMAIN safe |-> Derive(plain[1], safe[i])]

CommandsForTestFiles(tests, limit) ==
  LET plain == SelectSeq(Configured, LAMBDA c : Recognized(c) /\ c.targets = {})
      safe == SelectSeq(tests, SafeCli)
  IN  IF MatchingConfigured(tests, limit) # <<>> THEN MatchingConfigured(tests, limit)
      ELSE IF plain = <<>> THEN <<>>
      ELSE [i \in DOMAIN Truncate(safe, limit) |-> Derive(plain[1], safe[i])]

-----------------------------------------------------------------------------
(* select *)

(* AgentRun.generated_patch: the selected version, else the latest.        *)
GeneratedPatch == IF selected # 0 THEN selected ELSE Len(patches)

ChangedFiles == IF GeneratedPatch = 0 THEN <<>> ELSE SafePaths(patches[GeneratedPatch])
Evidence == ChangedFiles \o SafePaths(candidates) \o SafePaths(inspected)
DirectTests == Unique(SelectSeq(Evidence, IsTest))
InferredTests ==
  InferRelatedTests(SelectSeq(Evidence, LAMBDA f : IsSource(f) /\ ~IsTest(f)),
                    Unique(Evidence \o SafePaths(IndexedPaths)))

(* Trusted hints only choose among the commands of the task. *)
GoldCommands(limit) == MatchingConfigured(SafePaths(GoldTests), limit)

Selection(limit, gold) ==
  LET direct == CommandsForTestFiles(DirectTests, limit)
      inferred == CommandsForTestFiles(InferredTests, limit)
      hinted == IF gold THEN GoldCommands(limit) ELSE <<>>
      changed == ToSet(DirectTests) \cap ToSet(ChangedFiles)
      stage == IF direct # <<>> THEN "direct" ELSE IF inferred # <<>> THEN "inferred"
               ELSE IF hinted # <<>> THEN "gold" ELSE "fallback"
  IN  [ commands |-> CASE stage = "direct" -> direct [] stage = "inferred" -> inferred
                       [] stage = "gold" -> hinted [] stage = "fallback" -> Configured,
        confidence |-> CASE stage = "direct" -> (IF changed # {} THEN "high" ELSE "medium")
                         [] stage = "inferred" -> "medium"
                         [] stage = "gold" -> "high" [] stage = "fallback" -> "low",
        stage |-> stage, limit |-> limit, seen |-> GeneratedPatch, tested |-> testing ]

-----------------------------------------------------------------------------
TypeOK ==
  /\ patches \in Seq(Patches) /\ Len(patches) <= MaxPatches
  /\ {selected, attempt, testing} \subseteq 0..Len(patches)
  /\ candidates \in Rankings \cup {<<>>} /\ ToSet(inspected) \subseteq Readable
  /\ chosen \in BOOLEAN /\ quiet \in BOOLEAN
  /\ selection.stage \in {"direct", "inferred", "gold", "fallback"}
  /\ selection.limit \in Limits \cup {1}

Init ==
  /\ patches = <<>> /\ selected = 0 /\ candidates = <<>> /\ inspected = <<>>
  /\ attempt = 0 /\ testing = 0 /\ chosen = FALSE
  /\ selection = Nothing /\ quiet = TRUE

(* The agent ranks candidate files, reads files and submits a patch. *)
Rank(ranked) ==
  /\ attempt = 0 /\ testing = 0 /\ candidates' = ranked
  /\ UNCHANGED <<patches, selected, inspected, attempt, testing, chosen, selection, quiet>>

Read(f) ==
  /\ attempt = 0 /\ testing = 0 /\ Len(inspected) < MaxReads
  /\ inspected' = Append(inspected, f)
  /\ UNCHANGED <<patches, selected, candidates, attempt, testing, chosen, selection, quiet>>

Submit(files) ==
  /\ attempt = 0 /\ testing = 0 /\ Len(patches) < MaxPatches
  /\ selected = 0 \/ ~quiet     \* the run has not had its last attempt
  /\ patches' = Append(patches, files) /\ attempt' = Len(patches) + 1
  /\ UNCHANGED <<selected, candidates, inspected, testing, chosen, selection, quiet>>

(* A client of the patch routes stores a version of its own. *)
StoreByClient(files) ==
  /\ Len(patches) < MaxPatches
  /\ patches' = Append(patches, files) /\ quiet' = FALSE
  /\ UNCHANGED <<selected, candidates, inspected, attempt, testing, chosen, selection>>

(* run_post_patch_tests for the submitted version, or for the run's patch. *)
TestAttempt ==
  /\ attempt # 0 /\ testing = 0
  /\ testing' = attempt /\ chosen' = FALSE
  /\ UNCHANGED <<patches, selected, candidates, inspected, attempt, selection, quiet>>

TestByClient ==
  /\ testing = 0 /\ patches # <<>>
  /\ testing' = GeneratedPatch /\ chosen' = FALSE /\ quiet' = FALSE
  /\ UNCHANGED <<patches, selected, candidates, inspected, attempt, selection>>

(* Inside the test phase, once the patch is applied. *)
SelectForTests(limit, gold) ==
  /\ testing # 0 /\ ~chosen
  /\ chosen' = TRUE /\ selection' = Selection(limit, gold)
  /\ UNCHANGED <<patches, selected, candidates, inspected, attempt, testing, quiet>>

(* POST /tests/select-targeted; gold hints need the operator's token. *)
SelectOnRequest(limit, gold) ==
  /\ selection' = [Selection(limit, gold) EXCEPT !.tested = 0]
  /\ UNCHANGED <<patches, selected, candidates, inspected, attempt, testing, chosen, quiet>>

(* The phase ends; the last attempt of a run, and a standalone phase, *)
(* select their patch.                                                *)
Finish(final) ==
  /\ testing # 0 /\ chosen
  /\ selected' = IF final THEN testing ELSE selected
  /\ attempt' = IF testing = attempt THEN 0 ELSE attempt
  /\ testing' = 0 /\ chosen' = FALSE
  /\ UNCHANGED <<patches, candidates, inspected, selection, quiet>>

Next ==
  \/ \E r \in Rankings : Rank(r)
  \/ \E f \in Readable : Read(f)
  \/ \E p \in Patches : Submit(p) \/ StoreByClient(p)
  \/ TestAttempt \/ TestByClient
  \/ \E n \in Limits, gold \in BOOLEAN : SelectForTests(n, gold) \/ SelectOnRequest(n, gold)
  \/ \E final \in BOOLEAN : Finish(final)

Spec == Init /\ [][Next]_vars

-----------------------------------------------------------------------------
(* Properties *)

(* Only the fallback to the full suite may exceed the limit of commands,   *)
(* and it is never cut short.                                              *)
WholeSuiteOrLimit ==
  IF selection.stage = "fallback"
  THEN selection = Nothing \/ selection.commands = Configured
  ELSE Len(selection.commands) \in 1..selection.limit

(* As long as the agent alone stores patches and tests them, the commands  *)
(* for a patch are chosen for the files of that patch: the choice reads    *)
(* the patch of the run anew.                                              *)
SeenIsTested == quiet /\ selection.tested # 0 => selection.seen = selection.tested

(* A chosen command that is not one of the task's is one of them with a    *)
(* single path appended, which public evidence names: never a path known   *)
(* from the gold patch alone, never one with unsafe characters.            *)
DerivedFromEvidence ==
  [][ \A i \in DOMAIN selection'.commands :
        LET c == selection'.commands[i] IN
        selection' # selection /\ c \notin ToSet(Configured) =>
          \E f \in ToSet(Evidence) \cup ToSet(IndexedPaths) :
            /\ c.targets = {f} /\ IsTest(f) /\ f.chars = "plain"
            /\ [c EXCEPT !.targets = {}] \in ToSet(Configured) ]_vars

(* A targeted command runs a test that is evidence itself, or one that     *)
(* shares its stem and language with a source that is evidence (or, with   *)
(* gold hints, a gold test).                                               *)
RelevantCommands ==
  [][ selection' # selection /\ selection'.stage \in {"direct", "inferred"} =>
        LET known == ToSet(Evidence)
            Related(t) == \E f \in known : /\ ~IsTest(f) /\ f.base = t.base
                                           /\ Family(f) = Family(t)
            relevant == {t \in known \cup ToSet(IndexedPaths) :
                           IsTest(t) /\ (t \in known \/ Related(t))}
        IN \A c \in ToSet(selection'.commands) :
             \E t \in c.targets, f \in relevant : TargetMatches(f, t) ]_vars

(* Stated by docs/test-execution.md: changed test files are preferred, so  *)
(* a targeted choice for a patch that changes tests runs one of them.      *)
ChangedTestsPreferred ==
  [][ selection' # selection /\ selection'.stage # "fallback" =>
        LET changed == {f \in ToSet(ChangedFiles) : IsTest(f) /\ SafeCli(f)}
        IN changed # {} =>
             \E c \in ToSet(selection'.commands), f \in changed :
               \E t \in c.targets : TargetMatches(f, t) ]_vars
=============================================================================

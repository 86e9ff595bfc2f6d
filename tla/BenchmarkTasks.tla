----------------------------- MODULE BenchmarkTasks -----------------------------
(***************************************************************************)
(* The life of benchmark tasks: their creation by hand, from GitHub or by  *)
(* an import, the validation in front of mark-ready                        *)
(* (benchmark_tasks/validation.py), the start of runs, and the validation  *)
(* reports of tasks and packs (benchmark_validation/service.py).           *)
(*                                                                         *)
(* Fields are abstracted to what the checks tell apart: a text is present  *)
(* or blank; a list of commands is "none", "blank" (one of them is) or     *)
(* "good"; a gold patch is "none", "no files" or "good".                   *)
(***************************************************************************)
EXTENDS Naturals, FiniteSets

CONSTANTS
  Tasks,      \* identities of tasks that may come into being
  Requests,   \* bodies of POST /benchmark-tasks
  MaxChanges,   \* bound on changes of hidden suites, memberships and definitions
  Absent      \* no such task

TaskStatuses == {"draft", "ready", "running", "completed", "failed", "archived"}
Transitions ==
  [ draft |-> {"ready", "archived"}, ready |-> {"running", "archived"},
    running |-> {"completed", "failed"}, completed |-> {"archived"},
    failed |-> {"ready", "archived"}, archived |-> {} ]

Commands == {"none", "blank", "good"}
Suites == {"disabled", "unrunnable", "runnable"}

Fields ==
  [ url : BOOLEAN, issue : BOOLEAN, pr : BOOLEAN, base : BOOLEAN, title : BOOLEAN,
    body : BOOLEAN, setup : Commands, tests : Commands, lint : Commands,
    status : TaskStatuses ]

TaskType ==
  [ origin : {"manual", "github", "imported"}, fields : Fields,
    gold : {"none", "no files", "good"}, text : BOOLEAN, testFiles : BOOLEAN ]

TasksAssumption == Requests \subseteq Fields /\ MaxChanges \in Nat /\ Absent \notin TaskType

VARIABLES
  task,     \* rows of benchmark_tasks with their gold patches, or Absent
  hidden,   \* hidden suites of each task
  pack,     \* members of a benchmark pack
  runs,     \* tasks that a run has been started on
  changes,
  unchecked \* tasks that were ready when they were created

taskVars == <<task, hidden, pack, runs, changes, unchecked>>

Exists(t) == task[t] # Absent
Status(t) == task[t].fields.status

TasksTypeOK ==
  /\ task \in [Tasks -> TaskType \cup {Absent}]
  /\ hidden \in [Tasks -> SUBSET Suites]
  /\ pack \subseteq Tasks /\ runs \subseteq Tasks /\ unchecked \subseteq Tasks
  /\ \A t \in pack \cup runs : Exists(t)
  /\ changes \in 0..MaxChanges

TasksInit ==
  /\ task = [t \in Tasks |-> Absent]
  /\ hidden = [t \in Tasks |-> {}]
  /\ pack = {} /\ runs = {} /\ changes = 0 /\ unchecked = {}

-----------------------------------------------------------------------------
(* validate_benchmark_task *)

Valid(x) ==
  LET f == x.fields IN
  /\ f.url
  /\ x.origin = "imported" \/ (f.issue /\ f.pr)
  /\ f.base
  /\ f.setup # "blank" /\ f.tests = "good" /\ f.lint # "blank"
  /\ x.gold = "good"

(* build_benchmark_task_validation_report: codes of severity error *)

CommandErrors(f) ==
  {c \in {"setup_commands_invalid", "test_commands_invalid", "test_commands_missing"} :
     \/ c = "setup_commands_invalid" /\ f.setup = "blank"
     \/ c = "test_commands_invalid" /\ f.tests = "blank"
     \/ c = "test_commands_missing" /\ f.tests = "none"}

GoldExpected(x) ==
  x.origin # "imported" \/ x.fields.status \in {"ready", "running", "completed", "failed"}

Basic(x) ==
  LET f == x.fields IN
  {c \in {"repository_url_invalid", "base_commit_missing", "problem_statement_missing",
          "gold_patch_missing", "gold_changed_files_missing",
          "import_problem_statement_missing"} :
     \/ c = "repository_url_invalid" /\ ~f.url
     \/ c = "base_commit_missing" /\ ~f.base
     \/ c = "problem_statement_missing" /\ ~f.title /\ ~f.body
     \/ c = "gold_patch_missing" /\ x.gold = "none" /\ GoldExpected(x)
     \/ c = "gold_changed_files_missing" /\ x.gold = "no files"
     \/ c = "import_problem_statement_missing" /\ x.origin = "imported" /\ ~f.body}
  \cup CommandErrors(f)

TaskErrors(x) ==
  Basic(x) \cup (IF x.fields.status = "ready" /\ Basic(x) # {}
                 THEN {"ready_status_inconsistent"} ELSE {})

Enabled(suites) == suites \ {"disabled"}

(* Codes of severity warning, for a task x with these suites. *)
TaskWarnings(x, suites) ==
  LET f == x.fields IN
  {c \in {"problem_statement_body_missing", "setup_commands_missing", "gold_patch_missing",
          "gold_patch_empty", "hidden_tests_missing", "hidden_tests_disabled",
          "hidden_tests_not_executable", "task_status_draft", "task_status_failed"} :
     \/ c = "problem_statement_body_missing" /\ f.title /\ ~f.body
     \/ c = "setup_commands_missing" /\ f.setup = "none"
     \/ c = "gold_patch_missing" /\ x.gold = "none" /\ ~GoldExpected(x)
     \/ c = "gold_patch_empty" /\ x.gold # "none" /\ ~x.text
     \/ c = "hidden_tests_missing" /\ x.gold # "none" /\ x.testFiles /\ suites = {}
     \/ c = "hidden_tests_disabled" /\ suites # {} /\ Enabled(suites) = {}
     \/ c = "hidden_tests_not_executable" /\ Enabled(suites) = {"unrunnable"}
     \/ c = "task_status_draft" /\ f.status = "draft"
     \/ c = "task_status_failed" /\ f.status = "failed"}

Overall(errs, warnings) ==
  IF errs # {} THEN "blocked" ELSE IF warnings # {} THEN "warning" ELSE "ready"

TaskVerdict(t) == Overall(TaskErrors(task[t]), TaskWarnings(task[t], hidden[t]))

(* build_benchmark_pack_validation_report *)

ReadyMembers == {t \in pack : Status(t) = "ready"}

PackErrors ==
  {c \in {"pack_empty", "pack_has_no_ready_tasks", "pack_repository_urls_invalid",
          "pack_test_commands_missing", "pack_ready_tasks_missing_gold"} :
     \/ c = "pack_empty" /\ pack = {}
     \/ c = "pack_has_no_ready_tasks" /\ pack # {} /\ ReadyMembers = {}
     \/ c = "pack_repository_urls_invalid" /\ \E t \in pack : ~task[t].fields.url
     \/ c = "pack_test_commands_missing" /\ \E t \in pack : task[t].fields.tests # "good"
     \/ c = "pack_ready_tasks_missing_gold" /\ \E t \in ReadyMembers : task[t].gold = "none"}

PackWarnings ==
  {c \in {"non_ready_tasks_present", "pack_setup_commands_missing",
          "hidden_test_coverage_incomplete"} :
     \/ c = "non_ready_tasks_present"
          /\ \E t \in pack : Status(t) \in {"draft", "failed", "archived"}
     \/ c = "pack_setup_commands_missing" /\ \E t \in pack : task[t].fields.setup # "good"
     \/ c = "hidden_test_coverage_incomplete" /\ \E t \in pack : "runnable" \notin hidden[t]}

PackVerdict == Overall(PackErrors, PackWarnings)

-----------------------------------------------------------------------------
(* Creation *)

Create(t, x, suites) ==
  /\ ~Exists(t)
  /\ task' = [task EXCEPT ![t] = x]
  /\ hidden' = [hidden EXCEPT ![t] = suites]
  /\ unchecked' = IF x.fields.status = "ready" THEN unchecked \cup {t} ELSE unchecked
  /\ UNCHANGED <<pack, runs, changes>>

CreateManual(t) ==
  \E f \in Requests :
    Create(t, [origin |-> "manual", fields |-> f, gold |-> "none",
               text |-> FALSE, testFiles |-> FALSE], {})

(* All of GitHub's data is fetched first; a pull request that is not       *)
(* merged, has no fix commit or cannot be fetched creates nothing.  The    *)
(* diff may be missing, and so may the changed files.                      *)
CreateFromGitHub(t) ==
  \E files, text, testFiles, hid, setup \in BOOLEAN :
    /\ (testFiles => files) /\ (hid => testFiles)
    /\ Create(t,
         [ origin |-> "github",
           fields |-> [url |-> TRUE, issue |-> TRUE, pr |-> TRUE, base |-> TRUE,
                       title |-> TRUE, body |-> TRUE,
                       setup |-> IF setup THEN "good" ELSE "none",
                       tests |-> "good", lint |-> "none", status |-> "ready"],
           gold |-> IF files THEN "good" ELSE "no files",
           text |-> text, testFiles |-> testFiles ],
         IF hid THEN {"runnable"} ELSE {})

CreateImported(t) ==
  \E patch, testPatch, issue \in BOOLEAN :
    Create(t,
      [ origin |-> "imported",
        fields |-> [url |-> TRUE, issue |-> issue, pr |-> FALSE, base |-> TRUE, title |-> TRUE,
                    body |-> TRUE, setup |-> "none", tests |-> "none", lint |-> "none",
                    status |-> "draft"],
        gold |-> IF patch THEN "good" ELSE "none",
        text |-> patch, testFiles |-> patch /\ testPatch ],
      IF testPatch THEN {"disabled"} ELSE {})

(* Mutant: the transition is made before the validation. *)
MarkReadyFirst(t) ==
  /\ Exists(t)
  /\ "ready" \in Transitions[Status(t)]
  /\ task' = [task EXCEPT ![t].fields.status = "ready"]
  /\ UNCHANGED <<hidden, pack, runs, changes, unchecked>>

(* Invalid tasks are answered with 422, other statuses with 409, and ready *)
(* ones stay what they are.                                                *)
MarkReady(t) ==
  /\ Exists(t) /\ Valid(task[t])
  /\ "ready" \in Transitions[Status(t)]
  /\ task' = [task EXCEPT ![t].fields.status = "ready"]
  /\ UNCHANGED <<hidden, pack, runs, changes, unchecked>>

StartRun(t) ==
  /\ Exists(t) /\ Status(t) = "ready" /\ t \notin runs
  /\ runs' = runs \cup {t}
  /\ UNCHANGED <<task, hidden, pack, changes, unchecked>>

Change == changes < MaxChanges /\ changes' = changes + 1 /\ UNCHANGED <<runs, unchecked>>

ChangeSuites(t) ==
  /\ Change /\ Exists(t)
  /\ \/ \E s \in {"unrunnable", "runnable"} : hidden' = [hidden EXCEPT ![t] = @ \cup {s}]
     \/ \E s \in hidden[t] : hidden' = [hidden EXCEPT ![t] = @ \ {s}]
  /\ UNCHANGED <<task, pack>>

ChangePack(t) ==
  /\ Change /\ Exists(t)
  /\ pack' = (pack \cup {t}) \ (pack \cap {t})
  /\ UNCHANGED <<task, hidden>>

(* A curator completes a draft in the database, which no route does. *)
Curate(t) ==
  /\ Change /\ Exists(t) /\ Status(t) = "draft"
  /\ \/ task' = [task EXCEPT ![t].fields.setup = "good", ![t].fields.tests = "good"]
     \/ task' = [task EXCEPT ![t].gold = "good", ![t].fields.issue = TRUE, ![t].fields.pr = TRUE]
  /\ UNCHANGED <<hidden, pack>>

TasksNext == \E t \in Tasks :
  CreateManual(t) \/ CreateFromGitHub(t) \/ CreateImported(t) \/ MarkReady(t) \/ StartRun(t)
  \/ ChangeSuites(t) \/ ChangePack(t) \/ Curate(t)

TasksSpec == TasksInit /\ [][TasksNext]_taskVars

-----------------------------------------------------------------------------
(* A task is ready only if it passes the validation (README.md).           *)
ReadyIsValid == \A t \in Tasks : Exists(t) /\ Status(t) = "ready" => Valid(task[t])

(* A ready task that would not pass the validation was created ready, and  *)
(* so was every invalid task that a run was started on: no sequence of     *)
(* imports, curation and requests gets an invalid one past mark-ready.     *)
InvalidWasCreatedReady ==
  \A t \in Tasks :
    Exists(t) /\ (Status(t) = "ready" \/ t \in runs) /\ ~Valid(task[t]) => t \in unchecked

(* The report does not approve of what the validation refuses: whatever    *)
(* made an invalid task ready, its report blocks it and says that it is    *)
(* inconsistent, though the two look at different fields.                  *)
InvalidReadyIsBlocked ==
  \A t \in Tasks :
    Exists(t) /\ Status(t) = "ready" /\ ~Valid(task[t]) =>
      TaskVerdict(t) = "blocked" /\ "ready_status_inconsistent" \in TaskErrors(task[t])

(* A pack that is not blocked can be run, and what blocks one of its ready *)
(* members is nothing that keeps the tests or the repository from being    *)
(* used: pack and task reports agree on these.                             *)
RunnablePack ==
  PackVerdict # "blocked" =>
    /\ ReadyMembers # {}
    /\ \A t \in ReadyMembers :
         TaskErrors(task[t]) \subseteq
           {"base_commit_missing", "problem_statement_missing", "setup_commands_invalid",
            "gold_changed_files_missing", "ready_status_inconsistent"}

(* An invalid task that is ready, or that has been run, was created ready; *)
(* its report blocks it, and a pack that is not blocked can be run         *)
(* (benchmark_tasks and benchmark_validation).                             *)
TasksAreRunnable ==
  TasksTypeOK /\ InvalidWasCreatedReady /\ InvalidReadyIsBlocked /\ RunnablePack

(* Nothing a client does takes a task out of a final state, and a task     *)
(* that is ready stays so, with its definition: a saved roster can rely on *)
(* it.                                                                     *)
SettledTasksStay ==
  [][\A t \in Tasks : Exists(t) /\ Status(t) \notin {"draft", "failed"} => task'[t] = task[t]]_taskVars
=============================================================================

------------------------------- MODULE SandboxRun -------------------------------
(***************************************************************************)
(* DockerSandboxRunner.run (sandbox/runner.py) with the workspace that it  *)
(* creates and removes (sandbox/workspace.py): clone, checkout, setup      *)
(* commands, repeated test commands, and what is cleaned up on each of the *)
(* ways out.  A command is executed by a session (module CommandSession),  *)
(* of which only the flag closed and the result are seen here.             *)
(***************************************************************************)
EXTENDS Naturals, Sequences, FiniteSets

CONSTANTS
  SetupCounts,    \* how many setup commands a request may have
  TestCounts,     \* how many test commands
  Repetitions     \* how many test repetitions

SandboxRunAssumption ==
  /\ SetupCounts \subseteq Nat
  /\ TestCounts \subseteq Nat \ {0} /\ Repetitions \subseteq Nat \ {0}

VARIABLES
  request,     \* what is asked for, see RequestType
  retain,      \* SANDBOX_RETAIN_WORKSPACES
  stage,
  setups,      \* setup_results, see ResultType
  next,        \* repetition and command that the loops come to
  tests,       \* test_results; history: with the number of the repetition
  session,     \* "none", or whether the session has been closed
  leaking,     \* something of the session could not be removed
  workspace,   \* "none", "present", "removed"
  response,    \* status, or "none"
  retained,    \* response.workspace_retained
  cleanup,     \* response.cleanup_error is set
  escaped      \* an exception leaves run

given == <<request, retain>>
runVars == <<given, stage, setups, next, tests, session, leaking,
             workspace, response, retained, cleanup, escaped>>

RequestType ==
  [setup : SetupCounts, commands : TestCounts, repetitions : Repetitions,
   stop : BOOLEAN]   \* stop_on_first_test_failure

(* "lost" is the result of a command that Docker failed to run: not passed,*)
(* without exit code and without an error_code; "error" has an error_code. *)
ResultType == {"passed", "failed", "lost", "timed_out", "error"}

Statuses == {"passed", "clone_failed", "checkout_failed", "setup_failed",
             "tests_failed", "sandbox_error"}

RunTypeOK ==
  /\ request \in RequestType /\ retain \in BOOLEAN
  /\ stage \in {"create", "clone", "checkout", "setup", "test", "respond",
             "close", "cleanup", "over"}
  /\ setups \in Seq(ResultType)
  /\ next \in [repetition : Nat \ {0}, command : Nat \ {0}]
  /\ tests \in Seq([result : ResultType, repetition : Nat \ {0}])
  /\ session \in {"none", "open", "closed", "over"}
  /\ workspace \in {"none", "present", "removed"}
  /\ response \in Statuses \cup {"none"}
  /\ {leaking, retained, cleanup, escaped} \subseteq BOOLEAN

RunInit ==
  /\ request \in RequestType /\ retain \in BOOLEAN
  /\ stage = "create"
  /\ setups = <<>> /\ tests = <<>> /\ next = [repetition |-> 1, command |-> 1]
  /\ session = "none" /\ leaking = FALSE
  /\ workspace = "none"
  /\ response = "none" /\ retained = FALSE /\ cleanup = FALSE
  /\ escaped = FALSE

-----------------------------------------------------------------------------

(* An exception on the way out, through the finally clauses.               *)
Raise(to) == escaped' = TRUE /\ stage' = to /\ UNCHANGED <<response, retained>>

(* _response.                                                              *)
Respond(status, to) ==
  /\ response' = status /\ retained' = retain
  /\ stage' = to
  /\ UNCHANGED escaped

Proceed(to) == stage' = to /\ UNCHANGED <<response, retained, escaped>>

(* The directory is there before its metadata are written; neither failure *)
(* is within the try block.                                                *)
CreateWorkspace ==
  /\ stage = "create"
  /\ \/ workspace' = "present" /\ Proceed("clone")
     \/ workspace' \in {"none", "present"} /\ Raise("over")
  /\ UNCHANGED <<given, setups, next, tests, session, leaking, cleanup>>

(* _run_host_command: the command ends, exceeds its time or is not found.  *)
Clone ==
  /\ stage = "clone"
  /\ Proceed("checkout") \/ Respond("clone_failed", "cleanup")
  /\ UNCHANGED <<given, setups, next, tests, session, leaking, workspace, cleanup>>

Checkout ==
  /\ stage = "checkout"
  /\ \/ session' = "open" /\ Proceed("setup")
     \/ Respond("checkout_failed", "cleanup") /\ UNCHANGED session
  /\ UNCHANGED <<given, setups, next, tests, leaking, workspace, cleanup>>

(* Which results the session can give: a closed one executes nothing.      *)
Results == IF session = "closed" THEN {"error"} ELSE ResultType

After(result) ==
  session' = IF result \in {"timed_out", "error"} THEN "closed" ELSE session

(* The thread that runs the command has died of an exception that is not   *)
(* Docker's own: execute raises what nobody handles.                       *)
Escape == session = "open" /\ Raise("close")

Setup ==
  /\ stage = "setup" /\ Len(setups) < request.setup
  /\ \/ \E result \in Results :
          /\ setups' = Append(setups, result) /\ After(result)
          /\ IF result = "passed"
             THEN Proceed("setup")
             ELSE Respond(IF result = "error" THEN "sandbox_error" ELSE "setup_failed",
                          "close")
     \/ Escape /\ UNCHANGED <<setups, session>>
  /\ UNCHANGED <<given, next, tests, leaking, workspace, cleanup>>

SetupDone ==
  /\ stage = "setup" /\ Len(setups) = request.setup
  /\ Proceed("test")
  /\ UNCHANGED <<given, setups, next, tests, session, leaking, workspace, cleanup>>

(* The two loops, with the flag stop_tests.                                *)
MoveOn(result) ==
  IF \/ result \in {"error", "timed_out"}
     \/ request.stop /\ result # "passed"
  THEN Proceed("respond") /\ UNCHANGED next
  ELSE /\ next' = IF next.command < request.commands
                  THEN [next EXCEPT !.command = @ + 1]
                  ELSE [repetition |-> next.repetition + 1, command |-> 1]
       /\ Proceed("test")

Test ==
  /\ stage = "test" /\ next.repetition <= request.repetitions
  /\ \/ \E result \in Results :
          /\ tests' = Append(tests, [result |-> result, repetition |-> next.repetition])
          /\ After(result)
          /\ MoveOn(result)
     \/ Escape /\ UNCHANGED <<tests, next, session>>
  /\ UNCHANGED <<given, setups, leaking, workspace, cleanup>>

TestsDone ==
  /\ stage = "test" /\ next.repetition > request.repetitions
  /\ Proceed("respond")
  /\ UNCHANGED <<given, setups, next, tests, session, leaking, workspace,
                 cleanup>>

TestResults == {tests[i].result : i \in DOMAIN tests}

Verdict ==
  CASE "error" \in TestResults -> "sandbox_error"
    [] TestResults \subseteq {"passed"} -> "passed"
    [] OTHER -> "tests_failed"

TestsRespond ==
  /\ stage = "respond"
  /\ Respond(Verdict, "close")
  /\ UNCHANGED <<given, setups, next, tests, session, leaking, workspace, cleanup>>

(* The inner finally: what cannot be removed is reported, if there is      *)
(* somebody to report it to.                                               *)
CloseSession ==
  /\ stage = "close"
  /\ session' = "over"
  /\ leaking' \in BOOLEAN
  /\ cleanup' = (leaking' /\ response # "none")
  /\ stage' = IF response = "none" THEN "over" ELSE "cleanup"
  /\ UNCHANGED <<given, setups, next, tests, workspace, response, retained, escaped>>

(* cleanup_workspace in the outer finally.                                 *)
CleanWorkspace ==
  /\ stage = "cleanup"
  /\ \/ retain /\ retained' = TRUE /\ UNCHANGED <<workspace, cleanup>>
     \/ ~retain /\ workspace' = "removed" /\ retained' = FALSE /\ UNCHANGED cleanup
     \/ ~retain /\ retained' = TRUE /\ cleanup' = TRUE /\ UNCHANGED workspace
  /\ stage' = "over"
  /\ UNCHANGED <<given, setups, next, tests, session, leaking, response, escaped>>

RunNext ==
  \/ CreateWorkspace \/ Clone \/ Checkout \/ Setup \/ SetupDone \/ Test \/ TestsDone
  \/ TestsRespond \/ CloseSession \/ CleanWorkspace

-----------------------------------------------------------------------------
(* Properties.                                                             *)

(* A response tells the truth of what it has left behind: the workspace is *)
(* gone unless the response says retained, and an unreported container or  *)
(* workspace goes with an exception that leaves run (both finally clauses).*)
LeftoversAreReported ==
  stage = "over" =>
    /\ workspace = "present" => escaped \/ retained
    /\ leaking => escaped \/ cleanup
    /\ ~escaped => (retained <=> workspace = "present")

(* "passed" means that setup and every command of every repetition ran and *)
(* passed, however the loops were left.                                    *)
PassedIsComplete ==
  response = "passed" =>
    /\ Len(setups) = request.setup /\ \A i \in DOMAIN setups : setups[i] = "passed"
    /\ \A r \in 1..request.repetitions :
         Cardinality({i \in DOMAIN tests :
           tests[i].repetition = r /\ tests[i].result = "passed"}) = request.commands

=============================================================================

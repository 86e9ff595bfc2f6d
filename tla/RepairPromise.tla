---------------------------- MODULE RepairPromise ----------------------------
(***************************************************************************)
(* What the loop and its repairs promise to the orchestrator, without      *)
(* tools, gates, workspaces or error budgets: a bounded number of attempts,*)
(* a verdict on each of them before the next one starts, and a choice that *)
(* follows from the verdicts alone.  AgentLoop implements it.              *)
(***************************************************************************)
EXTENDS Naturals, Sequences

VARIABLES
  limit,     \* attempts allowed
  verdicts,  \* verdict on each attempt so far
  phase,     \* "open": the agent works, "judging", "closed", "done"
  fatal,     \* the run was stopped by a provider or infrastructure error
  choice,    \* attempt whose patch was selected, 0 if none
  result     \* "none" until done, then "accepted", "rejected" or "failed"

promiseVars == <<limit, verdicts, phase, fatal, choice, result>>

Verdicts ==
  [ outcome : {"passed", "failed_tests", "untested", "invalid_patch", "error"},
    stored : BOOLEAN ]

Init ==
  /\ limit \in Nat \ {0}
  /\ verdicts = <<>>
  /\ phase = "open"
  /\ fatal = FALSE
  /\ choice = 0
  /\ result = "none"

Submit ==
  /\ phase = "open"
  /\ Len(verdicts) < limit
  /\ phase' = "judging"
  /\ UNCHANGED <<limit, verdicts, fatal, choice, result>>

(* An error and an untested patch end the work, so does the last attempt.  *)
Judge ==
  /\ phase = "judging"
  /\ \E v \in Verdicts :
       /\ v.outcome \in {"passed", "failed_tests", "untested"} => v.stored
       /\ verdicts' = Append(verdicts, v)
       /\ fatal' = (v.outcome = "error")
       /\ phase' \in
            IF v.outcome \in {"error", "untested"} \/ Len(verdicts') = limit
            THEN {"closed"} ELSE {"open", "closed"}
  /\ UNCHANGED <<limit, choice, result>>

(* Steps, tool errors or the provider may end the work at any time.        *)
GiveUp ==
  /\ phase = "open"
  /\ phase' = "closed"
  /\ fatal' \in BOOLEAN
  /\ UNCHANGED <<limit, verdicts, choice, result>>

LatestOf(S) == IF S = {} THEN 0 ELSE CHOOSE i \in S : \A j \in S : j <= i

Passed == {i \in DOMAIN verdicts : verdicts[i].outcome = "passed"}
Stored == {i \in DOMAIN verdicts : verdicts[i].stored}

Best == IF Passed # {} THEN LatestOf(Passed) ELSE LatestOf(Stored)

Earned ==
  /\ ~fatal
  /\ \/ Passed # {}
     \/ Best # 0 /\ verdicts[Best].outcome = "untested"

(* "failed": the workspace could not be brought back to the choice.        *)
Settle ==
  /\ phase = "closed"
  /\ phase' = "done"
  /\ choice' = Best
  /\ result' \in {IF Earned THEN "accepted" ELSE "rejected", "failed"}
  /\ UNCHANGED <<limit, verdicts, fatal>>

Next == Submit \/ Judge \/ GiveUp \/ Settle

Spec == Init /\ [][Next]_promiseVars /\ WF_promiseVars(Next)

=============================================================================

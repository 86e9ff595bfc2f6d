-------------------------------- MODULE MCSandbox ---------------------------
(* The components that work in sandboxes: container sessions, flakiness    *)
(* checks and the analysis of failed tests. A behaviour is one of one of   *)
(* them.                                                                   *)
EXTENDS CommandSession, FlakinessCheck, TestFailureAnalysis

(* Every way to ask for and to grant the network, with the allowlist empty *)
(* but once.                                                               *)
NetworkSettings ==
  [requested : {"unset", "none", "bridge"}, global : {"none", "bridge"},
   setup : BOOLEAN, tests : BOOLEAN, hosts : {FALSE}]
  \cup {[requested |-> "unset", global |-> "bridge", setup |-> TRUE,
         tests |-> FALSE, hosts |-> TRUE]}

(* Nothing to report, more to report than is kept, a timeout.              *)
Noisy == << {"node"}, {"error"}, {"file", "gold", "named"}, {"file", "error"}, {"cut"} >>
TestOutcomes == { [exit |-> 0, output |-> << {} >>], [exit |-> 1, output |-> Noisy],
                  [exit |-> 124, output |-> << {} >>] }
TestScript == << [phase |-> "post_patch", commands |-> 2],
                 [phase |-> "hidden_eval", commands |-> 2] >>

-----------------------------------------------------------------------------
VARIABLES
  part    \* the component at work, for good

sandboxVars == <<part, vars, checkVars, analysisVars>>

ASSUME SandboxAssumption ==
  /\ SessionAssumption
  /\ SandboxRunAssumption
  /\ AnalysisAssumption

(* A component that is not at work rests in one of its initial states.     *)
SandboxInit ==
  /\ part \in {"session", "flakiness", "analysis"}
  /\ Init
  /\ part # "session" => /\ config = (CHOOSE c \in NetworkSettings : c.hosts)
                         /\ host["f"] = "c"
  /\ CheckInit
  /\ part # "flakiness" => /\ ~retain
                           /\ request = [setup |-> 0, commands |-> 1, repetitions |-> 2, stop |-> FALSE]
  /\ AnalysisInit

SandboxNext ==
  \/ /\ part = "session" /\ Next
     /\ UNCHANGED <<part, checkVars, analysisVars>>
  \/ /\ part = "flakiness" /\ CheckNext
     /\ UNCHANGED <<part, vars, analysisVars>>
  \/ /\ part = "analysis" /\ AnalysisNext
     /\ UNCHANGED <<part, vars, checkVars>>

SandboxSpec ==
  /\ SandboxInit /\ [][SandboxNext]_sandboxVars
  /\ WF_analysisVars(part = "analysis" /\ (RunAny \/ BreakOff \/ AnalyzePhase))
  /\ \A p \in Analyzers :
       WF_analysisVars(part = "analysis" /\ AnalysisStep(p))

=============================================================================

-------------------------------- MODULE MCContext ---------------------------
(* The components that give a model its context: the index of a repository *)
(* with its vectors, which this module extends, and an instance of the     *)
(* conversation with its three adapters. A behaviour is one of one of      *)
(* them.                                                                   *)
EXTENDS IndexSnapshots, Sequences

CONSTANT
  Missing

(* At first two of three files: the limit.  Models differ in nothing but   *)
(* their names, so that the first one can be any.  A response that the     *)
(* OpenAI adapter takes, the local one takes too, and what the Anthropic   *)
(* one takes they both do: the histories are those of one.                 *)
Checkout == <<0, 0, -1>>

-----------------------------------------------------------------------------
VARIABLES
  part,   \* the component at work, for good
  provider, messages, pending, modelCalls, steps, errors, stop

Talk == INSTANCE Conversation WITH
  Ids <- {"c1", "c2"}, MaxBatch <- 2, MaxSteps <- 3, MaxToolErrors <- 2

talkVars ==
  <<provider, messages, pending, modelCalls, steps, errors, stop>>
contextVars == <<part, vars, talkVars>>

ASSUME ContextAssumption ==
  /\ SnapshotsAssumption
  /\ Talk!ConversationAssumption

(* A component that is not at work rests in one of its initial states.     *)
ContextInit ==
  /\ part \in {"index", "conversation"}
  /\ Init
  /\ workspace = Checkout /\ model = "m1"
  /\ Talk!Init
  /\ provider \in {"openai", "mock"}
  /\ part # "conversation" => provider = "mock"

ContextNext ==
  \/ /\ part = "index" /\ Next
     /\ UNCHANGED <<part, talkVars>>
  \/ /\ part = "conversation" /\ Talk!Next
     /\ UNCHANGED <<part, vars>>
  \* These may come to their bounds.
  \/ part \in {"index", "conversation"} /\ UNCHANGED contextVars

ContextSpec ==
  /\ ContextInit /\ [][ContextNext]_contextVars
  /\ \A r \in Requests : WF_vars(part = "index" /\ Step(r))

-----------------------------------------------------------------------------
(* Whatever a model has answered before, each adapter can express the      *)
(* history: calls are answered in order, turns alternate, and the three    *)
(* tell the model the same (model_providers/providers.py with the history  *)
(* of agents/loop.py).                                                     *)
ConversationConverts == part = "conversation" =>
  /\ Talk!TypeOK /\ Talk!HistoryConverts /\ Talk!CallsAreAnswered
  /\ Talk!TurnsAlternate /\ Talk!AdaptersAgree

(* A hybrid ranking compares vectors of one model, made of the files it    *)
(* lists, and every request ends, also one that waits for a lock.          *)
AnswersArrive == HitsAreComparable /\ RequestsEnd

=============================================================================

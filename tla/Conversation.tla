----------------------------- MODULE Conversation -----------------------------
(***************************************************************************)
(* The conversation of an agent run with its model: what AgentLoop.run     *)
(* (agents/loop.py) appends to its provider-neutral history, and what the  *)
(* adapters of model_providers/providers.py make of that history and of    *)
(* the answers.                                                            *)
(*                                                                         *)
(* AgentLoop models what tool calls do to a run; here a call is its id,    *)
(* its name and how it ended.  A text is empty or not.                     *)
(***************************************************************************)
EXTENDS Naturals, Sequences, SequencesExt

CONSTANTS
  Ids,            \* ids a model gives to its calls
  Missing,        \* an id or a name that is absent, empty or not a string
  MaxBatch,       \* bound on the calls of one response
  MaxSteps,       \* max_steps
  MaxToolErrors   \* max_tool_errors

ConversationAssumption ==
  /\ Ids # {} /\ Missing \notin Ids
  /\ MaxBatch \in Nat /\ MaxSteps \in Nat \ {0} /\ MaxToolErrors \in Nat \ {0}

VARIABLES
  provider,    \* adapter of the run
  messages,    \* the history
  pending,     \* calls of the last response still to be carried out
  modelCalls,  \* model_calls
  steps,       \* len(steps)
  errors,      \* tool_errors
  stop         \* stop_reason, "none" while the loop runs

vars == <<provider, messages, pending, modelCalls, steps, errors, stop>>

Providers == {"mock", "openai", "anthropic", "local"}
Names == {"tool", "submit_patch"}
Endings == {"done", "submitted", "failed", "unsubmitted", "skipped"}

(* Calls as the adapters hand them to the loop and the loop keeps them.    *)
Calls == [id : Ids \cup {Missing}, name : Names \cup {Missing}]

(* Calls as they arrive: arguments are an object, a JSON text of one, or   *)
(* neither.                                                                *)
RawCalls == [id : Ids \cup {Missing}, name : Names \cup {Missing},
             arguments : {"object", "text", "other"}]

Said(role) == [role |-> role, text |-> TRUE]
Assistant(text, calls) == [role |-> "assistant", text |-> text, calls |-> calls]
Result(call, ending) == [role |-> "tool", id |-> call.id, ending |-> ending]

-----------------------------------------------------------------------------
(* From the history to a request: sequences of items of the three APIs.    *)

BadCall(call) == Missing \in {call.id, call.name}

(* The adapter raises on a history it cannot express.                      *)
Unsendable(history) ==
  \E i \in DOMAIN history :
    \/ history[i].role = "assistant" /\ \E k \in DOMAIN history[i].calls :
                                          BadCall(history[i].calls[k])
    \/ history[i].role = "tool" /\ history[i].id = Missing

Text(role) == [kind |-> role]
CallItem(call) == [kind |-> "call", id |-> call.id]
ResultItem(message) == [kind |-> "result", id |-> message.id]

TextItem(message) == IF message.text THEN <<Text(message.role)>> ELSE <<>>

CallItems(calls) == [k \in DOMAIN calls |-> CallItem(calls[k])]

MapSeq(Op(_), s) == [i \in DOMAIN s |-> Op(s[i])]

OpenAIItems(message) ==
  CASE message.role = "assistant" -> TextItem(message) \o CallItems(message.calls)
    [] message.role = "tool"      -> <<ResultItem(message)>>
    [] OTHER                      -> <<Text(message.role)>>

OpenAIInput(history) == FlattenSeq(MapSeq(OpenAIItems, history))

(* A message of the Messages API holds blocks.                             *)
IsSystem(message) == message.role \in {"system", "developer"}

AnthropicRole(message) == IF message.role = "assistant" THEN "assistant" ELSE "user"

AnthropicContent(message) ==
  CASE message.role = "assistant" -> TextItem(message) \o CallItems(message.calls)
    [] message.role = "tool"      -> <<ResultItem(message)>>
    [] message.role = "user"      -> <<Text("user")>>

AppendAnthropic(items, role, content) ==
  IF items # <<>> /\ Last(items).role = role
  THEN [items EXCEPT ![Len(items)].content = @ \o content]
  ELSE Append(items, [role |-> role, content |-> content])

AnthropicInput(history) ==
  LET add(items, message) ==
        IF IsSystem(message) \/ AnthropicContent(message) = <<>> THEN items
        ELSE AppendAnthropic(items, AnthropicRole(message), AnthropicContent(message))
  IN FoldLeft(add, <<>>, history)

(* An assistant message of Chat Completions holds its calls.               *)
LocalRole(role) == IF role = "developer" THEN "system" ELSE role

LocalTurn(message) ==
  IF message.text \/ message.calls # <<>>
  THEN <<[role |-> "assistant", text |-> message.text,
          calls |-> CallItems(message.calls)]>>
  ELSE <<>>

LocalItems(message) ==
  CASE message.role = "assistant" -> LocalTurn(message)
    [] message.role = "tool"      -> <<[role |-> "tool", text |-> TRUE,
                                        calls |-> <<ResultItem(message)>>]>>
    [] OTHER -> <<[role |-> LocalRole(message.role), text |-> TRUE, calls |-> <<>>]>>

LocalMessages(history) == FlattenSeq(MapSeq(LocalItems, history))

-----------------------------------------------------------------------------
(* From an answer to the loop.                                             *)

Malformed(call) ==
  \/ BadCall(call)
  \/ call.arguments \notin (IF provider = "anthropic" THEN {"object"}
                            ELSE {"object", "text"})

ToolCall(raw) == [id |-> raw.id, name |-> raw.name]

(* The calls of the mock are numbered, not answered to.  Its second set    *)
(* depends on which tools the run enables.                                 *)
MockCall(name) == [id |-> CHOOSE id \in Ids : TRUE, name |-> name, arguments |-> "object"]

MockAnswers ==
  IF modelCalls = 0 THEN {<<MockCall("tool")>>}
  ELSE IF modelCalls = 1 THEN {[k \in 1..n |-> MockCall("tool")] : n \in 1..MaxBatch}
  ELSE {<<MockCall("submit_patch")>>}

Answers == IF provider = "mock" THEN MockAnswers
           ELSE UNION {[1..n -> RawCalls] : n \in 0..MaxBatch}

-----------------------------------------------------------------------------
(* The loop.                                                               *)

Init ==
  /\ provider \in Providers
  /\ messages = <<Said("system"), Said("developer"), Said("user")>>
  /\ pending = <<>>
  /\ modelCalls = 0 /\ steps = 0 /\ errors = 0
  /\ stop = "none"

Running == stop = "none"
BudgetLeft == modelCalls < MaxSteps /\ steps < MaxSteps

NoBudget ==
  /\ Running
  /\ IF pending = <<>> THEN ~BudgetLeft ELSE steps >= MaxSteps
  /\ stop' = "max_steps"
  /\ UNCHANGED <<provider, messages, pending, modelCalls, steps, errors>>

Asking == Running /\ pending = <<>> /\ BudgetLeft

(* The connection, the server, a malformed call in the answer or the       *)
(* history itself: whatever the adapter raises ends the run, and nothing   *)
(* of the answer is kept.                                                  *)
AskFails ==
  /\ Asking
  /\ provider # "mock"
  /\ modelCalls' = modelCalls + 1
  /\ stop' = "provider_error"
  /\ UNCHANGED <<provider, messages, pending, steps, errors>>

Ask ==
  /\ Asking
  /\ provider = "mock" \/ ~Unsendable(messages)
  /\ \E text \in BOOLEAN, answer \in Answers :
       /\ provider = "mock" => text
       /\ \A k \in DOMAIN answer : ~Malformed(answer[k])
       /\ pending' = MapSeq(ToolCall, answer)
       /\ messages' = messages \o <<Assistant(text, pending')>>
                        \o (IF answer = <<>> THEN <<Said("user")>> ELSE <<>>)
  /\ modelCalls' = modelCalls + 1
  /\ UNCHANGED <<provider, steps, errors, stop>>

AtTool == Running /\ pending # <<>> /\ steps < MaxSteps

AtErrorLimit(n) == n >= MaxToolErrors

(* Any call that is carried out, or refused before a submission begins.    *)
CarryOut ==
  /\ AtTool
  /\ \/ Head(pending).name # "submit_patch" /\ errors' = errors
        /\ messages' = Append(messages, Result(Head(pending), "done"))
        /\ stop' = stop
     \/ errors' = errors + 1
        /\ messages' = Append(messages, Result(Head(pending), "failed"))
        /\ stop' = IF AtErrorLimit(errors') THEN "max_tool_errors" ELSE stop
  /\ pending' = Tail(pending)
  /\ steps' = steps + 1
  /\ UNCHANGED <<provider, modelCalls>>

(* Mutant: the rest of the response is left without results.               *)
SkipNothing(calls) == <<>>

SkipRemaining(calls) == [k \in DOMAIN calls |-> Result(calls[k], "skipped")]

(* A submission, with what the assessment made of it: ended as stored or   *)
(* as an error, counted as an error, the last one or not.  An assessment   *)
(* that raises ends the run without another request.                       *)
Submit ==
  /\ AtTool /\ Head(pending).name = "submit_patch"
  /\ \E ending \in {"submitted", "unsubmitted"}, invalid, last \in BOOLEAN :
       /\ ending = "unsubmitted" => invalid
       /\ errors' = IF invalid THEN errors + 1 ELSE errors
       /\ messages' = messages \o <<Result(Head(pending), ending)>>
                        \o SkipRemaining(Tail(pending)) \o <<Said("user")>>
       /\ stop' = IF AtErrorLimit(errors') THEN "max_tool_errors"
                  ELSE IF last THEN "patch_submitted" ELSE stop
  /\ pending' = <<>>
  /\ steps' = steps + 1
  /\ UNCHANGED <<provider, modelCalls>>

Next == NoBudget \/ AskFails \/ Ask \/ CarryOut \/ Submit

Spec == Init /\ [][Next]_vars

-----------------------------------------------------------------------------
(* Properties.                                                             *)

(* One type invariant: the errors stay within their limit.                 *)
TypeOK ==
  /\ provider \in Providers
  /\ \A i \in DOMAIN messages :
       /\ messages[i].role \in {"system", "developer", "user", "assistant", "tool"}
       /\ messages[i].role = "tool" => messages[i].ending \in Endings
       /\ messages[i].role = "assistant" => messages[i].calls \in Seq(Calls)
  /\ pending \in Seq(Calls) /\ Len(pending) <= MaxBatch
  /\ modelCalls \in 0..MaxSteps /\ steps \in 0..MaxSteps
  /\ errors \in 0..MaxToolErrors
  /\ stop \in {"none", "max_steps", "max_tool_errors", "provider_error", "patch_submitted"}

(* A run never fails because of its own history: whatever the model has    *)
(* answered before, each adapter can express it, the one of this run and   *)
(* those a later run of the same conversation might use.                   *)
HistoryConverts == Running => ~Unsendable(messages)

(* Items that are calls or results, with the calls still open after each.  *)
Open(items) ==
  LET step(open, item) ==
        IF item.kind = "call" THEN Append(open, item.id)
        ELSE IF item.kind = "result" /\ open # <<>> /\ Head(open) = item.id THEN Tail(open)
        ELSE IF item.kind # "result" /\ open = <<>> THEN open
        ELSE <<Missing>>
  IN FoldLeft(step, <<>>, items)

(* Every call in a request is answered once, in order, before anyone       *)
(* speaks again: also the calls a submission made stale.                   *)
CallsAreAnswered == Asking => Open(OpenAIInput(messages)) = <<>>

(* A request to the Messages API starts and ends with the user, its roles  *)
(* alternate, and results come before the text that follows them.          *)
TurnsAlternate ==
  Asking =>
    LET turns == AnthropicInput(messages) IN
    /\ Head(turns).role = "user" /\ Last(turns).role = "user"
    /\ \A i \in 1..(Len(turns) - 1) : turns[i].role # turns[i + 1].role
    /\ \A i \in DOMAIN turns : turns[i].role = "user" =>
         \A j, k \in DOMAIN turns[i].content :
           j < k /\ turns[i].content[k].kind = "result"
             => turns[i].content[j].kind = "result"

(* What a request says beyond the instructions, in order.                  *)
Spoken(items) == SelectSeq(items, LAMBDA item : item.kind \notin {"system", "developer"})

LocalSpoken(items) ==
  FlattenSeq([i \in DOMAIN items |->
    (IF items[i].text /\ items[i].role \in {"user", "assistant"}
     THEN <<Text(items[i].role)>> ELSE <<>>) \o items[i].calls])

(* The history is neutral: the three adapters tell the model the same, in  *)
(* the same order.                                                         *)
AdaptersAgree ==
  Asking =>
    LET told == Spoken(OpenAIInput(messages))
        turns == AnthropicInput(messages)
    IN /\ FlattenSeq([i \in DOMAIN turns |-> turns[i].content]) = told
       /\ LocalSpoken(LocalMessages(messages)) = told

=============================================================================

-------------------------------- MODULE ToolUsage --------------------------------
(***************************************************************************)
(* GET /analytics/tool-usage (analytics/service.py): how many tool calls   *)
(* agents made and how many failed, computed from the events of the runs,  *)
(* which the loop writes one by one (agents/loop.py) and joins only by the *)
(* ids models gave to their calls.                                         *)
(***************************************************************************)
EXTENDS Naturals, Sequences, FiniteSets, SequencesExt, FiniteSetsExt

CONSTANTS
  Runs,
  Scripted,    \* those driven without the loop: only agent_tool_call events
  ModelOf,     \* the provider and model of a run
  CallIds,     \* ids models give to their calls
  NoId,        \* a call without one
  Tools,       \* names of tools
  Unknown,     \* a name no tool has
  MaxCalls     \* of one run, bound of the model

Malformed == "malformed_tool_call"
Names == Tools \cup {Unknown, Malformed}

UsageAssumption ==
  /\ Scripted \subseteq Runs /\ IsFiniteSet(Runs) /\ DOMAIN ModelOf = Runs
  /\ NoId \notin CallIds /\ Unknown \notin Tools /\ MaxCalls \in Nat

VARIABLES
  events,  \* of each run: [type, id, name, category]
  call,    \* the call each run is in
  made     \* what the calls of each run came to, in order

vars == <<events, call, made>>

NoCall == [name |-> Unknown, id |-> NoId, pc |-> "none"]
Event(type, c, category) == [type |-> type, id |-> c.id, name |-> c.name, category |-> category]
OfType(log, types) == SelectSeq(log, LAMBDA e : e.type \in types)

-----------------------------------------------------------------------------
(* _tool_error_type *)
ErrorType(e) ==
  IF e.category # "none" THEN e.category
  ELSE IF e.name = Malformed THEN "malformed_tool_call"
  ELSE "tool_error"

Succeeded(name) == [name |-> name, success |-> TRUE, error |-> "none"]
FailedWith(name, error) == [name |-> name, success |-> FALSE, error |-> error]
Outcome(name, e) ==
  IF e.type = "tool_call_completed" THEN Succeeded(name) ELSE FailedWith(name, ErrorType(e))

(* The terminal event an id stands for: a failure rather than a success,   *)
(* and the latest of those.                                                *)
TerminalOf(terminals, id) ==
  LET of == {i \in DOMAIN terminals : terminals[i].id = id}
      failed == {i \in of : terminals[i].type = "tool_call_failed"}
  IN  IF id = NoId \/ of = {} THEN 0 ELSE IF failed = {} THEN Min(of) ELSE Max(failed)

(* _take_matching_terminal: a failure of that tool, any outcome of that    *)
(* tool, anything; 0 when there is nothing left.                           *)
Matching(unmatched, name) ==
  LET same == {i \in DOMAIN unmatched : unmatched[i].name = name}
      failed == {i \in same : unmatched[i].type = "tool_call_failed"}
  IN  IF failed # {} THEN Min(failed) ELSE IF same # {} THEN Min(same)
      ELSE IF unmatched # <<>> THEN 1 ELSE 0

ModernRecords(log) ==
  LET terminals == OfType(log, {"tool_call_completed", "tool_call_failed"})
      Record(state, request) ==
        LET t == TerminalOf(terminals, request.id)
            m == Matching(state.left, request.name)
        IN  IF t # 0
            THEN [state EXCEPT !.records = Append(@, Outcome(request.name, terminals[t]))]
            ELSE IF m # 0
            THEN [ left |-> RemoveAt(state.left, m),
                   records |-> Append(state.records, Outcome(request.name, state.left[m])) ]
            ELSE [state EXCEPT !.records =
                                Append(@, FailedWith(request.name, "incomplete_tool_call"))]
  IN  FoldLeft(Record, [left |-> SelectSeq(terminals, LAMBDA e : e.id = NoId), records |-> <<>>],
               OfType(log, {"tool_call_requested"})).records

LegacyRecords(log) ==
  LET own == OfType(log, {"agent_tool_call"})
  IN  [i \in DOMAIN own |-> IF own[i].category = "success" THEN Succeeded(own[i].name)
                            ELSE FailedWith(own[i].name, ErrorType(own[i]))]

Records(r) ==
  IF OfType(events[r], {"tool_call_requested"}) # <<>> THEN ModernRecords(events[r])
                                                       ELSE LegacyRecords(events[r])

FailedOf(records) == SelectSeq(records, LAMBDA c : ~c.success)
Row(runs) ==
  LET Total(Of(_)) == MapThenSumSet(Of, runs)
  IN  [ total |-> Total(LAMBDA r : Len(Records(r))),
        failed |-> Total(LAMBDA r : Len(FailedOf(Records(r)))),
        unknown |-> Total(LAMBDA r : Len(SelectSeq(Records(r),
                                                   LAMBDA c : c.error = "unknown_tool"))),
        malformed |-> Total(LAMBDA r : Len(SelectSeq(Records(r),
                                                     LAMBDA c : c.error = Malformed))),
        runs |-> Cardinality({r \in runs : FailedOf(Records(r)) # <<>>}) ]

Models == {ModelOf[r] : r \in {q \in Runs : Records(q) # <<>>}}
Usage ==
  [ all |-> Row(Runs),
    models |-> [m \in Models |-> Row({r \in Runs : ModelOf[r] = m})] ]

-----------------------------------------------------------------------------
TypeOK ==
  /\ \A r \in Runs : \A e \in ToSet(events[r]) :
       /\ e.type \in {"tool_call_requested", "agent_tool_call", "tool_call_completed",
                      "tool_call_failed"}
       /\ e.id \in CallIds \cup {NoId} /\ e.name \in Names
       /\ e.category \in {"none", "success", "unknown_tool", Malformed}
  /\ \A r \in Runs : /\ call[r].pc \in {"none", "requested", "executed", "refused"}
                     /\ Len(made[r]) <= MaxCalls

Init ==
  /\ events = [r \in Runs |-> <<>>] /\ call = [r \in Runs |-> NoCall]
  /\ made = [r \in Runs |-> <<>>]

Log(r, e) == events' = [events EXCEPT ![r] = Append(@, e)]

Request(r, name, id) ==
  /\ r \notin Scripted /\ call[r] = NoCall /\ Len(made[r]) < MaxCalls
  /\ call' = [call EXCEPT ![r] = [name |-> name, id |-> id, pc |-> "requested"]]
  /\ made' = [made EXCEPT ![r] = Append(@, "pending")]
  /\ Log(r, Event("tool_call_requested", [name |-> name, id |-> id], "none"))

Came(r, outcome) == made' = [made EXCEPT ![r] = [@ EXCEPT ![Len(@)] = outcome]]

(* The call has no id, no name or a name of no tool, or a gate refuses it. *)
Refuse(r) ==
  /\ call[r].pc \in {"requested", "refused"}
  /\ Log(r, Event("tool_call_failed", call[r],
                  CASE call[r].id = NoId \/ call[r].name = Malformed -> Malformed
                    [] call[r].id # NoId /\ call[r].name = Unknown -> "unknown_tool"
                    [] OTHER -> "none"))
  /\ Came(r, "failed") /\ call' = [call EXCEPT ![r] = NoCall]

Execute(r, success) ==
  /\ call[r].pc = "requested" /\ call[r].name \in Tools /\ call[r].id # NoId
  /\ Log(r, Event("agent_tool_call", [call[r] EXCEPT !.id = NoId],
                  IF success THEN "success" ELSE "none"))
  /\ call' = [call EXCEPT ![r] = [@ EXCEPT !.pc = IF success THEN "executed" ELSE "refused"]]
  /\ UNCHANGED made

Complete(r) ==
  /\ call[r].pc = "executed" /\ Log(r, Event("tool_call_completed", call[r], "none"))
  /\ Came(r, "completed") /\ call' = [call EXCEPT ![r] = NoCall]

(* A submitted patch turns out to be invalid: the same call failed, too.   *)
Invalid(r) ==
  /\ call[r] = NoCall /\ made[r] # <<>> /\ Last(made[r]) = "completed"
  /\ Last(events[r]).type = "tool_call_completed"
  /\ Log(r, [Last(events[r]) EXCEPT !.type = "tool_call_failed"])
  /\ Came(r, "failed") /\ UNCHANGED call

Script(r, name, success) ==
  /\ r \in Scripted /\ Len(made[r]) < MaxCalls
  /\ Log(r, Event("agent_tool_call", [name |-> name, id |-> NoId],
                  IF success THEN "success" ELSE "none"))
  /\ made' = [made EXCEPT ![r] = Append(@, IF success THEN "completed" ELSE "failed")]
  /\ UNCHANGED call

Terminated ==
  /\ \A r \in Runs : Len(made[r]) = MaxCalls /\ call[r] = NoCall
  /\ UNCHANGED vars

Next ==
  \/ \E r \in Runs :
       \/ \E name \in Names, id \in CallIds \cup {NoId} : Request(r, name, id)
       \/ Refuse(r) \/ Complete(r) \/ Invalid(r)
       \/ \E b \in BOOLEAN : Execute(r, b)
       \/ \E name \in Tools, b \in BOOLEAN : Script(r, name, b)
  \/ Terminated

Spec == Init /\ [][Next]_vars

-----------------------------------------------------------------------------
(* Properties *)

RequestsOf(r) == OfType(events[r], {"tool_call_requested"})
DistinctIds(r) ==
  \A i, j \in DOMAIN RequestsOf(r) :
    (i # j /\ RequestsOf(r)[i].id # NoId) => RequestsOf(r)[i].id # RequestsOf(r)[j].id
NumberThat(r, outcomes) == Cardinality({i \in DOMAIN made[r] : made[r][i] \in outcomes})

(* A call counts once, whichever of its events were written, and a run is  *)
(* counted by its requests or by the events of its tools, never by both    *)
(* (_load_tool_call_records).                                              *)
EveryCallCountsOnce ==
  \A r \in Runs :
    IF r \in Scripted THEN Len(Records(r)) = Len(made[r])
    ELSE Len(Records(r)) = Len(RequestsOf(r)) /\ Len(RequestsOf(r)) = Len(made[r])

(* When no two calls of a run share an id, as many calls count as failed   *)
(* as failed or have not ended, and as many as incomplete as have not      *)
(* ended, even where calls have no id and are matched with the outcomes of *)
(* others (_modern_tool_records).                                          *)
FailuresAgree ==
  \A r \in Runs :
    DistinctIds(r) =>
      /\ Len(FailedOf(Records(r))) = NumberThat(r, {"failed", "pending"})
      /\ Len(SelectSeq(Records(r), LAMBDA c : c.error = "incomplete_tool_call"))
           = NumberThat(r, {"pending"})

(* What the models' rows count adds up to what all calls count, with no    *)
(* model left out (tool_errors_by_model).                                  *)
RowsAddUp ==
  LET usage == Usage
  IN  \A field \in DOMAIN usage.all :
        MapThenSumSet(LAMBDA m : usage.models[m][field], DOMAIN usage.models) = usage.all[field]

(* docs/analytics.md: a request is "matched to its final tool_call_completed *)
(* or tool_call_failed event by tool-call ID".                             *)
FinalOutcomeCounts ==
  \A r \in Runs : \A n \in DOMAIN RequestsOf(r) :
    LET of == {i \in DOMAIN events[r] :
                 /\ events[r][i].type \in {"tool_call_completed", "tool_call_failed"}
                 /\ events[r][i].id = RequestsOf(r)[n].id}
    IN  (RequestsOf(r)[n].id # NoId /\ of # {}) =>
          Records(r)[n].success = (events[r][Max(of)].type = "tool_call_completed")
=============================================================================

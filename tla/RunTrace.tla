-------------------------------- MODULE RunTrace --------------------------------
(***************************************************************************)
(* What others see of a run: the event log the loop, the tools and the     *)
(* test phases write (agents/loop.py, agents/tools/service.py), its        *)
(* sanitized trace (run_traces/service.py) and the replay snapshot built   *)
(* from both in several reads while the run may go on                      *)
(* (replay_snapshots/service.py).                                          *)
(*                                                                         *)
(* The payload of an event is the set of the kinds of its keys: "status",  *)
(* "secret", "protected", "content" (raw text), "path", "gold" (a path     *)
(* with a gold marker) and "detail" for all others.  A payload is large    *)
(* when its sanitized form has more than MAX_TRACE_PAYLOAD_BYTES.          *)
(*                                                                         *)
(* The model starts when the run is running and no request that found it   *)
(* queued has yet to mark it so.  Its agent and the clients of the test    *)
(* route write side by side: whoever marks the run completed or failed,    *)
(* the others go on with what they have begun.                             *)
(***************************************************************************)
EXTENDS Naturals, Sequences, FiniteSets, SequencesExt, FiniteSetsExt

CONSTANTS
  CallIds,      \* ids models give to tool calls
  NoId,         \* a call without an id
  Payloads,     \* of tool calls and tool results: [keys, large]
  MaxCalls,     \* MAX_REPLAY_TOOL_CALLS
  Testers,      \* clients of the test route (api/routes/agent_run_tests.py)
  MaxRequests, MaxRows, MaxPhases, MaxSnapshots  \* bounds of the model

Kinds == {"status", "secret", "protected", "content", "path", "gold", "detail"}
Phases == {"setup", "baseline", "post_patch", "hidden_eval"}
Terminal == {"completed", "failed"}
Settling == {"tool_call_completed", "tool_call_failed"}
EventTypes ==
  {"model_call_completed", "tool_call_requested", "agent_tool_call", "test_phase_completed",
   "agent_run_completed", "agent_run_failed"} \cup Settling

Agent == "agent"
Writers == Testers \cup {Agent}

TraceAssumption ==
  /\ Agent \notin Testers
  /\ NoId \notin CallIds
  /\ Payloads \subseteq [keys : SUBSET Kinds, large : BOOLEAN]
  /\ MaxCalls \in Nat \ {0}
  /\ {MaxRequests, MaxRows, MaxPhases, MaxSnapshots} \subseteq Nat

VARIABLES
  log,       \* rows of agent_events
  rows,      \* rows of test_results: [phase, passed]
  status,    \* of the run
  failure,   \* the run has a failure classification
  call,      \* the tool call the loop is in: [pc, id, payload]
  at,        \* where a writer is: [pc, phase, passed]
  writes,    \* commits so far (history)
  view,      \* what the builder of a snapshot has read
  snapshots  \* those it has returned

traceVars == <<log, rows, status, failure, call, at, writes, view, snapshots>>

NoCall == [pc |-> "none", id |-> NoId, payload |-> [keys |-> {}, large |-> FALSE]]
NoView == [pc |-> "idle", status |-> "running", writers |-> {}, events |-> <<>>,
           phases |-> <<>>, failure |-> FALSE, from |-> 0]
At(pc) == [pc |-> pc, phase |-> "run", passed |-> TRUE]

Event(type, id, payload, success, phase) ==
  [type |-> type, id |-> id, keys |-> payload.keys, large |-> payload.large,
   success |-> success, phase |-> phase]
Plain == [keys |-> {"status", "detail"}, large |-> FALSE]

-----------------------------------------------------------------------------
(* AgentRunTraceService *)

IsHiddenContext(e) == e.phase = "hidden_eval"

(* A payload that is too large keeps no key a reader could look up. *)
Sanitize(e) ==
  LET kept == IF IsHiddenContext(e) THEN e.keys \cap {"status"} ELSE e.keys
      cut == e.large /\ ~IsHiddenContext(e)
  IN  [ keys |-> kept \ {"secret", "protected"}, marks |-> kept \cap {"secret", "protected"},
        cut |-> cut,
        id |-> IF cut \/ IsHiddenContext(e) THEN NoId ELSE e.id,
        success |-> IF cut THEN "unset" ELSE e.success ]

Paths(e) == IF IsHiddenContext(e) THEN {} ELSE e.keys \cap {"path"}

Severity(type, success) ==
  IF success = "no" \/ type \in {"tool_call_failed", "agent_run_failed"}
  THEN "error" ELSE "info"

EventRead(e) ==
  LET s == Sanitize(e)
  IN  [type |-> e.type, id |-> s.id, success |-> s.success, keys |-> s.keys, marks |-> s.marks,
       cut |-> s.cut, paths |-> Paths(e), severity |-> Severity(e.type, s.success)]

Trace(events) == [i \in DOMAIN events |-> EventRead(events[i])]

(* In the preferred order; phases without rows are left out. *)
PhaseSummaries(results) ==
  LET Of(p) == SelectSeq(results, LAMBDA r : r.phase = p)
      Summary(p) == [phase |-> p, count |-> Len(Of(p)),
                     passed |-> Len(SelectSeq(Of(p), LAMBDA r : r.passed))]
  IN  [i \in 1..Cardinality({r.phase : r \in ToSet(results)}) |->
         Summary(SelectSeq(<<"setup", "baseline", "post_patch", "hidden_eval">>,
                           LAMBDA p : Of(p) # <<>>)[i])]

-----------------------------------------------------------------------------
(* AgentRunReplaySnapshotService: calls and responses are listed by the    *)
(* positions of their events.                                              *)

Positions(trace, types) == {i \in DOMAIN trace : trace[i].type \in types}

(* The last terminal event with the id stands for a request. *)
TerminalOf(trace, id) ==
  Max({0} \cup {i \in Positions(trace, Settling) : trace[i].id = id /\ id # NoId})

Status(success) == IF success = "no" THEN "failed" ELSE "completed"

Requested(trace, i) ==
  LET t == TerminalOf(trace, trace[i].id)
  IN  [ status |-> IF t = 0 THEN "pending" ELSE Status(trace[t].success),
        output |-> IF t = 0 THEN {} ELSE trace[t].keys \ {"content"},
        paths |-> trace[i].paths \cup IF t = 0 THEN {} ELSE trace[t].paths ]

Executed(trace, i) ==
  [ status |-> Status(trace[i].success), output |-> trace[i].keys \ {"content"},
    paths |-> trace[i].paths ]

(* Both the request of a call and the tool's own event are entries. *)
ToolCallSequence(trace) ==
  LET entries == Positions(trace, {"tool_call_requested", "agent_tool_call"})
      shown == {i \in entries : Cardinality({j \in entries : j < i}) < MaxCalls}
  IN  [i \in shown |-> IF trace[i].type = "tool_call_requested" THEN Requested(trace, i)
                                                               ELSE Executed(trace, i)]

Responses(trace) == [i \in Positions(trace, {"model_call_completed"}) |-> trace[i]]

Truncated(trace) == \E i \in DOMAIN trace : trace[i].cut
(* What the checksum is over: all but the time of the export, and what the *)
(* model notes of it (from, to, writers).                                  *)
Content(s) == [s EXCEPT !.from = 0, !.to = 0, !.writers = {}, !.exported = 0]

-----------------------------------------------------------------------------
EventType ==
  [ type : EventTypes, id : CallIds \cup {NoId}, keys : SUBSET Kinds, large : BOOLEAN,
    success : {"yes", "no", "unset"}, phase : Phases \cup {"loop", "run"} ]

Places ==
  {"away", "loop", "testing", "refused", "settled", "unclassified", "broken", "completed",
   "failed"}

TraceTypeOK ==
  /\ log \in Seq(EventType) /\ rows \in Seq([phase : Phases, passed : BOOLEAN])
  /\ status \in Terminal \cup {"running"} /\ failure \in BOOLEAN
  /\ call.pc \in {"none", "requested", "executed", "refused", "submitted"}
  /\ call.id \in CallIds \cup {NoId} /\ call.payload \in Payloads \cup {NoCall.payload}
  /\ at \in [Writers -> [pc : Places, phase : Phases \cup {"run"}, passed : BOOLEAN]]
  /\ writes \in Nat
  /\ view.pc \in {"idle", "events", "phases", "counts"} /\ view.writers \subseteq Writers
  /\ \A s \in ToSet(snapshots) :
       \A i \in DOMAIN s.calls : s.calls[i].status \in {"pending", "completed", "failed"}

(* The agent is at work, or the run was begun by a request of its tests.   *)
TraceInit ==
  /\ log = <<>> /\ rows = <<>> /\ status = "running" /\ failure = FALSE
  /\ call = NoCall /\ writes = 0 /\ view = NoView /\ snapshots = <<>>
  /\ \E pc \in {"loop", "away"} : at = [w \in Writers |-> At(IF w = Agent THEN pc ELSE "away")]

Running == status = "running"
Looping == at[Agent].pc = "loop"
BetweenCalls == call.pc \in {"none", "submitted"}
Count(type) == Cardinality(Positions(log, {type}))

(* Whoever may still write a call or a result.                             *)
Busy(w) == at[w].pc \in {"loop", "testing"}
BusyWriters == {w \in Writers : Busy(w)}

Log(event) == log' = Append(log, event) /\ writes' = writes + 1

(* AgentLoop: a response, logged before its first call is requested.  The  *)
(* loop does not look at the status of the run.                            *)
ModelResponds ==
  /\ Looping /\ BetweenCalls /\ Count("model_call_completed") < MaxRequests
  /\ Log(Event("model_call_completed", NoId,
               [keys |-> {"status", "content"}, large |-> FALSE], "yes", "loop"))
  /\ call' = NoCall
  /\ UNCHANGED <<rows, status, failure, at, view, snapshots>>

Request(id, payload) ==
  /\ Looping /\ call = NoCall
  /\ Count("model_call_completed") > 0 /\ Count("tool_call_requested") < MaxRequests
  /\ Log(Event("tool_call_requested", id, payload, "unset", "loop"))
  /\ call' = [pc |-> "requested", id |-> id, payload |-> payload]
  /\ UNCHANGED <<rows, status, failure, at, view, snapshots>>

(* AgentWorkspaceTools._execute_tool, which logs the call by itself; with  *)
(* the event run_tests commits a row.                                      *)
Execute(success) ==
  /\ Looping /\ call.pc = "requested" /\ call.id # NoId
  /\ Log(Event("agent_tool_call", NoId, call.payload, success, "loop"))
  /\ call' = [call EXCEPT !.pc = IF success = "yes" THEN "executed" ELSE "refused"]
  /\ \/ rows' = rows
     \/ /\ success = "yes" /\ Len(rows) < MaxRows
        /\ \E b \in BOOLEAN : rows' = Append(rows, [phase |-> "post_patch", passed |-> b])
  /\ UNCHANGED <<status, failure, at, view, snapshots>>

(* An unknown or malformed call, or a gate that refuses: no tool runs. *)
Refuse ==
  /\ Looping /\ call.pc = "requested" /\ call' = [call EXCEPT !.pc = "refused"]
  /\ UNCHANGED <<log, rows, status, failure, at, writes, view, snapshots>>

(* A submission that is assessed as invalid is failed once more.           *)
FinishCall ==
  /\ Looping /\ call.pc \in {"executed", "refused", "submitted"}
  /\ Log(Event(IF call.pc = "executed" THEN "tool_call_completed" ELSE "tool_call_failed",
               call.id, Plain, "unset", "loop"))
  /\ call' \in {NoCall} \cup (IF call.pc = "executed" THEN {[call EXCEPT !.pc = "submitted"]}
                                                    ELSE {})
  /\ UNCHANGED <<rows, status, failure, at, view, snapshots>>

-----------------------------------------------------------------------------
(* TestExecutionService: a phase is admitted while the run is running;     *)
(* after that only a client's phase, or one of setup, marks the run.       *)

Back(w) == At(IF w = Agent THEN "loop" ELSE "away")

(* A client's phase whose patch cannot be applied runs no test.            *)
BeginPhase(w, phase) ==
  /\ Running
  /\ IF w = Agent
     THEN /\ Looping /\ BetweenCalls
          /\ phase \in {"setup", "baseline"} => Count("model_call_completed") = 0
     ELSE at[w].pc = "away" /\ phase \in {"setup", "post_patch"}
  /\ Count("test_phase_completed") + Cardinality({v \in Writers : at[v].phase \in Phases})
       < MaxPhases
  /\ \E pc \in {"testing"} \cup IF w # Agent /\ phase = "post_patch" THEN {"refused"} ELSE {} :
       at' = [at EXCEPT ![w] = [pc |-> pc, phase |-> phase, passed |-> TRUE]]
  /\ UNCHANGED <<log, rows, status, failure, call, writes, view, snapshots>>

(* _run_command *)
TestRow(w, passed) ==
  /\ at[w].pc = "testing" /\ Len(rows) < MaxRows
  /\ rows' = Append(rows, [phase |-> at[w].phase, passed |-> passed])
  /\ writes' = writes + 1 /\ at' = [at EXCEPT ![w].passed = @ /\ passed]
  /\ UNCHANGED <<log, status, failure, call, view, snapshots>>

(* run_baseline_tests of a client runs the setup commands first.           *)
SetUp(w) == w # Agent /\ at[w].phase = "setup" /\ at[w].passed

RunBaseline(w) ==
  /\ at[w].pc = "testing" /\ SetUp(w) /\ at' = [at EXCEPT ![w].phase = "baseline"]
  /\ UNCHANGED <<log, rows, status, failure, call, writes, view, snapshots>>

Finalizes(w) ==
  IF at[w].phase = "setup" THEN ~at[w].passed ELSE at[w].phase = "post_patch" /\ w # Agent

(* _mark_completed, _mark_failed: whatever the status has become.          *)
Finalize(w) ==
  /\ \/ /\ at[w].pc = "testing" /\ Finalizes(w)
        /\ status' = IF at[w].passed THEN "completed" ELSE "failed"
        /\ at' = [at EXCEPT ![w].pc = "settled"]
     \/ /\ at[w].pc = "refused" /\ status' = "failed"
        /\ at' = [at EXCEPT ![w].pc = "unclassified"]
  /\ writes' = writes + 1
  /\ UNCHANGED <<log, rows, failure, call, view, snapshots>>

(* _log_phase_completed *)
PhaseCompleted(w) ==
  /\ \/ at[w].pc = "testing" /\ ~Finalizes(w) /\ ~SetUp(w) /\ at' = [at EXCEPT ![w] = Back(w)]
     \/ /\ at[w].pc = "settled"
        /\ at' = [at EXCEPT ![w] = IF at[w].passed THEN At("away")
                                   ELSE [@ EXCEPT !.pc = "unclassified"]]
  /\ Log(Event("test_phase_completed", NoId, Plain, IF at[w].passed THEN "yes" ELSE "no",
               at[w].phase))
  /\ UNCHANGED <<rows, status, failure, call, view, snapshots>>

(* A command that cannot be run: the phase leaves without a word.          *)
BreakOff(w) ==
  /\ at[w].pc = "testing" /\ at' = [at EXCEPT ![w] = Back(w)]
  /\ UNCHANGED <<log, rows, status, failure, call, writes, view, snapshots>>

-----------------------------------------------------------------------------
(* start_run marks the run first, whatever its status; its event and the   *)
(* classification follow in commits of their own.  What raises after the   *)
(* run is completed has it marked failed.                                  *)
Mark(s) ==
  /\ at[Agent].pc \in IF s = "completed" THEN {"loop"} ELSE {"loop", "broken", "completed"}
  /\ BetweenCalls /\ call' = NoCall
  /\ status' = s /\ writes' = writes + 1 /\ at' = [at EXCEPT ![Agent] = At(s)]
  /\ UNCHANGED <<log, rows, failure, view, snapshots>>

LogEnd ==
  /\ at[Agent].pc \in Terminal
  /\ Log(Event(IF at[Agent].pc = "failed" THEN "agent_run_failed" ELSE "agent_run_completed",
               NoId, Plain, "unset", "run"))
  /\ at' = [at EXCEPT ![Agent] = At(IF @.pc = "failed" THEN "unclassified" ELSE "away")]
  /\ UNCHANGED <<rows, status, failure, call, view, snapshots>>

(* A failed setup phase has the agent raise after that.                    *)
ClassifyRun(w) ==
  /\ at[w].pc = "unclassified" /\ failure' = TRUE /\ writes' = writes + 1
  /\ at' = [at EXCEPT ![w] = At(IF w = Agent /\ @.phase = "setup" THEN "broken" ELSE "away")]
  /\ UNCHANGED <<log, rows, status, call, view, snapshots>>

(* build: the run is read once and stays in the session; then the events   *)
(* of the trace, the test results and the failure; the counts come last.   *)
Begin ==
  /\ view = NoView /\ Len(snapshots) < MaxSnapshots
  /\ view' = [NoView EXCEPT !.pc = "events", !.status = status, !.writers = BusyWriters,
                            !.from = writes]
  /\ UNCHANGED <<log, rows, status, failure, call, at, writes, snapshots>>

ReadEvents ==
  /\ view.pc = "events"
  /\ view' = [view EXCEPT !.pc = "phases", !.events = Trace(log)]
  /\ UNCHANGED <<log, rows, status, failure, call, at, writes, snapshots>>

ReadPhases ==
  /\ view.pc = "phases"
  /\ view' = [view EXCEPT !.pc = "counts", !.phases = PhaseSummaries(rows), !.failure = failure]
  /\ UNCHANGED <<log, rows, status, failure, call, at, writes, snapshots>>

(* Mutant: the status is read when the snapshot is put together. *)
BuildLateStatus ==
  /\ view.pc = "counts"
  /\ snapshots' =
       Append(snapshots,
              [ status |-> status, writers |-> BusyWriters,
                calls |-> ToolCallSequence(view.events),
                responses |-> Responses(view.events), phases |-> view.phases,
                failure |-> view.failure, eventCount |-> Len(log), resultCount |-> Len(rows),
                truncated |-> Truncated(view.events), from |-> view.from, to |-> writes,
                exported |-> Len(snapshots) + 1 ])
  /\ view' = NoView
  /\ UNCHANGED <<log, rows, status, failure, call, at, writes>>

Build ==
  /\ view.pc = "counts"
  /\ snapshots' =
       Append(snapshots,
              [ status |-> view.status, writers |-> view.writers,
                calls |-> ToolCallSequence(view.events),
                responses |-> Responses(view.events), phases |-> view.phases,
                failure |-> view.failure, eventCount |-> Len(log), resultCount |-> Len(rows),
                truncated |-> Truncated(view.events), from |-> view.from, to |-> writes,
                exported |-> Len(snapshots) + 1 ])
  /\ view' = NoView
  /\ UNCHANGED <<log, rows, status, failure, call, at, writes>>

TraceEnded ==
  /\ \A w \in Writers : at[w].pc = "away"
  /\ view = NoView /\ Len(snapshots) = MaxSnapshots /\ UNCHANGED traceVars

TraceNext ==
  \/ ModelResponds \/ Refuse \/ FinishCall \/ LogEnd
  \/ \E id \in CallIds \cup {NoId}, p \in Payloads : Request(id, p)
  \/ \E s \in {"yes", "no"} : Execute(s)
  \/ \E w \in Writers :
       \/ \E p \in Phases : BeginPhase(w, p)
       \/ \E b \in BOOLEAN : TestRow(w, b)
       \/ RunBaseline(w) \/ Finalize(w) \/ PhaseCompleted(w) \/ BreakOff(w) \/ ClassifyRun(w)
  \/ \E s \in Terminal : Mark(s)
  \/ Begin \/ ReadEvents \/ ReadPhases \/ Build
  \/ TraceEnded

TraceSpec == TraceInit /\ [][TraceNext]_traceVars

-----------------------------------------------------------------------------
(* Properties *)

Requests == Positions(log, {"tool_call_requested"})
Unique(i) == \A j \in Requests \ {i} : log[j].id # log[i].id
(* The terminal events between a request and the next one. *)
OutcomesOf(i) ==
  {j \in Positions(log, Settling) : j > i /\ \A k \in Requests : k > i => j < k}

(* What a hidden phase says beyond its status, and no secret or protected  *)
(* key of any event, is in the trace, nor raw content in a snapshot        *)
(* (_sanitize_payload, _replay_safe_tool_value).                           *)
NothingProtectedIsShown ==
  /\ \A i \in DOMAIN log :
       LET e == EventRead(log[i])
       IN  /\ e.keys \cap {"secret", "protected"} = {} /\ "gold" \notin e.paths
           /\ log[i].phase = "hidden_eval" => e.keys \subseteq {"status"} /\ e.paths = {}
  /\ \A s \in ToSet(snapshots) : \A i \in DOMAIN s.calls : "content" \notin s.calls[i].output

(* A snapshot that says the run has ended holds every call and response if *)
(* the loop had ended as well when the status was read, and every test     *)
(* result if no one was at work any more: whatever was written while it    *)
(* was put together, nothing is missing that is written later (build reads *)
(* the status before all else; a request that ends the run does not end    *)
(* the loop, test_execution/service.py:_mark_completed).                   *)
EndedIsWhole ==
  \A s \in ToSet(snapshots) :
    s.status \in Terminal =>
      /\ Agent \notin s.writers => /\ s.calls = ToolCallSequence(Trace(log))
                                  /\ s.responses = Responses(Trace(log))
      /\ s.writers = {} => s.phases = PhaseSummaries(rows) /\ s.resultCount = Len(rows)

Matchable(i) == log[i].id # NoId /\ ~log[i].large

(* A call whose request can be matched, having an id and a payload small   *)
(* enough to keep it, is pending only if it was the last one requested     *)
(* when the log was read, with the run ended or not; in the snapshot of a  *)
(* run that had ended with its loop it is not, and a call no other shares  *)
(* its id with shows what came of it.                                      *)
CallsAreSettled ==
  \A s \in ToSet(snapshots) : \A i \in DOMAIN s.calls \cap Requests :
    /\ s.calls[i].status = "pending" /\ Matchable(i)
         => \A k \in DOMAIN s.calls \cap Requests : k <= i
    /\ s.status \in Terminal /\ Agent \notin s.writers =>
         /\ s.calls[i].status = "pending" <=> ~Matchable(i)
         /\ s.calls[i].status # "pending" /\ Unique(i)
              => TerminalOf(Trace(log), log[i].id) \in OutcomesOf(i)

(* The trace marks every failure as an error, with and without a success   *)
(* field: the event of a call that failed as well as that of its tool      *)
(* (_event_severity).                                                      *)
FailuresAreErrors ==
  \A i \in DOMAIN log :
    EventRead(log[i]).severity = "error" <=>
      \/ log[i].type \in {"tool_call_failed", "agent_run_failed"}
      \/ log[i].success = "no" /\ ~EventRead(log[i]).cut

(* Two snapshots between which nothing was written have one checksum       *)
(* (_snapshot_checksum; docs/reporting.md: a stable checksum).             *)
ChecksumIsStable ==
  \A i, j \in DOMAIN snapshots :
    (i < j /\ snapshots[i].from = snapshots[j].to) => Content(snapshots[i]) = Content(snapshots[j])

(* A snapshot that says the run has ended holds all that those had done    *)
(* who were no longer at work, no call but the last is pending, what is    *)
(* protected is shown nowhere, failures are errors, and snapshots between  *)
(* which nothing was written agree (run_traces and replay_snapshots).      *)
TraceIsWhole ==
  /\ TraceTypeOK
  /\ EndedIsWhole
  /\ CallsAreSettled
  /\ NothingProtectedIsShown
  /\ FailuresAreErrors
  /\ ChecksumIsStable

(* A call whose only terminal event says it failed is shown as failed.     *)
(* docs/reporting.md: "They retain sanitized structured tool outcomes".    *)
FailedCallsAreShown ==
  \A s \in ToSet(snapshots) : \A i \in DOMAIN s.calls \cap Requests :
    s.calls[i].status # "pending" /\ Unique(i)
      /\ (\A j \in OutcomesOf(i) : log[j].type = "tool_call_failed")
         => s.calls[i].status = "failed"
=============================================================================

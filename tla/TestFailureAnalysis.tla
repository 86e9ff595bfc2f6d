-------------------------- MODULE TestFailureAnalysis --------------------------
(***************************************************************************)
(* The analyses of failed test commands (test_failure_analysis/service.py) *)
(* written by the test phases of a run (test_execution/service.py), by the *)
(* repair loop and by every reader of GET /test-failure-analysis.          *)
(*                                                                         *)
(* The output of a command is a sequence of lines; a line is the set of    *)
(* the patterns it matches: "node" and "header" (a failing test is named), *)
(* "error" and "named" (a line of an error, with the name of its class),   *)
(* "file" (a stack line or path), "gold" (the path has a gold or hidden    *)
(* marker), "timeout" and "cut" (the log was truncated).                   *)
(***************************************************************************)
EXTENDS Naturals, Sequences, FiniteSets, Functions

CONSTANTS
  Readers,    \* clients that read the analyses
  CommandOutcomes,   \* what a command may do: [exit, output]
  Script,     \* phases of the run in order: [phase, commands]
  MaxItems,   \* MAX_ITEMS_PER_FIELD
  MaxShown,   \* analyses in the feedback to the agent
  MaxReads    \* bound of the model

TestPhases == {"setup", "baseline", "post_patch", "hidden_eval"}
Patterns == {"node", "header", "error", "named", "file", "gold", "timeout", "cut"}
CommandResult == [exit : Nat, output : Seq(SUBSET Patterns)]
TestRow == [phase : TestPhases, exit : Nat, output : Seq(SUBSET Patterns)]
Service == "test execution"
Analyzers == Readers \cup {Service}
Aggregate == 0      \* the analysis key of all hidden results; others are row ids

AnalysisAssumption ==
  /\ CommandOutcomes \subseteq CommandResult
  /\ Script \in Seq([phase : TestPhases, commands : Nat \ {0}])
  /\ MaxItems \in Nat \ {0} /\ MaxShown \in Nat \ {0} /\ MaxReads \in Nat
  /\ IsFiniteSet(Readers) /\ Service \notin Readers

VARIABLES
  results,   \* rows of test_results
  position,  \* index into Script of the phase the service is in
  ran,       \* commands of that phase that have their row
  analysis,  \* what each analyzer is doing
  events,    \* test_failure_analysis events: [key, payload]
  feedback,  \* counts of the latest repair feedback
  reads,
  dead,      \* the service has died
  abandoned  \* rows of phases that broke off (history)

analysisVars == <<results, position, ran, analysis, events, feedback, reads, dead, abandoned>>

Idle == [todo |-> {}, asked |-> {}, again |-> FALSE, pc |-> "idle", found |-> 0,
         payload |-> <<>>, hidden |-> FALSE, key |-> 0, out |-> <<>>]

-----------------------------------------------------------------------------
(* Analysis of one output; what is found is the set of its lines.          *)

First(S) == CHOOSE i \in S : \A j \in S : i <= j

(* Of the lines in S the first ones, up to the limit with those before.    *)
Bounded(S, before) == {i \in S : before + Cardinality({j \in S : j < i}) < MaxItems}

Lines(output, patterns) == {i \in DOMAIN output : output[i] \cap patterns # {}}
Matching(output, patterns) == Bounded(Lines(output, patterns), 0)

(* The summary of pytest comes before the headers of its report.           *)
LikelyTests(output) ==
  LET nodes == Lines(output, {"node"})
  IN  Bounded(nodes, 0) \cup Bounded(Lines(output, {"header"}) \ nodes, Cardinality(nodes))

AffectedPaths(output) == Bounded(Lines(output, {"file"}) \ Lines(output, {"gold"}), 0)

IsTimeout(r) == r.exit = 124 \/ Lines(r.output, {"timeout"}) # {}
WasTruncated(r) == Lines(r.output, {"cut"}) # {}

(* The line that is the summary, 0 for a fixed text.                       *)
FailureSummary(r) ==
  LET excerpts == Matching(r.output, {"error", "named"})
      named == excerpts \cap Lines(r.output, {"named"})
  IN  IF IsTimeout(r) THEN 0
      ELSE IF named # {} THEN First(named)
      ELSE IF excerpts # {} THEN First(excerpts)
      ELSE Len(r.output)

AnalyzeVisible(r) ==
  [ phase |-> r.phase, exit |-> r.exit, summary |-> FailureSummary(r),
    tests |-> LikelyTests(r.output), excerpts |-> Matching(r.output, {"error", "named"}),
    stack |-> Matching(r.output, {"file"}), paths |-> AffectedPaths(r.output),
    timed |-> IsTimeout(r), failed |-> r.exit # 0 /\ ~IsTimeout(r),
    cut |-> WasTruncated(r), count |-> 1, total |-> 1 ]

Failed(i) == results[i].exit # 0
FailedOf(rows) == {i \in rows : Failed(i)}
Hidden == {i \in DOMAIN results : results[i].phase = "hidden_eval"}

HiddenAggregate ==
  LET failed == FailedOf(Hidden)
      timed == \E i \in failed : IsTimeout(results[i])
  IN  [ phase |-> "hidden_eval", exit |-> 0, summary |-> 0, tests |-> {},
        excerpts |-> {}, stack |-> {}, paths |-> {}, timed |-> timed,
        failed |-> failed # {} /\ ~timed,
        cut |-> \E i \in failed : WasTruncated(results[i]),
        count |-> Cardinality(failed), total |-> Cardinality(Hidden) ]

-----------------------------------------------------------------------------
AnalysisTypeOK ==
  /\ results \in Seq(TestRow)
  /\ position \in 1..Len(Script) + 1 /\ ran \in Nat
  /\ \A p \in Analyzers :
       /\ analysis[p].todo \subseteq analysis[p].asked
       /\ analysis[p].asked \subseteq DOMAIN results
       /\ analysis[p].pc \in {"idle", "next", "lookup", "store"}
       /\ analysis[p].found \in 0..Len(events)
  /\ \A e \in Range(events) : e.key \in {Aggregate} \cup DOMAIN results
  /\ reads \in 0..MaxReads /\ dead \in BOOLEAN /\ abandoned \subseteq DOMAIN results

AnalysisInit ==
  /\ results = <<>> /\ position = 1 /\ ran = 0
  /\ analysis = [p \in Analyzers |-> Idle]
  /\ events = <<>> /\ feedback = [rows |-> {}, failed |-> 0, total |-> 0, shown |-> 0]
  /\ reads = 0 /\ dead = FALSE /\ abandoned = {}

(* Mutant: no more failures are analyzed than are shown.                   *)
ToAnalyzeShown(rows) ==
  {i \in FailedOf(rows) : Cardinality({j \in FailedOf(rows) : j < i}) < MaxShown}
ToAnalyze(rows) == FailedOf(rows)
Begin(p, rows, again) ==
  analysis' = [analysis EXCEPT ![p] = [Idle EXCEPT !.pc = "next", !.todo = ToAnalyze(rows),
                                                   !.asked = FailedOf(rows), !.again = again]]

PhaseRows == Len(results) - ran + 1 .. Len(results)

(* _run_command: one row, committed by itself. *)
RunCommand(o) ==
  /\ ~dead /\ position <= Len(Script) /\ ran < Script[position].commands
  /\ results' = Append(results, [phase |-> Script[position].phase, exit |-> o.exit,
                                 output |-> o.output])
  /\ ran' = ran + 1
  /\ UNCHANGED <<position, analysis, events, feedback, reads, dead, abandoned>>

(* A command that cannot be run, or a hidden test whose workspace or       *)
(* definition is refused, ends its phase by an exception: the rows before  *)
(* it stay and are not analyzed.  start_run ends as well, but for phases   *)
(* clients still ask for.                                                  *)
BreakOff ==
  /\ ~dead /\ position <= Len(Script) /\ ran < Script[position].commands
  /\ position' \in {position + 1, Len(Script) + 1} /\ ran' = 0
  /\ abandoned' = abandoned \cup PhaseRows
  /\ UNCHANGED <<results, analysis, events, feedback, reads, dead>>

(* _analyze_failures, when all commands of the phase have run. *)
AnalyzePhase ==
  /\ ~dead /\ position <= Len(Script) /\ ran = Script[position].commands
  /\ analysis[Service].pc = "idle"
  /\ Begin(Service, PhaseRows, FALSE)
  /\ UNCHANGED <<results, position, ran, events, feedback, reads, dead, abandoned>>

(* list_for_run *)
Read(p) ==
  /\ reads < MaxReads /\ analysis[p].pc = "idle"
  /\ Begin(p, DOMAIN results, FALSE) /\ reads' = reads + 1
  /\ UNCHANGED <<results, position, ran, events, feedback, dead, abandoned>>

Alive(p) == p = Service => ~dead

(* The first of the rows that are left.                                    *)
IsNext(p, i) ==
  /\ Alive(p) /\ analysis[p].pc = "next"
  /\ i \in analysis[p].todo /\ \A j \in analysis[p].todo : i <= j

(* Mutant: hidden results are analyzed like the others.                    *)
AnalyzeOpenly(p, i) ==
  LET a == analysis[p]
  IN  /\ IsNext(p, i)
      /\ analysis' = [analysis EXCEPT ![p] =
           [a EXCEPT !.todo = @ \ {i}, !.pc = "lookup", !.key = i,
                     !.payload = AnalyzeVisible(results[i])]]
      /\ UNCHANGED <<results, position, ran, events, feedback, reads, dead, abandoned>>

(* analyze_results: the next failed result; hidden results once.           *)
Analyze(p, i) ==
  LET a == analysis[p]
      hidden == i \in Hidden
  IN  /\ IsNext(p, i)
      /\ analysis' = [analysis EXCEPT ![p] =
           IF hidden /\ a.hidden THEN [a EXCEPT !.todo = @ \ {i}]
           ELSE [a EXCEPT !.todo = @ \ {i}, !.pc = "lookup", !.hidden = @ \/ hidden,
                          !.key = IF hidden THEN Aggregate ELSE i,
                          !.payload = IF hidden THEN HiddenAggregate
                                      ELSE AnalyzeVisible(results[i])]]
      /\ UNCHANGED <<results, position, ran, events, feedback, reads, dead, abandoned>>

(* _persist looks for an event with the key, in no particular order ... *)
WithKey(k) == {j \in DOMAIN events : events[j].key = k}

Lookup(p) ==
  LET a == analysis[p] IN
  /\ Alive(p) /\ a.pc = "lookup"
  /\ \E j \in (IF WithKey(a.key) = {} THEN {0} ELSE WithKey(a.key)) :
       analysis' = [analysis EXCEPT ![p] = [a EXCEPT !.pc = "store", !.found = j]]
  /\ UNCHANGED <<results, position, ran, events, feedback, reads, dead, abandoned>>

(* ... and inserts or overwrites it in a commit of its own. *)
Store(p) ==
  LET a == analysis[p]
      e == [key |-> a.key, payload |-> a.payload]
  IN
  /\ Alive(p) /\ a.pc = "store"
  /\ events' = IF a.found = 0 THEN Append(events, e) ELSE [events EXCEPT ![a.found] = e]
  /\ analysis' = [analysis EXCEPT ![p] = [a EXCEPT !.pc = "next", !.out = Append(@, a.key)]]
  /\ UNCHANGED <<results, position, ran, feedback, reads, dead, abandoned>>

(* format_repair_feedback: the first analyses, and how many failed. *)
Shown(out) == IF Len(out) < MaxShown THEN Len(out) ELSE MaxShown
Feedback(out) == [rows |-> PhaseRows, failed |-> Len(out), total |-> ran, shown |-> Shown(out)]

(* The list is returned; the next phase begins.  The repair loop analyzes  *)
(* the failures of its post-patch phase again, for the feedback (assess).  *)
Return(p) ==
  LET a == analysis[p]
      again == p = Service /\ a.out # <<>> /\ Script[position].phase = "post_patch" /\ ~a.again
  IN
  /\ Alive(p) /\ a.pc = "next" /\ a.todo = {}
  /\ feedback' = IF a.again THEN Feedback(a.out) ELSE feedback
  /\ IF again THEN Begin(p, PhaseRows, TRUE) ELSE analysis' = [analysis EXCEPT ![p] = Idle]
  /\ IF p = Service /\ ~again THEN position' = position + 1 /\ ran' = 0
                              ELSE UNCHANGED <<position, ran>>
  /\ UNCHANGED <<results, events, reads, dead, abandoned>>

Crash ==
  /\ ~dead /\ position <= Len(Script)
  /\ dead' = TRUE /\ analysis' = [analysis EXCEPT ![Service] = Idle]
  /\ UNCHANGED <<results, position, ran, events, feedback, reads, abandoned>>

AnalysisStep(p) ==
  \/ \E i \in DOMAIN results : Analyze(p, i)
  \/ Lookup(p) \/ Store(p) \/ Return(p)
AnalysisEnded ==
  /\ dead \/ position > Len(Script)
  /\ \A p \in Analyzers : analysis[p].pc = "idle"
  /\ UNCHANGED analysisVars

AnalysisNext ==
  \/ \E o \in CommandOutcomes : RunCommand(o)
  \/ BreakOff \/ AnalyzePhase \/ Crash \/ AnalysisEnded
  \/ \E p \in Readers : Read(p)
  \/ \E p \in Analyzers : AnalysisStep(p)

RunAny == \E o \in CommandOutcomes : RunCommand(o)

(* Every running service and every running read goes on until it is done.  *)
AnalysisSpec ==
  /\ AnalysisInit /\ [][AnalysisNext]_analysisVars
  /\ WF_analysisVars(RunAny \/ BreakOff \/ AnalyzePhase)
  /\ \A p \in Analyzers : WF_analysisVars(AnalysisStep(p))

-----------------------------------------------------------------------------
(* Properties *)

(* Whatever analyzes in whatever order, an event about hidden results is   *)
(* the aggregate: no output of theirs, and counts that the rows of the     *)
(* run bear out.                                                           *)
HiddenStaysAggregate ==
  \A e \in Range(events) :
    IF e.key = Aggregate
    THEN /\ e.payload.tests \cup e.payload.excerpts \cup e.payload.stack \cup e.payload.paths = {}
         /\ e.payload.count \in 1..Cardinality(FailedOf(Hidden))
         /\ e.payload.total \in e.payload.count..Cardinality(Hidden)
    ELSE e.key \notin Hidden

(* A read answers with each failed visible result of the run once and in   *)
(* order, and with one aggregate for all hidden ones, at the first.        *)
InPlace(a, k) == IF k = Aggregate THEN First(a.asked \cap Hidden) ELSE k
AnswersInOrder ==
  \A p \in Analyzers : LET a == analysis[p] IN
    a.pc = "next" /\ a.todo = {} =>
      /\ Range(a.out) = (a.asked \ Hidden)
                          \cup (IF a.asked \cap Hidden = {} THEN {} ELSE {Aggregate})
      /\ \A i, j \in DOMAIN a.out : i < j => InPlace(a, a.out[i]) < InPlace(a, a.out[j])

(* A row is analyzed alike by everyone: its event never changes again,     *)
(* whoever writes it and however often, and no gold path is in its paths.  *)
AnalysesAgree ==
  \A e \in Range(events) : e.key # Aggregate =>
    /\ e.payload = AnalyzeVisible(results[e.key]) /\ Failed(e.key)
    /\ \A i \in e.payload.paths : "gold" \notin results[e.key].output[i]
    /\ \A S \in {e.payload.tests, e.payload.excerpts, e.payload.stack, e.payload.paths} :
         Cardinality(S) <= MaxItems

(* Repeated reads add no further event: there are never more events of     *)
(* one key than analyzers that can be at work at once.                     *)
BoundedDuplicates ==
  \A k \in {Aggregate} \cup DOMAIN results : Cardinality(WithKey(k)) <= Cardinality(Analyzers)

(* The agent is told how many of the commands of its attempt failed, also  *)
(* when fewer are described.                                               *)
FeedbackCounts ==
  feedback.total # 0 =>
    /\ \A i \in feedback.rows : i \in DOMAIN results /\ results[i].phase = "post_patch"
    /\ feedback.total = Cardinality(feedback.rows)
    /\ feedback.failed = Cardinality(FailedOf(feedback.rows))
    /\ feedback.shown \in 1..feedback.failed

(* Analyses show nothing of hidden tests but counts, name each failed      *)
(* result once and in order, agree whoever made them, and are not repeated *)
(* without bound, whatever reads overlap, and the agent is told the right  *)
(* numbers (list_for_run, analyze_results and _persist).                   *)
AnalysesAreFaithful ==
  /\ AnalysisTypeOK
  /\ HiddenStaysAggregate
  /\ AnswersInOrder
  /\ AnalysesAgree
  /\ BoundedDuplicates
  /\ FeedbackCounts

(* Stated by docs/test-execution.md: repeated reads update the existing    *)
(* event instead of creating duplicates.                                   *)
AnalysesAreNotDuplicated ==
  \A k \in {Aggregate} \cup DOMAIN results : Cardinality(WithKey(k)) <= 1

KeyOf(i) == IF i \in Hidden THEN Aggregate ELSE i

(* A failed row gets its event from its phase, unless that breaks off or   *)
(* the service dies, and in any case from a read that begins after it is   *)
(* committed, whatever the others do meanwhile (_analyze_failures,         *)
(* list_for_run).                                                          *)
EventuallyAnalyzed ==
  \A i \in 1..4 :
    /\ (i \in DOMAIN results /\ Failed(i))
         ~> (dead \/ i \in abandoned \/ WithKey(KeyOf(i)) # {})
    /\ \A p \in Readers :
         (i \in DOMAIN results /\ i \in analysis[p].asked) ~> (WithKey(KeyOf(i)) # {})

(* Stated by docs/test-execution.md: every failed result of a setup,       *)
(* baseline, post-patch or hidden phase produces an event.                 *)
EveryFailureIsAnalyzed ==
  \A i \in 1..4 :
    (i \in DOMAIN results /\ Failed(i)) ~> (dead \/ WithKey(KeyOf(i)) # {})
=============================================================================

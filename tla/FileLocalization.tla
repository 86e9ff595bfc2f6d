---------------------------- MODULE FileLocalization ----------------------------
(***************************************************************************)
(* GET /analytics/file-localization (analytics/file_localization.py): did  *)
(* the agents find the files of the gold patch before they edited?  It is  *)
(* computed from the events the tools and the loop write one by one, and   *)
(* may be asked for while runs go on.  A path is the sequence of its       *)
(* components.                                                             *)
(***************************************************************************)
EXTENDS Naturals, Sequences, FiniteSets, SequencesExt, FiniteSetsExt

CONSTANTS
  Runs,
  Files,       \* of the repository, as the tools name them
  GoldOf,      \* changed files of the gold patch of a run's task, {} if it has none
  MaxEvents    \* of one run, bound of the model

LocalizationAssumption ==
  /\ IsFiniteSet(Runs) /\ IsFiniteSet(Files) /\ MaxEvents \in Nat /\ DOMAIN GoldOf = Runs
  /\ \A f \in Files : f # <<>>

InspectionTools == {"read_file", "retrieve_relevant_files", "search_code"}

VARIABLES
  events,  \* of each run: [type, tool, success, read, modified, ranked]
  patch,   \* changed files of the generated patch, {} if there is none
  found,   \* what each run had found before its first edit
  edited   \* runs that have written a file or submitted a patch

vars == <<events, patch, found, edited>>

NoEvent == [type |-> "agent_tool_call", tool |-> "none", success |-> TRUE, read |-> <<>>,
            modified |-> {}, ranked |-> <<>>]

-----------------------------------------------------------------------------
(* _normalize_file_path: a leading "./", then one leading "a/" or "b/".    *)
Normalize(path) ==
  LET Drop(p, prefix) == IF Len(p) > 1 /\ p[1] = prefix THEN Tail(p) ELSE p
      bare == Drop(path, ".")
  IN  IF Drop(bare, "a") # bare THEN Tail(bare) ELSE Drop(bare, "b")

Gold(r) == {Normalize(f) : f \in GoldOf[r]}
EditedFiles(r) == {Normalize(f) : f \in patch[r]}

IsEdit(e) == e.type = "patch_submitted" \/ e.modified # {}

BeforeEdit(log) ==
  LET edits == {i \in DOMAIN log : IsEdit(log[i])}
  IN  IF edits = {} THEN log ELSE SubSeq(log, 1, Min(edits) - 1)

(* In the order they were first seen. *)
Unique(paths) == FoldLeft(LAMBDA seen, p : IF p \in ToSet(seen) THEN seen ELSE Append(seen, p),
                          <<>>, paths)
NormalizedAll(paths) == [i \in DOMAIN paths |-> Normalize(paths[i])]

Inspected(r) ==
  LET calls == SelectSeq(BeforeEdit(events[r]),
                         LAMBDA e : /\ e.type = "agent_tool_call" /\ e.success
                                    /\ e.tool \in InspectionTools)
  IN  Unique(NormalizedAll(FlattenSeq([i \in DOMAIN calls |-> calls[i].read])))

Candidates(r) ==
  LET rankings == SelectSeq(BeforeEdit(events[r]),
                            LAMBDA e : e.type = "candidate_files_submitted")
  IN  IF rankings = <<>> THEN <<>> ELSE Unique(NormalizedAll(Last(rankings).ranked))

-----------------------------------------------------------------------------
(* _RunLocalization, _aggregate and _missed_gold_files as counts *)

Eligible == {r \in Runs : Gold(r) # {}}
Found(r) == Gold(r) \cap ToSet(Inspected(r))
Hit(paths, k, gold) == \E i \in DOMAIN paths : i <= k /\ paths[i] \in gold

WithCandidates == {r \in Eligible : Candidates(r) # <<>>}
TopK(k) == Cardinality({r \in Eligible : Hit(Inspected(r), k, Gold(r))})
CandidateTopK(k) == Cardinality({r \in WithCandidates : Hit(Candidates(r), k, Gold(r))})

Aggregate ==
  [ total |-> Cardinality(Eligible), candidates |-> Cardinality(WithCandidates),
    scores |-> [r \in Eligible |-> <<Cardinality(Found(r)), Cardinality(Gold(r))>>],
    top |-> [k \in {1, 3, 5} |-> TopK(k)],
    candidateTop |-> [k \in {1, 3, 5} |-> CandidateTopK(k)],
    precision |-> [r \in Eligible |-> <<Cardinality(EditedFiles(r) \cap Gold(r)),
                                        Cardinality(EditedFiles(r))>>],
    read |-> MapThenSumSet(LAMBDA r : Len(Inspected(r)), Eligible),
    written |-> MapThenSumSet(LAMBDA r : Cardinality(EditedFiles(r)), Eligible) ]

Opportunities(f) == Cardinality({r \in Eligible : f \in Gold(r)})
Misses(f) == Cardinality({r \in Eligible : f \in Gold(r) /\ f \notin ToSet(Inspected(r))})

-----------------------------------------------------------------------------
TypeOK ==
  /\ \A r \in Runs :
       /\ patch[r] \subseteq Files /\ Len(events[r]) <= MaxEvents
       /\ \A f \in ToSet(Inspected(r)) \cup ToSet(Candidates(r)) :
            f \in {Normalize(g) : g \in Files}
  /\ edited \subseteq Runs

Init ==
  /\ events = [r \in Runs |-> <<>>] /\ patch = [r \in Runs |-> {}]
  /\ found = [r \in Runs |-> {}] /\ edited = {}

Log(r, e) ==
  Len(events[r]) < MaxEvents /\ events' = [events EXCEPT ![r] = Append(@, e)]

(* Any tool that reads: searches note the files they have read so far even *)
(* when they fail.                                                         *)
Read(r, tool, files, success) ==
  /\ Log(r, [NoEvent EXCEPT !.tool = tool, !.success = success, !.read = files])
  /\ found' = IF success /\ tool \in InspectionTools /\ r \notin edited
              THEN [found EXCEPT ![r] = @ \cup ToSet(files)] ELSE found
  /\ UNCHANGED <<patch, edited>>

Write(r, f, success) ==
  /\ Log(r, [NoEvent EXCEPT !.tool = "write_file", !.success = success,
                            !.modified = IF success THEN {f} ELSE {}])
  /\ edited' = IF success THEN edited \cup {r} ELSE edited
  /\ UNCHANGED <<patch, found>>

Rank(r, files) ==
  /\ Log(r, [NoEvent EXCEPT !.type = "candidate_files_submitted", !.ranked = files])
  /\ UNCHANGED <<patch, found, edited>>

(* submit_patch stores the patch and logs its own call; the loop's event   *)
(* follows in another commit.                                              *)
Store(r, files) ==
  /\ Log(r, [NoEvent EXCEPT !.tool = "submit_patch", !.read = SetToSeq(files)])
  /\ patch' = [patch EXCEPT ![r] = files] /\ UNCHANGED <<found, edited>>

Submit(r) ==
  /\ events[r] # <<>> /\ Last(events[r]).tool = "submit_patch"
  /\ Log(r, [NoEvent EXCEPT !.type = "patch_submitted"])
  /\ edited' = edited \cup {r} /\ UNCHANGED <<patch, found>>

Terminated == (\A r \in Runs : Len(events[r]) = MaxEvents) /\ UNCHANGED vars

Next ==
  \/ \E r \in Runs :
       \/ \E tool \in {"read_file", "get_diff"}, f \in Files, b \in BOOLEAN :
            Read(r, tool, <<f>>, b)
       \/ \E f \in Files, b \in BOOLEAN : Write(r, f, b)
       \/ \E f, g \in Files : Rank(r, <<f, g>>)
       \/ \E f \in Files : Store(r, {f})
       \/ Submit(r)
  \/ Terminated

Spec == Init /\ [][Next]_vars

-----------------------------------------------------------------------------
(* Properties *)

(* What a run has found is what it read successfully with a tool that      *)
(* inspects, before its first write or submission, once each               *)
(* (_ordered_pre_edit_inspections).                                        *)
FoundIsRead ==
  \A r \in Runs : /\ ToSet(Inspected(r)) = {Normalize(f) : f \in found[r]}
                  /\ Len(Inspected(r)) = Cardinality(ToSet(Inspected(r)))

(* After the first edit nothing changes any more: neither a later reading  *)
(* nor a later ranking improves what is reported.                          *)
KeepsFindings ==
  \A r \in edited : Inspected(r)' = Inspected(r) /\ Candidates(r)' = Candidates(r)

(* A hit among fewer files is one among more, no more runs hit than have   *)
(* found a gold file, and the files missed are those that were not found   *)
(* (_aggregate, _missed_gold_files).                                       *)
CountsFit ==
  LET a == Aggregate
      gold == UNION {Gold(r) : r \in Eligible}
  IN  /\ a.top[1] <= a.top[3] /\ a.top[3] <= a.top[5]
      /\ a.top[5] <= Cardinality({r \in Eligible : a.scores[r][1] > 0})
      /\ a.candidateTop[5] <= a.candidates
      /\ \A r \in Eligible : Len(Inspected(r)) > 0 =>
           Hit(Inspected(r), 1, Gold(r)) <=> Inspected(r)[1] \in Found(r)
      /\ MapThenSumSet(LAMBDA f : Opportunities(f) - Misses(f), gold)
           = MapThenSumSet(LAMBDA r : a.scores[r][1], Eligible)
=============================================================================

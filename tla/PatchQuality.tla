------------------------------ MODULE PatchQuality ------------------------------
(***************************************************************************)
(* The policy in front of stored patches (patch_quality/service.py) and    *)
(* its enforcement by the patch service (patches/service.py): limits,      *)
(* protected and generated files, justification of edited files by the     *)
(* evidence of the run, the trusted override and the minimization score.   *)
(*                                                                         *)
(* A patch is its set of paths, its size, whether it is binary and its     *)
(* hunks.  A hunk counts its lines:  added and removed of them are seen as *)
(* changed lines, hidden ones begin with ++ or -- themselves and look like *)
(* file headers.  Hunks with the same body repeat each other; distinct of  *)
(* the added lines differ.  Scores are in units of 0.0001.                 *)
(***************************************************************************)
EXTENDS Naturals, Sequences, FiniteSets, FiniteSetsExt, SequencesExt

CONSTANTS
  Kinds,       \* what the classifiers say of each path: path -> set of kinds
  Patches,     \* patches that may be submitted
  Evidence,    \* events the run may log: [type, files, ok]
  Gold,        \* changed files of the gold patch
  Policy,      \* settings and allowances of the task, see below
  NoPatch,     \* no patch
  Unmeasured,  \* no quality row
  MaxEvents, MaxStored   \* bounds of the model

Files == DOMAIN Kinds
KindNames == {"test", "docs", "config", "code", "lock", "dependency", "generated",
              "protected", "outside"}

QualityAssumption ==
  /\ \A f \in Files : /\ Kinds[f] \subseteq KindNames
                      /\ Kinds[f] \cap {"lock", "dependency"} # {} => "config" \in Kinds[f]
  /\ Policy \in [ bytes : Nat, pathLimit : Nat, files : Nat \ {0}, lines : Nat \ {0},
                  locks : BOOLEAN, dependencies : BOOLEAN,
                  inCandidates : BOOLEAN, inPlan : BOOLEAN,
                  tests : BOOLEAN, docs : BOOLEAN, config : BOOLEAN ]
  /\ MaxEvents \in Nat /\ MaxStored \in Nat

VARIABLES
  trusted,    \* the run was started with trusted_file_guardrail_override
  log,        \* reads, writes, rankings and plans of the run, in order
  overrides,  \* patches named by patch_file_guardrail_override events
  stored,     \* generated patches with their quality
  pending,    \* a client's patch between its application and its storage
  reapplied   \* the last verdict on a stored patch that is applied again

vars == <<trusted, log, overrides, stored, pending, reapplied>>

Nobody == [patch |-> NoPatch, override |-> FALSE]
NoVerdict == [index |-> 0, ok |-> TRUE]

-----------------------------------------------------------------------------
(* Kinds of files *)

Is(f, k) == k \in Kinds[f]
FilesOf(p) == {f \in p.files : ~Is(f, "protected")}
WithKind(p, k) == {f \in FilesOf(p) : Is(f, k)}

FileKind(f) ==
  CASE Is(f, "test") -> "test"
    [] ~Is(f, "test") /\ Is(f, "docs") -> "docs"
    [] Kinds[f] \cap {"test", "docs"} = {} /\ Is(f, "config") -> "config"
    [] Kinds[f] \cap {"test", "docs", "config"} = {} /\ Is(f, "code") -> "source"
    [] OTHER -> "other"

Sources(p) == {f \in FilesOf(p) : FileKind(f) = "source"}

-----------------------------------------------------------------------------
(* What the events of the run say *)

Latest(type) ==
  LET at == {i \in DOMAIN log : log[i].type = type /\ log[i].ok}
  IN  IF at = {} THEN {} ELSE {f \in log[Max(at)].files : ~Is(f, "protected")}

CandidateFiles == Latest("candidates")
PlannedFiles == Latest("plan")

Writes == {i \in DOMAIN log : log[i].type = "write" /\ log[i].ok}

(* _pre_edit_evidence_files: until the first successful edit. *)
InspectedFiles ==
  LET before == {j \in DOMAIN log : \A w \in Writes : j < w}
  IN  UNION {log[i].files : i \in {j \in before : log[j].type \in {"read", "candidates"} /\ log[j].ok}}

-----------------------------------------------------------------------------
(* Lines and hunks *)

SumOf(hunks, Op(_)) == MapThenSumSet(LAMBDA i : Op(hunks[i]), DOMAIN hunks)

Changed(h) == h.added + h.removed
Added(p) == SumOf(p.hunks, LAMBDA h : h.added)
Removed(p) == SumOf(p.hunks, LAMBDA h : h.removed)
TotalChanged(p) == Added(p) + Removed(p)

ParsedHunks(p) == SelectSeq(p.hunks, LAMBDA h : h.file \in FilesOf(p))
Count(p, Test(_)) == Len(SelectSeq(ParsedHunks(p), Test))

FormattingOnly(h) == h.added > 0 /\ h.removed > 0 /\ h.reformats
LargeRewrite(h) ==
  Changed(h) >= 120 \/ (Changed(h) >= 80 /\ h.added >= 20 /\ h.removed >= 20)
LooksGenerated(h) == h.marked \/ (h.added >= 20 /\ 100 * h.distinct <= 35 * h.added)

DuplicateEdits(p) ==
  LET hunks == ParsedHunks(p)
      first == {i \in DOMAIN hunks : \A j \in 1..(i - 1) : hunks[j].body # hunks[i].body}
      lines == SumOf(hunks, LAMBDA h : h.added)
      distinct == MapThenSumSet(LAMBDA i : hunks[i].distinct, first)
  IN  (Len(hunks) - Cardinality(first)) + (lines - distinct)

WhitespaceOnly(p) ==
  Added(p) > 0 /\ Removed(p) > 0 /\ \A i \in DOMAIN p.hunks : p.hunks[i].reformats

LinesOfKind(p, k) ==
  SumOf(SelectSeq(ParsedHunks(p), LAMBDA h : FileKind(h.file) = k), Changed)
FilesOfKind(p, k) == Cardinality({f \in FilesOf(p) : FileKind(f) = k})

Uninspected(p) == FilesOf(p) \ InspectedFiles

AtLeast(a, b) == IF a > b THEN a ELSE b
AtMost(a, b) == IF a < b THEN a ELSE b

MinimizationWarnings(p) ==
  LET files == Cardinality(FilesOf(p)) IN
  {w \in {"broad_patch", "large_rewrite", "formatting_only_change", "uninspected_file_modified",
          "generated_block_suspected", "excessive_test_changes", "excessive_config_changes"} :
     \/ w = "broad_patch" /\ (files >= 6 \/ Len(ParsedHunks(p)) >= 10 \/ TotalChanged(p) >= 250)
     \/ w = "large_rewrite" /\ Count(p, LargeRewrite) > 0
     \/ w = "formatting_only_change" /\ Count(p, FormattingOnly) > 0
     \/ w = "uninspected_file_modified" /\ Uninspected(p) # {}
     \/ w = "generated_block_suspected" /\ Count(p, LooksGenerated) > 0
     \/ w = "excessive_test_changes" /\
          (\/ FilesOfKind(p, "test") >= 3
           \/ LinesOfKind(p, "test") > AtLeast(100, 2 * LinesOfKind(p, "source")))
     \/ w = "excessive_config_changes" /\
          (FilesOfKind(p, "config") >= 3 \/ LinesOfKind(p, "config") > 100)}

Penalty(max, times, each) == AtMost(max, times * each)
Excess(n, free) == IF n > free THEN n - free ELSE 0

Penalties(p) ==
  LET files == Cardinality(FilesOf(p))
      warned(w, amount) == IF w \in MinimizationWarnings(p) THEN amount ELSE 0
  IN  [ files |-> Penalty(1500, Excess(files, 1), 200),
        hunks |-> Penalty(1000, Excess(Len(ParsedHunks(p)), files), 100),
        lines |-> Penalty(1500, Excess(TotalChanged(p), 20), 5),
        duplicates |-> Penalty(1000, DuplicateEdits(p), 200),
        formatting |-> Penalty(1000, Count(p, FormattingOnly), 500),
        rewrites |-> Penalty(2000, Count(p, LargeRewrite), 2000),
        generated |-> Penalty(2000, Count(p, LooksGenerated), 2000),
        uninspected |-> Penalty(2000, Cardinality(Uninspected(p)), 500),
        broad |-> warned("broad_patch", 2500),
        tests |-> warned("excessive_test_changes", 1000),
        config |-> warned("excessive_config_changes", 1000) ]

SumPenalties(p) == MapThenSumSet(LAMBDA k : Penalties(p)[k], DOMAIN Penalties(p))
Score(p) == 10000 - AtMost(SumPenalties(p), 10000)

-----------------------------------------------------------------------------
(* Violations and warnings *)

ScopeViolations(p) ==
  LET justified == CandidateFiles \cup PlannedFiles
      docs == WithKind(p, "docs")
      config == WithKind(p, "config")
      other == FilesOf(p) \ (Sources(p) \cup WithKind(p, "test") \cup docs \cup config)
  IN {v \in {"unranked", "unplanned", "tests", "docs", "config", "other"} :
        \/ v = "unranked" /\ Policy.inCandidates /\ ~(Sources(p) \subseteq CandidateFiles)
        \/ v = "unplanned" /\ Policy.inPlan /\ ~(FilesOf(p) \subseteq PlannedFiles)
        \/ v = "tests" /\ ~Policy.tests /\ WithKind(p, "test") # {}
        \/ v = "docs" /\ ~Policy.docs /\ ~(docs \subseteq justified)
        \/ v = "config" /\ ~Policy.config /\ ~(config \subseteq justified)
        \/ v = "other" /\ ~(other \subseteq justified)}

PolicyViolations(p) ==
  {v \in {"files", "lines", "generated", "protected", "lockfiles", "dependencies"} :
     \/ v = "files" /\ Cardinality(FilesOf(p)) > Policy.files
     \/ v = "lines" /\ TotalChanged(p) > Policy.lines
     \/ v = "generated" /\ WithKind(p, "generated") # {}
     \/ v = "protected" /\ FilesOf(p) # p.files
     \/ v = "lockfiles" /\ ~Policy.locks /\ WithKind(p, "lock") # {}
     \/ v = "dependencies" /\ ~Policy.dependencies
          /\ {f \in WithKind(p, "dependency") : ~Is(f, "lock")} # {}}

(* Mutant: the override lifts every rule. *)
ViolationsLifted(p, override) ==
  IF override THEN {} ELSE PolicyViolations(p) \cup ScopeViolations(p)
Violations(p, override) ==
  PolicyViolations(p) \cup (IF override THEN {} ELSE ScopeViolations(p))

Near(n, limit) == n >= (3 * limit + 3) \div 4 /\ n <= limit
Warnings(p, override) ==
  {w \in {"near files", "near lines", "unrelated", "whitespace", "lockfiles",
          "dependencies", "override"} :
     \/ w = "near files" /\ Near(Cardinality(FilesOf(p)), Policy.files)
     \/ w = "near lines" /\ Near(TotalChanged(p), Policy.lines)
     \/ w = "unrelated" /\ Gold # {} /\ ~(FilesOf(p) \subseteq Gold)
     \/ w = "whitespace" /\ WhitespaceOnly(p)
     \/ w = "lockfiles" /\ Policy.locks /\ WithKind(p, "lock") # {}
     \/ w = "dependencies" /\ Policy.dependencies /\ WithKind(p, "dependency") # {}
     \/ w = "override" /\ override /\ ScopeViolations(p) # {}}
  \cup MinimizationWarnings(p)

AnalyzePatch(p, override) ==
  [ violations |-> Violations(p, override), scope |-> ScopeViolations(p),
    warnings |-> Warnings(p, override), penalties |-> Penalties(p), score |-> Score(p),
    uninspected |-> Uninspected(p), lines |-> TotalChanged(p) ]

(* The patch service: paths, size and form first, then the policy. *)
WellFormed(p) ==
  /\ p.bytes <= Policy.bytes /\ ~p.binary
  /\ p.files # {} /\ Cardinality(p.files) <= Policy.pathLimit
  /\ \A f \in p.files : Kinds[f] \cap {"outside", "protected"} = {}

Accepted(p, override) == WellFormed(p) /\ Violations(p, override) = {}

(* Mutant: later instances of the service forget the audit. *)
HonoursRunOnly(run) == run
Honours(run) == run \/ overrides # {}

-----------------------------------------------------------------------------
TypeOK ==
  /\ trusted \in BOOLEAN
  /\ log \in Seq(Evidence) /\ Len(log) <= MaxEvents
  /\ overrides \subseteq Patches
  /\ Len(stored) <= MaxStored
  /\ \A i \in DOMAIN stored :
       /\ stored[i].patch \in Patches /\ stored[i].since \in 0..Len(log)
       /\ stored[i].quality = Unmeasured \/ stored[i].quality.score \in 0..10000
  /\ pending.patch \in Patches \cup {NoPatch}
  /\ reapplied.index \in 0..Len(stored)

(* A run may have a patch from before quality rows existed. *)
Init ==
  /\ trusted \in BOOLEAN /\ log = <<>> /\ overrides = {}
  /\ stored \in {<<>>} \cup {<<[patch |-> p, quality |-> Unmeasured, since |-> 0, legacy |-> TRUE]>> :
                               p \in {q \in Patches : WellFormed(q)}}
  /\ pending = Nobody /\ reapplied = NoVerdict

Observe(e) ==
  /\ Len(log) < MaxEvents
  /\ log' = Append(log, e)
  /\ UNCHANGED <<trusted, overrides, stored, pending, reapplied>>

Audit(p, override) ==
  overrides' = IF override /\ ScopeViolations(p) # {} THEN overrides \cup {p} ELSE overrides

(* store_generated_patch *)
StorePatch(p, override) ==
  /\ Len(stored) < MaxStored
  /\ IF Accepted(p, override)
     THEN /\ Audit(p, override)
          /\ stored' = Append(stored, [patch |-> p, quality |-> AnalyzePatch(p, override),
                                       since |-> Len(log), legacy |-> FALSE])
     ELSE UNCHANGED <<overrides, stored>>

Submit(p) ==
  /\ StorePatch(p, Honours(trusted))
  /\ UNCHANGED <<trusted, log, pending, reapplied>>

(* apply_unified_diff of a client, whose service has no option of its own  *)
(* and looks for the audit when it is made; then the patch is stored.      *)
ClientApplies(p) ==
  /\ pending = Nobody /\ Accepted(p, Honours(FALSE))
  /\ pending' = [patch |-> p, override |-> Honours(FALSE)]
  /\ UNCHANGED <<trusted, log, overrides, stored, reapplied>>

ClientStores ==
  /\ pending # Nobody
  /\ StorePatch(pending.patch, pending.override)
  /\ pending' = Nobody
  /\ UNCHANGED <<trusted, log, reapplied>>

(* ensure_patch_applied for a stored patch, by the test phases and by the  *)
(* run itself.                                                             *)
Reapply(i, run) ==
  /\ i \in DOMAIN stored
  /\ reapplied' = [index |-> i, ok |-> Accepted(stored[i].patch, Honours(run /\ trusted))]
  /\ UNCHANGED <<trusted, log, overrides, stored, pending>>

(* get_or_create *)
Measure(i) ==
  /\ i \in DOMAIN stored /\ stored[i].quality = Unmeasured
  /\ stored' = [stored EXCEPT ![i].quality = AnalyzePatch(stored[i].patch, FALSE)]
  /\ UNCHANGED <<trusted, log, overrides, pending, reapplied>>

Next ==
  \/ \E e \in Evidence : Observe(e)
  \/ \E p \in Patches : Submit(p) \/ ClientApplies(p)
  \/ ClientStores
  \/ \E i \in 1..MaxStored, run \in BOOLEAN : Reapply(i, run)
  \/ \E i \in 1..MaxStored : Measure(i)

Spec == Init /\ [][Next]_vars

-----------------------------------------------------------------------------
(* Properties *)

Measured == {i \in DOMAIN stored : stored[i].quality # Unmeasured}
Recent == {i \in DOMAIN stored : ~stored[i].legacy}

(* No override stores a patch with protected, generated or foreign files,  *)
(* too many of them, or unwanted lockfiles and manifests.                  *)
HardRulesHold ==
  \A i \in Recent : LET p == stored[i].patch IN
    /\ \A f \in p.files : /\ Kinds[f] \cap {"protected", "generated", "outside"} = {}
                          /\ Is(f, "lock") => Policy.locks
                          /\ Is(f, "dependency") /\ ~Is(f, "lock") => Policy.dependencies
    /\ Cardinality(p.files) <= Policy.files /\ ~p.binary /\ p.bytes <= Policy.bytes

(* A patch that breaks the rules of edited files is stored only with an    *)
(* audit event that names it, in a run that had the trusted option.        *)
ScopeOrAudit ==
  \A i \in Recent : stored[i].quality.scope # {} => stored[i].patch \in overrides /\ trusted

(* A stored patch can be applied again by every later phase, the trusted   *)
(* ones included, unless a ranking or a plan has replaced the evidence it  *)
(* was accepted on.                                                        *)
ReapplyAgrees ==
  [][ \A i \in Recent :
        reapplied' = [index |-> i, ok |-> FALSE] =>
          \/ reapplied' = reapplied
          \/ \E e \in (stored[i].since + 1)..Len(log) : log[e].type \in {"candidates", "plan"} ]_vars

(* The score of every measured patch is what its breakdown leaves of 1.0,  *)
(* and the smallest honest patch, one file that was read, one hunk of at   *)
(* most 20 lines of which none repeats, loses nothing unless it is marked  *)
(* as generated or only reformats.                                         *)
ScoreExplained ==
  \A i \in Measured : LET q == stored[i].quality
                          p == stored[i].patch
                          h == p.hunks[1]
                          sum == MapThenSumSet(LAMBDA k : q.penalties[k], DOMAIN q.penalties)
    IN  /\ q.score + AtMost(sum, 10000) = 10000
        /\ Cardinality(p.files) = 1 /\ Len(p.hunks) = 1 /\ TotalChanged(p) <= 20
           /\ q.uninspected = {} /\ ~h.marked /\ ~h.reformats /\ h.distinct = h.added
             => q.score = 10000
        /\ q.uninspected # {} => q.score <= 9500

(* What counts as inspected is settled by the first successful edit: no    *)
(* later read or ranking justifies an edit after the fact.                 *)
InspectedBeforeEdit == [][ Writes # {} => InspectedFiles' = InspectedFiles ]_vars

(* Stated by docs/patch-management.md: added plus removed lines of stored  *)
(* patches are capped.                                                     *)
LinesAreCapped ==
  \A i \in Recent : LET p == stored[i].patch IN
    SumOf(p.hunks, LAMBDA h : Changed(h) + h.hidden) <= Policy.lines

(* Stated by docs/patch-management.md: a later service honors the audit    *)
(* record when it applies the same patch again, so that a client's patch   *)
(* passes only by itself.                                                  *)
OverrideCoversItsPatch ==
  pending # Nobody /\ pending.override => pending.patch \in overrides \/ ScopeViolations(pending.patch) = {}
=============================================================================

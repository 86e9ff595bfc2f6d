------------------------------- MODULE PatchStore -------------------------------
(***************************************************************************)
(* PatchService (patches/service.py): diffs of a workspace, patches that   *)
(* are checked, applied and stored as numbered versions, and candidates    *)
(* that are restored.  Every git command is a step of its own: the agent   *)
(* and clients of POST /agent-runs/{id}/patch/apply interleave.  Module    *)
(* AgentRepair has the order in which the agent uses it; here the content  *)
(* of files is looked at, so that git's checks have an outcome.            *)
(*                                                                         *)
(* Git itself is external.  All changes of a file are one hunk: a patch    *)
(* applies if its files are as in the base commit, and it can be reversed  *)
(* if they are as the patch makes them, the last newline included.         *)
(*                                                                         *)
(* Every diff and every patch is held against the limits, and every patch  *)
(* against the policy, whose rules PatchQuality has: here a policy is the  *)
(* set of files that it lets the run change, which rankings and plans      *)
(* move.  The run is queued or running all the while (an ended one lets    *)
(* nobody begin), and not under the trusted override, which lifts these    *)
(* refusals and adds none.                                                 *)
(***************************************************************************)
EXTENDS Naturals, Sequences, FiniteSets, SequencesExt

CONSTANTS
  Tracked, New,   \* files that the base commit has and has not
  Texts,          \* what they may contain
  Endings,        \* does a written file end with a newline?
  Clients,
  Barred,         \* texts that make a diff binary or too long
  MaxFiles,       \* patch_max_changed_files
  Free,           \* files that may be changed without ranking or plan
  MaxEdits, MaxVersions, MaxRankings

Agent == "agent"

PatchStoreAssumption ==
  /\ Tracked \cap New = {} /\ Agent \notin Clients
  /\ Endings \subseteq BOOLEAN /\ "absent" \notin Texts
  /\ Barred \subseteq Texts /\ Free \subseteq Tracked \cup New
  /\ {MaxFiles, MaxEdits, MaxVersions, MaxRankings} \subseteq Nat

VARIABLES
  workspace,   \* file -> content
  rows,        \* generated_patches: the index is the version
  actor,       \* what the agent and each client are at
  justified,   \* files that the policy now lets a patch change
  rankings,    \* how often that was replaced
  edits

vars == <<workspace, rows, actor, justified, rankings, edits>>

policy == <<justified, rankings>>

Files == Tracked \cup New

Absent == [text |-> "absent", newline |-> TRUE]
Base(f) == [text |-> IF f \in Tracked THEN "base" ELSE "absent", newline |-> TRUE]
BaseTree == [f \in Files |-> Base(f)]

Contents == [text : Texts, newline : Endings] \cup {Absent}

(* A patch says what its files become; a file it leaves alone is as in the *)
(* base commit.                                                            *)
Trees == [Files -> Contents \cup {Base(f) : f \in Files} \cup [text : Texts, newline : {TRUE}]]

Idle == [pc |-> "idle", text |-> BaseTree, old |-> BaseTree, version |-> 0,
         goal |-> "none", answer |-> "none", applied |-> FALSE, ranked |-> 0]

ActorType ==
  [pc : {"idle", "ensure", "apply", "number", "insert", "undo", "verify"},
   text : Trees, old : Trees, version : 0..(MaxVersions + 1),
   goal : {"none", "store", "restore"}, answer : {"none", "ok", "refused"},
   applied : BOOLEAN, ranked : 0..MaxRankings]

TypeOK ==
  /\ workspace \in Trees
  /\ rows \in Seq(Trees) /\ Len(rows) <= MaxVersions
  /\ justified \subseteq Files
  /\ edits \in 0..MaxEdits /\ rankings \in 0..MaxRankings
  /\ actor \in [Clients \cup {Agent} -> ActorType]

(* The agent may have ranked and planned before it edits.                  *)
Init ==
  /\ workspace = BaseTree /\ rows = <<>>
  /\ actor = [a \in Clients \cup {Agent} |-> Idle]
  /\ \E ranked \in SUBSET Files : justified = Free \cup ranked
  /\ rankings = 0 /\ edits = 0

-----------------------------------------------------------------------------
(* What git says.                                                          *)

ChangedFiles(patch) == {f \in Files : patch[f] # Base(f)}

(* git diff shows tracked files as they are; _new_file_patch shows a new   *)
(* file by its lines.                                                      *)
Shown ==
  [f \in Files |-> IF f \in New THEN [workspace[f] EXCEPT !.newline = TRUE]
                                ELSE workspace[f]]

Applies(patch) == \A f \in ChangedFiles(patch) : workspace[f] = Base(f)

Reverses(patch) == \A f \in ChangedFiles(patch) : workspace[f] = patch[f]

With(patch) ==
  [f \in Files |-> IF f \in ChangedFiles(patch) THEN patch[f] ELSE workspace[f]]

Without(patch) ==
  [f \in Files |-> IF f \in ChangedFiles(patch) THEN Base(f) ELSE workspace[f]]

(* _validate_patch_limits, _reject_binary_patch and the size of new files; *)
(* a diff of the workspace and a patch meet the same.                      *)
WithinLimits(tree) ==
  /\ Cardinality(ChangedFiles(tree)) <= MaxFiles
  /\ \A f \in ChangedFiles(tree) : tree[f].text \notin Barred

(* _enforce_patch_quality, by what the run has ranked and planned now.     *)
Passes(patch) == ChangedFiles(patch) \subseteq justified

-----------------------------------------------------------------------------

Step(a, pc) == actor' = [actor EXCEPT ![a].pc = pc]

Answer(a, answer) == actor' = [actor EXCEPT ![a].pc = "idle", ![a].answer = answer]

(* write_file of the agent (its commands change the container only).       *)
Edit ==
  /\ actor[Agent].pc = "idle" /\ edits < MaxEdits
  /\ \E f \in Files, c \in [text : Texts, newline : Endings] :
       workspace[f] # c /\ workspace' = [workspace EXCEPT ![f] = c]
  /\ edits' = edits + 1
  /\ actor' = [actor EXCEPT ![Agent] = Idle]
  /\ UNCHANGED <<rows, policy>>

(* submit_candidate_files or submit_plan of the agent: the latest ranking  *)
(* and the latest accepted plan count.                                     *)
Rank ==
  /\ actor[Agent].pc = "idle" /\ rankings < MaxRankings
  /\ \E ranked \in SUBSET Files : justified' = Free \cup ranked
  /\ rankings' = rankings + 1
  /\ actor' = [actor EXCEPT ![Agent] = Idle]
  /\ UNCHANGED <<workspace, rows, edits>>

(* submit_patch: the diff of the workspace, when one can be taken, is      *)
(* stored.                                                                 *)
Submit ==
  /\ actor[Agent].pc = "idle" /\ Len(rows) < MaxVersions
  /\ Shown # BaseTree
  /\ actor' = [actor EXCEPT ![Agent] =
                 IF WithinLimits(Shown)
                 THEN [Idle EXCEPT !.pc = "number", !.text = Shown, !.goal = "store"]
                 ELSE [Idle EXCEPT !.text = Shown, !.goal = "store", !.answer = "refused"]]
  /\ UNCHANGED <<workspace, rows, policy, edits>>

(* POST /agent-runs/{id}/patch/apply with any patch against the base.      *)
Request(c) ==
  /\ actor[c] = Idle
  /\ \E patch \in Trees :
       /\ ChangedFiles(patch) # {} /\ \A f \in Files : patch[f] # Absent \/ f \in New
       /\ actor' = [actor EXCEPT ![c] =
                      [Idle EXCEPT !.pc = "ensure", !.text = patch, !.goal = "store"]]
  /\ UNCHANGED <<workspace, rows, policy, edits>>

(* restore_candidate up to the comparison with the present diff, which it  *)
(* has to take first.                                                      *)
Restore ==
  /\ actor[Agent].pc = "idle"
  /\ \E v \in DOMAIN rows :
       actor' = [actor EXCEPT ![Agent] =
         IF ~WithinLimits(Shown) \/ ~WithinLimits(rows[v])
         THEN [Idle EXCEPT !.text = rows[v], !.goal = "restore", !.answer = "refused"]
         ELSE IF Shown = rows[v]
         THEN [Idle EXCEPT !.text = rows[v], !.goal = "restore", !.answer = "ok"]
         ELSE [Idle EXCEPT !.pc = IF Shown = BaseTree THEN "ensure" ELSE "undo",
                           !.text = rows[v], !.old = Shown, !.goal = "restore"]]
  /\ UNCHANGED <<workspace, rows, policy, edits>>

(* The diff that was there is checked and reversed.                        *)
Undo(a) ==
  /\ actor[a].pc = "undo"
  /\ \/ /\ Reverses(actor[a].old)
        /\ workspace' = Without(actor[a].old) /\ Step(a, "ensure")
     \/ /\ ~Reverses(actor[a].old)
        /\ Answer(a, "refused") /\ UNCHANGED workspace
  /\ UNCHANGED <<rows, policy, edits>>

Applied(a) == IF actor[a].goal = "restore" THEN "verify" ELSE "number"

(* ensure_patch_applied up to the decision: the patch is held against the  *)
(* limits and the policy, then the diff of the workspace is taken.         *)
Ensure(a) ==
  LET patch == actor[a].text
      admitted == WithinLimits(patch) /\ Passes(patch) /\ WithinLimits(Shown)
      there == Reverses(patch) /\ (Shown = patch \/ ~Applies(patch))
      Pass(pc) == actor' = [actor EXCEPT ![a].pc = pc, ![a].ranked = rankings]
  IN
  /\ actor[a].pc = "ensure"
  /\ \/ admitted /\ there /\ Pass(Applied(a))
     \/ admitted /\ ~there /\ Applies(patch) /\ Pass("apply")
     \/ ~(admitted /\ (there \/ Applies(patch))) /\ Answer(a, "refused")
  /\ UNCHANGED <<workspace, rows, policy, edits>>

(* Mutant: a patch that does not apply is applied in part.                 *)
ApplyInPart(a) ==
  LET patch == actor[a].text IN
  /\ actor[a].pc = "apply"
  /\ workspace' = [f \in Files |-> IF f \in ChangedFiles(patch) /\ workspace[f] = Base(f)
                                   THEN patch[f] ELSE workspace[f]]
  /\ actor' = [actor EXCEPT ![a].applied = TRUE,
                            ![a].pc = IF Applies(patch) THEN Applied(a) ELSE "idle",
                            ![a].answer = IF Applies(patch) THEN "none" ELSE "refused"]
  /\ UNCHANGED <<rows, policy, edits>>

(* git apply, which does all or nothing.                                   *)
Apply(a) ==
  LET patch == actor[a].text IN
  /\ actor[a].pc = "apply"
  /\ \/ /\ Applies(patch)
        /\ workspace' = With(patch)
        /\ actor' = [actor EXCEPT ![a].pc = Applied(a), ![a].applied = TRUE]
     \/ ~Applies(patch) /\ Answer(a, "refused") /\ UNCHANGED workspace
  /\ UNCHANGED <<rows, policy, edits>>

Verify(a) ==
  /\ actor[a].pc = "verify"
  /\ Answer(a, IF WithinLimits(Shown) /\ Shown = actor[a].text THEN "ok" ELSE "refused")
  /\ UNCHANGED <<workspace, rows, policy, edits>>

(* store_generated_patch: the patch is held against limits and policy once *)
(* more, then the greatest version is read.                                *)
Number(a) ==
  LET admitted == WithinLimits(actor[a].text) /\ Passes(actor[a].text) IN
  /\ actor[a].pc = "number"
  /\ \/ /\ admitted
        /\ actor' = [actor EXCEPT ![a].pc = "insert", ![a].version = Len(rows) + 1]
     \/ ~admitted /\ Answer(a, "refused")
  /\ UNCHANGED <<workspace, rows, policy, edits>>

(* The insert, which the unique constraint refuses when somebody else has  *)
(* taken the number (MaxVersions bounds the rows).                         *)
Insert(a) ==
  /\ actor[a].pc = "insert"
  /\ \/ /\ actor[a].version = Len(rows) + 1 /\ Len(rows) < MaxVersions
        /\ rows' = Append(rows, actor[a].text)
        /\ Answer(a, "ok")
     \/ /\ actor[a].version <= Len(rows)
        /\ Answer(a, "refused") /\ UNCHANGED rows
  /\ UNCHANGED <<workspace, policy, edits>>

Terminated ==
  /\ edits = MaxEdits \/ Len(rows) = MaxVersions
  /\ UNCHANGED vars

Next ==
  \/ Edit \/ Rank \/ Submit \/ Restore
  \/ \E c \in Clients : Request(c)
  \/ \E a \in Clients \cup {Agent} :
       Undo(a) \/ Ensure(a) \/ Apply(a) \/ Verify(a) \/ Number(a) \/ Insert(a)
  \/ Terminated

Spec == Init /\ [][Next]_vars

-----------------------------------------------------------------------------
(* Properties.                                                             *)

(* Versions are immutable, whoever else stores one: "New submissions ...   *)
(* never overwrite earlier reviewed contents" (docs/patch-management.md),  *)
(* and a request that is answered well has its own version.                *)
VersionsAreImmutable == [][IsPrefix(rows, rows')]_rows

OwnVersion ==
  \A a \in DOMAIN actor :
    actor[a].answer = "ok" /\ actor[a].goal = "store" =>
      rows[actor[a].version] = actor[a].text

(* A patch that was put into the workspace and then refused has lost the   *)
(* race for its number, or a ranking or plan of the agent has come between *)
(* the two checks of the policy (client), or the candidate that was        *)
(* restored met the edit of a client (agent); nothing else leaves changes  *)
(* behind.                                                                 *)
LeftBehindByRacesOnly ==
  \A a \in DOMAIN actor :
    actor[a].answer = "refused" /\ actor[a].applied =>
      IF actor[a].goal = "store"
      THEN actor[a].version \in DOMAIN rows \/ actor[a].ranked < rankings
      ELSE \E c \in Clients : actor[c] # Idle

(* With nobody else at work, a restored candidate is what the workspace    *)
(* shows, and exactly what it has unless a new file has no newline at its  *)
(* end.  A restore is refused for such a file, for a workspace beyond the  *)
(* limits, or because the present ranking and plan no longer let the       *)
(* candidate through, and then the workspace is at the base commit         *)
(* (restore_candidate with ensure_patch_applied).                          *)
RestoreSucceeds ==
  LET me == actor[Agent]
      unterminated == \E f \in New : ~workspace[f].newline
  IN  (\A c \in Clients : actor[c] = Idle) /\ me.goal = "restore" =>
        /\ me.answer = "ok" => Shown = me.text /\ (~unterminated => workspace = me.text)
        /\ me.answer = "refused" =>
             \/ unterminated \/ ~WithinLimits(Shown)
             \/ ~Passes(me.text) /\ workspace = BaseTree

(* What holds of the store and of everybody who uses it.                   *)
StoreIsSound == TypeOK /\ OwnVersion /\ LeftBehindByRacesOnly /\ RestoreSucceeds

-----------------------------------------------------------------------------
(* Statements of the documentation.                                        *)

(* "Later failed or unfinished edits are safely reverted through checked   *)
(* workspace diffs when restoring a selected candidate"                    *)
(* (docs/agent-loop.md): it is not refused when nobody else is at work.    *)
EditsAreReverted ==
  (\A c \in Clients : actor[c] = Idle) /\ actor[Agent].goal = "restore" =>
    actor[Agent].answer # "refused"

=============================================================================

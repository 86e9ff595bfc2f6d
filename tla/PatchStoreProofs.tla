----------------------------- MODULE PatchStoreProofs ----------------------------
(***************************************************************************)
(* Proofs about PatchStore for any files, contents, clients, edits and     *)
(* versions: versions stay and belong to who was told so, and what a       *)
(* refusal leaves behind, and a restored candidate, is as stated.          *)
(***************************************************************************)
EXTENDS PatchStore, TLAPS

USE DEF policy

(* What goes with the place that somebody is at.                           *)
PlaceFits(a) ==
  /\ actor[a].pc # "idle" => actor[a].answer = "none" /\ actor[a].text # BaseTree
  /\ actor[a].pc \in {"undo", "ensure", "apply"} => actor[a].applied = FALSE
  /\ actor[a].pc \in {"number", "insert"} => actor[a].goal = "store"
  /\ actor[a].pc \in {"undo", "verify"} => actor[a].goal = "restore"
  /\ actor[a].pc = "insert" => actor[a].version # 0
  /\ actor[a].pc \in {"apply", "verify", "number", "insert"} => WithinLimits(actor[a].text)
  /\ actor[a].goal = "restore" => a = Agent
  /\ actor[a].goal = "restore" /\ actor[a].pc # "idle" => WithinLimits(actor[a].text)
  /\ actor[a].goal = "none" => actor[a].pc = "idle" /\ actor[a].answer = "none"

PlacesFit == \A a \in Clients \cup {Agent} : PlaceFits(a)

(* A patch that was let through still is, unless files have been ranked    *)
(* since.                                                                  *)
JudgedFits(a) ==
  /\ actor[a].ranked <= rankings
  /\ actor[a].pc = "apply" \/ (actor[a].pc # "idle" /\ actor[a].applied = TRUE) =>
       (actor[a].ranked = rankings => Passes(actor[a].text))

AllJudged == \A a \in Clients \cup {Agent} : JudgedFits(a)

(* Who was told so has a version, and who was refused at the insert had    *)
(* one that somebody else has taken.                                       *)
VersionFits(a) ==
  actor[a].goal = "store" =>
    /\ actor[a].answer = "ok" =>
         actor[a].version \in DOMAIN rows /\ rows[actor[a].version] = actor[a].text
    /\ actor[a].answer = "refused" /\ actor[a].applied = TRUE =>
         actor[a].version \in DOMAIN rows \/ actor[a].ranked < rankings

VersionsFit == \A a \in Clients \cup {Agent} : VersionFits(a)

RowsChange == \A v \in DOMAIN rows : rows[v] # BaseTree /\ WithinLimits(rows[v])

(* With no client at work, what is stored is what a diff can show; the     *)
(* workspace goes from what it was over the base commit to the patch.      *)
Quiet == \A c \in Clients : actor[c] = Idle

AsShown(tree) == \A f \in New : tree[f].newline = TRUE

(* What a restore may be refused for.                                      *)
Excused ==
  \/ ~AsShown(workspace) \/ ~WithinLimits(Shown)
  \/ ~Passes(actor[Agent].text) /\ workspace = BaseTree

RestoreFits ==
  Quiet =>
    LET me == actor[Agent] IN
    /\ \A v \in DOMAIN rows : AsShown(rows[v])
    /\ me.pc # "idle" => AsShown(me.text)
    /\ me.goal = "restore" =>
         /\ me.pc = "undo" => me.old = Shown
         /\ me.pc \in {"ensure", "apply"} => workspace = BaseTree
         /\ me.pc = "verify" => workspace = me.text
         /\ me.answer = "ok" => Shown = me.text
         /\ me.answer = "refused" => me.applied = FALSE /\ Excused

StoreInv == TypeOK /\ PlacesFit /\ AllJudged /\ VersionsFit /\ RowsChange /\ RestoreFits

-----------------------------------------------------------------------------
(* Data.                                                                   *)

Content == Contents \cup {Base(f) : f \in Files} \cup [text : Texts, newline : {TRUE}]

LEMMA RecordUpdated ==
  ASSUME NEW c, c = [text |-> c.text, newline |-> c.newline]
  PROVE  [c EXCEPT !.newline = TRUE] = [text |-> c.text, newline |-> TRUE]
  <1> DEFINE new == [c EXCEPT !.newline = TRUE]
  <1>1. DOMAIN c = {"text", "newline"}
    OBVIOUS
  <1>2. new.text = c.text /\ new.newline = TRUE
    BY <1>1
  <1>3. new = [f \in {"text", "newline"} |-> new[f]]
    BY <1>1
  <1> HIDE DEF new
  <1>4. new = [text |-> c.text, newline |-> TRUE]
    BY <1>2, <1>3
  <1> QED
    BY <1>4 DEF new

LEMMA ContentFields ==
  ASSUME PatchStoreAssumption, NEW c \in Content
  PROVE  /\ c = [text |-> c.text, newline |-> c.newline] /\ c.newline \in BOOLEAN
         /\ [c EXCEPT !.newline = TRUE] = [text |-> c.text, newline |-> TRUE]
         /\ [text |-> c.text, newline |-> TRUE] \in Content
         /\ c.text = "absent" => c.newline = TRUE
  <1>1. ASSUME c \in [text : Texts, newline : Endings] \cup [text : Texts, newline : {TRUE}]
        PROVE  /\ c = [text |-> c.text, newline |-> c.newline] /\ c.newline \in BOOLEAN
               /\ [text |-> c.text, newline |-> TRUE] \in Content
               /\ c.text = "absent" => c.newline = TRUE
    <2>1. c.text \in Texts /\ c.newline \in Endings \cup {TRUE}
      BY <1>1
    <2>2. c = [text |-> c.text, newline |-> c.newline]
      BY <1>1
    <2>3. [text |-> c.text, newline |-> TRUE] \in Content
      BY <2>1 DEF Content
    <2> QED
      BY <2>1, <2>2, <2>3 DEF PatchStoreAssumption
  <1>2. ASSUME c = Absent \/ \E f \in Files : c = Base(f)
        PROVE  /\ c = [text |-> c.text, newline |-> c.newline] /\ c.newline = TRUE
               /\ [text |-> c.text, newline |-> TRUE] = c
    BY <1>2 DEF Absent, Base
  <1>3. /\ c = [text |-> c.text, newline |-> c.newline] /\ c.newline \in BOOLEAN
        /\ [text |-> c.text, newline |-> TRUE] \in Content
        /\ c.text = "absent" => c.newline = TRUE
    BY <1>1, <1>2 DEF Content, Contents
  <1> QED
    BY <1>3, RecordUpdated

LEMMA TreeFields ==
  /\ Trees = [Files -> Content] /\ BaseTree \in Trees
  /\ \A f \in Files : Base(f) \in Content /\ BaseTree[f] = Base(f)
  BY DEF Trees, Content, BaseTree

LEMMA ShownFields ==
  ASSUME PatchStoreAssumption, workspace \in Trees
  PROVE  /\ Shown \in Trees /\ AsShown(Shown)
         /\ \A f \in New : f \in Files /\ Shown[f] = [text |-> workspace[f].text, newline |-> TRUE]
         /\ \A f \in Files \ New : Shown[f] = workspace[f]
  <1>1. \A f \in Files : workspace[f] \in Content
    BY TreeFields
  <1>2. \A f \in Files \ New : Shown[f] = workspace[f]
    BY DEF Shown
  <1>3. ASSUME NEW f \in New
        PROVE  f \in Files /\ Shown[f] = [text |-> workspace[f].text, newline |-> TRUE]
    <2>1. f \in Files
      BY DEF Files
    <2>2. Shown[f] = [workspace[f] EXCEPT !.newline = TRUE]
      BY <2>1 DEF Shown
    <2> QED
      BY <1>1, <2>1, <2>2, ContentFields
  <1>4. ASSUME NEW f \in Files PROVE Shown[f] \in Content
    <2>1. CASE f \in New
      <3>1. Shown[f] = [text |-> workspace[f].text, newline |-> TRUE]
        BY <1>3, <2>1
      <3>2. [text |-> workspace[f].text, newline |-> TRUE] \in Content
        <4>1. workspace[f] \in Content
          BY <1>1
        <4> QED
          BY <4>1, ContentFields
      <3> QED
        BY <3>1, <3>2
    <2>2. CASE f \notin New
      <3>1. Shown[f] = workspace[f]
        BY <1>2, <2>2
      <3> QED
        BY <1>1, <3>1
    <2> QED
      BY <2>1, <2>2
  <1>5. Shown \in Trees
    BY <1>4, TreeFields DEF Shown
  <1>6. \A f \in New : Shown[f].newline = TRUE
    <2>1. ASSUME NEW f \in New PROVE Shown[f].newline = TRUE
      <3>1. Shown[f] = [text |-> workspace[f].text, newline |-> TRUE]
        BY <1>3
      <3> QED
        BY <3>1
    <2> QED
      BY <2>1
  <1> QED
    BY <1>2, <1>3, <1>5, <1>6 DEF AsShown

LEMMA SameAsShown ==
  ASSUME PatchStoreAssumption, workspace \in Trees, AsShown(workspace)
  PROVE  Shown = workspace
  <1>1. \A f \in Files : workspace[f] \in Content
    BY TreeFields
  <1>2. \A f \in Files : Shown[f] = workspace[f]
    <2>1. ASSUME NEW f \in New PROVE Shown[f] = workspace[f]
      <3>1. f \in Files /\ Shown[f] = [text |-> workspace[f].text, newline |-> TRUE]
        BY ShownFields
      <3>2. workspace[f] = [text |-> workspace[f].text, newline |-> workspace[f].newline]
        BY <1>1, <3>1, ContentFields
      <3>3. workspace[f].newline = TRUE
        BY DEF AsShown
      <3> QED
        BY <3>1, <3>2, <3>3
    <2> QED
      BY <2>1, ShownFields
  <1>3. Shown \in [Files -> Content] /\ workspace \in [Files -> Content]
    BY ShownFields, TreeFields
  <1> QED
    BY <1>2, <1>3

LEMMA UnchangedAsShown ==
  ASSUME PatchStoreAssumption, workspace \in Trees, NEW f \in Files, Shown[f] = Base(f)
  PROVE  workspace[f] = Base(f)
  <1>1. workspace[f] \in Content
    BY TreeFields
  <1>2. CASE f \in New
    <2>1. Base(f) = [text |-> "absent", newline |-> TRUE]
      BY <1>2 DEF Base, PatchStoreAssumption
    <2>2. [text |-> workspace[f].text, newline |-> TRUE] = [text |-> "absent", newline |-> TRUE]
      BY <1>2, <2>1, ShownFields
    <2>3. workspace[f].text = "absent"
      BY <2>2
    <2>4. /\ workspace[f] = [text |-> workspace[f].text, newline |-> workspace[f].newline]
          /\ workspace[f].newline = TRUE
      BY <1>1, <2>3, ContentFields
    <2> QED
      BY <2>1, <2>3, <2>4
  <1>3. CASE f \notin New
    BY <1>3, ShownFields
  <1> QED
    BY <1>2, <1>3

LEMMA BaseIsShown ==
  ASSUME PatchStoreAssumption, workspace \in Trees, Shown = BaseTree
  PROVE  workspace = BaseTree
  <1>1. \A f \in Files : workspace[f] = BaseTree[f]
    BY UnchangedAsShown, TreeFields
  <1>2. workspace \in [Files -> Content] /\ BaseTree \in [Files -> Content]
    BY TreeFields
  <1> QED
    BY <1>1, <1>2

LEMMA OverBase ==
  ASSUME workspace = BaseTree, NEW patch \in Trees
  PROVE  Applies(patch) /\ With(patch) = patch
  <1>1. Applies(patch)
    BY TreeFields DEF Applies, ChangedFiles
  <1>2. \A f \in Files : With(patch)[f] = patch[f]
    BY TreeFields DEF With, ChangedFiles
  <1>3. patch \in [Files -> Content] /\ DOMAIN With(patch) = Files
    BY TreeFields DEF With
  <1>4. With(patch) = [f \in Files |-> With(patch)[f]]
    BY DEF With
  <1> QED
    BY <1>1, <1>2, <1>3, <1>4

LEMMA PatchedTyped ==
  ASSUME workspace \in Trees, NEW patch \in Trees
  PROVE  With(patch) \in Trees /\ Without(patch) \in Trees
  <1>1. \A f \in Files : workspace[f] \in Content /\ patch[f] \in Content /\ Base(f) \in Content
    BY TreeFields
  <1> QED
    BY <1>1, TreeFields DEF With, Without

LEMMA ShownReversed ==
  ASSUME PatchStoreAssumption, workspace \in Trees, Reverses(Shown)
  PROVE  Without(Shown) = BaseTree
  <1>1. \A f \in Files : Without(Shown)[f] = Base(f)
    BY UnchangedAsShown DEF Without, ChangedFiles
  <1> QED
    BY <1>1 DEF Without, BaseTree

LEMMA ShownIrreversible ==
  ASSUME PatchStoreAssumption, workspace \in Trees, ~Reverses(Shown)
  PROVE  ~AsShown(workspace)
  BY SameAsShown DEF Reverses

LEMMA ChangingPatch ==
  ASSUME NEW patch \in Trees, ChangedFiles(patch) # {}
  PROVE  patch # BaseTree
  BY TreeFields DEF ChangedFiles

-----------------------------------------------------------------------------
(* What steps do to those who take them.                                   *)

Everybody == Clients \cup {Agent}

Only(a) ==
  /\ actor' \in [Everybody -> ActorType]
  /\ \A b \in Everybody \ {a} : actor'[b] = actor[b]

Keeps(a) ==
  actor'[a].text = actor[a].text /\ actor'[a].old = actor[a].old /\ actor'[a].goal = actor[a].goal

Stays(a) == Keeps(a) /\ actor'[a].ranked = actor[a].ranked

LEMMA ActorFields ==
  ASSUME TypeOK, NEW a \in Everybody
  PROVE  /\ actor[a] \in ActorType /\ actor[a].text \in Trees /\ actor[a].old \in Trees
         /\ actor[a].pc \in {"idle", "ensure", "apply", "number", "insert", "undo", "verify"}
         /\ actor[a].goal \in {"none", "store", "restore"} /\ actor[a].applied \in BOOLEAN
         /\ actor[a].answer \in {"none", "ok", "refused"}
         /\ actor[a].version \in 0..(MaxVersions + 1) /\ actor[a].ranked \in 0..MaxRankings
  BY DEF TypeOK, ActorType, Everybody

LEMMA Bounds ==
  ASSUME PatchStoreAssumption, TypeOK
  PROVE  /\ MaxVersions \in Nat /\ MaxEdits \in Nat /\ edits \in 0..MaxEdits
         /\ MaxRankings \in Nat /\ rankings \in 0..MaxRankings /\ justified \subseteq Files
         /\ rows \in Seq(Trees) /\ Len(rows) \in Nat /\ Len(rows) <= MaxVersions
         /\ DOMAIN rows = 1..Len(rows)
         /\ workspace \in Trees
  BY DEF PatchStoreAssumption, TypeOK

LEMMA IdleFields ==
  ASSUME PatchStoreAssumption
  PROVE  /\ Idle \in ActorType /\ Idle.pc = "idle" /\ Idle.goal = "none" /\ Idle.answer = "none"
         /\ Idle.applied = FALSE /\ Idle.ranked = 0
  <1>1. MaxVersions \in Nat /\ MaxRankings \in Nat
    BY DEF PatchStoreAssumption
  <1>2. 0 \in 0..(MaxVersions + 1) /\ 0 \in 0..MaxRankings
    BY <1>1
  <1> QED
    BY <1>2, TreeFields DEF Idle, ActorType

LEMMA Replacing ==
  ASSUME TypeOK, NEW a \in Everybody, NEW new \in ActorType, actor' = [actor EXCEPT ![a] = new]
  PROVE  Only(a) /\ actor'[a] = new
  BY DEF TypeOK, Only, Everybody

LEMMA StepTells ==
  ASSUME TypeOK, NEW a \in Everybody,
         NEW pc \in {"ensure", "apply", "number", "insert", "verify"}, Step(a, pc)
  PROVE  /\ Only(a) /\ Stays(a) /\ actor'[a].pc = pc /\ actor'[a].answer = actor[a].answer
         /\ actor'[a].version = actor[a].version /\ actor'[a].applied = actor[a].applied
  <1> DEFINE new == [actor[a] EXCEPT !.pc = pc]
  <1>1. actor[a] \in ActorType
    BY ActorFields
  <1>2. /\ new \in ActorType /\ new.pc = pc /\ new.text = actor[a].text /\ new.old = actor[a].old
        /\ new.goal = actor[a].goal /\ new.answer = actor[a].answer
        /\ new.version = actor[a].version /\ new.applied = actor[a].applied
        /\ new.ranked = actor[a].ranked
    BY <1>1 DEF ActorType
  <1>3. actor' = [actor EXCEPT ![a] = new]
    BY DEF Step, TypeOK, Everybody
  <1> HIDE DEF new
  <1>4. Only(a) /\ actor'[a] = new
    BY <1>2, <1>3, Replacing
  <1> QED
    BY <1>2, <1>4 DEF Keeps, Stays

LEMMA AnswerTells ==
  ASSUME TypeOK, NEW a \in Everybody, NEW answer \in {"ok", "refused"}, Answer(a, answer)
  PROVE  /\ Only(a) /\ Stays(a) /\ actor'[a].pc = "idle" /\ actor'[a].answer = answer
         /\ actor'[a].version = actor[a].version /\ actor'[a].applied = actor[a].applied
  <1> DEFINE new == [actor[a] EXCEPT !.pc = "idle", !.answer = answer]
  <1>1. actor[a] \in ActorType
    BY ActorFields
  <1>2. /\ new \in ActorType /\ new.pc = "idle" /\ new.text = actor[a].text
        /\ new.old = actor[a].old /\ new.goal = actor[a].goal /\ new.answer = answer
        /\ new.version = actor[a].version /\ new.applied = actor[a].applied
        /\ new.ranked = actor[a].ranked
    BY <1>1 DEF ActorType
  <1>3. actor' = [actor EXCEPT ![a] = new]
    BY <1>1 DEF Answer, TypeOK, Everybody
  <1> HIDE DEF new
  <1>4. Only(a) /\ actor'[a] = new
    BY <1>2, <1>3, Replacing
  <1> QED
    BY <1>2, <1>4 DEF Keeps, Stays

LEMMA EditTells ==
  ASSUME PatchStoreAssumption, TypeOK, Edit
  PROVE  /\ actor[Agent].pc = "idle" /\ Only(Agent) /\ actor'[Agent] = Idle
         /\ workspace' \in Trees /\ edits' \in 0..MaxEdits /\ UNCHANGED <<rows, policy>>
  <1>1. /\ actor[Agent].pc = "idle" /\ edits < MaxEdits /\ edits' = edits + 1
        /\ UNCHANGED <<rows, policy>>
        /\ actor' = [actor EXCEPT ![Agent] = Idle]
    BY DEF Edit
  <1>2. PICK f \in Files, c \in [text : Texts, newline : Endings] :
          workspace' = [workspace EXCEPT ![f] = c]
    BY DEF Edit
  <1>3. c \in Content
    BY DEF Content, Contents
  <1>4. workspace' \in Trees
    BY <1>2, <1>3, TreeFields, Bounds
  <1>5. edits' \in 0..MaxEdits
    BY <1>1, Bounds
  <1>6. Only(Agent) /\ actor'[Agent] = Idle
    BY <1>1, IdleFields, Replacing DEF Everybody
  <1> QED
    BY <1>1, <1>4, <1>5, <1>6

LEMMA RankTells ==
  ASSUME PatchStoreAssumption, TypeOK, Rank
  PROVE  /\ actor[Agent].pc = "idle" /\ Only(Agent) /\ actor'[Agent] = Idle
         /\ justified' \subseteq Files /\ rankings' \in 0..MaxRankings /\ rankings' = rankings + 1
         /\ UNCHANGED <<workspace, rows, edits>>
  <1>1. /\ actor[Agent].pc = "idle" /\ rankings < MaxRankings /\ rankings' = rankings + 1
        /\ actor' = [actor EXCEPT ![Agent] = Idle] /\ UNCHANGED <<workspace, rows, edits>>
    BY DEF Rank
  <1>2. justified' \subseteq Files
    BY DEF Rank, Files, PatchStoreAssumption
  <1>3. rankings' \in 0..MaxRankings
    BY <1>1, Bounds
  <1>4. Only(Agent) /\ actor'[Agent] = Idle
    BY <1>1, IdleFields, Replacing DEF Everybody
  <1> QED
    BY <1>1, <1>2, <1>3, <1>4

LEMMA SubmitTells ==
  ASSUME PatchStoreAssumption, TypeOK, Submit
  PROVE  /\ actor[Agent].pc = "idle" /\ Only(Agent) /\ Shown # BaseTree
         /\ actor'[Agent].text = Shown /\ actor'[Agent].goal = "store"
         /\ actor'[Agent].applied = FALSE /\ actor'[Agent].ranked = 0
         /\ \/ /\ actor'[Agent].pc = "number" /\ actor'[Agent].answer = "none"
               /\ WithinLimits(Shown)
            \/ actor'[Agent].pc = "idle" /\ actor'[Agent].answer = "refused"
         /\ UNCHANGED <<workspace, rows, policy, edits>>
  <1> DEFINE sent == [Idle EXCEPT !.pc = "number", !.text = Shown, !.goal = "store"]
             refused == [Idle EXCEPT !.text = Shown, !.goal = "store", !.answer = "refused"]
  <1>1. Shown \in Trees
    BY Bounds, ShownFields
  <1>2. /\ sent \in ActorType /\ sent.pc = "number" /\ sent.text = Shown /\ sent.goal = "store"
        /\ sent.answer = "none" /\ sent.applied = FALSE /\ sent.ranked = 0
    BY <1>1, IdleFields DEF ActorType
  <1>3. /\ refused \in ActorType /\ refused.pc = "idle" /\ refused.text = Shown
        /\ refused.goal = "store" /\ refused.answer = "refused" /\ refused.applied = FALSE
        /\ refused.ranked = 0
    BY <1>1, IdleFields DEF ActorType
  <1>4. /\ actor[Agent].pc = "idle" /\ Shown # BaseTree
        /\ \/ WithinLimits(Shown) /\ actor' = [actor EXCEPT ![Agent] = sent]
           \/ actor' = [actor EXCEPT ![Agent] = refused]
        /\ UNCHANGED <<workspace, rows, policy, edits>>
    BY DEF Submit
  <1> HIDE DEF sent, refused
  <1>5. CASE WithinLimits(Shown) /\ actor' = [actor EXCEPT ![Agent] = sent]
    <2>1. Only(Agent) /\ actor'[Agent] = sent
      BY <1>2, <1>5, Replacing DEF Everybody
    <2> QED
      BY <1>2, <1>4, <1>5, <2>1
  <1>6. CASE actor' = [actor EXCEPT ![Agent] = refused]
    <2>1. Only(Agent) /\ actor'[Agent] = refused
      BY <1>3, <1>6, Replacing DEF Everybody
    <2> QED
      BY <1>3, <1>4, <2>1
  <1> QED
    BY <1>4, <1>5, <1>6

LEMMA RequestTells ==
  ASSUME PatchStoreAssumption, TypeOK, NEW c \in Clients, Request(c)
  PROVE  /\ actor[c] = Idle /\ Only(c)
         /\ actor'[c].pc = "ensure" /\ actor'[c].text # BaseTree
         /\ actor'[c].goal = "store" /\ actor'[c].answer = "none"
         /\ actor'[c].applied = FALSE /\ actor'[c].ranked = 0
         /\ UNCHANGED <<workspace, rows, policy, edits>>
  <1>1. PICK patch \in Trees :
          /\ ChangedFiles(patch) # {}
          /\ actor' = [actor EXCEPT ![c] =
                         [Idle EXCEPT !.pc = "ensure", !.text = patch, !.goal = "store"]]
    BY DEF Request
  <1> DEFINE new == [Idle EXCEPT !.pc = "ensure", !.text = patch, !.goal = "store"]
  <1>2. /\ new \in ActorType /\ new.pc = "ensure" /\ new.text = patch /\ new.goal = "store"
        /\ new.answer = "none" /\ new.applied = FALSE /\ new.ranked = 0
    BY IdleFields DEF ActorType
  <1>3. actor[c] = Idle /\ UNCHANGED <<workspace, rows, policy, edits>>
    BY DEF Request
  <1>4. patch # BaseTree
    BY <1>1, ChangingPatch
  <1> HIDE DEF new
  <1>5. Only(c) /\ actor'[c] = new
    BY <1>1, <1>2, Replacing DEF Everybody, new
  <1> QED
    BY <1>2, <1>3, <1>4, <1>5

LEMMA RestoreTells ==
  ASSUME PatchStoreAssumption, TypeOK, Restore
  PROVE  /\ actor[Agent].pc = "idle" /\ Only(Agent)
         /\ actor'[Agent].goal = "restore" /\ actor'[Agent].applied = FALSE
         /\ actor'[Agent].ranked = 0
         /\ \E v \in DOMAIN rows :
              /\ actor'[Agent].text = rows[v]
              /\ \/ /\ actor'[Agent].pc = "idle" /\ actor'[Agent].answer = "ok"
                    /\ Shown = actor'[Agent].text
                 \/ /\ actor'[Agent].pc = "idle" /\ actor'[Agent].answer = "refused"
                    /\ ~WithinLimits(Shown) \/ ~WithinLimits(rows[v])
                 \/ /\ actor'[Agent].pc = "ensure" /\ actor'[Agent].answer = "none"
                    /\ Shown = BaseTree /\ WithinLimits(rows[v])
                 \/ /\ actor'[Agent].pc = "undo" /\ actor'[Agent].answer = "none"
                    /\ actor'[Agent].old = Shown /\ WithinLimits(rows[v])
         /\ UNCHANGED <<workspace, rows, policy, edits>>
  <1>1. PICK v \in DOMAIN rows :
          actor' = [actor EXCEPT ![Agent] =
            IF ~WithinLimits(Shown) \/ ~WithinLimits(rows[v])
            THEN [Idle EXCEPT !.text = rows[v], !.goal = "restore", !.answer = "refused"]
            ELSE IF Shown = rows[v]
            THEN [Idle EXCEPT !.text = rows[v], !.goal = "restore", !.answer = "ok"]
            ELSE [Idle EXCEPT !.pc = IF Shown = BaseTree THEN "ensure" ELSE "undo",
                              !.text = rows[v], !.old = Shown, !.goal = "restore"]]
    BY DEF Restore
  <1>2. actor[Agent].pc = "idle" /\ UNCHANGED <<workspace, rows, policy, edits>>
    BY DEF Restore
  <1>3. rows[v] \in Trees /\ Shown \in Trees
    BY Bounds, ShownFields
  <1> DEFINE beyond == ~WithinLimits(Shown) \/ ~WithinLimits(rows[v])
  <1>4. ASSUME NEW answer \in {"ok", "refused"},
               actor' = [actor EXCEPT ![Agent] =
                 [Idle EXCEPT !.text = rows[v], !.goal = "restore", !.answer = answer]]
        PROVE  /\ Only(Agent) /\ actor'[Agent].pc = "idle" /\ actor'[Agent].text = rows[v]
               /\ actor'[Agent].goal = "restore" /\ actor'[Agent].answer = answer
               /\ actor'[Agent].applied = FALSE /\ actor'[Agent].ranked = 0
    <2> DEFINE new == [Idle EXCEPT !.text = rows[v], !.goal = "restore", !.answer = answer]
    <2>1. /\ new \in ActorType /\ new.pc = "idle" /\ new.text = rows[v] /\ new.goal = "restore"
          /\ new.answer = answer /\ new.applied = FALSE /\ new.ranked = 0
      BY <1>3, IdleFields DEF ActorType
    <2> HIDE DEF new
    <2>2. Only(Agent) /\ actor'[Agent] = new
      BY <1>4, <2>1, Replacing DEF Everybody, new
    <2> QED
      BY <2>1, <2>2
  <1>5. ASSUME NEW place \in {"ensure", "undo"},
               actor' = [actor EXCEPT ![Agent] =
                 [Idle EXCEPT !.pc = place, !.text = rows[v], !.old = Shown, !.goal = "restore"]]
        PROVE  /\ Only(Agent) /\ actor'[Agent].pc = place /\ actor'[Agent].text = rows[v]
               /\ actor'[Agent].old = Shown /\ actor'[Agent].goal = "restore"
               /\ actor'[Agent].answer = "none" /\ actor'[Agent].applied = FALSE
               /\ actor'[Agent].ranked = 0
    <2> DEFINE new == [Idle EXCEPT !.pc = place, !.text = rows[v], !.old = Shown,
                                   !.goal = "restore"]
    <2>1. /\ new \in ActorType /\ new.pc = place /\ new.text = rows[v] /\ new.old = Shown
          /\ new.goal = "restore" /\ new.answer = "none" /\ new.applied = FALSE /\ new.ranked = 0
      BY <1>3, IdleFields DEF ActorType
    <2> HIDE DEF new
    <2>2. Only(Agent) /\ actor'[Agent] = new
      BY <1>5, <2>1, Replacing DEF Everybody, new
    <2> QED
      BY <2>1, <2>2
  <1>6. CASE beyond
    <2>1. actor' = [actor EXCEPT ![Agent] =
            [Idle EXCEPT !.text = rows[v], !.goal = "restore", !.answer = "refused"]]
      BY <1>1, <1>6
    <2> QED
      BY <1>2, <1>4, <1>6, <2>1
  <1>7. CASE ~beyond /\ Shown = rows[v]
    <2>1. actor' = [actor EXCEPT ![Agent] =
            [Idle EXCEPT !.text = rows[v], !.goal = "restore", !.answer = "ok"]]
      BY <1>1, <1>7
    <2> QED
      BY <1>2, <1>4, <1>7, <2>1
  <1>8. CASE ~beyond /\ Shown # rows[v] /\ Shown = BaseTree
    <2>1. actor' = [actor EXCEPT ![Agent] =
            [Idle EXCEPT !.pc = "ensure", !.text = rows[v], !.old = Shown, !.goal = "restore"]]
      BY <1>1, <1>8
    <2> QED
      BY <1>2, <1>5, <1>8, <2>1
  <1>9. CASE ~beyond /\ Shown # rows[v] /\ Shown # BaseTree
    <2>1. actor' = [actor EXCEPT ![Agent] =
            [Idle EXCEPT !.pc = "undo", !.text = rows[v], !.old = Shown, !.goal = "restore"]]
      BY <1>1, <1>9
    <2> QED
      BY <1>2, <1>5, <1>9, <2>1
  <1> QED
    BY <1>6, <1>7, <1>8, <1>9

LEMMA UndoTells ==
  ASSUME PatchStoreAssumption, TypeOK, NEW a \in Everybody, Undo(a)
  PROVE  /\ actor[a].pc = "undo" /\ Only(a) /\ Stays(a) /\ actor'[a].applied = actor[a].applied
         /\ actor'[a].version = actor[a].version
         /\ \/ /\ Reverses(actor[a].old) /\ workspace' = Without(actor[a].old)
               /\ actor'[a].pc = "ensure" /\ actor'[a].answer = actor[a].answer
            \/ /\ ~Reverses(actor[a].old) /\ workspace' = workspace
               /\ actor'[a].pc = "idle" /\ actor'[a].answer = "refused"
         /\ UNCHANGED <<rows, policy, edits>>
  <1>1. actor[a].pc = "undo" /\ UNCHANGED <<rows, policy, edits>>
    BY DEF Undo
  <1>2. CASE Reverses(actor[a].old) /\ workspace' = Without(actor[a].old) /\ Step(a, "ensure")
    BY <1>1, <1>2, StepTells
  <1>3. CASE ~Reverses(actor[a].old) /\ Answer(a, "refused") /\ UNCHANGED workspace
    BY <1>1, <1>3, AnswerTells
  <1> QED
    BY <1>2, <1>3 DEF Undo

LEMMA AppliedPlace ==
  ASSUME NEW a
  PROVE  /\ Applied(a) \in {"verify", "number"}
         /\ actor[a].goal = "restore" => Applied(a) = "verify"
         /\ actor[a].goal # "restore" => Applied(a) = "number"
  BY DEF Applied

LEMMA EnsureTells ==
  ASSUME PatchStoreAssumption, TypeOK, NEW a \in Everybody, Ensure(a)
  PROVE  LET patch == actor[a].text IN
         /\ actor[a].pc = "ensure" /\ Only(a) /\ Keeps(a) /\ actor'[a].applied = actor[a].applied
         /\ actor'[a].version = actor[a].version
         /\ \/ /\ actor'[a].pc = Applied(a) /\ actor'[a].answer = actor[a].answer
               /\ actor'[a].ranked = rankings /\ WithinLimits(patch) /\ Passes(patch)
               /\ (Shown = patch \/ ~Applies(patch))
            \/ /\ actor'[a].pc = "apply" /\ actor'[a].answer = actor[a].answer
               /\ actor'[a].ranked = rankings /\ WithinLimits(patch) /\ Passes(patch)
            \/ /\ actor'[a].pc = "idle" /\ actor'[a].answer = "refused" /\ Stays(a)
               /\ \/ ~Applies(patch) \/ ~WithinLimits(patch)
                  \/ ~Passes(patch) \/ ~WithinLimits(Shown)
         /\ UNCHANGED <<workspace, rows, policy, edits>>
  <1> DEFINE patch == actor[a].text
             admitted == WithinLimits(patch) /\ Passes(patch) /\ WithinLimits(Shown)
             there == Reverses(patch) /\ (Shown = patch \/ ~Applies(patch))
  <1>1. actor[a].pc = "ensure" /\ UNCHANGED <<workspace, rows, policy, edits>>
    BY DEF Ensure
  <1>2. \/ /\ admitted /\ there
           /\ actor' = [actor EXCEPT ![a].pc = Applied(a), ![a].ranked = rankings]
        \/ /\ admitted /\ ~there /\ Applies(patch)
           /\ actor' = [actor EXCEPT ![a].pc = "apply", ![a].ranked = rankings]
        \/ ~(admitted /\ (there \/ Applies(patch))) /\ Answer(a, "refused")
    BY DEF Ensure
  <1>3. ASSUME NEW place \in {"apply", "number", "verify"},
               actor' = [actor EXCEPT ![a].pc = place, ![a].ranked = rankings]
        PROVE  /\ Only(a) /\ Keeps(a) /\ actor'[a].applied = actor[a].applied
               /\ actor'[a].version = actor[a].version /\ actor'[a].pc = place
               /\ actor'[a].answer = actor[a].answer /\ actor'[a].ranked = rankings
    <2> DEFINE new == [actor[a] EXCEPT !.pc = place, !.ranked = rankings]
    <2>1. actor[a] \in ActorType /\ rankings \in 0..MaxRankings
      BY ActorFields, Bounds
    <2>2. /\ new \in ActorType /\ new.pc = place /\ new.text = actor[a].text
          /\ new.old = actor[a].old /\ new.goal = actor[a].goal /\ new.answer = actor[a].answer
          /\ new.version = actor[a].version /\ new.applied = actor[a].applied
          /\ new.ranked = rankings
      BY <2>1 DEF ActorType
    <2>3. actor' = [actor EXCEPT ![a] = new]
      BY <1>3 DEF TypeOK, Everybody
    <2> HIDE DEF new
    <2>4. Only(a) /\ actor'[a] = new
      BY <2>2, <2>3, Replacing
    <2> QED
      BY <2>2, <2>4 DEF Keeps
  <1>4. CASE /\ admitted /\ there
             /\ actor' = [actor EXCEPT ![a].pc = Applied(a), ![a].ranked = rankings]
    BY <1>1, <1>3, <1>4, AppliedPlace
  <1>5. CASE /\ admitted /\ ~there /\ Applies(patch)
             /\ actor' = [actor EXCEPT ![a].pc = "apply", ![a].ranked = rankings]
    BY <1>1, <1>3, <1>5
  <1>6. CASE ~(admitted /\ (there \/ Applies(patch))) /\ Answer(a, "refused")
    BY <1>1, <1>6, AnswerTells DEF Stays
  <1> QED
    BY <1>2, <1>4, <1>5, <1>6

LEMMA ApplyTells ==
  ASSUME PatchStoreAssumption, TypeOK, NEW a \in Everybody, Apply(a)
  PROVE  /\ actor[a].pc = "apply" /\ Only(a) /\ Stays(a) /\ actor'[a].version = actor[a].version
         /\ \/ /\ Applies(actor[a].text) /\ workspace' = With(actor[a].text)
               /\ actor'[a].pc = Applied(a) /\ actor'[a].applied = TRUE
               /\ actor'[a].answer = actor[a].answer
            \/ /\ ~Applies(actor[a].text) /\ workspace' = workspace
               /\ actor'[a].pc = "idle" /\ actor'[a].applied = actor[a].applied
               /\ actor'[a].answer = "refused"
         /\ UNCHANGED <<rows, policy, edits>>
  <1>1. actor[a].pc = "apply" /\ UNCHANGED <<rows, policy, edits>>
    BY DEF Apply
  <1>2. CASE /\ Applies(actor[a].text) /\ workspace' = With(actor[a].text)
             /\ actor' = [actor EXCEPT ![a].pc = Applied(a), ![a].applied = TRUE]
    <2> DEFINE place == Applied(a)
               new == [actor[a] EXCEPT !.pc = place, !.applied = TRUE]
    <2>1. actor[a] \in ActorType /\ place \in {"verify", "number"}
      BY ActorFields, AppliedPlace
    <2> HIDE DEF place
    <2>2. /\ new \in ActorType /\ new.pc = place /\ new.text = actor[a].text
          /\ new.old = actor[a].old /\ new.goal = actor[a].goal /\ new.answer = actor[a].answer
          /\ new.version = actor[a].version /\ new.applied = TRUE /\ new.ranked = actor[a].ranked
      BY <2>1 DEF ActorType
    <2>3. actor' = [actor EXCEPT ![a] = new]
      BY <1>2 DEF TypeOK, Everybody, place
    <2> HIDE DEF new
    <2>4. Only(a) /\ actor'[a] = new
      BY <2>2, <2>3, Replacing
    <2> QED
      BY <1>1, <1>2, <2>2, <2>4 DEF Keeps, Stays, place
  <1>3. CASE ~Applies(actor[a].text) /\ Answer(a, "refused") /\ UNCHANGED workspace
    BY <1>1, <1>3, AnswerTells
  <1> QED
    BY <1>2, <1>3 DEF Apply

LEMMA VerifyTells ==
  ASSUME PatchStoreAssumption, TypeOK, NEW a \in Everybody, Verify(a)
  PROVE  /\ actor[a].pc = "verify" /\ Only(a) /\ Stays(a) /\ actor'[a].applied = actor[a].applied
         /\ actor'[a].version = actor[a].version /\ actor'[a].pc = "idle"
         /\ \/ actor'[a].answer = "ok" /\ Shown = actor[a].text
            \/ /\ actor'[a].answer = "refused"
               /\ Shown # actor[a].text \/ ~WithinLimits(Shown)
         /\ UNCHANGED <<workspace, rows, policy, edits>>
  <1> DEFINE answer == IF WithinLimits(Shown) /\ Shown = actor[a].text THEN "ok" ELSE "refused"
  <1>1. actor[a].pc = "verify" /\ Answer(a, answer) /\ UNCHANGED <<workspace, rows, policy, edits>>
    BY DEF Verify
  <1>2. /\ answer \in {"ok", "refused"}
        /\ \/ answer = "ok" /\ Shown = actor[a].text
           \/ answer = "refused" /\ (Shown # actor[a].text \/ ~WithinLimits(Shown))
    OBVIOUS
  <1> HIDE DEF answer
  <1> QED
    BY <1>1, <1>2, AnswerTells

LEMMA NumberTells ==
  ASSUME PatchStoreAssumption, TypeOK, NEW a \in Everybody, Number(a)
  PROVE  /\ actor[a].pc = "number" /\ Only(a) /\ Stays(a) /\ actor'[a].applied = actor[a].applied
         /\ \/ /\ actor'[a].version = Len(rows) + 1 /\ actor'[a].pc = "insert"
               /\ actor'[a].answer = actor[a].answer /\ WithinLimits(actor[a].text)
            \/ /\ actor'[a].version = actor[a].version /\ actor'[a].pc = "idle"
               /\ actor'[a].answer = "refused"
               /\ ~WithinLimits(actor[a].text) \/ ~Passes(actor[a].text)
         /\ UNCHANGED <<workspace, rows, policy, edits>>
  <1> DEFINE admitted == WithinLimits(actor[a].text) /\ Passes(actor[a].text)
  <1>1. /\ actor[a].pc = "number" /\ UNCHANGED <<workspace, rows, policy, edits>>
        /\ \/ /\ admitted
              /\ actor' = [actor EXCEPT ![a].pc = "insert", ![a].version = Len(rows) + 1]
           \/ ~admitted /\ Answer(a, "refused")
    BY DEF Number
  <1>2. CASE /\ admitted
             /\ actor' = [actor EXCEPT ![a].pc = "insert", ![a].version = Len(rows) + 1]
    <2> DEFINE n == Len(rows) + 1
               new == [actor[a] EXCEPT !.pc = "insert", !.version = n]
    <2>1. n \in 0..(MaxVersions + 1)
      BY Bounds
    <2>2. actor[a] \in ActorType
      BY ActorFields
    <2> HIDE DEF n
    <2>3. /\ new \in ActorType /\ new.pc = "insert" /\ new.text = actor[a].text
          /\ new.old = actor[a].old /\ new.goal = actor[a].goal /\ new.answer = actor[a].answer
          /\ new.version = n /\ new.applied = actor[a].applied /\ new.ranked = actor[a].ranked
      BY <2>1, <2>2 DEF ActorType
    <2>4. actor' = [actor EXCEPT ![a] = new]
      BY <1>2 DEF TypeOK, Everybody, n
    <2> HIDE DEF new
    <2>5. Only(a) /\ actor'[a] = new
      BY <2>3, <2>4, Replacing
    <2> QED
      BY <1>1, <1>2, <2>3, <2>5 DEF Keeps, Stays, n
  <1>3. CASE ~admitted /\ Answer(a, "refused")
    BY <1>1, <1>3, AnswerTells
  <1> QED
    BY <1>1, <1>2, <1>3

LEMMA InsertTells ==
  ASSUME PatchStoreAssumption, TypeOK, NEW a \in Everybody, Insert(a)
  PROVE  /\ actor[a].pc = "insert" /\ Only(a) /\ Stays(a) /\ actor'[a].applied = actor[a].applied
         /\ actor'[a].version = actor[a].version /\ actor'[a].pc = "idle"
         /\ \/ /\ actor[a].version = Len(rows) + 1 /\ Len(rows) < MaxVersions
               /\ rows' = Append(rows, actor[a].text) /\ actor'[a].answer = "ok"
            \/ /\ actor[a].version <= Len(rows) /\ rows' = rows
               /\ actor'[a].answer = "refused"
         /\ UNCHANGED <<workspace, policy, edits>>
  <1>1. actor[a].pc = "insert" /\ UNCHANGED <<workspace, policy, edits>>
    BY DEF Insert
  <1>2. CASE /\ actor[a].version = Len(rows) + 1 /\ Len(rows) < MaxVersions
             /\ rows' = Append(rows, actor[a].text) /\ Answer(a, "ok")
    BY <1>1, <1>2, AnswerTells
  <1>3. CASE actor[a].version <= Len(rows) /\ Answer(a, "refused") /\ UNCHANGED rows
    BY <1>1, <1>3, AnswerTells
  <1> QED
    BY <1>2, <1>3 DEF Insert

LEMMA Stored ==
  ASSUME PatchStoreAssumption, TypeOK, NEW patch \in Trees, Len(rows) < MaxVersions,
         rows' = Append(rows, patch)
  PROVE  /\ rows' \in Seq(Trees) /\ Len(rows') = Len(rows) + 1 /\ Len(rows') <= MaxVersions
         /\ DOMAIN rows' = 1..(Len(rows) + 1) /\ rows'[Len(rows) + 1] = patch
         /\ \A v \in DOMAIN rows : v \in DOMAIN rows' /\ rows'[v] = rows[v]
  <1>1. /\ MaxVersions \in Nat /\ rows \in Seq(Trees) /\ Len(rows) \in Nat
        /\ DOMAIN rows = 1..Len(rows)
    BY Bounds
  <1>2. /\ rows' \in Seq(Trees) /\ Len(rows') = Len(rows) + 1
        /\ \A v \in 1..Len(rows) : rows'[v] = rows[v]
        /\ rows'[Len(rows) + 1] = patch
    BY <1>1
  <1> QED
    BY <1>1, <1>2

-----------------------------------------------------------------------------
(* The invariant holds at first and is kept by every step.                 *)

LEMMA AtFirst == ASSUME PatchStoreAssumption, Init PROVE StoreInv
  <1>1. /\ workspace = BaseTree /\ rows = <<>> /\ edits = 0 /\ rankings = 0
        /\ actor = [a \in Everybody |-> Idle]
    BY DEF Init, Everybody
  <1>2. actor \in [Everybody -> ActorType] /\ \A a \in Everybody : actor[a] = Idle
    BY <1>1, IdleFields
  <1>3. TypeOK
    <2>1. MaxVersions \in Nat /\ MaxEdits \in Nat /\ MaxRankings \in Nat
      BY DEF PatchStoreAssumption
    <2>2. /\ rows \in Seq(Trees) /\ Len(rows) <= MaxVersions /\ edits \in 0..MaxEdits
          /\ rankings \in 0..MaxRankings
      BY <1>1, <2>1
    <2>3. justified \subseteq Files
      BY DEF Init, Files, PatchStoreAssumption
    <2> QED
      BY <1>1, <1>2, <2>2, <2>3, TreeFields DEF TypeOK, Everybody
  <1>4. PlacesFit /\ VersionsFit
    BY <1>2, IdleFields DEF PlacesFit, PlaceFits, VersionsFit, VersionFits, Everybody
  <1>7. AllJudged
    BY <1>1, <1>2, IdleFields DEF AllJudged, JudgedFits, Everybody
  <1>5. DOMAIN rows = {}
    BY <1>1
  <1>6. RowsChange /\ RestoreFits
    BY <1>2, <1>5, IdleFields DEF RowsChange, RestoreFits, Everybody
  <1> QED
    BY <1>3, <1>4, <1>6, <1>7 DEF StoreInv

(* One step of one of them, as the lemmas above tell it.                   *)
Move(a) ==
  \/ a = Agent /\ (Edit \/ Rank \/ Submit \/ Restore)
  \/ a \in Clients /\ Request(a)
  \/ Undo(a) \/ Ensure(a) \/ Apply(a) \/ Verify(a) \/ Number(a) \/ Insert(a)

LEMMA StepIsMove ==
  ASSUME [Next]_vars
  PROVE  (\E a \in Everybody : Move(a)) \/ UNCHANGED vars
  BY DEF Next, Terminated, Move, Everybody

LEMMA MoveTells ==
  ASSUME PatchStoreAssumption, TypeOK, NEW a \in Everybody, Move(a)
  PROVE  /\ Only(a) /\ (rows' = rows \/ Insert(a))
         /\ UNCHANGED policy \/ (a = Agent /\ Rank)
  <1>1. CASE a = Agent /\ (Edit \/ Rank \/ Submit \/ Restore)
    BY <1>1, EditTells, RankTells, SubmitTells, RestoreTells
  <1>2. CASE a \in Clients /\ Request(a)
    BY <1>2, RequestTells
  <1>3. CASE Undo(a) \/ Ensure(a) \/ Apply(a) \/ Verify(a) \/ Number(a) \/ Insert(a)
    BY <1>3, UndoTells, EnsureTells, ApplyTells, VerifyTells, NumberTells, InsertTells
  <1> QED
    BY <1>1, <1>2, <1>3 DEF Move

LEMMA TypesKept ==
  ASSUME PatchStoreAssumption, TypeOK, NEW a \in Everybody, Move(a)
  PROVE  TypeOK'
  <1>1. actor' \in [Everybody -> ActorType]
    BY MoveTells DEF Only
  <1>2. rows' \in Seq(Trees) /\ Len(rows') <= MaxVersions
    <2>1. CASE rows' = rows
      BY <2>1, Bounds
    <2>2. CASE Insert(a)
      BY <2>1, <2>2, InsertTells, ActorFields, Stored
    <2> QED
      BY <2>1, <2>2, MoveTells
  <1>3. workspace' \in Trees /\ edits' \in 0..MaxEdits
    <2>1. CASE a = Agent /\ (Edit \/ Rank \/ Submit \/ Restore)
      BY <2>1, EditTells, RankTells, SubmitTells, RestoreTells, Bounds
    <2>2. CASE a \in Clients /\ Request(a)
      BY <2>2, RequestTells, Bounds
    <2>3. CASE Undo(a)
      BY <2>3, UndoTells, Bounds, ActorFields, PatchedTyped
    <2>4. CASE Apply(a)
      BY <2>4, ApplyTells, Bounds, ActorFields, PatchedTyped
    <2>5. CASE Ensure(a) \/ Verify(a) \/ Number(a) \/ Insert(a)
      BY <2>5, EnsureTells, VerifyTells, NumberTells, InsertTells, Bounds
    <2> QED
      BY <2>1, <2>2, <2>3, <2>4, <2>5 DEF Move
  <1>4. justified' \subseteq Files /\ rankings' \in 0..MaxRankings
    BY MoveTells, RankTells, Bounds
  <1> QED
    BY <1>1, <1>2, <1>3, <1>4 DEF TypeOK, Everybody

LEMMA PlacesKept ==
  ASSUME PatchStoreAssumption, TypeOK, PlacesFit, RowsChange, NEW a \in Everybody, Move(a)
  PROVE  PlacesFit'
  <1>1. ASSUME NEW b \in Everybody \ {a} PROVE PlaceFits(b)'
    <2>1. actor'[b] = actor[b] /\ PlaceFits(b)
      BY MoveTells DEF Only, PlacesFit, Everybody
    <2> QED
      BY <2>1 DEF PlaceFits
  <1>2. PlaceFits(a)
    BY DEF PlacesFit, Everybody
  <1>3. PlaceFits(a)'
    <2>1. CASE a = Agent /\ Edit
      BY <2>1, EditTells, IdleFields DEF PlaceFits
    <2>11. CASE a = Agent /\ Rank
      BY <2>11, RankTells, IdleFields DEF PlaceFits
    <2>2. CASE a = Agent /\ Submit
      BY <2>2, SubmitTells DEF PlaceFits
    <2>3. CASE a = Agent /\ Restore
      BY <2>3, RestoreTells DEF PlaceFits, RowsChange
    <2>4. CASE a \in Clients /\ Request(a)
      BY <2>4, RequestTells DEF PlaceFits
    <2>5. CASE Undo(a)
      BY <1>2, <2>5, UndoTells DEF PlaceFits, Keeps, Stays
    <2>6. CASE Ensure(a)
      BY <1>2, <2>6, EnsureTells, AppliedPlace, ActorFields DEF PlaceFits, Keeps, Stays
    <2>7. CASE Apply(a)
      BY <1>2, <2>7, ApplyTells, AppliedPlace, ActorFields DEF PlaceFits, Keeps, Stays
    <2>8. CASE Verify(a)
      BY <1>2, <2>8, VerifyTells DEF PlaceFits, Keeps, Stays
    <2>9. CASE Number(a)
      <3>1. Len(rows) + 1 # 0
        BY Bounds
      <3> QED
        BY <1>2, <2>9, <3>1, NumberTells DEF PlaceFits, Keeps, Stays
    <2>10. CASE Insert(a)
      BY <1>2, <2>10, InsertTells DEF PlaceFits, Keeps, Stays
    <2> QED
      BY <2>1, <2>2, <2>3, <2>4, <2>5, <2>6, <2>7, <2>8, <2>9, <2>10, <2>11 DEF Move
  <1> QED
    BY <1>1, <1>3 DEF PlacesFit, Everybody

LEMMA JudgedKept ==
  ASSUME PatchStoreAssumption, TypeOK, PlacesFit, AllJudged, NEW a \in Everybody, Move(a)
  PROVE  AllJudged'
  <1>1. rankings \in Nat
    BY Bounds
  <1>2. ASSUME NEW b \in Everybody \ {a} PROVE JudgedFits(b)'
    <2>1. actor'[b] = actor[b] /\ JudgedFits(b) /\ actor[b].ranked \in Nat
      BY MoveTells, ActorFields, Bounds DEF Only, AllJudged, Everybody
    <2>2. CASE UNCHANGED policy
      BY <2>1, <2>2 DEF JudgedFits, Passes
    <2>3. CASE Rank
      <3>1. rankings' = rankings + 1
        BY <2>3, RankTells
      <3>2. actor[b].ranked <= rankings' /\ actor[b].ranked # rankings'
        BY <1>1, <2>1, <3>1 DEF JudgedFits
      <3> QED
        BY <2>1, <3>2 DEF JudgedFits
    <2> QED
      BY <2>2, <2>3, MoveTells
  <1>3. PlaceFits(a) /\ JudgedFits(a)
    BY DEF PlacesFit, AllJudged, Everybody
  <1>4. JudgedFits(a)'
    <2>1. CASE a = Agent /\ (Edit \/ Rank)
      BY <1>1, <2>1, EditTells, RankTells, IdleFields DEF JudgedFits
    <2>2. CASE (a = Agent /\ (Submit \/ Restore)) \/ (a \in Clients /\ Request(a))
      <3>1. /\ actor'[a].ranked = 0 /\ actor'[a].applied = FALSE /\ actor'[a].pc # "apply"
            /\ rankings' = rankings
        BY <2>2, SubmitTells, RestoreTells, RequestTells
      <3> QED
        BY <1>1, <3>1 DEF JudgedFits
    <2>3. CASE Undo(a)
      BY <1>3, <2>3, UndoTells DEF JudgedFits, PlaceFits, Stays, Keeps
    <2>4. CASE Ensure(a)
      BY <1>1, <1>3, <2>4, EnsureTells DEF JudgedFits, PlaceFits, Stays, Keeps, Passes
    <2>5. CASE Apply(a)
      BY <1>3, <2>5, ApplyTells DEF JudgedFits, Stays, Keeps, Passes
    <2>6. CASE Verify(a) \/ Number(a) \/ Insert(a)
      BY <1>3, <2>6, VerifyTells, NumberTells, InsertTells DEF JudgedFits, Stays, Keeps, Passes
    <2> QED
      BY <2>1, <2>2, <2>3, <2>4, <2>5, <2>6 DEF Move
  <1> QED
    BY <1>2, <1>4 DEF AllJudged, Everybody

LEMMA RowsKept ==
  ASSUME PatchStoreAssumption, TypeOK, PlacesFit, RowsChange, NEW a \in Everybody, Move(a)
  PROVE  /\ RowsChange'
         /\ \A v \in DOMAIN rows : v \in DOMAIN rows' /\ rows'[v] = rows[v]
         /\ Len(rows) <= Len(rows')
  <1>1. CASE rows' = rows
    BY <1>1, Bounds DEF RowsChange
  <1>2. CASE Insert(a) /\ rows' # rows
    <2>1. /\ rows' = Append(rows, actor[a].text) /\ Len(rows) < MaxVersions
          /\ actor[a].pc = "insert" /\ actor[a].text \in Trees
      BY <1>2, InsertTells, ActorFields
    <2>2. actor[a].text # BaseTree /\ WithinLimits(actor[a].text)
      BY <2>1 DEF PlacesFit, PlaceFits, Everybody
    <2>3. /\ DOMAIN rows' = 1..(Len(rows) + 1) /\ rows'[Len(rows) + 1] = actor[a].text
          /\ \A v \in DOMAIN rows : v \in DOMAIN rows' /\ rows'[v] = rows[v]
          /\ Len(rows') = Len(rows) + 1
      BY <2>1, Stored
    <2>4. \A v \in DOMAIN rows' : v \in DOMAIN rows \/ v = Len(rows) + 1
      BY <2>3, Bounds
    <2>5. Len(rows) <= Len(rows')
      BY <2>3, Bounds
    <2> QED
      BY <2>2, <2>3, <2>4, <2>5 DEF RowsChange
  <1> QED
    BY <1>1, <1>2, MoveTells

LEMMA VersionsKept ==
  ASSUME PatchStoreAssumption, TypeOK, PlacesFit, AllJudged, VersionsFit, RowsChange,
         NEW a \in Everybody, Move(a)
  PROVE  VersionsFit'
  <1>1. ASSUME NEW b \in Everybody \ {a} PROVE VersionFits(b)'
    <2>1. actor'[b] = actor[b] /\ VersionFits(b) /\ actor[b].ranked \in Nat
      BY MoveTells, ActorFields, Bounds DEF Only, VersionsFit, Everybody
    <2>2. rankings' = rankings \/ rankings' = rankings + 1
      BY MoveTells, RankTells
    <2>3. actor[b].ranked < rankings => actor[b].ranked < rankings'
      BY <2>1, <2>2, Bounds
    <2> QED
      BY <2>1, <2>3, RowsKept DEF VersionFits
  <1>2. PlaceFits(a) /\ JudgedFits(a)
    BY DEF PlacesFit, AllJudged, Everybody
  <1>3. VersionFits(a)'
    <2>1. CASE a = Agent /\ (Edit \/ Rank \/ Submit \/ Restore)
      BY <2>1, EditTells, RankTells, SubmitTells, RestoreTells, IdleFields DEF VersionFits
    <2>2. CASE a \in Clients /\ Request(a)
      BY <2>2, RequestTells DEF VersionFits
    <2>3. CASE Undo(a) \/ Ensure(a)
      BY <1>2, <2>3, UndoTells, EnsureTells DEF PlaceFits, VersionFits
    <2>4. CASE Apply(a)
      BY <1>2, <2>4, ApplyTells DEF PlaceFits, VersionFits
    <2>5. CASE Verify(a)
      BY <1>2, <2>5, VerifyTells DEF PlaceFits, VersionFits, Keeps, Stays
    <2>6. CASE Number(a)
      <3>1. CASE actor'[a].pc = "insert"
        BY <1>2, <2>6, <3>1, NumberTells DEF PlaceFits, VersionFits
      <3>2. CASE actor'[a].pc = "idle"
        <4>1. /\ actor'[a].answer = "refused" /\ WithinLimits(actor[a].text)
              /\ ~Passes(actor[a].text) /\ actor'[a].ranked = actor[a].ranked
              /\ actor'[a].applied = actor[a].applied /\ rankings' = rankings
              /\ actor[a].pc = "number"
          BY <1>2, <2>6, <3>2, NumberTells DEF PlaceFits, Stays
        <4>2. actor[a].applied = TRUE => actor[a].ranked # rankings
          BY <1>2, <4>1 DEF JudgedFits
        <4>3. actor[a].ranked \in Nat /\ rankings \in Nat /\ actor[a].ranked <= rankings
          BY <1>2, ActorFields, Bounds DEF JudgedFits
        <4> QED
          BY <4>1, <4>2, <4>3 DEF VersionFits
      <3> QED
        BY <2>6, <3>1, <3>2, NumberTells
    <2>7. CASE Insert(a)
      <3>1. /\ actor[a].pc = "insert" /\ actor[a].version # 0 /\ actor[a].version \in Nat
            /\ actor[a].text \in Trees
        BY <1>2, <2>7, InsertTells, ActorFields, Bounds DEF PlaceFits
      <3>2. CASE /\ actor[a].version = Len(rows) + 1 /\ Len(rows) < MaxVersions
                 /\ rows' = Append(rows, actor[a].text) /\ actor'[a].answer = "ok"
        <4>1. actor[a].version \in DOMAIN rows' /\ rows'[actor[a].version] = actor[a].text
          BY <3>1, <3>2, Stored, Bounds
        <4> QED
          BY <2>7, <3>2, <4>1, InsertTells DEF VersionFits, Keeps, Stays
      <3>3. CASE /\ actor[a].version <= Len(rows) /\ rows' = rows
                 /\ actor'[a].answer = "refused"
        <4>1. actor[a].version \in DOMAIN rows'
          BY <3>1, <3>3, Bounds
        <4> QED
          BY <2>7, <3>3, <4>1, InsertTells DEF VersionFits, Keeps, Stays
      <3> QED
        BY <2>7, <3>2, <3>3, InsertTells
    <2> QED
      BY <2>1, <2>2, <2>3, <2>4, <2>5, <2>6, <2>7 DEF Move
  <1> QED
    BY <1>1, <1>3 DEF VersionsFit, Everybody

(* A client that has asked for something is never as it was before.        *)
LEMMA QuietMove ==
  ASSUME PatchStoreAssumption, TypeOK, PlacesFit, NEW a \in Everybody, Move(a), Quiet'
  PROVE  Quiet /\ a = Agent
  <1>1. ASSUME a # Agent PROVE FALSE
    <2>1. a \in Clients /\ actor'[a] = Idle
      BY <1>1 DEF Quiet, Everybody
    <2>2. actor'[a].pc = "idle" /\ actor'[a].answer = "none"
      BY <2>1, IdleFields
    <2>3. PlaceFits(a)
      BY DEF PlacesFit, Everybody
    <2>4. Request(a) \/ Undo(a) \/ Ensure(a) \/ Apply(a) \/ Verify(a) \/ Number(a) \/ Insert(a)
      BY <1>1 DEF Move
    <2>5. ~Request(a) /\ ~Undo(a)
      BY <2>1, <2>2, RequestTells, UndoTells
    <2>6. ~Ensure(a) /\ ~Apply(a)
      BY <2>2, EnsureTells, ApplyTells, AppliedPlace
    <2>7. ~Verify(a) /\ ~Number(a) /\ ~Insert(a)
      BY <2>2, VerifyTells, NumberTells, InsertTells
    <2> QED
      BY <2>4, <2>5, <2>6, <2>7
  <1>2. a = Agent
    BY <1>1
  <1>3. \A c \in Clients : actor'[c] = actor[c]
    BY <1>2, MoveTells DEF Only, Everybody, PatchStoreAssumption
  <1> QED
    BY <1>2, <1>3 DEF Quiet

(* The three parts of RestoreFits under its condition.                     *)
RowsShown == \A v \in DOMAIN rows : AsShown(rows[v])

TextShown == actor[Agent].pc # "idle" => AsShown(actor[Agent].text)

Restoring ==
  LET me == actor[Agent] IN
  me.goal = "restore" =>
    /\ me.pc = "undo" => me.old = Shown
    /\ me.pc \in {"ensure", "apply"} => workspace = BaseTree
    /\ me.pc = "verify" => workspace = me.text
    /\ me.answer = "ok" => Shown = me.text
    /\ me.answer = "refused" => me.applied = FALSE /\ Excused

LEMMA RowsShownKept ==
  ASSUME PatchStoreAssumption, TypeOK, RowsShown, TextShown, Move(Agent)
  PROVE  RowsShown'
  <1>1. CASE rows' = rows
    BY <1>1 DEF RowsShown, AsShown
  <1>2. CASE Insert(Agent) /\ rows' # rows
    <2>1. /\ rows' = Append(rows, actor[Agent].text) /\ Len(rows) < MaxVersions
          /\ actor[Agent].pc = "insert" /\ actor[Agent].text \in Trees
      BY <1>2, InsertTells, ActorFields DEF Everybody
    <2>2. AsShown(actor[Agent].text)
      BY <2>1 DEF TextShown
    <2>3. /\ DOMAIN rows' = 1..(Len(rows) + 1) /\ rows'[Len(rows) + 1] = actor[Agent].text
          /\ \A v \in DOMAIN rows : rows'[v] = rows[v]
      BY <2>1, Stored
    <2>4. \A v \in DOMAIN rows' : v \in DOMAIN rows \/ v = Len(rows) + 1
      BY <2>3, Bounds
    <2>5. \A v \in DOMAIN rows' : \/ rows'[v] = actor[Agent].text
                                  \/ \E w \in DOMAIN rows : rows'[v] = rows[w]
      BY <2>3, <2>4
    <2>6. \A v \in DOMAIN rows' : AsShown(rows'[v])
      BY <2>2, <2>5 DEF RowsShown
    <2> QED
      BY <2>6 DEF RowsShown, AsShown
  <1> QED
    BY <1>1, <1>2, MoveTells DEF Everybody

LEMMA TextShownKept ==
  ASSUME PatchStoreAssumption, TypeOK, RowsShown, TextShown, Move(Agent)
  PROVE  TextShown'
  <1> USE DEF Everybody
  <1>1. ASSUME actor'[Agent].pc # "idle" PROVE AsShown(actor'[Agent].text)
    <2>1. ~Edit /\ ~Rank /\ ~Verify(Agent) /\ ~Insert(Agent)
      BY <1>1, EditTells, RankTells, VerifyTells, InsertTells, IdleFields
    <2>2. CASE Submit
      BY <2>2, SubmitTells, ShownFields, Bounds
    <2>3. CASE Restore
      BY <2>3, RestoreTells DEF RowsShown
    <2>4. CASE Request(Agent) /\ Agent \in Clients
      BY <2>4 DEF PatchStoreAssumption
    <2>5. CASE Undo(Agent) \/ Ensure(Agent) \/ Apply(Agent) \/ Number(Agent)
      <3>1. actor[Agent].pc # "idle" /\ actor'[Agent].text = actor[Agent].text
        BY <2>5, UndoTells, EnsureTells, ApplyTells, NumberTells DEF Keeps, Stays
      <3> QED
        BY <3>1 DEF TextShown
    <2> QED
      BY <2>1, <2>2, <2>3, <2>4, <2>5 DEF Move
  <1> QED
    BY <1>1 DEF TextShown, AsShown

LEMMA RestoringKept ==
  ASSUME PatchStoreAssumption, TypeOK, PlaceFits(Agent), RowsChange, TextShown, Restoring,
         Move(Agent)
  PROVE  Restoring'
  <1> USE DEF Everybody
  <1>1. workspace \in Trees /\ actor[Agent].text \in Trees
    BY Bounds, ActorFields
  <1>2. ASSUME workspace' = workspace
        PROVE  Shown' = Shown
    BY <1>2 DEF Shown
  <1>3. CASE Edit \/ Rank
    BY <1>3, EditTells, RankTells, IdleFields DEF Restoring
  <1>4. CASE Submit
    BY <1>4, SubmitTells DEF Restoring
  <1>5. CASE Restore
    <2>1. Shown' = Shown /\ workspace' = workspace
      BY <1>2, <1>5, RestoreTells
    <2>2. Shown = BaseTree => workspace = BaseTree
      BY <1>1, BaseIsShown
    <2>3. actor'[Agent].pc = "idle" /\ actor'[Agent].answer = "refused" => ~WithinLimits(Shown)
      BY <1>5, RestoreTells DEF RowsChange
    <2>4. ~WithinLimits(Shown) => Excused'
      BY <2>1 DEF Excused
    <2> QED
      BY <1>5, <2>1, <2>2, <2>3, <2>4, RestoreTells DEF Restoring
  <1>6. CASE Request(Agent) /\ Agent \in Clients
    BY <1>6 DEF PatchStoreAssumption
  <1>7. CASE Undo(Agent)
    <2>1. /\ actor[Agent].pc = "undo" /\ actor[Agent].goal = "restore"
          /\ actor[Agent].applied = FALSE /\ actor[Agent].answer = "none"
          /\ actor[Agent].old = Shown
      BY <1>7, UndoTells DEF PlaceFits, Restoring
    <2>2. CASE /\ Reverses(actor[Agent].old) /\ workspace' = Without(actor[Agent].old)
               /\ actor'[Agent].pc = "ensure" /\ actor'[Agent].answer = actor[Agent].answer
      <3>1. workspace' = BaseTree
        BY <1>1, <2>1, <2>2, ShownReversed
      <3> QED
        BY <2>1, <2>2, <3>1 DEF Restoring
    <2>3. CASE /\ ~Reverses(actor[Agent].old) /\ workspace' = workspace
               /\ actor'[Agent].pc = "idle" /\ actor'[Agent].answer = "refused"
      <3>1. ~AsShown(workspace)
        BY <1>1, <2>1, <2>3, ShownIrreversible
      <3>2. ~AsShown(workspace)'
        BY <2>3, <3>1 DEF AsShown
      <3> QED
        BY <1>7, <2>1, <2>3, <3>2, UndoTells DEF Restoring, Excused
    <2> QED
      BY <1>7, <2>2, <2>3, UndoTells
  <1>8. CASE Ensure(Agent) /\ actor[Agent].goal = "restore"
    <2>1. /\ actor[Agent].pc = "ensure" /\ workspace = BaseTree /\ actor[Agent].text # BaseTree
          /\ actor[Agent].answer = "none"
      BY <1>8, EnsureTells DEF PlaceFits, Restoring
    <2>2. Applies(actor[Agent].text)
      BY <1>1, <2>1, OverBase
    <2>3. Shown = BaseTree
      <3>1. AsShown(workspace)
        <4>1. ASSUME NEW f \in New PROVE workspace[f].newline = TRUE
          <5>1. f \in Files
            BY DEF Files
          <5>2. workspace[f] = Base(f)
            BY <2>1, <5>1, TreeFields
          <5> QED
            BY <5>2 DEF Base
        <4> QED
          BY <4>1 DEF AsShown
      <3> QED
        BY <1>1, <2>1, <3>1, SameAsShown
    <2>4. CASE actor'[Agent].pc # "idle"
      <3>1. actor'[Agent].pc = "apply" /\ actor'[Agent].answer = "none" /\ workspace' = workspace
        BY <1>8, <2>1, <2>2, <2>3, <2>4, EnsureTells
      <3> QED
        BY <2>1, <3>1 DEF Restoring
    <2>5. CASE actor'[Agent].pc = "idle"
      <3>1. /\ actor'[Agent].answer = "refused" /\ workspace' = workspace /\ UNCHANGED policy
            /\ actor'[Agent].text = actor[Agent].text
            /\ actor'[Agent].applied = actor[Agent].applied
            /\ ~Passes(actor[Agent].text) \/ ~WithinLimits(Shown)
        BY <1>8, <2>2, <2>5, EnsureTells, AppliedPlace DEF PlaceFits, Stays, Keeps
      <3>2. Shown' = Shown /\ actor[Agent].applied = FALSE
        BY <1>2, <1>8, <3>1, EnsureTells DEF PlaceFits
      <3>3. Excused'
        BY <2>1, <3>1, <3>2 DEF Excused, Passes
      <3> QED
        BY <2>5, <3>1, <3>2, <3>3 DEF Restoring
    <2> QED
      BY <2>4, <2>5
  <1>9. CASE Apply(Agent) /\ actor[Agent].goal = "restore"
    <2>1. /\ actor[Agent].pc = "apply" /\ workspace = BaseTree /\ actor[Agent].answer = "none"
      BY <1>9, ApplyTells DEF PlaceFits, Restoring
    <2>2. Applies(actor[Agent].text) /\ With(actor[Agent].text) = actor[Agent].text
      BY <1>1, <2>1, OverBase
    <2>3. /\ actor'[Agent].pc = "verify" /\ actor'[Agent].answer = "none"
          /\ workspace' = actor[Agent].text /\ actor'[Agent].text = actor[Agent].text
      BY <1>9, <2>1, <2>2, ApplyTells, AppliedPlace DEF Keeps, Stays
    <2> QED
      BY <2>3 DEF Restoring
  <1>10. CASE Verify(Agent)
    <2>1. /\ actor[Agent].pc = "verify" /\ actor[Agent].goal = "restore"
          /\ workspace = actor[Agent].text
      BY <1>10, VerifyTells DEF PlaceFits, Restoring
    <2>2. AsShown(workspace)
      BY <2>1 DEF TextShown
    <2>3. Shown = actor[Agent].text /\ WithinLimits(Shown)
      BY <1>1, <2>1, <2>2, SameAsShown DEF PlaceFits
    <2>4. /\ actor'[Agent].pc = "idle" /\ actor'[Agent].answer = "ok"
          /\ workspace' = workspace /\ actor'[Agent].text = actor[Agent].text
      BY <1>10, <2>3, VerifyTells DEF Keeps, Stays
    <2> QED
      BY <1>2, <2>3, <2>4 DEF Restoring
  <1>11. CASE (Ensure(Agent) \/ Apply(Agent)) /\ actor[Agent].goal # "restore"
    BY <1>11, EnsureTells, ApplyTells DEF Restoring, Keeps, Stays
  <1>12. CASE Number(Agent) \/ Insert(Agent)
    <2>1. actor[Agent].goal = "store"
      BY <1>12, NumberTells, InsertTells DEF PlaceFits
    <2> QED
      BY <1>12, <2>1, NumberTells, InsertTells DEF Restoring, Keeps, Stays
  <1> QED
    BY <1>3, <1>4, <1>5, <1>6, <1>7, <1>8, <1>9, <1>10, <1>11, <1>12 DEF Move

LEMMA RestoreKept ==
  ASSUME PatchStoreAssumption, StoreInv, NEW a \in Everybody, Move(a)
  PROVE  RestoreFits'
  <1>1. TypeOK /\ PlacesFit /\ RowsChange /\ RestoreFits /\ PlaceFits(Agent)
    BY DEF StoreInv, PlacesFit
  <1>2. ASSUME Quiet' PROVE RowsShown' /\ TextShown' /\ Restoring'
    <2>1. Quiet /\ a = Agent
      BY <1>1, <1>2, QuietMove
    <2>2. RowsShown /\ TextShown /\ Restoring
      BY <1>1, <2>1 DEF RestoreFits, RowsShown, TextShown, Restoring
    <2> QED
      BY <1>1, <2>1, <2>2, RowsShownKept, TextShownKept, RestoringKept
  <1> QED
    BY <1>2 DEF RestoreFits, RowsShown, TextShown, Restoring

LEMMA Unmoved ==
  ASSUME StoreInv, UNCHANGED vars
  PROVE  StoreInv'
  <1> USE DEF vars
  <1>1. TypeOK' /\ RowsChange'
    BY DEF StoreInv, TypeOK, RowsChange
  <1>2. PlacesFit' /\ VersionsFit' /\ AllJudged'
    BY DEF StoreInv, PlacesFit, PlaceFits, VersionsFit, VersionFits, AllJudged, JudgedFits, Passes
  <1>3. RestoreFits'
    BY DEF StoreInv, RestoreFits, Quiet, AsShown, Shown, Excused, Passes
  <1> QED
    BY <1>1, <1>2, <1>3 DEF StoreInv

LEMMA OnEveryStep ==
  ASSUME PatchStoreAssumption, StoreInv, [Next]_vars
  PROVE  StoreInv'
  <1>1. ASSUME NEW a \in Everybody, Move(a) PROVE StoreInv'
    <2>1. TypeOK /\ PlacesFit /\ AllJudged /\ VersionsFit /\ RowsChange
      BY DEF StoreInv
    <2> QED
      BY <1>1, <2>1, TypesKept, PlacesKept, JudgedKept, VersionsKept, RowsKept, RestoreKept DEF StoreInv
  <1> QED
    BY <1>1, StepIsMove, Unmoved

(* Whatever steps the agent and the clients of the patch route take        *)
(* between one another's git commands and inserts, the invariant holds.    *)
THEOREM StoreInductive ==
  ASSUME PatchStoreAssumption
  PROVE  Spec => []StoreInv
  BY AtFirst, OnEveryStep, PTL DEF Spec

LEMMA SoundStore ==
  ASSUME PatchStoreAssumption, StoreInv
  PROVE  StoreIsSound
  <1>1. TypeOK /\ PlacesFit /\ VersionsFit /\ RestoreFits
    BY DEF StoreInv
  <1>2. DOMAIN actor = Everybody
    BY <1>1 DEF TypeOK, Everybody
  <1>3. \A a \in Everybody : PlaceFits(a) /\ VersionFits(a)
    BY <1>1 DEF PlacesFit, VersionsFit, Everybody
  <1>4. OwnVersion
    BY <1>2, <1>3 DEF OwnVersion, VersionFits
  <1>5. LeftBehindByRacesOnly
    <2>1. SUFFICES ASSUME NEW a \in Everybody, actor[a].answer = "refused", actor[a].applied
                   PROVE  /\ actor[a].goal = "store" =>
                               actor[a].version \in DOMAIN rows \/ actor[a].ranked < rankings
                          /\ actor[a].goal # "store" => \E c \in Clients : actor[c] # Idle
      BY <1>2 DEF LeftBehindByRacesOnly
    <2>2. actor[a].applied = TRUE /\ actor[a].goal \in {"none", "store", "restore"}
      BY <1>1, <2>1, ActorFields
    <2>3. actor[a].goal = "store" =>
            actor[a].version \in DOMAIN rows \/ actor[a].ranked < rankings
      BY <1>3, <2>1, <2>2 DEF VersionFits
    <2>4. ASSUME actor[a].goal # "store" PROVE \E c \in Clients : actor[c] # Idle
      <3>1. a = Agent /\ actor[Agent].goal = "restore"
        BY <1>3, <2>1, <2>2, <2>4 DEF PlaceFits
      <3> QED
        BY <1>1, <2>1, <2>2, <3>1 DEF RestoreFits, Quiet
    <2> QED
      BY <2>3, <2>4
  <1>6. RestoreSucceeds
    <2> DEFINE unterminated == \E f \in New : ~workspace[f].newline
    <2>1. SUFFICES ASSUME Quiet, actor[Agent].goal = "restore"
                   PROVE  /\ actor[Agent].answer = "ok" =>
                               Shown = actor[Agent].text
                               /\ (~unterminated => workspace = actor[Agent].text)
                          /\ actor[Agent].answer = "refused" =>
                               \/ unterminated \/ ~WithinLimits(Shown)
                               \/ ~Passes(actor[Agent].text) /\ workspace = BaseTree
      BY DEF RestoreSucceeds, Quiet
    <2>2. /\ actor[Agent].answer = "ok" => Shown = actor[Agent].text
          /\ actor[Agent].answer = "refused" => Excused
      BY <1>1, <2>1 DEF RestoreFits
    <2>3. ASSUME ~unterminated PROVE AsShown(workspace)
      <3>1. \A f \in New : workspace[f] \in Content
        BY <1>1, TreeFields DEF TypeOK, Files
      <3>2. \A f \in New : workspace[f].newline \in BOOLEAN
        BY <3>1, ContentFields
      <3> QED
        BY <2>3, <3>2 DEF AsShown
    <2>4. AsShown(workspace) => Shown = workspace
      BY <1>1, Bounds, SameAsShown
    <2> QED
      BY <2>2, <2>3, <2>4 DEF Excused
  <1> QED
    BY <1>1, <1>4, <1>5, <1>6 DEF StoreIsSound

(* A request that is answered well has the version it was told, changes    *)
(* are left behind by lost races and new rankings only, and with nobody    *)
(* else at work a restore gives exactly what was stored, or is refused for *)
(* one of the reasons stated (PatchService).                               *)
THEOREM StoreSound ==
  ASSUME PatchStoreAssumption
  PROVE  Spec => []StoreIsSound
  <1>1. StoreInv => StoreIsSound
    BY SoundStore
  <1> QED
    BY <1>1, StoreInductive, PTL

(* The rows of generated_patches are only appended to.                     *)
THEOREM StoredVersionsStay ==
  ASSUME PatchStoreAssumption
  PROVE  Spec => VersionsAreImmutable
  <1>1. ASSUME StoreInv, [Next]_vars PROVE [IsPrefix(rows, rows')]_rows
    <2>1. ASSUME NEW a \in Everybody, Move(a) PROVE IsPrefix(rows, rows')
      <3>1. TypeOK /\ TypeOK' /\ PlacesFit /\ RowsChange
        BY <1>1, OnEveryStep DEF StoreInv
      <3>2. /\ rows \in Seq(Trees) /\ rows' \in Seq(Trees) /\ Len(rows) <= Len(rows')
            /\ \A v \in 1..Len(rows) : rows'[v] = rows[v]
        BY <2>1, <3>1, RowsKept, Bounds DEF TypeOK
      <3>3. SubSeq(rows, 1, Len(rows)) = SubSeq(rows', 1, Len(rows))
        BY <3>2
      <3> QED
        BY <3>2, <3>3 DEF IsPrefix
    <2>2. CASE UNCHANGED vars
      BY <2>2 DEF vars
    <2> QED
      BY <1>1, <2>1, <2>2, StepIsMove
  <1> QED
    BY <1>1, StoreInductive, PTL DEF Spec, VersionsAreImmutable

=============================================================================

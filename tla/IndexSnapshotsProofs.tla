-------------------------- MODULE IndexSnapshotsProofs -------------------------
(***************************************************************************)
(* Proofs about IndexSnapshots for any number of requests, files, models,  *)
(* edits and restarts: stored vectors are those of the stored files, a     *)
(* quiet snapshot is the checkout, what was paid for is accounted for, and *)
(* a hybrid ranking compares vectors of one model.                         *)
(***************************************************************************)
EXTENDS IndexSnapshots, FiniteSetTheorems, WellFoundedInduction, TLAPS

JobType ==
  [todo : SUBSET Paths, files : Files, since : 0..MaxEdits, at : Nat, build : Nat,
   calls : Nat]

ChunksType == [build : Nat, of : Nat, files : Files, model : Models \cup {Nobody}]

Typed ==
  /\ TypeOK
  /\ chunks \in ChunksType
  /\ job \in [Requests -> JobType]

(* Rebuilds exclude each other.                                            *)
LockHeld ==
  \A r \in Requests : pc[r] \in {"scan", "embed"} <=> lock = r

(* What a scan has read is what the checkout has, unless it was edited.    *)
Remaining(r) == {p \in Paths \ job[r].todo : workspace[p] # Absent}

ScanFollows ==
  /\ \A r \in Requests :
       /\ job[r].since <= edits
       /\ pc[r] = "scan" =>
            /\ WithinLimit(job[r].files)
            /\ job[r].since = edits
                 => job[r].files = [p \in Remaining(r) |-> workspace[p]]
  /\ index # Nobody => index.since <= edits

(* An index that is being embedded stays.                                  *)
EmbedsIndex ==
  \A r \in Requests :
    pc[r] = "embed" =>
      index # Nobody /\ job[r].at = index.at /\ job[r].files = index.files

(* A number names one snapshot, and a build one set of vectors.            *)
SearchFollows ==
  \A r \in Requests :
    /\ pc[r] \in {"chunks", "query", "score"} =>
         /\ index # Nobody /\ job[r].at \in 1..index.at
         /\ job[r].at = index.at => job[r].files = index.files
    /\ pc[r] \in {"query", "score"} =>
         /\ job[r].build <= chunks.build
         /\ job[r].build = chunks.build /\ chunks.of = job[r].at
              => chunks.model = model /\ chunks.files = job[r].files

(* Calls of the build under way are in no log yet.                         *)
Unrecorded ==
  IF lock # Nobody /\ pc[lock] = "embed" THEN job[lock].calls ELSE 0

UsageFollows ==
  /\ recorded + Unrecorded <= billed
  /\ (\A r \in Requests : pc[r] \notin {"failed", "lexical"})
       => recorded + Unrecorded = billed

IndexInv ==
  /\ Typed
  /\ LockHeld
  /\ ScanFollows
  /\ EmbedsIndex
  /\ SearchFollows
  /\ UsageFollows
  /\ VectorsMatchFiles
  /\ QuietIndexIsExact

-----------------------------------------------------------------------------
(* Data.                                                                   *)

LEMMA PathsNumbered ==
  ASSUME SnapshotsAssumption
  PROVE  Paths \subseteq Nat
  <1>1. Cardinality(Paths) \in Nat /\ Paths = 1..Cardinality(Paths)
    BY FS_CardinalityType DEF SnapshotsAssumption
  <1> QED
    BY <1>1

LEMMA MinIsMember ==
  ASSUME SnapshotsAssumption, NEW S \in SUBSET Paths, S # {}
  PROVE  Min(S) \in S
  <1>1. S \subseteq Nat
    BY PathsNumbered
  <1> DEFINE less == OpToRel(<, Nat)
  <1>2. IsWellFoundedOn(less, Nat)
    BY NatLessThanWellFounded
  <1>3. PICK x \in S : \A y \in S : ~ (<<y, x>> \in less)
    <2> HIDE DEF less
    <2> QED
      BY <1>1, <1>2, WFMin
  <1>4. \A y \in S : ~ (y < x)
    BY <1>1, <1>3 DEF OpToRel
  <1>5. \A y \in S : x <= y
    <2> TAKE y \in S
    <2>1. x \in Nat /\ y \in Nat /\ ~ (y < x)
      BY <1>1, <1>4
    <2> QED
      BY <2>1
  <1> QED
    BY <1>5 DEF Min

LEMMA NoFilesTyped ==
  ASSUME SnapshotsAssumption
  PROVE  NoFiles \in Files /\ DOMAIN NoFiles = {} /\ WithinLimit(NoFiles)
  <1>1. NoFiles \in Files /\ DOMAIN NoFiles = {}
    BY DEF NoFiles, Files
  <1> QED
    BY <1>1, FS_EmptySet DEF WithinLimit, SnapshotsAssumption

(* One more file of the checkout.                                          *)
LEMMA ReadTyped ==
  ASSUME Typed, NEW files \in Files, NEW next \in Paths, workspace[next] # Absent
  PROVE  [p \in DOMAIN files \cup {next} |->
            IF p = next THEN workspace[p] ELSE files[p]] \in Files
  <1>1. PICK S \in SUBSET Paths : files \in [S -> Contents \ {Absent}]
    BY DEF Files
  <1>2. workspace[next] \in Contents \ {Absent}
    BY DEF Typed, TypeOK
  <1> DEFINE read == [p \in DOMAIN files \cup {next} |->
                        IF p = next THEN workspace[p] ELSE files[p]]
  <1>3. read \in [S \cup {next} -> Contents \ {Absent}]
    BY <1>1, <1>2
  <1>4. S \cup {next} \in SUBSET Paths
    BY <1>1
  <1> QED
    BY <1>3, <1>4 DEF Files

(* A request goes to another place, perhaps with another job.              *)
Moves(r, place) ==
  /\ pc' \in [Requests -> Locations] /\ pc'[r] = place
  /\ job' \in [Requests -> JobType]
  /\ \A q \in Requests \ {r} : pc'[q] = pc[q] /\ job'[q] = job[q]

LEMMA MovesOnly ==
  ASSUME Typed, NEW r \in Requests, NEW place \in Locations,
         Goto(r, place), UNCHANGED job
  PROVE  Moves(r, place)
  BY DEF Typed, TypeOK, Goto, Moves

LEMMA MovesWith ==
  ASSUME Typed, NEW r \in Requests, NEW place \in Locations, NEW new \in JobType,
         Goto(r, place), job' = [job EXCEPT ![r] = new]
  PROVE  Moves(r, place) /\ job'[r] = new
  BY DEF Typed, TypeOK, Goto, Moves

LEMMA StaysWith ==
  ASSUME Typed, NEW r \in Requests, NEW new \in JobType,
         UNCHANGED pc, job' = [job EXCEPT ![r] = new]
  PROVE  Moves(r, pc[r]) /\ job'[r] = new
  BY DEF Typed, TypeOK, Moves

-----------------------------------------------------------------------------
(* What the steps do.                                                      *)

LEMMA LockIndexTells ==
  ASSUME SnapshotsAssumption, Typed, NEW r \in Requests, LockIndex(r)
  PROVE  /\ Moves(r, "scan") /\ pc[r] = "lock index"
         /\ lock = Nobody /\ lock' = r
         /\ job'[r].todo = Paths /\ job'[r].files = NoFiles /\ job'[r].since = edits
         /\ UNCHANGED <<checkout, store, setting, usage>>
  <1> DEFINE new == [NoJob EXCEPT !.todo = Paths, !.since = edits]
  <1>1. edits \in 0..MaxEdits /\ edits \in Nat
    BY DEF Typed, TypeOK, SnapshotsAssumption
  <1>2. /\ new \in JobType /\ new.todo = Paths /\ new.files = NoFiles
        /\ new.since = edits
    BY <1>1, NoFilesTyped DEF NoJob, JobType
  <1>3. Goto(r, "scan") /\ job' = [job EXCEPT ![r] = new]
    BY DEF LockIndex
  <1> HIDE DEF new
  <1>4. Moves(r, "scan") /\ job'[r] = new
    BY <1>2, <1>3, MovesWith DEF Locations
  <1> QED
    BY <1>2, <1>4 DEF LockIndex, AcquireLock

LEMMA ReadFileTells ==
  ASSUME SnapshotsAssumption, Typed, NEW r \in Requests, ReadFile(r)
  PROVE  \E next \in job[r].todo :
           /\ Moves(r, "scan") /\ pc[r] = "scan"
           /\ job'[r].todo = job[r].todo \ {next} /\ job'[r].since = job[r].since
           /\ WithinLimit(job'[r].files)
           /\ IF workspace[next] = Absent THEN job'[r].files = job[r].files
              ELSE job'[r].files = [p \in DOMAIN job[r].files \cup {next} |->
                     IF p = next THEN workspace[p] ELSE job[r].files[p]]
           /\ UNCHANGED <<checkout, store, lock, setting, usage>>
  <1> DEFINE next == Min(job[r].todo)
  <1> DEFINE files == job[r].files
  <1> DEFINE read == IF workspace[next] = Absent THEN files
                     ELSE [p \in DOMAIN files \cup {next} |->
                             IF p = next THEN workspace[p] ELSE files[p]]
  <1>1. job[r] \in JobType
    BY DEF Typed
  <1>2. next \in job[r].todo /\ next \in Paths
    BY <1>1, MinIsMember DEF ReadFile, JobType
  <1>3. read \in Files
    <2>1. files \in Files
      BY <1>1 DEF JobType
    <2> HIDE DEF files, next
    <2> QED
      BY <1>2, <2>1, ReadTyped
  <1>4. /\ WithinLimit(read) /\ pc[r] = "scan"
        /\ job' = [job EXCEPT ![r].todo = @ \ {next}, ![r].files = read]
        /\ UNCHANGED <<checkout, store, lock, setting, pc, usage>>
    BY DEF ReadFile
  <1>5. \/ workspace[next] = Absent /\ read = files
        \/ /\ workspace[next] # Absent
           /\ read = [p \in DOMAIN files \cup {next} |->
                        IF p = next THEN workspace[p] ELSE files[p]]
    OBVIOUS
  <1> HIDE DEF read, next
  <1> DEFINE new == [job[r] EXCEPT !.todo = @ \ {next}, !.files = read]
  <1>6. /\ new \in JobType /\ new.todo = job[r].todo \ {next} /\ new.files = read
        /\ new.since = job[r].since
    BY <1>1, <1>3 DEF JobType
  <1>7. job' = [job EXCEPT ![r] = new]
    BY <1>4 DEF Typed
  <1> HIDE DEF new
  <1>8. Moves(r, "scan") /\ job'[r] = new
    BY <1>4, <1>6, <1>7, StaysWith
  <1> QED
    BY <1>2, <1>4, <1>5, <1>6, <1>8

(* A rebuild that fails leaves its calls unrecorded.                       *)
LEMMA FailTells ==
  ASSUME Typed, NEW r \in Requests,
         ScanFails(r) \/ NoIndexToEmbed(r) \/ EmbedFails(r)
  PROVE  /\ Moves(r, "failed") /\ pc[r] \in {"scan", "lock chunks", "embed"}
         /\ lock' = IF lock = r THEN Nobody ELSE lock
         /\ billed' \in {billed, billed + 1}
         /\ UNCHANGED <<checkout, store, setting, job, recorded>>
  <1>1. Fail(r) /\ pc[r] \in {"scan", "lock chunks", "embed"}
    BY DEF ScanFails, NoIndexToEmbed, EmbedFails
  <1>2. Moves(r, "failed")
    BY <1>1, MovesOnly DEF Fail, Locations
  <1>3. billed' \in {billed, billed + 1} /\ UNCHANGED recorded
    BY DEF ScanFails, NoIndexToEmbed, EmbedFails, usage
  <1> QED
    BY <1>1, <1>2, <1>3 DEF Fail, Release

LEMMA CommitIndexTells ==
  ASSUME SnapshotsAssumption, Typed, ScanFollows, NEW r \in Requests, CommitIndex(r)
  PROVE  /\ Moves(r, "done") /\ pc[r] = "scan" /\ job[r].todo = {}
         /\ lock' = IF lock = r THEN Nobody ELSE lock
         /\ index' \in SnapshotType /\ index' # Nobody
         /\ index'.at = IF index = Nobody THEN 1 ELSE index.at + 1
         /\ index'.files = job[r].files /\ index'.since = job[r].since
         /\ chunks' \in ChunksType /\ chunks'.build = chunks.build
         /\ chunks'.of = 0 /\ DOMAIN chunks'.files = {}
         /\ UNCHANGED <<checkout, setting, job, usage>>
  <1>1. Moves(r, "done")
    BY MovesOnly DEF CommitIndex, Locations
  <1>2. /\ index' = [at |-> IF index = Nobody THEN 1 ELSE index.at + 1,
                     files |-> job[r].files, since |-> job[r].since]
        /\ chunks' = [NoChunks EXCEPT !.build = chunks.build]
    BY DEF CommitIndex, ReplaceFiles
  <1>3. job[r] \in JobType /\ chunks \in ChunksType
    BY DEF Typed
  <1>4. (IF index = Nobody THEN 1 ELSE index.at + 1) \in Nat \ {0}
    BY DEF Typed, TypeOK, SnapshotType
  <1>5. index' \in SnapshotType
    BY <1>2, <1>3, <1>4 DEF JobType, SnapshotType
  <1>6. index' # Nobody
    BY <1>5 DEF SnapshotsAssumption
  <1>7. /\ chunks' \in ChunksType /\ chunks'.build = chunks.build
        /\ chunks'.of = 0 /\ DOMAIN chunks'.files = {}
    BY <1>2, <1>3, NoFilesTyped DEF NoChunks, ChunksType
  <1> QED
    BY <1>1, <1>2, <1>5, <1>6, <1>7 DEF CommitIndex, Release

LEMMA LockChunksTells ==
  ASSUME SnapshotsAssumption, Typed, NEW r \in Requests, LockChunks(r)
  PROVE  /\ Moves(r, "embed") /\ pc[r] = "lock chunks"
         /\ lock = Nobody /\ lock' = r /\ index # Nobody
         /\ job'[r].files = index.files /\ job'[r].at = index.at
         /\ job'[r].since = 0 /\ job'[r].calls = 0
         /\ UNCHANGED <<checkout, store, setting, usage>>
  <1> DEFINE new == [NoJob EXCEPT !.todo = DOMAIN index.files, !.files = index.files,
                                  !.at = index.at]
  <1>1. index # Nobody /\ index \in SnapshotType
    BY DEF LockChunks, Typed, TypeOK
  <1>2. /\ new \in JobType /\ new.files = index.files /\ new.at = index.at
        /\ new.since = 0 /\ new.calls = 0
    <2>1. index.files \in Files /\ index.at \in Nat
      BY <1>1 DEF SnapshotType
    <2>2. DOMAIN index.files \subseteq Paths
      BY <2>1 DEF Files
    <2>3. 0 \in 0..MaxEdits
      BY DEF SnapshotsAssumption
    <2>4. NoJob \in JobType /\ NoJob.since = 0 /\ NoJob.calls = 0
      BY <2>3, NoFilesTyped DEF NoJob, JobType
    <2> QED
      BY <2>1, <2>2, <2>4 DEF JobType
  <1>3. Goto(r, "embed") /\ job' = [job EXCEPT ![r] = new]
    BY DEF LockChunks
  <1> HIDE DEF new
  <1>4. Moves(r, "embed") /\ job'[r] = new
    BY <1>2, <1>3, MovesWith DEF Locations
  <1> QED
    BY <1>1, <1>2, <1>4 DEF LockChunks, AcquireLock

LEMMA EmbedBatchTells ==
  ASSUME SnapshotsAssumption, Typed, NEW r \in Requests, EmbedBatch(r)
  PROVE  /\ Moves(r, "embed") /\ pc[r] = "embed"
         /\ job'[r].files = job[r].files /\ job'[r].at = job[r].at
         /\ job'[r].since = job[r].since /\ job'[r].calls = job[r].calls + 1
         /\ billed' = billed + 1
         /\ UNCHANGED <<checkout, store, lock, setting, recorded>>
  <1>1. job[r] \in JobType /\ job \in [Requests -> JobType]
    BY DEF Typed
  <1> DEFINE todo == job[r].todo \ {Min(job[r].todo)}
  <1> DEFINE new == [job[r] EXCEPT !.todo = todo, !.calls = job[r].calls + 1]
  <1>2. /\ new \in JobType /\ new.files = job[r].files /\ new.at = job[r].at
        /\ new.since = job[r].since /\ new.calls = job[r].calls + 1
    <2>1. todo \in SUBSET Paths /\ job[r].calls + 1 \in Nat
      BY <1>1 DEF JobType
    <2> HIDE DEF todo
    <2> QED
      BY <1>1, <2>1 DEF JobType
  <1>3. UNCHANGED pc /\ job' = [job EXCEPT ![r] = new]
    BY <1>1 DEF EmbedBatch
  <1> HIDE DEF new
  <1>4. Moves(r, pc[r]) /\ job'[r] = new
    BY <1>2, <1>3, StaysWith
  <1> QED
    BY <1>2, <1>4 DEF EmbedBatch

LEMMA CommitChunksTells ==
  ASSUME SnapshotsAssumption, Typed, NEW r \in Requests, CommitChunks(r)
  PROVE  /\ Moves(r, "done") /\ pc[r] = "embed"
         /\ lock' = IF lock = r THEN Nobody ELSE lock
         /\ chunks' \in ChunksType /\ chunks'.build = chunks.build + 1
         /\ chunks'.of = job[r].at /\ chunks'.files = job[r].files
         /\ recorded' = recorded + job[r].calls
         /\ UNCHANGED <<checkout, index, setting, job, billed>>
  <1>1. Moves(r, "done")
    BY MovesOnly DEF CommitChunks, Locations
  <1>2. /\ chunks' = [build |-> chunks.build + 1, of |-> job[r].at,
                      files |-> job[r].files, model |-> model]
        /\ recorded' = recorded + job[r].calls
    BY DEF CommitChunks, UsageOf
  <1>3. job[r] \in JobType /\ chunks \in ChunksType /\ model \in Models
    BY DEF Typed, TypeOK
  <1>4. chunks' \in ChunksType
    BY <1>2, <1>3 DEF JobType, ChunksType
  <1> QED
    BY <1>1, <1>2, <1>4 DEF CommitChunks, Release

LEMMA BeginTells ==
  ASSUME Typed, NEW r \in Requests, Begin(r)
  PROVE  /\ pc[r] = "idle"
         /\ \E place \in {"lock index", "lock chunks", "files"} : Moves(r, place)
         /\ UNCHANGED <<checkout, store, lock, setting, job, usage>>
  <1>1. PICK place \in {"lock index", "lock chunks", "files"} : Goto(r, place)
    BY DEF Begin
  <1>2. Moves(r, place)
    BY <1>1, MovesOnly DEF Begin, Locations
  <1> QED
    BY <1>2 DEF Begin

LEMMA ReadFilesTells ==
  ASSUME SnapshotsAssumption, Typed, NEW r \in Requests, ReadFiles(r)
  PROVE  /\ pc[r] = "files"
         /\ \/ Moves(r, "failed") /\ UNCHANGED job
            \/ /\ Moves(r, "chunks") /\ index # Nobody
               /\ job'[r].files = index.files /\ job'[r].at = index.at
               /\ job'[r].since = 0
         /\ UNCHANGED <<checkout, store, lock, setting, usage>>
  <1>1. CASE index = Nobody
    BY <1>1, MovesOnly DEF ReadFiles, Locations
  <1>2. CASE index # Nobody
    <2> DEFINE new == [NoJob EXCEPT !.files = index.files, !.at = index.at]
    <2>1. index \in SnapshotType /\ 0 \in 0..MaxEdits
      BY <1>2 DEF Typed, TypeOK, SnapshotsAssumption
    <2>2. index.files \in Files /\ index.at \in Nat
      BY <2>1 DEF SnapshotType
    <2>3. NoJob \in JobType /\ NoJob.since = 0
      BY <2>1, NoFilesTyped DEF NoJob, JobType
    <2>4. new \in JobType /\ new.files = index.files /\ new.at = index.at /\ new.since = 0
      BY <2>2, <2>3 DEF JobType
    <2>5. Goto(r, "chunks") /\ job' = [job EXCEPT ![r] = new]
      BY <1>2 DEF ReadFiles
    <2> HIDE DEF new
    <2>6. Moves(r, "chunks") /\ job'[r] = new
      BY <2>4, <2>5, MovesWith DEF Locations
    <2> QED
      BY <1>2, <2>4, <2>6 DEF ReadFiles
  <1> QED
    BY <1>1, <1>2

LEMMA ReadChunksTells ==
  ASSUME Typed, NEW r \in Requests, ReadChunks(r)
  PROVE  /\ pc[r] = "chunks"
         /\ \/ Moves(r, "lexical") /\ UNCHANGED job
            \/ /\ Moves(r, "query") /\ Compatible(r)
               /\ job'[r].files = job[r].files /\ job'[r].at = job[r].at
               /\ job'[r].since = job[r].since /\ job'[r].build = chunks.build
         /\ UNCHANGED <<checkout, store, lock, setting, usage>>
  <1>1. CASE ~Compatible(r)
    BY <1>1, MovesOnly DEF ReadChunks, Locations
  <1>2. CASE Compatible(r)
    <2> DEFINE new == [job[r] EXCEPT !.build = chunks.build]
    <2>1. job[r] \in JobType /\ job \in [Requests -> JobType] /\ chunks.build \in Nat
      BY DEF Typed, ChunksType
    <2>2. /\ new \in JobType /\ new.files = job[r].files /\ new.at = job[r].at
          /\ new.since = job[r].since /\ new.build = chunks.build
      BY <2>1 DEF JobType
    <2>3. Goto(r, "query") /\ job' = [job EXCEPT ![r] = new]
      BY <1>2, <2>1 DEF ReadChunks
    <2> HIDE DEF new
    <2>4. Moves(r, "query") /\ job'[r] = new
      BY <2>2, <2>3, MovesWith DEF Locations
    <2> QED
      BY <1>2, <2>2, <2>4 DEF ReadChunks
  <1> QED
    BY <1>1, <1>2

(* The provider is asked; the search goes on with or without the answer.   *)
LEMMA QueryTells ==
  ASSUME Typed, NEW r \in Requests, Query(r) \/ QueryFails(r)
  PROVE  /\ pc[r] = "query"
         /\ \/ Moves(r, "lexical") /\ billed' \in {billed, billed + 1} /\ UNCHANGED recorded
            \/ Moves(r, "score") /\ billed' = billed + 1 /\ recorded' = recorded + 1
         /\ UNCHANGED <<checkout, store, lock, setting, job>>
  <1>1. CASE Query(r)
    BY <1>1, MovesOnly DEF Query, Locations
  <1>2. CASE QueryFails(r)
    BY <1>2, MovesOnly DEF QueryFails, Locations
  <1> QED
    BY <1>1, <1>2

LEMMA ScoreTells ==
  ASSUME Typed, NEW r \in Requests, Score(r)
  PROVE  /\ pc[r] = "score"
         /\ \/ Moves(r, "hybrid") /\ RowsRemain(r)
            \/ Moves(r, "raised")
         /\ UNCHANGED <<checkout, store, lock, setting, job, usage>>
  <1>1. CASE RowsRemain(r)
    BY <1>1, MovesOnly DEF Score, Locations
  <1>2. CASE ~RowsRemain(r)
    BY <1>2, MovesOnly DEF Score, Locations
  <1> QED
    BY <1>1, <1>2

LEMMA EditTells ==
  ASSUME SnapshotsAssumption, Typed, Edit
  PROVE  /\ workspace' \in [Paths -> Contents]
         /\ edits' = edits + 1 /\ edits' \in 0..MaxEdits
         /\ UNCHANGED <<store, lock, setting, pc, job, usage>>
  <1>1. edits \in 0..MaxEdits /\ MaxEdits \in Nat /\ edits < MaxEdits
    BY DEF Typed, TypeOK, SnapshotsAssumption, Edit
  <1>2. edits' = edits + 1 /\ edits' \in 0..MaxEdits
    BY <1>1 DEF Edit
  <1>3. PICK p \in Paths, content \in {edits + 1, Absent} :
          workspace' = [workspace EXCEPT ![p] = content]
    BY DEF Edit
  <1>4. content \in Contents
    BY <1>1, <1>3 DEF Contents
  <1> QED
    BY <1>2, <1>3, <1>4 DEF Edit, Typed, TypeOK

(* Requests at work fail, the others are left alone.                       *)
LEMMA RestartTells ==
  ASSUME SnapshotsAssumption, Typed, Restart
  PROVE  /\ restarts' \in 0..MaxRestarts /\ model' \in Models /\ lock' = Nobody
         /\ pc' \in [Requests -> Locations]
         /\ \A q \in Requests : pc'[q] = IF pc[q] \in Ended \cup {"idle"} THEN pc[q]
                                         ELSE "failed"
         /\ UNCHANGED <<checkout, store, job, usage>>
  <1>1. restarts' \in 0..MaxRestarts
    BY DEF Restart, Typed, TypeOK, SnapshotsAssumption
  <1>2. /\ pc' \in [Requests -> Locations]
        /\ \A q \in Requests : pc'[q] = IF pc[q] \in Ended \cup {"idle"} THEN pc[q]
                                        ELSE "failed"
    BY DEF Restart, Typed, TypeOK, Locations, Ended
  <1> QED
    BY <1>1, <1>2 DEF Restart

-----------------------------------------------------------------------------
(* Shared by the steps.                                                    *)

(* Locations at which a request has read nothing it goes on with.          *)
Aside == Locations \ {"scan", "embed", "chunks", "query", "score"}

LEMMA TypedFacts ==
  ASSUME SnapshotsAssumption, Typed
  PROVE  /\ edits \in Nat /\ billed \in Nat /\ recorded \in Nat
         /\ index # Nobody
              => index.at \in Nat \ {0} /\ index.files \in Files /\ index.since \in Nat
         /\ chunks.build \in Nat /\ chunks.of \in Nat
         /\ \A q \in Requests :
              /\ job[q].since \in Nat /\ job[q].at \in Nat /\ job[q].build \in Nat
              /\ job[q].calls \in Nat /\ job[q].files \in Files
              /\ job[q].todo \subseteq Paths
  <1>1. edits \in Nat /\ billed \in Nat /\ recorded \in Nat
    BY DEF Typed, TypeOK, SnapshotsAssumption
  <1>2. index # Nobody
          => index.at \in Nat \ {0} /\ index.files \in Files /\ index.since \in Nat
    BY DEF Typed, TypeOK, SnapshotType, SnapshotsAssumption
  <1>3. chunks.build \in Nat /\ chunks.of \in Nat
    BY DEF Typed, ChunksType
  <1>4. ASSUME NEW q \in Requests
        PROVE  /\ job[q].since \in Nat /\ job[q].at \in Nat /\ job[q].build \in Nat
               /\ job[q].calls \in Nat /\ job[q].files \in Files
               /\ job[q].todo \subseteq Paths
    <2>1. job[q] \in JobType /\ MaxEdits \in Nat
      BY DEF Typed, SnapshotsAssumption
    <2> QED
      BY <2>1 DEF JobType
  <1> QED
    BY <1>1, <1>2, <1>3, <1>4

(* The types of what a request writes make up the types of the state.      *)
LEMMA TypedAgain ==
  ASSUME SnapshotsAssumption, Typed,
         workspace' \in [Paths -> Contents], edits' \in 0..MaxEdits,
         index' \in SnapshotType \cup {Nobody},
         index' # Nobody => WithinLimit(index'.files),
         chunks' \in ChunksType,
         lock' \in Requests \cup {Nobody}, model' \in Models, restarts' \in 0..MaxRestarts,
         pc' \in [Requests -> Locations], job' \in [Requests -> JobType],
         billed' \in Nat, recorded' \in Nat, recorded' <= billed'
  PROVE  Typed'
  <1>1. chunks'.build \in Nat /\ chunks'.files \in Files
    BY DEF ChunksType
  <1>2. ASSUME NEW r \in Requests
        PROVE  job'[r].files \in Files /\ job'[r].todo \subseteq Paths
    <2>1. job'[r] \in JobType
      OBVIOUS
    <2> QED
      BY <2>1 DEF JobType
  <1>3. recorded' \in 0..billed'
    OBVIOUS
  <1>4. (index' # Nobody => WithinLimit(index'.files))
          <=> (index # Nobody => WithinLimit(index.files))'
    BY DEF WithinLimit
  <1> QED
    BY <1>1, <1>2, <1>3, <1>4 DEF Typed, TypeOK

(* Whose calls are unrecorded.                                             *)
LEMMA WhoEmbeds ==
  ASSUME SnapshotsAssumption, Typed, LockHeld
  PROVE  /\ Unrecorded \in Nat
         /\ \A r \in Requests : pc[r] = "embed" => Unrecorded = job[r].calls
         /\ (\A r \in Requests : pc[r] # "embed") => Unrecorded = 0
  <1>1. lock # Nobody => lock \in Requests
    BY DEF Typed, TypeOK
  <1>2. \A r \in Requests : job[r].calls \in Nat
    BY TypedFacts
  <1>3. \A r \in Requests : pc[r] = "embed" => lock = r /\ lock # Nobody
    BY DEF LockHeld, SnapshotsAssumption
  <1> QED
    BY <1>1, <1>2, <1>3 DEF Unrecorded

(* Others are where they were.                                             *)
LEMMA SearchKept ==
  ASSUME SearchFollows, NEW q \in Requests, pc'[q] = pc[q], job'[q] = job[q],
         UNCHANGED <<index, chunks, model>>
  PROVE  /\ pc'[q] \in {"chunks", "query", "score"} =>
              /\ index' # Nobody /\ job'[q].at \in 1..index'.at
              /\ job'[q].at = index'.at => job'[q].files = index'.files
         /\ pc'[q] \in {"query", "score"} =>
              /\ job'[q].build <= chunks'.build
              /\ job'[q].build = chunks'.build /\ chunks'.of = job'[q].at
                   => chunks'.model = model' /\ chunks'.files = job'[q].files
  BY DEF SearchFollows

(* A request that turns aside, with or without the lock.                   *)
LEMMA AsideStep ==
  ASSUME SnapshotsAssumption, IndexInv,
         NEW r \in Requests, NEW place \in Aside, Moves(r, place),
         pc[r] \notin Ended,
         lock' = IF lock = r THEN Nobody ELSE lock,
         billed' \in {billed, billed + 1},
         place \in {"failed", "lexical"} \/ (billed' = billed /\ pc[r] # "embed"),
         UNCHANGED <<checkout, store, setting, job, recorded>>
  PROVE  IndexInv'
  <1>0. /\ Typed /\ LockHeld /\ ScanFollows /\ EmbedsIndex /\ SearchFollows /\ UsageFollows
        /\ VectorsMatchFiles /\ QuietIndexIsExact
    BY DEF IndexInv
  <1>1. /\ UNCHANGED <<workspace, edits, index, chunks, model, restarts, job, recorded>>
        /\ pc'[r] = place /\ pc' \in [Requests -> Locations]
        /\ \A q \in Requests \ {r} : pc'[q] = pc[q]
        /\ pc'[r] \notin {"scan", "embed", "chunks", "query", "score"}
    BY DEF Aside, Moves, checkout, store, setting
  <1>2. Typed'
    <2>1. billed' \in Nat /\ recorded \in Nat /\ recorded <= billed'
      BY <1>0, TypedFacts DEF Typed, TypeOK
    <2> QED
      BY <1>0, <1>1, <2>1, TypedAgain DEF Typed, TypeOK
  <1>3. LockHeld'
    BY <1>0, <1>1 DEF LockHeld, Typed, TypeOK, SnapshotsAssumption
  <1>4. ScanFollows'
    BY <1>0, <1>1 DEF ScanFollows, Remaining, WithinLimit
  <1>5. EmbedsIndex'
    BY <1>0, <1>1 DEF EmbedsIndex
  <1>6. SearchFollows'
    BY <1>0, <1>1, SearchKept DEF SearchFollows
  <1>7. UsageFollows'
    <2>1. Unrecorded \in Nat /\ billed \in Nat /\ recorded \in Nat
      BY <1>0, TypedFacts, WhoEmbeds
    <2>2. CASE pc[r] = "embed"
      <3>1. Unrecorded' = 0
        BY <1>0, <1>1, <1>2, <1>3, <2>2, WhoEmbeds DEF LockHeld, Unrecorded
      <3>2. pc'[r] \in {"failed", "lexical"}
        BY <1>1, <2>2
      <3> QED
        BY <1>0, <1>1, <2>1, <3>1, <3>2 DEF UsageFollows
    <2>3. CASE pc[r] # "embed"
      <3>1. Unrecorded' = Unrecorded
        BY <1>0, <1>1, <2>3 DEF Unrecorded, Typed, TypeOK
      <3>2. pc[r] \notin {"failed", "lexical"}
        BY DEF Ended
      <3>3. (\A q \in Requests : pc'[q] \notin {"failed", "lexical"})
              => (\A q \in Requests : pc[q] \notin {"failed", "lexical"}) /\ billed' = billed
        BY <1>1, <3>2
      <3> HIDE DEF Unrecorded
      <3> QED
        BY <1>0, <1>1, <2>1, <3>1, <3>3 DEF UsageFollows
    <2> QED
      BY <2>2, <2>3
  <1>8. VectorsMatchFiles'
    BY <1>0, <1>1 DEF VectorsMatchFiles
  <1>9. QuietIndexIsExact'
    BY <1>0, <1>1 DEF QuietIndexIsExact
  <1> QED
    BY <1>2, <1>3, <1>4, <1>5, <1>6, <1>7, <1>8, <1>9 DEF IndexInv

-----------------------------------------------------------------------------
(* One lemma per step that reads or writes.                                *)

(* Where the store stays, so do those who are where they were.             *)
LEMMA OthersKept ==
  ASSUME SnapshotsAssumption, IndexInv,
         NEW r \in Requests, NEW place \in Locations, Moves(r, place),
         UNCHANGED <<checkout, store, setting>>
  PROVE  /\ \A q \in Requests \ {r} :
              /\ job'[q].since <= edits'
              /\ pc'[q] = "scan" =>
                   /\ WithinLimit(job'[q].files)
                   /\ job'[q].since = edits'
                        => job'[q].files = [p \in Remaining(q)' |-> workspace'[p]]
              /\ pc'[q] = "embed" =>
                   index' # Nobody /\ job'[q].at = index'.at /\ job'[q].files = index'.files
         /\ index' # Nobody => index'.since <= edits'
         /\ VectorsMatchFiles' /\ QuietIndexIsExact'
  <1>1. UNCHANGED <<workspace, edits, index, chunks, model>>
    BY DEF checkout, store, setting
  <1>2. \A q \in Requests \ {r} : pc'[q] = pc[q] /\ job'[q] = job[q]
    BY DEF Moves
  <1>3. ASSUME NEW q \in Requests \ {r}
        PROVE  /\ job'[q].since <= edits'
               /\ pc'[q] = "scan" =>
                    /\ WithinLimit(job'[q].files)
                    /\ job'[q].since = edits'
                         => job'[q].files = [p \in Remaining(q)' |-> workspace'[p]]
               /\ pc'[q] = "embed" =>
                    index' # Nobody /\ job'[q].at = index'.at /\ job'[q].files = index'.files
    <2>1. Remaining(q)' = Remaining(q)
      BY <1>1, <1>2 DEF Remaining
    <2> QED
      BY <1>1, <1>2, <2>1 DEF IndexInv, ScanFollows, EmbedsIndex
  <1>4. index' # Nobody => index'.since <= edits'
    BY <1>1 DEF IndexInv, ScanFollows
  <1>5. VectorsMatchFiles' /\ QuietIndexIsExact'
    BY <1>1 DEF IndexInv, VectorsMatchFiles, QuietIndexIsExact
  <1> QED
    BY <1>3, <1>4, <1>5

(* So do the types.                                                        *)
LEMMA TypesKept ==
  ASSUME SnapshotsAssumption, Typed,
         NEW r \in Requests, NEW place \in Locations, Moves(r, place),
         UNCHANGED <<checkout, store, setting>>,
         lock' \in {lock, r},
         \/ UNCHANGED usage
         \/ billed' = billed + 1 /\ recorded' \in {recorded, recorded + 1}
  PROVE  Typed'
  <1>1. billed \in Nat /\ recorded \in Nat /\ recorded <= billed
    BY TypedFacts DEF Typed, TypeOK
  <1>2. billed' \in Nat /\ recorded' \in Nat /\ recorded' <= billed'
    BY <1>1 DEF usage
  <1>3. UNCHANGED <<workspace, edits, index, chunks, model, restarts>>
    BY DEF checkout, store, setting
  <1>4. pc' \in [Requests -> Locations] /\ job' \in [Requests -> JobType]
    BY DEF Moves
  <1> QED
    BY <1>2, <1>3, <1>4, TypedAgain DEF Typed, TypeOK

LEMMA LockIndexStep ==
  ASSUME SnapshotsAssumption, IndexInv, NEW r \in Requests, LockIndex(r)
  PROVE  IndexInv'
  <1>0. Typed /\ LockHeld /\ ScanFollows /\ SearchFollows /\ UsageFollows
    BY DEF IndexInv
  <1>1. /\ Moves(r, "scan") /\ pc[r] = "lock index"
        /\ lock = Nobody /\ lock' = r
        /\ job'[r].todo = Paths /\ job'[r].files = NoFiles /\ job'[r].since = edits
        /\ UNCHANGED <<checkout, store, setting, usage>>
    BY <1>0, LockIndexTells
  <1>2. /\ UNCHANGED <<workspace, edits, index, chunks, model, billed, recorded>>
        /\ pc'[r] = "scan"
        /\ \A q \in Requests \ {r} : pc'[q] = pc[q] /\ job'[q] = job[q]
    BY <1>1 DEF Moves, checkout, store, setting, usage
  <1>3. Typed'
    BY <1>0, <1>1, TypesKept DEF Locations
  <1>4. LockHeld'
    BY <1>0, <1>1, <1>2 DEF LockHeld, SnapshotsAssumption
  <1>5. ScanFollows'
    <2>1. Remaining(r)' = {}
      BY <1>1 DEF Remaining
    <2>2. job'[r].files = [p \in Remaining(r)' |-> workspace'[p]]
      BY <1>1, <2>1 DEF NoFiles
    <2>3. WithinLimit(job'[r].files)
      BY <1>1, NoFilesTyped
    <2>4. edits \in Nat
      BY <1>0, TypedFacts
    <2>6. job'[r].since = edits /\ edits' = edits
      BY <1>1, <1>2
    <2>5. job'[r].since <= edits'
      BY <2>4, <2>6
    <2> QED
      BY <1>1, <2>2, <2>3, <2>5, OthersKept DEF ScanFollows, WithinLimit, Locations
  <1>6. EmbedsIndex'
    BY <1>1, <1>2, OthersKept DEF EmbedsIndex, Locations
  <1>7. SearchFollows'
    BY <1>0, <1>2, SearchKept DEF SearchFollows
  <1>8. UsageFollows'
    <2>1. Unrecorded = 0 /\ Unrecorded' = 0
      BY <1>1, <1>2 DEF Unrecorded
    <2> QED
      BY <1>0, <1>1, <1>2, <2>1 DEF UsageFollows
  <1>9. VectorsMatchFiles' /\ QuietIndexIsExact'
    BY <1>1, OthersKept DEF Locations
  <1> QED
    BY <1>3, <1>4, <1>5, <1>6, <1>7, <1>8, <1>9 DEF IndexInv

LEMMA LockChunksStep ==
  ASSUME SnapshotsAssumption, IndexInv, NEW r \in Requests, LockChunks(r)
  PROVE  IndexInv'
  <1>0. Typed /\ LockHeld /\ ScanFollows /\ SearchFollows /\ UsageFollows
    BY DEF IndexInv
  <1>1. /\ Moves(r, "embed") /\ pc[r] = "lock chunks"
        /\ lock = Nobody /\ lock' = r /\ index # Nobody
        /\ job'[r].files = index.files /\ job'[r].at = index.at
        /\ job'[r].since = 0 /\ job'[r].calls = 0
        /\ UNCHANGED <<checkout, store, setting, usage>>
    BY <1>0, LockChunksTells
  <1>2. /\ UNCHANGED <<workspace, edits, index, chunks, model, billed, recorded>>
        /\ pc'[r] = "embed"
        /\ \A q \in Requests \ {r} : pc'[q] = pc[q] /\ job'[q] = job[q]
    BY <1>1 DEF Moves, checkout, store, setting, usage
  <1>3. Typed'
    BY <1>0, <1>1, TypesKept DEF Locations
  <1>4. LockHeld'
    BY <1>0, <1>1, <1>2 DEF LockHeld, SnapshotsAssumption
  <1>5. ScanFollows'
    <2>0. edits \in Nat
      BY <1>0, TypedFacts
    <2>2. job'[r].since = 0 /\ edits' = edits
      BY <1>1, <1>2
    <2>1. job'[r].since <= edits'
      BY <2>0, <2>2
    <2> QED
      BY <1>1, <1>2, <2>1, OthersKept DEF ScanFollows, Locations
  <1>6. EmbedsIndex'
    BY <1>1, <1>2, OthersKept DEF EmbedsIndex, Locations
  <1>7. SearchFollows'
    BY <1>0, <1>2, SearchKept DEF SearchFollows
  <1>8. UsageFollows'
    <2>1. Unrecorded = 0 /\ Unrecorded' = 0
      BY <1>1, <1>2 DEF Unrecorded
    <2> QED
      BY <1>0, <1>1, <1>2, <2>1 DEF UsageFollows
  <1>9. VectorsMatchFiles' /\ QuietIndexIsExact'
    BY <1>1, OthersKept DEF Locations
  <1> QED
    BY <1>3, <1>4, <1>5, <1>6, <1>7, <1>8, <1>9 DEF IndexInv

(* Reading one more file.                                                  *)
LEMMA ReadFileStep ==
  ASSUME SnapshotsAssumption, IndexInv, NEW r \in Requests, ReadFile(r)
  PROVE  IndexInv'
  <1>0. Typed /\ LockHeld /\ ScanFollows /\ SearchFollows /\ UsageFollows
    BY DEF IndexInv
  <1>1. PICK next \in job[r].todo :
          /\ Moves(r, "scan") /\ pc[r] = "scan"
          /\ job'[r].todo = job[r].todo \ {next} /\ job'[r].since = job[r].since
          /\ WithinLimit(job'[r].files)
          /\ IF workspace[next] = Absent THEN job'[r].files = job[r].files
             ELSE job'[r].files = [p \in DOMAIN job[r].files \cup {next} |->
                    IF p = next THEN workspace[p] ELSE job[r].files[p]]
          /\ UNCHANGED <<checkout, store, lock, setting, usage>>
    BY <1>0, ReadFileTells
  <1>2. /\ UNCHANGED <<workspace, edits, index, chunks, model, billed, recorded, lock>>
        /\ pc'[r] = "scan" /\ next \in Paths
        /\ \A q \in Requests \ {r} : pc'[q] = pc[q] /\ job'[q] = job[q]
    BY <1>0, <1>1, TypedFacts DEF Moves, checkout, store, setting, usage
  <1>3. Typed'
    BY <1>0, <1>1, TypesKept DEF Locations
  <1>4. LockHeld'
    BY <1>0, <1>1, <1>2 DEF LockHeld
  <1>5. ScanFollows'
    <2>1. job'[r].since <= edits'
      BY <1>0, <1>1, <1>2 DEF ScanFollows
    <2>2. ASSUME job'[r].since = edits'
          PROVE  job'[r].files = [p \in Remaining(r)' |-> workspace'[p]]
      <3>1. job[r].files = [p \in Remaining(r) |-> workspace[p]]
        BY <1>0, <1>1, <1>2, <2>2 DEF ScanFollows
      <3>2. job[r].todo \subseteq Paths
        BY <1>0, TypedFacts
      <3>3. CASE workspace[next] = Absent
        <4>1. Remaining(r)' = Remaining(r)
          BY <1>1, <1>2, <3>2, <3>3 DEF Remaining
        <4> QED
          BY <1>1, <1>2, <3>1, <3>3, <4>1
      <3>4. CASE workspace[next] # Absent
        <4>1. Remaining(r)' = Remaining(r) \cup {next}
          BY <1>1, <1>2, <3>2, <3>4 DEF Remaining
        <4>2. DOMAIN job[r].files = Remaining(r)
          BY <3>1
        <4>3. job'[r].files = [p \in Remaining(r)' |->
                                 IF p = next THEN workspace[p] ELSE job[r].files[p]]
          BY <1>1, <3>4, <4>1, <4>2
        <4>4. \A p \in Remaining(r)' : p # next => job[r].files[p] = workspace[p]
          BY <3>1, <4>1
        <4> HIDE DEF Remaining
        <4> QED
          BY <1>2, <4>3, <4>4
      <3> QED
        BY <3>3, <3>4
    <2> QED
      BY <1>1, <2>1, <2>2, OthersKept DEF ScanFollows, WithinLimit, Locations
  <1>6. EmbedsIndex'
    BY <1>1, <1>2, OthersKept DEF EmbedsIndex, Locations
  <1>7. SearchFollows'
    BY <1>0, <1>2, SearchKept DEF SearchFollows
  <1>8. UsageFollows'
    <2>1. Unrecorded' = Unrecorded
      BY <1>0, <1>1, <1>2 DEF Unrecorded, Typed, TypeOK
    <2> QED
      BY <1>0, <1>1, <1>2, <2>1 DEF UsageFollows
  <1>9. VectorsMatchFiles' /\ QuietIndexIsExact'
    BY <1>1, OthersKept DEF Locations
  <1> QED
    BY <1>3, <1>4, <1>5, <1>6, <1>7, <1>8, <1>9 DEF IndexInv

LEMMA EmbedBatchStep ==
  ASSUME SnapshotsAssumption, IndexInv, NEW r \in Requests, EmbedBatch(r)
  PROVE  IndexInv'
  <1>0. Typed /\ LockHeld /\ ScanFollows /\ EmbedsIndex /\ SearchFollows /\ UsageFollows
    BY DEF IndexInv
  <1>1. /\ Moves(r, "embed") /\ pc[r] = "embed"
        /\ job'[r].files = job[r].files /\ job'[r].at = job[r].at
        /\ job'[r].since = job[r].since /\ job'[r].calls = job[r].calls + 1
        /\ billed' = billed + 1
        /\ UNCHANGED <<checkout, store, lock, setting, recorded>>
    BY <1>0, EmbedBatchTells
  <1>2. /\ UNCHANGED <<workspace, edits, index, chunks, model, recorded, lock>>
        /\ pc'[r] = "embed"
        /\ \A q \in Requests \ {r} : pc'[q] = pc[q] /\ job'[q] = job[q]
    BY <1>1 DEF Moves, checkout, store, setting
  <1>3. Typed'
    BY <1>0, <1>1, TypesKept DEF Locations
  <1>4. LockHeld'
    BY <1>0, <1>1, <1>2 DEF LockHeld
  <1>5. ScanFollows'
    <2>1. job'[r].since <= edits'
      BY <1>0, <1>1, <1>2 DEF ScanFollows
    <2> QED
      BY <1>1, <1>2, <2>1, OthersKept DEF ScanFollows, Locations
  <1>6. EmbedsIndex'
    BY <1>0, <1>1, <1>2 DEF EmbedsIndex
  <1>7. SearchFollows'
    BY <1>0, <1>2, SearchKept DEF SearchFollows
  <1>8. UsageFollows'
    <2>1. Unrecorded = job[r].calls /\ Unrecorded' = job'[r].calls
      <3>1. lock = r /\ lock' = r /\ r # Nobody
        BY <1>0, <1>1, <1>2 DEF LockHeld, SnapshotsAssumption
      <3> QED
        BY <1>1, <1>2, <3>1 DEF Unrecorded
    <2>2. job[r].calls \in Nat /\ billed \in Nat /\ recorded \in Nat
      BY <1>0, TypedFacts
    <2>3. (\A q \in Requests : pc'[q] \notin {"failed", "lexical"})
            => (\A q \in Requests : pc[q] \notin {"failed", "lexical"})
      BY <1>1, <1>2
    <2> QED
      BY <1>0, <1>1, <1>2, <2>1, <2>2, <2>3 DEF UsageFollows
  <1>9. VectorsMatchFiles' /\ QuietIndexIsExact'
    BY <1>1, OthersKept DEF Locations
  <1> QED
    BY <1>3, <1>4, <1>5, <1>6, <1>7, <1>8, <1>9 DEF IndexInv

(* A new index drops the vectors, and nothing is being embedded.           *)
LEMMA CommitIndexStep ==
  ASSUME SnapshotsAssumption, IndexInv, NEW r \in Requests, CommitIndex(r)
  PROVE  IndexInv'
  <1>0. Typed /\ LockHeld /\ ScanFollows /\ SearchFollows /\ UsageFollows
    BY DEF IndexInv
  <1>1. /\ Moves(r, "done") /\ pc[r] = "scan" /\ job[r].todo = {}
        /\ lock' = IF lock = r THEN Nobody ELSE lock
        /\ index' \in SnapshotType /\ index' # Nobody
        /\ index'.at = IF index = Nobody THEN 1 ELSE index.at + 1
        /\ index'.files = job[r].files /\ index'.since = job[r].since
        /\ chunks' \in ChunksType /\ chunks'.build = chunks.build
        /\ chunks'.of = 0 /\ DOMAIN chunks'.files = {}
        /\ UNCHANGED <<checkout, setting, job, usage>>
    BY <1>0, CommitIndexTells
  <1>2. /\ UNCHANGED <<workspace, edits, model, restarts, job, billed, recorded>>
        /\ pc'[r] = "done" /\ pc' \in [Requests -> Locations]
        /\ \A q \in Requests \ {r} : pc'[q] = pc[q]
        /\ lock = r /\ lock' = Nobody
    BY <1>0, <1>1 DEF Moves, checkout, setting, usage, LockHeld
  <1>3. Typed'
    <2>1. WithinLimit(index'.files)
      BY <1>0, <1>1 DEF ScanFollows
    <2>2. billed \in Nat /\ recorded \in Nat /\ recorded <= billed
      BY <1>0, TypedFacts DEF Typed, TypeOK
    <2> QED
      BY <1>0, <1>1, <1>2, <2>1, <2>2, TypedAgain DEF Typed, TypeOK
  <1>4. LockHeld'
    BY <1>0, <1>1, <1>2 DEF LockHeld, SnapshotsAssumption
  <1>5. ScanFollows'
    <2>1. ASSUME NEW q \in Requests
          PROVE  Remaining(q)' = Remaining(q)
      BY <1>2 DEF Remaining
    <2>2. index'.since <= edits'
      BY <1>0, <1>1, <1>2 DEF ScanFollows
    <2> QED
      BY <1>0, <1>2, <2>1, <2>2 DEF ScanFollows, WithinLimit
  <1>6. EmbedsIndex'
    BY <1>0, <1>2 DEF EmbedsIndex, LockHeld
  <1>7. SearchFollows'
    <2> SUFFICES ASSUME NEW q \in Requests, pc'[q] \in {"chunks", "query", "score"}
                 PROVE  /\ job'[q].at \in 1..index'.at /\ job'[q].at # index'.at
                        /\ pc'[q] \in {"query", "score"}
                             => job'[q].build <= chunks'.build /\ chunks'.of # job'[q].at
      BY <1>1 DEF SearchFollows
    <2>1. pc[q] = pc'[q]
      BY <1>2
    <2>2. /\ index # Nobody /\ job[q].at \in 1..index.at
          /\ pc[q] \in {"query", "score"} => job[q].build <= chunks.build
      BY <1>0, <2>1 DEF SearchFollows
    <2>3. index.at \in Nat \ {0} /\ index'.at = index.at + 1
      BY <1>0, <1>1, <2>2, TypedFacts
    <2>4. job'[q] = job[q] /\ chunks'.build = chunks.build /\ chunks'.of = 0
      BY <1>1, <1>2
    <2> QED
      BY <2>1, <2>2, <2>3, <2>4
  <1>8. UsageFollows'
    <2>1. Unrecorded = 0 /\ Unrecorded' = 0
      BY <1>1, <1>2 DEF Unrecorded
    <2>2. (\A q \in Requests : pc'[q] \notin {"failed", "lexical"})
            => (\A q \in Requests : pc[q] \notin {"failed", "lexical"})
      BY <1>1, <1>2
    <2> QED
      BY <1>0, <1>2, <2>1, <2>2 DEF UsageFollows
  <1>9. VectorsMatchFiles'
    BY <1>1 DEF VectorsMatchFiles
  <1>10. QuietIndexIsExact'
    <2> SUFFICES ASSUME index'.since = edits'
                 PROVE  index'.files = [p \in {q \in Paths : workspace'[q] # Absent} |->
                                          workspace'[p]]
      BY DEF QuietIndexIsExact
    <2>1. job[r].files = [p \in Remaining(r) |-> workspace[p]]
      BY <1>0, <1>1, <1>2 DEF ScanFollows
    <2>2. Remaining(r) = {q \in Paths : workspace'[q] # Absent}
      BY <1>1, <1>2 DEF Remaining
    <2> QED
      BY <1>1, <1>2, <2>1, <2>2
  <1> QED
    BY <1>3, <1>4, <1>5, <1>6, <1>7, <1>8, <1>9, <1>10 DEF IndexInv

(* A new build of vectors is of the index that was read under the lock.    *)
LEMMA CommitChunksStep ==
  ASSUME SnapshotsAssumption, IndexInv, NEW r \in Requests, CommitChunks(r)
  PROVE  IndexInv'
  <1>0. /\ Typed /\ LockHeld /\ ScanFollows /\ EmbedsIndex /\ SearchFollows
        /\ UsageFollows /\ QuietIndexIsExact
    BY DEF IndexInv
  <1>1. /\ Moves(r, "done") /\ pc[r] = "embed"
        /\ lock' = IF lock = r THEN Nobody ELSE lock
        /\ chunks' \in ChunksType /\ chunks'.build = chunks.build + 1
        /\ chunks'.of = job[r].at /\ chunks'.files = job[r].files
        /\ recorded' = recorded + job[r].calls
        /\ UNCHANGED <<checkout, index, setting, job, billed>>
    BY <1>0, CommitChunksTells
  <1>2. /\ UNCHANGED <<workspace, edits, index, model, restarts, job, billed>>
        /\ pc'[r] = "done" /\ pc' \in [Requests -> Locations]
        /\ \A q \in Requests \ {r} : pc'[q] = pc[q]
        /\ lock = r /\ lock' = Nobody
    BY <1>0, <1>1 DEF Moves, checkout, setting, LockHeld
  <1>3. /\ Unrecorded = job[r].calls /\ Unrecorded' = 0
        /\ job[r].calls \in Nat /\ billed \in Nat /\ recorded \in Nat
    <2>1. Unrecorded = job[r].calls
      BY <1>0, <1>1, WhoEmbeds
    <2>2. Unrecorded' = 0
      BY <1>2 DEF Unrecorded
    <2> QED
      BY <1>0, <2>1, <2>2, TypedFacts
  <1>4. Typed'
    <2>1. recorded' \in Nat /\ recorded' <= billed'
      BY <1>0, <1>1, <1>2, <1>3 DEF UsageFollows
    <2> QED
      BY <1>0, <1>1, <1>2, <1>3, <2>1, TypedAgain DEF Typed, TypeOK
  <1>5. LockHeld'
    BY <1>0, <1>1, <1>2 DEF LockHeld, SnapshotsAssumption
  <1>6. ScanFollows'
    <2>1. ASSUME NEW q \in Requests
          PROVE  Remaining(q)' = Remaining(q)
      BY <1>2 DEF Remaining
    <2> QED
      BY <1>0, <1>2, <2>1 DEF ScanFollows, WithinLimit
  <1>7. EmbedsIndex'
    BY <1>0, <1>2 DEF EmbedsIndex
  <1>8. SearchFollows'
    <2> SUFFICES ASSUME NEW q \in Requests, pc'[q] \in {"chunks", "query", "score"}
                 PROVE  /\ index' # Nobody /\ job'[q].at \in 1..index'.at
                        /\ job'[q].at = index'.at => job'[q].files = index'.files
                        /\ pc'[q] \in {"query", "score"}
                             => job'[q].build <= chunks'.build
                                  /\ job'[q].build # chunks'.build
      BY DEF SearchFollows
    <2>1. pc[q] = pc'[q]
      BY <1>2
    <2>2. pc[q] \in {"query", "score"} => job[q].build <= chunks.build
      BY <1>0 DEF SearchFollows
    <2>3. job[q].build \in Nat /\ chunks.build \in Nat
      BY <1>0, TypedFacts
    <2>4. job'[q] = job[q] /\ chunks'.build = chunks.build + 1 /\ index' = index
      BY <1>1, <1>2
    <2>5. /\ index # Nobody /\ job[q].at \in 1..index.at
          /\ job[q].at = index.at => job[q].files = index.files
      BY <1>0, <2>1 DEF SearchFollows
    <2> QED
      BY <2>1, <2>2, <2>3, <2>4, <2>5
  <1>9. UsageFollows'
    <2>1. (\A q \in Requests : pc'[q] \notin {"failed", "lexical"})
            => (\A q \in Requests : pc[q] \notin {"failed", "lexical"})
      BY <1>1, <1>2
    <2>2. recorded' = recorded + job[r].calls /\ billed' = billed
      BY <1>1, <1>2
    <2> HIDE DEF Unrecorded
    <2> QED
      BY <1>0, <1>3, <2>1, <2>2 DEF UsageFollows
  <1>10. VectorsMatchFiles'
    BY <1>0, <1>1, <1>2 DEF VectorsMatchFiles, EmbedsIndex
  <1>11. QuietIndexIsExact'
    BY <1>0, <1>2 DEF QuietIndexIsExact
  <1> QED
    BY <1>4, <1>5, <1>6, <1>7, <1>8, <1>9, <1>10, <1>11 DEF IndexInv

(* A search goes on with what it has read.                                 *)
LEMMA SearchStep ==
  ASSUME SnapshotsAssumption, IndexInv,
         NEW r \in Requests, NEW place \in {"chunks", "query", "score"}, Moves(r, place),
         pc[r] \notin {"scan", "embed", "failed", "lexical"},
         job'[r].since <= edits,
         index # Nobody /\ job'[r].at \in 1..index.at,
         job'[r].at = index.at => job'[r].files = index.files,
         place \in {"query", "score"} =>
           /\ job'[r].build <= chunks.build
           /\ job'[r].build = chunks.build /\ chunks.of = job'[r].at
                => chunks.model = model /\ chunks.files = job'[r].files,
         \/ UNCHANGED usage
         \/ billed' = billed + 1 /\ recorded' = recorded + 1,
         UNCHANGED <<checkout, store, lock, setting>>
  PROVE  IndexInv'
  <1>0. Typed /\ LockHeld /\ ScanFollows /\ SearchFollows /\ UsageFollows
    BY DEF IndexInv
  <1>1. /\ UNCHANGED <<workspace, edits, index, chunks, model, lock>>
        /\ pc'[r] = place /\ place \in Locations
        /\ \A q \in Requests \ {r} : pc'[q] = pc[q] /\ job'[q] = job[q]
    BY DEF Moves, checkout, store, setting, Locations
  <1>2. Typed'
    BY <1>0, <1>1, TypesKept
  <1>3. LockHeld'
    BY <1>0, <1>1 DEF LockHeld
  <1>4. ScanFollows'
    BY <1>1, OthersKept DEF ScanFollows
  <1>5. EmbedsIndex'
    BY <1>1, OthersKept DEF EmbedsIndex
  <1>6. SearchFollows'
    BY <1>0, <1>1, SearchKept DEF SearchFollows
  <1>7. UsageFollows'
    <2>1. Unrecorded' = Unrecorded
      BY <1>0, <1>1 DEF Unrecorded, Typed, TypeOK
    <2>2. Unrecorded \in Nat /\ billed \in Nat /\ recorded \in Nat
      BY <1>0, TypedFacts, WhoEmbeds
    <2>3. (\A q \in Requests : pc'[q] \notin {"failed", "lexical"})
            => (\A q \in Requests : pc[q] \notin {"failed", "lexical"})
      BY <1>1
    <2> HIDE DEF Unrecorded
    <2> QED
      BY <1>0, <2>1, <2>2, <2>3 DEF UsageFollows, usage
  <1>8. VectorsMatchFiles' /\ QuietIndexIsExact'
    BY <1>1, OthersKept
  <1> QED
    BY <1>2, <1>3, <1>4, <1>5, <1>6, <1>7, <1>8 DEF IndexInv

LEMMA RebuildFailsStep ==
  ASSUME SnapshotsAssumption, IndexInv, NEW r \in Requests,
         ScanFails(r) \/ NoIndexToEmbed(r) \/ EmbedFails(r)
  PROVE  IndexInv'
  <1>1. /\ Moves(r, "failed") /\ pc[r] \in {"scan", "lock chunks", "embed"}
        /\ lock' = IF lock = r THEN Nobody ELSE lock
        /\ billed' \in {billed, billed + 1}
        /\ UNCHANGED <<checkout, store, setting, job, recorded>>
    BY FailTells DEF IndexInv
  <1> QED
    BY <1>1, AsideStep DEF Aside, Locations, Ended

(* Steps of requests that hold no lock leave it alone.                     *)
LEMMA NotMine ==
  ASSUME IndexInv, NEW r \in Requests, pc[r] \notin {"scan", "embed"}, UNCHANGED lock
  PROVE  lock' = IF lock = r THEN Nobody ELSE lock
  BY DEF IndexInv, LockHeld

LEMMA BeginStep ==
  ASSUME SnapshotsAssumption, IndexInv, NEW r \in Requests, Begin(r)
  PROVE  IndexInv'
  <1>1. PICK place \in {"lock index", "lock chunks", "files"} :
          /\ pc[r] = "idle" /\ Moves(r, place)
          /\ UNCHANGED <<checkout, store, lock, setting, job, usage>>
    BY BeginTells DEF IndexInv
  <1>2. place \in Aside /\ pc[r] \notin Ended /\ pc[r] # "embed"
    BY <1>1 DEF Aside, Locations, Ended
  <1>3. lock' = IF lock = r THEN Nobody ELSE lock
    BY <1>1, NotMine
  <1> QED
    BY <1>1, <1>2, <1>3, AsideStep DEF usage

LEMMA ReadFilesStep ==
  ASSUME SnapshotsAssumption, IndexInv, NEW r \in Requests, ReadFiles(r)
  PROVE  IndexInv'
  <1>1. /\ pc[r] = "files"
        /\ \/ Moves(r, "failed") /\ UNCHANGED job
           \/ /\ Moves(r, "chunks") /\ index # Nobody
              /\ job'[r].files = index.files /\ job'[r].at = index.at
              /\ job'[r].since = 0
        /\ UNCHANGED <<checkout, store, lock, setting, usage>>
    BY ReadFilesTells DEF IndexInv
  <1>2. lock' = IF lock = r THEN Nobody ELSE lock
    BY <1>1, NotMine
  <1>3. CASE Moves(r, "failed") /\ UNCHANGED job
    BY <1>1, <1>2, <1>3, AsideStep DEF usage, Aside, Locations, Ended
  <1>4. CASE /\ Moves(r, "chunks") /\ index # Nobody
             /\ job'[r].files = index.files /\ job'[r].at = index.at
             /\ job'[r].since = 0
    <2>1. edits \in Nat /\ index.at \in Nat \ {0}
      BY <1>4, TypedFacts DEF IndexInv
    <2>2. job'[r].since <= edits /\ job'[r].at \in 1..index.at
      BY <1>4, <2>1
    <2> QED
      BY <1>1, <1>4, <2>2, SearchStep
  <1> QED
    BY <1>1, <1>3, <1>4

(* The vectors that are read match the files that were read before.        *)
LEMMA ReadChunksStep ==
  ASSUME SnapshotsAssumption, IndexInv, NEW r \in Requests, ReadChunks(r)
  PROVE  IndexInv'
  <1>1. /\ pc[r] = "chunks"
        /\ \/ Moves(r, "lexical") /\ UNCHANGED job
           \/ /\ Moves(r, "query") /\ Compatible(r)
              /\ job'[r].files = job[r].files /\ job'[r].at = job[r].at
              /\ job'[r].since = job[r].since /\ job'[r].build = chunks.build
        /\ UNCHANGED <<checkout, store, lock, setting, usage>>
    BY ReadChunksTells DEF IndexInv
  <1>2. lock' = IF lock = r THEN Nobody ELSE lock
    BY <1>1, NotMine
  <1>3. CASE Moves(r, "lexical") /\ UNCHANGED job
    BY <1>1, <1>2, <1>3, AsideStep DEF usage, Aside, Locations, Ended
  <1>4. CASE /\ Moves(r, "query") /\ Compatible(r)
             /\ job'[r].files = job[r].files /\ job'[r].at = job[r].at
             /\ job'[r].since = job[r].since /\ job'[r].build = chunks.build
    <2>1. /\ index # Nobody /\ job[r].at \in 1..index.at
          /\ job[r].at = index.at => job[r].files = index.files
          /\ job[r].since <= edits
      BY <1>1 DEF IndexInv, SearchFollows, ScanFollows
    <2>2. chunks.of = index.at /\ chunks.files = index.files /\ chunks.model = model
      BY <1>4 DEF IndexInv, VectorsMatchFiles, Compatible
    <2>3. chunks.build <= chunks.build
      BY TypedFacts DEF IndexInv
    <2>4. job[r].at = chunks.of => chunks.files = job[r].files
      BY <2>1, <2>2
    <2> QED
      BY <1>1, <1>4, <2>1, <2>2, <2>3, <2>4, SearchStep
  <1> QED
    BY <1>1, <1>3, <1>4

LEMMA QueryStep ==
  ASSUME SnapshotsAssumption, IndexInv, NEW r \in Requests, Query(r) \/ QueryFails(r)
  PROVE  IndexInv'
  <1>1. /\ pc[r] = "query"
        /\ \/ /\ Moves(r, "lexical") /\ billed' \in {billed, billed + 1}
              /\ UNCHANGED recorded
           \/ Moves(r, "score") /\ billed' = billed + 1 /\ recorded' = recorded + 1
        /\ UNCHANGED <<checkout, store, lock, setting, job>>
    BY QueryTells DEF IndexInv
  <1>2. lock' = IF lock = r THEN Nobody ELSE lock
    BY <1>1, NotMine
  <1>3. CASE /\ Moves(r, "lexical") /\ billed' \in {billed, billed + 1}
             /\ UNCHANGED recorded
    BY <1>1, <1>2, <1>3, AsideStep DEF Aside, Locations, Ended
  <1>4. CASE Moves(r, "score") /\ billed' = billed + 1 /\ recorded' = recorded + 1
    <2>1. /\ index # Nobody /\ job[r].at \in 1..index.at
          /\ job[r].at = index.at => job[r].files = index.files
          /\ job[r].since <= edits
          /\ job[r].build <= chunks.build
          /\ job[r].build = chunks.build /\ chunks.of = job[r].at
               => chunks.model = model /\ chunks.files = job[r].files
      BY <1>1 DEF IndexInv, SearchFollows, ScanFollows
    <2>2. job'[r] = job[r]
      BY <1>1
    <2> QED
      BY <1>1, <1>4, <2>1, <2>2, SearchStep
  <1> QED
    BY <1>1, <1>3, <1>4

LEMMA ScoreStep ==
  ASSUME SnapshotsAssumption, IndexInv, NEW r \in Requests, Score(r)
  PROVE  IndexInv'
  <1>1. PICK place \in {"hybrid", "raised"} :
          /\ pc[r] = "score" /\ Moves(r, place)
          /\ UNCHANGED <<checkout, store, lock, setting, job, usage>>
    BY ScoreTells DEF IndexInv
  <1>2. place \in Aside /\ pc[r] \notin Ended /\ pc[r] # "embed"
    BY <1>1 DEF Aside, Locations, Ended
  <1>3. lock' = IF lock = r THEN Nobody ELSE lock
    BY <1>1, NotMine
  <1> QED
    BY <1>1, <1>2, <1>3, AsideStep DEF usage

(* What was begun before an edit is not quiet any more.                    *)
LEMMA EditStep ==
  ASSUME SnapshotsAssumption, IndexInv, Edit
  PROVE  IndexInv'
  <1>0. /\ Typed /\ LockHeld /\ ScanFollows /\ EmbedsIndex /\ SearchFollows /\ UsageFollows
        /\ VectorsMatchFiles
    BY DEF IndexInv
  <1>1. /\ workspace' \in [Paths -> Contents]
        /\ edits' = edits + 1 /\ edits' \in 0..MaxEdits
        /\ UNCHANGED <<store, lock, setting, pc, job, usage>>
    BY <1>0, EditTells
  <1>2. UNCHANGED <<index, chunks, lock, model, restarts, pc, job, billed, recorded>>
    BY <1>1 DEF store, setting, usage
  <1>3. /\ edits \in Nat
        /\ \A q \in Requests : job[q].since \in Nat /\ job[q].since <= edits
        /\ index # Nobody => index.since \in Nat /\ index.since <= edits
    BY <1>0, TypedFacts DEF ScanFollows
  <1>4. /\ \A q \in Requests : job'[q].since <= edits' /\ job'[q].since # edits'
        /\ index' # Nobody => index'.since <= edits' /\ index'.since # edits'
    BY <1>1, <1>2, <1>3
  <1>5. Typed'
    BY <1>0, <1>1, <1>2, TypedFacts, TypedAgain DEF Typed, TypeOK
  <1>6. LockHeld'
    BY <1>0, <1>2 DEF LockHeld
  <1>7. ScanFollows'
    BY <1>0, <1>2, <1>4 DEF ScanFollows, WithinLimit
  <1>8. EmbedsIndex'
    BY <1>0, <1>2 DEF EmbedsIndex
  <1>9. SearchFollows'
    BY <1>0, <1>2 DEF SearchFollows
  <1>10. UsageFollows'
    BY <1>0, <1>2 DEF UsageFollows, Unrecorded
  <1>11. VectorsMatchFiles'
    BY <1>0, <1>2 DEF VectorsMatchFiles
  <1>12. QuietIndexIsExact'
    BY <1>4 DEF QuietIndexIsExact
  <1> QED
    BY <1>5, <1>6, <1>7, <1>8, <1>9, <1>10, <1>11, <1>12 DEF IndexInv

(* Nothing is at work after a restart, and nothing was written half-way.   *)
LEMMA RestartStep ==
  ASSUME SnapshotsAssumption, IndexInv, Restart
  PROVE  IndexInv'
  <1>0. /\ Typed /\ LockHeld /\ ScanFollows /\ EmbedsIndex /\ SearchFollows /\ UsageFollows
        /\ VectorsMatchFiles /\ QuietIndexIsExact
    BY DEF IndexInv
  <1>1. /\ restarts' \in 0..MaxRestarts /\ model' \in Models /\ lock' = Nobody
        /\ pc' \in [Requests -> Locations]
        /\ \A q \in Requests : pc'[q] = IF pc[q] \in Ended \cup {"idle"} THEN pc[q]
                                        ELSE "failed"
        /\ UNCHANGED <<checkout, store, job, usage>>
    BY <1>0, RestartTells
  <1>2. UNCHANGED <<workspace, edits, index, chunks, job, billed, recorded>>
    BY <1>1 DEF checkout, store, usage
  <1>3. \A q \in Requests : pc'[q] \notin {"scan", "embed", "chunks", "query", "score"}
    BY <1>1 DEF Ended
  <1>4. Typed'
    BY <1>0, <1>1, <1>2, TypedFacts, TypedAgain DEF Typed, TypeOK
  <1>5. LockHeld'
    BY <1>1, <1>3 DEF LockHeld, SnapshotsAssumption
  <1>6. ScanFollows'
    BY <1>0, <1>2, <1>3 DEF ScanFollows
  <1>7. EmbedsIndex' /\ SearchFollows'
    BY <1>3 DEF EmbedsIndex, SearchFollows
  <1>8. UsageFollows'
    <2>1. Unrecorded \in Nat /\ Unrecorded' = 0 /\ billed \in Nat /\ recorded \in Nat
      BY <1>0, <1>1, TypedFacts, WhoEmbeds DEF Unrecorded
    <2>2. ASSUME \A q \in Requests : pc'[q] \notin {"failed", "lexical"}
          PROVE  Unrecorded = 0 /\ (\A q \in Requests : pc[q] \notin {"failed", "lexical"})
      <3>1. \A q \in Requests : pc[q] \in Ended \cup {"idle"} /\ pc'[q] = pc[q]
        BY <1>1, <2>2
      <3>2. \A q \in Requests : pc[q] # "embed"
        BY <3>1 DEF Ended
      <3> QED
        BY <1>0, <2>2, <3>1, <3>2, WhoEmbeds
    <2> HIDE DEF Unrecorded
    <2> QED
      BY <1>0, <1>2, <2>1, <2>2 DEF UsageFollows
  <1>9. VectorsMatchFiles' /\ QuietIndexIsExact'
    BY <1>0, <1>2 DEF VectorsMatchFiles, QuietIndexIsExact
  <1> QED
    BY <1>4, <1>5, <1>6, <1>7, <1>8, <1>9 DEF IndexInv

-----------------------------------------------------------------------------
(* Theorems.                                                               *)

LEMMA InitIndexInv ==
  ASSUME SnapshotsAssumption, Init
  PROVE  IndexInv
  <1>1. NoJob \in JobType /\ NoJob.since = 0
    BY NoFilesTyped DEF NoJob, JobType, SnapshotsAssumption
  <1>2. NoChunks \in ChunksType /\ DOMAIN NoChunks.files = {}
    BY NoFilesTyped DEF NoChunks, ChunksType
  <1>3. \A r \in Requests : pc[r] = "idle" /\ job[r].since = 0
    BY <1>1 DEF Init
  <1>4. Typed
    <2>1. workspace \in [Paths -> Contents] /\ edits \in 0..MaxEdits
      BY DEF Init, Contents, SnapshotsAssumption
    <2>2. chunks \in ChunksType /\ chunks.build \in Nat /\ chunks.files \in Files
      BY <1>2 DEF Init, ChunksType
    <2>3. pc \in [Requests -> Locations] /\ job \in [Requests -> JobType]
      BY <1>1 DEF Init, Locations
    <2>4. \A r \in Requests : job[r].files \in Files /\ job[r].todo \subseteq Paths
      BY <2>3 DEF JobType
    <2> QED
      BY <2>1, <2>2, <2>3, <2>4 DEF Init, Typed, TypeOK, SnapshotsAssumption
  <1>5. LockHeld
    BY <1>3 DEF Init, LockHeld, SnapshotsAssumption
  <1>6. ScanFollows
    BY <1>3 DEF Init, ScanFollows
  <1>7. EmbedsIndex /\ SearchFollows
    BY <1>3 DEF EmbedsIndex, SearchFollows
  <1>8. UsageFollows
    BY DEF Init, UsageFollows, Unrecorded
  <1>9. VectorsMatchFiles /\ QuietIndexIsExact
    BY <1>2 DEF Init, VectorsMatchFiles, QuietIndexIsExact
  <1> QED
    BY <1>4, <1>5, <1>6, <1>7, <1>8, <1>9 DEF IndexInv

LEMMA NextIndexInv ==
  ASSUME SnapshotsAssumption, IndexInv, [Next]_vars
  PROVE  IndexInv'
  <1>1. CASE Edit
    BY <1>1, EditStep
  <1>2. CASE Restart
    BY <1>2, RestartStep
  <1>3. ASSUME NEW r \in Requests, Begin(r)
        PROVE  IndexInv'
    BY <1>3, BeginStep
  <1>4. ASSUME NEW r \in Requests, Step(r)
        PROVE  IndexInv'
    <2>1. CASE LockIndex(r) \/ ReadFile(r) \/ CommitIndex(r)
      BY <2>1, LockIndexStep, ReadFileStep, CommitIndexStep
    <2>2. CASE ScanFails(r) \/ NoIndexToEmbed(r) \/ EmbedFails(r)
      BY <2>2, RebuildFailsStep
    <2>3. CASE LockChunks(r) \/ EmbedBatch(r) \/ CommitChunks(r)
      BY <2>3, LockChunksStep, EmbedBatchStep, CommitChunksStep
    <2>4. CASE ReadFiles(r) \/ ReadChunks(r) \/ Query(r) \/ QueryFails(r) \/ Score(r)
      BY <2>4, ReadFilesStep, ReadChunksStep, QueryStep, ScoreStep
    <2> QED
      BY <1>4, <2>1, <2>2, <2>3, <2>4 DEF Step
  <1>5. CASE UNCHANGED vars
    <2>1. UNCHANGED <<workspace, edits, index, chunks, lock, model, restarts, pc, job,
                      billed, recorded>>
      BY <1>5 DEF vars, checkout, store, setting, usage
    <2> QED
      BY <2>1 DEF IndexInv, Typed, TypeOK, LockHeld, ScanFollows, Remaining, WithinLimit,
                  EmbedsIndex, SearchFollows, UsageFollows, Unrecorded, VectorsMatchFiles,
                  QuietIndexIsExact
  <1> QED
    BY <1>1, <1>2, <1>3, <1>4, <1>5 DEF Next

(* At every moment the holder of the lock has read what is committed or    *)
(* what the checkout still has, a search can tell whether its rows are     *)
(* still there, and the calls of a build under way are the only ones that  *)
(* are paid for and not in the log, unless something failed (service.py    *)
(* and semantic.py of repository_indexing).                                *)
THEOREM IndexInductive ==
  ASSUME SnapshotsAssumption
  PROVE  Spec => []IndexInv
  <1>1. Init => IndexInv
    BY InitIndexInv
  <1>2. IndexInv /\ [Next]_vars => IndexInv'
    BY NextIndexInv
  <1> QED
    BY <1>1, <1>2, PTL DEF Spec

(* For any number of requests, files, edits and restarts: stored vectors   *)
(* are those of all stored files, a snapshot begun after the last edit is  *)
(* the checkout, and paid calls are in the log unless their build or query *)
(* failed (RepositoryIndexingService, SemanticRetrievalService).           *)
THEOREM IndexConsistent ==
  ASSUME SnapshotsAssumption
  PROVE  Spec => []IndexIsConsistent
  <1>1. ASSUME IndexInv PROVE IndexIsConsistent
    <2>1. /\ Typed /\ LockHeld /\ UsageFollows /\ TypeOK /\ VectorsMatchFiles
          /\ QuietIndexIsExact
      BY <1>1 DEF IndexInv, Typed
    <2>2. UsageOfSuccessIsKept
      <3> SUFFICES ASSUME \A r \in Requests : pc[r] \notin {"embed", "failed", "lexical"}
                   PROVE  recorded = billed
        BY DEF UsageOfSuccessIsKept
      <3>1. Unrecorded = 0 /\ recorded \in Nat /\ billed \in Nat
        BY <2>1, WhoEmbeds, TypedFacts
      <3> HIDE DEF Unrecorded
      <3> QED
        BY <2>1, <3>1 DEF UsageFollows
    <2> QED
      BY <2>1, <2>2 DEF IndexIsConsistent
  <1>2. IndexInv => IndexIsConsistent
    BY <1>1
  <1> QED
    BY <1>2, IndexInductive, PTL

(* A hybrid ranking compares the query with vectors of its own model, made *)
(* of the content of the files it lists, whoever rebuilds either of them   *)
(* between its statements (search of semantic.py).                         *)
THEOREM HitsCompared ==
  ASSUME SnapshotsAssumption
  PROVE  Spec => HitsAreComparable
  <1> DEFINE Comparable == \A r \in Requests :
                             pc[r] = "score" /\ pc'[r] = "hybrid"
                               => chunks.model = model /\ chunks.files = job[r].files
  <1>1. ASSUME IndexInv, [Next]_vars, NEW r \in Requests,
               pc[r] = "score", pc'[r] = "hybrid"
        PROVE  chunks.model = model /\ chunks.files = job[r].files
    <2>0. Typed
      BY <1>1 DEF IndexInv
    <2>1. ASSUME NEW q \in Requests, Begin(q) \/ Step(q)
          PROVE  q = r
      <3>1. \/ \E place \in Locations : Goto(q, place)
            \/ UNCHANGED pc
        BY <2>1 DEF Begin, Step, LockIndex, ReadFile, ScanFails, CommitIndex, LockChunks,
                    NoIndexToEmbed, EmbedBatch, EmbedFails, CommitChunks, ReadFiles,
                    ReadChunks, Query, QueryFails, Score, Fail, Locations
      <3> QED
        BY <1>1, <2>0, <3>1 DEF Goto, Typed, TypeOK
    <2>2. ~Begin(r) /\ (Step(r) => Score(r))
      BY <1>1 DEF Begin, Step, LockIndex, ReadFile, ScanFails, CommitIndex, LockChunks,
                  NoIndexToEmbed, EmbedBatch, EmbedFails, CommitChunks, ReadFiles,
                  ReadChunks, Query, QueryFails
    <2>3. ~Edit /\ ~(UNCHANGED vars)
      BY <1>1 DEF Edit, vars
    <2>4. ~Restart
      BY <1>1, <2>0, RestartTells DEF Ended
    <2>5. Score(r)
      BY <1>1, <2>1, <2>2, <2>3, <2>4 DEF Next
    <2>6. RowsRemain(r)
      BY <1>1, <2>0, <2>5, ScoreTells DEF Moves
    <2> QED
      BY <1>1, <2>6 DEF RowsRemain, IndexInv, SearchFollows
  <1>2. IndexInv /\ [Next]_vars => [Comparable]_vars
    BY <1>1
  <1> QED
    BY <1>2, IndexInductive, PTL DEF Spec, HitsAreComparable

=============================================================================

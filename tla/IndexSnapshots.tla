---------------------------- MODULE IndexSnapshots ----------------------------
(***************************************************************************)
(* The stored index of a run's checkout (repository_indexing/service.py),  *)
(* its embeddings and semantic search over them (semantic.py), while the   *)
(* agent edits the checkout, other requests rebuild either of them and the *)
(* backend restarts with another embedding model.                          *)
(*                                                                         *)
(* Rebuilds lock the row of the run and write in one transaction; searches *)
(* take no lock, read in several statements, and commit the usage of their *)
(* query, after which the session reads its rows again.  The content of a  *)
(* file is the number of the edit that wrote it.                           *)
(***************************************************************************)
EXTENDS Integers, FiniteSets, FiniteSetsExt

CONSTANTS
  Requests,     \* requests and tool calls over the life of the run
  Paths,        \* file paths, numbered in the order of the traversal
  MaxFiles,     \* IndexLimits.max_files
  Models,       \* provider, model and dimensions, as one
  Nobody,       \* no request; no index
  MaxEdits,     \* bound on edits of the checkout
  MaxRestarts   \* bound on restarts of the backend

Absent == -1   \* no file, or one that is skipped: binary, protected, too large

Contents == {Absent} \cup 0..MaxEdits
Files == UNION {[S -> Contents \ {Absent}] : S \in SUBSET Paths}

(* A stored index: its number, its files, the edits when it was begun.     *)
SnapshotType == [at : Nat \ {0}, files : Files, since : 0..MaxEdits]

SnapshotsAssumption ==
  /\ IsFiniteSet(Paths) /\ Paths = 1..Cardinality(Paths) /\ MaxFiles \in Nat \ {0}
  /\ Models # {} /\ Nobody \notin Requests /\ Nobody \notin SnapshotType
  /\ MaxEdits \in Nat /\ MaxRestarts \in Nat

VARIABLES
  workspace,   \* content of each path
  edits,       \* edits so far
  index,       \* the files of the committed snapshot with its number and the
               \* edits there were when it began, or Nobody
  chunks,      \* the committed vectors: which build, of which snapshot and model
  lock,        \* holder of the lock on the run's row
  model,       \* the configured embedding model
  restarts,    \* restarts so far
  pc,          \* where each request is
  job,         \* what it has read or prepared so far
  billed,      \* embedding calls the provider has answered
  recorded     \* embedding_call_completed events committed

store == <<index, chunks>>
usage == <<billed, recorded>>
setting == <<model, restarts>>
checkout == <<workspace, edits>>
vars == <<checkout, store, lock, setting, pc, job, usage>>

NoFiles == [p \in {} |-> Absent]
NoJob == [todo |-> {}, files |-> NoFiles, since |-> 0, at |-> 0, build |-> 0, calls |-> 0]
NoChunks == [build |-> 0, of |-> 0, files |-> NoFiles, model |-> Nobody]

Locations ==
  {"idle", "lock index", "lock chunks", "scan", "embed", "files", "chunks", "query",
   "score", "done", "lexical", "hybrid", "failed", "raised"}
Ended == {"done", "lexical", "hybrid", "failed", "raised"}

Init ==
  /\ workspace \in [Paths -> {0, Absent}] /\ edits = 0
  /\ index = Nobody /\ chunks = NoChunks
  /\ lock = Nobody
  /\ model \in Models /\ restarts = 0
  /\ pc = [r \in Requests |-> "idle"]
  /\ job = [r \in Requests |-> NoJob]
  /\ billed = 0 /\ recorded = 0

Goto(r, place) == pc' = [pc EXCEPT ![r] = place]

-----------------------------------------------------------------------------
(* The world.                                                              *)

(* The agent, or a test command, writes or removes a file.                 *)
Edit ==
  /\ edits < MaxEdits
  /\ edits' = edits + 1
  /\ \E p \in Paths, content \in {edits + 1, Absent} :
       /\ workspace[p] # content
       /\ workspace' = [workspace EXCEPT ![p] = content]
  /\ UNCHANGED <<store, lock, setting, pc, job, usage>>

(* Transactions in progress are rolled back by the database.               *)
Restart ==
  /\ restarts < MaxRestarts
  /\ restarts' = restarts + 1
  /\ model' \in Models
  /\ lock' = Nobody
  /\ pc' = [r \in Requests |-> IF pc[r] \in Ended \cup {"idle"} THEN pc[r] ELSE "failed"]
  /\ UNCHANGED <<checkout, store, job, usage>>

Begin(r) ==
  /\ pc[r] = "idle"
  /\ \E place \in {"lock index", "lock chunks", "files"} : Goto(r, place)
  /\ UNCHANGED <<checkout, store, lock, setting, job, usage>>

-----------------------------------------------------------------------------
(* Both kinds of rebuild.                                                  *)

AcquireLock(r) == lock = Nobody /\ lock' = r

Release(r) == lock' = IF lock = r THEN Nobody ELSE lock

(* Rolled back: nothing was written before the commit.                     *)
Fail(r) ==
  /\ Goto(r, "failed")
  /\ Release(r)
  /\ UNCHANGED <<checkout, store, setting, job>>

-----------------------------------------------------------------------------
(* create_index *)

LockIndex(r) ==
  /\ pc[r] = "lock index"
  /\ AcquireLock(r)
  /\ Goto(r, "scan")
  /\ job' = [job EXCEPT ![r] = [NoJob EXCEPT !.todo = Paths, !.since = edits]]
  /\ UNCHANGED <<checkout, store, setting, usage>>

WithinLimit(files) == Cardinality(DOMAIN files) <= MaxFiles

(* Files read earlier keep the content they had then.                      *)
ReadFile(r) ==
  /\ pc[r] = "scan" /\ job[r].todo # {}
  /\ LET next == Min(job[r].todo)
         files == job[r].files
         read == IF workspace[next] = Absent THEN files
                 ELSE [p \in DOMAIN files \cup {next} |->
                         IF p = next THEN workspace[p] ELSE files[p]]
     IN /\ WithinLimit(read)
        /\ job' = [job EXCEPT ![r].todo = @ \ {next}, ![r].files = read]
  /\ UNCHANGED <<checkout, store, lock, setting, pc, usage>>

(* No workspace, a file that changed while it was read, or too many files. *)
ScanFails(r) ==
  /\ pc[r] = "scan"
  /\ Fail(r)
  /\ UNCHANGED usage

ReplaceFiles(files) == files

(* The rows of the old files go, and with them their chunks and vectors.   *)
CommitIndex(r) ==
  /\ pc[r] = "scan" /\ job[r].todo = {}
  /\ index' = [at |-> IF index = Nobody THEN 1 ELSE index.at + 1,
               files |-> ReplaceFiles(job[r].files), since |-> job[r].since]
  /\ chunks' = [NoChunks EXCEPT !.build = chunks.build]
  /\ Release(r)
  /\ Goto(r, "done")
  /\ UNCHANGED <<checkout, setting, job, usage>>

-----------------------------------------------------------------------------
(* RepositoryEmbeddingsService.build *)

LockChunks(r) ==
  /\ pc[r] = "lock chunks" /\ index # Nobody
  /\ AcquireLock(r)
  /\ Goto(r, "embed")
  /\ job' = [job EXCEPT ![r] = [NoJob EXCEPT !.todo = DOMAIN index.files,
                                             !.files = index.files, !.at = index.at]]
  /\ UNCHANGED <<checkout, store, setting, usage>>

NoIndexToEmbed(r) ==
  /\ pc[r] = "lock chunks" /\ index = Nobody /\ lock = Nobody
  /\ Fail(r)
  /\ UNCHANGED usage

(* One batch.  Its event waits in the transaction.                         *)
EmbedBatch(r) ==
  /\ pc[r] = "embed" /\ job[r].todo # {}
  /\ job' = [job EXCEPT ![r].todo = @ \ {Min(@)}, ![r].calls = @ + 1]
  /\ billed' = billed + 1
  /\ UNCHANGED <<checkout, store, lock, setting, pc, recorded>>

(* Disabled, unreachable, beyond a limit, or answering with bad vectors,   *)
(* for which it may have charged.                                          *)
EmbedFails(r) ==
  /\ pc[r] = "embed"
  /\ billed' \in {billed, billed + 1}
  /\ Fail(r)
  /\ UNCHANGED recorded

(* Mutant: only the last batch is accounted for.                           *)
UsageOfLast(calls) == IF calls = 0 THEN 0 ELSE 1

UsageOf(calls) == calls

CommitChunks(r) ==
  /\ pc[r] = "embed" /\ job[r].todo = {}
  /\ chunks' = [build |-> chunks.build + 1, of |-> job[r].at,
                files |-> job[r].files, model |-> model]
  /\ recorded' = recorded + UsageOf(job[r].calls)
  /\ Release(r)
  /\ Goto(r, "done")
  /\ UNCHANGED <<checkout, index, setting, job, billed>>

-----------------------------------------------------------------------------
(* Semantic search *)

ReadFiles(r) ==
  /\ pc[r] = "files"
  /\ IF index = Nobody THEN Goto(r, "failed") /\ UNCHANGED job
     ELSE /\ Goto(r, "chunks")
          /\ job' = [job EXCEPT ![r] = [NoJob EXCEPT !.files = index.files,
                                                     !.at = index.at]]
  /\ UNCHANGED <<checkout, store, lock, setting, usage>>

(* Mutant: vectors of any model are compared with the query.               *)
AnyVectors(r) == chunks.of = job[r].at /\ DOMAIN chunks.files # {}

(* Vectors of the files read before, made by the model that is configured. *)
Compatible(r) ==
  chunks.of = job[r].at /\ DOMAIN chunks.files # {} /\ chunks.model = model

ReadChunks(r) ==
  /\ pc[r] = "chunks"
  /\ IF Compatible(r)
     THEN Goto(r, "query") /\ job' = [job EXCEPT ![r].build = chunks.build]
     ELSE Goto(r, "lexical") /\ UNCHANGED job
  /\ UNCHANGED <<checkout, store, lock, setting, usage>>

Query(r) ==
  /\ pc[r] = "query"
  /\ billed' = billed + 1 /\ recorded' = recorded + 1
  /\ Goto(r, "score")
  /\ UNCHANGED <<checkout, store, lock, setting, job>>

QueryFails(r) ==
  /\ pc[r] = "query"
  /\ billed' \in {billed, billed + 1}
  /\ Goto(r, "lexical")
  /\ UNCHANGED <<checkout, store, lock, setting, job, recorded>>

(* The commit of the usage has expired every row the session has read:     *)
(* rows that are gone by now raise ObjectDeletedError.                     *)
RowsRemain(r) == index.at = job[r].at /\ chunks.of = job[r].at /\ chunks.build = job[r].build

Score(r) ==
  /\ pc[r] = "score"
  /\ Goto(r, IF RowsRemain(r) THEN "hybrid" ELSE "raised")
  /\ UNCHANGED <<checkout, store, lock, setting, job, usage>>

Step(r) ==
  \/ LockIndex(r) \/ ReadFile(r) \/ ScanFails(r) \/ CommitIndex(r)
  \/ LockChunks(r) \/ NoIndexToEmbed(r) \/ EmbedBatch(r) \/ EmbedFails(r) \/ CommitChunks(r)
  \/ ReadFiles(r) \/ ReadChunks(r) \/ Query(r) \/ QueryFails(r) \/ Score(r)

Next == Edit \/ Restart \/ \E r \in Requests : Begin(r) \/ Step(r)

(* A request that has begun is carried on by its thread.                   *)
Spec == Init /\ [][Next]_vars /\ \A r \in Requests : WF_vars(Step(r))

-----------------------------------------------------------------------------
(* Properties. *)

TypeOK ==
  /\ workspace \in [Paths -> Contents] /\ edits \in 0..MaxEdits
  /\ index \in SnapshotType \cup {Nobody}
  /\ index # Nobody => WithinLimit(index.files)
  /\ chunks.build \in Nat /\ chunks.files \in Files
  /\ lock \in Requests \cup {Nobody} /\ model \in Models /\ restarts \in 0..MaxRestarts
  /\ pc \in [Requests -> Locations]
  /\ \A r \in Requests : job[r].files \in Files /\ job[r].todo \subseteq Paths
  /\ billed \in Nat /\ recorded \in 0..billed

(* Whatever rebuilds of the index and of the vectors overlap and wherever  *)
(* they fail, stored vectors are those of the stored files, all of them    *)
(* made of the content the index holds.                                    *)
VectorsMatchFiles ==
  DOMAIN chunks.files # {} =>
    index # Nobody /\ chunks.of = index.at /\ chunks.files = index.files

(* A snapshot begun after the last edit is the checkout, also when earlier *)
(* rebuilds failed half-way or indexed files that are gone.                *)
QuietIndexIsExact ==
  index # Nobody /\ index.since = edits =>
    index.files = [p \in {q \in Paths : workspace[q] # Absent} |-> workspace[p]]

(* A hybrid ranking compares the query with vectors of its own model, made *)
(* of the content of the files it lists, although the vectors are read     *)
(* once more after the provider has answered.                              *)
HitsAreComparable ==
  [][\A r \in Requests :
       pc[r] = "score" /\ pc'[r] = "hybrid"
         => chunks.model = model /\ chunks.files = job[r].files]_vars

(* Calls that were paid for and are not in the log belong to a build that  *)
(* failed or is under way, or to a query that was answered badly.          *)
UsageOfSuccessIsKept ==
  (\A r \in Requests : pc[r] \notin {"embed", "failed", "lexical"}) => recorded = billed

(* Of the committed rows and the log, all three.                           *)
IndexIsConsistent ==
  TypeOK /\ VectorsMatchFiles /\ QuietIndexIsExact /\ UsageOfSuccessIsKept

(* Every request ends: no rebuild waits forever for the lock of another,   *)
(* not even of one that was cut off by a restart.                          *)
RequestsEnd == \A r \in Requests : pc[r] # "idle" ~> pc[r] \in Ended

(* docs/repository-indexing.md: "Missing or incompatible embeddings,       *)
(* disabled real calls, and provider errors fall back to lexical ranking." *)
MissingEmbeddingsFallBack == \A r \in Requests : pc[r] # "raised"

=============================================================================

----------------------------- MODULE GitHubIngestion -----------------------------
(***************************************************************************)
(* Previews of issues and pull requests and tasks created from them        *)
(* (github/service.py, benchmark_tasks/creation.py).  A request is a       *)
(* series of calls to the GitHub API; each may be refused or break off,    *)
(* and pull requests are pushed to and merged in between.  A creation      *)
(* inserts its repository before its last calls and commits after them.    *)
(* Of GitHub only what these requests read is modelled.                    *)
(***************************************************************************)
EXTENDS Naturals, Sequences, FiniteSets, SequencesExt

CONSTANTS
  Clients,
  Kinds,        \* of requests: issue, pull, trusted, create
  Asked,        \* numbers asked for
  PullRequests, \* numbers that are pull requests; any other is an issue
  Texts,        \* body and comments of the issue: sequences of [kind, number]
  Timeline,     \* its events: [number, pull, own, body], own: of this repository
  FilesAt,      \* of each pull request, the changed files after each push
  TestFiles,    \* is_likely_test_file
  Unreadable,   \* removed, binary, too long, not UTF-8
  Unsupported,  \* no command can be inferred
  LINKED_PR_LIMIT,
  MaxPushes, MaxFailures   \* bounds of the model

IngestionAssumption ==
  /\ Kinds \subseteq {"issue", "pull", "trusted", "create"}
  /\ IsFiniteSet(Asked) /\ Asked \cup PullRequests \subseteq Nat \ {0}
  /\ DOMAIN FilesAt = PullRequests /\ LINKED_PR_LIMIT \in Nat \ {0}
  /\ \A p \in PullRequests : DOMAIN FilesAt[p] = 0..MaxPushes
  /\ {"none", "stored"} \cap Clients = {} /\ MaxPushes \in Nat /\ MaxFailures \in Nat

VARIABLES
  head, merged,   \* of each pull request at GitHub
  failures,       \* calls that failed
  asking,         \* of each client: what it asks for and has read so far
  repo,           \* the repository's row: none, stored, or inserted by a client
  creations       \* created tasks

ingestVars == <<head, merged, failures, asking, repo, creations>>

-----------------------------------------------------------------------------
(* detect_linked_pull_requests.                                            *)
AppendUnique(found, n) == IF n \in ToSet(found) THEN found ELSE Append(found, n)
AppendMany(found, numbers) == FoldLeft(AppendUnique, found, numbers)

Numbers(mentions) == [i \in DOMAIN mentions |-> mentions[i].number]
(* One pattern after the other.                                            *)
NumbersInText(text) ==
  LET Of(kind) == Numbers(SelectSeq(text, LAMBDA m : m.kind = kind))
  IN  Of("url") \o Of("closes") \o Of("PR")
NumbersInEvent(e) ==
  (IF e.pull /\ e.own THEN <<e.number>> ELSE <<>>) \o NumbersInText(e.body)
NumbersInTimeline == FlattenSeq([i \in DOMAIN Timeline |-> NumbersInEvent(Timeline[i])])

Linked(issue, timeline) ==
  AppendMany(<<>>, (IF issue \in PullRequests THEN <<issue>> ELSE <<>>)
                   \o FlattenSeq([i \in DOMAIN Texts |-> NumbersInText(Texts[i])]) \o timeline)

-----------------------------------------------------------------------------
NoPull == [number |-> 0, head |-> 0, merged |-> FALSE, files |-> {}]
Idle == [ kind |-> "none", number |-> 0, pc |-> "idle", found |-> <<>>,
          pull |-> NoPull, previews |-> <<>>, text |-> 0, tests |-> {}, content |-> {} ]

At(c, pc) == asking[c].pc = pc
Update(c, r) == asking' = [asking EXCEPT ![c] = r]
Creating(c) == asking[c].kind = "create"

(* Whatever a session has not committed is rolled back when it is closed.  *)
Fail(c) ==
  /\ Update(c, [asking[c] EXCEPT !.pc = "failed"])
  /\ repo' = IF repo = c THEN "none" ELSE repo
  /\ UNCHANGED creations

(* Of the numbers found, those up to the limit are read one by one.        *)
More(r) == Len(r.previews) < Len(r.found) /\ Len(r.previews) < LINKED_PR_LIMIT
NextNumber(r) == r.found[Len(r.previews) + 1]

(* Once the last linked pull request or the only one asked for is read.    *)
AfterPull(r) ==
  IF More(r) THEN "metadata"
  ELSE IF r.kind = "create" THEN IF r.pull.merged THEN "diff" ELSE "failed"
  ELSE IF r.kind = "trusted" /\ r.tests # {} THEN "candidates"
  ELSE "done"

-----------------------------------------------------------------------------
Ask(c, kind, n) ==
  /\ At(c, "idle")
  /\ Update(c, [Idle EXCEPT !.kind = kind, !.number = n, !.pc = "read"])
  /\ UNCHANGED <<head, merged, failures, repo, creations>>

(* Repository, issue and comments.                                         *)
Read(c) ==
  LET r == asking[c]
  IN  /\ At(c, "read")
      /\ Update(c, IF r.kind = "issue" THEN [r EXCEPT !.pc = "timeline"]
                   ELSE [r EXCEPT !.pc = "metadata", !.found = <<r.number>>])
      /\ UNCHANGED <<head, merged, failures, repo, creations>>

Detect(c, timeline) ==
  LET r == asking[c]
      linked == [r EXCEPT !.found = Linked(r.number, timeline)]
  IN  /\ Update(c, [linked EXCEPT !.pc = IF More(linked) THEN "metadata" ELSE "done"])
      /\ UNCHANGED <<repo, creations>>

ReadTimeline(c) ==
  /\ At(c, "timeline") /\ Detect(c, NumbersInTimeline)
  /\ UNCHANGED <<head, merged, failures>>

(* GitHub answers 404 for a number that is not a pull request.             *)
ReadMetadata(c) ==
  LET r == asking[c]
      n == NextNumber(r)
  IN  /\ At(c, "metadata")
      /\ IF n \notin PullRequests THEN Fail(c)
         ELSE /\ Update(c, [r EXCEPT !.pc = "files",
                                     !.pull = [number |-> n, head |-> head[n],
                                               merged |-> merged[n], files |-> {}]])
              /\ UNCHANGED <<repo, creations>>
      /\ UNCHANGED <<head, merged, failures>>

(* Mutant: what the files belonged to is read after them.                  *)
ReadFilesBefore(c) ==
  LET r == asking[c]
      n == r.pull.number
      files == FilesAt[n][r.pull.head]
      read == [r EXCEPT !.pull = [number |-> n, head |-> head[n], merged |-> merged[n],
                                  files |-> files],
                        !.tests = files \cap TestFiles]
      seen == [read EXCEPT !.previews = Append(@, read.pull)]
  IN  /\ At(c, "files")
      /\ Update(c, [seen EXCEPT !.pc = AfterPull(seen)])
      /\ UNCHANGED <<head, merged, failures, repo, creations>>

(* Files and commits, in this order after the metadata.                    *)
ReadFiles(c) ==
  LET r == asking[c]
      n == r.pull.number
      read == [r EXCEPT !.pull.files = FilesAt[n][head[n]],
                        !.tests = FilesAt[n][head[n]] \cap TestFiles]
      seen == [read EXCEPT !.previews = Append(@, read.pull)]
  IN  /\ At(c, "files")
      /\ Update(c, [seen EXCEPT !.pc = AfterPull(seen)])
      /\ UNCHANGED <<head, merged, failures, repo, creations>>

(* The diff, or the patches of the files when there is none.               *)
ReadDiff(c) ==
  LET r == asking[c]
  IN  /\ At(c, "diff")
      /\ Update(c, [r EXCEPT !.pc = "store", !.text = head[r.pull.number]])
      /\ UNCHANGED <<head, merged, failures, repo, creations>>
PatchesOfFiles(c) ==
  /\ Update(c, [asking[c] EXCEPT !.pc = "store", !.text = asking[c].pull.head])
  /\ UNCHANGED <<repo, creations>>

(* _get_or_create_repository: a row another session has inserted is not    *)
(* seen, but the insert waits for it and fails if it is committed          *)
(* (uq_repositories_owner_name).                                           *)
Store(c) ==
  LET Stored(pc) == Update(c, [asking[c] EXCEPT !.pc = pc])
      next == IF asking[c].tests # {} THEN "candidates" ELSE "commit"
  IN  /\ \/ At(c, "store") /\ repo = "stored" /\ Stored(next) /\ UNCHANGED repo
         \/ At(c, "store") /\ repo \in Clients /\ Stored("wait") /\ UNCHANGED repo
         \/ (At(c, "store") \/ At(c, "wait")) /\ repo = "none" /\ Stored(next) /\ repo' = c
         \/ At(c, "wait") /\ repo = "stored" /\ Stored("failed") /\ UNCHANGED repo
      /\ UNCHANGED <<head, merged, failures, creations>>

(* hidden_test_candidates reads each test file at the head it was shown,   *)
(* which may not have the file.                                            *)
NextCandidate(c, f, content) ==
  LET r == asking[c]
      left == r.tests \ {f}
  IN  /\ Update(c, [r EXCEPT !.tests = left, !.content = @ \cup content,
                             !.pc = IF left # {} THEN @
                                    ELSE IF Creating(c) THEN "commit" ELSE "done"])
      /\ UNCHANGED <<repo, creations>>
Candidate(c) == CHOOSE f \in asking[c].tests : TRUE
ReadCandidate(c) ==
  LET f == Candidate(c)
      p == asking[c].pull
  IN  /\ At(c, "candidates")
      /\ NextCandidate(c, f, IF f \in FilesAt[p.number][p.head] \ Unreadable THEN {f} ELSE {})
      /\ UNCHANGED <<head, merged, failures>>

CommitTask(c) ==
  LET r == asking[c]
  IN  /\ At(c, "commit")
      /\ creations' = creations \cup {[ by |-> c, pull |-> r.pull, text |-> r.text,
                                suites |-> r.content \ Unsupported ]}
      /\ repo' = "stored"
      /\ Update(c, [r EXCEPT !.pc = "done"])
      /\ UNCHANGED <<head, merged, failures>>

(* GitHubClientError: the timeline, the diff and a candidate are done      *)
(* without, anything else ends the request.                                *)
Refused(c) ==
  /\ failures < MaxFailures /\ failures' = failures + 1 /\ UNCHANGED <<head, merged>>
  /\ \/ At(c, "timeline") /\ Detect(c, <<>>)
     \/ At(c, "diff") /\ PatchesOfFiles(c)
     \/ At(c, "candidates") /\ NextCandidate(c, Candidate(c), {})
     \/ asking[c].pc \in {"read", "metadata", "files"} /\ Fail(c)

(* An error of the HTTP client ends the request at any call.               *)
BrokenOff(c) ==
  /\ failures < MaxFailures /\ failures' = failures + 1 /\ UNCHANGED <<head, merged>>
  /\ asking[c].pc \in {"read", "timeline", "metadata", "files", "diff", "candidates"}
  /\ Fail(c)

-----------------------------------------------------------------------------
Push(p) ==
  /\ ~merged[p] /\ head[p] < MaxPushes
  /\ head' = [head EXCEPT ![p] = @ + 1]
  /\ UNCHANGED <<merged, failures, asking, repo, creations>>

Merge(p) ==
  /\ ~merged[p]
  /\ merged' = [merged EXCEPT ![p] = TRUE]
  /\ UNCHANGED <<head, failures, asking, repo, creations>>

IngestTypeOK ==
  /\ \A p \in PullRequests : head[p] \in 0..MaxPushes /\ merged[p] \in BOOLEAN
  /\ failures \in 0..MaxFailures /\ repo \in Clients \cup {"none", "stored"}
  /\ \A c \in Clients :
       LET r == asking[c]
       IN  /\ r.pc \in {"idle", "read", "timeline", "metadata", "files", "diff", "store", "wait",
                        "candidates", "commit", "done", "failed"}
           /\ Len(r.previews) <= LINKED_PR_LIMIT
           /\ r.pc \in {"metadata", "files"} => More(r)
           /\ r.pc = "candidates" => r.tests # {}
           /\ repo = c => r.pc \in {"candidates", "commit"} /\ Creating(c)

IngestInit ==
  /\ head = [p \in PullRequests |-> 0] /\ merged = [p \in PullRequests |-> FALSE]
  /\ failures = 0 /\ asking = [c \in Clients |-> Idle] /\ repo = "none" /\ creations = {}

Step(c) ==
  \/ Read(c) \/ ReadTimeline(c) \/ ReadMetadata(c) \/ ReadFiles(c) \/ ReadDiff(c) \/ Store(c)
  \/ ReadCandidate(c) \/ CommitTask(c)

IngestNext ==
  \/ \E c \in Clients :
       \/ \E kind \in Kinds, n \in Asked : Ask(c, kind, n)
       \/ Step(c) \/ Refused(c) \/ BrokenOff(c)
  \/ \E p \in PullRequests : Push(p) \/ Merge(p)

IngestSpec == IngestInit /\ [][IngestNext]_ingestVars /\ \A c \in Clients : WF_ingestVars(Step(c))

-----------------------------------------------------------------------------
(* Properties *)

Final(pull, text) ==
  /\ merged[pull.number] /\ pull.head = head[pull.number] /\ text = pull.head
  /\ pull.files = FilesAt[pull.number][pull.head]

(* A pull request shown or stored as merged is shown and stored as it was  *)
(* merged, though its parts are read by different calls: that it is merged *)
(* is read before its files and its diff (_build_pull_request_preview,     *)
(* create_from_github).                                                    *)
MergedIsFinal ==
  /\ \A t \in creations : Final(t.pull, t.text)
  /\ \A c \in Clients : \A p \in ToSet(asking[c].previews) : p.merged => Final(p, p.head)

(* What the trusted preview and the hidden tests contain of a file is what *)
(* the commit shown as the head has of it, though the branch moves on, and *)
(* a hidden test is a test file that can be run (hidden_test_candidates).  *)
CandidatesAreAtHead ==
  /\ \A c \in Clients :
       LET p == asking[c].pull
       IN  asking[c].content = {} \/ asking[c].content \subseteq FilesAt[p.number][p.head]
  /\ \A t \in creations :
       t.suites \subseteq (t.pull.files \cap TestFiles) \ (Unreadable \cup Unsupported)

(* A creation leaves a repository and a task or nothing at all: calls that *)
(* break off after the rows were inserted, and a second client that        *)
(* inserts the same repository, leave nothing (create_from_github).        *)
AllOrNothing ==
  /\ repo = "stored" <=> creations # {}
  /\ \A c \in Clients :
       LET mine == {t \in creations : t.by = c}
       IN  Cardinality(mine) = IF At(c, "done") /\ Creating(c) THEN 1 ELSE 0

(* What is read by several calls while branches move fits together: merged *)
(* pull requests are final, tests are those of the head that is shown, and *)
(* a creation leaves everything or nothing (github/service.py with         *)
(* benchmark_tasks/creation.py).                                           *)
IngestionIsWhole ==
  /\ IngestTypeOK
  /\ MergedIsFinal
  /\ CandidatesAreAtHead
  /\ AllOrNothing

(* The linked pull requests are the numbers mentioned, each once and in    *)
(* the order of their first mention; those of the timeline come last and   *)
(* are missing when it could not be read (detect_linked_pull_requests).    *)
EachMentionOnce ==
  \A c \in Clients :
    LET found == asking[c].found
        mentioned == UNION {ToSet(Numbers(Texts[i])) : i \in DOMAIN Texts}
                     \cup (PullRequests \cap {asking[c].number})
        FirstText(n) == CHOOSE i \in DOMAIN Texts :
                          /\ n \in ToSet(Numbers(Texts[i]))
                          /\ \A j \in 1..(i - 1) : n \notin ToSet(Numbers(Texts[j]))
    IN  asking[c].kind = "issue" /\ found # <<>> =>
          /\ IsInjective(found)
          /\ mentioned \subseteq ToSet(found)
          /\ ToSet(found) \subseteq mentioned \cup ToSet(NumbersInTimeline)
          /\ \A i, j \in DOMAIN found :
               LET m == found[i]
                   n == found[j]
               IN  /\ (m \in mentioned /\ n \notin mentioned) => i < j
                   /\ ({m, n} \subseteq mentioned \ {asking[c].number}
                       /\ FirstText(m) < FirstText(n)) => i < j

(* Every request ends, whatever GitHub answers and whoever holds the row.  *)
(* Threads of the pool run to their end and calls have a timeout of 20 s.  *)
EveryRequestEnds ==
  \A c \in Clients : At(c, "read") ~> (At(c, "done") \/ At(c, "failed"))

(* docs/github-ingestion.md: a preview includes "Best-effort linked pull   *)
(* requests", so it fails only when a call to GitHub has failed.           *)
LinksAreBestEffort ==
  \A c \in Clients : At(c, "failed") /\ asking[c].kind = "issue" => failures > 0
=============================================================================

--------------------------------- MODULE MCTasks ----------------------------
(* The components that make benchmark tasks and use them: imports of       *)
(* documents, the tasks themselves with their validation and the comparison*)
(* of models on a task, and the ingestion of issues and pull requests,     *)
(* which is once of creations and once of previews with links. A behaviour *)
(* is one of one of them.                                                  *)
EXTENDS BenchmarkImports, ModelComparison, BenchmarkTasks, GitHubIngestion, TLC

(* Documents with common task ids and repositories, a repeated row and     *)
(* every kind of failure.                                                  *)
Row(kind, id, repository) == [kind |-> kind, id |-> id, repository |-> repository]
SomeDocuments ==
  { << Row("good", "t1", "ra"), Row("malformed", "t1", "ra"), Row("good", "t2", "rb") >>,
    << Row("good", "t2", "rb"), Row("good", "t1", "ra") >>,
    << Row("unsafe", "t3", "ra"), Row("good", "t3", "ra"), Row("good", "t3", "rb"),
       Row("invalid", "t4", "rb") >> }

(* A complete draft, and drafts and ready tasks with one flaw each.        *)
CompleteDraft ==
  [url |-> TRUE, issue |-> TRUE, pr |-> TRUE, base |-> TRUE, title |-> TRUE,
   body |-> TRUE, setup |-> "good", tests |-> "good", lint |-> "good",
   status |-> "draft"]
SomeRequests ==
  {CompleteDraft, [CompleteDraft EXCEPT !.status = "failed"],
   [CompleteDraft EXCEPT !.status = "archived"]}
  \cup UNION { { [CompleteDraft EXCEPT !.status = s],
                 [CompleteDraft EXCEPT !.status = s, !.url = FALSE],
                 [CompleteDraft EXCEPT !.status = s, !.base = FALSE],
                 [CompleteDraft EXCEPT !.status = s, !.title = FALSE, !.body = FALSE],
                 [CompleteDraft EXCEPT !.status = s, !.lint = "blank", !.body = FALSE],
                 [CompleteDraft EXCEPT !.status = s, !.setup = "blank"],
                 [CompleteDraft EXCEPT !.status = s, !.pr = FALSE, !.tests = "blank"] } :
               s \in {"draft", "ready"} }

(* The issue 1 is fixed by 2; 3 is a pull request too, 4 an issue.         *)
Mention(kind, n) == [kind |-> kind, number |-> n]
Discussion == << <<Mention("PR", 3), Mention("url", 2)>>, <<Mention("closes", 2)>> >>
WithIssue == << <<Mention("closes", 4)>> >>
Event(n, pull, own, body) == [number |-> n, pull |-> pull, own |-> own, body |-> body]
CrossReferences == << Event(4, FALSE, TRUE, <<Mention("PR", 3), Mention("closes", 5)>>),
                      Event(5, TRUE, TRUE, <<>>), Event(3, TRUE, TRUE, <<>>),
                      Event(6, TRUE, FALSE, <<Mention("url", 2)>>) >>

(* A push adds a test, the next one drops the first.                       *)
FilesAfter == 0 :> {"code", "test_a"} @@ 1 :> {"code", "test_a", "test_b"}
                @@ 2 :> {"code", "test_b"}
PushedFiles == [p \in {2, 3, 5} |-> FilesAfter]

(* The order of names and run ids is not that of the roster.               *)
ThirdFirst == [m \in 1..3 |-> CASE m = 1 -> 2 [] m = 2 -> 3 [] m = 3 -> 1]

Outcome(passed, applied, localization, unrelated, modified, cost, time) ==
  [passed |-> passed, applied |-> applied, localization |-> localization,
   unrelated |-> unrelated, modified |-> modified, cost |-> cost, time |-> time]

(* Failing, empty and passing patches, and passing ones with something     *)
(* unknown or better in one respect only, the time too.                    *)
SomeMetrics ==
  { Outcome(FALSE, TRUE, 1, 0, 1, 1, 1), Outcome(TRUE, FALSE, 0, 0, 0, 0, 1),
    Outcome(TRUE, TRUE, 1, 0, 1, Unknown, 2), Outcome(TRUE, TRUE, 1, 0, 1, 2, 1),
    Outcome(TRUE, TRUE, Unknown, 0, 1, 1, 0), Outcome(TRUE, TRUE, 0, Unknown, 1, 1, 1),
    Outcome(TRUE, TRUE, 1, 1, 1, 1, 0), Outcome(TRUE, TRUE, 1, 1, 1, 1, 2) }

-----------------------------------------------------------------------------
VARIABLES
  part    \* the component at work, for good

(* Two clients ask for one pull request, with two pushes.                  *)
CreationsOnly ==
  /\ \A c \in Clients : asking[c].kind \in {"none", "create", "trusted"}
                       /\ asking[c].number \in {0, 2}
  /\ \A p \in PullRequests \ {2} : head[p] = 0 /\ ~merged[p]

(* One client, one push of each pull request and one failure.              *)
PreviewsOnly ==
  /\ asking["c1"].kind # "create" /\ asking["c2"].kind = "none" /\ failures <= 1
  /\ \A p \in PullRequests : head[p] <= 1

componentVars == <<part, vars, taskVars, ingestVars, comparisonVars>>

ASSUME ComponentsAssumption ==
  /\ ImportAssumption
  /\ TasksAssumption
  /\ IngestionAssumption
  /\ ComparisonAssumption

(* A component that is not at work rests in one of its initial states.     *)
ComponentsInit ==
  /\ part \in {"imports", "tasks", "creations", "previews", "comparison"}
  /\ Init
  /\ part # "imports" => \A i \in Importers : Len(document[i]) = 2
  /\ TasksInit
  /\ IngestInit
  /\ ComparisonInit
  /\ part # "comparison" => ~ready

ComponentsNext ==
  \/ /\ part = "imports" /\ Next
     /\ UNCHANGED <<part, taskVars, ingestVars, comparisonVars>>
  \/ /\ part = "tasks" /\ TasksNext
     /\ UNCHANGED <<part, vars, ingestVars, comparisonVars>>
  \/ /\ part = "creations" /\ IngestNext /\ CreationsOnly'
     /\ UNCHANGED <<part, vars, taskVars, comparisonVars>>
  \/ /\ part = "previews" /\ IngestNext /\ PreviewsOnly'
     /\ UNCHANGED <<part, vars, taskVars, comparisonVars>>
  \/ /\ part = "comparison" /\ ComparisonNext
     /\ UNCHANGED <<part, vars, taskVars, ingestVars>>
  \* These may come to their bounds.
  \/ part \in {"tasks", "creations", "previews"} /\ UNCHANGED componentVars

ComponentsSpec ==
  /\ ComponentsInit /\ [][ComponentsNext]_componentVars
  /\ \A i \in Importers : WF_vars(part = "imports" /\ Import(i))
  /\ \A c \in Clients : WF_ingestVars(part = "creations" /\ Step(c))
  /\ WF_comparisonVars(part = "comparison" /\ Execute)

-----------------------------------------------------------------------------
(* Importing takes nothing away, nothing a client does takes a task out of *)
(* a final state or changes it there, a model of a comparison keeps its    *)
(* result once it has finished, and its awards but to newcomers that have  *)
(* passed or when it is marked failed itself before it has finished, and   *)
(* no mention of a pull request is dropped, reordered or repeated.         *)
NothingIsLost ==
  /\ ImportsOnlyAdd
  /\ SettledTasksStay
  /\ [][part = "comparison" => KeepsFinished /\ KeepsAwards]_comparisonVars
  /\ [](part = "previews" => EachMentionOnce)

(* Documents that are retried are completely imported in the end, every    *)
(* request to ingest ends, whoever else is at work, and a request to       *)
(* compare is answered, however its models fare.                           *)
RequestsSettle ==
  /\ part = "imports" => EventuallyImported
  /\ part = "creations" => EveryRequestEnds
  /\ part = "comparison" => EventuallyAnswered

=============================================================================

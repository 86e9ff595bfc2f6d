---------------------------- MODULE BenchmarkImports ----------------------------
(***************************************************************************)
(* BenchmarkImportService (benchmark_imports/service.py): operators import *)
(* documents of task records, every row in a transaction of its own, and   *)
(* append the new tasks to a benchmark pack, which curators edit through   *)
(* BenchmarkPackService (benchmark_packs/service.py) meanwhile.            *)
(*                                                                         *)
(* A transaction is two steps: what it reads, and its commit, at which the *)
(* database checks the unique constraints.  A row is abstracted to what    *)
(* the importer tells apart: malformed JSON, a record the schema rejects,  *)
(* an unsafe patch, or a record with its task id and repository.           *)
(***************************************************************************)
EXTENDS Naturals, Sequences, FiniteSets, SequencesExt

CONSTANTS
  Importers,   \* operators, each with a document
  Documents,   \* what a document may contain: sequences of rows
  Curated,     \* tasks that are not imported
  Positions,   \* order indexes a curator uses
  MaxEdits,    \* bound on edits of the pack by curators
  MaxErrors    \* bound on errors of the database

RowType(ids, repositories) ==
  [kind : {"malformed", "invalid", "unsafe", "good"}, id : ids, repository : repositories]

Ids == UNION {{d[r].id : r \in DOMAIN d} : d \in Documents}
Repositories == UNION {{d[r].repository : r \in DOMAIN d} : d \in Documents}

ImportAssumption ==
  /\ \A d \in Documents : d \in Seq(RowType(Ids, Repositories))
  /\ Ids \cap Curated = {} /\ Positions \subseteq Nat
  /\ MaxEdits \in Nat /\ MaxErrors \in Nat

VARIABLES
  document,    \* what each importer imports, again when it retries
  pc,          \* where its request is
  row,         \* the row it works on
  order,       \* pack_order
  new,         \* the repository was not found
  result,      \* outcome of each row so far
  imports,     \* rows of benchmark_imports, with the task, by its task id
  repositories,
  members,     \* rows of benchmark_pack_tasks: position and task
  edits, errors,
  first,       \* pack_order at the beginning of the request
  rivals       \* somebody else has committed since then

requestVars == <<pc, row, order, new, result, first>>
tableVars == <<imports, repositories, members>>
vars == <<document, requestVars, tableVars, edits, errors, rivals>>

Outcomes == {"imported", "duplicate", "invalid_json", "invalid_record", "invalid_patch",
             "storage_conflict", "storage_error"}

(* What may be imported when the request is repeated. *)
Retriable == {"storage_conflict", "storage_error"}

Current(i) == document[i][row[i]]

TypeOK ==
  /\ document \in [Importers -> Documents]
  /\ pc \in [Importers -> {"start", "row", "commit", "done"}]
  /\ row \in [Importers -> Nat] /\ result \in [Importers -> Seq(Outcomes)]
  /\ \A i \in Importers : row[i] \in 1..(Len(document[i]) + 1) /\ Len(result[i]) < row[i]
  /\ order \in [Importers -> Nat] /\ first \in [Importers -> Nat]
  /\ new \in [Importers -> BOOLEAN]
  /\ imports \subseteq [id : Ids, by : Importers, repository : Repositories]
  /\ repositories \subseteq Repositories
  /\ members \subseteq [at : Nat, task : Ids \cup Curated]
  /\ edits \in 0..MaxEdits /\ errors \in 0..MaxErrors
  /\ rivals \in [Importers -> BOOLEAN]

Init ==
  /\ document \in [Importers -> Documents]
  /\ pc = [i \in Importers |-> "start"]
  /\ row = [i \in Importers |-> 1]
  /\ order = [i \in Importers |-> 0] /\ first = order
  /\ new = [i \in Importers |-> FALSE]
  /\ result = [i \in Importers |-> <<>>]
  /\ imports = {} /\ repositories = {} /\ members = {}
  /\ edits = 0 /\ errors = 0
  /\ rivals = [i \in Importers |-> FALSE]

-----------------------------------------------------------------------------
(* The import of a document *)

(* Mutant: the number of members instead of the highest order index. *)
NextPackOrderCounts == Cardinality(members)

NextPackOrder == IF members = {} THEN 0 ELSE 1 + Max({m.at : m \in members})

(* Documents that are rejected as a whole end here and change nothing. *)
Start(i) ==
  /\ pc[i] = "start"
  /\ order' = [order EXCEPT ![i] = NextPackOrder]
  /\ first' = [first EXCEPT ![i] = NextPackOrder]
  /\ rivals' = [rivals EXCEPT ![i] = FALSE]
  /\ pc' = [pc EXCEPT ![i] = "row"]
  /\ UNCHANGED <<document, row, new, result, tableVars, edits, errors>>

Imported(id) == \E m \in imports : m.id = id

(* The row is finished: its outcome is recorded and the next one follows.  *)
Report(i, outcome) ==
  /\ result' = [result EXCEPT ![i] = Append(@, outcome)]
  /\ row' = [row EXCEPT ![i] = @ + 1]
  /\ pc' = [pc EXCEPT ![i] = "row"]
  /\ UNCHANGED <<document, new, first, edits>>

Rejection(i) ==
  LET r == Current(i) IN
  IF r.kind = "malformed" THEN "invalid_json"
  ELSE IF r.kind = "invalid" THEN "invalid_record"
  ELSE IF Imported(r.id) THEN "duplicate"
  ELSE IF r.kind = "unsafe" THEN "invalid_patch"
  ELSE "none"

Reject(i) ==
  /\ pc[i] = "row" /\ row[i] <= Len(document[i])
  /\ Rejection(i) # "none"
  /\ Report(i, Rejection(i))
  /\ UNCHANGED <<order, tableVars, errors, rivals>>

(* The task id is not known: the transaction looks for the repository. *)
Look(i) ==
  /\ pc[i] = "row" /\ row[i] <= Len(document[i])
  /\ Rejection(i) = "none"
  /\ new' = [new EXCEPT ![i] = Current(i).repository \notin repositories]
  /\ pc' = [pc EXCEPT ![i] = "commit"]
  /\ UNCHANGED <<document, row, order, result, tableVars, edits, errors, first, rivals>>

(* Unique constraints on repositories, imports and positions of a pack. *)
Violates(i) ==
  \/ new[i] /\ Current(i).repository \in repositories
  \/ Imported(Current(i).id)
  \/ \E m \in members : m.at = order[i]

Disturbed(i) == [j \in Importers |-> rivals[j] \/ (j # i /\ pc[j] \in {"row", "commit"})]

(* Mutant: only the import record is committed before the failure. *)
ConflictInPart(i) ==
  /\ pc[i] = "commit" /\ Violates(i)
  /\ Report(i, IF Imported(Current(i).id) THEN "duplicate" ELSE "storage_conflict")
  /\ imports' = imports \cup
       {[id |-> Current(i).id, by |-> i, repository |-> Current(i).repository]}
  /\ UNCHANGED <<order, repositories, members, errors, rivals>>

(* IntegrityError: the transaction is rolled back. *)
Conflict(i) ==
  /\ pc[i] = "commit" /\ Violates(i)
  /\ Report(i, IF Imported(Current(i).id) THEN "duplicate" ELSE "storage_conflict")
  /\ UNCHANGED <<order, tableVars, errors, rivals>>

(* Mutant: an import replaces what is at its position of the pack. *)
CommitOver(i) ==
  /\ pc[i] = "commit" /\ ~Imported(Current(i).id)
  /\ imports' = imports \cup
       {[id |-> Current(i).id, by |-> i, repository |-> Current(i).repository]}
  /\ repositories' = repositories \cup {Current(i).repository}
  /\ members' = {m \in members : m.at # order[i]} \cup
                {[at |-> order[i], task |-> Current(i).id]}
  /\ order' = [order EXCEPT ![i] = @ + 1]
  /\ rivals' = Disturbed(i)
  /\ Report(i, "imported")
  /\ UNCHANGED errors

(* Task, provenance, gold patch, hidden suite and membership together. *)
Commit(i) ==
  /\ pc[i] = "commit" /\ ~Violates(i)
  /\ imports' = imports \cup
       {[id |-> Current(i).id, by |-> i, repository |-> Current(i).repository]}
  /\ repositories' = repositories \cup {Current(i).repository}
  /\ members' = members \cup {[at |-> order[i], task |-> Current(i).id]}
  /\ order' = [order EXCEPT ![i] = @ + 1]
  /\ rivals' = Disturbed(i)
  /\ Report(i, "imported")
  /\ UNCHANGED errors

DatabaseFails(i) ==
  /\ pc[i] = "commit" /\ errors < MaxErrors
  /\ errors' = errors + 1
  /\ Report(i, "storage_error")
  /\ UNCHANGED <<order, tableVars, rivals>>

Finish(i) ==
  /\ pc[i] = "row" /\ row[i] > Len(document[i])
  /\ pc' = [pc EXCEPT ![i] = "done"]
  /\ UNCHANGED <<document, row, order, new, result, tableVars, edits, errors, first, rivals>>

(* The operator imports the document again because some rows can be        *)
(* retried.                                                                *)
Retry(i) ==
  /\ pc[i] = "done" /\ \E r \in DOMAIN result[i] : result[i][r] \in Retriable
  /\ pc' = [pc EXCEPT ![i] = "start"]
  /\ row' = [row EXCEPT ![i] = 1]
  /\ result' = [result EXCEPT ![i] = <<>>]
  /\ UNCHANGED <<document, order, new, tableVars, edits, errors, first, rivals>>

-----------------------------------------------------------------------------
(* Curators *)

Edit == edits < MaxEdits /\ edits' = edits + 1 /\ UNCHANGED <<document, requestVars, imports,
                                                             repositories, errors>>

(* A task that is a member already or a position in use is a conflict: 409 *)
AddTask(task, at) ==
  /\ Edit
  /\ \A m \in members : m.task # task /\ m.at # at
  /\ members' = members \cup {[at |-> at, task |-> task]}
  /\ rivals' = [j \in Importers |-> TRUE]

RemoveTask(m) ==
  /\ Edit
  /\ members' = members \ {m}
  /\ UNCHANGED rivals

Terminated ==
  /\ \A i \in Importers : /\ pc[i] = "done"
                          /\ \A r \in DOMAIN result[i] : result[i][r] \notin Retriable
  /\ UNCHANGED vars

Import(i) == Start(i) \/ Reject(i) \/ Look(i) \/ Conflict(i) \/ Commit(i) \/ Finish(i) \/ Retry(i)

Next ==
  \/ \E i \in Importers : Import(i) \/ DatabaseFails(i)
  \/ \E task \in Curated \cup {m.id : m \in imports}, at \in Positions : AddTask(task, at)
  \/ \E m \in members : RemoveTask(m)
  \/ Terminated

(* A request that has begun proceeds, and operators retry. *)
Spec == Init /\ [][Next]_vars /\ \A i \in Importers : WF_vars(Import(i))

-----------------------------------------------------------------------------
(* The summary tells what has happened to every row: what it calls         *)
(* imported or a duplicate is stored, once, and a row is imported by one   *)
(* request only, even when two import it at the same time.                 *)
SummaryIsTrue ==
  /\ \A m, n \in imports : m.id = n.id => m = n
  /\ \A i \in Importers : \A r \in DOMAIN result[i] :
       /\ result[i][r] \in {"imported", "duplicate"} => Imported(document[i][r].id)
       /\ result[i][r] = "imported" => \E m \in imports : m.id = document[i][r].id /\ m.by = i
       /\ result[i][r] = "invalid_patch" => document[i][r].kind = "unsafe"
       /\ pc[i] = "done" => Len(result[i]) = Len(document[i])

(* A conflict is reported only when somebody else has written meanwhile,   *)
(* and a row that failed has left nothing behind for its own task id.      *)
FailedRowsLeaveNothing ==
  \A i \in Importers : \A r \in DOMAIN result[i] :
    result[i][r] \in Retriable =>
      /\ result[i][r] = "storage_conflict" => rivals[i]
      /\ \A m \in imports : m.by = i /\ m.id = document[i][r].id
           => \E s \in DOMAIN result[i] : s # r /\ result[i][s] \in {"imported", "duplicate"}
                                            /\ document[i][s].id = m.id

(* Imported rows follow one another in source order, after all that was in *)
(* the pack: failed and duplicate rows do not consume positions.  (Those   *)
(* that a curator has removed are not looked at.)                          *)
AppendedInOrder ==
  \A i \in Importers : \A r \in DOMAIN result[i] :
    result[i][r] = "imported" =>
      LET before == {s \in 1..(r - 1) : result[i][s] = "imported"} IN
      \A m \in members : m.task = document[i][r].id /\ edits = 0
                           => m.at = first[i] + Cardinality(before)

(* A position holds one task and a task has one position in the pack.      *)
PackIsAList == \A m, n \in members : (m.at = n.at \/ m.task = n.task) => m = n

(* Whatever two operators and a curator do at once: what the summary says  *)
(* is so, a row that failed has left nothing behind, and the pack is a     *)
(* list in source order.                                                   *)
ImportsAreWhole ==
  /\ TypeOK /\ SummaryIsTrue /\ FailedRowsLeaveNothing
  /\ AppendedInOrder /\ PackIsAList

(* Importing takes nothing away: neither stored rows nor members of the    *)
(* pack, which only curators remove.                                       *)
ImportsOnlyAdd ==
  [][/\ imports \subseteq imports' /\ repositories \subseteq repositories'
     /\ edits' = edits => members \subseteq members']_vars

(* Documents that are retried while conflicts are reported are completely  *)
(* imported in the end, whoever else imports into the same pack.           *)
EventuallyImported ==
  \A i \in Importers :
    <>[](\A r \in DOMAIN document[i] : document[i][r].kind = "good" => Imported(document[i][r].id))
=============================================================================

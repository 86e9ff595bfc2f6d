------------------------------ MODULE BenchmarkProofs ------------------------------
(***************************************************************************)
(* Proofs about BenchmarkImports for any number of operators, documents,   *)
(* curators' edits and errors of the database: summaries are true, rows    *)
(* that failed have left nothing behind, and the pack is a list in source  *)
(* order; about ModelComparison for any roster and any metrics: its models *)
(* end in order, each explained, and awards go to the best; about          *)
(* BenchmarkTasks for any tasks and requests: what is ready but not valid  *)
(* is blocked by its report; and about GitHubIngestion for any clients,    *)
(* pull requests, texts and failures: what is read by several calls fits   *)
(* together.                                                               *)
(***************************************************************************)
EXTENDS BenchmarkImports, ModelComparison, BenchmarkTasks, GitHubIngestion, FiniteSetTheorems,
        SequenceTheorems, TLAPS

ImportedRows(i) == {s \in DOMAIN result[i] : result[i][s] = "imported"}

(* Where a request is, and what it knows if nobody else has written.       *)
RequestFits(i) ==
  /\ Len(result[i]) + 1 = row[i]
  /\ pc[i] = "start" => row[i] = 1
  /\ pc[i] = "commit" =>
       /\ row[i] <= Len(document[i])
       /\ \A m \in imports : m.by = i => m.id # Current(i).id
  /\ pc[i] = "done" => row[i] = Len(document[i]) + 1
  /\ pc[i] # "start" => order[i] = first[i] + Cardinality(ImportedRows(i))
  /\ pc[i] \in {"row", "commit"} /\ rivals[i] = FALSE => \A m \in members : m.at < order[i]
  /\ pc[i] = "commit" /\ rivals[i] = FALSE /\ new[i] = TRUE =>
       Current(i).repository \notin repositories

RequestsFit == \A i \in Importers : RequestFits(i)

(* What the outcome of a row tells.                                        *)
RowsBefore(i, r) == {s \in 1..(r - 1) : result[i][s] = "imported"}

OutcomeFits(i, r) ==
  LET id == document[i][r].id IN
  /\ result[i][r] \in {"imported", "duplicate"} => Imported(id)
  /\ result[i][r] = "imported" =>
       /\ \E m \in imports : m.id = id /\ m.by = i
       /\ \A m \in members : m.task = id /\ edits = 0
                              => m.at = first[i] + Cardinality(RowsBefore(i, r))
  /\ result[i][r] = "invalid_patch" => document[i][r].kind = "unsafe"
  /\ result[i][r] = "storage_conflict" => rivals[i] = TRUE
  /\ result[i][r] \in Retriable =>
       \A m \in imports : m.by = i /\ m.id = id
         => \E s \in DOMAIN result[i] : s # r /\ result[i][s] \in {"imported", "duplicate"}
                                          /\ document[i][s].id = m.id

OutcomesFit == \A i \in Importers : \A r \in DOMAIN result[i] : OutcomeFits(i, r)

IdsDiffer == \A m, n \in imports : m.id = n.id => m = n

MembersKnown == \A m \in members : m.task \in Curated \/ Imported(m.task)

(* Every part of the pack has a last position.                             *)
HasMaxima ==
  \A S \in SUBSET members : S # {} => \E m \in S : \A n \in S : n.at <= m.at

ImportInv ==
  /\ TypeOK /\ RequestsFit /\ OutcomesFit
  /\ IdsDiffer /\ MembersKnown /\ PackIsAList /\ HasMaxima

-----------------------------------------------------------------------------
(* Data.                                                                   *)

LEMMA ImportFields ==
  ASSUME ImportAssumption, TypeOK, NEW i \in Importers
  PROVE  /\ document[i] \in Documents /\ document[i] \in Seq(RowType(Ids, Repositories))
         /\ Len(document[i]) \in Nat
         /\ row[i] \in Nat /\ row[i] >= 1 /\ row[i] <= Len(document[i]) + 1
         /\ result[i] \in Seq(Outcomes) /\ Len(result[i]) \in Nat
         /\ order[i] \in Nat /\ first[i] \in Nat
         /\ new[i] \in BOOLEAN /\ rivals[i] \in BOOLEAN
         /\ pc[i] \in {"start", "row", "commit", "done"}
  <1>1. document[i] \in Documents /\ document[i] \in Seq(RowType(Ids, Repositories))
    BY DEF TypeOK, ImportAssumption
  <1>2. Len(document[i]) \in Nat /\ row[i] \in 1..(Len(document[i]) + 1)
    BY <1>1 DEF TypeOK
  <1>3. result[i] \in Seq(Outcomes) /\ Len(result[i]) \in Nat
    BY DEF TypeOK
  <1>4. order[i] \in Nat /\ first[i] \in Nat /\ new[i] \in BOOLEAN /\ rivals[i] \in BOOLEAN
    BY DEF TypeOK
  <1>5. pc[i] \in {"start", "row", "commit", "done"} /\ row[i] \in Nat
    BY DEF TypeOK
  <1> QED
    BY <1>1, <1>2, <1>3, <1>4, <1>5

LEMMA RowFields ==
  ASSUME ImportAssumption, TypeOK, NEW i \in Importers, NEW r \in 1..Len(document[i])
  PROVE  /\ document[i][r].id \in Ids /\ document[i][r].repository \in Repositories
         /\ document[i][r].kind \in {"malformed", "invalid", "unsafe", "good"}
  <1>1. document[i] \in Seq(RowType(Ids, Repositories))
    BY ImportFields
  <1>2. document[i][r] \in RowType(Ids, Repositories)
    BY <1>1
  <1> QED
    BY <1>2 DEF RowType

LEMMA CurrentFields ==
  ASSUME ImportAssumption, TypeOK, NEW i \in Importers, row[i] <= Len(document[i])
  PROVE  /\ Current(i).id \in Ids /\ Current(i).repository \in Repositories
         /\ Current(i).kind \in {"malformed", "invalid", "unsafe", "good"}
         /\ Current(i).id \notin Curated
         /\ row[i] \in 1..Len(document[i])
  <1>1. row[i] \in 1..Len(document[i])
    BY ImportFields
  <1> QED
    BY <1>1, RowFields DEF Current, ImportAssumption

LEMMA RejectionTells ==
  ASSUME ImportAssumption, TypeOK, NEW i \in Importers, row[i] <= Len(document[i])
  PROVE  /\ Rejection(i) \in {"invalid_json", "invalid_record", "duplicate", "invalid_patch",
                              "none"}
         /\ Rejection(i) = "duplicate" => Imported(Current(i).id)
         /\ Rejection(i) = "invalid_patch" => Current(i).kind = "unsafe"
         /\ Rejection(i) = "none" => ~Imported(Current(i).id)
  BY CurrentFields DEF Rejection

LEMMA Appended ==
  ASSUME NEW s \in Seq(Outcomes), NEW outcome \in Outcomes, NEW t, t = Append(s, outcome)
  PROVE  /\ t \in Seq(Outcomes) /\ Len(s) \in Nat /\ Len(t) = Len(s) + 1
         /\ DOMAIN s = 1..Len(s) /\ DOMAIN t = 1..(Len(s) + 1)
         /\ t[Len(s) + 1] = outcome
         /\ \A r \in DOMAIN s : r \in DOMAIN t /\ t[r] = s[r]
         /\ \A r \in DOMAIN t : r \in DOMAIN s \/ r = Len(s) + 1
  OBVIOUS

LEMMA CountedRows ==
  ASSUME ImportAssumption, TypeOK, NEW i \in Importers
  PROVE  IsFiniteSet(ImportedRows(i)) /\ Cardinality(ImportedRows(i)) \in Nat
  <1>1. Len(result[i]) \in Nat /\ DOMAIN result[i] = 1..Len(result[i])
    BY ImportFields
  <1>2. IsFiniteSet(1..Len(result[i]))
    BY <1>1, FS_Interval
  <1>3. ImportedRows(i) \in SUBSET (1..Len(result[i]))
    BY <1>1 DEF ImportedRows
  <1>4. IsFiniteSet(ImportedRows(i))
    BY <1>2, <1>3, FS_Subset
  <1> QED
    BY <1>4, FS_CardinalityType

LEMMA Reported ==
  ASSUME ImportAssumption, TypeOK, NEW i \in Importers, NEW outcome \in Outcomes,
         result'[i] = Append(result[i], outcome)
  PROVE  /\ outcome # "imported" => ImportedRows(i)' = ImportedRows(i)
         /\ outcome = "imported" =>
              Cardinality(ImportedRows(i)') = Cardinality(ImportedRows(i)) + 1
         /\ \A r \in DOMAIN result[i] : RowsBefore(i, r)' = RowsBefore(i, r)
         /\ \A r \in Nat : r = Len(result[i]) + 1 => RowsBefore(i, r)' = ImportedRows(i)
  <1> DEFINE n == Len(result[i])
  <1>1. result[i] \in Seq(Outcomes)
    BY ImportFields
  <1>2. /\ n \in Nat /\ DOMAIN result[i] = 1..n /\ DOMAIN result'[i] = 1..(n + 1)
        /\ result'[i][n + 1] = outcome
        /\ \A r \in 1..n : result'[i][r] = result[i][r]
    BY <1>1, Appended
  <1> HIDE DEF n
  <1>3. ImportedRows(i) = {s \in 1..n : result[i][s] = "imported"}
    BY <1>2 DEF ImportedRows
  <1>4. ImportedRows(i)' = {s \in 1..(n + 1) : result'[i][s] = "imported"}
    BY <1>2 DEF ImportedRows
  <1>5. outcome # "imported" => ImportedRows(i)' = ImportedRows(i)
    BY <1>2, <1>3, <1>4
  <1>6. ASSUME outcome = "imported"
        PROVE  Cardinality(ImportedRows(i)') = Cardinality(ImportedRows(i)) + 1
    <2>1. ImportedRows(i)' = ImportedRows(i) \cup {n + 1}
      BY <1>2, <1>3, <1>4, <1>6
    <2>2. n + 1 \notin ImportedRows(i)
      BY <1>2, <1>3
    <2> QED
      BY <2>1, <2>2, CountedRows, FS_AddElement
  <1>7. \A r \in 1..n : RowsBefore(i, r)' = RowsBefore(i, r)
    <2>1. ASSUME NEW r \in 1..n PROVE RowsBefore(i, r)' = RowsBefore(i, r)
      <3>1. RowsBefore(i, r)' = {s \in 1..(r - 1) : result'[i][s] = "imported"}
        BY DEF RowsBefore
      <3>2. \A s \in 1..(r - 1) : result'[i][s] = result[i][s]
        BY <1>2
      <3> QED
        BY <3>1, <3>2 DEF RowsBefore
    <2> QED
      BY <2>1
  <1>8. ASSUME NEW r \in Nat, r = n + 1 PROVE RowsBefore(i, r)' = ImportedRows(i)
    <2>1. RowsBefore(i, r)' = {s \in 1..(r - 1) : result'[i][s] = "imported"}
      BY DEF RowsBefore
    <2>2. r - 1 = n
      BY <1>2, <1>8
    <2> QED
      BY <1>2, <1>3, <2>1, <2>2
  <1> QED
    BY <1>2, <1>5, <1>6, <1>7, <1>8 DEF n

-----------------------------------------------------------------------------
(* What the steps do.                                                      *)

Own(i) ==
  /\ pc' \in [Importers -> {"start", "row", "commit", "done"}]
  /\ row' \in [Importers -> Nat] /\ order' \in [Importers -> Nat]
  /\ first' \in [Importers -> Nat]
  /\ new' \in [Importers -> BOOLEAN] /\ result' \in [Importers -> Seq(Outcomes)]
  /\ document' = document
  /\ \A j \in Importers \ {i} :
       /\ pc'[j] = pc[j] /\ row'[j] = row[j] /\ order'[j] = order[j]
       /\ new'[j] = new[j] /\ result'[j] = result[j] /\ first'[j] = first[j]

LEMMA NextOrder ==
  ASSUME ImportAssumption, TypeOK, HasMaxima
  PROVE  NextPackOrder \in Nat /\ \A m \in members : m.at < NextPackOrder
  <1>1. CASE members = {}
    BY <1>1 DEF NextPackOrder
  <1>2. CASE members # {}
    <2> DEFINE Ats == {m.at : m \in members}
    <2>1. \A m \in members : m.at \in Nat
      BY DEF TypeOK
    <2>2. PICK last \in members : \A n \in members : n.at <= last.at
      BY <1>2 DEF HasMaxima
    <2>3. \E x \in Ats : \A y \in Ats : x >= y
      BY <2>1, <2>2
    <2>4. Max(Ats) \in Ats /\ \A y \in Ats : Max(Ats) >= y
      BY <2>3 DEF Max
    <2>5. NextPackOrder = 1 + Max(Ats)
      BY <1>2 DEF NextPackOrder
    <2>6. Max(Ats) \in Nat /\ \A m \in members : m.at <= Max(Ats)
      BY <2>1, <2>4
    <2> HIDE DEF Ats
    <2> QED
      BY <2>1, <2>5, <2>6
  <1> QED
    BY <1>1, <1>2

LEMMA StartTells ==
  ASSUME ImportAssumption, TypeOK, HasMaxima, NEW i \in Importers, Start(i)
  PROVE  /\ Own(i) /\ pc[i] = "start" /\ pc'[i] = "row"
         /\ order'[i] \in Nat /\ first'[i] = order'[i]
         /\ row' = row /\ result' = result
         /\ \A m \in members : m.at < order'[i]
         /\ rivals' \in [Importers -> BOOLEAN] /\ \A j \in Importers \ {i} : rivals'[j] = rivals[j]
         /\ UNCHANGED <<tableVars, edits, errors>>
  <1>1. /\ pc[i] = "start" /\ order' = [order EXCEPT ![i] = NextPackOrder]
        /\ first' = [first EXCEPT ![i] = NextPackOrder]
        /\ rivals' = [rivals EXCEPT ![i] = FALSE] /\ pc' = [pc EXCEPT ![i] = "row"]
        /\ UNCHANGED <<document, row, new, result, tableVars, edits, errors>>
    BY DEF Start
  <1>2. NextPackOrder \in Nat /\ \A m \in members : m.at < NextPackOrder
    BY NextOrder
  <1> HIDE DEF NextPackOrder
  <1>3. order'[i] = NextPackOrder /\ first'[i] = NextPackOrder /\ pc'[i] = "row"
    BY <1>1 DEF TypeOK
  <1>4. Own(i)
    BY <1>1, <1>2 DEF TypeOK, Own
  <1>5. rivals' \in [Importers -> BOOLEAN] /\ \A j \in Importers \ {i} : rivals'[j] = rivals[j]
    BY <1>1 DEF TypeOK
  <1> QED
    BY <1>1, <1>2, <1>3, <1>4, <1>5

(* A row that is reported, with a new position or without.                 *)
LEMMA ReportTells ==
  ASSUME ImportAssumption, TypeOK, NEW i \in Importers, NEW outcome \in Outcomes,
         Report(i, outcome), NEW n \in Nat, order' = [order EXCEPT ![i] = n]
  PROVE  /\ Own(i) /\ pc'[i] = "row" /\ row'[i] = row[i] + 1 /\ order'[i] = n
         /\ result'[i] = Append(result[i], outcome)
         /\ new' = new /\ first' = first /\ edits' = edits
  <1>1. /\ result' = [result EXCEPT ![i] = Append(@, outcome)] /\ row' = [row EXCEPT ![i] = @ + 1]
        /\ pc' = [pc EXCEPT ![i] = "row"]
        /\ UNCHANGED <<document, new, first, edits>>
    BY DEF Report
  <1>2. row[i] \in Nat /\ result[i] \in Seq(Outcomes)
    BY ImportFields
  <1>3. Append(result[i], outcome) \in Seq(Outcomes) /\ row[i] + 1 \in Nat
    BY <1>2
  <1>4. /\ result' \in [Importers -> Seq(Outcomes)] /\ row' \in [Importers -> Nat]
        /\ pc' \in [Importers -> {"start", "row", "commit", "done"}]
        /\ order' \in [Importers -> Nat]
    BY <1>1, <1>3 DEF TypeOK
  <1>5. /\ result'[i] = Append(result[i], outcome) /\ row'[i] = row[i] + 1
        /\ pc'[i] = "row" /\ order'[i] = n
    BY <1>1 DEF TypeOK
  <1>6. \A j \in Importers \ {i} :
          pc'[j] = pc[j] /\ row'[j] = row[j] /\ order'[j] = order[j] /\ result'[j] = result[j]
    BY <1>1 DEF TypeOK
  <1> QED
    BY <1>1, <1>4, <1>5, <1>6 DEF TypeOK, Own

LEMMA SameOrder ==
  ASSUME ImportAssumption, TypeOK, NEW i \in Importers, order' = order
  PROVE  order[i] \in Nat /\ order' = [order EXCEPT ![i] = order[i]]
  BY DEF TypeOK

LEMMA RejectTells ==
  ASSUME ImportAssumption, TypeOK, NEW i \in Importers, Reject(i)
  PROVE  /\ Own(i) /\ pc[i] = "row" /\ row[i] <= Len(document[i]) /\ pc'[i] = "row"
         /\ row'[i] = row[i] + 1 /\ order' = order /\ new' = new /\ first' = first
         /\ \E outcome \in {"invalid_json", "invalid_record", "duplicate", "invalid_patch"} :
              /\ result'[i] = Append(result[i], outcome)
              /\ outcome = "duplicate" => Imported(Current(i).id)
              /\ outcome = "invalid_patch" => Current(i).kind = "unsafe"
         /\ UNCHANGED <<tableVars, edits, errors, rivals>>
  <1>1. /\ pc[i] = "row" /\ row[i] <= Len(document[i]) /\ Report(i, Rejection(i))
        /\ Rejection(i) # "none" /\ UNCHANGED <<order, tableVars, errors, rivals>>
    BY DEF Reject
  <1>2. Rejection(i) \in {"invalid_json", "invalid_record", "duplicate", "invalid_patch"}
    BY <1>1, RejectionTells
  <1>3. Rejection(i) \in Outcomes
    BY <1>2 DEF Outcomes
  <1>4. /\ Own(i) /\ pc'[i] = "row" /\ row'[i] = row[i] + 1
        /\ result'[i] = Append(result[i], Rejection(i))
        /\ new' = new /\ first' = first /\ edits' = edits
    BY <1>1, <1>3, SameOrder, ReportTells
  <1> QED
    BY <1>1, <1>2, <1>4, RejectionTells

LEMMA LookTells ==
  ASSUME ImportAssumption, TypeOK, NEW i \in Importers, Look(i)
  PROVE  /\ Own(i) /\ pc[i] = "row" /\ row[i] <= Len(document[i]) /\ pc'[i] = "commit"
         /\ ~Imported(Current(i).id)
         /\ new'[i] = TRUE => Current(i).repository \notin repositories
         /\ row' = row /\ order' = order /\ result' = result /\ first' = first
         /\ UNCHANGED <<tableVars, edits, errors, rivals>>
  <1>1. /\ pc[i] = "row" /\ row[i] <= Len(document[i]) /\ Rejection(i) = "none"
        /\ new' = [new EXCEPT ![i] = Current(i).repository \notin repositories]
        /\ pc' = [pc EXCEPT ![i] = "commit"]
        /\ UNCHANGED <<document, row, order, result, tableVars, edits, errors, first, rivals>>
    BY DEF Look
  <1>2. new' \in [Importers -> BOOLEAN] /\ new'[i] = (Current(i).repository \notin repositories)
    BY <1>1 DEF TypeOK
  <1>3. \A j \in Importers \ {i} : new'[j] = new[j] /\ pc'[j] = pc[j]
    BY <1>1 DEF TypeOK
  <1>4. pc' \in [Importers -> {"start", "row", "commit", "done"}] /\ pc'[i] = "commit"
    BY <1>1 DEF TypeOK
  <1>5. Own(i)
    BY <1>1, <1>2, <1>3, <1>4 DEF TypeOK, Own
  <1> QED
    BY <1>1, <1>2, <1>4, <1>5, RejectionTells

LEMMA ConflictTells ==
  ASSUME ImportAssumption, TypeOK, NEW i \in Importers, Conflict(i)
  PROVE  /\ Own(i) /\ pc[i] = "commit" /\ pc'[i] = "row"
         /\ row'[i] = row[i] + 1 /\ order' = order /\ new' = new /\ first' = first
         /\ Violates(i)
         /\ \E outcome \in {"duplicate", "storage_conflict"} :
              /\ result'[i] = Append(result[i], outcome)
              /\ outcome = "duplicate" <=> Imported(Current(i).id)
         /\ UNCHANGED <<tableVars, edits, errors, rivals>>
  <1> DEFINE outcome == IF Imported(Current(i).id) THEN "duplicate" ELSE "storage_conflict"
  <1>1. /\ pc[i] = "commit" /\ Violates(i) /\ Report(i, outcome)
        /\ UNCHANGED <<order, tableVars, errors, rivals>>
    BY DEF Conflict
  <1>2. /\ outcome \in {"duplicate", "storage_conflict"}
        /\ outcome = "duplicate" <=> Imported(Current(i).id)
    OBVIOUS
  <1> HIDE DEF outcome
  <1>3. outcome \in Outcomes
    BY <1>2 DEF Outcomes
  <1>4. /\ Own(i) /\ pc'[i] = "row" /\ row'[i] = row[i] + 1
        /\ result'[i] = Append(result[i], outcome)
        /\ new' = new /\ first' = first /\ edits' = edits
    BY <1>1, <1>3, SameOrder, ReportTells
  <1> QED
    BY <1>1, <1>2, <1>4

LEMMA FailTells ==
  ASSUME ImportAssumption, TypeOK, NEW i \in Importers, DatabaseFails(i)
  PROVE  /\ Own(i) /\ pc[i] = "commit" /\ pc'[i] = "row"
         /\ row'[i] = row[i] + 1 /\ order' = order /\ new' = new /\ first' = first
         /\ result'[i] = Append(result[i], "storage_error")
         /\ errors' \in 0..MaxErrors
         /\ UNCHANGED <<tableVars, edits, rivals>>
  <1>1. /\ pc[i] = "commit" /\ Report(i, "storage_error") /\ errors < MaxErrors
        /\ errors' = errors + 1 /\ UNCHANGED <<order, tableVars, rivals>>
    BY DEF DatabaseFails
  <1>2. "storage_error" \in Outcomes
    BY DEF Outcomes
  <1>3. errors' \in 0..MaxErrors
    BY <1>1 DEF TypeOK, ImportAssumption
  <1> QED
    BY <1>1, <1>2, <1>3, SameOrder, ReportTells

LEMMA CommitTells ==
  ASSUME ImportAssumption, TypeOK, NEW i \in Importers, Commit(i)
  PROVE  /\ Own(i) /\ pc[i] = "commit" /\ pc'[i] = "row"
         /\ row'[i] = row[i] + 1 /\ order'[i] = order[i] + 1 /\ new' = new /\ first' = first
         /\ result'[i] = Append(result[i], "imported")
         /\ ~Imported(Current(i).id) /\ \A m \in members : m.at # order[i]
         /\ imports' = imports \cup
              {[id |-> Current(i).id, by |-> i, repository |-> Current(i).repository]}
         /\ repositories' = repositories \cup {Current(i).repository}
         /\ members' = members \cup {[at |-> order[i], task |-> Current(i).id]}
         /\ rivals' \in [Importers -> BOOLEAN] /\ rivals'[i] = rivals[i]
         /\ \A j \in Importers \ {i} :
              rivals'[j] = TRUE \/ (rivals'[j] = rivals[j] /\ pc[j] \notin {"row", "commit"})
         /\ UNCHANGED <<edits, errors>>
  <1>1. /\ pc[i] = "commit" /\ ~Violates(i) /\ Report(i, "imported")
        /\ order' = [order EXCEPT ![i] = order[i] + 1] /\ errors' = errors
        /\ imports' = imports \cup
              {[id |-> Current(i).id, by |-> i, repository |-> Current(i).repository]}
        /\ repositories' = repositories \cup {Current(i).repository}
        /\ members' = members \cup {[at |-> order[i], task |-> Current(i).id]}
        /\ rivals' = Disturbed(i)
    BY DEF Commit
  <1>2. "imported" \in Outcomes
    BY DEF Outcomes
  <1>3. order[i] + 1 \in Nat
    BY ImportFields
  <1>4. /\ Own(i) /\ pc'[i] = "row" /\ row'[i] = row[i] + 1 /\ order'[i] = order[i] + 1
        /\ result'[i] = Append(result[i], "imported")
        /\ new' = new /\ first' = first /\ edits' = edits
    BY <1>1, <1>2, <1>3, ReportTells
  <1>5. ~Imported(Current(i).id) /\ \A m \in members : m.at # order[i]
    BY <1>1 DEF Violates
  <1>6. \A j \in Importers : rivals[j] \in BOOLEAN
    BY ImportFields
  <1>7. rivals' \in [Importers -> BOOLEAN]
    BY <1>1, <1>6 DEF Disturbed
  <1>8. \A j \in Importers : rivals'[j] = (rivals[j] \/ (j # i /\ pc[j] \in {"row", "commit"}))
    BY <1>1 DEF Disturbed
  <1>9. rivals'[i] = rivals[i]
    BY <1>6, <1>8
  <1>10. \A j \in Importers \ {i} :
           rivals'[j] = TRUE \/ (rivals'[j] = rivals[j] /\ pc[j] \notin {"row", "commit"})
    BY <1>6, <1>8
  <1> QED
    BY <1>1, <1>4, <1>5, <1>7, <1>9, <1>10

LEMMA FinishTells ==
  ASSUME ImportAssumption, TypeOK, NEW i \in Importers, Finish(i)
  PROVE  /\ Own(i) /\ pc[i] = "row" /\ row[i] = Len(document[i]) + 1 /\ pc'[i] = "done"
         /\ UNCHANGED <<row, order, new, result, tableVars, edits, errors, first, rivals>>
  <1>1. /\ pc[i] = "row" /\ row[i] > Len(document[i]) /\ pc' = [pc EXCEPT ![i] = "done"]
        /\ UNCHANGED <<document, row, order, new, result, tableVars, edits, errors, first, rivals>>
    BY DEF Finish
  <1>2. row[i] = Len(document[i]) + 1
    BY <1>1, ImportFields
  <1> QED
    BY <1>1, <1>2 DEF TypeOK, Own

LEMMA RetryTells ==
  ASSUME ImportAssumption, TypeOK, NEW i \in Importers, Retry(i)
  PROVE  /\ Own(i) /\ pc[i] = "done" /\ pc'[i] = "start" /\ row'[i] = 1 /\ result'[i] = <<>>
         /\ UNCHANGED <<order, new, tableVars, edits, errors, first, rivals>>
  <1>1. /\ pc[i] = "done" /\ pc' = [pc EXCEPT ![i] = "start"] /\ row' = [row EXCEPT ![i] = 1]
        /\ result' = [result EXCEPT ![i] = <<>>]
        /\ UNCHANGED <<document, order, new, tableVars, edits, errors, first, rivals>>
    BY DEF Retry
  <1>2. <<>> \in Seq(Outcomes)
    OBVIOUS
  <1> QED
    BY <1>1, <1>2 DEF TypeOK, Own

LEMMA CuratorTells ==
  ASSUME ImportAssumption, TypeOK,
         \/ \E member \in Curated \cup {m.id : m \in imports}, index \in Positions :
               AddTask(member, index)
         \/ \E m \in members : RemoveTask(m)
  PROVE  /\ UNCHANGED <<document, requestVars, imports, repositories, errors>>
         /\ edits' = edits + 1 /\ edits' \in 0..MaxEdits
         /\ \/ /\ \E member \in Curated \cup {m.id : m \in imports}, index \in Positions :
                    /\ \A m \in members : m.task # member /\ m.at # index
                    /\ members' = members \cup {[at |-> index, task |-> member]}
               /\ rivals' = [j \in Importers |-> TRUE]
            \/ members' \subseteq members /\ rivals' = rivals
  <1>1. Edit
    BY DEF AddTask, RemoveTask
  <1>2. edits' = edits + 1 /\ edits' \in 0..MaxEdits
    BY <1>1 DEF Edit, TypeOK, ImportAssumption
  <1> QED
    BY <1>1, <1>2 DEF Edit, AddTask, RemoveTask

-----------------------------------------------------------------------------
(* What stays.                                                             *)

LEMMA OutcomeStays ==
  ASSUME ImportAssumption, TypeOK, NEW i \in Importers, NEW r \in DOMAIN result[i],
         OutcomeFits(i, r),
         document' = document, edits' = edits \/ edits' # 0,
         \A s \in DOMAIN result[i] : /\ s \in DOMAIN result'[i] /\ result'[i][s] = result[i][s]
                                     /\ RowsBefore(i, s)' = RowsBefore(i, s),
         first'[i] = first[i], rivals[i] = TRUE => rivals'[i] = TRUE,
         imports \subseteq imports',
         \A m \in members' : m \in members \/ edits' # 0 \/ ~Imported(m.task),
         \A m \in imports' : \/ m \in imports \/ m.by # i
                             \/ \E s \in DOMAIN result'[i] \ DOMAIN result[i] :
                                  result'[i][s] = "imported" /\ document[i][s].id = m.id
  PROVE  OutcomeFits(i, r)'
  <1> DEFINE id == document[i][r].id
  <1>1. /\ result'[i][r] = result[i][r] /\ document'[i][r] = document[i][r]
        /\ RowsBefore(i, r)' = RowsBefore(i, r)
    OBVIOUS
  <1>2. result[i][r] \in {"imported", "duplicate"} => Imported(id)' /\ Imported(id)
    BY DEF OutcomeFits, Imported
  <1>3. ASSUME result[i][r] = "imported"
        PROVE  /\ \E m \in imports' : m.id = id /\ m.by = i
               /\ \A m \in members' : m.task = id /\ edits' = 0
                    => m.at = first'[i] + Cardinality(RowsBefore(i, r))
    <2>1. \E m \in imports' : m.id = id /\ m.by = i
      BY <1>3 DEF OutcomeFits
    <2>2. ASSUME NEW m \in members', m.task = id, edits' = 0
          PROVE  m.at = first'[i] + Cardinality(RowsBefore(i, r))
      <3>1. m \in members /\ edits = 0
        BY <1>2, <1>3, <2>2
      <3> QED
        BY <1>3, <2>2, <3>1 DEF OutcomeFits
    <2> QED
      BY <2>1, <2>2
  <1>4. result[i][r] = "invalid_patch" => document[i][r].kind = "unsafe"
    BY DEF OutcomeFits
  <1>5. result[i][r] = "storage_conflict" => rivals'[i] = TRUE
    BY DEF OutcomeFits
  <1>6. ASSUME result[i][r] \in Retriable, NEW m \in imports', m.by = i, m.id = id
        PROVE  \E s \in DOMAIN result'[i] : s # r /\ result'[i][s] \in {"imported", "duplicate"}
                                            /\ document[i][s].id = m.id
    <2>1. CASE m \in imports
      <3>1. PICK s \in DOMAIN result[i] : s # r /\ result[i][s] \in {"imported", "duplicate"}
                                          /\ document[i][s].id = m.id
        BY <1>6, <2>1 DEF OutcomeFits
      <3> QED
        BY <3>1
    <2>2. CASE m \notin imports
      BY <1>6, <2>2
    <2> QED
      BY <2>1, <2>2
  <1> HIDE DEF id
  <1> QED
    BY <1>1, <1>2, <1>3, <1>4, <1>5, <1>6 DEF OutcomeFits, id

LEMMA RequestStays ==
  ASSUME ImportAssumption, TypeOK, NEW i \in Importers, RequestFits(i),
         document' = document, pc'[i] = pc[i], row'[i] = row[i], order'[i] = order[i],
         new'[i] = new[i], result'[i] = result[i], first'[i] = first[i],
         \A m \in imports' : m \in imports \/ m.by # i,
         pc[i] \in {"row", "commit"} =>
           \/ rivals'[i] = TRUE
           \/ rivals'[i] = rivals[i] /\ members' \subseteq members /\ repositories' = repositories
  PROVE  RequestFits(i)'
  <1>1. ImportedRows(i)' = ImportedRows(i) /\ Current(i)' = Current(i)
    BY DEF ImportedRows, Current
  <1> QED
    BY <1>1 DEF RequestFits

(* The outcomes of those who do not move.                                  *)
LEMMA OthersStay ==
  ASSUME ImportAssumption, TypeOK, NEW j \in Importers,
         \A r \in DOMAIN result[j] : OutcomeFits(j, r),
         document' = document, edits' = edits \/ edits' # 0, result'[j] = result[j],
         first'[j] = first[j], rivals[j] = TRUE => rivals'[j] = TRUE,
         imports \subseteq imports',
         \A m \in members' : m \in members \/ edits' # 0 \/ ~Imported(m.task),
         \A m \in imports' : m \in imports \/ m.by # j
  PROVE  \A r \in DOMAIN result'[j] : OutcomeFits(j, r)'
  <1>1. \A s \in DOMAIN result[j] : RowsBefore(j, s)' = RowsBefore(j, s)
    BY DEF RowsBefore
  <1> QED
    BY <1>1, OutcomeStays

(* The outcomes of one who reports.                                        *)
LEMMA ReporterStays ==
  ASSUME ImportAssumption, TypeOK, NEW i \in Importers,
         \A r \in DOMAIN result[i] : OutcomeFits(i, r),
         NEW outcome \in Outcomes, result'[i] = Append(result[i], outcome),
         document' = document, edits' = edits, first'[i] = first[i], rivals'[i] = rivals[i],
         imports \subseteq imports',
         \A m \in members' : m \in members \/ ~Imported(m.task),
         \A m \in imports' : \/ m \in imports
                             \/ outcome = "imported" /\ document[i][Len(result[i]) + 1].id = m.id,
         \A r \in Nat : r = Len(result[i]) + 1 => OutcomeFits(i, r)'
  PROVE  \A r \in DOMAIN result'[i] : OutcomeFits(i, r)'
  <1>1. result[i] \in Seq(Outcomes)
    BY ImportFields
  <1> DEFINE n == Len(result[i]) + 1
  <1>2. /\ n \in Nat /\ n \in DOMAIN result'[i] /\ n \notin DOMAIN result[i]
        /\ result'[i][n] = outcome
        /\ \A r \in DOMAIN result[i] : r \in DOMAIN result'[i] /\ result'[i][r] = result[i][r]
        /\ \A r \in DOMAIN result'[i] : r \in DOMAIN result[i] \/ r = n
    <2>1. /\ Len(result[i]) \in Nat /\ DOMAIN result[i] = 1..Len(result[i])
          /\ DOMAIN result'[i] = 1..(Len(result[i]) + 1)
          /\ result'[i][Len(result[i]) + 1] = outcome
          /\ \A r \in DOMAIN result[i] : r \in DOMAIN result'[i] /\ result'[i][r] = result[i][r]
          /\ \A r \in DOMAIN result'[i] : r \in DOMAIN result[i] \/ r = Len(result[i]) + 1
      BY <1>1, Appended
    <2> QED
      BY <2>1
  <1>3. \A m \in imports' : m \in imports \/ (outcome = "imported" /\ document[i][n].id = m.id)
    OBVIOUS
  <1>4. \A r \in Nat : r = n => OutcomeFits(i, r)'
    OBVIOUS
  <1> HIDE DEF n
  <1>5. \A s \in DOMAIN result[i] : RowsBefore(i, s)' = RowsBefore(i, s)
    BY Reported
  <1>6. \A m \in imports' : \/ m \in imports \/ m.by # i
                            \/ \E s \in DOMAIN result'[i] \ DOMAIN result[i] :
                                 result'[i][s] = "imported" /\ document[i][s].id = m.id
    BY <1>2, <1>3
  <1>7. ASSUME NEW r \in DOMAIN result[i] PROVE OutcomeFits(i, r)'
    <2>1. \A m \in members' : m \in members \/ edits' # 0 \/ ~Imported(m.task)
      OBVIOUS
    <2>2. edits' = edits \/ edits' # 0
      OBVIOUS
    <2>3. rivals[i] = TRUE => rivals'[i] = TRUE
      OBVIOUS
    <2>4. \A s \in DOMAIN result[i] : /\ s \in DOMAIN result'[i] /\ result'[i][s] = result[i][s]
                                      /\ RowsBefore(i, s)' = RowsBefore(i, s)
      BY <1>2, <1>5
    <2>5. OutcomeFits(i, r)
      OBVIOUS
    <2> QED
      BY <1>6, <2>1, <2>2, <2>3, <2>4, <2>5, OutcomeStays
  <1> QED
    BY <1>2, <1>4, <1>7

-----------------------------------------------------------------------------
(* Every step keeps the invariant.                                         *)

Steps(i) == Import(i) \/ DatabaseFails(i)

LEMMA OwnIsOwn ==
  ASSUME ImportAssumption, TypeOK, HasMaxima, NEW i \in Importers, Steps(i)
  PROVE  Own(i)
  BY StartTells, RejectTells, LookTells, ConflictTells, FailTells, CommitTells, FinishTells,
     RetryTells DEF Steps, Import

(* The types of the result: of a step that reports, and of the others.     *)
LEMMA ReportedTypes ==
  ASSUME ImportAssumption, TypeOK, NEW i \in Importers, RequestFits(i), Own(i),
         row[i] <= Len(document[i]), row'[i] = row[i] + 1,
         NEW outcome \in Outcomes, result'[i] = Append(result[i], outcome),
         imports' \subseteq [id : Ids, by : Importers, repository : Repositories],
         repositories' \subseteq Repositories,
         members' \subseteq [at : Nat, task : Ids \cup Curated],
         edits' \in 0..MaxEdits, errors' \in 0..MaxErrors, rivals' \in [Importers -> BOOLEAN]
  PROVE  TypeOK'
  <1>1. /\ row[i] \in Nat /\ Len(document[i]) \in Nat /\ result[i] \in Seq(Outcomes)
        /\ row[i] >= 1
    BY ImportFields
  <1>2. Len(result'[i]) = Len(result[i]) + 1 /\ Len(result[i]) \in Nat
    BY <1>1, Appended
  <1>3. row'[i] \in 1..(Len(document[i]) + 1) /\ Len(result'[i]) < row'[i]
    BY <1>1, <1>2 DEF RequestFits
  <1>4. \A j \in Importers : row'[j] \in 1..(Len(document'[j]) + 1) /\ Len(result'[j]) < row'[j]
    BY <1>3 DEF Own, TypeOK
  <1> QED
    BY <1>4 DEF TypeOK, Own

LEMMA TypesStay ==
  ASSUME ImportAssumption, TypeOK, NEW i \in Importers, Own(i),
         row'[i] = row[i], result'[i] = result[i], UNCHANGED <<tableVars, edits, errors>>,
         rivals' \in [Importers -> BOOLEAN]
  PROVE  TypeOK'
  <1>1. \A j \in Importers : row'[j] \in 1..(Len(document'[j]) + 1) /\ Len(result'[j]) < row'[j]
    BY DEF Own, TypeOK
  <1> QED
    BY <1>1 DEF TypeOK, Own, tableVars

LEMMA TypesKept ==
  ASSUME ImportAssumption, TypeOK, HasMaxima, NEW i \in Importers, RequestFits(i), Steps(i)
  PROVE  TypeOK'
  <1>1. /\ Own(i) /\ rivals \in [Importers -> BOOLEAN]
        /\ edits \in 0..MaxEdits /\ errors \in 0..MaxErrors
    BY OwnIsOwn DEF TypeOK
  <1>2. /\ imports \subseteq [id : Ids, by : Importers, repository : Repositories]
        /\ repositories \subseteq Repositories
        /\ members \subseteq [at : Nat, task : Ids \cup Curated]
    BY DEF TypeOK
  <1>3. CASE Start(i)
    BY <1>1, <1>3, StartTells, TypesStay
  <1>4. CASE Look(i)
    BY <1>1, <1>4, LookTells, TypesStay
  <1>5. CASE Finish(i)
    BY <1>1, <1>5, FinishTells, TypesStay
  <1>6. CASE Retry(i)
    <2>1. row'[i] = 1 /\ result'[i] = <<>> /\ UNCHANGED <<tableVars, edits, errors, rivals>>
      BY <1>6, RetryTells
    <2>2. row'[i] \in 1..(Len(document[i]) + 1) /\ Len(result'[i]) < row'[i]
      BY <2>1, ImportFields
    <2>3. \A j \in Importers : row'[j] \in 1..(Len(document'[j]) + 1) /\ Len(result'[j]) < row'[j]
      BY <1>1, <2>2 DEF Own, TypeOK
    <2> QED
      BY <1>1, <2>1, <2>3 DEF TypeOK, Own, tableVars
  <1>7. CASE Reject(i)
    <2>1. PICK outcome \in {"invalid_json", "invalid_record", "duplicate", "invalid_patch"} :
            result'[i] = Append(result[i], outcome)
      BY <1>7, RejectTells
    <2>2. outcome \in Outcomes
      BY DEF Outcomes
    <2>3. /\ row[i] <= Len(document[i]) /\ row'[i] = row[i] + 1
          /\ UNCHANGED <<tableVars, edits, errors, rivals>>
      BY <1>7, RejectTells
    <2> QED
      BY <1>1, <1>2, <2>1, <2>2, <2>3, ReportedTypes DEF tableVars
  <1>8. CASE Conflict(i)
    <2>1. PICK outcome \in {"duplicate", "storage_conflict"} :
            result'[i] = Append(result[i], outcome)
      BY <1>8, ConflictTells
    <2>2. outcome \in Outcomes
      BY DEF Outcomes
    <2>3. /\ pc[i] = "commit" /\ row'[i] = row[i] + 1
          /\ UNCHANGED <<tableVars, edits, errors, rivals>>
      BY <1>8, ConflictTells
    <2>4. row[i] <= Len(document[i])
      BY <2>3 DEF RequestFits
    <2> QED
      BY <1>1, <1>2, <2>1, <2>2, <2>3, <2>4, ReportedTypes DEF tableVars
  <1>9. CASE DatabaseFails(i)
    <2>1. /\ pc[i] = "commit" /\ row'[i] = row[i] + 1
          /\ result'[i] = Append(result[i], "storage_error") /\ errors' \in 0..MaxErrors
          /\ UNCHANGED <<tableVars, edits, rivals>>
      BY <1>9, FailTells
    <2>2. row[i] <= Len(document[i]) /\ "storage_error" \in Outcomes
      BY <2>1 DEF RequestFits, Outcomes
    <2> QED
      BY <1>1, <1>2, <2>1, <2>2, ReportedTypes DEF tableVars
  <1>10. CASE Commit(i)
    <2>1. /\ pc[i] = "commit" /\ row'[i] = row[i] + 1
          /\ result'[i] = Append(result[i], "imported")
          /\ imports' = imports \cup
               {[id |-> Current(i).id, by |-> i, repository |-> Current(i).repository]}
          /\ repositories' = repositories \cup {Current(i).repository}
          /\ members' = members \cup {[at |-> order[i], task |-> Current(i).id]}
          /\ rivals' \in [Importers -> BOOLEAN]
          /\ UNCHANGED <<edits, errors>>
      BY <1>10, CommitTells
    <2>2. row[i] <= Len(document[i]) /\ "imported" \in Outcomes
      BY <2>1 DEF RequestFits, Outcomes
    <2>3. Current(i).id \in Ids /\ Current(i).repository \in Repositories /\ order[i] \in Nat
      BY <2>2, CurrentFields, ImportFields
    <2>4. /\ imports' \subseteq [id : Ids, by : Importers, repository : Repositories]
          /\ repositories' \subseteq Repositories
          /\ members' \subseteq [at : Nat, task : Ids \cup Curated]
      BY <1>2, <2>1, <2>3
    <2> QED
      BY <1>1, <2>1, <2>2, <2>4, ReportedTypes
  <1> QED
    BY <1>3, <1>4, <1>5, <1>6, <1>7, <1>8, <1>9, <1>10 DEF Steps, Import

(* What a commit means for the tables.                                     *)
TablesFit == IdsDiffer /\ MembersKnown /\ PackIsAList /\ HasMaxima

LEMMA OneMore ==
  ASSUME ImportAssumption, TypeOK, HasMaxima, NEW x, x.at \in Nat, members' = members \cup {x}
  PROVE  HasMaxima'
  <1>1. \A m \in members : m.at \in Nat
    BY DEF TypeOK
  <1>2. ASSUME NEW S \in SUBSET (members \cup {x}), S # {}
        PROVE  \E m \in S : \A n \in S : n.at <= m.at
    <2>1. CASE S \subseteq members
      BY <1>2, <2>1 DEF HasMaxima
    <2>2. CASE S \ {x} = {}
      BY <1>2, <2>2
    <2>3. CASE x \in S /\ S \ {x} # {}
      <3>1. S \ {x} \in SUBSET members
        BY <1>2
      <3>2. PICK m \in S \ {x} : \A n \in S \ {x} : n.at <= m.at
        BY <2>3, <3>1 DEF HasMaxima
      <3>3. m.at \in Nat
        BY <1>1, <3>1
      <3>4. CASE x.at <= m.at
        BY <3>2, <3>4
      <3>5. CASE ~(x.at <= m.at)
        <4>1. \A n \in S \ {x} : n.at <= x.at
          BY <1>1, <3>1, <3>2, <3>3, <3>5
        <4> QED
          BY <2>3, <4>1
      <3> QED
        BY <3>4, <3>5
    <2> QED
      BY <1>2, <2>1, <2>2, <2>3
  <1> QED
    BY <1>2 DEF HasMaxima

LEMMA TablesKept ==
  ASSUME ImportAssumption, TypeOK, TablesFit, NEW i \in Importers, RequestFits(i), Steps(i)
  PROVE  TablesFit'
  <1>1. CASE UNCHANGED tableVars
    BY <1>1 DEF TablesFit, IdsDiffer, MembersKnown, PackIsAList, HasMaxima, Imported, tableVars
  <1>2. CASE Commit(i)
    <2> DEFINE x == [at |-> order[i], task |-> Current(i).id]
               y == [id |-> Current(i).id, by |-> i, repository |-> Current(i).repository]
    <2>1. /\ pc[i] = "commit" /\ ~Imported(Current(i).id) /\ \A m \in members : m.at # order[i]
          /\ imports' = imports \cup {y} /\ members' = members \cup {x}
      BY <1>2, CommitTells
    <2>2. /\ x.at = order[i] /\ x.task = Current(i).id /\ y.id = Current(i).id
          /\ order[i] \in Nat
      BY ImportFields
    <2>3. Current(i).id \notin Curated
      BY <2>1, CurrentFields DEF RequestFits
    <2> HIDE DEF x, y
    <2>4. IdsDiffer'
      BY <2>1, <2>2 DEF IdsDiffer, Imported, TablesFit
    <2>5. MembersKnown'
      BY <2>1, <2>2 DEF MembersKnown, Imported, TablesFit
    <2>6. \A m \in members : m.task # x.task /\ m.at # x.at
      BY <2>1, <2>2, <2>3 DEF MembersKnown, TablesFit
    <2>7. PackIsAList'
      BY <2>1, <2>6 DEF PackIsAList, TablesFit
    <2>8. HasMaxima'
      BY <2>1, <2>2, OneMore DEF TablesFit
    <2> QED
      BY <2>4, <2>5, <2>7, <2>8 DEF TablesFit
  <1>3. UNCHANGED tableVars \/ Commit(i)
    BY StartTells, RejectTells, LookTells, ConflictTells, FailTells, FinishTells,
       RetryTells DEF Steps, Import, TablesFit
  <1> QED
    BY <1>1, <1>2, <1>3

LEMMA NoRows ==
  ASSUME ImportAssumption, TypeOK, NEW i \in Importers, row[i] = 1, RequestFits(i)
  PROVE  DOMAIN result[i] = {} /\ Cardinality(ImportedRows(i)) = 0
  <1>1. Len(result[i]) = 0 /\ DOMAIN result[i] = 1..Len(result[i])
    BY ImportFields DEF RequestFits
  <1>2. ImportedRows(i) = {}
    BY <1>1 DEF ImportedRows
  <1> QED
    BY <1>1, <1>2, FS_EmptySet

(* One who reports a row that is not imported.                             *)
LEMMA ReportedRequest ==
  ASSUME ImportAssumption, TypeOK, NEW i \in Importers, RequestFits(i), Own(i),
         pc[i] \in {"row", "commit"}, pc'[i] = "row", row'[i] = row[i] + 1, order' = order,
         first' = first, NEW outcome \in Outcomes \ {"imported"},
         result'[i] = Append(result[i], outcome), UNCHANGED <<tableVars, rivals>>
  PROVE  RequestFits(i)'
  <1>1. Len(result'[i]) = Len(result[i]) + 1 /\ Len(result[i]) \in Nat
    BY ImportFields, Appended
  <1>2. ImportedRows(i)' = ImportedRows(i)
    BY Reported
  <1> QED
    BY <1>1, <1>2 DEF RequestFits, tableVars

LEMMA OwnRequest ==
  ASSUME ImportAssumption, TypeOK, TablesFit, NEW i \in Importers, RequestFits(i), Steps(i)
  PROVE  RequestFits(i)'
  <1>1. Own(i)
    BY OwnIsOwn DEF TablesFit
  <1>2. CASE Start(i)
    <2>1. /\ pc[i] = "start" /\ pc'[i] = "row" /\ order'[i] \in Nat /\ first'[i] = order'[i]
          /\ row' = row /\ result' = result /\ members' = members
          /\ \A m \in members : m.at < order'[i]
      BY <1>2, StartTells DEF TablesFit, tableVars
    <2>2. Cardinality(ImportedRows(i)) = 0 /\ ImportedRows(i)' = ImportedRows(i)
      BY <2>1, NoRows DEF RequestFits, ImportedRows
    <2> QED
      BY <2>1, <2>2 DEF RequestFits
  <1>3. CASE Reject(i)
    <2>1. PICK outcome \in {"invalid_json", "invalid_record", "duplicate", "invalid_patch"} :
            result'[i] = Append(result[i], outcome)
      BY <1>3, RejectTells
    <2>2. outcome \in Outcomes \ {"imported"}
      BY DEF Outcomes
    <2>3. /\ pc[i] = "row" /\ pc'[i] = "row" /\ row'[i] = row[i] + 1 /\ order' = order
          /\ first' = first /\ UNCHANGED <<tableVars, rivals>>
      BY <1>3, RejectTells
    <2> QED
      BY <1>1, <2>1, <2>2, <2>3, ReportedRequest
  <1>4. CASE Look(i)
    <2>1. /\ pc[i] = "row" /\ row[i] <= Len(document[i]) /\ pc'[i] = "commit"
          /\ ~Imported(Current(i).id)
          /\ new'[i] = TRUE => Current(i).repository \notin repositories
          /\ row' = row /\ order' = order /\ result' = result /\ first' = first
          /\ UNCHANGED <<tableVars, rivals>> /\ document' = document
      BY <1>1, <1>4, LookTells DEF Own
    <2>2. Current(i)' = Current(i) /\ ImportedRows(i)' = ImportedRows(i)
      BY <2>1 DEF Current, ImportedRows
    <2> QED
      BY <2>1, <2>2 DEF RequestFits, Imported, tableVars
  <1>5. CASE Conflict(i)
    <2>1. PICK outcome \in {"duplicate", "storage_conflict"} :
            result'[i] = Append(result[i], outcome)
      BY <1>5, ConflictTells
    <2>2. outcome \in Outcomes \ {"imported"}
      BY DEF Outcomes
    <2>3. /\ pc[i] = "commit" /\ pc'[i] = "row" /\ row'[i] = row[i] + 1 /\ order' = order
          /\ first' = first /\ UNCHANGED <<tableVars, rivals>>
      BY <1>5, ConflictTells
    <2> QED
      BY <1>1, <2>1, <2>2, <2>3, ReportedRequest
  <1>6. CASE DatabaseFails(i)
    <2>1. "storage_error" \in Outcomes \ {"imported"}
      BY DEF Outcomes
    <2>2. /\ pc[i] = "commit" /\ pc'[i] = "row" /\ row'[i] = row[i] + 1 /\ order' = order
          /\ first' = first /\ result'[i] = Append(result[i], "storage_error")
          /\ UNCHANGED <<tableVars, rivals>>
      BY <1>6, FailTells
    <2> QED
      BY <1>1, <2>1, <2>2, ReportedRequest
  <1>7. CASE Commit(i)
    <2>1. /\ pc[i] = "commit" /\ pc'[i] = "row" /\ row'[i] = row[i] + 1
          /\ order'[i] = order[i] + 1 /\ first' = first
          /\ result'[i] = Append(result[i], "imported") /\ rivals'[i] = rivals[i]
          /\ members' = members \cup {[at |-> order[i], task |-> Current(i).id]}
      BY <1>7, CommitTells
    <2>2. "imported" \in Outcomes
      BY DEF Outcomes
    <2>3. Len(result'[i]) = Len(result[i]) + 1 /\ Len(result[i]) \in Nat
      BY <2>1, <2>2, ImportFields, Appended
    <2>4. Cardinality(ImportedRows(i)') = Cardinality(ImportedRows(i)) + 1
      BY <2>1, <2>2, Reported
    <2>5. Cardinality(ImportedRows(i)) \in Nat /\ order[i] \in Nat /\ first[i] \in Nat
      BY CountedRows, ImportFields
    <2>6. order'[i] = first'[i] + Cardinality(ImportedRows(i)')
      BY <2>1, <2>4, <2>5 DEF RequestFits
    <2>7. ASSUME rivals'[i] = FALSE PROVE \A m \in members' : m.at < order'[i]
      <3>1. \A m \in members : m.at \in Nat /\ m.at < order[i]
        BY <2>1, <2>7 DEF RequestFits, TypeOK
      <3>2. [at |-> order[i], task |-> Current(i).id].at = order[i]
        OBVIOUS
      <3> QED
        BY <2>1, <2>5, <3>1, <3>2
    <2>8. Len(result'[i]) + 1 = row'[i]
      BY <2>1, <2>3 DEF RequestFits
    <2> QED
      BY <2>1, <2>6, <2>7, <2>8 DEF RequestFits
  <1>8. CASE Finish(i)
    <2>1. /\ pc[i] = "row" /\ row[i] = Len(document[i]) + 1 /\ pc'[i] = "done"
          /\ UNCHANGED <<row, order, result, first>> /\ document' = document
      BY <1>1, <1>8, FinishTells DEF Own
    <2>2. ImportedRows(i)' = ImportedRows(i)
      BY <2>1 DEF ImportedRows
    <2> QED
      BY <2>1, <2>2 DEF RequestFits
  <1>9. CASE Retry(i)
    <2>1. pc'[i] = "start" /\ row'[i] = 1 /\ result'[i] = <<>>
      BY <1>9, RetryTells
    <2>2. Len(result'[i]) + 1 = row'[i]
      BY <2>1
    <2> QED
      BY <2>1, <2>2 DEF RequestFits
  <1> QED
    BY <1>2, <1>3, <1>4, <1>5, <1>6, <1>7, <1>8, <1>9 DEF Steps, Import

(* What a step of one does to the requests and outcomes of another.        *)
LEMMA Elsewhere ==
  ASSUME ImportAssumption, TypeOK, TablesFit, NEW i \in Importers, RequestFits(i), Steps(i),
         NEW j \in Importers \ {i}
  PROVE  /\ imports \subseteq imports' /\ edits' = edits
         /\ \A m \in imports' : m \in imports \/ m.by = i
         /\ \A m \in members' : m \in members \/ ~Imported(m.task)
         /\ rivals[j] = TRUE => rivals'[j] = TRUE
         /\ pc[j] \in {"row", "commit"} =>
              \/ rivals'[j] = TRUE
              \/ (/\ rivals'[j] = rivals[j] /\ members' \subseteq members
                  /\ repositories' = repositories)
  <1>1. CASE UNCHANGED <<tableVars, edits>> /\ rivals'[j] = rivals[j]
    BY <1>1 DEF tableVars
  <1>2. CASE Commit(i)
    <2> DEFINE x == [at |-> order[i], task |-> Current(i).id]
               y == [id |-> Current(i).id, by |-> i, repository |-> Current(i).repository]
    <2>1. /\ ~Imported(Current(i).id) /\ edits' = edits
          /\ imports' = imports \cup {y} /\ members' = members \cup {x}
          /\ (rivals'[j] = TRUE \/ (rivals'[j] = rivals[j] /\ pc[j] \notin {"row", "commit"}))
      BY <1>2, CommitTells
    <2>2. x.task = Current(i).id /\ y.by = i
      OBVIOUS
    <2> HIDE DEF x, y
    <2> QED
      BY <2>1, <2>2
  <1>3. (UNCHANGED <<tableVars, edits>> /\ rivals'[j] = rivals[j]) \/ Commit(i)
    BY StartTells, RejectTells, LookTells, ConflictTells, FailTells, FinishTells,
       RetryTells DEF Steps, Import, TablesFit
  <1> QED
    BY <1>1, <1>2, <1>3

LEMMA RequestsKept ==
  ASSUME ImportAssumption, TypeOK, TablesFit, RequestsFit, NEW i \in Importers, Steps(i)
  PROVE  RequestsFit'
  <1>1. ASSUME NEW j \in Importers \ {i} PROVE RequestFits(j)'
    <2>1. Own(i) /\ RequestFits(i) /\ RequestFits(j)
      BY OwnIsOwn DEF RequestsFit, TablesFit
    <2>2. /\ document' = document /\ pc'[j] = pc[j] /\ row'[j] = row[j] /\ order'[j] = order[j]
          /\ new'[j] = new[j] /\ result'[j] = result[j] /\ first'[j] = first[j]
      BY <2>1 DEF Own
    <2>3. \A m \in imports' : m \in imports \/ m.by # j
      BY <2>1, Elsewhere
    <2> QED
      BY <2>1, <2>2, <2>3, Elsewhere, RequestStays
  <1>2. RequestFits(i)'
    BY OwnRequest DEF RequestsFit
  <1> QED
    BY <1>1, <1>2 DEF RequestsFit

(* The outcome of the row that is reported.                                *)
LEMMA NewOutcome ==
  ASSUME ImportAssumption, TypeOK, NEW i \in Importers, RequestFits(i),
         row[i] <= Len(document[i]), document' = document,
         NEW outcome \in Outcomes, result'[i] = Append(result[i], outcome)
  PROVE  \A r \in Nat : r = Len(result[i]) + 1 =>
           /\ document'[i][r] = Current(i) /\ result'[i][r] = outcome
           /\ RowsBefore(i, r)' = ImportedRows(i)
  <1>1. row[i] = Len(result[i]) + 1
    BY DEF RequestFits
  <1>2. result[i] \in Seq(Outcomes)
    BY ImportFields
  <1>3. result'[i][Len(result[i]) + 1] = outcome
    BY <1>2, Appended
  <1> QED
    BY <1>1, <1>3, Reported DEF Current

(* A conflict that nobody else can have caused does not happen.            *)
LEMMA ConflictsHaveRivals ==
  ASSUME ImportAssumption, TypeOK, NEW i \in Importers, RequestFits(i), pc[i] = "commit",
         Violates(i), ~Imported(Current(i).id)
  PROVE  rivals[i] = TRUE
  <1>1. rivals[i] \in BOOLEAN /\ new[i] \in BOOLEAN /\ order[i] \in Nat
    BY ImportFields
  <1>2. ASSUME rivals[i] = FALSE PROVE FALSE
    <2>1. \A m \in members : m.at \in Nat /\ m.at < order[i]
      BY <1>2 DEF RequestFits, TypeOK
    <2>2. \A m \in members : m.at # order[i]
      BY <1>1, <2>1
    <2>3. new[i] = TRUE => Current(i).repository \notin repositories
      BY <1>2 DEF RequestFits
    <2> QED
      BY <1>1, <2>2, <2>3 DEF Violates
  <1> QED
    BY <1>1, <1>2

LEMMA OwnOutcomes ==
  ASSUME ImportAssumption, TypeOK, TablesFit, NEW i \in Importers, RequestFits(i),
         \A r \in DOMAIN result[i] : OutcomeFits(i, r), Steps(i)
  PROVE  \A r \in DOMAIN result'[i] : OutcomeFits(i, r)'
  <1>1. Own(i) /\ document' = document
    BY OwnIsOwn DEF TablesFit, Own
  <1>2. CASE Start(i)
    <2>1. DOMAIN result'[i] = {}
      BY <1>2, StartTells, NoRows DEF RequestFits, TablesFit
    <2> QED
      BY <2>1
  <1>3. CASE Retry(i)
    BY <1>3, RetryTells
  <1>4. CASE Look(i) \/ Finish(i)
    <2>1. UNCHANGED <<document, result, first, tableVars, edits, rivals>>
      BY <1>1, <1>4, LookTells, FinishTells
    <2>2. ASSUME NEW r \in DOMAIN result[i] PROVE OutcomeFits(i, r)'
      <3>1. OutcomeFits(i, r)
        OBVIOUS
      <3> QED
        BY <2>1, <3>1 DEF OutcomeFits, RowsBefore, Imported, tableVars
    <2> QED
      BY <2>1, <2>2
  <1>5. CASE Reject(i)
    <2>1. PICK outcome \in {"invalid_json", "invalid_record", "duplicate", "invalid_patch"} :
            /\ result'[i] = Append(result[i], outcome)
            /\ outcome = "duplicate" => Imported(Current(i).id)
            /\ outcome = "invalid_patch" => Current(i).kind = "unsafe"
      BY <1>5, RejectTells
    <2>2. outcome \in Outcomes
      BY DEF Outcomes
    <2>3. /\ row[i] <= Len(document[i]) /\ first'[i] = first[i] /\ edits' = edits
          /\ rivals'[i] = rivals[i] /\ imports' = imports /\ members' = members
      BY <1>5, RejectTells DEF tableVars
    <2>4. ASSUME NEW r \in Nat, r = Len(result[i]) + 1 PROVE OutcomeFits(i, r)'
      <3>1. document'[i][r] = Current(i) /\ result'[i][r] = outcome
        BY <1>1, <2>1, <2>2, <2>3, <2>4, NewOutcome
      <3> QED
        BY <2>1, <2>3, <3>1 DEF OutcomeFits, Retriable, Imported
    <2> QED
      BY <1>1, <2>1, <2>2, <2>3, <2>4, ReporterStays
  <1>6. CASE Conflict(i)
    <2>1. PICK outcome \in {"duplicate", "storage_conflict"} :
            /\ result'[i] = Append(result[i], outcome)
            /\ outcome = "duplicate" <=> Imported(Current(i).id)
      BY <1>6, ConflictTells
    <2>2. outcome \in Outcomes
      BY DEF Outcomes
    <2>3. /\ pc[i] = "commit" /\ first'[i] = first[i] /\ edits' = edits /\ Violates(i)
          /\ rivals'[i] = rivals[i] /\ imports' = imports /\ members' = members
      BY <1>6, ConflictTells DEF tableVars
    <2>4. /\ row[i] <= Len(document[i])
          /\ \A m \in imports : m.by = i => m.id # Current(i).id
      BY <2>3 DEF RequestFits
    <2>5. outcome = "storage_conflict" => rivals[i] = TRUE
      BY <2>1, <2>3, ConflictsHaveRivals
    <2>6. ASSUME NEW r \in Nat, r = Len(result[i]) + 1 PROVE OutcomeFits(i, r)'
      <3>1. document'[i][r] = Current(i) /\ result'[i][r] = outcome
        BY <1>1, <2>1, <2>2, <2>4, <2>6, NewOutcome
      <3> QED
        BY <2>1, <2>3, <2>4, <2>5, <3>1 DEF OutcomeFits, Retriable, Imported
    <2> QED
      BY <1>1, <2>1, <2>2, <2>3, <2>6, ReporterStays
  <1>7. CASE DatabaseFails(i)
    <2>1. "storage_error" \in Outcomes
      BY DEF Outcomes
    <2>2. /\ pc[i] = "commit" /\ first'[i] = first[i] /\ edits' = edits
          /\ result'[i] = Append(result[i], "storage_error")
          /\ rivals'[i] = rivals[i] /\ imports' = imports /\ members' = members
      BY <1>7, FailTells DEF tableVars
    <2>3. /\ row[i] <= Len(document[i])
          /\ \A m \in imports : m.by = i => m.id # Current(i).id
      BY <2>2 DEF RequestFits
    <2>4. ASSUME NEW r \in Nat, r = Len(result[i]) + 1 PROVE OutcomeFits(i, r)'
      <3>1. document'[i][r] = Current(i) /\ result'[i][r] = "storage_error"
        BY <1>1, <2>1, <2>2, <2>3, <2>4, NewOutcome
      <3>2. result'[i][r] \notin {"imported", "duplicate", "invalid_patch", "storage_conflict"}
        BY <3>1
      <3>3. \A m \in imports' : m.by = i => m.id # document'[i][r].id
        BY <2>2, <2>3, <3>1
      <3> QED
        BY <3>2, <3>3 DEF OutcomeFits
    <2> QED
      BY <1>1, <2>1, <2>2, <2>4, ReporterStays
  <1>8. CASE Commit(i)
    <2> DEFINE x == [at |-> order[i], task |-> Current(i).id]
               y == [id |-> Current(i).id, by |-> i, repository |-> Current(i).repository]
    <2>1. /\ pc[i] = "commit" /\ first'[i] = first[i] /\ edits' = edits
          /\ result'[i] = Append(result[i], "imported") /\ ~Imported(Current(i).id)
          /\ rivals'[i] = rivals[i] /\ imports' = imports \cup {y} /\ members' = members \cup {x}
      BY <1>8, CommitTells
    <2>2. /\ row[i] <= Len(document[i]) /\ "imported" \in Outcomes
          /\ order[i] = first[i] + Cardinality(ImportedRows(i))
      BY <2>1 DEF RequestFits, Outcomes
    <2>3. /\ x.at = order[i] /\ x.task = Current(i).id /\ y.id = Current(i).id /\ y.by = i
          /\ Current(i).id \notin Curated
      BY <2>2, CurrentFields
    <2> HIDE DEF x, y
    <2>4. \A m \in members : m.task # Current(i).id
      BY <2>1, <2>3 DEF TablesFit, MembersKnown
    <2>5. ASSUME NEW r \in Nat, r = Len(result[i]) + 1
          PROVE  OutcomeFits(i, r)' /\ document[i][r].id = y.id
      <3>1. /\ document'[i][r] = Current(i) /\ result'[i][r] = "imported"
            /\ RowsBefore(i, r)' = ImportedRows(i)
        BY <1>1, <2>1, <2>2, <2>5, NewOutcome
      <3>2. \E m \in imports' : m.id = Current(i).id /\ m.by = i
        BY <2>1, <2>3
      <3>3. \A m \in members' : m.task = Current(i).id
              => m.at = first'[i] + Cardinality(RowsBefore(i, r)')
        <4>1. first'[i] + Cardinality(RowsBefore(i, r)') = order[i]
          BY <2>1, <2>2, <3>1
        <4> QED
          BY <2>1, <2>3, <2>4, <4>1
      <3>4. /\ result'[i][r] \notin {"invalid_patch", "storage_conflict"}
            /\ ~(result'[i][r] \in Retriable)
        BY <3>1 DEF Retriable
      <3>5. \E m \in imports' : m.id = document'[i][r].id /\ m.by = i
        BY <3>1, <3>2
      <3>6. /\ Imported(document[i][r].id)'
            /\ \A m \in members' : m.task = document'[i][r].id
                 => m.at = first'[i] + Cardinality(RowsBefore(i, r)')
        BY <3>1, <3>3, <3>5 DEF Imported
      <3>7. OutcomeFits(i, r)'
        BY <3>4, <3>5, <3>6 DEF OutcomeFits
      <3> QED
        BY <1>1, <2>3, <3>1, <3>7
    <2>6. \A m \in members' : m \in members \/ ~Imported(m.task)
      BY <2>1, <2>3
    <2>7. Len(result[i]) + 1 \in Nat
      BY ImportFields
    <2>8. \A m \in imports' :
            \/ m \in imports
            \/ ("imported" = "imported" /\ document[i][Len(result[i]) + 1].id = m.id)
      BY <2>1, <2>5, <2>7
    <2>9. \A r \in Nat : r = Len(result[i]) + 1 => OutcomeFits(i, r)'
      BY <2>5
    <2>10. imports \subseteq imports'
      BY <2>1
    <2> QED
      BY <1>1, <2>1, <2>2, <2>6, <2>8, <2>9, <2>10, ReporterStays
  <1> QED
    BY <1>2, <1>3, <1>4, <1>5, <1>6, <1>7, <1>8 DEF Steps, Import

LEMMA OutcomesKept ==
  ASSUME ImportAssumption, TypeOK, TablesFit, RequestsFit, OutcomesFit, NEW i \in Importers,
         Steps(i)
  PROVE  OutcomesFit'
  <1>1. ASSUME NEW j \in Importers \ {i} PROVE \A r \in DOMAIN result'[j] : OutcomeFits(j, r)'
    <2>1. /\ Own(i) /\ RequestFits(i)
          /\ \A r \in DOMAIN result[j] : OutcomeFits(j, r)
      BY OwnIsOwn DEF RequestsFit, OutcomesFit, TablesFit
    <2>2. document' = document /\ result'[j] = result[j] /\ first'[j] = first[j]
      BY <2>1 DEF Own
    <2>3. /\ imports \subseteq imports' /\ edits' = edits
          /\ \A m \in imports' : m \in imports \/ m.by = i
          /\ \A m \in members' : m \in members \/ ~Imported(m.task)
          /\ rivals[j] = TRUE => rivals'[j] = TRUE
      BY <2>1, Elsewhere
    <2>4. /\ \A m \in imports' : m \in imports \/ m.by # j
          /\ \A m \in members' : m \in members \/ edits' # 0 \/ ~Imported(m.task)
          /\ edits' = edits \/ edits' # 0
      BY <1>1, <2>3
    <2> QED
      BY <2>1, <2>2, <2>3, <2>4, OthersStay
  <1>2. \A r \in DOMAIN result'[i] : OutcomeFits(i, r)'
    BY OwnOutcomes DEF RequestsFit, OutcomesFit
  <1> QED
    BY <1>1, <1>2 DEF OutcomesFit

Curates ==
  \/ \E member \in Curated \cup {m.id : m \in imports}, index \in Positions : AddTask(member, index)
  \/ \E m \in members : RemoveTask(m)

LEMMA CuratorsKeep ==
  ASSUME ImportAssumption, ImportInv, Curates
  PROVE  ImportInv'
  <1>1. /\ TypeOK /\ RequestsFit /\ OutcomesFit /\ IdsDiffer /\ MembersKnown /\ PackIsAList
        /\ HasMaxima
    BY DEF ImportInv
  <1>2. /\ UNCHANGED <<document, requestVars, imports, repositories, errors>>
        /\ edits' = edits + 1 /\ edits' \in 0..MaxEdits
        /\ \/ /\ \E member \in Curated \cup {m.id : m \in imports}, index \in Positions :
                   /\ \A m \in members : m.task # member /\ m.at # index
                   /\ members' = members \cup {[at |-> index, task |-> member]}
              /\ rivals' = [j \in Importers |-> TRUE]
           \/ (members' \subseteq members /\ rivals' = rivals)
    BY <1>1, CuratorTells DEF Curates
  <1>3. edits' # 0
    BY <1>1, <1>2 DEF TypeOK, ImportAssumption
  <1>4. UNCHANGED <<document, pc, row, order, new, result, first, imports, repositories, errors>>
    BY <1>2 DEF requestVars
  <1>5. \A j \in Importers :
          /\ rivals[j] = TRUE => rivals'[j] = TRUE
          /\ \/ rivals'[j] = TRUE
             \/ (rivals'[j] = rivals[j] /\ members' \subseteq members)
    BY <1>2
  <1>6. RequestsFit'
    <2>1. ASSUME NEW j \in Importers PROVE RequestFits(j)'
      <3>1. RequestFits(j)
        BY <1>1 DEF RequestsFit
      <3> QED
        BY <1>1, <1>4, <1>5, <3>1, RequestStays
    <2> QED
      BY <2>1 DEF RequestsFit
  <1>7. OutcomesFit'
    <2>1. ASSUME NEW j \in Importers PROVE \A r \in DOMAIN result'[j] : OutcomeFits(j, r)'
      <3>1. \A r \in DOMAIN result[j] : OutcomeFits(j, r)
        BY <1>1 DEF OutcomesFit
      <3> QED
        BY <1>1, <1>3, <1>4, <1>5, <3>1, OthersStay
    <2> QED
      BY <2>1 DEF OutcomesFit
  <1>8. CASE members' \subseteq members /\ rivals' = rivals
    <2>1. TypeOK'
      BY <1>1, <1>2, <1>4, <1>8 DEF TypeOK
    <2>2. IdsDiffer' /\ MembersKnown' /\ PackIsAList' /\ HasMaxima'
      BY <1>1, <1>4, <1>8 DEF IdsDiffer, MembersKnown, PackIsAList, HasMaxima, Imported
    <2> QED
      BY <1>6, <1>7, <2>1, <2>2 DEF ImportInv
  <1>9. ASSUME NEW member \in Curated \cup {m.id : m \in imports}, NEW index \in Positions,
               \A m \in members : m.task # member /\ m.at # index,
               members' = members \cup {[at |-> index, task |-> member]},
               rivals' = [j \in Importers |-> TRUE]
        PROVE  ImportInv'
    <2> DEFINE x == [at |-> index, task |-> member]
    <2>1. /\ x.at = index /\ x.task = member /\ index \in Nat
          /\ x \in [at : Nat, task : Ids \cup Curated]
      BY <1>1 DEF ImportAssumption, TypeOK
    <2> HIDE DEF x
    <2>2. members' = members \cup {x} /\ \A m \in members : m.task # x.task /\ m.at # x.at
      BY <1>9, <2>1 DEF x
    <2>3. rivals' \in [Importers -> BOOLEAN]
      BY <1>9
    <2>4. TypeOK'
      BY <1>1, <1>2, <1>4, <2>1, <2>2, <2>3 DEF TypeOK
    <2>5. PackIsAList'
      BY <1>1, <2>2 DEF PackIsAList
    <2>6. member \in Curated \/ Imported(member)
      BY <1>9 DEF Imported
    <2>7. IdsDiffer' /\ MembersKnown'
      BY <1>1, <1>4, <2>1, <2>2, <2>6 DEF IdsDiffer, MembersKnown, Imported
    <2>8. HasMaxima'
      BY <1>1, <2>1, <2>2, OneMore
    <2> QED
      BY <1>6, <1>7, <2>4, <2>5, <2>7, <2>8 DEF ImportInv
  <1> QED
    BY <1>2, <1>8, <1>9

LEMMA AtFirst == ASSUME ImportAssumption, Init PROVE ImportInv
  <1>1. /\ document \in [Importers -> Documents] /\ pc = [i \in Importers |-> "start"]
        /\ row = [i \in Importers |-> 1] /\ order = [i \in Importers |-> 0] /\ first = order
        /\ new = [i \in Importers |-> FALSE] /\ result = [i \in Importers |-> <<>>]
        /\ imports = {} /\ repositories = {} /\ members = {} /\ edits = 0 /\ errors = 0
        /\ rivals = [i \in Importers |-> FALSE]
    BY DEF Init
  <1>2. TypeOK
    <2>1. \A i \in Importers : row[i] = 1 /\ result[i] = <<>>
      BY <1>1
    <2>2. \A i \in Importers : Len(document[i]) \in Nat
      <3>1. ASSUME NEW i \in Importers PROVE Len(document[i]) \in Nat
        <4>1. document[i] \in Seq(RowType(Ids, Repositories))
          BY <1>1 DEF ImportAssumption
        <4> QED
          BY <4>1
      <3> QED
        BY <3>1
    <2>3. \A i \in Importers : row[i] \in 1..(Len(document[i]) + 1) /\ Len(result[i]) < row[i]
      BY <2>1, <2>2
    <2>4. result \in [Importers -> Seq(Outcomes)]
      <3>1. <<>> \in Seq(Outcomes)
        OBVIOUS
      <3> QED
        BY <1>1, <3>1
    <2>5. edits \in 0..MaxEdits /\ errors \in 0..MaxErrors
      BY <1>1 DEF ImportAssumption
    <2> QED
      BY <1>1, <2>3, <2>4, <2>5 DEF TypeOK
  <1>3. \A i \in Importers : pc[i] = "start" /\ row[i] = 1 /\ result[i] = <<>>
    BY <1>1
  <1>4. RequestsFit /\ OutcomesFit
    <2>1. \A i \in Importers : Len(result[i]) + 1 = row[i] /\ DOMAIN result[i] = {}
      BY <1>3
    <2> QED
      BY <1>3, <2>1 DEF RequestsFit, RequestFits, OutcomesFit
  <1>5. IdsDiffer /\ MembersKnown /\ PackIsAList /\ HasMaxima
    BY <1>1 DEF IdsDiffer, MembersKnown, PackIsAList, HasMaxima
  <1> QED
    BY <1>2, <1>4, <1>5 DEF ImportInv

LEMMA Unmoved ==
  ASSUME ImportInv, UNCHANGED vars
  PROVE  ImportInv'
  <1>1. /\ document' = document /\ pc' = pc /\ row' = row /\ order' = order /\ new' = new
        /\ result' = result /\ first' = first /\ imports' = imports
        /\ repositories' = repositories /\ members' = members /\ edits' = edits
        /\ errors' = errors /\ rivals' = rivals
    BY DEF vars, requestVars, tableVars
  <1>2. TypeOK'
    BY <1>1 DEF ImportInv, TypeOK
  <1>3. RequestsFit'
    BY <1>1 DEF ImportInv, RequestsFit, RequestFits, ImportedRows, Current
  <1>4. OutcomesFit'
    BY <1>1 DEF ImportInv, OutcomesFit, OutcomeFits, RowsBefore, Imported
  <1>5. IdsDiffer' /\ MembersKnown' /\ PackIsAList' /\ HasMaxima'
    BY <1>1 DEF ImportInv, IdsDiffer, MembersKnown, PackIsAList, HasMaxima, Imported
  <1> QED
    BY <1>2, <1>3, <1>4, <1>5 DEF ImportInv

LEMMA OnEveryStep ==
  ASSUME ImportAssumption, ImportInv, [Next]_vars
  PROVE  ImportInv'
  <1>1. ASSUME NEW i \in Importers, Steps(i) PROVE ImportInv'
    <2>1. TypeOK /\ RequestsFit /\ RequestFits(i) /\ OutcomesFit /\ TablesFit /\ HasMaxima
      BY DEF ImportInv, TablesFit, RequestsFit
    <2>2. TypeOK' /\ RequestsFit' /\ OutcomesFit' /\ TablesFit'
      BY <1>1, <2>1, TypesKept, RequestsKept, OutcomesKept, TablesKept
    <2> QED
      BY <2>2 DEF ImportInv, TablesFit
  <1>2. (\E i \in Importers : Steps(i)) \/ Curates \/ UNCHANGED vars
    BY DEF Next, Steps, Curates, Terminated
  <1> QED
    BY <1>1, <1>2, CuratorsKeep, Unmoved

(* Whatever operators, curators and failures of the database come between  *)
(* the reads and the commits of an import, the invariant holds.            *)
THEOREM ImportsInductive ==
  ASSUME ImportAssumption
  PROVE  Spec => []ImportInv
  BY AtFirst, OnEveryStep, PTL DEF Spec

LEMMA WholeImports ==
  ASSUME ImportAssumption, ImportInv
  PROVE  ImportsAreWhole
  <1>1. /\ TypeOK /\ RequestsFit /\ OutcomesFit /\ IdsDiffer /\ PackIsAList
    BY DEF ImportInv
  <1>2. \A i \in Importers : \A r \in DOMAIN result[i] : OutcomeFits(i, r)
    BY <1>1 DEF OutcomesFit
  <1>3. \A i \in Importers : pc[i] = "done" => Len(result[i]) = Len(document[i])
    <2>1. ASSUME NEW i \in Importers, pc[i] = "done" PROVE Len(result[i]) = Len(document[i])
      <3>1. Len(result[i]) + 1 = Len(document[i]) + 1
        BY <1>1, <2>1 DEF RequestsFit, RequestFits
      <3> QED
        BY <1>1, <3>1, ImportFields
    <2> QED
      BY <2>1
  <1>4. SummaryIsTrue
    BY <1>1, <1>2, <1>3 DEF SummaryIsTrue, IdsDiffer, OutcomeFits
  <1>5. FailedRowsLeaveNothing
    BY <1>2 DEF FailedRowsLeaveNothing, OutcomeFits
  <1>6. AppendedInOrder
    BY <1>2 DEF AppendedInOrder, OutcomeFits, RowsBefore
  <1> QED
    BY <1>1, <1>4, <1>5, <1>6 DEF ImportsAreWhole

(* The summary of every request is true, a row that failed has left        *)
(* nothing behind, and the pack is a list in source order                  *)
(* (benchmark_imports/service.py).                                         *)
THEOREM ImportsWhole ==
  ASSUME ImportAssumption
  PROVE  Spec => []ImportsAreWhole
  <1>1. ImportInv => ImportsAreWhole
    BY WholeImports
  <1> QED
    BY <1>1, ImportsInductive, PTL

(* No import and no curator deletes a stored row, and members of the pack  *)
(* are removed by curators only.                                           *)
THEOREM ImportsAdd ==
  ASSUME ImportAssumption
  PROVE  Spec => ImportsOnlyAdd
  <1> DEFINE Adds == /\ imports \subseteq imports' /\ repositories \subseteq repositories'
                     /\ edits' = edits => members \subseteq members'
  <1>1. ASSUME ImportInv, [Next]_vars PROVE [Adds]_vars
    <2>1. TypeOK /\ HasMaxima /\ edits \in Nat
      BY <1>1 DEF ImportInv, TypeOK, ImportAssumption
    <2>2. ASSUME NEW i \in Importers, Steps(i) PROVE Adds
      <3>1. UNCHANGED tableVars \/ Commit(i)
        BY <2>1, <2>2, StartTells, RejectTells, LookTells, ConflictTells, FailTells, FinishTells,
           RetryTells DEF Steps, Import
      <3> QED
        BY <2>1, <3>1, CommitTells DEF tableVars
    <2>3. CASE Curates
      <3>1. UNCHANGED <<imports, repositories>> /\ edits' = edits + 1
        BY <2>1, <2>3, CuratorTells DEF Curates
      <3>2. edits' # edits
        BY <2>1, <3>1
      <3> QED
        BY <3>1, <3>2
    <2>4. (\E i \in Importers : Steps(i)) \/ Curates \/ UNCHANGED vars
      BY <1>1 DEF Next, Steps, Curates, Terminated
    <2> QED
      BY <2>2, <2>3, <2>4
  <1> QED
    BY <1>1, ImportsInductive, PTL DEF Spec, ImportsOnlyAdd

-----------------------------------------------------------------------------
(* Model comparison.                                                       *)

(* A model that is done, and one whose turn has not come.                  *)
Settled(m) ==
  /\ status[m] \in Ended /\ finished[m] = status[m]
  /\ status[m] = "failed" => explained[m] = TRUE
  /\ metric[m] = Unknown => status[m] = "failed"

Waiting(m) ==
  /\ status[m] = "queued" /\ metric[m] = Unknown /\ explained[m] = FALSE
  /\ finished[m] = Unknown

(* The model at work.                                                      *)
AtWork ==
  /\ finished[at] = Unknown
  /\ place = "start" => Waiting(at)
  /\ place = "run" => /\ status[at] \in Statuses
                      /\ status[at] \in {"queued", "running"} => metric[at] = Unknown
  /\ place \in {"evaluate", "finish"} =>
       /\ status[at] \in Ended
       /\ status[at] = "failed" => explained[at] = TRUE
       /\ metric[at] = Unknown => status[at] = "failed"

InTurn ==
  /\ place # "done" => answer = Unknown
  /\ place = "idle" =>
       /\ at = 1
       /\ \A m \in Models : status[m] = "none" /\ metric[m] = Unknown /\ finished[m] = Unknown
                            /\ explained[m] = FALSE
  /\ place \in {"start", "run", "evaluate", "finish"} =>
       /\ AtWork
       /\ \A m \in Models : (m < at => Settled(m)) /\ (m > at => Waiting(m))
  /\ place = "read" => \A m \in Models : Settled(m)
  /\ place = "done" => answer = "not ready" \/ \A m \in Models : Settled(m)

-----------------------------------------------------------------------------
(* The order of keys.                                                      *)

IsKey(k, n) == DOMAIN k = 1..n /\ \A i \in 1..n : k[i] \in Int

LEMMA LexTotal ==
  ASSUME NEW n \in {6, 7}, NEW k, NEW l, IsKey(k, n), IsKey(l, n), k[n] # l[n]
  PROVE  Before(k, l) \/ Before(l, k)
  <1> DEFINE Differ(i) == i \in 1..n /\ k[i] # l[i] /\ \A j \in 1..(i - 1) : k[j] = l[j]
  <1>1. \E i \in 1..n : Differ(i)
    <2>1. SUFFICES ASSUME \A i \in 1..n : ~Differ(i) PROVE FALSE
      OBVIOUS
    <2>2. k[1] = l[1]
      BY <2>1
    <2>3. k[2] = l[2]
      BY <2>1, <2>2
    <2>4. k[3] = l[3]
      BY <2>1, <2>2, <2>3
    <2>5. k[4] = l[4]
      BY <2>1, <2>2, <2>3, <2>4
    <2>6. k[5] = l[5]
      BY <2>1, <2>2, <2>3, <2>4, <2>5
    <2>7. k[6] = l[6]
      BY <2>1, <2>2, <2>3, <2>4, <2>5, <2>6
    <2>8. n = 7 => k[7] = l[7]
      BY <2>1, <2>2, <2>3, <2>4, <2>5, <2>6, <2>7
    <2> QED
      BY <2>7, <2>8
  <1>2. PICK i \in 1..n : Differ(i)
    BY <1>1
  <1>3. k[i] < l[i] \/ l[i] < k[i]
    BY <1>2 DEF IsKey
  <1> QED
    BY <1>2, <1>3 DEF Before, IsKey

LEMMA LexAsymmetric ==
  ASSUME NEW n \in Nat, NEW k, NEW l, IsKey(k, n), IsKey(l, n), Before(k, l), Before(l, k)
  PROVE  FALSE
  <1>1. PICK i \in 1..n : k[i] < l[i] /\ \A j \in 1..(i - 1) : k[j] = l[j]
    BY DEF Before, IsKey
  <1>2. PICK i2 \in 1..n : l[i2] < k[i2] /\ \A j \in 1..(i2 - 1) : l[j] = k[j]
    BY DEF Before, IsKey
  <1>3. CASE i < i2
    BY <1>1, <1>2, <1>3 DEF IsKey
  <1>4. CASE i2 < i
    BY <1>1, <1>2, <1>4 DEF IsKey
  <1>5. CASE i = i2
    BY <1>1, <1>2, <1>5 DEF IsKey
  <1> QED
    BY <1>3, <1>4, <1>5

LEMMA LexTransitive ==
  ASSUME NEW n \in Nat, NEW k, NEW l, NEW m, IsKey(k, n), IsKey(l, n), IsKey(m, n),
         Before(k, l), Before(l, m)
  PROVE  Before(k, m)
  <1>1. PICK i \in 1..n : k[i] < l[i] /\ \A j \in 1..(i - 1) : k[j] = l[j]
    BY DEF Before, IsKey
  <1>2. PICK i2 \in 1..n : l[i2] < m[i2] /\ \A j \in 1..(i2 - 1) : l[j] = m[j]
    BY DEF Before, IsKey
  <1>3. CASE i < i2
    <2>1. k[i] < m[i] /\ \A j \in 1..(i - 1) : k[j] = m[j]
      BY <1>1, <1>2, <1>3 DEF IsKey
    <2> QED
      BY <2>1 DEF Before, IsKey
  <1>4. CASE i2 < i
    <2>1. k[i2] < m[i2] /\ \A j \in 1..(i2 - 1) : k[j] = m[j]
      BY <1>1, <1>2, <1>4 DEF IsKey
    <2> QED
      BY <2>1 DEF Before, IsKey
  <1>5. CASE i = i2
    <2>1. k[i] < m[i] /\ \A j \in 1..(i - 1) : k[j] = m[j]
      BY <1>1, <1>2, <1>5 DEF IsKey
    <2> QED
      BY <2>1 DEF Before, IsKey
  <1> QED
    BY <1>3, <1>4, <1>5

(* The best of a set by the order of keys.                                 *)
Best(S, k) == {m \in S : \A n \in S \ {m} : Before(k[m], k[n])}

Keyed(S, k, n) ==
  /\ \A m \in S : IsKey(k[m], n)
  /\ \A a, b \in S : a # b => k[a][n] # k[b][n]

LEMMA OneIsBest ==
  ASSUME NEW n \in {6, 7}, NEW S, NEW k, Keyed(S, k, n), NEW v \in Best(S, k)
  PROVE  Best(S, k) = {v}
  <1>1. ASSUME NEW w \in Best(S, k), w # v PROVE FALSE
    <2>1. /\ v \in S /\ w \in S /\ n \in Nat
          /\ Before(k[v], k[w]) /\ Before(k[w], k[v])
      BY <1>1 DEF Best
    <2> QED
      BY <2>1, LexAsymmetric DEF Keyed
  <1> QED
    BY <1>1

LEMMA OneMoreToChoose ==
  ASSUME NEW n \in {6, 7}, NEW S, NEW x, NEW k, Keyed(S \cup {x}, k, n),
         S # {} => Best(S, k) # {}
  PROVE  Best(S \cup {x}, k) # {}
  <1> DEFINE T == S \cup {x}
  <1>1. CASE S = {}
    <2>1. x \in Best(T, k)
      BY <1>1 DEF Best
    <2> QED
      BY <2>1
  <1>2. CASE S # {} /\ x \in S
    <2>1. T = S
      BY <1>2
    <2> QED
      BY <1>2, <2>1
  <1>3. CASE S # {} /\ x \notin S
    <2>1. PICK w \in S : \A m \in S \ {w} : Before(k[w], k[m])
      BY <1>3 DEF Best
    <2>2. /\ x \in T /\ w \in T /\ x # w /\ n \in Nat
          /\ \A m \in T : IsKey(k[m], n)
          /\ k[x][n] # k[w][n]
      BY <1>3, <2>1 DEF Keyed
    <2>3. Before(k[w], k[x]) \/ Before(k[x], k[w])
      BY <2>2, LexTotal
    <2>4. CASE Before(k[w], k[x])
      <3>1. w \in Best(T, k)
        BY <2>1, <2>4 DEF Best
      <3> QED
        BY <3>1
    <2>5. CASE Before(k[x], k[w])
      <3>1. ASSUME NEW m \in S \ {w} PROVE Before(k[x], k[m])
        <4>1. Before(k[w], k[m]) /\ m \in T
          BY <2>1, <3>1
        <4> QED
          BY <2>2, <2>5, <4>1, LexTransitive
      <3>2. x \in Best(T, k)
        BY <2>5, <3>1 DEF Best
      <3> QED
        BY <3>2
    <2> QED
      BY <2>3, <2>4, <2>5
  <1> QED
    BY <1>1, <1>2, <1>3

LEMMA BestIsKept ==
  ASSUME NEW n \in {6, 7}, NEW S, NEW T, S \subseteq T, NEW k, NEW l, Keyed(S, k, n),
         \A m \in S : l[m] = k[m]
  PROVE  Best(S, k) \subseteq Best(T, l) \/ Best(T, l) \subseteq T \ S
  <1>1. ASSUME NEW v \in Best(T, l), v \in S PROVE Best(S, k) \subseteq Best(T, l)
    <2>1. v \in Best(S, k)
      BY <1>1 DEF Best
    <2> QED
      BY <2>1, <1>1, OneIsBest
  <1> QED
    BY <1>1 DEF Best

LEMMA SameKeysSameBest ==
  ASSUME NEW S, NEW k, NEW l, \A m \in S : l[m] = k[m]
  PROVE  Best(S, k) = Best(S, l)
  BY DEF Best

(* A key that is at most another one up to the name comes before it.       *)
LEMMA BetterComesFirst ==
  ASSUME NEW n \in {6, 7}, NEW k, NEW l, IsKey(k, n), IsKey(l, n), k[n] # l[n],
         \A i \in 1..(n - 1) : k[i] <= l[i], \E i \in 1..(n - 1) : k[i] < l[i]
  PROVE  Before(k, l)
  <1>1. SUFFICES ASSUME Before(l, k) PROVE FALSE
    BY LexTotal
  <1>2. PICK i \in 1..n : l[i] < k[i] /\ \A j \in 1..(i - 1) : l[j] = k[j]
    BY <1>1 DEF Before, IsKey
  <1>3. PICK i1 \in 1..(n - 1) : k[i1] < l[i1]
    OBVIOUS
  <1>4. k[i1] \in Int /\ l[i1] \in Int /\ k[i] \in Int /\ l[i] \in Int
    BY DEF IsKey
  <1>5. CASE i \in 1..(n - 1)
    <2>1. k[i] <= l[i]
      BY <1>5
    <2> QED
      BY <2>1, <1>2, <1>4
  <1>6. CASE i = n
    <2>1. l[i1] = k[i1]
      BY <1>2, <1>6
    <2> QED
      BY <2>1, <1>3, <1>4
  <1> QED
    BY <1>5, <1>6

-----------------------------------------------------------------------------
(* The keys of the awards.                                                 *)

Priced == {m \in Passing : metric[m].cost # Unknown}
Timed == {m \in Passing : metric[m].time # Unknown}
BestKeys == [m \in Passing |-> BestKey(m)]
CostKeys == [m \in Priced |-> CostKey(m)]
TimeKeys == [m \in Timed |-> TimeKey(m)]

LEMMA AwardsAreBest ==
  /\ BestPassing = Best(Passing, BestKeys)
  /\ LowestCost = Best(Priced, CostKeys)
  /\ Fastest = Best(Timed, TimeKeys)
  <1>1. BestPassing = Best(Passing, BestKeys)
    BY DEF BestPassing, Winner, Best, BestKeys
  <1>2. LowestCost = Best(Priced, CostKeys)
    BY DEF LowestCost, Winner, Best, CostKeys, Priced
  <1>3. Fastest = Best(Timed, TimeKeys)
    BY DEF Fastest, Winner, Best, TimeKeys, Timed
  <1> QED
    BY <1>1, <1>2, <1>3

Measures == (0..(Worst - 1)) \cup {Unknown}

LEMMA MetricFields ==
  ASSUME ComparisonAssumption, NEW x \in Metrics
  PROVE  /\ x \in MetricType /\ x.localization \in Measures /\ x.unrelated \in Measures
         /\ x.modified \in Measures /\ x.cost \in Measures /\ x.time \in Measures
  <1>1. {x.localization, x.unrelated, x.modified, x.cost, x.time} \subseteq Measures
    BY DEF ComparisonAssumption, Measures
  <1>2. x \in MetricType
    BY DEF ComparisonAssumption
  <1> QED
    BY <1>1, <1>2

LEMMA MeasuresAreOrdered ==
  ASSUME ComparisonAssumption, NEW x \in Measures, NEW y \in Measures
  PROVE  /\ OrWorst(x) \in Int /\ -OrZero(x) \in Int
         /\ x # Unknown => x \in Int /\ OrWorst(x) = x
         /\ AtLeast(x, y) => OrWorst(x) <= OrWorst(y)
         /\ AtLeast(x, y) /\ x # y => OrWorst(x) < OrWorst(y)
  <1>1. x = Unknown \/ (x \in Int /\ x < Worst /\ x # Unknown)
    BY DEF Measures, Worst
  <1>2. y = Unknown \/ (y \in Int /\ y < Worst /\ y # Unknown)
    BY DEF Measures, Worst
  <1>3. Worst \in Int
    BY DEF Worst
  <1>4. CASE x = Unknown
    BY <1>2, <1>3, <1>4 DEF OrWorst, OrZero, AtLeast
  <1>5. CASE x # Unknown
    BY <1>1, <1>2, <1>3, <1>5 DEF OrWorst, OrZero, AtLeast
  <1> QED
    BY <1>4, <1>5

LEMMA KeyFields ==
  ASSUME ComparisonAssumption, ComparisonTypeOK, NEW m \in Passing
  PROVE  /\ m \in Models /\ metric[m] \in Metrics
         /\ BestKey(m) \in Seq(Int) /\ Len(BestKey(m)) = 6 /\ IsKey(BestKey(m), 6)
         /\ BestKey(m)[6] = Name[m] /\ Name[m] \in Nat
  <1>1. m \in Models /\ metric[m] \in Metrics
    BY DEF Passing, ComparisonTypeOK
  <1>2. Name[m] \in Nat /\ Name[m] \in Int
    <2>1. Name \in [Models -> Nat]
      BY DEF ComparisonAssumption
    <2> QED
      BY <1>1, <2>1
  <1>3. \A v \in Measures : OrWorst(v) \in Int /\ -OrZero(v) \in Int
    BY MeasuresAreOrdered
  <1>4. \A a, b, c, d, e, f \in Int :
          /\ <<a, b, c, d, e, f>> \in Seq(Int) /\ Len(<<a, b, c, d, e, f>>) = 6
          /\ IsKey(<<a, b, c, d, e, f>>, 6) /\ <<a, b, c, d, e, f>>[6] = f
    BY DEF IsKey
  <1>5. /\ metric[m].localization \in Measures /\ metric[m].unrelated \in Measures
        /\ metric[m].modified \in Measures /\ metric[m].cost \in Measures
        /\ metric[m].time \in Measures
    BY <1>1, MetricFields
  <1>6. /\ -OrZero(metric[m].localization) \in Int /\ OrWorst(metric[m].unrelated) \in Int
        /\ OrWorst(metric[m].modified) \in Int /\ OrWorst(metric[m].cost) \in Int
        /\ OrWorst(metric[m].time) \in Int
    BY <1>3, <1>5
  <1> QED
    BY <1>1, <1>2, <1>4, <1>6 DEF BestKey

(* A key with one more criterion in front.                                 *)
LEMMA LongerKey ==
  ASSUME NEW c \in Int, NEW k \in Seq(Int), Len(k) = 6
  PROVE  /\ IsKey(<<c>> \o k, 7) /\ (<<c>> \o k)[1] = c
         /\ \A i \in 1..6 : (<<c>> \o k)[i + 1] = k[i]
  <1>1. <<c>> \in Seq(Int) /\ Len(<<c>>) = 1 /\ <<c>>[1] = c
    OBVIOUS
  <1> DEFINE l == <<c>> \o k
  <1>2. /\ l \in Seq(Int) /\ Len(l) = 7
        /\ \A i \in 1..7 : l[i] = IF i <= 1 THEN <<c>>[i] ELSE k[i - 1]
    <2>1. /\ <<c>> \o k \in Seq(Int) /\ Len(<<c>> \o k) = Len(<<c>>) + Len(k)
          /\ \A i \in 1..(Len(<<c>>) + Len(k)) :
               (<<c>> \o k)[i] = IF i <= Len(<<c>>) THEN <<c>>[i] ELSE k[i - Len(<<c>>)]
      BY <1>1, ConcatProperties
    <2> QED
      BY <1>1, <2>1
  <1>3. IsKey(l, 7)
    BY <1>2 DEF IsKey
  <1>4. l[1] = c
    BY <1>1, <1>2
  <1>5. ASSUME NEW i \in 1..6 PROVE l[i + 1] = k[i]
    <2>1. i + 1 \in 1..7 /\ ~(i + 1 <= 1) /\ (i + 1) - 1 = i
      OBVIOUS
    <2> QED
      BY <1>2, <2>1
  <1> QED
    BY <1>3, <1>4, <1>5

LEMMA KeysAreKeys ==
  ASSUME ComparisonAssumption, ComparisonTypeOK
  PROVE  /\ Keyed(Passing, BestKeys, 6) /\ Keyed(Priced, CostKeys, 7)
         /\ Keyed(Timed, TimeKeys, 7)
  <1>1. \A a, b \in Passing : a # b => Name[a] # Name[b]
    BY KeyFields DEF ComparisonAssumption
  <1>2. Keyed(Passing, BestKeys, 6)
    <2>1. \A m \in Passing : /\ IsKey(BestKeys[m], 6) /\ BestKeys[m][6] = Name[m]
      BY KeyFields DEF BestKeys
    <2> QED
      BY <1>1, <2>1 DEF Keyed
  <1>3. Keyed(Priced, CostKeys, 7)
    <2>1. ASSUME NEW m \in Priced
          PROVE  m \in Passing /\ IsKey(CostKeys[m], 7) /\ CostKeys[m][7] = Name[m]
      <3>1. m \in Passing /\ metric[m].cost # Unknown
        BY DEF Priced
      <3>2. metric[m].cost \in Int
        <4>1. metric[m] \in Metrics
          BY <3>1, KeyFields
        <4>2. metric[m].cost \in Measures
          BY <4>1, MetricFields
        <4> QED
          BY <3>1, <4>2, MeasuresAreOrdered
      <3>3. CostKeys[m] = <<metric[m].cost>> \o BestKey(m)
        BY DEF CostKeys, CostKey
      <3>4. /\ BestKey(m) \in Seq(Int) /\ Len(BestKey(m)) = 6
            /\ BestKey(m)[6] = Name[m] /\ 6 + 1 = 7 /\ 6 \in 1..6
        BY <3>1, KeyFields
      <3>5. /\ IsKey(<<metric[m].cost>> \o BestKey(m), 7)
            /\ (<<metric[m].cost>> \o BestKey(m))[6 + 1] = BestKey(m)[6]
        BY <3>2, <3>4, LongerKey
      <3> QED
        BY <3>1, <3>3, <3>4, <3>5
    <2> QED
      BY <1>1, <2>1 DEF Keyed
  <1>4. Keyed(Timed, TimeKeys, 7)
    <2>1. ASSUME NEW m \in Timed
          PROVE  m \in Passing /\ IsKey(TimeKeys[m], 7) /\ TimeKeys[m][7] = Name[m]
      <3>1. m \in Passing /\ metric[m].time # Unknown
        BY DEF Timed
      <3>2. metric[m].time \in Int
        <4>1. metric[m] \in Metrics
          BY <3>1, KeyFields
        <4>2. metric[m].time \in Measures
          BY <4>1, MetricFields
        <4> QED
          BY <3>1, <4>2, MeasuresAreOrdered
      <3>3. TimeKeys[m] = <<metric[m].time>> \o BestKey(m)
        BY DEF TimeKeys, TimeKey
      <3>4. /\ BestKey(m) \in Seq(Int) /\ Len(BestKey(m)) = 6
            /\ BestKey(m)[6] = Name[m] /\ 6 + 1 = 7 /\ 6 \in 1..6
        BY <3>1, KeyFields
      <3>5. /\ IsKey(<<metric[m].time>> \o BestKey(m), 7)
            /\ (<<metric[m].time>> \o BestKey(m))[6 + 1] = BestKey(m)[6]
        BY <3>2, <3>4, LongerKey
      <3> QED
        BY <3>1, <3>3, <3>4, <3>5
    <2> QED
      BY <1>1, <2>1 DEF Keyed
  <1> QED
    BY <1>2, <1>3, <1>4
LEMMA BestKeyIs ==
  ASSUME NEW m
  PROVE  /\ BestKey(m)[1] = -OrZero(metric[m].localization)
         /\ BestKey(m)[2] = OrWorst(metric[m].unrelated)
         /\ BestKey(m)[3] = OrWorst(metric[m].modified)
         /\ BestKey(m)[4] = OrWorst(metric[m].cost)
         /\ BestKey(m)[5] = OrWorst(metric[m].time)
  BY DEF BestKey

LEMMA DominatingIsBetter ==
  ASSUME ComparisonAssumption, ComparisonTypeOK, NEW m \in Passing, NEW n \in Passing,
         Dominates(n, m)
  PROVE  /\ \A i \in 1..5 : BestKey(n)[i] <= BestKey(m)[i]
         /\ \E i \in 1..5 : BestKey(n)[i] < BestKey(m)[i]
  <1> DEFINE a == metric[n]
             b == metric[m]
  <1>1. a \in Metrics /\ b \in Metrics
    BY KeyFields
  <1>2. /\ OrZero(a.localization) >= OrZero(b.localization)
        /\ AtLeast(a.unrelated, b.unrelated) /\ AtLeast(a.modified, b.modified)
        /\ AtLeast(a.cost, b.cost) /\ AtLeast(a.time, b.time)
        /\ [a EXCEPT !.localization = OrZero(@)] # [b EXCEPT !.localization = OrZero(@)]
    BY DEF Dominates
  <1>3. /\ a.passed = TRUE /\ a.applied = TRUE /\ b.passed = TRUE /\ b.applied = TRUE
        /\ a \in MetricType /\ b \in MetricType
    BY <1>1, MetricFields DEF Passing, MetricType
  <1>4. /\ \A v \in MetricType : [v EXCEPT !.localization = OrZero(@)] =
             [passed |-> v.passed, applied |-> v.applied, localization |-> OrZero(v.localization),
              unrelated |-> v.unrelated, modified |-> v.modified, cost |-> v.cost,
              time |-> v.time]
    BY DEF MetricType
  <1> HIDE DEF a, b
  <1>5. \/ OrZero(a.localization) # OrZero(b.localization) \/ a.unrelated # b.unrelated
        \/ a.modified # b.modified \/ a.cost # b.cost \/ a.time # b.time
    <2>1. /\ [a EXCEPT !.localization = OrZero(@)] =
               [passed |-> TRUE, applied |-> TRUE, localization |-> OrZero(a.localization),
                unrelated |-> a.unrelated, modified |-> a.modified, cost |-> a.cost,
                time |-> a.time]
          /\ [b EXCEPT !.localization = OrZero(@)] =
               [passed |-> TRUE, applied |-> TRUE, localization |-> OrZero(b.localization),
                unrelated |-> b.unrelated, modified |-> b.modified, cost |-> b.cost,
                time |-> b.time]
      BY <1>3, <1>4
    <2>2. [a EXCEPT !.localization = OrZero(@)] # [b EXCEPT !.localization = OrZero(@)]
      BY <1>2
    <2> QED
      BY <2>1, <2>2
  <1>6. /\ a.localization \in Measures /\ b.localization \in Measures
        /\ a.unrelated \in Measures /\ b.unrelated \in Measures
        /\ a.modified \in Measures /\ b.modified \in Measures
        /\ a.cost \in Measures /\ b.cost \in Measures
        /\ a.time \in Measures /\ b.time \in Measures
    BY <1>1, MetricFields
  <1>7. \A x, y \in Measures : AtLeast(x, y) => /\ OrWorst(x) <= OrWorst(y)
                                                /\ x # y => OrWorst(x) < OrWorst(y)
    BY MeasuresAreOrdered
  <1>8. \A x \in Measures : OrZero(x) \in Int
    BY DEF Measures, OrZero, Worst
  <1>9. /\ OrWorst(a.unrelated) <= OrWorst(b.unrelated)
        /\ OrWorst(a.modified) <= OrWorst(b.modified)
        /\ OrWorst(a.cost) <= OrWorst(b.cost) /\ OrWorst(a.time) <= OrWorst(b.time)
        /\ -OrZero(a.localization) <= -OrZero(b.localization)
    BY <1>2, <1>6, <1>7, <1>8
  <1>10. \/ -OrZero(a.localization) < -OrZero(b.localization)
         \/ OrWorst(a.unrelated) < OrWorst(b.unrelated)
         \/ OrWorst(a.modified) < OrWorst(b.modified)
         \/ OrWorst(a.cost) < OrWorst(b.cost) \/ OrWorst(a.time) < OrWorst(b.time)
    BY <1>2, <1>5, <1>6, <1>7, <1>8
  <1>11. /\ BestKey(n)[1] = -OrZero(a.localization) /\ BestKey(n)[2] = OrWorst(a.unrelated)
         /\ BestKey(n)[3] = OrWorst(a.modified) /\ BestKey(n)[4] = OrWorst(a.cost)
         /\ BestKey(n)[5] = OrWorst(a.time)
         /\ BestKey(m)[1] = -OrZero(b.localization) /\ BestKey(m)[2] = OrWorst(b.unrelated)
         /\ BestKey(m)[3] = OrWorst(b.modified) /\ BestKey(m)[4] = OrWorst(b.cost)
         /\ BestKey(m)[5] = OrWorst(b.time)
    BY BestKeyIs DEF a, b
  <1>12. ASSUME NEW i \in 1..5 PROVE BestKey(n)[i] <= BestKey(m)[i]
    <2>1. i = 1 \/ i = 2 \/ i = 3 \/ i = 4 \/ i = 5
      OBVIOUS
    <2> QED
      BY <1>9, <1>11, <2>1
  <1>13. \E i \in 1..5 : BestKey(n)[i] < BestKey(m)[i]
    BY <1>10, <1>11
  <1> QED
    BY <1>12, <1>13

LEMMA BestIsBest ==
  ASSUME ComparisonAssumption, ComparisonTypeOK
  PROVE  BestIsUndominated
  <1>1. SUFFICES ASSUME NEW m \in BestPassing
                 PROVE  /\ status[m] = "completed" /\ metric[m].passed
                        /\ \A n \in Passing : ~Dominates(n, m)
    BY DEF BestIsUndominated
  <1>2. m \in Passing /\ \A n \in Passing \ {m} : Before(BestKey(m), BestKey(n))
    BY <1>1 DEF BestPassing, Winner
  <1>3. ASSUME NEW n \in Passing, Dominates(n, m) PROVE FALSE
    <2>1. /\ \A i \in 1..5 : BestKey(n)[i] <= BestKey(m)[i]
          /\ \E i \in 1..5 : BestKey(n)[i] < BestKey(m)[i]
      BY <1>2, <1>3, DominatingIsBetter
    <2>2. /\ IsKey(BestKey(n), 6) /\ IsKey(BestKey(m), 6) /\ n \in Models /\ m \in Models
          /\ BestKey(n)[6] = Name[n] /\ BestKey(m)[6] = Name[m]
      BY <1>2, KeyFields
    <2>3. n # m
      BY <2>1, <2>2 DEF IsKey
    <2>4. BestKey(n)[6] # BestKey(m)[6]
      BY <2>2, <2>3 DEF ComparisonAssumption
    <2>5. 6 - 1 = 5 /\ 6 \in {6, 7} /\ 6 \in Nat
      OBVIOUS
    <2>6. Before(BestKey(n), BestKey(m))
      BY <2>1, <2>2, <2>4, <2>5, BetterComesFirst
    <2>7. Before(BestKey(m), BestKey(n))
      BY <1>2, <2>3
    <2> QED
      BY <2>2, <2>5, <2>6, <2>7, LexAsymmetric
  <1> QED
    BY <1>2, <1>3 DEF Passing

(* An award goes to somebody whenever there is a choice: the keys of a     *)
(* finite set have a least one, which is shown as those who have passed    *)
(* become more, one by one.  The last of them may be marked failed after   *)
(* all, so that it is said of those before the model at work.              *)
SomeoneWins ==
  /\ Passing # {} => BestPassing # {}
  /\ Priced # {} => LowestCost # {}

EarlierWins ==
  /\ Passing \ {at} # {} => Best(Passing \ {at}, BestKeys) # {}
  /\ Priced \ {at} # {} => Best(Priced \ {at}, CostKeys) # {}

LEMMA EarlierAndLast ==
  ASSUME ComparisonAssumption, ComparisonTypeOK, EarlierWins
  PROVE  SomeoneWins
  <1>0. /\ Keyed(Passing, BestKeys, 6) /\ Keyed(Priced, CostKeys, 7)
        /\ BestPassing = Best(Passing, BestKeys) /\ LowestCost = Best(Priced, CostKeys)
    BY KeysAreKeys, AwardsAreBest
  <1>1. ASSUME NEW n \in {6, 7}, NEW S, NEW k, Keyed(S, k, n),
               S \ {at} # {} => Best(S \ {at}, k) # {}, S # {}
        PROVE  Best(S, k) # {}
    <2>1. CASE at \in S
      <3>1. S = (S \ {at}) \cup {at}
        BY <2>1
      <3> QED
        BY <1>1, <3>1, OneMoreToChoose
    <2>2. CASE at \notin S
      <3>1. S \ {at} = S
        BY <2>2
      <3> QED
        BY <1>1, <3>1
    <2> QED
      BY <2>1, <2>2
  <1> QED
    BY <1>0, <1>1 DEF EarlierWins, SomeoneWins

LEMMA CheapestIsOne ==
  ASSUME ComparisonAssumption, ComparisonTypeOK, SomeoneWins
  PROVE  CheapestIsCheapest
  <1>0. /\ Keyed(Priced, CostKeys, 7) /\ 7 \in {6, 7} /\ 7 \in Nat
        /\ LowestCost = Best(Priced, CostKeys)
    BY KeysAreKeys, AwardsAreBest
  <1>1. ASSUME Priced # {} PROVE Cardinality(LowestCost) = 1
    <2>1. PICK v : v \in LowestCost
      BY <1>1 DEF SomeoneWins
    <2>2. LowestCost = {v}
      BY <1>0, <2>1, OneIsBest
    <2> QED
      BY <2>2, FS_Singleton
  <1>2. \A v \in Priced : /\ v \in Passing /\ metric[v].cost \in Int
                          /\ CostKeys[v] = <<metric[v].cost>> \o BestKey(v)
                          /\ CostKeys[v][1] = metric[v].cost
                          /\ \A i \in 1..6 : CostKeys[v][i + 1] = BestKey(v)[i]
    <2>1. SUFFICES ASSUME NEW v \in Priced
                   PROVE  /\ v \in Passing /\ metric[v].cost \in Int
                          /\ CostKeys[v] = <<metric[v].cost>> \o BestKey(v)
                          /\ CostKeys[v][1] = metric[v].cost
                          /\ \A i \in 1..6 : CostKeys[v][i + 1] = BestKey(v)[i]
      OBVIOUS
    <2>2. v \in Passing /\ metric[v].cost # Unknown
      BY DEF Priced
    <2>3. metric[v] \in Metrics /\ BestKey(v) \in Seq(Int) /\ Len(BestKey(v)) = 6
      BY <2>2, KeyFields
    <2>4. metric[v].cost \in Measures
      BY <2>3, MetricFields
    <2>5. metric[v].cost \in Int
      BY <2>2, <2>4, MeasuresAreOrdered
    <2>6. CostKeys[v] = <<metric[v].cost>> \o BestKey(v)
      BY DEF CostKeys, CostKey
    <2> QED
      BY <2>2, <2>3, <2>5, <2>6, LongerKey
  <1>3. ASSUME NEW m \in LowestCost, NEW n \in Priced
        PROVE  /\ metric[m].cost <= metric[n].cost
               /\ metric[m].cost = metric[n].cost => ~Dominates(n, m)
    <2>1. m \in Priced
      BY <1>0, <1>3 DEF Best
    <2> DEFINE k == CostKeys[m]
               l == CostKeys[n]
    <2>2. IsKey(k, 7) /\ IsKey(l, 7)
      BY <1>0, <2>1 DEF Keyed
    <2>3. CASE m = n
      <3>1. ASSUME Dominates(n, m) PROVE FALSE
        <4>1. \E i \in 1..5 : BestKey(n)[i] < BestKey(m)[i]
          BY <1>2, <2>1, <3>1, DominatingIsBetter
        <4>2. IsKey(BestKey(m), 6)
          BY <1>2, <2>1, KeyFields
        <4> QED
          BY <2>3, <4>1, <4>2 DEF IsKey
      <3>2. metric[m].cost \in Int
        BY <1>2, <2>1
      <3> QED
        BY <2>3, <3>1, <3>2
    <2>4. CASE m # n
      <3>1. Before(k, l)
        BY <1>0, <1>3, <2>4 DEF Best
      <3>2. k[1] <= l[1]
        BY <2>2, <3>1 DEF Before, IsKey
      <3>3. ASSUME metric[m].cost = metric[n].cost, Dominates(n, m) PROVE FALSE
        <4>1. /\ \A i \in 1..5 : BestKey(n)[i] <= BestKey(m)[i]
              /\ \E i \in 1..5 : BestKey(n)[i] < BestKey(m)[i]
          BY <1>2, <2>1, <3>3, DominatingIsBetter
        <4>2. /\ k[1] = l[1] /\ k[1] \in Int
              /\ \A i \in 1..5 : k[i + 1] = BestKey(m)[i] /\ l[i + 1] = BestKey(n)[i]
          <5>1. /\ metric[m].cost \in Int /\ CostKeys[m][1] = metric[m].cost
                /\ \A i \in 1..6 : CostKeys[m][i + 1] = BestKey(m)[i]
            BY <1>2, <2>1
          <5>2. /\ CostKeys[n][1] = metric[n].cost
                /\ \A i \in 1..6 : CostKeys[n][i + 1] = BestKey(n)[i]
            BY <1>2
          <5>3. \A i \in 1..5 : i \in 1..6
            OBVIOUS
          <5> QED
            BY <5>1, <5>2, <5>3, <3>3
        <4>3. \A i \in 1..6 : l[i] <= k[i]
          <5>1. SUFFICES ASSUME NEW i \in 1..6 PROVE l[i] <= k[i]
            OBVIOUS
          <5>2. i = 1 \/ (i - 1 \in 1..5 /\ (i - 1) + 1 = i)
            OBVIOUS
          <5>3. CASE i = 1
            BY <4>2, <5>3
          <5>4. ASSUME NEW j \in 1..5, j + 1 = i PROVE l[i] <= k[i]
            BY <4>1, <4>2, <5>4
          <5> QED
            BY <5>2, <5>3, <5>4
        <4>4. \E i \in 1..6 : l[i] < k[i]
          <5>1. PICK i \in 1..5 : BestKey(n)[i] < BestKey(m)[i]
            BY <4>1
          <5>2. i + 1 \in 1..6 /\ l[i + 1] < k[i + 1]
            BY <4>2, <5>1
          <5> QED
            BY <5>2
        <4>5. l[7] # k[7]
          BY <1>0, <2>1, <2>4 DEF Keyed
        <4>6. 7 - 1 = 6
          OBVIOUS
        <4>7. Before(l, k)
          BY <1>0, <2>2, <4>3, <4>4, <4>5, <4>6, BetterComesFirst
        <4> QED
          BY <1>0, <2>2, <3>1, <4>7, LexAsymmetric
      <3> QED
        BY <1>2, <2>1, <3>2, <3>3
    <2> QED
      BY <2>3, <2>4
  <1> QED
    BY <1>1, <1>3 DEF CheapestIsCheapest, Priced
-----------------------------------------------------------------------------
(* The steps of a request.                                                 *)

ComparisonInv == ComparisonTypeOK /\ InTurn /\ EarlierWins

LEMMA RosterFields ==
  ASSUME ComparisonAssumption
  PROVE  /\ 1 \in Models /\ Models \subseteq Nat
         /\ \A m \in Models : m + 1 \notin Models => \A n \in Models : n <= m
  <1>1. PICK n : n = Cardinality(Models)
    OBVIOUS
  <1>2. n \in Nat /\ n >= 2 /\ Models = 1..n
    BY <1>1, FS_CardinalityType DEF ComparisonAssumption
  <1> QED
    BY <1>2

LEMMA EndedStatus ==
  ASSUME ComparisonAssumption, \A m \in Models : status[m] \in Ended
  PROVE  ComparisonStatus(status) \in {"completed", "partial_failure", "failed"}
  <1> DEFINE seen == {status[m] : m \in Models}
  <1>1. seen \subseteq Ended /\ seen # {}
    BY RosterFields
  <1>2. seen # {"queued"} /\ seen \cap {"queued", "running"} = {}
    BY <1>1 DEF Ended
  <1> QED
    BY <1>2 DEF ComparisonStatus

LEMMA TypeKept ==
  ASSUME ComparisonAssumption, ComparisonTypeOK, InTurn, [ComparisonNext]_comparisonVars
  PROVE  ComparisonTypeOK'
  <1>0. /\ place \in {"idle", "start", "run", "evaluate", "finish", "read", "done"}
        /\ at \in Models /\ ready \in BOOLEAN
        /\ status \in [Models -> Statuses \cup {"none"}]
        /\ metric \in [Models -> Metrics \cup {Unknown}]
        /\ explained \in [Models -> BOOLEAN]
        /\ finished \in [Models -> Ended \cup {Unknown}] /\ reason \in BOOLEAN
        /\ answer \in {"not ready", "completed", "partial_failure", "failed", Unknown}
    BY DEF ComparisonTypeOK
  <1>1. CASE UNCHANGED comparisonVars
    BY <1>0, <1>1 DEF comparisonVars, ComparisonTypeOK
  <1>2. CASE Refuse
    BY <1>0, <1>2 DEF Refuse, ComparisonTypeOK
  <1>3. CASE Enlist
    BY <1>0, <1>3 DEF Enlist, ComparisonTypeOK, Statuses
  <1>4. CASE Announce \/ KeepMetric \/ EditTask
    BY <1>0, <1>4 DEF Announce, KeepMetric, EditTask, ComparisonTypeOK
  <1>5. CASE Begin
    BY <1>0, <1>5 DEF Begin, ComparisonTypeOK, Statuses
  <1>6. CASE Raise
    <2>1. status' \in [Models -> Statuses \cup {"none"}] /\ explained' \in [Models -> BOOLEAN]
      BY <1>0, <1>6 DEF Raise, FailRun, Statuses
    <2>2. /\ place' = "evaluate" /\ reason' = TRUE
          /\ UNCHANGED <<at, ready, metric, finished, answer>>
      BY <1>6 DEF Raise
    <2> QED
      BY <1>0, <2>1, <2>2 DEF ComparisonTypeOK
  <1>7. CASE Complete \/ Return \/ HandleFailure \/ Classify
    <2>1. status' \in [Models -> Statuses \cup {"none"}]
      BY <1>0, <1>7 DEF Complete, Return, HandleFailure, Classify, Statuses
    <2>2. explained' \in [Models -> BOOLEAN] /\ reason' \in BOOLEAN
      BY <1>0, <1>7 DEF Complete, Return, HandleFailure, Classify
    <2>3. /\ place' \in {place, "evaluate"}
          /\ UNCHANGED <<at, ready, metric, finished, answer>>
      BY <1>7 DEF Complete, Return, HandleFailure, Classify
    <2> QED
      BY <1>0, <2>1, <2>2, <2>3 DEF ComparisonTypeOK
  <1>12. CASE Evaluate \/ ReturnFailed
    <2>1. \/ metric' = metric
          \/ \E judged \in Metrics : metric' = [metric EXCEPT ![at] = judged]
      BY <1>12 DEF Evaluate, ReturnFailed, Recomputed
    <2>2. metric' \in [Models -> Metrics \cup {Unknown}]
      BY <1>0, <2>1
    <2>3. /\ place' \in {place, "evaluate"}
          /\ UNCHANGED <<at, ready, status, explained, finished, reason, answer>>
      BY <1>12 DEF Evaluate, ReturnFailed
    <2> QED
      BY <1>0, <2>2, <2>3 DEF ComparisonTypeOK
  <1>8. CASE EvaluateFailed
    <2>1. PICK judged \in Metrics : metric' = [metric EXCEPT ![at] = judged]
      BY <1>8 DEF EvaluateFailed
    <2>2. metric' \in [Models -> Metrics \cup {Unknown}]
      BY <1>0, <2>1
    <2>3. /\ place' = "finish"
          /\ UNCHANGED <<at, ready, status, explained, finished, reason, answer>>
      BY <1>8 DEF EvaluateFailed
    <2> QED
      BY <1>0, <2>2, <2>3 DEF ComparisonTypeOK
  <1>9. CASE EvaluationRaises
    <2>1. PICK judged \in Metrics \cup {Unknown} : metric' = [metric EXCEPT ![at] = judged]
      BY <1>9 DEF EvaluationRaises
    <2>2. metric' \in [Models -> Metrics \cup {Unknown}]
      BY <1>0, <2>1
    <2>3. status' \in [Models -> Statuses \cup {"none"}] /\ explained' \in [Models -> BOOLEAN]
      BY <1>0, <1>9 DEF EvaluationRaises, FailRun, Statuses
    <2>4. /\ place' = "finish" /\ reason' = TRUE
          /\ UNCHANGED <<at, ready, finished, answer>>
      BY <1>9 DEF EvaluationRaises
    <2> QED
      BY <1>0, <2>2, <2>3, <2>4 DEF ComparisonTypeOK
  <1>10. CASE FinishModel
    <2>1. place = "finish" /\ finished' = [finished EXCEPT ![at] = status[at]]
      BY <1>10 DEF FinishModel
    <2>2. status[at] \in Ended
      BY <2>1 DEF InTurn, AtWork
    <2>3. finished' \in [Models -> Ended \cup {Unknown}]
      BY <1>0, <2>1, <2>2
    <2>4. /\ UNCHANGED <<ready, status, metric, explained, reason, answer>>
          /\ \/ at + 1 \in Models /\ at' = at + 1 /\ place' = "start"
             \/ at' = at /\ place' = "read"
      BY <1>10 DEF FinishModel
    <2> QED
      BY <1>0, <2>3, <2>4 DEF ComparisonTypeOK
  <1>11. CASE Reply
    <2>1. place = "read" /\ answer' = ComparisonStatus(status)
      BY <1>11 DEF Reply
    <2>2. \A m \in Models : status[m] \in Ended
      BY <2>1 DEF InTurn, Settled
    <2>3. answer' \in {"completed", "partial_failure", "failed"}
      BY <2>1, <2>2, EndedStatus
    <2>4. place' = "done" /\ UNCHANGED <<at, ready, status, metric, explained, finished, reason>>
      BY <1>11 DEF Reply
    <2> QED
      BY <1>0, <2>3, <2>4 DEF ComparisonTypeOK
  <1> QED
    BY <1>1, <1>2, <1>3, <1>4, <1>5, <1>6, <1>7, <1>8, <1>9, <1>10, <1>11, <1>12
    DEF ComparisonNext, Execute, InStartRun, ComparisonEnded

(* Only the row of the model at work changes.                              *)
LEMMA OthersAreKept ==
  ASSUME ComparisonTypeOK, [ComparisonNext]_comparisonVars, ~Enlist
  PROVE  \A m \in Models \ {at} :
           /\ status'[m] = status[m] /\ metric'[m] = metric[m]
           /\ explained'[m] = explained[m] /\ finished'[m] = finished[m]
  <1>0. /\ DOMAIN status = Models /\ DOMAIN metric = Models
        /\ DOMAIN explained = Models /\ DOMAIN finished = Models
    BY DEF ComparisonTypeOK
  <1>1. CASE UNCHANGED comparisonVars
    BY <1>1 DEF comparisonVars
  <1>2. CASE Refuse \/ Announce \/ KeepMetric \/ EditTask \/ Reply
    BY <1>2 DEF Refuse, Announce, KeepMetric, EditTask, Reply
  <1>3. CASE Begin \/ EvaluateFailed \/ FinishModel
    BY <1>0, <1>3 DEF Begin, EvaluateFailed, FinishModel
  <1>4. CASE Raise \/ EvaluationRaises
    BY <1>0, <1>4 DEF Raise, EvaluationRaises, FailRun
  <1>5. CASE Complete \/ Evaluate \/ Return \/ HandleFailure \/ Classify \/ ReturnFailed
    BY <1>0, <1>5 DEF Complete, Evaluate, Return, HandleFailure, Classify, ReturnFailed
  <1> QED
    BY <1>1, <1>2, <1>3, <1>4, <1>5 DEF ComparisonNext, Execute, InStartRun, ComparisonEnded

Busy == place \in {"start", "run", "evaluate", "finish"}

LEMMA TurnKept ==
  ASSUME ComparisonAssumption, ComparisonTypeOK, InTurn, [ComparisonNext]_comparisonVars
  PROVE  InTurn'
  <1>0. /\ place \in {"idle", "start", "run", "evaluate", "finish", "read", "done"}
        /\ at \in Models /\ \A m \in Models : m \in Nat
        /\ place # "done" => answer = Unknown
    BY RosterFields DEF ComparisonTypeOK, InTurn
  <1>f. /\ DOMAIN status = Models /\ DOMAIN metric = Models
        /\ DOMAIN explained = Models /\ DOMAIN finished = Models
    BY DEF ComparisonTypeOK
  <1>1. ASSUME Busy, Busy', at' = at, answer' = answer, ~Enlist, AtWork'
        PROVE  InTurn'
    <2>1. \A m \in Models : (m < at => Settled(m)) /\ (m > at => Waiting(m))
      BY <1>1 DEF InTurn, Busy
    <2>2. \A m \in Models \ {at} : /\ status'[m] = status[m] /\ metric'[m] = metric[m]
                                   /\ explained'[m] = explained[m]
                                   /\ finished'[m] = finished[m]
      BY <1>1, OthersAreKept
    <2>3. ASSUME NEW m \in Models
          PROVE  (m < at => Settled(m)') /\ (m > at => Waiting(m)')
      <3>1. CASE m = at
        BY <1>0, <3>1
      <3>2. CASE m # at
        BY <2>1, <2>2, <3>2 DEF Settled, Waiting
      <3> QED
        BY <3>1, <3>2
    <2> QED
      BY <1>0, <1>1, <2>3 DEF InTurn, Busy
  <1>2. CASE UNCHANGED comparisonVars
    BY <1>2 DEF comparisonVars, InTurn, AtWork, Settled, Waiting
  <1>3. CASE Refuse
    BY <1>3 DEF Refuse, InTurn
  <1>4. CASE Enlist
    <2>1. /\ at = 1 /\ at' = 1 /\ place' = "start" /\ answer' = Unknown
          /\ \A m \in Models : /\ status'[m] = "queued" /\ metric'[m] = Unknown
                               /\ finished'[m] = Unknown /\ explained'[m] = FALSE
      BY <1>0, <1>4 DEF Enlist, InTurn
    <2>2. \A m \in Models : Waiting(m)'
      BY <2>1 DEF Waiting
    <2>3. \A m \in Models : ~(m < 1)
      <3>1. PICK n : n = Cardinality(Models)
        OBVIOUS
      <3>2. n \in Nat /\ Models = 1..n
        BY <3>1, FS_CardinalityType DEF ComparisonAssumption
      <3> QED
        BY <3>2
    <2>4. AtWork'
      BY <1>0, <2>1, <2>2, RosterFields DEF AtWork
    <2> QED
      BY <2>1, <2>2, <2>3, <2>4 DEF InTurn
  <1>5. CASE Announce
    <2>1. /\ place = "start" /\ place' = "run"
          /\ UNCHANGED <<at, status, metric, explained, finished, answer>>
      BY <1>5 DEF Announce
    <2>2. AtWork
      BY <2>1 DEF InTurn
    <2>3. AtWork'
      BY <2>1, <2>2 DEF AtWork, Waiting, Statuses
    <2> QED
      BY <1>1, <2>1, <2>3 DEF Busy, Enlist
  <1>6. CASE EditTask
    BY <1>6 DEF EditTask, InTurn, AtWork, Settled, Waiting
  <1>7. CASE Begin
    <2>1. /\ place = "run" /\ status[at] = "queued"
          /\ place' = "run" /\ status' = [status EXCEPT ![at] = "running"]
          /\ UNCHANGED <<at, metric, explained, finished, answer>>
      BY <1>7 DEF Begin
    <2>2. AtWork
      BY <2>1 DEF InTurn
    <2>3. status'[at] = "running"
      BY <1>0, <1>f, <2>1
    <2>4. AtWork'
      BY <2>1, <2>2, <2>3 DEF AtWork, Statuses
    <2> QED
      BY <1>1, <2>1, <2>4 DEF Busy, Enlist
  <1>8. CASE Raise
    <2>1. /\ place = "run" /\ place' = "evaluate"
          /\ status' = [status EXCEPT ![at] = "failed"]
          /\ explained' = [explained EXCEPT ![at] = TRUE]
          /\ UNCHANGED <<at, metric, finished, answer>>
      BY <1>8 DEF Raise, FailRun
    <2>2. AtWork
      BY <2>1 DEF InTurn
    <2>3. status'[at] = "failed" /\ explained'[at] = TRUE
      BY <1>0, <1>f, <2>1
    <2>4. AtWork'
      BY <2>1, <2>2, <2>3 DEF AtWork, Ended
    <2> QED
      BY <1>1, <2>1, <2>4 DEF Busy, Enlist
  <1>9. CASE Complete \/ Evaluate \/ HandleFailure \/ Classify
    <2>1. /\ place = "run" /\ place' = "run" /\ UNCHANGED <<at, finished, answer>>
          /\ status[at] # "queued"
      BY <1>9 DEF Complete, Evaluate, HandleFailure, Classify
    <2>2. AtWork
      BY <2>1 DEF InTurn
    <2>3. \/ status' = status /\ status[at] \in {"completed", "failed"}
          \/ status'[at] \in {"completed", "failed"}
      BY <1>0, <1>f, <1>9 DEF Complete, Evaluate, HandleFailure, Classify
    <2>4. AtWork'
      BY <2>1, <2>2, <2>3 DEF AtWork, Statuses
    <2> QED
      BY <1>1, <2>1, <2>4 DEF Busy, Enlist
  <1>15. CASE Return \/ ReturnFailed
    <2>1. /\ place = "run" /\ place' = "evaluate"
          /\ UNCHANGED <<at, status, explained, finished, answer>>
      BY <1>15 DEF Return, ReturnFailed
    <2>2. AtWork
      BY <2>1 DEF InTurn
    <2>3. \/ status[at] = "completed" /\ metric'[at] # Unknown
          \/ status[at] = "failed" /\ explained[at] = TRUE
      <3>1. explained[at] \in BOOLEAN
        BY <1>0 DEF ComparisonTypeOK
      <3> QED
        BY <1>15, <3>1 DEF Return, ReturnFailed
    <2>4. AtWork'
      BY <2>1, <2>2, <2>3 DEF AtWork, Ended
    <2> QED
      BY <1>1, <2>1, <2>4 DEF Busy, Enlist
  <1>10. CASE KeepMetric
    <2>1. /\ place = "evaluate" /\ place' = "finish"
          /\ UNCHANGED <<at, status, metric, explained, finished, answer>>
      BY <1>10 DEF KeepMetric
    <2>2. AtWork
      BY <2>1 DEF InTurn
    <2>3. AtWork'
      BY <2>1, <2>2 DEF AtWork
    <2> QED
      BY <1>1, <2>1, <2>3 DEF Busy, Enlist
  <1>11. CASE EvaluateFailed
    <2>1. /\ place = "evaluate" /\ place' = "finish" /\ metric[at] = Unknown
          /\ UNCHANGED <<at, status, explained, finished, answer>>
      BY <1>11 DEF EvaluateFailed
    <2>2. AtWork
      BY <2>1 DEF InTurn
    <2>3. AtWork'
      BY <2>1, <2>2 DEF AtWork
    <2> QED
      BY <1>1, <2>1, <2>3 DEF Busy, Enlist
  <1>12. CASE EvaluationRaises
    <2>1. /\ place = "evaluate" /\ place' = "finish"
          /\ status' = [status EXCEPT ![at] = "failed"]
          /\ explained' = [explained EXCEPT ![at] = TRUE]
          /\ UNCHANGED <<at, finished, answer>>
      BY <1>12 DEF EvaluationRaises, FailRun
    <2>2. AtWork
      BY <2>1 DEF InTurn
    <2>3. status'[at] = "failed" /\ explained'[at] = TRUE
      BY <1>0, <1>f, <2>1
    <2>4. AtWork'
      BY <2>1, <2>2, <2>3 DEF AtWork, Ended
    <2> QED
      BY <1>1, <2>1, <2>4 DEF Busy, Enlist
  <1>13. CASE FinishModel
    <2>1. /\ place = "finish" /\ finished' = [finished EXCEPT ![at] = status[at]]
          /\ UNCHANGED <<status, metric, explained, answer>>
          /\ \/ at + 1 \in Models /\ at' = at + 1 /\ place' = "start"
             \/ at + 1 \notin Models /\ at' = at /\ place' = "read"
      BY <1>13 DEF FinishModel
    <2>2. AtWork /\ \A m \in Models : (m < at => Settled(m)) /\ (m > at => Waiting(m))
      BY <2>1 DEF InTurn
    <2>3. finished'[at] = status[at] /\ \A m \in Models \ {at} : finished'[m] = finished[m]
      BY <1>0, <1>f, <2>1
    <2>4. \A m \in Models : m = at => Settled(m)'
      <3>1. /\ status'[at] \in Ended /\ finished'[at] = status'[at]
            /\ status'[at] = "failed" => explained'[at] = TRUE
            /\ metric'[at] = Unknown => status'[at] = "failed"
        BY <2>1, <2>2, <2>3 DEF AtWork
      <3> QED
        BY <3>1 DEF Settled
    <2>5. \A m \in Models : m < at => Settled(m)'
      BY <1>0, <2>1, <2>2, <2>3 DEF Settled
    <2>6. \A m \in Models : m > at => Waiting(m)'
      BY <1>0, <2>1, <2>2, <2>3 DEF Waiting
    <2>7. CASE at + 1 \in Models /\ at' = at + 1 /\ place' = "start"
      <3>1. \A m \in Models : (m < at' => Settled(m)') /\ (m > at' => Waiting(m)')
        BY <1>0, <2>4, <2>5, <2>6, <2>7
      <3>2. Waiting(at + 1)
        BY <1>0, <2>2, <2>7
      <3> QED
        BY <1>0, <2>1, <2>7, <3>1, <3>2 DEF InTurn, AtWork, Waiting
    <2>8. CASE at + 1 \notin Models /\ at' = at /\ place' = "read"
      <3>1. \A m \in Models : m <= at
        BY <1>0, <2>8, RosterFields
      <3>2. \A m \in Models : Settled(m)'
        BY <1>0, <2>4, <2>5, <3>1
      <3> QED
        BY <1>0, <2>1, <2>8, <3>2 DEF InTurn
    <2> QED
      BY <2>1, <2>7, <2>8
  <1>14. CASE Reply
    BY <1>14 DEF Reply, InTurn, Settled
  <1> QED
    BY <1>2, <1>3, <1>4, <1>5, <1>6, <1>7, <1>8, <1>9, <1>10, <1>11, <1>12, <1>13, <1>14, <1>15
    DEF ComparisonNext, Execute, InStartRun, ComparisonEnded

(* Nobody joins or leaves those who have passed but the model at work,     *)
(* which leaves them before it finishes or not at all.                     *)
LEMMA PassingMoves ==
  ASSUME ComparisonAssumption, ComparisonTypeOK, InTurn, [ComparisonNext]_comparisonVars
  PROVE  /\ \A m \in Passing : m \in Passing' => metric'[m] = metric[m]
         /\ \/ Passing' = Passing
            \/ Passing' = Passing \cup {at}
            \/ /\ Passing' = Passing \ {at} /\ at \in Passing
               /\ finished[at] = Unknown /\ status'[at] = "failed"
  <1>0. /\ at \in Models /\ DOMAIN status = Models /\ DOMAIN metric = Models
    BY DEF ComparisonTypeOK
  <1>1. CASE Enlist
    <2>1. \A m \in Models : metric[m] = Unknown /\ metric'[m] = Unknown
      BY <1>1 DEF Enlist, InTurn
    <2> QED
      BY <2>1 DEF Passing
  <1>2. CASE UNCHANGED <<status, metric>>
    BY <1>2 DEF Passing
  <1>3. CASE ~Enlist /\ ~UNCHANGED <<status, metric>>
    <2>1. \A m \in Models \ {at} : status'[m] = status[m] /\ metric'[m] = metric[m]
      BY <1>3, OthersAreKept
    <2>2. CASE Begin \/ Complete \/ Evaluate \/ ReturnFailed \/ EvaluateFailed
      <3>1. \/ status[at] \in {"queued", "running", "failed"}
            \/ metric[at] = Unknown
        BY <2>2 DEF Begin, Complete, Evaluate, ReturnFailed, EvaluateFailed
      <3>2. at \notin Passing
        BY <3>1 DEF Passing
      <3> QED
        BY <2>1, <3>2 DEF Passing
    <2>3. CASE HandleFailure \/ Raise \/ EvaluationRaises
      <3>1. status'[at] = "failed" /\ place \in {"run", "evaluate"}
        BY <1>0, <2>3 DEF HandleFailure, Raise, EvaluationRaises, FailRun
      <3>2. finished[at] = Unknown
        BY <3>1 DEF InTurn, AtWork
      <3>3. at \notin Passing'
        BY <3>1 DEF Passing
      <3>4. Passing' = Passing \ {at} /\ \A m \in Passing' : metric'[m] = metric[m]
        BY <2>1, <3>3 DEF Passing
      <3> QED
        BY <3>1, <3>2, <3>4
    <2> QED
      BY <1>3, <2>2, <2>3
      DEF ComparisonNext, comparisonVars, Execute, InStartRun, Refuse, Announce, Return, Classify,
          KeepMetric, FinishModel, Reply, EditTask, ComparisonEnded
  <1> QED
    BY <1>1, <1>2, <1>3

LEMMA ResultsKept ==
  ASSUME ComparisonAssumption, ComparisonTypeOK, InTurn, [ComparisonNext]_comparisonVars
  PROVE  KeepsFinished
  <1>1. SUFFICES ASSUME NEW m \in Models, finished[m] # Unknown
                 PROVE  /\ status'[m] = status[m] /\ metric'[m] = metric[m]
                        /\ explained'[m] = explained[m] /\ finished'[m] = finished[m]
    BY DEF KeepsFinished
  <1>2. CASE Enlist
    BY <1>1, <1>2 DEF Enlist, InTurn
  <1>3. CASE Busy /\ ~Enlist
    <2>1. finished[at] = Unknown
      BY <1>3 DEF InTurn, AtWork, Busy
    <2> QED
      BY <1>1, <1>3, <2>1, OthersAreKept
  <1>4. CASE ~Busy /\ ~Enlist
    BY <1>4 DEF Busy, ComparisonNext, Execute, InStartRun, comparisonVars, ComparisonEnded, Refuse,
                Announce, Begin, Complete, Evaluate, Return, HandleFailure, Classify, ReturnFailed,
                Raise,
                KeepMetric, EvaluateFailed, EvaluationRaises, FinishModel, Reply, EditTask
  <1> QED
    BY <1>2, <1>3, <1>4

LEMMA KeysAlways ==
  ASSUME ComparisonAssumption
  PROVE  ComparisonTypeOK => /\ Keyed(Passing, BestKeys, 6) /\ Keyed(Priced, CostKeys, 7)
                             /\ Keyed(Timed, TimeKeys, 7)
                             /\ BestPassing = Best(Passing, BestKeys)
                             /\ LowestCost = Best(Priced, CostKeys)
                             /\ Fastest = Best(Timed, TimeKeys)
  BY KeysAreKeys, AwardsAreBest

LEMMA KeysKept ==
  ASSUME ComparisonAssumption, ComparisonTypeOK, InTurn, [ComparisonNext]_comparisonVars
  PROVE  /\ \A m \in Passing \cap Passing' : BestKeys'[m] = BestKeys[m]
         /\ \A m \in Priced \cap Priced' : CostKeys'[m] = CostKeys[m]
         /\ \A m \in Timed \cap Timed' : TimeKeys'[m] = TimeKeys[m]
         /\ Priced \subseteq Passing /\ Priced \cap Passing' = Priced' \cap Passing
         /\ Timed \subseteq Passing /\ Timed \cap Passing' = Timed' \cap Passing
         /\ Priced' \subseteq Passing' /\ Timed' \subseteq Passing'
  <1>1. \A m \in Passing \cap Passing' : metric'[m] = metric[m]
    BY PassingMoves
  <1>2. \A m \in Passing \cap Passing' : /\ BestKey(m)' = BestKey(m) /\ CostKey(m)' = CostKey(m)
                                         /\ TimeKey(m)' = TimeKey(m)
    BY <1>1 DEF BestKey, CostKey, TimeKey
  <1>3. \A m \in Passing \cap Passing' : BestKeys'[m] = BestKeys[m]
    BY <1>2 DEF BestKeys
  <1>4. /\ Priced \subseteq Passing /\ Priced \cap Passing' = Priced' \cap Passing
        /\ Priced' \subseteq Passing'
    BY <1>1 DEF Priced
  <1>5. /\ Timed \subseteq Passing /\ Timed \cap Passing' = Timed' \cap Passing
        /\ Timed' \subseteq Passing'
    BY <1>1 DEF Timed
  <1>6. \A m \in Priced \cap Priced' : CostKeys'[m] = CostKeys[m]
    <2>1. \A m \in Priced \cap Priced' : m \in Passing \cap Passing'
      BY <1>4
    <2> QED
      BY <1>2, <2>1 DEF CostKeys
  <1>7. \A m \in Timed \cap Timed' : TimeKeys'[m] = TimeKeys[m]
    <2>1. \A m \in Timed \cap Timed' : m \in Passing \cap Passing'
      BY <1>5
    <2> QED
      BY <1>2, <2>1 DEF TimeKeys
  <1> QED
    BY <1>3, <1>4, <1>5, <1>6, <1>7

(* The best of a set stays the best when others leave, and the only one is *)
(* among those who leave otherwise.                                        *)
LEMMA BestIsLeft ==
  ASSUME NEW n \in {6, 7}, NEW S, NEW T, T \subseteq S, NEW k, NEW l, Keyed(S, k, n),
         \A m \in T : l[m] = k[m]
  PROVE  Best(S, k) \subseteq Best(T, l) \/ Best(S, k) \subseteq S \ T
  <1>1. ASSUME NEW v \in Best(S, k), v \in T PROVE Best(S, k) \subseteq Best(T, l)
    <2>1. v \in T /\ \A m \in T \ {v} : Before(l[v], l[m])
      BY <1>1 DEF Best
    <2>2. v \in Best(T, l)
      BY <2>1 DEF Best
    <2> QED
      BY <1>1, <2>2, OneIsBest
  <1>2. Best(S, k) \subseteq S
    BY DEF Best
  <1> QED
    BY <1>1, <1>2

(* What a step does to an award that goes to the best of S, a part of      *)
(* those that have passed.                                                 *)
LEMMA AwardKept ==
  ASSUME ComparisonAssumption, ComparisonTypeOK, InTurn, [ComparisonNext]_comparisonVars,
         NEW n \in {6, 7}, NEW S, NEW T, NEW k, NEW l, Keyed(S, k, n),
         \A m \in S \cap T : l[m] = k[m],
         S \subseteq Passing, T \subseteq Passing', S \cap Passing' = T \cap Passing
  PROVE  Kept(Best(S, k), Best(T, l))
  <1>1. \/ Passing \subseteq Passing'
        \/ Passing' = Passing \ {at} /\ at \in Passing
    BY PassingMoves
  <1>2. CASE Passing \subseteq Passing'
    <2>1. S \subseteq T /\ T \ S \subseteq Passing' \ Passing /\ \A m \in S : l[m] = k[m]
      BY <1>2
    <2>2. Best(S, k) \subseteq Best(T, l) \/ Best(T, l) \subseteq T \ S
      BY <2>1, BestIsKept
    <2> QED
      BY <2>1, <2>2 DEF Kept
  <1>3. CASE Passing' = Passing \ {at} /\ at \in Passing
    <2>1. T \subseteq S /\ S \ T \subseteq {at} /\ \A m \in T : l[m] = k[m]
      <3>1. T = T \cap Passing
        BY <1>3
      <3>2. S \cap Passing' = S \ {at}
        BY <1>3
      <3>3. T = S \ {at}
        BY <3>1, <3>2
      <3> QED
        BY <3>3
    <2>2. Best(S, k) \subseteq Best(T, l) \/ Best(S, k) \subseteq S \ T
      BY <2>1, BestIsLeft
    <2>3. Passing \ Passing' = {at}
      BY <1>3
    <2> QED
      BY <2>1, <2>2, <2>3 DEF Kept
  <1> QED
    BY <1>1, <1>2, <1>3

(* Those before the model at work stay as they are; when it is done it is  *)
(* one of them.                                                            *)
LEMMA EarlierKept ==
  ASSUME ComparisonAssumption, ComparisonInv, [ComparisonNext]_comparisonVars
  PROVE  EarlierWins'
  <1>0. ComparisonTypeOK /\ InTurn /\ EarlierWins /\ SomeoneWins
    BY EarlierAndLast DEF ComparisonInv
  <1>1. /\ \A m \in Passing \cap Passing' : BestKeys'[m] = BestKeys[m]
        /\ \A m \in Priced \cap Priced' : CostKeys'[m] = CostKeys[m]
        /\ Priced \subseteq Passing /\ Priced \cap Passing' = Priced' \cap Passing
        /\ Priced' \subseteq Passing'
    BY <1>0, KeysKept
  <1>2. CASE at' = at
    <2>1. Passing' \ {at'} = Passing \ {at}
      BY <1>0, <1>2, PassingMoves
    <2>2. Priced' \ {at'} = Priced \ {at}
      BY <1>1, <1>2, <2>1
    <2>3. Best(Passing' \ {at'}, BestKeys') = Best(Passing \ {at}, BestKeys)
      <3>1. \A m \in Passing \ {at} : BestKeys'[m] = BestKeys[m]
        BY <1>1, <2>1
      <3> QED
        BY <2>1, <3>1, SameKeysSameBest
    <2>4. Best(Priced' \ {at'}, CostKeys') = Best(Priced \ {at}, CostKeys)
      <3>1. \A m \in Priced \ {at} : CostKeys'[m] = CostKeys[m]
        BY <1>1, <2>2
      <3> QED
        BY <2>2, <3>1, SameKeysSameBest
    <2> QED
      BY <1>0, <2>1, <2>2, <2>3, <2>4 DEF EarlierWins
  <1>3. CASE at' # at
    <2>1. FinishModel /\ at + 1 \in Models /\ at' = at + 1
      BY <1>3 DEF ComparisonNext, Execute, InStartRun, comparisonVars, ComparisonEnded, Refuse,
                  Enlist, Announce, Begin, Complete, Evaluate, Return, HandleFailure, Classify,
                  ReturnFailed, Raise, KeepMetric, EvaluateFailed, EvaluationRaises, FinishModel,
                  Reply, EditTask
    <2>2. UNCHANGED <<status, metric>> /\ place = "finish"
      BY <2>1 DEF FinishModel
    <2>3. Passing' = Passing /\ Priced' = Priced
      BY <2>2 DEF Passing, Priced
    <2>4. metric[at'] = Unknown
      <3>1. at \in Nat /\ at + 1 > at
        <4>1. at \in Models /\ Models \subseteq Nat
          BY <1>0, RosterFields DEF ComparisonTypeOK
        <4> QED
          BY <4>1
      <3>2. Waiting(at + 1)
        BY <1>0, <2>1, <2>2, <3>1 DEF InTurn
      <3> QED
        BY <2>1, <3>2 DEF Waiting
    <2>5. at' \notin Passing /\ at' \notin Priced
      BY <2>4 DEF Passing, Priced
    <2>6. Passing' \ {at'} = Passing /\ Priced' \ {at'} = Priced
      BY <2>3, <2>5
    <2>7. BestPassing = Best(Passing, BestKeys) /\ LowestCost = Best(Priced, CostKeys)
      BY AwardsAreBest
    <2>8. Best(Passing, BestKeys') = BestPassing /\ Best(Priced, CostKeys') = LowestCost
      BY <1>1, <2>3, <2>7, SameKeysSameBest
    <2> QED
      BY <1>0, <2>6, <2>8 DEF EarlierWins, SomeoneWins
  <1> QED
    BY <1>2, <1>3

LEMMA AwardsKept ==
  ASSUME ComparisonAssumption, ComparisonInv, [ComparisonNext]_comparisonVars
  PROVE  AwardsStay
  <1>0. ComparisonTypeOK /\ InTurn /\ ComparisonTypeOK' /\ EarlierWins'
    BY TypeKept, EarlierKept DEF ComparisonInv
  <1>1. /\ Keyed(Passing, BestKeys, 6) /\ Keyed(Priced, CostKeys, 7)
        /\ Keyed(Timed, TimeKeys, 7) /\ BestPassing = Best(Passing, BestKeys)
        /\ LowestCost = Best(Priced, CostKeys) /\ Fastest = Best(Timed, TimeKeys)
    BY <1>0, KeysAlways
  <1>2. (ComparisonTypeOK => /\ Keyed(Passing, BestKeys, 6) /\ Keyed(Priced, CostKeys, 7)
                             /\ Keyed(Timed, TimeKeys, 7)
                             /\ BestPassing = Best(Passing, BestKeys)
                             /\ LowestCost = Best(Priced, CostKeys)
                             /\ Fastest = Best(Timed, TimeKeys))'
    BY KeysAlways, PTL
  <1>3. /\ BestPassing' = Best(Passing', BestKeys') /\ LowestCost' = Best(Priced', CostKeys')
        /\ Fastest' = Best(Timed', TimeKeys')
    BY <1>0, <1>2
  <1>4. /\ \A m \in Passing \cap Passing' : BestKeys'[m] = BestKeys[m]
        /\ \A m \in Priced \cap Priced' : CostKeys'[m] = CostKeys[m]
        /\ \A m \in Timed \cap Timed' : TimeKeys'[m] = TimeKeys[m]
        /\ Priced \subseteq Passing /\ Priced \cap Passing' = Priced' \cap Passing
        /\ Timed \subseteq Passing /\ Timed \cap Passing' = Timed' \cap Passing
        /\ Priced' \subseteq Passing' /\ Timed' \subseteq Passing'
    BY <1>0, KeysKept
  <1>5. Kept(BestPassing, BestPassing')
    <2>1. Kept(Best(Passing, BestKeys), Best(Passing', BestKeys'))
      BY <1>0, <1>1, <1>4, AwardKept
    <2> QED
      BY <1>1, <1>3, <2>1
  <1>6. Kept(LowestCost, LowestCost')
    <2>1. Kept(Best(Priced, CostKeys), Best(Priced', CostKeys'))
      BY <1>0, <1>1, <1>4, AwardKept
    <2> QED
      BY <1>1, <1>3, <2>1
  <1>7. Kept(Fastest, Fastest')
    <2>1. Kept(Best(Timed, TimeKeys), Best(Timed', TimeKeys'))
      BY <1>0, <1>1, <1>4, AwardKept
    <2> QED
      BY <1>1, <1>3, <2>1
  <1>8. \A m \in Passing \ Passing' : m = at /\ finished[m] = Unknown /\ status'[m] = "failed"
    BY <1>0, PassingMoves
  <1>9. BestPassing # {} => BestPassing' # {} \/ Passing' = {}
    <2>1. ComparisonTypeOK /\ EarlierWins => SomeoneWins
      BY EarlierAndLast
    <2>2. (ComparisonTypeOK /\ EarlierWins => SomeoneWins)'
      BY <2>1, EarlierAndLast, PTL
    <2> QED
      BY <1>0, <2>2 DEF SomeoneWins
  <1> QED
    BY <1>5, <1>6, <1>7, <1>8, <1>9 DEF AwardsStay

LEMMA ComparisonInitially ==
  ASSUME ComparisonAssumption, ComparisonInit
  PROVE  ComparisonInv
  <1>1. 1 \in Models
    BY RosterFields
  <1>2. ComparisonTypeOK
    BY <1>1 DEF ComparisonInit, ComparisonTypeOK
  <1>3. InTurn
    BY DEF ComparisonInit, InTurn
  <1>4. Passing = {} /\ Priced = {}
    BY DEF ComparisonInit, Passing, Priced
  <1> QED
    BY <1>2, <1>3, <1>4 DEF ComparisonInv, EarlierWins

LEMMA ComparisonInvIsFair ==
  ASSUME ComparisonAssumption, ComparisonInv
  PROVE  ComparisonIsFair
  <1>0. ComparisonTypeOK /\ InTurn /\ SomeoneWins
    BY EarlierAndLast DEF ComparisonInv
  <1>1. AnsweredIsSettled
    BY <1>0 DEF AnsweredIsSettled, InTurn, Settled
  <1>2. InRosterOrder
    BY <1>0 DEF InRosterOrder, InTurn, Settled, Waiting, ComparisonTypeOK
  <1> QED
    BY <1>0, <1>1, <1>2, BestIsBest, CheapestIsOne DEF ComparisonIsFair

(* What the place of the request says of every model, and that one of the  *)
(* models that passed before the one at work is the best of them, is kept  *)
(* by every step.                                                          *)
THEOREM ComparisonInductive ==
  ASSUME ComparisonAssumption
  PROVE  ComparisonSpec => []ComparisonInv
  <1>1. ComparisonInit => ComparisonInv
    BY ComparisonInitially
  <1>2. ComparisonInv /\ [ComparisonNext]_comparisonVars => ComparisonInv'
    BY TypeKept, TurnKept, EarlierKept DEF ComparisonInv
  <1> QED
    BY <1>1, <1>2, PTL DEF ComparisonSpec

(* The models of a comparison run in order, each to an end that is         *)
(* explained; the best is not dominated, the cheapest is the cheapest and  *)
(* just one (agents/comparison.py).                                        *)
THEOREM ComparisonsAreFair ==
  ASSUME ComparisonAssumption
  PROVE  ComparisonSpec => []ComparisonIsFair
  <1>1. ComparisonInv => ComparisonIsFair
    BY ComparisonInvIsFair
  <1> QED
    BY <1>1, ComparisonInductive, PTL

(* No later model changes the result of an earlier one, and an award is    *)
(* lost to a newcomer only, or with the run that has won it, when it is    *)
(* marked failed before it finishes (agents/comparison.py:118, :139,       *)
(* agents/orchestrator.py:364).                                            *)
THEOREM ResultsAreKept ==
  ASSUME ComparisonAssumption
  PROVE  ComparisonSpec => ResultsStand
  <1>1. ComparisonInv /\ [ComparisonNext]_comparisonVars => KeepsFinished /\ AwardsStay
    BY ResultsKept, AwardsKept DEF ComparisonInv
  <1> QED
    BY <1>1, ComparisonInductive, PTL DEF ComparisonSpec, ResultsStand

-----------------------------------------------------------------------------
(* Benchmark tasks.                                                        *)

(* What is known of a task, however it came into being: an imported one    *)
(* has a problem statement; one that is ready or has been run, and would   *)
(* not be marked ready, was created ready and lacks its gold patch.        *)
TaskFits(t) ==
  Exists(t) =>
    /\ task[t].origin = "imported" => task[t].fields.body = TRUE
    /\ t \in runs => Status(t) = "ready"
    /\ Status(t) = "ready" /\ ~Valid(task[t]) =>
         /\ t \in unchecked
         /\ \/ task[t].origin = "manual" /\ task[t].gold = "none"
            \/ task[t].gold = "no files"

TaskInv == TasksTypeOK /\ \A t \in Tasks : TaskFits(t)

LEMMA TaskFields ==
  ASSUME TasksAssumption, NEW x \in TaskType
  PROVE  /\ x # Absent /\ x.fields \in Fields
         /\ x = [origin |-> x.origin, fields |-> x.fields, gold |-> x.gold, text |-> x.text,
                 testFiles |-> x.testFiles]
         /\ x.origin \in {"manual", "github", "imported"}
         /\ x.gold \in {"none", "no files", "good"}
         /\ x.text \in BOOLEAN /\ x.testFiles \in BOOLEAN
         /\ x.fields.status \in TaskStatuses /\ x.fields.body \in BOOLEAN
  BY DEF TasksAssumption, TaskType, Fields

(* A created task is one of these three.                                   *)
ManualTask(x) == x.origin = "manual" /\ x.gold = "none"
GitHubTask(x) == x.origin = "github" /\ x.gold # "none" /\ (x.gold = "good" => Valid(x))
ImportedDraft(x) == x.origin = "imported" /\ x.fields.body = TRUE /\ x.fields.status = "draft"

LEMMA CreationTells ==
  ASSUME TasksAssumption, TasksTypeOK, NEW t \in Tasks,
         CreateManual(t) \/ CreateFromGitHub(t) \/ CreateImported(t)
  PROVE  \E x \in TaskType, suites \in SUBSET Suites :
           Create(t, x, suites) /\ (ManualTask(x) \/ GitHubTask(x) \/ ImportedDraft(x))
  <1>1. CASE CreateManual(t)
    <2>1. PICK f \in Requests :
            Create(t, [origin |-> "manual", fields |-> f, gold |-> "none",
                       text |-> FALSE, testFiles |-> FALSE], {})
      BY <1>1 DEF CreateManual
    <2> DEFINE x == [origin |-> "manual", fields |-> f, gold |-> "none",
                     text |-> FALSE, testFiles |-> FALSE]
    <2>2. x \in TaskType /\ ManualTask(x)
      BY DEF TasksAssumption, TaskType, ManualTask
    <2> HIDE DEF x
    <2> QED
      BY <2>1, <2>2 DEF x
  <1>2. CASE CreateFromGitHub(t)
    <2>1. PICK files, text, testFiles, hid, setup \in BOOLEAN :
            /\ (testFiles => files) /\ (hid => testFiles)
            /\ Create(t,
                 [ origin |-> "github",
                   fields |-> [url |-> TRUE, issue |-> TRUE, pr |-> TRUE, base |-> TRUE,
                               title |-> TRUE, body |-> TRUE,
                               setup |-> IF setup THEN "good" ELSE "none",
                               tests |-> "good", lint |-> "none", status |-> "ready"],
                   gold |-> IF files THEN "good" ELSE "no files",
                   text |-> text, testFiles |-> testFiles ],
                 IF hid THEN {"runnable"} ELSE {})
      BY <1>2 DEF CreateFromGitHub
    <2> DEFINE f == [url |-> TRUE, issue |-> TRUE, pr |-> TRUE, base |-> TRUE,
                     title |-> TRUE, body |-> TRUE,
                     setup |-> IF setup THEN "good" ELSE "none",
                     tests |-> "good", lint |-> "none", status |-> "ready"]
               x == [ origin |-> "github", fields |-> f,
                      gold |-> IF files THEN "good" ELSE "no files",
                      text |-> text, testFiles |-> testFiles ]
               suites == IF hid THEN {"runnable"} ELSE {}
    <2>2. f \in Fields
      BY DEF Fields, Commands, TaskStatuses
    <2>3. /\ f.url = TRUE /\ f.issue = TRUE /\ f.pr = TRUE /\ f.base = TRUE
          /\ f.setup # "blank" /\ f.tests = "good" /\ f.lint # "blank"
      OBVIOUS
    <2>4. Create(t, x, suites) /\ suites \in SUBSET Suites
      BY <2>1 DEF Suites
    <2> HIDE DEF f, suites
    <2>5. x \in TaskType
      BY <2>2 DEF TaskType
    <2>6. x.origin = "github" /\ x.fields = f /\ x.gold \in {"good", "no files"}
      OBVIOUS
    <2> HIDE DEF x
    <2>7. GitHubTask(x)
      BY <2>3, <2>6 DEF GitHubTask, Valid
    <2> QED
      BY <2>4, <2>5, <2>7
  <1>3. CASE CreateImported(t)
    <2>1. PICK patch, testPatch, issue \in BOOLEAN :
            Create(t,
              [ origin |-> "imported",
                fields |-> [url |-> TRUE, issue |-> issue, pr |-> FALSE, base |-> TRUE,
                            title |-> TRUE, body |-> TRUE, setup |-> "none", tests |-> "none",
                            lint |-> "none", status |-> "draft"],
                gold |-> IF patch THEN "good" ELSE "none",
                text |-> patch, testFiles |-> patch /\ testPatch ],
              IF testPatch THEN {"disabled"} ELSE {})
      BY <1>3 DEF CreateImported
    <2> DEFINE f == [url |-> TRUE, issue |-> issue, pr |-> FALSE, base |-> TRUE,
                     title |-> TRUE, body |-> TRUE, setup |-> "none", tests |-> "none",
                     lint |-> "none", status |-> "draft"]
               x == [ origin |-> "imported", fields |-> f,
                      gold |-> IF patch THEN "good" ELSE "none",
                      text |-> patch, testFiles |-> patch /\ testPatch ]
               suites == IF testPatch THEN {"disabled"} ELSE {}
    <2>2. f \in Fields /\ f.body = TRUE /\ f.status = "draft"
      BY DEF Fields, Commands, TaskStatuses
    <2>4. Create(t, x, suites) /\ suites \in SUBSET Suites
      BY <2>1 DEF Suites
    <2>3. (patch /\ testPatch) \in BOOLEAN
      OBVIOUS
    <2> HIDE DEF f, suites
    <2>5. x \in TaskType
      BY <2>2, <2>3 DEF TaskType
    <2>6. x.origin = "imported" /\ x.fields = f
      OBVIOUS
    <2> HIDE DEF x
    <2>7. ImportedDraft(x)
      BY <2>2, <2>6 DEF ImportedDraft
    <2> QED
      BY <2>4, <2>5, <2>7
  <1> QED
    BY <1>1, <1>2, <1>3

(* What a creation leaves of a task.                                       *)
LEMMA CreatedFits ==
  ASSUME TasksAssumption, TaskInv, NEW t \in Tasks, NEW x \in TaskType,
         NEW suites \in SUBSET Suites, Create(t, x, suites),
         ManualTask(x) \/ GitHubTask(x) \/ ImportedDraft(x)
  PROVE  TaskInv'
  <1>0. /\ task \in [Tasks -> TaskType \cup {Absent}] /\ hidden \in [Tasks -> SUBSET Suites]
        /\ pack \subseteq Tasks /\ runs \subseteq Tasks /\ unchecked \subseteq Tasks
        /\ \A s \in pack \cup runs : Exists(s)
        /\ changes \in 0..MaxChanges
    BY DEF TaskInv, TasksTypeOK
  <1>1. /\ ~Exists(t) /\ task' = [task EXCEPT ![t] = x]
        /\ hidden' = [hidden EXCEPT ![t] = suites]
        /\ unchecked' = IF x.fields.status = "ready" THEN unchecked \cup {t} ELSE unchecked
        /\ UNCHANGED <<pack, runs, changes>>
    BY DEF Create
  <1>2. task'[t] = x /\ \A s \in Tasks \ {t} : task'[s] = task[s]
    BY <1>0, <1>1
  <1>3. x # Absent
    BY TaskFields
  <1>4. TasksTypeOK'
    <2>1. task' \in [Tasks -> TaskType \cup {Absent}]
      BY <1>0, <1>1
    <2>2. hidden' \in [Tasks -> SUBSET Suites]
      BY <1>0, <1>1
    <2>3. unchecked' \subseteq Tasks
      BY <1>0, <1>1
    <2>4. \A s \in pack \cup runs : task'[s] # Absent
      BY <1>0, <1>1, <1>2, <1>3 DEF Exists
    <2> QED
      BY <1>0, <1>1, <2>1, <2>2, <2>3, <2>4 DEF TasksTypeOK, Exists
  <1>5. ASSUME NEW s \in Tasks PROVE TaskFits(s)'
    <2>1. CASE s = t
      <3>1. t \notin runs
        BY <1>0, <1>1
      <3>2. x.fields.status = "ready" => t \in unchecked'
        BY <1>1
      <3>3. x.origin = "imported" => x.fields.body = TRUE
        BY DEF ManualTask, GitHubTask, ImportedDraft
      <3>4. x.fields.status = "ready" /\ ~Valid(x) =>
              \/ x.origin = "manual" /\ x.gold = "none"
              \/ x.gold = "no files"
        <4>1. x.gold \in {"none", "no files", "good"}
          BY TaskFields
        <4> QED
          BY <4>1 DEF ManualTask, GitHubTask, ImportedDraft
      <3>5. task'[s] = x /\ runs' = runs
        BY <1>1, <1>2, <2>1
      <3>6. Valid(task[s])' <=> Valid(x)
        BY <3>5 DEF Valid
      <3> QED
        BY <2>1, <3>1, <3>2, <3>3, <3>4, <3>5, <3>6 DEF TaskFits, Status
    <2>2. CASE s # t
      <3>1. task'[s] = task[s] /\ runs' = runs /\ (s \in unchecked => s \in unchecked')
        BY <1>1, <1>2, <2>2
      <3>2. TaskFits(s)
        BY DEF TaskInv
      <3> QED
        BY <3>1, <3>2 DEF TaskFits, Exists, Status, Valid
    <2> QED
      BY <2>1, <2>2
  <1> QED
    BY <1>4, <1>5 DEF TaskInv

(* A change of a task that exists, which was a draft or failed.            *)
LEMMA ChangedFits ==
  ASSUME TasksAssumption, TaskInv, NEW t \in Tasks, NEW x \in TaskType,
         Exists(t), Status(t) \in {"draft", "failed"}, x.origin = task[t].origin,
         x.fields.body = task[t].fields.body,
         x.fields.status = "ready" => Valid(x),
         task' = [task EXCEPT ![t] = x],
         changes' \in 0..MaxChanges, UNCHANGED <<hidden, pack, runs, unchecked>>
  PROVE  TaskInv'
  <1>0. /\ task \in [Tasks -> TaskType \cup {Absent}] /\ hidden \in [Tasks -> SUBSET Suites]
        /\ pack \subseteq Tasks /\ runs \subseteq Tasks /\ unchecked \subseteq Tasks
        /\ \A s \in pack \cup runs : Exists(s)
    BY DEF TaskInv, TasksTypeOK
  <1>1. task'[t] = x /\ \A s \in Tasks \ {t} : task'[s] = task[s]
    BY <1>0
  <1>2. x # Absent
    BY TaskFields
  <1>3. TasksTypeOK'
    <2>1. task' \in [Tasks -> TaskType \cup {Absent}]
      BY <1>0
    <2>2. \A s \in pack \cup runs : task'[s] # Absent
      BY <1>0, <1>1, <1>2 DEF Exists
    <2> QED
      BY <1>0, <2>1, <2>2 DEF TasksTypeOK, Exists
  <1>4. ASSUME NEW s \in Tasks PROVE TaskFits(s)'
    <2>1. TaskFits(s)
      BY DEF TaskInv
    <2>2. CASE s = t
      <3>1. t \notin runs /\ (x.origin = "imported" => x.fields.body = TRUE)
        BY <2>1, <2>2 DEF TaskFits
      <3>2. task'[s] = x
        BY <1>1, <2>2
      <3>3. Valid(task[s])' <=> Valid(x)
        BY <3>2 DEF Valid
      <3> QED
        BY <2>2, <3>1, <3>2, <3>3 DEF TaskFits, Status
    <2>3. CASE s # t
      BY <1>1, <2>1, <2>3 DEF TaskFits, Exists, Status, Valid
    <2> QED
      BY <2>2, <2>3
  <1> QED
    BY <1>3, <1>4 DEF TaskInv
LEMMA TasksStep ==
  ASSUME TasksAssumption, TaskInv, [TasksNext]_taskVars
  PROVE  TaskInv'
  <1>0. /\ task \in [Tasks -> TaskType \cup {Absent}] /\ hidden \in [Tasks -> SUBSET Suites]
        /\ pack \subseteq Tasks /\ runs \subseteq Tasks /\ unchecked \subseteq Tasks
        /\ \A s \in pack \cup runs : Exists(s)
        /\ changes \in 0..MaxChanges /\ MaxChanges \in Nat
        /\ \A s \in Tasks : TaskFits(s)
    BY DEF TaskInv, TasksTypeOK, TasksAssumption
  <1>1. CASE UNCHANGED taskVars
    BY <1>0, <1>1 DEF taskVars, TaskInv, TasksTypeOK, TaskFits, Exists, Status, Valid
  <1>2. ASSUME NEW t \in Tasks, CreateManual(t) \/ CreateFromGitHub(t) \/ CreateImported(t)
        PROVE  TaskInv'
    <2>1. TasksTypeOK
      BY DEF TaskInv
    <2>2. PICK x \in TaskType, suites \in SUBSET Suites :
            Create(t, x, suites) /\ (ManualTask(x) \/ GitHubTask(x) \/ ImportedDraft(x))
      BY <1>2, <2>1, CreationTells
    <2> QED
      BY <2>2, CreatedFits
  <1>3. ASSUME NEW t \in Tasks, MarkReady(t) PROVE TaskInv'
    <2> DEFINE y == task[t]
               x == [y EXCEPT !.fields.status = "ready"]
    <2>1. /\ Exists(t) /\ Valid(y) /\ "ready" \in Transitions[Status(t)]
          /\ task' = [task EXCEPT ![t].fields.status = "ready"]
          /\ UNCHANGED <<hidden, pack, runs, changes, unchecked>>
      BY <1>3 DEF MarkReady
    <2>2. y \in TaskType
      BY <1>0, <2>1 DEF Exists
    <2>3. y.fields \in Fields /\ y.fields.status \in TaskStatuses
      BY <2>2, TaskFields
    <2>4. Status(t) \in {"draft", "failed"}
      BY <2>1, <2>3 DEF Transitions, Status, TaskStatuses
    <2>5. task' = [task EXCEPT ![t] = x]
      BY <2>1
    <2>6. /\ x \in TaskType /\ x.origin = y.origin /\ x.fields.body = y.fields.body
          /\ x.fields = [y.fields EXCEPT !.status = "ready"] /\ x.gold = y.gold
      BY <2>2, <2>3 DEF TaskType, Fields, TaskStatuses
    <2>7. Valid(x)
      BY <2>1, <2>3, <2>6 DEF Valid, Fields
    <2> HIDE DEF x
    <2> QED
      BY <1>0, <2>1, <2>4, <2>5, <2>6, <2>7, ChangedFits
  <1>4. ASSUME NEW t \in Tasks, StartRun(t) PROVE TaskInv'
    <2>1. /\ Exists(t) /\ Status(t) = "ready" /\ runs' = runs \cup {t}
          /\ UNCHANGED <<task, hidden, pack, changes, unchecked>>
      BY <1>4 DEF StartRun
    <2>2. TasksTypeOK'
      BY <1>0, <2>1 DEF TasksTypeOK, Exists
    <2>3. ASSUME NEW s \in Tasks PROVE TaskFits(s)'
      BY <1>0, <2>1 DEF TaskFits, Exists, Status, Valid
    <2> QED
      BY <2>2, <2>3 DEF TaskInv
  <1>5. ASSUME NEW t \in Tasks, ChangeSuites(t) \/ ChangePack(t) PROVE TaskInv'
    <2>1. /\ UNCHANGED <<task, runs, unchecked>> /\ changes' \in 0..MaxChanges /\ Exists(t)
      BY <1>0, <1>5 DEF ChangeSuites, ChangePack, Change
    <2>2. hidden' \in [Tasks -> SUBSET Suites]
      BY <1>0, <1>5 DEF ChangeSuites, ChangePack, Suites
    <2>3. pack' \subseteq Tasks /\ \A s \in pack' : s \in pack \/ s = t
      BY <1>0, <1>5 DEF ChangeSuites, ChangePack
    <2>4. TasksTypeOK'
      BY <1>0, <2>1, <2>2, <2>3 DEF TasksTypeOK, Exists
    <2>5. ASSUME NEW s \in Tasks PROVE TaskFits(s)'
      BY <1>0, <2>1 DEF TaskFits, Exists, Status, Valid
    <2> QED
      BY <2>4, <2>5 DEF TaskInv
  <1>6. ASSUME NEW t \in Tasks, Curate(t) PROVE TaskInv'
    <2> DEFINE y == task[t]
               x1 == [y EXCEPT !.fields.setup = "good", !.fields.tests = "good"]
               x2 == [y EXCEPT !.gold = "good", !.fields.issue = TRUE, !.fields.pr = TRUE]
    <2>1. /\ Exists(t) /\ Status(t) = "draft" /\ changes' \in 0..MaxChanges
          /\ UNCHANGED <<hidden, pack, runs, unchecked>>
      BY <1>0, <1>6 DEF Curate, Change
    <2>2. \/ task' = [task EXCEPT ![t].fields.setup = "good", ![t].fields.tests = "good"]
          \/ task' = [task EXCEPT ![t].gold = "good", ![t].fields.issue = TRUE,
                                  ![t].fields.pr = TRUE]
      BY <1>6 DEF Curate
    <2>3. y \in TaskType
      BY <1>0, <2>1 DEF Exists
    <2>4. y.fields \in Fields /\ y.fields.status = "draft"
      BY <2>1, <2>3, TaskFields DEF Status
    <2>5. task' = [task EXCEPT ![t] = x1] \/ task' = [task EXCEPT ![t] = x2]
      BY <1>0, <2>2
    <2>6. /\ x1 \in TaskType /\ x1.origin = y.origin /\ x1.fields.body = y.fields.body
          /\ x1.fields.status = "draft"
      BY <2>3, <2>4 DEF TaskType, Fields, Commands
    <2>7. /\ x2 \in TaskType /\ x2.origin = y.origin /\ x2.fields.body = y.fields.body
          /\ x2.fields.status = "draft"
      BY <2>3, <2>4 DEF TaskType, Fields, Commands
    <2>8. PICK x \in TaskType : /\ task' = [task EXCEPT ![t] = x]
                                /\ x.origin = y.origin /\ x.fields.body = y.fields.body
                                /\ x.fields.status = "draft"
      BY <2>5, <2>6, <2>7
    <2> HIDE DEF x1, x2
    <2> QED
      BY <1>0, <2>1, <2>8, ChangedFits
  <1> QED
    BY <1>1, <1>2, <1>3, <1>4, <1>5, <1>6 DEF TasksNext

LEMMA RunnableTasks ==
  ASSUME TasksAssumption, TaskInv
  PROVE  TasksAreRunnable
  <1>0. /\ TasksTypeOK /\ task \in [Tasks -> TaskType \cup {Absent}]
        /\ pack \subseteq Tasks /\ \A s \in pack \cup runs : Exists(s)
        /\ \A s \in Tasks : TaskFits(s)
    BY DEF TaskInv, TasksTypeOK
  <1>1. InvalidWasCreatedReady
    BY <1>0 DEF InvalidWasCreatedReady, TaskFits
  <1>2. ASSUME NEW t \in Tasks, Exists(t), Status(t) = "ready", ~Valid(task[t])
        PROVE  /\ TaskVerdict(t) = "blocked"
               /\ "ready_status_inconsistent" \in TaskErrors(task[t])
    <2> DEFINE x == task[t]
    <2>1. \/ x.origin = "manual" /\ x.gold = "none"
          \/ x.gold = "no files"
      BY <1>0, <1>2 DEF TaskFits
    <2>2. Basic(x) # {}
      BY <2>1 DEF Basic, GoldExpected
    <2>3. "ready_status_inconsistent" \in TaskErrors(x)
      BY <1>2, <2>2 DEF TaskErrors, Status
    <2> QED
      BY <2>3 DEF TaskVerdict, Overall
  <1>3. InvalidReadyIsBlocked
    BY <1>2 DEF InvalidReadyIsBlocked
  <1>4. ASSUME PackVerdict # "blocked" PROVE RunnablePack
    <2>1. PackErrors = {}
      BY <1>4 DEF PackVerdict, Overall
    <2>2. /\ pack # {} /\ ~(pack # {} /\ ReadyMembers = {})
          /\ \A t \in pack : task[t].fields.url /\ task[t].fields.tests = "good"
          /\ \A t \in ReadyMembers : task[t].gold # "none"
      BY <2>1 DEF PackErrors
    <2>3. ASSUME NEW t \in ReadyMembers
          PROVE  TaskErrors(task[t]) \subseteq
                   {"base_commit_missing", "problem_statement_missing", "setup_commands_invalid",
                    "gold_changed_files_missing", "ready_status_inconsistent"}
      <3> DEFINE x == task[t]
      <3>1. t \in pack /\ Exists(t)
        BY <1>0 DEF ReadyMembers
      <3>2. x.fields.url /\ x.fields.tests = "good" /\ x.gold # "none"
        BY <2>2, <2>3, <3>1
      <3>3. x.origin = "imported" => x.fields.body = TRUE
        BY <1>0, <3>1 DEF TaskFits
      <3>4. CommandErrors(x.fields) \subseteq {"setup_commands_invalid"}
        BY <3>2 DEF CommandErrors
      <3>5. Basic(x) \subseteq
              {"base_commit_missing", "problem_statement_missing", "setup_commands_invalid",
               "gold_changed_files_missing"}
        BY <3>2, <3>3, <3>4 DEF Basic
      <3> QED
        BY <3>5 DEF TaskErrors
    <2> QED
      BY <2>2, <2>3 DEF RunnablePack
  <1> QED
    BY <1>0, <1>1, <1>3, <1>4 DEF TasksAreRunnable, RunnablePack

LEMMA SettledStep ==
  ASSUME TasksAssumption, TaskInv, [TasksNext]_taskVars, NEW t \in Tasks, Exists(t),
         Status(t) \notin {"draft", "failed"}
  PROVE  task'[t] = task[t]
  <1>0. task \in [Tasks -> TaskType \cup {Absent}] /\ task[t] \in TaskType
    BY DEF TaskInv, TasksTypeOK, Exists
  <1>1. CASE UNCHANGED task
    BY <1>1
  <1>2. ASSUME NEW s \in Tasks, CreateManual(s) \/ CreateFromGitHub(s) \/ CreateImported(s)
        PROVE  task'[t] = task[t]
    <2>1. TasksTypeOK
      BY DEF TaskInv
    <2>2. PICK x \in TaskType, suites \in SUBSET Suites : Create(s, x, suites)
      BY <1>2, <2>1, CreationTells
    <2> QED
      BY <1>0, <2>2 DEF Create
  <1>3. ASSUME NEW s \in Tasks, MarkReady(s) PROVE task'[t] = task[t]
    <2>1. /\ Exists(s) /\ "ready" \in Transitions[Status(s)]
          /\ task' = [task EXCEPT ![s].fields.status = "ready"]
      BY <1>3 DEF MarkReady
    <2>2. s # t
      <3>1. task[t].fields.status \in TaskStatuses
        BY <1>0, TaskFields
      <3> QED
        BY <2>1, <3>1 DEF Transitions, Status, TaskStatuses
    <2> QED
      BY <1>0, <2>1, <2>2
  <1>4. ASSUME NEW s \in Tasks, Curate(s) PROVE task'[t] = task[t]
    <2>1. s # t
      BY <1>4 DEF Curate
    <2> QED
      BY <1>0, <1>4, <2>1 DEF Curate
  <1> QED
    BY <1>1, <1>2, <1>3, <1>4
    DEF TasksNext, taskVars, StartRun, ChangeSuites, ChangePack

(* What is known of every task is kept by every step.                      *)
THEOREM TasksInductive ==
  ASSUME TasksAssumption
  PROVE  TasksSpec => []TaskInv
  <1>1. ASSUME TasksInit PROVE TaskInv
    <2>1. TasksTypeOK
      BY <1>1 DEF TasksInit, TasksTypeOK, TasksAssumption
    <2>2. \A t \in Tasks : TaskFits(t)
      BY <1>1 DEF TasksInit, TaskFits, Exists
    <2> QED
      BY <2>1, <2>2 DEF TaskInv
  <1>2. TasksInit => TaskInv
    BY <1>1
  <1>3. TaskInv /\ [TasksNext]_taskVars => TaskInv'
    BY TasksStep
  <1> QED
    BY <1>2, <1>3, PTL DEF TasksSpec

(* Whatever creates, curates, marks and runs tasks: what is not valid is   *)
(* ready only if it was created so and lacks its gold patch, so that the   *)
(* reports block it, and packs that are not blocked can be run             *)
(* (benchmark_tasks/validation.py, benchmark_validation/service.py).       *)
THEOREM TasksRunnable ==
  ASSUME TasksAssumption
  PROVE  TasksSpec => []TasksAreRunnable
  <1>1. TaskInv => TasksAreRunnable
    BY RunnableTasks
  <1> QED
    BY <1>1, TasksInductive, PTL

(* Nothing a client does takes a task out of a final state or changes it   *)
(* there (benchmark_tasks/status.py).                                      *)
THEOREM TasksStay ==
  ASSUME TasksAssumption
  PROVE  TasksSpec => SettledTasksStay
  <1>1. TaskInv /\ [TasksNext]_taskVars =>
          \A t \in Tasks : Exists(t) /\ Status(t) \notin {"draft", "failed"}
                             => task'[t] = task[t]
    BY SettledStep
  <1> QED
    BY <1>1, TasksInductive, PTL DEF TasksSpec, SettledTasksStay

-----------------------------------------------------------------------------
(* The ingestion of issues and pull requests (GitHubIngestion).            *)

(* A pull request that was seen merged does not change any more.           *)
AsMerged(pull) == pull.number \in PullRequests /\ (pull.merged => Final(pull, pull.head))

AskingFields ==
  {"kind", "number", "pc", "found", "pull", "previews", "text", "tests", "content"}
AskingShape(r) ==
  /\ DOMAIN r = AskingFields /\ DOMAIN r.pull = {"number", "head", "merged", "files"}
  /\ r.previews \in Seq(ToSet(r.previews)) /\ Len(r.previews) <= LINKED_PR_LIMIT
  /\ r.pc \in {"idle", "read", "timeline", "metadata", "files", "diff", "store", "wait",
               "candidates", "commit", "done", "failed"}

(* What a request that is at its pc has read.                              *)
Started(r) ==
  /\ r.pc \in {"idle", "read", "timeline"} => r.previews = <<>>
  /\ r.pc = "timeline" => r.kind = "issue"
  /\ r.pc \in {"metadata", "files"} => More(r)
  /\ r.pc \notin {"candidates", "commit", "done", "failed"} => r.content = {}

PullFits(r) ==
  /\ r.pc = "files" =>
       /\ r.pull.number \in PullRequests
       /\ r.pull.merged => merged[r.pull.number] /\ r.pull.head = head[r.pull.number]
  /\ \A p \in ToSet(r.previews) : AsMerged(p)

Later(r) == r.pc \in {"diff", "store", "wait", "candidates", "commit"}
HasAll(r) ==
  /\ r.pc \in {"diff", "store", "wait", "commit"} => r.kind = "create"
  /\ Later(r) /\ r.kind = "create" => r.pull.merged /\ AsMerged(r.pull)
  /\ Later(r) /\ r.pc # "diff" /\ r.kind = "create" => r.text = r.pull.head

TestsFit(r) ==
  /\ Later(r) => r.tests \subseteq r.pull.files \cap TestFiles
  /\ r.pc = "candidates" => r.tests # {}
  /\ r.content = {} \/ r.content \subseteq FilesAt[r.pull.number][r.pull.head] \ Unreadable
  /\ Later(r) => r.content \subseteq r.pull.files \cap TestFiles

AskingFits(r) == AskingShape(r) /\ Started(r) /\ PullFits(r) /\ HasAll(r) /\ TestsFit(r)

GitHubFits ==
  /\ head \in [PullRequests -> 0..MaxPushes] /\ merged \in [PullRequests -> BOOLEAN]
  /\ failures \in 0..MaxFailures

RequestsAreFit ==
  /\ DOMAIN asking = Clients /\ asking = [c \in Clients |-> asking[c]]
  /\ \A c \in Clients : AskingFits(asking[c])

Holds(r) == r.pc \in {"candidates", "commit"} /\ r.kind = "create"
RepoFits ==
  /\ repo \in Clients \cup {"none", "stored"} /\ (repo = "stored" <=> creations # {})
  /\ \A c \in Clients : repo = c => Holds(asking[c])

CreationFits(t) ==
  /\ t.by \in Clients /\ t.pull.number \in PullRequests /\ Final(t.pull, t.text)
  /\ t.suites \subseteq (t.pull.files \cap TestFiles) \ (Unreadable \cup Unsupported)

Created(r) == r.pc = "done" /\ r.kind = "create"
By(c) == {t \in creations : t.by = c}
CreationsFit ==
  /\ \A t \in creations : CreationFits(t)
  /\ \A c \in Clients : /\ Created(asking[c]) => \E t : By(c) = {t}
                        /\ ~Created(asking[c]) => By(c) = {}

IngestInv == GitHubFits /\ RequestsAreFit /\ RepoFits /\ CreationsFit

-----------------------------------------------------------------------------
LEMMA OneMorePreview ==
  ASSUME NEW s, s \in Seq(ToSet(s)), NEW e
  PROVE  /\ Append(s, e) \in Seq(ToSet(Append(s, e))) /\ Len(Append(s, e)) = Len(s) + 1
         /\ Len(s) \in Nat /\ ToSet(Append(s, e)) = ToSet(s) \cup {e}
  <1>1. /\ Len(s) \in Nat /\ DOMAIN s = 1..Len(s) /\ \A i \in 1..Len(s) : s[i] \in ToSet(s)
        /\ s = [i \in 1..Len(s) |-> s[i]]
    OBVIOUS
  <1> DEFINE n == Len(s)
             S == ToSet(s) \cup {e}
  <1>2. s \in Seq(S)
    BY <1>1
  <1>3. /\ Append(s, e) \in Seq(S) /\ Len(Append(s, e)) = n + 1
        /\ DOMAIN Append(s, e) = 1..(n + 1) /\ Append(s, e)[n + 1] = e
        /\ \A i \in 1..n : Append(s, e)[i] = s[i]
    BY <1>2
  <1>4. ToSet(s) = {s[i] : i \in 1..n}
    BY <1>1 DEF ToSet
  <1>5. ToSet(Append(s, e)) = {Append(s, e)[i] : i \in 1..(n + 1)}
    BY <1>3 DEF ToSet
  <1>6. 1..(n + 1) = 1..n \cup {n + 1}
    BY <1>1
  <1>7. ToSet(Append(s, e)) = S
    BY <1>3, <1>4, <1>5, <1>6
  <1> QED
    BY <1>1, <1>3, <1>7

(* A request that only comes to another pc.                                *)
LEMMA PcOnly ==
  ASSUME NEW r, DOMAIN r = AskingFields, NEW after, NEW s, s = [r EXCEPT !.pc = after]
  PROVE  /\ DOMAIN s = AskingFields /\ s.pc = after /\ s.kind = r.kind /\ s.number = r.number
         /\ s.found = r.found /\ s.pull = r.pull /\ s.previews = r.previews
         /\ s.text = r.text /\ s.tests = r.tests /\ s.content = r.content
  BY DEF AskingFields

(* A request of a client changes, and of GitHub nothing does.              *)
LEMMA OneRequest ==
  ASSUME IngestionAssumption, IngestInv, NEW c \in Clients, NEW s, Update(c, s), AskingFits(s),
         UNCHANGED <<head, merged, creations>>, failures' \in 0..MaxFailures,
         ~Created(asking[c]), ~Created(s),
         \/ repo' = repo /\ (repo = c => Holds(s))
         \/ repo = "none" /\ repo' = c /\ Holds(s)
         \/ repo = c /\ repo' = "none"
  PROVE  IngestInv'
  <1>1. /\ asking' = [asking EXCEPT ![c] = s] /\ DOMAIN asking = Clients
        /\ asking = [d \in Clients |-> asking[d]]
    BY DEF Update, IngestInv, RequestsAreFit
  <1>2. /\ asking'[c] = s /\ \A d \in Clients \ {c} : asking'[d] = asking[d]
        /\ DOMAIN asking' = Clients /\ asking' = [d \in Clients |-> asking'[d]]
    BY <1>1
  <1>3. GitHubFits'
    BY DEF IngestInv, GitHubFits
  <1>4. ASSUME NEW d \in Clients PROVE AskingFits(asking'[d])
    BY <1>2 DEF IngestInv, RequestsAreFit
  <1>5. ASSUME NEW d \in Clients PROVE AskingFits(asking[d])'
    BY <1>4 DEF AskingFits, AskingShape, Started, PullFits, HasAll, TestsFit, AsMerged, Final,
                More, Later
  <1>6. RequestsAreFit'
    BY <1>2, <1>5 DEF RequestsAreFit
  <1>7. /\ repo' \in Clients \cup {"none", "stored"} /\ (repo' = "stored" <=> creations # {})
        /\ \A d \in Clients \ {c} : repo' = d => repo = d
    BY DEF IngestInv, RepoFits, IngestionAssumption
  <1>8. repo' = c => Holds(s)
    BY DEF IngestInv, RepoFits, IngestionAssumption
  <1>9. \A d \in Clients : repo' = d => Holds(asking'[d])
    BY <1>2, <1>7, <1>8 DEF IngestInv, RepoFits
  <1>10. RepoFits'
    BY <1>7, <1>9 DEF RepoFits, Holds
  <1>11. \A t \in creations : CreationFits(t)'
    BY DEF IngestInv, CreationsFit, CreationFits, Final
  <1>12. \A d \in Clients : Created(asking'[d]) <=> Created(asking[d])
    BY <1>2
  <1>13. \A d \in Clients : By(d)' = By(d)
    BY DEF By
  <1>14. CreationsFit'
    BY <1>11, <1>12, <1>13 DEF IngestInv, CreationsFit, Created
  <1> QED
    BY <1>3, <1>6, <1>10, <1>14 DEF IngestInv

LEMMA AskingIs ==
  ASSUME IngestInv, NEW c \in Clients
  PROVE  /\ AskingFits(asking[c]) /\ DOMAIN asking[c] = AskingFields
         /\ failures' = failures => failures' \in 0..MaxFailures
         /\ asking[c].pc \notin {"candidates", "commit"} => repo # c
         /\ asking[c].pc # "done" => ~Created(asking[c])
  BY DEF IngestInv, RequestsAreFit, AskingFits, AskingShape, GitHubFits, RepoFits, Holds, Created

LEMMA AskKeeps ==
  ASSUME IngestionAssumption, IngestInv, NEW c \in Clients, NEW kind, NEW n, Ask(c, kind, n)
  PROVE  IngestInv'
  <1> DEFINE s == [Idle EXCEPT !.kind = kind, !.number = n, !.pc = "read"]
  <1>1. /\ At(c, "idle") /\ Update(c, s)
        /\ UNCHANGED <<head, merged, failures, repo, creations>>
    BY DEF Ask
  <1>2. /\ DOMAIN s = AskingFields /\ s.pc = "read" /\ s.pull = NoPull /\ s.previews = <<>>
        /\ s.content = {}
    BY DEF Idle, AskingFields
  <1>3. ToSet(<<>>) = {} /\ <<>> \in Seq(ToSet(<<>>)) /\ Len(<<>>) <= LINKED_PR_LIMIT
    BY DEF ToSet, IngestionAssumption
  <1>4. DOMAIN s.pull = {"number", "head", "merged", "files"}
    BY <1>2 DEF NoPull
  <1> HIDE DEF s
  <1>5. AskingFits(s)
    BY <1>2, <1>3, <1>4
    DEF AskingFits, AskingShape, Started, PullFits, HasAll, TestsFit, Later
  <1>6. ~Created(s) /\ ~Created(asking[c]) /\ repo # c /\ failures' \in 0..MaxFailures
    BY <1>1, <1>2, AskingIs DEF Created, At
  <1> QED
    BY <1>1, <1>5, <1>6, OneRequest

(* Whatever fails leaves nothing, also not its row.                        *)
LEMMA FailKeeps ==
  ASSUME IngestionAssumption, IngestInv, NEW c \in Clients, asking[c].pc # "done", Fail(c),
         UNCHANGED <<head, merged>>, failures' \in 0..MaxFailures
  PROVE  IngestInv'
  <1> DEFINE r == asking[c]
             s == [r EXCEPT !.pc = "failed"]
  <1>1. /\ Update(c, s) /\ creations' = creations
        /\ \/ repo' = repo /\ repo # c
           \/ repo = c /\ repo' = "none"
    BY DEF Fail
  <1>2. AskingFits(r) /\ DOMAIN r = AskingFields /\ ~Created(r)
    BY AskingIs
  <1> HIDE DEF r
  <1>3. /\ DOMAIN s = AskingFields /\ s.pc = "failed" /\ s.kind = r.kind /\ s.pull = r.pull
        /\ s.previews = r.previews /\ s.content = r.content
    BY <1>2, PcOnly
  <1> HIDE DEF s
  <1>4. AskingFits(s)
    BY <1>2, <1>3 DEF AskingFits, AskingShape, Started, PullFits, HasAll, TestsFit, Later
  <1>5. ~Created(s)
    BY <1>3 DEF Created
  <1> QED
    BY <1>1, <1>2, <1>4, <1>5, OneRequest DEF r

LEMMA ReadKeeps ==
  ASSUME IngestionAssumption, IngestInv, NEW c \in Clients, Read(c)
  PROVE  IngestInv'
  <1> DEFINE r == asking[c]
             s == IF r.kind = "issue" THEN [r EXCEPT !.pc = "timeline"]
                  ELSE [r EXCEPT !.pc = "metadata", !.found = <<r.number>>]
  <1>1. /\ r.pc = "read" /\ Update(c, s)
        /\ UNCHANGED <<head, merged, failures, repo, creations>>
    BY DEF Read, At
  <1>2. AskingFits(r) /\ DOMAIN r = AskingFields /\ ~Created(r) /\ repo # c
        /\ failures' \in 0..MaxFailures
    BY <1>1, AskingIs
  <1> HIDE DEF r
  <1>3. /\ DOMAIN s = AskingFields /\ s.kind = r.kind /\ s.pull = r.pull
        /\ s.previews = r.previews /\ s.content = r.content
        /\ \/ s.pc = "timeline" /\ s.kind = "issue"
           \/ s.pc = "metadata" /\ s.found = <<r.number>>
    BY <1>2 DEF AskingFields
  <1> HIDE DEF s
  <1>4. r.previews = <<>> /\ r.content = {}
    BY <1>1, <1>2 DEF AskingFits, Started
  <1>5. s.pc = "metadata" => More(s)
    BY <1>3, <1>4 DEF More, IngestionAssumption
  <1>6. AskingFits(s)
    BY <1>2, <1>3, <1>4, <1>5
    DEF AskingFits, AskingShape, Started, PullFits, HasAll, TestsFit, Later
  <1>7. ~Created(s)
    BY <1>3 DEF Created
  <1> QED
    BY <1>1, <1>2, <1>6, <1>7, OneRequest DEF r

LEMMA DetectKeeps ==
  ASSUME IngestionAssumption, IngestInv, NEW c \in Clients, NEW timeline, At(c, "timeline"),
         Detect(c, timeline), UNCHANGED <<head, merged>>, failures' \in 0..MaxFailures
  PROVE  IngestInv'
  <1> DEFINE r == asking[c]
             linked == [r EXCEPT !.found = Linked(r.number, timeline)]
             after == IF More(linked) THEN "metadata" ELSE "done"
             s == [linked EXCEPT !.pc = after]
  <1>1. r.pc = "timeline" /\ Update(c, s) /\ UNCHANGED <<repo, creations>>
    BY DEF Detect, At
  <1>2. AskingFits(r) /\ DOMAIN r = AskingFields /\ ~Created(r) /\ repo # c
    BY <1>1, AskingIs
  <1> HIDE DEF r
  <1>3. /\ DOMAIN linked = AskingFields /\ linked.kind = r.kind /\ linked.pull = r.pull
        /\ linked.previews = r.previews /\ linked.content = r.content
    BY <1>2 DEF AskingFields
  <1> HIDE DEF linked
  <1>4. /\ DOMAIN s = AskingFields /\ s.kind = r.kind /\ s.pull = r.pull
        /\ s.previews = r.previews /\ s.content = r.content
        /\ s.pc = after /\ s.found = linked.found
    BY <1>3, PcOnly
  <1> HIDE DEF s
  <1>5. /\ r.kind = "issue" /\ r.content = {}
    BY <1>1, <1>2 DEF AskingFits, Started
  <1>6. s.pc = "metadata" => More(s)
    BY <1>3, <1>4 DEF More
  <1>7. s.pc \in {"metadata", "done"}
    BY <1>4
  <1>8. AskingFits(s)
    BY <1>2, <1>4, <1>5, <1>6, <1>7
    DEF AskingFits, AskingShape, Started, PullFits, HasAll, TestsFit, Later
  <1>9. ~Created(s)
    BY <1>4, <1>5 DEF Created
  <1> QED
    BY <1>1, <1>2, <1>8, <1>9, OneRequest DEF r

LEMMA ReadMetadataKeeps ==
  ASSUME IngestionAssumption, IngestInv, NEW c \in Clients, ReadMetadata(c)
  PROVE  IngestInv'
  <1> DEFINE r == asking[c]
             n == NextNumber(r)
             pull == [number |-> n, head |-> head[n], merged |-> merged[n], files |-> {}]
             s == [r EXCEPT !.pc = "files", !.pull = pull]
  <1>1. /\ r.pc = "metadata" /\ UNCHANGED <<head, merged, failures>>
        /\ \/ Fail(c)
           \/ n \in PullRequests /\ Update(c, s) /\ UNCHANGED <<repo, creations>>
    BY DEF ReadMetadata, At
  <1>2. AskingFits(r) /\ DOMAIN r = AskingFields /\ ~Created(r) /\ repo # c
        /\ failures' \in 0..MaxFailures
    BY <1>1, AskingIs
  <1>3. CASE Fail(c)
    BY <1>1, <1>2, <1>3, FailKeeps
  <1>4. CASE n \in PullRequests /\ Update(c, s) /\ UNCHANGED <<repo, creations>>
    <2> HIDE DEF n, r
    <2>1. /\ pull.number = n /\ pull.head = head[n] /\ pull.merged = merged[n]
          /\ DOMAIN pull = {"number", "head", "merged", "files"}
      OBVIOUS
    <2> HIDE DEF pull
    <2>2. /\ DOMAIN s = AskingFields /\ s.pc = "files" /\ s.pull = pull /\ s.kind = r.kind
          /\ s.previews = r.previews /\ s.content = r.content /\ s.found = r.found
      BY <1>2 DEF AskingFields
    <2> HIDE DEF s
    <2>3. r.content = {} /\ More(r)
      BY <1>1, <1>2 DEF AskingFits, Started, r
    <2>4. More(s)
      BY <2>2, <2>3 DEF More
    <2>5. AskingFits(s)
      BY <1>2, <1>4, <2>1, <2>2, <2>3, <2>4
      DEF AskingFits, AskingShape, Started, PullFits, HasAll, TestsFit, Later
    <2>6. ~Created(s)
      BY <2>2 DEF Created
    <2> QED
      BY <1>1, <1>2, <1>4, <2>5, <2>6, OneRequest DEF r
  <1> QED
    BY <1>1, <1>3, <1>4

(* What was read of the head is final if the request was merged before.    *)
LEMMA ReadFilesKeeps ==
  ASSUME IngestionAssumption, IngestInv, NEW c \in Clients, ReadFiles(c)
  PROVE  IngestInv'
  <1> DEFINE r == asking[c]
             n == r.pull.number
             files == FilesAt[n][head[n]]
             read == [r EXCEPT !.pull.files = files, !.tests = files \cap TestFiles]
             seen == [read EXCEPT !.previews = Append(@, read.pull)]
             s == [seen EXCEPT !.pc = AfterPull(seen)]
  <1>1. r.pc = "files" /\ Update(c, s) /\ UNCHANGED <<head, merged, failures, repo, creations>>
    BY DEF ReadFiles, At
  <1>2. AskingFits(r) /\ DOMAIN r = AskingFields /\ ~Created(r) /\ repo # c
        /\ failures' \in 0..MaxFailures
    BY <1>1, AskingIs
  <1>3. r.content = {} /\ More(r) /\ n \in PullRequests
        /\ DOMAIN r.pull = {"number", "head", "merged", "files"}
    BY <1>1, <1>2 DEF AskingFits, Started, PullFits, AskingShape
  <1>4. r.pull.merged => merged[n] /\ r.pull.head = head[n]
    BY <1>1, <1>2 DEF AskingFits, PullFits
  <1> HIDE DEF r
  <1>5. /\ read.pull.number = n /\ read.pull.head = r.pull.head
        /\ read.pull.merged = r.pull.merged /\ read.pull.files = files
        /\ DOMAIN read.pull = {"number", "head", "merged", "files"}
        /\ read.tests = files \cap TestFiles /\ DOMAIN read = AskingFields
        /\ read.kind = r.kind /\ read.previews = r.previews /\ read.content = r.content
        /\ read.found = r.found
    BY <1>2, <1>3 DEF AskingFields
  <1> HIDE DEF read
  <1>6. /\ seen.pull = read.pull /\ seen.previews = Append(r.previews, read.pull)
        /\ seen.tests = read.tests /\ seen.content = {} /\ seen.kind = r.kind
        /\ DOMAIN seen = AskingFields
    BY <1>3, <1>5 DEF AskingFields
  <1> HIDE DEF seen, files
  <1>7. AsMerged(read.pull)
    BY <1>3, <1>4, <1>5 DEF AsMerged, Final, files
  <1>8. /\ seen.previews \in Seq(ToSet(seen.previews))
        /\ Len(seen.previews) <= LINKED_PR_LIMIT
        /\ \A p \in ToSet(seen.previews) : AsMerged(p)
    <2>1. /\ r.previews \in Seq(ToSet(r.previews)) /\ \A p \in ToSet(r.previews) : AsMerged(p)
      BY <1>2 DEF AskingFits, AskingShape, PullFits
    <2>2. /\ seen.previews \in Seq(ToSet(seen.previews)) /\ Len(r.previews) \in Nat
          /\ Len(seen.previews) = Len(r.previews) + 1
          /\ ToSet(seen.previews) = ToSet(r.previews) \cup {read.pull}
      BY <1>6, <2>1, OneMorePreview
    <2> QED
      BY <1>3, <1>7, <2>1, <2>2 DEF More, IngestionAssumption
  <1> DEFINE after == AfterPull(seen)
  <1>9. /\ after \in {"metadata", "diff", "failed", "candidates", "done"}
        /\ after = "metadata" => More(seen)
        /\ after = "diff" => seen.kind = "create" /\ seen.pull.merged
        /\ after = "candidates" => seen.kind = "trusted" /\ seen.tests # {}
        /\ after = "done" => seen.kind # "create"
    BY DEF AfterPull
  <1> HIDE DEF after
  <1>10. /\ DOMAIN s = AskingFields /\ s.pc = after /\ s.kind = seen.kind /\ s.pull = seen.pull
         /\ s.previews = seen.previews /\ s.tests = seen.tests /\ s.content = seen.content
         /\ s.found = seen.found
    BY <1>6, PcOnly DEF after
  <1>11. Update(c, s)
    BY <1>1
  <1> HIDE DEF s
  <1>12. AskingShape(s) /\ Started(s) /\ PullFits(s)
    BY <1>5, <1>6, <1>8, <1>9, <1>10 DEF AskingShape, Started, PullFits, More
  <1>13. HasAll(s) /\ TestsFit(s)
    BY <1>5, <1>6, <1>7, <1>9, <1>10 DEF HasAll, TestsFit, Later
  <1>14. ~Created(s)
    BY <1>9, <1>10 DEF Created
  <1> QED
    BY <1>1, <1>2, <1>11, <1>12, <1>13, <1>14, OneRequest DEF AskingFits, r

(* A request to create has its text, of the head it was shown.             *)
LEMMA TextKeeps ==
  ASSUME IngestionAssumption, IngestInv, NEW c \in Clients, At(c, "diff"), NEW text,
         asking[c].pull.merged => text = asking[c].pull.head,
         Update(c, [asking[c] EXCEPT !.pc = "store", !.text = text]),
         UNCHANGED <<head, merged, repo, creations>>, failures' \in 0..MaxFailures
  PROVE  IngestInv'
  <1> DEFINE r == asking[c]
             s == [r EXCEPT !.pc = "store", !.text = text]
  <1>1. r.pc = "diff" /\ Update(c, s)
    BY DEF At
  <1>2. AskingFits(r) /\ DOMAIN r = AskingFields /\ ~Created(r) /\ repo # c
    BY <1>1, AskingIs
  <1>3. r.pull.merged => text = r.pull.head
    OBVIOUS
  <1> HIDE DEF r
  <1>4. /\ DOMAIN s = AskingFields /\ s.pc = "store" /\ s.kind = r.kind /\ s.pull = r.pull
        /\ s.previews = r.previews /\ s.tests = r.tests /\ s.content = r.content
        /\ s.text = text
    BY <1>2 DEF AskingFields
  <1> HIDE DEF s
  <1>5. AskingFits(s)
    BY <1>1, <1>2, <1>3, <1>4
    DEF AskingFits, AskingShape, Started, PullFits, HasAll, TestsFit, Later
  <1>6. ~Created(s)
    BY <1>4 DEF Created
  <1> QED
    BY <1>1, <1>2, <1>5, <1>6, OneRequest DEF r

LEMMA ReadDiffKeeps ==
  ASSUME IngestionAssumption, IngestInv, NEW c \in Clients, ReadDiff(c)
  PROVE  IngestInv'
  <1> DEFINE text == head[asking[c].pull.number]
  <1>1. /\ At(c, "diff") /\ Update(c, [asking[c] EXCEPT !.pc = "store", !.text = text])
        /\ UNCHANGED <<head, merged, failures, repo, creations>>
    BY DEF ReadDiff
  <1>2. AskingFits(asking[c]) /\ failures' \in 0..MaxFailures
    BY <1>1, AskingIs
  <1>3. asking[c].pull.merged => text = asking[c].pull.head
    BY <1>1, <1>2 DEF AskingFits, HasAll, Later, AsMerged, Final, At
  <1> QED
    BY <1>1, <1>2, <1>3, TextKeeps

(* A request to create holds the row or waits for it.                      *)
LEMMA StoreKeeps ==
  ASSUME IngestionAssumption, IngestInv, NEW c \in Clients, Store(c)
  PROVE  IngestInv'
  <1> DEFINE r == asking[c]
             next == IF r.tests # {} THEN "candidates" ELSE "commit"
  <1>1. PICK after : /\ Update(c, [r EXCEPT !.pc = after])
                  /\ r.pc \in {"store", "wait"}
                  /\ UNCHANGED <<head, merged, failures, creations>>
                  /\ \/ after \in {"wait", "failed", next} /\ repo' = repo
                     \/ after = next /\ repo = "none" /\ repo' = c
    BY DEF Store, At
  <1> DEFINE s == [r EXCEPT !.pc = after]
  <1>2. AskingFits(r) /\ DOMAIN r = AskingFields /\ ~Created(r) /\ repo # c
        /\ failures' \in 0..MaxFailures
    BY <1>1, AskingIs
  <1>3. r.kind = "create"
    BY <1>1, <1>2 DEF AskingFits, HasAll
  <1>4. Update(c, s)
    BY <1>1
  <1>5. (next = "candidates" /\ r.tests # {}) \/ next = "commit"
    OBVIOUS
  <1> HIDE DEF r, next
  <1>6. /\ DOMAIN s = AskingFields /\ s.pc = after /\ s.kind = r.kind /\ s.pull = r.pull
        /\ s.previews = r.previews /\ s.tests = r.tests /\ s.content = r.content
        /\ s.text = r.text
    BY <1>2, PcOnly
  <1> HIDE DEF s
  <1>7. /\ after \in {"wait", "failed", "candidates", "commit"}
        /\ after = "candidates" => r.tests # {}
    BY <1>1, <1>5
  <1>8. AskingShape(s) /\ Started(s) /\ PullFits(s)
    BY <1>1, <1>2, <1>6, <1>7 DEF AskingFits, AskingShape, Started, PullFits
  <1>9. HasAll(s) /\ TestsFit(s)
    BY <1>1, <1>2, <1>3, <1>6, <1>7 DEF AskingFits, HasAll, TestsFit, Later
  <1>10. ~Created(s)
    BY <1>6, <1>7 DEF Created
  <1>11. after = next => Holds(s)
    BY <1>3, <1>5, <1>6 DEF Holds
  <1> QED
    BY <1>1, <1>2, <1>4, <1>8, <1>9, <1>10, <1>11, OneRequest DEF AskingFits, r

(* A test file is done, whether or not its content could be read.          *)
LEMMA CandidateKeeps ==
  ASSUME IngestionAssumption, IngestInv, NEW c \in Clients, At(c, "candidates"), NEW content,
         content \subseteq {Candidate(c)},
         LET p == asking[c].pull IN content \subseteq FilesAt[p.number][p.head] \ Unreadable,
         NextCandidate(c, Candidate(c), content),
         UNCHANGED <<head, merged>>, failures' \in 0..MaxFailures
  PROVE  IngestInv'
  <1> DEFINE r == asking[c]
             f == Candidate(c)
             left == r.tests \ {f}
             after == IF left # {} THEN r.pc ELSE IF Creating(c) THEN "commit" ELSE "done"
             s == [r EXCEPT !.tests = left, !.content = @ \cup content, !.pc = after]
  <1>1. r.pc = "candidates" /\ UNCHANGED <<repo, creations>>
    BY DEF NextCandidate, At
  <1>2. AskingFits(r) /\ DOMAIN r = AskingFields /\ ~Created(r)
    BY <1>1, AskingIs
  <1>3. Update(c, s)
    BY <1>1 DEF NextCandidate, At
  <1>4. repo = c => r.kind = "create"
    BY DEF IngestInv, RepoFits, Holds
  <1>5. /\ after \in {"candidates", "commit", "done"} /\ (after = "candidates" => left # {})
        /\ (after = "commit" => r.kind = "create") /\ (after = "done" => r.kind # "create")
    BY <1>1 DEF Creating
  <1>6. r.tests \subseteq r.pull.files \cap TestFiles /\ r.tests # {}
    BY <1>1, <1>2 DEF AskingFits, TestsFit, Later
  <1>7. f \in r.tests
    BY <1>6 DEF Candidate
  <1>8. /\ r.content \subseteq r.pull.files \cap TestFiles
        /\ r.content \subseteq FilesAt[r.pull.number][r.pull.head] \ Unreadable
    BY <1>1, <1>2 DEF AskingFits, TestsFit, Later
  <1>9. content \subseteq FilesAt[r.pull.number][r.pull.head] \ Unreadable
    OBVIOUS
  <1>10. content \subseteq r.pull.files \cap TestFiles
    BY <1>6, <1>7
  <1>11. left \subseteq r.pull.files \cap TestFiles
    BY <1>6
  <1> HIDE DEF r, left, after, f
  <1>12. /\ DOMAIN s = AskingFields /\ s.pc = after /\ s.kind = r.kind /\ s.pull = r.pull
         /\ s.previews = r.previews /\ s.tests = left /\ s.content = r.content \cup content
         /\ s.text = r.text
    BY <1>2 DEF AskingFields
  <1> HIDE DEF s
  <1>13. AskingShape(s) /\ Started(s) /\ PullFits(s)
    BY <1>2, <1>5, <1>12 DEF AskingFits, AskingShape, Started, PullFits
  <1>14. HasAll(s)
    BY <1>1, <1>2, <1>5, <1>12 DEF AskingFits, HasAll, Later
  <1>15. TestsFit(s)
    BY <1>5, <1>8, <1>9, <1>10, <1>11, <1>12 DEF TestsFit
  <1>16. ~Created(s) /\ (repo = c => Holds(s))
    BY <1>4, <1>5, <1>12 DEF Created, Holds
  <1> QED
    BY <1>1, <1>2, <1>3, <1>13, <1>14, <1>15, <1>16, OneRequest DEF AskingFits, r

LEMMA ReadCandidateKeeps ==
  ASSUME IngestionAssumption, IngestInv, NEW c \in Clients, ReadCandidate(c)
  PROVE  IngestInv'
  <1> DEFINE f == Candidate(c)
             p == asking[c].pull
             content == IF f \in FilesAt[p.number][p.head] \ Unreadable THEN {f} ELSE {}
  <1>1. /\ At(c, "candidates") /\ NextCandidate(c, f, content)
        /\ UNCHANGED <<head, merged, failures>>
    BY DEF ReadCandidate
  <1>2. content \subseteq {f} /\ content \subseteq FilesAt[p.number][p.head] \ Unreadable
    OBVIOUS
  <1>3. failures' \in 0..MaxFailures
    BY <1>1, AskingIs
  <1> HIDE DEF content
  <1> QED
    BY <1>1, <1>2, <1>3, CandidateKeeps

(* What is committed has the client's request behind it.                   *)
LEMMA CommitKeeps ==
  ASSUME IngestionAssumption, IngestInv, NEW c \in Clients, CommitTask(c)
  PROVE  IngestInv'
  <1> DEFINE r == asking[c]
             s == [r EXCEPT !.pc = "done"]
             t == [by |-> c, pull |-> r.pull, text |-> r.text,
                   suites |-> r.content \ Unsupported]
  <1>1. /\ r.pc = "commit" /\ creations' = creations \cup {t} /\ repo' = "stored"
        /\ Update(c, s) /\ UNCHANGED <<head, merged, failures>>
    BY DEF CommitTask, At
  <1>2. AskingFits(r) /\ DOMAIN r = AskingFields /\ ~Created(r)
    BY <1>1, AskingIs
  <1>3. t.by = c /\ t.pull = r.pull /\ t.text = r.text /\ t.suites = r.content \ Unsupported
    OBVIOUS
  <1>4. /\ asking' = [asking EXCEPT ![c] = s] /\ DOMAIN asking = Clients
        /\ asking = [d \in Clients |-> asking[d]]
    BY <1>1 DEF Update, IngestInv, RequestsAreFit
  <1>5. /\ asking'[c] = s /\ \A d \in Clients \ {c} : asking'[d] = asking[d]
        /\ DOMAIN asking' = Clients /\ asking' = [d \in Clients |-> asking'[d]]
    BY <1>4
  <1>6. By(c) = {}
    BY <1>2 DEF IngestInv, CreationsFit
  <1> HIDE DEF r, t
  <1>7. /\ DOMAIN s = AskingFields /\ s.pc = "done" /\ s.kind = r.kind /\ s.pull = r.pull
        /\ s.previews = r.previews /\ s.tests = r.tests /\ s.content = r.content
        /\ s.text = r.text
    BY <1>2, PcOnly
  <1> HIDE DEF s
  <1>8. /\ r.kind = "create" /\ r.pull.merged /\ AsMerged(r.pull) /\ r.text = r.pull.head
        /\ r.content \subseteq r.pull.files \cap TestFiles
        /\ \/ r.content = {}
           \/ r.content \subseteq FilesAt[r.pull.number][r.pull.head] \ Unreadable
    BY <1>1, <1>2 DEF AskingFits, HasAll, TestsFit, Later
  <1>9. AskingFits(s)
    BY <1>2, <1>7 DEF AskingFits, AskingShape, Started, PullFits, HasAll, TestsFit, Later
  <1>10. CreationFits(t)
    BY <1>3, <1>8 DEF CreationFits, AsMerged, Final
  <1>11. GitHubFits'
    BY <1>1 DEF IngestInv, GitHubFits
  <1>12. ASSUME NEW d \in Clients PROVE AskingFits(asking'[d])
    BY <1>5, <1>9 DEF IngestInv, RequestsAreFit
  <1>13. ASSUME NEW d \in Clients PROVE AskingFits(asking[d])'
    BY <1>1, <1>12 DEF AskingFits, AskingShape, Started, PullFits, HasAll, TestsFit, AsMerged,
                       Final, More, Later
  <1>14. RequestsAreFit'
    BY <1>5, <1>13 DEF RequestsAreFit
  <1>15. RepoFits'
    BY <1>1 DEF RepoFits, IngestionAssumption
  <1>16. \A u \in creations' : CreationFits(u)
    BY <1>1, <1>10 DEF IngestInv, CreationsFit
  <1>17. \A u \in creations' : CreationFits(u)'
    BY <1>1, <1>16 DEF CreationFits, Final
  <1>18. By(c)' = {t} /\ \A d \in Clients \ {c} : By(d)' = By(d)
    BY <1>1, <1>3, <1>6 DEF By
  <1>19. Created(s) /\ \A d \in Clients \ {c} : Created(asking'[d]) <=> Created(asking[d])
    BY <1>5, <1>7, <1>8 DEF Created
  <1>20. ASSUME NEW d \in Clients
         PROVE  /\ Created(asking'[d]) => \E u : By(d)' = {u}
                /\ ~Created(asking'[d]) => By(d)' = {}
    <2>1. CASE d = c
      BY <1>5, <1>18, <1>19, <2>1
    <2>2. CASE d # c
      <3>1. By(d)' = By(d) /\ (Created(asking'[d]) <=> Created(asking[d]))
        BY <1>18, <1>19, <2>2
      <3>2. /\ Created(asking[d]) => \E u : By(d) = {u}
            /\ ~Created(asking[d]) => By(d) = {}
        BY DEF IngestInv, CreationsFit
      <3> QED
        BY <3>1, <3>2
    <2> QED
      BY <2>1, <2>2
  <1>21. CreationsFit'
    BY <1>17, <1>20 DEF CreationsFit, Created
  <1> QED
    BY <1>11, <1>14, <1>15, <1>21 DEF IngestInv

-----------------------------------------------------------------------------
(* What happens at GitHub leaves alone what was merged.                    *)
LEMMA GitHubKeeps ==
  ASSUME IngestionAssumption, IngestInv, GitHubFits',
         UNCHANGED <<asking, repo, creations>>,
         \A p \in PullRequests : merged[p] => merged'[p] /\ head'[p] = head[p]
  PROVE  IngestInv'
  <1>1. \A p : AsMerged(p) => AsMerged(p)'
    BY DEF AsMerged, Final
  <1>2. ASSUME NEW r, AskingFits(r) PROVE AskingFits(r)'
    <2>1. AskingShape(r)' /\ Started(r)' /\ TestsFit(r)'
      BY <1>2 DEF AskingFits, AskingShape, Started, TestsFit, More, Later
    <2>2. r.pc = "files" =>
            /\ r.pull.number \in PullRequests
            /\ r.pull.merged => merged'[r.pull.number] /\ r.pull.head = head'[r.pull.number]
      BY <1>2 DEF AskingFits, PullFits
    <2>3. PullFits(r)'
      BY <1>1, <1>2, <2>2 DEF AskingFits, PullFits
    <2>4. HasAll(r)'
      BY <1>1, <1>2 DEF AskingFits, HasAll, Later
    <2> QED
      BY <2>1, <2>3, <2>4 DEF AskingFits
  <1>3. RequestsAreFit'
    BY <1>2 DEF IngestInv, RequestsAreFit
  <1>4. RepoFits'
    BY DEF IngestInv, RepoFits, Holds
  <1>5. \A t \in creations : CreationFits(t)'
    BY DEF IngestInv, CreationsFit, CreationFits, Final
  <1>6. \A c \in Clients : By(c)' = By(c) /\ (Created(asking[c])' <=> Created(asking[c]))
    BY DEF By, Created
  <1>7. CreationsFit'
    BY <1>5, <1>6 DEF IngestInv, CreationsFit
  <1> QED
    BY <1>3, <1>4, <1>7 DEF IngestInv

LEMMA PushKeeps ==
  ASSUME IngestionAssumption, IngestInv, NEW p \in PullRequests, Push(p) \/ Merge(p)
  PROVE  IngestInv'
  <1>1. /\ head \in [PullRequests -> 0..MaxPushes] /\ merged \in [PullRequests -> BOOLEAN]
        /\ ~merged[p] /\ UNCHANGED <<failures, asking, repo, creations>>
        /\ \/ head' = [head EXCEPT ![p] = @ + 1] /\ head[p] < MaxPushes /\ merged' = merged
           \/ merged' = [merged EXCEPT ![p] = TRUE] /\ head' = head
    BY DEF Push, Merge, IngestInv, GitHubFits
  <1>2. head[p] + 1 \in 0..MaxPushes \/ ~(head[p] < MaxPushes)
    BY <1>1 DEF IngestionAssumption
  <1>3. GitHubFits'
    BY <1>1, <1>2 DEF GitHubFits, IngestInv
  <1>4. \A q \in PullRequests : merged[q] => merged'[q] /\ head'[q] = head[q]
    BY <1>1
  <1> QED
    BY <1>1, <1>3, <1>4, GitHubKeeps

LEMMA FailureCounts ==
  ASSUME IngestionAssumption, IngestInv, failures < MaxFailures, failures' = failures + 1
  PROVE  failures' \in 0..MaxFailures
  BY DEF IngestionAssumption, IngestInv, GitHubFits

(* Whatever GitHub refuses or breaks off.                                  *)
LEMMA RefusedKeeps ==
  ASSUME IngestionAssumption, IngestInv, NEW c \in Clients, Refused(c) \/ BrokenOff(c)
  PROVE  IngestInv'
  <1>1. failures' \in 0..MaxFailures /\ UNCHANGED <<head, merged>>
    BY FailureCounts DEF Refused, BrokenOff
  <1>2. \/ At(c, "timeline") /\ Detect(c, <<>>)
        \/ At(c, "diff") /\ PatchesOfFiles(c)
        \/ At(c, "candidates") /\ NextCandidate(c, Candidate(c), {})
        \/ asking[c].pc # "done" /\ Fail(c)
    BY DEF Refused, BrokenOff
  <1>3. CASE At(c, "timeline") /\ Detect(c, <<>>)
    BY <1>1, <1>3, DetectKeeps
  <1>4. CASE At(c, "diff") /\ PatchesOfFiles(c)
    BY <1>1, <1>4, TextKeeps DEF PatchesOfFiles
  <1>5. CASE At(c, "candidates") /\ NextCandidate(c, Candidate(c), {})
    <2> DEFINE p == asking[c].pull
    <2>1. {} \subseteq {Candidate(c)} /\ {} \subseteq FilesAt[p.number][p.head] \ Unreadable
      OBVIOUS
    <2> QED
      BY <1>1, <1>5, <2>1, CandidateKeeps
  <1>6. CASE asking[c].pc # "done" /\ Fail(c)
    BY <1>1, <1>6, FailKeeps
  <1> QED
    BY <1>2, <1>3, <1>4, <1>5, <1>6

LEMMA IngestStep ==
  ASSUME IngestionAssumption, IngestInv, [IngestNext]_ingestVars
  PROVE  IngestInv'
  <1>1. CASE UNCHANGED ingestVars
    <2>1. UNCHANGED <<asking, repo, creations>> /\ UNCHANGED <<head, merged, failures>>
      BY <1>1 DEF ingestVars
    <2>2. GitHubFits'
      BY <2>1 DEF IngestInv, GitHubFits
    <2> QED
      BY <2>1, <2>2, GitHubKeeps
  <1>2. ASSUME NEW c \in Clients, NEW kind, NEW n, Ask(c, kind, n) PROVE IngestInv'
    BY <1>2, AskKeeps
  <1>3. ASSUME NEW c \in Clients, Step(c) PROVE IngestInv'
    <2>1. CASE ReadTimeline(c)
      <3>1. /\ At(c, "timeline") /\ Detect(c, NumbersInTimeline)
            /\ UNCHANGED <<head, merged, failures>>
        BY <2>1 DEF ReadTimeline
      <3>2. failures' \in 0..MaxFailures
        BY <3>1, AskingIs
      <3> QED
        BY <3>1, <3>2, DetectKeeps
    <2> QED
      BY <1>3, <2>1, ReadKeeps, ReadMetadataKeeps, ReadFilesKeeps, ReadDiffKeeps, StoreKeeps,
         ReadCandidateKeeps, CommitKeeps
      DEF Step
  <1>4. ASSUME NEW c \in Clients, Refused(c) \/ BrokenOff(c) PROVE IngestInv'
    BY <1>4, RefusedKeeps
  <1>5. ASSUME NEW p \in PullRequests, Push(p) \/ Merge(p) PROVE IngestInv'
    BY <1>5, PushKeeps
  <1> QED
    BY <1>1, <1>2, <1>3, <1>4, <1>5 DEF IngestNext

LEMMA IngestStart ==
  ASSUME IngestionAssumption, IngestInit
  PROVE  IngestInv
  <1>1. /\ Idle.pc = "idle" /\ DOMAIN Idle = AskingFields /\ Idle.pull = NoPull
        /\ Idle.previews = <<>> /\ Idle.content = {}
    BY DEF Idle, AskingFields
  <1>2. DOMAIN NoPull = {"number", "head", "merged", "files"}
    BY DEF NoPull
  <1>3. ToSet(<<>>) = {} /\ <<>> \in Seq(ToSet(<<>>)) /\ Len(<<>>) <= LINKED_PR_LIMIT
    BY DEF ToSet, IngestionAssumption
  <1>4. AskingFits(Idle)
    BY <1>1, <1>2, <1>3
    DEF AskingFits, AskingShape, Started, PullFits, HasAll, TestsFit, Later
  <1>5. \A c \in Clients : asking[c] = Idle
    BY DEF IngestInit
  <1>6. GitHubFits
    BY DEF IngestInit, GitHubFits, IngestionAssumption
  <1>7. RequestsAreFit
    BY <1>4, <1>5 DEF RequestsAreFit, IngestInit
  <1>8. RepoFits
    BY DEF IngestInit, RepoFits, IngestionAssumption
  <1>9. ~Created(Idle)
    BY <1>1 DEF Created
  <1>10. CreationsFit
    BY <1>5, <1>9 DEF CreationsFit, By, IngestInit
  <1> QED
    BY <1>6, <1>7, <1>8, <1>10 DEF IngestInv

-----------------------------------------------------------------------------
(* What is known of every request, of what is stored and of the row of the *)
(* repository is kept by every step, at GitHub too.                        *)
THEOREM IngestionInductive ==
  ASSUME IngestionAssumption
  PROVE  IngestSpec => []IngestInv
  <1>1. IngestInit => IngestInv
    BY IngestStart
  <1>2. IngestInv /\ [IngestNext]_ingestVars => IngestInv'
    BY IngestStep
  <1> QED
    BY <1>1, <1>2, PTL DEF IngestSpec

LEMMA WholeIngestion ==
  ASSUME IngestionAssumption, IngestInv
  PROVE  IngestionIsWhole
  <1>1. IngestTypeOK
    <2>1. ASSUME NEW c \in Clients
          PROVE  /\ asking[c].pc \in {"idle", "read", "timeline", "metadata", "files", "diff",
                                      "store", "wait", "candidates", "commit", "done", "failed"}
                 /\ Len(asking[c].previews) <= LINKED_PR_LIMIT
                 /\ asking[c].pc \in {"metadata", "files"} => More(asking[c])
                 /\ asking[c].pc = "candidates" => asking[c].tests # {}
      BY DEF IngestInv, RequestsAreFit, AskingFits, AskingShape, Started, TestsFit
    <2>2. \A c \in Clients :
            repo = c => asking[c].pc \in {"candidates", "commit"} /\ Creating(c)
      BY DEF IngestInv, RepoFits, Holds, Creating
    <2>3. \A p \in PullRequests : head[p] \in 0..MaxPushes /\ merged[p] \in BOOLEAN
      BY DEF IngestInv, GitHubFits
    <2>4. failures \in 0..MaxFailures /\ repo \in Clients \cup {"none", "stored"}
      BY DEF IngestInv, GitHubFits, RepoFits
    <2> QED
      BY <2>1, <2>2, <2>3, <2>4 DEF IngestTypeOK
  <1>2. MergedIsFinal
    <2>1. \A t \in creations : Final(t.pull, t.text)
      BY DEF IngestInv, CreationsFit, CreationFits
    <2>2. \A c \in Clients : \A p \in ToSet(asking[c].previews) :
            p.merged => Final(p, p.head)
      BY DEF IngestInv, RequestsAreFit, AskingFits, PullFits, AsMerged
    <2> QED
      BY <2>1, <2>2 DEF MergedIsFinal
  <1>3. CandidatesAreAtHead
    BY DEF CandidatesAreAtHead, IngestInv, RequestsAreFit, AskingFits, TestsFit, CreationsFit,
           CreationFits
  <1>4. AllOrNothing
    <2>1. repo = "stored" <=> creations # {}
      BY DEF IngestInv, RepoFits
    <2>2. ASSUME NEW c \in Clients
          PROVE  Cardinality({t \in creations : t.by = c})
                   = IF At(c, "done") /\ Creating(c) THEN 1 ELSE 0
      <3>1. CASE Created(asking[c])
        <4>1. PICK t : By(c) = {t}
          BY <3>1 DEF IngestInv, CreationsFit
        <4> QED
          BY <3>1, <4>1, FS_Singleton DEF By, Created, At, Creating
      <3>2. CASE ~Created(asking[c])
        <4>1. By(c) = {}
          BY <3>2 DEF IngestInv, CreationsFit
        <4> QED
          BY <3>2, <4>1, FS_EmptySet DEF By, Created, At, Creating
      <3> QED
        BY <3>1, <3>2
    <2> QED
      BY <2>1, <2>2 DEF AllOrNothing
  <1> QED
    BY <1>1, <1>2, <1>3, <1>4 DEF IngestionIsWhole

(* Whatever is pushed, merged, refused and broken off while it is read:    *)
(* merged pull requests are shown and stored as they were merged, tests    *)
(* are those of the head that is shown, a creation leaves everything or    *)
(* nothing, and previews stop at the limit (github/service.py,             *)
(* benchmark_tasks/creation.py).                                           *)
THEOREM IngestionWhole ==
  ASSUME IngestionAssumption
  PROVE  IngestSpec => []IngestionIsWhole
  <1>1. IngestInv => IngestionIsWhole
    BY WholeIngestion
  <1> QED
    BY <1>1, IngestionInductive, PTL
=============================================================================

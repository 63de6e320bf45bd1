-------------------------- MODULE SqliteOpenProofs --------------------------
(***************************************************************************)
(* Opening a file in any number of processes, whatever the file and        *)
(* however often they race, fail and start over.                           *)
(*                                                                         *)
(* Open decides from a version, a schema and a count it read at three      *)
(* different times.  What makes the decision safe is that text is never    *)
(* written any more: a file with old rows had them when the process first  *)
(* looked (Shut), so no process gets past the count.                       *)
(***************************************************************************)
EXTENDS SqliteOpen, TLAPS

TypeOK ==
  /\ file \in File
  /\ pc \in [Processes -> {"closed", "version", "inspect", "count", "claim", "schema",
                           "open", "refused", "failed"}]

HasOldRows == \E i \in DOMAIN file.rows : file.rows[i] = "rfc3339"

\* A table holds the rows, and a process that is done opening has one.
Tabled ==
  /\ file.columns = "none" => file.rows = <<>>
  /\ \A p \in Processes : pc[p] = "open" => file.columns # "none"

\* A file with old rows is not marked, and no process has decided to mark it.
Shut ==
  HasOldRows =>
    /\ file.version # EncodingOrderableInteger
    /\ \A p \in Processes : pc[p] \notin {"claim", "schema", "open"}

Inv == TypeOK /\ Tabled /\ Shut

\* The rows a step leaves: the ones there were, and perhaps one that is no text.
LEMMA RowsSteps ==
  ASSUME Inv, [Next]_vars
  PROVE  \/ file'.rows = file.rows
         \/ \E v \in {"integer", "digits"} : file'.rows = Append(file.rows, v)
<1>1. CASE UNCHANGED vars
  BY <1>1 DEF vars
<1>2. ASSUME NEW p \in Processes, StoreAppend(p)
      PROVE  \E v \in {"integer", "digits"} : file'.rows = Append(file.rows, v)
  BY <1>2 DEF StoreAppend, Inv, TypeOK, File
<1>3. ASSUME NEW p \in Processes, Claim(p) \/ Schema(p) PROVE file'.rows = file.rows
  BY <1>3 DEF Claim, Schema, Inv, TypeOK, File
<1>4. ASSUME NEW p \in Processes,
             \/ Pragmas(p) \/ ReadVersion(p) \/ Inspect(p) \/ CountFacts(p)
             \/ Fail(p) \/ Stop(p)
      PROVE  file' = file
  BY <1>4 DEF Pragmas, ReadVersion, Inspect, CountFacts, Fail, Stop
<1>5. QED
  BY <1>1, <1>2, <1>3, <1>4 DEF Next

LEMMA InitInv == Init => Inv
BY FilesAssumption DEF Init, Inv, TypeOK, Tabled, Shut, HasOldRows, File

\* A step that leaves the file alone, or marks it, or creates its table.
LEMMA OpenStep ==
  ASSUME Inv, NEW p \in Processes,
         \/ Pragmas(p) \/ ReadVersion(p) \/ Inspect(p) \/ CountFacts(p) \/ Claim(p)
         \/ Schema(p) \/ Fail(p) \/ Stop(p)
  PROVE  Inv'
<1> USE DEF Inv, TypeOK, Tabled, Shut, HasOldRows, Goto
<1>1. CASE Pragmas(p)
  BY <1>1 DEF Pragmas
<1>2. CASE ReadVersion(p)
  <2>1. pc'[p] \in {"inspect", "refused"} \/ (pc'[p] = "schema" /\ file.version = EncodingOrderableInteger)
    BY <1>2 DEF ReadVersion
  <2>2. file' = file /\ \A q \in Processes : q # p => pc'[q] = pc[q]
    BY <1>2 DEF ReadVersion
  <2>3. pc' \in [Processes -> {"closed", "version", "inspect", "count", "claim", "schema",
                               "open", "refused", "failed"}]
    BY <1>2 DEF ReadVersion
  <2>4. QED
    BY <2>1, <2>2, <2>3
<1>3. CASE Inspect(p)
  BY <1>3 DEF Inspect
<1>4. CASE CountFacts(p)
  BY <1>4 DEF CountFacts
<1>5. CASE Claim(p)
  BY <1>5 DEF Claim, File, EncodingOrderableInteger
<1>6. CASE Schema(p)
  BY <1>6 DEF Schema, File, Columns
<1>7. CASE Fail(p) \/ Stop(p)
  BY <1>7 DEF Fail, Stop
<1>8. QED
  BY <1>1, <1>2, <1>3, <1>4, <1>5, <1>6, <1>7

LEMMA AppendStep ==
  ASSUME Inv, NEW p \in Processes, StoreAppend(p)
  PROVE  Inv'
<1>1. PICK v \in {"integer", "digits"} :
        /\ pc[p] = "open" /\ UNCHANGED pc
        /\ file' = [file EXCEPT !.rows = Append(file.rows, v)]
  BY DEF StoreAppend, Inv, TypeOK, File
<1>2. file.rows \in Seq(Stored) /\ v \in Stored
  BY DEF Inv, TypeOK, File, Stored
<1>3. file'.rows = Append(file.rows, v) /\ file'.version = file.version /\ file'.columns = file.columns
  BY <1>1 DEF Inv, TypeOK, File
<1>4. TypeOK'
  <2>1. Append(file.rows, v) \in Seq(Stored)
    BY <1>2
  <2>2. QED
    BY <1>1, <2>1 DEF Inv, TypeOK, File
<1>5. Tabled'
  BY <1>1, <1>3 DEF Inv, Tabled
<1>6. ~HasOldRows
  BY <1>1 DEF Inv, Shut
<1>7. ~HasOldRows'
  <2> SUFFICES ASSUME NEW i \in DOMAIN file'.rows, file'.rows[i] = "rfc3339" PROVE FALSE
    BY DEF HasOldRows
  <2>1. i \in 1..(Len(file.rows) + 1) /\ Len(file.rows) \in Nat
    BY <1>2, <1>3
  <2>2. CASE i = Len(file.rows) + 1
    BY <1>2, <1>3, <2>2
  <2>3. CASE i # Len(file.rows) + 1
    <3>1. i \in DOMAIN file.rows /\ file'.rows[i] = file.rows[i]
      BY <1>2, <1>3, <2>1, <2>3
    <3>2. QED
      BY <1>6, <3>1 DEF HasOldRows
  <2>4. QED
    BY <2>2, <2>3
<1>8. QED
  BY <1>4, <1>5, <1>7 DEF Inv, Shut

LEMMA StepInv == Inv /\ [Next]_vars => Inv'
<1> SUFFICES ASSUME Inv, [Next]_vars PROVE Inv'
  OBVIOUS
<1>1. CASE UNCHANGED vars
  BY <1>1 DEF vars, Inv, TypeOK, Tabled, Shut, HasOldRows
<1>2. CASE Next
  BY <1>2, OpenStep, AppendStep DEF Next
<1>3. QED
  BY <1>1, <1>2

LEMMA AlwaysInv == Spec => []Inv
BY InitInv, StepInv, PTL DEF Spec

\* A file whose rows were written as text is opened by no process and marked as
\* current by none, however many race, fail and start over.
THEOREM OldFilesStayShut == Spec => []OldRowsStayShut
<1>1. Inv => OldRowsStayShut
  BY DEF Inv, Shut, HasOldRows, OldRowsStayShut
<1>2. QED
  BY <1>1, AlwaysInv, PTL

\* Opening never costs a row: rows are only ever added, after those there are.
THEOREM RowsAreKept == Spec => RowsAreNeverLost
<1> DEFINE Kept == /\ Len(file'.rows) >= Len(file.rows)
                   /\ \A i \in DOMAIN file.rows : file'.rows[i] = file.rows[i]
<1>1. ASSUME Inv, [Next]_vars PROVE Kept
  <2>1. file.rows \in Seq(Stored)
    BY <1>1 DEF Inv, TypeOK, File
  <2>2. CASE file'.rows = file.rows
    BY <2>1, <2>2
  <2>3. CASE \E v \in {"integer", "digits"} : file'.rows = Append(file.rows, v)
    <3>1. PICK v \in {"integer", "digits"} : file'.rows = Append(file.rows, v)
      BY <2>3
    <3>2. v \in Stored
      BY DEF Stored
    <3>3. QED
      BY <2>1, <3>1, <3>2
  <2>4. QED
    BY <1>1, <2>2, <2>3, RowsSteps
<1>2. QED
  BY <1>1, AlwaysInv, PTL DEF Spec, RowsAreNeverLost
=============================================================================

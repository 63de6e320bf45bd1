----------------------------- MODULE SqliteOpen -----------------------------
(***************************************************************************)
(* Opening a database file: Open and assertEncoding of                     *)
(* libs/ledger-sqlite/store.go, in several processes at once.              *)
(*                                                                         *)
(* Temporal columns used to hold RFC 3339 text and now hold integers.      *)
(* PRAGMA user_version says which, but a file from before the change and a *)
(* fresh one both report zero; they are told apart by looking for rows.    *)
(* Open reads the version, inspects the schema, counts the rows, claims    *)
(* the version and creates the table in separate statements: other         *)
(* processes may run between any two of them.                              *)
(***************************************************************************)
EXTENDS Naturals, Sequences

CONSTANTS
  Processes,   \* processes of this build that open the file
  Files,       \* the files they may find
  MaxRows      \* bound on the rows of the file

\* PRAGMA user_version: unset, and the current encoding.
Unversioned == 0
EncodingOrderableInteger == 2

\* What a temporal column holds.  An integer put into a TEXT column of a STRICT
\* table is converted to its digits.
Stored == {"rfc3339", "integer", "digits"}

Columns == {"none", "text", "integer"}

File == [version : Nat, columns : Columns, rows : Seq(Stored)]

\* Rows are rows of the table, and no build marked a file as current before it
\* stored integers.
ASSUME FilesAssumption ==
  /\ Files \subseteq File
  /\ \A f \in Files :
       /\ f.columns = "none" => f.rows = <<>>
       /\ f.version = EncodingOrderableInteger => \A i \in DOMAIN f.rows : f.rows[i] # "rfc3339"
ASSUME MaxRowsAssumption == MaxRows \in Nat

VARIABLES
  file,   \* the database file
  pc      \* where each process is in Open

vars == <<file, pc>>

Init ==
  /\ file \in Files
  /\ pc = [p \in Processes |-> "closed"]

Goto(p, to) == pc' = [pc EXCEPT ![p] = to]

\* sql.Open and the pragmas, none of which touches what assertEncoding reads.
Pragmas(p) ==
  /\ pc[p] = "closed"
  /\ Goto(p, "version")
  /\ UNCHANGED file

ReadVersion(p) ==
  /\ pc[p] = "version"
  /\ Goto(p, CASE file.version = EncodingOrderableInteger -> "schema"
               [] file.version = Unversioned              -> "inspect"
               [] OTHER                                   -> "refused")
  /\ UNCHANGED file

\* Is there a table of facts?
Inspect(p) ==
  /\ pc[p] = "inspect"
  /\ Goto(p, IF file.columns = "none" THEN "claim" ELSE "count")
  /\ UNCHANGED file

\* Fault of CountFacts: a table that exists is taken to be empty.
CountFactsFault(p) ==
  /\ pc[p] = "count"
  /\ Goto(p, "claim")
  /\ UNCHANGED file

CountFacts(p) ==
  /\ pc[p] = "count"
  /\ Goto(p, IF file.rows = <<>> THEN "claim" ELSE "refused")
  /\ UNCHANGED file

Claim(p) ==
  /\ pc[p] = "claim"
  /\ file' = [file EXCEPT !.version = EncodingOrderableInteger]
  /\ Goto(p, "schema")

\* Fault of Schema: the table is made anew.
SchemaFault(p) ==
  /\ pc[p] = "schema"
  /\ file' = [file EXCEPT !.columns = "integer", !.rows = <<>>]
  /\ Goto(p, "open")

\* CREATE TABLE IF NOT EXISTS: an existing table keeps its columns.
Schema(p) ==
  /\ pc[p] = "schema"
  /\ file' = [file EXCEPT !.columns = IF @ = "none" THEN "integer" ELSE @]
  /\ Goto(p, "open")

\* A fact is committed by a process that has the file open.
StoreAppend(p) ==
  /\ pc[p] = "open"
  /\ Len(file.rows) < MaxRows
  /\ file' = [file EXCEPT !.rows =
                Append(@, IF file.columns = "integer" THEN "integer" ELSE "digits")]
  /\ UNCHANGED pc

\* A statement of Open fails: the database is closed and the error returned.
Fail(p) ==
  /\ pc[p] \in {"version", "inspect", "count", "claim", "schema"}
  /\ Goto(p, "failed")
  /\ UNCHANGED file

\* Close, or a crash at any step; the process may come back.
Stop(p) ==
  /\ pc[p] # "closed"
  /\ Goto(p, "closed")
  /\ UNCHANGED file

Next ==
  \E p \in Processes :
    \/ Pragmas(p) \/ ReadVersion(p) \/ Inspect(p) \/ CountFacts(p) \/ Claim(p)
    \/ Schema(p) \/ StoreAppend(p) \/ Fail(p) \/ Stop(p)

Spec == Init /\ [][Next]_vars

-----------------------------------------------------------------------------
\* No process has a file open whose rows it cannot order: rows written as text
\* keep the file shut whatever is done to it by processes racing, failing and
\* starting over, and the file itself is never marked as current.
OldRowsStayShut ==
  \A i \in DOMAIN file.rows :
    file.rows[i] = "rfc3339" =>
      /\ file.version # EncodingOrderableInteger
      /\ \A p \in Processes : pc[p] # "open"

\* Opening never costs a row: not when a process that saw a fresh file goes on to
\* claim it and create its table after another has already written to it.
RowsAreNeverLost ==
  [][/\ Len(file'.rows) >= Len(file.rows)
     /\ \A i \in DOMAIN file.rows : file'.rows[i] = file.rows[i]]_vars

-----------------------------------------------------------------------------
(* What a comment in the code says of it, and the code does not do *)

\* "ErrEncodingVersion is returned when a database was written under an encoding
\* this build cannot order correctly."  The version and the rows are read at
\* different times: a process that read version zero before another claimed the
\* file and wrote to it counts that process's rows and refuses a sound file.
RefusalIsEarned ==
  [][\A p \in Processes :
       pc[p] # "refused" /\ pc'[p] = "refused" =>
         \/ file.version \notin {Unversioned, EncodingOrderableInteger}
         \/ \E i \in DOMAIN file.rows : file.rows[i] = "rfc3339"]_vars

=============================================================================

------------------------- MODULE SqliteLedgerProofs -------------------------
(***************************************************************************)
(* The application service over the SQLite store, for any number of        *)
(* processes, requests, streams and clock readings, any crashes and any    *)
(* loss of rows.                                                           *)
(*                                                                         *)
(* The argument: the write lock admits one transaction, so the rows a      *)
(* transaction sees are the committed ones until it commits (Fresh).  Rows *)
(* are keyed by the sequence their fact carries; a stream is read or       *)
(* extended only when no row of it is missing, and is then the sequence of *)
(* its facts.  While no row is lost none is missing (NoGaps), a reference  *)
(* that was answered stays committed (Promised) and every row belongs to   *)
(* one call (Accounted).                                                   *)
(***************************************************************************)
EXTENDS SqliteLedger, UseCasesProofs

-----------------------------------------------------------------------------
(* Rows *)

\* Rows of stream s: finitely many, each keyed by the sequence its fact carries.
IsRows(s, rows) ==
  /\ rows = [i \in DOMAIN rows |-> rows[i]]
  /\ \E n \in Nat : DOMAIN rows \subseteq 1..n
  /\ \A i \in DOMAIN rows :
       /\ rows[i] \in Fact
       /\ rows[i].ref = [stream |-> s, sequence |-> i]
       /\ rows[i].knowledge \in Readings

\* An int64 holds every instant the clock shows.
LEMMA NanosOfReading ==
  ASSUME NEW k \in Readings
  PROVE  k \in Nat /\ k < HalfRange /\ Nanos(k) = k
<1>1. k \in Nat /\ HalfRange \in Nat /\ k < HalfRange
  BY ReadingsAssumption, HalfRangeAssumption DEF Instant
<1>2. (k + HalfRange) % (2 * HalfRange) = k + HalfRange
  BY <1>1
<1>3. QED
  BY <1>1, <1>2 DEF Nanos

\* A bounded set of numbers that is not empty has a largest element, and Max
\* returns it.
LEMMA MaxOfBounded ==
  ASSUME NEW T \in SUBSET Nat, T # {}, NEW n \in Nat, \A y \in T : y <= n
  PROVE  Max(T) \in T /\ \A y \in T : y <= Max(T)
<1> DEFINE B == {b \in Nat : \A y \in T : y <= b}
<1>1. B \in SUBSET Nat /\ n \in B
  OBVIOUS
<1>2. PICK m \in B : \A b \in B : m <= b
  BY <1>1, LeastNatural
<1>3. m \in T
  <2> SUFFICES ASSUME m \notin T PROVE FALSE
    OBVIOUS
  <2>1. PICK t \in T : TRUE
    OBVIOUS
  <2>2. m > 0 /\ \A y \in T : y <= m - 1
    BY <1>2, <2>1
  <2>3. m - 1 \in B
    BY <1>2, <2>2
  <2>4. QED
    BY <1>2, <2>3
<1>4. \E x \in T : \A y \in T : x >= y
  BY <1>2, <1>3
<1>5. Max(T) \in T /\ \A y \in T : Max(T) >= y
  BY <1>4 DEF Max
<1>6. QED
  BY <1>5

\* COUNT(*) and MAX(sequence) of a stream's rows.
LEMMA CountAndHighest ==
  ASSUME NEW s, NEW rows, IsRows(s, rows)
  PROVE  /\ IsFiniteSet(DOMAIN rows) /\ Count(rows) \in Nat
         /\ Highest(rows) \in Nat
         /\ DOMAIN rows \subseteq 1..Highest(rows)
         /\ DOMAIN rows = {} => Highest(rows) = 0
<1>1. PICK n \in Nat : DOMAIN rows \subseteq 1..n
  BY DEF IsRows
<1>2. DOMAIN rows \in SUBSET Nat /\ \A i \in DOMAIN rows : 1 <= i /\ i <= n
  BY <1>1
<1>3. IsFiniteSet(DOMAIN rows)
  BY <1>2, FS_BoundedSetOfNaturals
<1>4. Count(rows) \in Nat
  BY <1>3, FS_CardinalityType DEF Count
<1>5. CASE DOMAIN rows = {}
  BY <1>3, <1>4, <1>5 DEF Highest
<1>6. CASE DOMAIN rows # {}
  <2>1. Max(DOMAIN rows) \in DOMAIN rows /\ \A i \in DOMAIN rows : i <= Max(DOMAIN rows)
    BY <1>2, <1>6, MaxOfBounded
  <2>2. QED
    BY <1>2, <1>3, <1>4, <1>6, <2>1 DEF Highest
<1>7. QED
  BY <1>5, <1>6

\* No row is missing when all of them are among the first Count(rows).
LEMMA AllPresent ==
  ASSUME NEW s, NEW rows, IsRows(s, rows), DOMAIN rows \subseteq 1..Count(rows)
  PROVE  DOMAIN rows = 1..Count(rows)
<1>1. Count(rows) \in Nat
  BY CountAndHighest
<1>2. IsFiniteSet(1..Count(rows)) /\ Cardinality(1..Count(rows)) = Count(rows)
  BY <1>1, FS_Interval
<1>3. QED
  BY <1>2, FS_Subset DEF Count

\* Appending after the last row, with no row missing, finds the next number free.
LEMMA NoGapHighest ==
  ASSUME NEW s, NEW rows, IsRows(s, rows), Highest(rows) = Count(rows)
  PROVE  DOMAIN rows = 1..Count(rows)
BY CountAndHighest, AllPresent

\* A function on 1..n is a sequence of length n.
LEMMA FunctionIsSeq ==
  ASSUME NEW n \in Nat, NEW S, NEW f \in [1..n -> S]
  PROVE  f \in Seq(S) /\ Len(f) = n
OBVIOUS

\* The numbers up to i among the first n are the first i.
LEMMA FirstNumbers ==
  ASSUME NEW n \in Nat, NEW i \in 1..n
  PROVE  {j \in 1..n : j <= i} = 1..i
OBVIOUS

\* Rows 1 to n, none missing, are a sequence of n facts.
LEMMA RowsAreStream ==
  ASSUME NEW s, NEW rows, IsRows(s, rows), NEW n \in Nat, DOMAIN rows = 1..n
  PROVE  /\ rows \in Seq(Fact) /\ Len(rows) = n
         /\ Count(rows) = n /\ Highest(rows) = n
         /\ Addressed(s, rows)
<1>1. \A i \in 1..n : rows[i] \in Fact /\ rows[i].ref = [stream |-> s, sequence |-> i]
  BY DEF IsRows
<1>2. rows \in Seq(Fact) /\ Len(rows) = n
  <2>1. rows \in [1..n -> Fact]
    BY <1>1 DEF IsRows
  <2>2. QED
    BY <2>1, FunctionIsSeq
<1>3. Count(rows) = n
  BY FS_Interval DEF Count
<1>4. Highest(rows) = n
  <2>1. CASE n = 0
    BY <2>1 DEF Highest
  <2>2. CASE n # 0
    BY <2>2 DEF Highest, Max
  <2>3. QED
    BY <2>1, <2>2
<1>5. QED
  BY <1>1, <1>2, <1>3, <1>4 DEF Addressed

\* Replaying rows of which none is missing renumbers nothing.
LEMMA ReplayIsStream ==
  ASSUME NEW s, NEW rows, IsRows(s, rows), DOMAIN rows = 1..Count(rows)
  PROVE  LET stream == Replay(s, rows) IN
         /\ stream \in Seq(Fact)
         /\ Len(stream) = Count(rows)
         /\ \A i \in 1..Count(rows) : stream[i] = rows[i]
         /\ Addressed(s, stream)
<1> DEFINE c == Count(rows)
           nth(n) == CHOOSE i \in DOMAIN rows : Cardinality({j \in DOMAIN rows : j <= i}) = n
           stream == Replay(s, rows)
<1>1. c \in Nat /\ DOMAIN rows = 1..c
  BY CountAndHighest
<1> HIDE DEF c
<1>2. ASSUME NEW n \in 1..c PROVE nth(n) = n
  <2>1. ASSUME NEW i \in 1..c PROVE Cardinality({j \in DOMAIN rows : j <= i}) = i
    <3>1. {j \in DOMAIN rows : j <= i} = 1..i
      BY <1>1, FirstNumbers
    <3>2. Cardinality(1..i) = i
      BY <1>1, FS_Interval
    <3>3. QED
      BY <3>1, <3>2
  <2>2. QED
    BY <1>1, <2>1
<1>3. ASSUME NEW n \in 1..c
      PROVE  [rows[n] EXCEPT !.ref = [stream |-> s, sequence |-> n]] = rows[n]
  <2>1. rows[n] \in Fact /\ rows[n].ref = [stream |-> s, sequence |-> n]
    BY <1>1 DEF IsRows
  <2>2. ASSUME NEW f \in Fact PROVE [f EXCEPT !.ref = f.ref] = f
    BY DEF Fact
  <2>3. QED
    BY <2>1, <2>2
<1>4. stream = [n \in 1..c |-> [rows[nth(n)] EXCEPT !.ref = [stream |-> s, sequence |-> n]]]
  BY DEF Replay, c
<1> HIDE DEF nth, stream
<1>5. stream = [n \in 1..c |-> rows[n]]
  BY <1>2, <1>3, <1>4
<1>6. \A n \in 1..c : rows[n] \in Fact /\ rows[n].ref = [stream |-> s, sequence |-> n]
  BY <1>1 DEF IsRows
<1>7. stream \in Seq(Fact) /\ Len(stream) = c /\ \A i \in 1..c : stream[i] = rows[i]
  <2>1. stream \in [1..c -> Fact]
    BY <1>5, <1>6
  <2>2. QED
    BY <1>1, <1>5, <2>1, FunctionIsSeq
<1>8. QED
  BY <1>6, <1>7 DEF Addressed, c, stream

\* A stream as it is loaded: its rows, none missing.
Loaded(s, rows, stream) ==
  /\ Addressed(s, stream)
  /\ DOMAIN rows = 1..Len(stream)
  /\ \A i \in 1..Len(stream) : stream[i] = rows[i]

\* What loadFrom lets through is the stream as it is stored, or no stream.
LEMMA LoadReturnsRows ==
  ASSUME NEW s, NEW rows, IsRows(s, rows),
         LoadOutcome(s, rows) \in {Ok, "ErrStreamNotFound"}
  PROVE  Loaded(s, rows, IF LoadOutcome(s, rows) = Ok THEN Replay(s, rows) ELSE <<>>)
<1>1. CASE LoadOutcome(s, rows) = Ok
  <2>1. \A i \in DOMAIN rows : i \in 1..Count(rows)
    BY <1>1 DEF LoadOutcome, Ok
  <2>2. DOMAIN rows = 1..Count(rows)
    BY <2>1, AllPresent
  <2>3. QED
    BY <1>1, <2>2, ReplayIsStream DEF Loaded
<1>2. CASE LoadOutcome(s, rows) = "ErrStreamNotFound"
  <2>1. DOMAIN rows = {} /\ LoadOutcome(s, rows) # Ok
    BY <1>2 DEF LoadOutcome, Ok
  <2>2. <<>> \in Seq(Fact) /\ 1..Len(<<>>) = {}
    OBVIOUS
  <2>3. QED
    BY <2>1, <2>2 DEF Loaded, Addressed
<1>3. QED
  BY <1>1, <1>2

\* A stream that was loaded is its rows.
LEMMA LoadedIsRows ==
  ASSUME NEW s, NEW rows, IsRows(s, rows), NEW stream, Loaded(s, rows, stream)
  PROVE  stream = rows /\ Count(rows) = Len(stream)
<1>1. stream \in Seq(Fact) /\ Len(stream) \in Nat
  BY DEF Loaded, Addressed
<1>2. DOMAIN rows = 1..Len(stream)
  BY DEF Loaded
<1>3. rows \in Seq(Fact) /\ Len(rows) = Len(stream) /\ Count(rows) = Len(stream)
  BY <1>1, <1>2, RowsAreStream
<1>4. \A i \in 1..Len(stream) : stream[i] = rows[i]
  BY DEF Loaded
<1>5. QED
  BY <1>1, <1>3, <1>4

\* Inserting the next row keeps the others.
LEMMA InsertKeepsRows ==
  ASSUME NEW s, NEW rows, IsRows(s, rows), NEW f \in Fact, f.knowledge \in Readings,
         f.ref = [stream |-> s, sequence |-> NextSequence(rows)]
  PROVE  /\ IsRows(s, Insert(rows, f))
         /\ NextSequence(rows) \in Nat
         /\ NextSequence(rows) \notin DOMAIN rows
         /\ DOMAIN Insert(rows, f) = DOMAIN rows \union {NextSequence(rows)}
         /\ Insert(rows, f)[NextSequence(rows)] = f
         /\ \A i \in DOMAIN rows : Insert(rows, f)[i] = rows[i]
<1> DEFINE m == NextSequence(rows)
           new == Insert(rows, f)
<1>1. Highest(rows) \in Nat /\ DOMAIN rows \subseteq 1..Highest(rows) /\ m = Highest(rows) + 1
  BY CountAndHighest DEF NextSequence
<1>2. m \in Nat /\ m \notin DOMAIN rows
  BY <1>1
<1>3. f.ref.sequence = m
  OBVIOUS
<1> HIDE DEF m
<1>4. new = [i \in DOMAIN rows \union {m} |-> IF i = m THEN f ELSE rows[i]]
  BY <1>3 DEF Insert
<1>5. DOMAIN rows \union {m} \subseteq 1..m
  BY <1>1, <1>2
<1>6. f.ref = [stream |-> s, sequence |-> m]
  BY DEF m
<1> HIDE DEF new
<1>7. /\ DOMAIN new = DOMAIN rows \union {m} /\ new[m] = f
      /\ \A i \in DOMAIN rows : new[i] = rows[i]
  BY <1>2, <1>4
<1>8. new = [i \in DOMAIN new |-> new[i]]
  BY <1>4
<1>9. ASSUME NEW i \in DOMAIN new
      PROVE  /\ new[i] \in Fact /\ new[i].ref = [stream |-> s, sequence |-> i]
             /\ new[i].knowledge \in Readings
  <2>1. CASE i = m
    BY <1>6, <1>7, <2>1
  <2>2. CASE i # m
    BY <1>7, <2>2 DEF IsRows
  <2>3. QED
    BY <2>1, <2>2
<1>10. IsRows(s, new)
  BY <1>2, <1>5, <1>7, <1>8, <1>9 DEF IsRows
<1>11. QED
  BY <1>2, <1>7, <1>10 DEF m, new

\* Inserting the next row where none is missing appends.
LEMMA InsertAppends ==
  ASSUME NEW s, NEW rows, IsRows(s, rows), NEW n \in Nat, DOMAIN rows = 1..n,
         NEW f \in Fact, f.knowledge \in Readings,
         f.ref = [stream |-> s, sequence |-> NextSequence(rows)]
  PROVE  /\ rows \in Seq(Fact) /\ Len(rows) = n /\ Addressed(s, rows)
         /\ NextSequence(rows) = n + 1
         /\ Insert(rows, f) = Append(rows, f)
<1> DEFINE new == Insert(rows, f)
<1>1. rows \in Seq(Fact) /\ Len(rows) = n /\ Addressed(s, rows) /\ NextSequence(rows) = n + 1
  BY RowsAreStream DEF NextSequence
<1>2. /\ IsRows(s, new) /\ DOMAIN new = 1..n \union {n + 1}
      /\ new[n + 1] = f /\ \A i \in 1..n : new[i] = rows[i]
  <2>1. IsRows(s, new)
    BY InsertKeepsRows
  <2>2. f.ref.sequence = n + 1
    BY <1>1
  <2>3. new = [i \in 1..n \union {n + 1} |-> IF i = n + 1 THEN f ELSE rows[i]]
    BY <2>2 DEF Insert
  <2> HIDE DEF new
  <2>4. QED
    BY <2>1, <2>3
<1> HIDE DEF new
<1>3. 1..n \union {n + 1} = 1..(n + 1)
  OBVIOUS
<1>4. new \in Seq(Fact) /\ Len(new) = n + 1
  BY <1>2, <1>3, RowsAreStream
<1>5. Append(rows, f) \in Seq(Fact) /\ Len(Append(rows, f)) = n + 1
  BY <1>1
<1>6. \A i \in 1..(n + 1) : new[i] = Append(rows, f)[i]
  BY <1>1, <1>2
<1>7. new = Append(rows, f)
  BY <1>4, <1>5, <1>6
<1>8. QED
  BY <1>1, <1>7 DEF new

-----------------------------------------------------------------------------
(* The row a call inserts *)

RowOf(c, stream, k, m) ==
  [NewFact(c.stream, <<>>, Draft(c, stream, k)) EXCEPT
     !.ref = [stream |-> c.stream, sequence |-> m]]

\* What appendWithin inserts for a command that passed every check is a fact
\* under the number it was given, with the clock's reading.
LEMMA RowIsFact ==
  ASSUME NEW c \in Command, NEW stream, Addressed(c.stream, stream),
         NEW k \in Readings, NEW m \in Nat \ {0},
         Admission(c) = Ok, ReadOutcome(c, stream) = Ok, DraftOutcome(c, stream, k) = Ok
  PROVE  /\ RowOf(c, stream, k, m) \in Fact
         /\ RowOf(c, stream, k, m).ref = [stream |-> c.stream, sequence |-> m]
         /\ RowOf(c, stream, k, m).knowledge = k
<1> DEFINE d   == Draft(c, stream, k)
           ref == [stream |-> c.stream, sequence |-> m]
           f   == RowOf(c, stream, k, m)
<1>1. NewFact(c.stream, stream, d) \in Fact
  BY DraftBecomesFact, ReadingsAssumption
<1>2. ref \in Ref
  BY CommandOfOp DEF Ref
<1>3. d.knowledge = k
  BY DraftKnowledge
<1>4. f = [ref |-> ref, effective |-> d.effective, knowledge |-> d.knowledge,
           confidence |-> d.confidence, inputs |-> d.inputs, asOf |-> d.asOf,
           kind |-> d.kind, payload |-> d.payload]
  BY DEF RowOf, NewFact
<1> HIDE DEF d, ref, f
<1>5. NewFact(c.stream, stream, d) =
        [ref |-> NextRef(c.stream, stream), effective |-> d.effective,
         knowledge |-> d.knowledge, confidence |-> d.confidence, inputs |-> d.inputs,
         asOf |-> d.asOf, kind |-> d.kind, payload |-> d.payload]
  BY DEF NewFact
<1>6. f \in Fact
  BY <1>1, <1>2, <1>4, <1>5 DEF Fact
<1>7. f.ref = ref /\ f.knowledge = k
  BY <1>3, <1>4
<1>8. QED
  BY <1>6, <1>7 DEF f, ref

-----------------------------------------------------------------------------
(* The inductive invariant *)

\* Where a call has a transaction open.
Tx == {"load", "clock", "append", "commit", "rollback"}

Places == {"new", "connect", "begin", "answer", "done", "lost"} \union Tx

Types ==
  /\ DOMAIN table = Streams
  /\ \A s \in Streams : IsRows(s, table[s])
  /\ pc \in [Requests -> Places]
  /\ DOMAIN cmd = Requests /\ DOMAIN work = Requests /\ DOMAIN snap = Requests
  /\ DOMAIN know = Requests /\ DOMAIN result = Requests
  /\ losses \in Nat

\* A call that was let in has a complete command and, with a transaction open,
\* holds the write lock; it has loaded nothing before it begins.
Admitted(r) ==
  /\ pc[r] # "new" => cmd[r] \in Commands
  /\ pc[r] \in {"connect", "begin"} \union Tx => Admission(cmd[r]) = Ok
  /\ pc[r] \in Tx => writer = r
  /\ pc[r] = "load" => ReadsStream(cmd[r])
  /\ pc[r] \notin Tx \ {"load"} => snap[r] = <<>>

\* The stream call r decided from is the committed one, when it read any.
ReadAsStored(r) ==
  /\ IF ReadsStream(cmd[r])
     THEN Loaded(cmd[r].stream, table[cmd[r].stream], snap[r])
     ELSE snap[r] = <<>>
  /\ ReadOutcome(cmd[r], snap[r]) = Ok

\* Call r read the clock, and its envelope was built.
Drafted(r) == know[r] \in Readings /\ DraftOutcome(cmd[r], snap[r], know[r]) = Ok

\* The rows call r will commit are the committed ones and its own.
Extends(r) ==
  LET rows == table[cmd[r].stream] IN
  /\ AppendWithin(rows, Expect(cmd[r], snap[r]), know[r]) = Ok
  /\ work[r] = Insert(rows, RowOf(cmd[r], snap[r], know[r], NextSequence(rows)))

\* What call r decided still holds of the committed rows.
Fresh(r) ==
  /\ pc[r] \in {"load", "clock", "append"} => work[r] = table[cmd[r].stream]
  /\ pc[r] \in {"clock", "append", "commit"} => ReadAsStored(r)
  /\ pc[r] \in {"append", "commit"} => Drafted(r)
  /\ pc[r] = "commit" => Extends(r)

\* What LoadedAsStored says of call r.
Stored(r) == \A n \in DOMAIN snap[r] : n \in DOMAIN work[r] /\ snap[r][n] = work[r][n]

Inv == Types /\ \A r \in Requests : Admitted(r) /\ Fresh(r) /\ Stored(r)

LEMMA CommandsAreCommands ==
  ASSUME NEW c \in Commands
  PROVE  c \in Command /\ c.stream \in Streams
BY CommandsAssumption, CommandOfOp

\* One transaction at a time.
LEMMA Exclusive ==
  ASSUME Inv, NEW q \in Requests, NEW r \in Requests, pc[q] \in Tx, pc[r] \in Tx
  PROVE  q = r
BY DEF Inv, Admitted

\* While the lock is free no transaction is open.
LEMMA NobodyWrites ==
  ASSUME Inv, writer = Free, NEW q \in Requests
  PROVE  pc[q] \notin Tx
BY RequestsAssumption DEF Inv, Admitted

LEMMA InitInv == Init => Inv
<1> SUFFICES ASSUME Init PROVE Inv
  OBVIOUS
<1>1. Types
  <2>1. ASSUME NEW s \in Streams PROVE IsRows(s, table[s])
    <3>1. table[s] = <<>> /\ DOMAIN <<>> = {} /\ 0 \in Nat
      BY DEF Init
    <3>2. <<>> = [i \in DOMAIN <<>> |-> <<>>[i]]
      OBVIOUS
    <3>3. QED
      BY <3>1, <3>2 DEF IsRows
  <2>2. QED
    BY <2>1 DEF Init, Types, Places
<1>2. ASSUME NEW r \in Requests PROVE Admitted(r) /\ Fresh(r) /\ Stored(r)
  BY DEF Init, Admitted, Fresh, Stored, Tx
<1>3. QED
  BY <1>1, <1>2 DEF Inv

\* A step leaves a call as it was if it touches none of its locals and, with its
\* transaction open, neither the lock nor the committed rows.
LEMMA Bystander ==
  ASSUME Inv, NEW q \in Requests,
         pc'[q] = pc[q], cmd'[q] = cmd[q], work'[q] = work[q],
         snap'[q] = snap[q], know'[q] = know[q],
         pc[q] \in Tx => writer' = writer /\ table' = table
  PROVE  (Admitted(q) /\ Fresh(q) /\ Stored(q))'
<1>0. Admitted(q) /\ Fresh(q) /\ Stored(q)
  BY DEF Inv
<1>1. Admitted(q)'
  BY <1>0 DEF Admitted
<1>2. Fresh(q)'
  <2>1. CASE pc[q] \in Tx
    BY <1>0, <2>1 DEF Fresh, ReadAsStored, Drafted, Extends
  <2>2. CASE pc[q] \notin Tx
    BY <2>2 DEF Fresh, Tx
  <2>3. QED
    BY <2>1, <2>2
<1>3. Stored(q)'
  BY <1>0 DEF Stored
<1>4. QED
  BY <1>1, <1>2, <1>3

\* The steps that give back what some calls hold: they end with nothing loaded
\* and no transaction, and nobody else has one open when the rows change.
LEMMA ReleaseInv ==
  ASSUME Inv, NEW rs \in SUBSET Requests, Release(rs), Types', cmd' = cmd,
         \A q \in rs : pc[q] # "new" /\ pc'[q] \in {"answer", "lost"},
         \A q \in Requests \ rs : pc'[q] = pc[q],
         \/ table' = table
         \/ \A q \in Requests \ rs : pc[q] \notin Tx
  PROVE  Inv'
<1> SUFFICES ASSUME NEW q \in Requests PROVE (Admitted(q) /\ Fresh(q) /\ Stored(q))'
  BY DEF Inv
<1>1. CASE q \in rs
  <2>1. snap'[q] = <<>> /\ pc'[q] \in {"answer", "lost"} /\ cmd'[q] = cmd[q] /\ pc[q] # "new"
    BY <1>1 DEF Release
  <2>2. cmd[q] \in Commands
    BY <2>1 DEF Inv, Admitted
  <2>3. QED
    BY <2>1, <2>2 DEF Admitted, Fresh, Stored, Tx
<1>2. CASE q \notin rs
  <2>1. /\ pc'[q] = pc[q] /\ cmd'[q] = cmd[q] /\ work'[q] = work[q]
        /\ snap'[q] = snap[q] /\ know'[q] = know[q]
    BY <1>2 DEF Release
  <2>2. ASSUME pc[q] \in Tx PROVE writer' = writer /\ table' = table
    <3>1. writer = q
      BY <2>2 DEF Inv, Admitted
    <3>2. QED
      BY <1>2, <2>2, <3>1 DEF Release
  <2>3. QED
    BY <2>1, <2>2, Bystander
<1>3. QED
  BY <1>1, <1>2

\* A call that has drafted its fact: the row it inserts is well formed.
LEMMA RowOfCall ==
  ASSUME Inv, NEW r \in Requests, pc[r] \in {"append", "commit"}
  PROVE  LET s    == cmd[r].stream
             rows == table[s]
             f    == RowOf(cmd[r], snap[r], know[r], NextSequence(rows))
         IN  /\ cmd[r] \in Commands /\ cmd[r] \in Command /\ s \in Streams
             /\ Admission(cmd[r]) = Ok
             /\ know[r] \in Readings
             /\ IsRows(s, rows)
             /\ f \in Fact /\ f.knowledge = know[r]
             /\ f.ref = [stream |-> s, sequence |-> NextSequence(rows)]
<1> DEFINE s    == cmd[r].stream
           rows == table[s]
<1>1. cmd[r] \in Commands /\ Admission(cmd[r]) = Ok
  BY DEF Inv, Admitted, Tx
<1>2. cmd[r] \in Command /\ s \in Streams
  BY <1>1, CommandsAreCommands
<1>3. IsRows(s, rows)
  BY <1>2 DEF Inv, Types
<1>4. ReadAsStored(r) /\ Drafted(r)
  BY DEF Inv, Fresh
<1>5. Addressed(s, snap[r])
  <2>1. CASE ReadsStream(cmd[r])
    BY <1>4, <2>1 DEF ReadAsStored, Loaded
  <2>2. CASE ~ReadsStream(cmd[r])
    <3>1. snap[r] = <<>>
      BY <1>4, <2>2 DEF ReadAsStored
    <3>2. <<>> \in Seq(Fact) /\ 1..Len(<<>>) = {}
      OBVIOUS
    <3>3. QED
      BY <3>1, <3>2 DEF Addressed
  <2>3. QED
    BY <2>1, <2>2
<1>6. NextSequence(rows) \in Nat \ {0}
  BY <1>3, CountAndHighest DEF NextSequence
<1>7. QED
  BY <1>1, <1>2, <1>3, <1>4, <1>5, <1>6, RowIsFact DEF ReadAsStored, Drafted

LEMMA InvokeInv ==
  ASSUME Inv, NEW r \in Requests, Invoke(r) PROVE Inv'
<1>1. PICK c \in Commands :
        /\ pc[r] = "new"
        /\ cmd' = [cmd EXCEPT ![r] = c]
        /\ \/ Admission(c) = Ok /\ pc' = [pc EXCEPT ![r] = "connect"]
           \/ pc' = [pc EXCEPT ![r] = "done"]
        /\ UNCHANGED <<table, writer, conn, clock, locals, crashes, losses>>
        /\ \/ result' = result
           \/ \E o : Return(r, o)
  BY DEF Invoke, Goto
<1>2. Types'
  BY <1>1 DEF Inv, Types, Places, Return, locals
<1>3. ASSUME NEW q \in Requests, q # r PROVE (Admitted(q) /\ Fresh(q) /\ Stored(q))'
  <2>1. pc'[q] = pc[q] /\ cmd'[q] = cmd[q]
    BY <1>1, <1>3 DEF Inv, Types
  <2>2. QED
    BY <1>1, <1>3, <2>1, Bystander DEF locals
<1>4. (Admitted(r) /\ Fresh(r) /\ Stored(r))'
  <2>1. /\ cmd'[r] = c /\ snap'[r] = snap[r]
        /\ \/ pc'[r] = "connect" /\ Admission(c) = Ok
           \/ pc'[r] = "done"
    BY <1>1 DEF Inv, Types, locals
  <2>2. snap[r] = <<>>
    BY <1>1 DEF Inv, Admitted, Tx
  <2>3. QED
    BY <2>1, <2>2 DEF Admitted, Fresh, Stored, Tx
<1>5. QED
  BY <1>2, <1>3, <1>4 DEF Inv

LEMMA ConnectInv ==
  ASSUME Inv, NEW r \in Requests, Connect(r) PROVE Inv'
<1>1. Types'
  BY DEF Inv, Types, Places, Connect, Goto, locals
<1>2. ASSUME NEW q \in Requests, q # r PROVE (Admitted(q) /\ Fresh(q) /\ Stored(q))'
  <2>1. pc'[q] = pc[q]
    BY <1>2 DEF Connect, Goto, Inv, Types
  <2>2. QED
    BY <2>1, Bystander DEF Connect, locals
<1>3. (Admitted(r) /\ Fresh(r) /\ Stored(r))'
  <2>1. /\ pc[r] = "connect" /\ pc'[r] = "begin" /\ UNCHANGED <<cmd, snap>>
    BY DEF Connect, Goto, Inv, Types, locals
  <2>2. cmd[r] \in Commands /\ Admission(cmd[r]) = Ok /\ snap[r] = <<>>
    BY <2>1 DEF Inv, Admitted, Tx
  <2>3. QED
    BY <2>1, <2>2 DEF Admitted, Fresh, Stored, Tx
<1>4. QED
  BY <1>1, <1>2, <1>3 DEF Inv

LEMMA BeginInv ==
  ASSUME Inv, NEW r \in Requests, Begin(r) PROVE Inv'
<1>1. Types'
  BY DEF Inv, Types, Places, Tx, Begin, Goto
<1>2. ASSUME NEW q \in Requests, q # r PROVE (Admitted(q) /\ Fresh(q) /\ Stored(q))'
  <2>1. pc'[q] = pc[q] /\ work'[q] = work[q]
    BY <1>2 DEF Begin, Goto, Inv, Types
  <2>2. pc[q] \notin Tx
    BY NobodyWrites DEF Begin
  <2>3. QED
    BY <2>1, <2>2, Bystander DEF Begin
<1>3. (Admitted(r) /\ Fresh(r) /\ Stored(r))'
  <2>1. /\ pc[r] = "begin" /\ UNCHANGED <<cmd, snap, table>> /\ writer' = r
        /\ work'[r] = table[cmd[r].stream]
        /\ pc'[r] = IF ReadsStream(cmd[r]) THEN "load" ELSE "clock"
    BY DEF Begin, Goto, Inv, Types
  <2>2. cmd[r] \in Commands /\ Admission(cmd[r]) = Ok /\ snap[r] = <<>>
    BY <2>1 DEF Inv, Admitted, Tx
  <2>3. ~ReadsStream(cmd[r]) => ReadOutcome(cmd[r], snap[r]) = Ok
    BY <2>2, CommandsAreCommands, UnreadStream
  <2>4. QED
    BY <2>1, <2>2, <2>3 DEF Admitted, Fresh, Stored, Tx, ReadAsStored
<1>4. QED
  BY <1>1, <1>2, <1>3 DEF Inv

LEMMA LoadInv ==
  ASSUME Inv, NEW r \in Requests, Load(r) PROVE Inv'
<1> DEFINE name    == cmd[r].stream
           loaded  == LoadOutcome(name, work[r])
           stream  == IF loaded = Ok THEN Replay(name, work[r]) ELSE <<>>
           outcome == IF loaded \in {Ok, "ErrStreamNotFound"}
                      THEN ReadOutcome(cmd[r], stream) ELSE loaded
<1>1. /\ pc[r] = "load"
      /\ snap' = [snap EXCEPT ![r] = stream]
      /\ \/ outcome = Ok /\ pc' = [pc EXCEPT ![r] = "clock"] /\ result' = result
         \/ pc' = [pc EXCEPT ![r] = "rollback"] /\ Return(r, Refused(outcome))
      /\ UNCHANGED <<table, writer, conn, clock, cmd, work, know, crashes, losses>>
  BY DEF Load, Goto
<1>2. /\ cmd[r] \in Commands /\ Admission(cmd[r]) = Ok /\ writer = r
      /\ work[r] = table[name]
  BY <1>1 DEF Inv, Admitted, Fresh, Tx
<1>3. name \in Streams /\ IsRows(name, work[r])
  BY <1>2, CommandsAreCommands DEF Inv, Types
<1>4. \/ loaded \in {Ok, "ErrStreamNotFound"} /\ Loaded(name, work[r], stream)
      \/ loaded \notin {Ok, "ErrStreamNotFound"} /\ stream = <<>>
  BY <1>3, LoadReturnsRows
<1>5. outcome = Ok => Loaded(name, work[r], stream) /\ ReadOutcome(cmd[r], stream) = Ok
  BY <1>4
<1> HIDE DEF loaded, stream, outcome
<1>6. Types'
  BY <1>1 DEF Inv, Types, Places, Tx, Return
<1>7. ASSUME NEW q \in Requests, q # r PROVE (Admitted(q) /\ Fresh(q) /\ Stored(q))'
  <2>1. pc'[q] = pc[q] /\ snap'[q] = snap[q]
    BY <1>1, <1>7 DEF Inv, Types
  <2>2. QED
    BY <1>1, <2>1, Bystander
<1>8. (Admitted(r) /\ Fresh(r) /\ Stored(r))'
  <2>1. snap'[r] = stream /\ ((pc'[r] = "clock" /\ outcome = Ok) \/ pc'[r] = "rollback")
    BY <1>1 DEF Inv, Types
  <2>2. Admitted(r)'
    BY <1>1, <1>2, <2>1 DEF Admitted, Tx
  <2>3. ASSUME pc'[r] = "clock" PROVE ReadAsStored(r)'
    <3>1. Loaded(name, table[name], stream) /\ ReadOutcome(cmd[r], stream) = Ok
      BY <1>2, <1>5, <2>1, <2>3
    <3>2. ReadsStream(cmd[r])
      BY <1>1 DEF Inv, Admitted
    <3>3. QED
      BY <1>1, <2>1, <3>1, <3>2 DEF ReadAsStored
  <2>4. Fresh(r)'
    BY <1>1, <1>2, <2>1, <2>3 DEF Fresh
  <2>5. Stored(r)'
    <3>1. Loaded(name, work[r], stream) => stream = work[r]
      BY <1>3, LoadedIsRows
    <3>2. stream = work[r] \/ stream = <<>>
      BY <1>4, <3>1
    <3>3. QED
      BY <1>1, <2>1, <3>2 DEF Stored
  <2>6. QED
    BY <2>2, <2>4, <2>5
<1>9. QED
  BY <1>6, <1>7, <1>8 DEF Inv

LEMMA ReadClockInv ==
  ASSUME Inv, NEW r \in Requests, ReadClock(r) PROVE Inv'
<1>1. PICK k \in Readings :
        /\ pc[r] = "clock"
        /\ know' = [know EXCEPT ![r] = k]
        /\ \/ DraftOutcome(cmd[r], snap[r], k) = Ok /\ pc' = [pc EXCEPT ![r] = "append"]
           \/ pc' = [pc EXCEPT ![r] = "rollback"]
        /\ result' = result \/ \E o : Return(r, o)
        /\ UNCHANGED <<table, writer, conn, cmd, work, snap, crashes, losses>>
  BY DEF ReadClock, Goto
<1>2. Types'
  BY <1>1 DEF Inv, Types, Places, Tx, Return
<1>3. ASSUME NEW q \in Requests, q # r PROVE (Admitted(q) /\ Fresh(q) /\ Stored(q))'
  <2>1. pc'[q] = pc[q] /\ know'[q] = know[q]
    BY <1>1, <1>3 DEF Inv, Types
  <2>2. QED
    BY <1>1, <2>1, Bystander
<1>4. (Admitted(r) /\ Fresh(r) /\ Stored(r))'
  <2>1. /\ know'[r] = k
        /\ \/ pc'[r] = "append" /\ DraftOutcome(cmd[r], snap[r], k) = Ok
           \/ pc'[r] = "rollback"
    BY <1>1 DEF Inv, Types
  <2>2. /\ cmd[r] \in Commands /\ Admission(cmd[r]) = Ok /\ writer = r
        /\ work[r] = table[cmd[r].stream] /\ ReadAsStored(r) /\ Stored(r)
    BY <1>1 DEF Inv, Admitted, Fresh, Tx
  <2>3. Admitted(r)' /\ Stored(r)'
    BY <1>1, <2>1, <2>2 DEF Admitted, Stored, Tx
  <2>4. ReadAsStored(r)'
    BY <1>1, <2>2 DEF ReadAsStored
  <2>5. Fresh(r)'
    BY <1>1, <2>1, <2>2, <2>4 DEF Fresh, Drafted
  <2>6. QED
    BY <2>3, <2>5
<1>5. QED
  BY <1>2, <1>3, <1>4 DEF Inv

\* What StoreAppend does, as two cases.
LEMMA StoreAppendCases ==
  ASSUME NEW r \in Requests, StoreAppend(r)
  PROVE  LET m       == NextSequence(work[r])
             outcome == AppendWithin(work[r], Expect(cmd[r], snap[r]), know[r])
             f       == RowOf(cmd[r], snap[r], know[r], m)
         IN  /\ pc[r] = "append"
             /\ \/ /\ outcome = Ok
                   /\ work' = [work EXCEPT ![r] = Insert(work[r], f)]
                   /\ result' = [result EXCEPT ![r] =
                                   Accepted([stream |-> cmd[r].stream, sequence |-> m])]
                   /\ pc' = [pc EXCEPT ![r] = "commit"]
                \/ /\ outcome # Ok
                   /\ work' = work
                   /\ result' = [result EXCEPT ![r] = Refused(outcome)]
                   /\ pc' = [pc EXCEPT ![r] = "rollback"]
             /\ UNCHANGED <<table, writer, conn, clock, cmd, snap, know, crashes, losses>>
BY DEF StoreAppend, Goto, Return, RowOf

LEMMA StoreAppendInv ==
  ASSUME Inv, NEW r \in Requests, StoreAppend(r) PROVE Inv'
<1> DEFINE s    == cmd[r].stream
           rows == table[s]
           f    == RowOf(cmd[r], snap[r], know[r], NextSequence(rows))
<1>1. pc[r] = "append" /\ work[r] = rows
  BY StoreAppendCases DEF Inv, Fresh
<1>2. /\ \/ /\ AppendWithin(rows, Expect(cmd[r], snap[r]), know[r]) = Ok
            /\ work' = [work EXCEPT ![r] = Insert(rows, f)]
            /\ pc' = [pc EXCEPT ![r] = "commit"]
         \/ work' = work /\ pc' = [pc EXCEPT ![r] = "rollback"]
      /\ \E res : result' = [result EXCEPT ![r] = res]
      /\ UNCHANGED <<table, writer, conn, clock, cmd, snap, know, crashes, losses>>
  BY <1>1, StoreAppendCases
<1>3. Types'
  BY <1>2 DEF Inv, Types, Places, Tx
<1>4. ASSUME NEW q \in Requests, q # r PROVE (Admitted(q) /\ Fresh(q) /\ Stored(q))'
  <2>1. pc'[q] = pc[q] /\ work'[q] = work[q]
    BY <1>2, <1>4 DEF Inv, Types
  <2>2. QED
    BY <1>2, <2>1, Bystander
<1>5. (Admitted(r) /\ Fresh(r) /\ Stored(r))'
  <2>1. \/ /\ AppendWithin(rows, Expect(cmd[r], snap[r]), know[r]) = Ok
           /\ work'[r] = Insert(rows, f) /\ pc'[r] = "commit"
        \/ work'[r] = rows /\ pc'[r] = "rollback"
    BY <1>1, <1>2 DEF Inv, Types
  <2>2. /\ cmd[r] \in Commands /\ Admission(cmd[r]) = Ok /\ writer = r
        /\ ReadAsStored(r) /\ Drafted(r) /\ Stored(r)
    BY <1>1 DEF Inv, Admitted, Fresh, Tx
  <2>3. Admitted(r)'
    BY <1>2, <2>1, <2>2 DEF Admitted, Tx
  <2>4. ReadAsStored(r)' /\ Drafted(r)'
    BY <1>2, <2>2 DEF ReadAsStored, Drafted
  <2>5. pc'[r] = "commit" => Extends(r)'
    BY <1>2, <2>1 DEF Extends
  <2>6. Fresh(r)'
    BY <2>1, <2>4, <2>5 DEF Fresh
  <2>7. Stored(r)'
    <3>1. /\ DOMAIN rows \subseteq DOMAIN work'[r]
          /\ \A i \in DOMAIN rows : work'[r][i] = rows[i]
      <4>1. CASE work'[r] = Insert(rows, f)
        <5>1. IsRows(s, rows) /\ f.ref = [stream |-> s, sequence |-> NextSequence(rows)]
          BY <1>1, RowOfCall
        <5>2. f.ref.sequence = NextSequence(rows)
          BY <5>1
        <5>3. NextSequence(rows) \notin DOMAIN rows
          BY <5>1, CountAndHighest DEF NextSequence
        <5> HIDE DEF f
        <5>4. Insert(rows, f) = [i \in DOMAIN rows \union {NextSequence(rows)} |->
                                   IF i = NextSequence(rows) THEN f ELSE rows[i]]
          BY <5>2 DEF Insert
        <5>5. QED
          BY <4>1, <5>3, <5>4
      <4>2. CASE work'[r] = rows
        BY <4>2
      <4>3. QED
        BY <2>1, <4>1, <4>2
    <3>2. QED
      BY <1>1, <1>2, <2>2, <3>1 DEF Stored
  <2>8. QED
    BY <2>3, <2>6, <2>7
<1>6. QED
  BY <1>3, <1>4, <1>5 DEF Inv

LEMMA CommitInv ==
  ASSUME Inv, NEW r \in Requests, Commit(r) PROVE Inv'
<1> DEFINE s    == cmd[r].stream
           rows == table[s]
           f    == RowOf(cmd[r], snap[r], know[r], NextSequence(rows))
<1>1. /\ pc[r] = "commit" /\ table' = [table EXCEPT ![s] = work[r]] /\ Release({r})
      /\ pc' = [pc EXCEPT ![r] = "answer"] /\ UNCHANGED <<clock, cmd, result, crashes, losses>>
  BY DEF Commit, Goto
<1>2. work[r] = Insert(rows, f)
  BY <1>1 DEF Inv, Fresh, Extends
<1>3. s \in Streams /\ IsRows(s, work[r])
  <2>1. /\ s \in Streams /\ IsRows(s, rows) /\ f \in Fact /\ f.knowledge \in Readings
        /\ f.ref = [stream |-> s, sequence |-> NextSequence(rows)]
    BY <1>1, RowOfCall
  <2> HIDE DEF s, rows, f
  <2>2. IsRows(s, Insert(rows, f))
    BY <2>1, InsertKeepsRows
  <2>3. QED
    BY <1>2, <2>1, <2>2
<1>4. \A t \in Streams : IsRows(t, table'[t])
  <2> SUFFICES ASSUME NEW t \in Streams PROVE IsRows(t, table'[t])
    OBVIOUS
  <2>1. CASE t = s
    <3>1. table'[t] = work[r]
      BY <1>1, <1>3, <2>1 DEF Inv, Types
    <3>2. QED
      BY <1>3, <2>1, <3>1
  <2>2. CASE t # s
    <3>1. table'[t] = table[t]
      BY <1>1, <2>2 DEF Inv, Types
    <3>2. QED
      BY <3>1 DEF Inv, Types
  <2>3. QED
    BY <2>1, <2>2
<1>5. Types'
  BY <1>1, <1>4 DEF Inv, Types, Places, Release
<1>6. \A q \in Requests \ {r} : pc'[q] = pc[q] /\ pc[q] \notin Tx
  BY <1>1, Exclusive DEF Inv, Types, Tx
<1>7. pc'[r] = "answer"
  BY <1>1 DEF Inv, Types
<1>8. QED
  BY <1>1, <1>5, <1>6, <1>7, ReleaseInv

LEMMA GiveUpInv ==
  ASSUME Inv, NEW r \in Requests, Busy(r) \/ Rollback(r) \/ Abort(r) PROVE Inv'
<1>1. /\ pc[r] # "new" /\ pc' = [pc EXCEPT ![r] = "answer"] /\ Release({r})
      /\ UNCHANGED <<table, cmd, losses>>
      /\ result' = result \/ \E o : result' = [result EXCEPT ![r] = o]
  BY DEF Busy, Rollback, Abort, Goto, Return
<1>2. Types'
  BY <1>1 DEF Inv, Types, Places, Release
<1>3. pc'[r] = "answer" /\ \A q \in Requests \ {r} : pc'[q] = pc[q]
  BY <1>1 DEF Inv, Types
<1>4. QED
  BY <1>1, <1>2, <1>3, ReleaseInv

LEMMA CrashInv ==
  ASSUME Inv, NEW p \in Processes, Crash(p) PROVE Inv'
<1> DEFINE dead == {r \in Hosted(p) : pc[r] \notin {"new", "done"}}
<1>1. /\ Release(dead) /\ UNCHANGED <<table, cmd, losses>>
      /\ pc' = [r \in Requests |-> IF r \in dead THEN "lost" ELSE pc[r]]
      /\ DOMAIN result' = Requests
  BY DEF Crash
<1>2. dead \in SUBSET Requests
  BY DEF Hosted
<1>3. \A q \in dead : pc[q] # "new"
  OBVIOUS
<1> HIDE DEF dead
<1>4. Types'
  BY <1>1 DEF Inv, Types, Places, Release
<1>5. QED
  BY <1>1, <1>2, <1>3, <1>4, ReleaseInv

LEMMA AnswerInv ==
  ASSUME Inv, NEW r \in Requests, Answer(r) PROVE Inv'
<1>1. Types'
  BY DEF Inv, Types, Places, Answer, Goto, locals
<1>2. ASSUME NEW q \in Requests, q # r PROVE (Admitted(q) /\ Fresh(q) /\ Stored(q))'
  <2>1. pc'[q] = pc[q]
    BY <1>2 DEF Answer, Goto, Inv, Types
  <2>2. QED
    BY <2>1, Bystander DEF Answer, locals
<1>3. (Admitted(r) /\ Fresh(r) /\ Stored(r))'
  <2>1. pc[r] = "answer" /\ pc'[r] = "done" /\ UNCHANGED <<cmd, snap>>
    BY DEF Answer, Goto, Inv, Types, locals
  <2>2. cmd[r] \in Commands /\ snap[r] = <<>>
    BY <2>1 DEF Inv, Admitted, Tx
  <2>3. QED
    BY <2>1, <2>2 DEF Admitted, Fresh, Stored, Tx
<1>4. QED
  BY <1>1, <1>2, <1>3 DEF Inv

LEMMA LoseRowInv ==
  ASSUME Inv, NEW s \in Streams, LoseRow(s) PROVE Inv'
<1>1. PICK i \in DOMAIN table[s] :
        table' = [table EXCEPT ![s] = [j \in DOMAIN table[s] \ {i} |-> table[s][j]]]
  BY DEF LoseRow
<1>2. IsRows(s, table'[s])
  <2>1. table'[s] = [j \in DOMAIN table[s] \ {i} |-> table[s][j]]
    BY <1>1 DEF Inv, Types
  <2>2. IsRows(s, table[s])
    BY DEF Inv, Types
  <2>3. /\ DOMAIN table'[s] = DOMAIN table[s] \ {i}
        /\ \A j \in DOMAIN table'[s] : table'[s][j] = table[s][j]
        /\ table'[s] = [j \in DOMAIN table'[s] |-> table'[s][j]]
    BY <2>1
  <2>4. QED
    BY <2>2, <2>3 DEF IsRows
<1>3. ASSUME NEW t \in Streams PROVE IsRows(t, table'[t])
  <2>1. CASE t = s
    BY <1>2, <2>1
  <2>2. CASE t # s
    <3>1. table'[t] = table[t]
      BY <1>1, <2>2 DEF Inv, Types
    <3>2. QED
      BY <3>1 DEF Inv, Types
  <2>3. QED
    BY <2>1, <2>2
<1>4. Types'
  <2>1. DOMAIN table' = Streams /\ losses' \in Nat
    BY <1>1 DEF Inv, Types, LoseRow
  <2>2. UNCHANGED <<pc, cmd, work, snap, know, result>>
    BY DEF LoseRow, locals
  <2>3. QED
    BY <1>3, <2>1, <2>2 DEF Inv, Types
<1>5. ASSUME NEW q \in Requests PROVE (Admitted(q) /\ Fresh(q) /\ Stored(q))'
  <2>1. pc[q] \notin Tx
    BY NobodyWrites DEF LoseRow
  <2>2. QED
    BY <2>1, Bystander DEF LoseRow, locals
<1>6. QED
  BY <1>4, <1>5 DEF Inv

LEMMA StepInv == Inv /\ [Next]_vars => Inv'
<1> SUFFICES ASSUME Inv, [Next]_vars PROVE Inv'
  OBVIOUS
<1>1. CASE UNCHANGED vars
  <2>1. Types'
    BY <1>1 DEF Inv, Types, vars, locals
  <2>2. ASSUME NEW q \in Requests PROVE (Admitted(q) /\ Fresh(q) /\ Stored(q))'
    BY <1>1, Bystander DEF vars, locals
  <2>3. QED
    BY <2>1, <2>2 DEF Inv
<1>2. CASE Finished
  BY <1>1, <1>2 DEF Finished
<1>3. ASSUME NEW r \in Requests, Invoke(r) \/ Step(r) \/ Busy(r) \/ Abort(r) PROVE Inv'
  BY <1>3, InvokeInv, ConnectInv, BeginInv, LoadInv, ReadClockInv, StoreAppendInv,
     CommitInv, GiveUpInv, AnswerInv DEF Step
<1>4. QED
  BY <1>1, <1>2, <1>3, CrashInv, LoseRowInv DEF Next

LEMMA AlwaysInv == Spec => []Inv
BY InitInv, StepInv, PTL DEF Spec

\* No use case decides from a renumbered stream, whatever rows are lost: each
\* fact of a stream that was loaded is the one stored under its reference.
THEOREM LoadsAreFaithful == Spec => []LoadedAsStored
<1>1. Inv => LoadedAsStored
  BY DEF Inv, Stored, LoadedAsStored
<1>2. QED
  BY <1>1, AlwaysInv, PTL

-----------------------------------------------------------------------------
(* Gaps *)

\* A stream is committed to by its own writer, with no row missing.
LEMMA CommitExtends ==
  ASSUME Inv, NEW r \in Requests, Commit(r)
  PROVE  LET s    == cmd[r].stream
             rows == table[s]
             f    == RowOf(cmd[r], snap[r], know[r], NextSequence(rows))
         IN  /\ s \in Streams /\ IsRows(s, rows)
             /\ table' = [table EXCEPT ![s] = Insert(rows, f)]
             /\ AppendWithin(rows, Expect(cmd[r], snap[r]), know[r]) = Ok
             /\ Count(rows) \in Nat /\ DOMAIN rows = 1..Count(rows)
<1> DEFINE s    == cmd[r].stream
           rows == table[s]
           f    == RowOf(cmd[r], snap[r], know[r], NextSequence(rows))
<1>1. pc[r] = "commit" /\ table' = [table EXCEPT ![s] = work[r]]
  BY DEF Commit
<1>2. /\ work[r] = Insert(rows, f)
      /\ AppendWithin(rows, Expect(cmd[r], snap[r]), know[r]) = Ok
  BY <1>1 DEF Inv, Fresh, Extends
<1>3. s \in Streams /\ IsRows(s, rows)
  BY <1>1, RowOfCall
<1>4. Highest(rows) = Count(rows)
  BY <1>2 DEF AppendWithin, Ok
<1> HIDE DEF s, rows
<1>5. Count(rows) \in Nat /\ DOMAIN rows = 1..Count(rows)
  BY <1>3, <1>4, CountAndHighest, NoGapHighest
<1>6. QED
  BY <1>1, <1>2, <1>3, <1>5 DEF s, rows

\* Nothing but a commit and a loss changes the committed rows.
LEMMA TableSteps ==
  ASSUME Inv, [Next]_vars, table' # table
  PROVE  \/ \E r \in Requests : Commit(r)
         \/ \E s \in Streams : LoseRow(s)
BY DEF Next, Finished, vars, Invoke, Step, Connect, Begin, Load, ReadClock, StoreAppend,
       Rollback, Answer, Busy, Abort, Crash

\* A stream with a missing row is never written to, neither after the gap nor
\* inside it nor over a row that is left: only further losses change it.
THEOREM GapsStay == Spec => GapIsNotExtended
<1>1. ASSUME Inv, [Next]_vars, NEW s \in Streams, ~Contiguous(table[s]),
             NEW i \in DOMAIN table'[s]
      PROVE  i \in DOMAIN table[s] /\ table'[s][i] = table[s][i]
  <2>1. CASE table' = table
    BY <2>1
  <2>2. ASSUME NEW r \in Requests, Commit(r)
        PROVE  table'[s] = table[s]
    <3>1. DOMAIN table[cmd[r].stream] = 1..Count(table[cmd[r].stream])
      BY <1>1, <2>2, CommitExtends
    <3>2. s # cmd[r].stream
      BY <1>1, <3>1 DEF Contiguous
    <3>3. QED
      BY <1>1, <2>2, <3>2 DEF Commit, Inv, Types
  <2>3. ASSUME NEW t \in Streams, LoseRow(t)
        PROVE  i \in DOMAIN table[s] /\ table'[s][i] = table[s][i]
    <3>1. PICK j \in DOMAIN table[t] :
            table' = [table EXCEPT ![t] = [m \in DOMAIN table[t] \ {j} |-> table[t][m]]]
      BY <2>3 DEF LoseRow
    <3>2. CASE s = t
      <4>1. table'[s] = [m \in DOMAIN table[s] \ {j} |-> table[s][m]]
        BY <1>1, <3>1, <3>2 DEF Inv, Types
      <4>2. QED
        BY <1>1, <4>1
    <3>3. CASE s # t
      <4>1. table'[s] = table[s]
        BY <1>1, <3>1, <3>3 DEF Inv, Types
      <4>2. QED
        BY <1>1, <4>1
    <3>4. QED
      BY <3>2, <3>3
  <2>4. QED
    BY <1>1, <2>1, <2>2, <2>3, TableSteps
<1>2. Inv /\ [Next]_vars =>
        [\A s \in Streams :
           ~Contiguous(table[s]) =>
             \A i \in DOMAIN table'[s] : i \in DOMAIN table[s] /\ table'[s][i] = table[s][i]]_vars
  BY <1>1
<1>3. QED
  BY <1>2, AlwaysInv, PTL DEF Spec, GapIsNotExtended

-----------------------------------------------------------------------------
(* Nobody is refused for another's sake *)

\* MAX(knowledge) is the latest knowledge time of a stream's rows.
LEMMA LastKnownRow ==
  ASSUME NEW s, NEW rows, IsRows(s, rows), DOMAIN rows # {}
  PROVE  /\ \E i \in DOMAIN rows : LastKnown(rows) = rows[i].knowledge
         /\ \A i \in DOMAIN rows : rows[i].knowledge <= LastKnown(rows)
<1> DEFINE T == {Nanos(rows[i].knowledge) : i \in DOMAIN rows}
<1>1. \A i \in DOMAIN rows :
        /\ rows[i].knowledge \in Nat /\ rows[i].knowledge <= HalfRange
        /\ Nanos(rows[i].knowledge) = rows[i].knowledge
  <2>1. \A k \in Readings : k \in Nat /\ k <= HalfRange /\ Nanos(k) = k
    BY NanosOfReading, HalfRangeAssumption
  <2>2. \A i \in DOMAIN rows : rows[i].knowledge \in Readings
    BY DEF IsRows
  <2>3. QED
    BY <2>1, <2>2
<1>2. T \in SUBSET Nat /\ T # {} /\ \A y \in T : y <= HalfRange
  BY <1>1
<1>3. HalfRange \in Nat
  BY HalfRangeAssumption
<1>4. LastKnown(rows) = Max(T)
  BY DEF LastKnown
<1> HIDE DEF T
<1>5. Max(T) \in T /\ \A y \in T : y <= Max(T)
  BY <1>2, <1>3, MaxOfBounded
<1>6. QED
  BY <1>1, <1>4, <1>5 DEF T

\* The length a call read is the number of rows it appends to.
LEMMA ExpectationMet ==
  ASSUME Inv, NEW r \in Requests, pc[r] = "append"
  PROVE  AppendWithin(table[cmd[r].stream], Expect(cmd[r], snap[r]), know[r]) # "ErrStaleRead"
<1> DEFINE s    == cmd[r].stream
           rows == table[s]
           e    == Expect(cmd[r], snap[r])
<1>1. IsRows(s, rows) /\ ReadAsStored(r)
  BY RowOfCall DEF Inv, Fresh
<1>2. CASE ReadsStream(cmd[r])
  <2>1. Count(rows) = Len(snap[r])
    BY <1>1, <1>2, LoadedIsRows DEF ReadAsStored
  <2>2. e.length = Len(snap[r])
    BY <1>2 DEF Expect, AtLength
  <2>3. QED
    BY <2>1, <2>2 DEF AppendWithin, Ok
<1>3. CASE ~ReadsStream(cmd[r])
  <2>1. ~e.checked
    BY <1>3 DEF Expect, ExpectAny
  <2>2. QED
    BY <2>1 DEF AppendWithin, Ok
<1>4. QED
  BY <1>2, <1>3

\* A steady clock is ahead of every row, and a call that read it is ahead of the
\* rows it is about to append to.
Ahead ==
  /\ clock \in Nat
  /\ \A s \in Streams : \A i \in DOMAIN table[s] : table[s][i].knowledge <= clock
  /\ \A r \in Requests : pc[r] \in {"append", "commit"} => know[r] <= clock
  /\ \A r \in Requests : pc[r] = "append" =>
       \A i \in DOMAIN table[cmd[r].stream] : table[cmd[r].stream][i].knowledge < know[r]

LEMMA StepAhead ==
  ASSUME SteadyClock PROVE Inv /\ Ahead /\ [Next]_vars => Ahead'
<1> SUFFICES ASSUME Inv, Ahead, [Next]_vars PROVE Ahead'
  OBVIOUS
<1>0. \A s \in Streams : \A i \in DOMAIN table[s] : table[s][i].knowledge \in Nat
  BY ReadingsAssumption DEF Inv, Types, IsRows, Instant
<1>1. ASSUME UNCHANGED <<table, clock>>,
             \A q \in Requests : pc'[q] \in {"append", "commit"} =>
               /\ cmd'[q] = cmd[q] /\ know'[q] = know[q]
               /\ pc[q] = pc'[q] \/ (pc[q] = "append" /\ pc'[q] = "commit")
      PROVE  Ahead'
  BY <1>1 DEF Ahead
<1>2. CASE UNCHANGED vars \/ Finished
  <2>1. UNCHANGED <<table, clock, pc, cmd, know>>
    BY <1>2 DEF Finished, vars, locals
  <2>2. QED
    BY <1>1, <2>1
<1>3. ASSUME NEW r \in Requests, Invoke(r) \/ Connect(r) \/ Begin(r) \/ Load(r) \/ Answer(r)
      PROVE  Ahead'
  BY <1>1, <1>3 DEF Invoke, Connect, Begin, Load, Answer, Goto, locals, Inv, Types
<1>4. ASSUME NEW r \in Requests, Busy(r) \/ Abort(r) \/ Rollback(r) PROVE Ahead'
  <2>1. UNCHANGED <<table, clock, cmd>> /\ Release({r}) /\ pc' = [pc EXCEPT ![r] = "answer"]
    BY <1>4 DEF Busy, Abort, Rollback, Goto
  <2>2. QED
    BY <1>1, <2>1 DEF Release, Inv, Types
<1>5. ASSUME NEW p \in Processes, Crash(p) PROVE Ahead'
  <2>1. PICK dead : /\ Release(dead) /\ UNCHANGED <<table, clock, cmd>>
                    /\ pc' = [r \in Requests |-> IF r \in dead THEN "lost" ELSE pc[r]]
    BY <1>5 DEF Crash
  <2>2. QED
    BY <1>1, <2>1 DEF Release
<1>6. ASSUME NEW r \in Requests, StoreAppend(r) PROVE Ahead'
  BY <1>1, <1>6, StoreAppendCases DEF Inv, Types
<1>7. ASSUME NEW r \in Requests, ReadClock(r) PROVE Ahead'
  <2>1. PICK k \in Readings : k = clock + 1 /\ clock' = k /\ know' = [know EXCEPT ![r] = k]
    BY <1>7 DEF ReadClock
  <2>2. /\ pc[r] = "clock" /\ UNCHANGED <<table, cmd>>
        /\ \A q \in Requests : q # r => pc'[q] = pc[q] /\ know'[q] = know[q]
    BY <1>7, <2>1 DEF ReadClock, Goto, Inv, Types
  <2>3. cmd[r].stream \in Streams /\ know'[r] = clock + 1 /\ clock \in Nat
    BY <2>1, <2>2, CommandsAreCommands DEF Inv, Types, Admitted, Ahead
  <2>4. \A q \in Requests : q # r => pc[q] \notin Tx
    BY <2>2, Exclusive DEF Tx
  <2>5. ASSUME NEW s \in Streams, NEW i \in DOMAIN table[s]
        PROVE  table[s][i].knowledge <= clock' /\ table[s][i].knowledge < know'[r]
    BY <1>0, <2>1, <2>3 DEF Ahead
  <2>6. ASSUME NEW q \in Requests, pc'[q] \in {"append", "commit"} PROVE q = r
    BY <2>2, <2>4, <2>6 DEF Tx
  <2>7. QED
    BY <2>1, <2>2, <2>3, <2>5, <2>6 DEF Ahead
<1>8. ASSUME NEW r \in Requests, Commit(r) PROVE Ahead'
  <2> DEFINE s    == cmd[r].stream
             rows == table[s]
             f    == RowOf(cmd[r], snap[r], know[r], NextSequence(rows))
  <2>1. /\ table' = [table EXCEPT ![s] = Insert(rows, f)] /\ UNCHANGED <<clock, cmd>>
        /\ pc[r] = "commit" /\ pc' = [pc EXCEPT ![r] = "answer"]
    BY <1>8, CommitExtends DEF Commit, Goto
  <2>2. s \in Streams /\ f.knowledge = know[r] /\ know[r] <= clock
    BY <2>1, RowOfCall DEF Ahead
  <2> HIDE DEF f
  <2>3. ASSUME NEW q \in Requests PROVE pc'[q] \notin {"append", "commit"}
    BY <2>1, Exclusive DEF Tx, Inv, Types
  <2>4. ASSUME NEW t \in Streams, NEW i \in DOMAIN table'[t]
        PROVE  table'[t][i].knowledge <= clock
    <3>1. CASE t # s
      <4>1. table'[t] = table[t]
        BY <2>1, <3>1 DEF Inv, Types
      <4>2. QED
        BY <2>4, <4>1 DEF Ahead
    <3>2. CASE t = s
      <4>1. table'[t] = Insert(rows, f)
        BY <2>1, <2>2, <3>2 DEF Inv, Types
      <4>2. table'[t][i] = f \/ (i \in DOMAIN rows /\ table'[t][i] = rows[i])
        BY <2>4, <4>1 DEF Insert
      <4>3. QED
        BY <2>2, <4>2 DEF Ahead
    <3>3. QED
      BY <3>1, <3>2
  <2>5. QED
    BY <2>1, <2>3, <2>4 DEF Ahead
<1>9. ASSUME NEW s \in Streams, LoseRow(s) PROVE Ahead'
  <2>1. PICK i \in DOMAIN table[s] :
          table' = [table EXCEPT ![s] = [j \in DOMAIN table[s] \ {i} |-> table[s][j]]]
    BY <1>9 DEF LoseRow
  <2>2. ASSUME NEW q \in Requests PROVE pc'[q] \notin {"append", "commit"}
    BY <1>9, NobodyWrites DEF LoseRow, Tx
  <2>3. ASSUME NEW t \in Streams, NEW j \in DOMAIN table'[t]
        PROVE  j \in DOMAIN table[t] /\ table'[t][j] = table[t][j]
    <3>1. CASE t # s
      BY <2>1, <2>3, <3>1 DEF Inv, Types
    <3>2. CASE t = s
      <4>1. table'[t] = [m \in DOMAIN table[t] \ {i} |-> table[t][m]]
        BY <2>1, <3>2 DEF Inv, Types
      <4>2. QED
        BY <2>3, <4>1
    <3>3. QED
      BY <3>1, <3>2
  <2>4. clock' = clock
    BY <1>9 DEF LoseRow
  <2>5. QED
    BY <2>2, <2>3, <2>4 DEF Ahead
<1>10. QED
  BY <1>2, <1>3, <1>4, <1>5, <1>6, <1>7, <1>8, <1>9 DEF Next, Step

\* A step gives a call a refusal that a race can cause only at StoreAppend.
LEMMA OutcomeSteps ==
  ASSUME Inv, [Next]_vars, NEW q \in Requests, result'[q].outcome \in RaceErrors
  PROVE  \/ result'[q] = result[q]
         \/ /\ pc[q] = "append"
            /\ result'[q].outcome = AppendWithin(table[cmd[q].stream],
                                                 Expect(cmd[q], snap[q]), know[q])
<1>1. ASSUME NEW r \in Requests, NEW o, o \notin RaceErrors,
             result' = [result EXCEPT ![r] = Refused(o)]
      PROVE  result'[q] = result[q]
  <2>1. r = q => result'[q].outcome = o
    BY <1>1 DEF Inv, Types, Refused
  <2>2. QED
    BY <1>1, <2>1 DEF Inv, Types
<1>2. CASE UNCHANGED vars \/ Finished
  BY <1>2 DEF Finished, vars
<1>3. ASSUME NEW r \in Requests, Invoke(r) PROVE result'[q] = result[q]
  <2>1. PICK c \in Commands : result' = result \/ Return(r, Refused(Admission(c)))
    BY <1>3 DEF Invoke
  <2>2. Admission(c) \notin RaceErrors
    BY CommandsAreCommands, NoRaceBeforeAppend
  <2>3. QED
    BY <1>1, <2>1, <2>2 DEF Return
<1>4. ASSUME NEW r \in Requests, Connect(r) \/ Begin(r) \/ Commit(r) \/ Rollback(r) \/ Answer(r)
      PROVE  result'[q] = result[q]
  BY <1>4 DEF Connect, Begin, Commit, Rollback, Answer
<1>5. ASSUME NEW r \in Requests, Busy(r) \/ Abort(r) PROVE result'[q] = result[q]
  <2>1. PICK o \in {"ErrBusy", "ErrAborted"} : result' = [result EXCEPT ![r] = Refused(o)]
    BY <1>5 DEF Busy, Abort, Return
  <2>2. QED
    BY <1>1, <2>1 DEF RaceErrors
<1>6. ASSUME NEW p \in Processes, Crash(p) PROVE result'[q] = result[q]
  <2>1. result'[q] = Refused("lost") \/ result'[q] = result[q]
    BY <1>6 DEF Crash
  <2>2. QED
    BY <2>1 DEF Refused, RaceErrors
<1>7. ASSUME NEW s \in Streams, LoseRow(s) PROVE result'[q] = result[q]
  BY <1>7 DEF LoseRow
<1>8. ASSUME NEW r \in Requests, Load(r) PROVE result'[q] = result[q]
  <2> DEFINE loaded  == LoadOutcome(cmd[r].stream, work[r])
             stream  == IF loaded = Ok THEN Replay(cmd[r].stream, work[r]) ELSE <<>>
             outcome == IF loaded \in {Ok, "ErrStreamNotFound"}
                        THEN ReadOutcome(cmd[r], stream) ELSE loaded
  <2>1. result' = result \/ result' = [result EXCEPT ![r] = Refused(outcome)]
    BY <1>8 DEF Load, Return
  <2>2. loaded \notin RaceErrors
    BY DEF LoadOutcome, RaceErrors, Ok
  <2>3. cmd[r] \in Command
    BY <1>8, CommandsAreCommands DEF Load, Inv, Admitted
  <2> HIDE DEF loaded, stream
  <2>4. ReadOutcome(cmd[r], stream) \notin RaceErrors
    BY <2>3, NoRaceBeforeAppend
  <2>5. outcome \notin RaceErrors
    BY <2>2, <2>4
  <2>6. QED
    BY <1>1, <2>1, <2>5
<1>9. ASSUME NEW r \in Requests, ReadClock(r) PROVE result'[q] = result[q]
  <2>1. PICK k \in Readings :
          result' = result \/ Return(r, Refused(DraftOutcome(cmd[r], snap[r], k)))
    BY <1>9 DEF ReadClock
  <2>2. cmd[r] \in Command
    BY <1>9, CommandsAreCommands DEF ReadClock, Inv, Admitted
  <2>3. DraftOutcome(cmd[r], snap[r], k) \notin RaceErrors
    BY <2>2, NoRaceBeforeAppend
  <2>4. QED
    BY <1>1, <2>1, <2>3 DEF Return
<1>10. ASSUME NEW r \in Requests, StoreAppend(r), r # q PROVE result'[q] = result[q]
  BY <1>10, StoreAppendCases DEF Inv, Types
<1>11. ASSUME StoreAppend(q)
       PROVE  /\ pc[q] = "append"
              /\ result'[q].outcome = AppendWithin(table[cmd[q].stream],
                                                   Expect(cmd[q], snap[q]), know[q])
  <2> DEFINE o == AppendWithin(work[q], Expect(cmd[q], snap[q]), know[q])
  <2>1. /\ pc[q] = "append"
        /\ \/ o = Ok /\ \E ref : result' = [result EXCEPT ![q] = Accepted(ref)]
           \/ result' = [result EXCEPT ![q] = Refused(o)]
    BY <1>11, StoreAppendCases
  <2>2. work[q] = table[cmd[q].stream]
    BY <2>1 DEF Inv, Fresh
  <2> HIDE DEF o
  <2>3. result'[q].outcome = o
    BY <2>1 DEF Inv, Types, Accepted, Refused, Ok
  <2>4. QED
    BY <2>1, <2>2, <2>3 DEF o
<1>12. QED
  BY <1>2, <1>3, <1>4, <1>5, <1>6, <1>7, <1>8, <1>9, <1>10, <1>11 DEF Next, Step

\* With a clock that advances between readings no writer is refused because of
\* another, in its own process or a different one: the clock is read inside the
\* transaction.
THEOREM SteadyWritersAreIndependent ==
  ASSUME SteadyClock PROVE Spec => []NoWriterRefusedForAnother
<1>1. Init => Ahead /\ NoWriterRefusedForAnother
  BY DEF Init, Ahead, NoWriterRefusedForAnother, Pending, Unset
<1>2. Inv /\ Ahead /\ NoWriterRefusedForAnother /\ [Next]_vars => NoWriterRefusedForAnother'
  <2> SUFFICES ASSUME Inv, Ahead, NoWriterRefusedForAnother, [Next]_vars,
                      NEW q \in Requests, result'[q].outcome \in RaceErrors
               PROVE  FALSE
    BY DEF NoWriterRefusedForAnother, RaceErrors
  <2> DEFINE rows == table[cmd[q].stream]
             o    == AppendWithin(rows, Expect(cmd[q], snap[q]), know[q])
  <2>1. result'[q] # result[q]
    BY DEF NoWriterRefusedForAnother, RaceErrors
  <2>2. pc[q] = "append" /\ result'[q].outcome = o
    BY <2>1, OutcomeSteps
  <2>3. o # "ErrStaleRead"
    BY <2>2, ExpectationMet
  <2>4. o # "ErrNonMonotonicKnowledge"
    <3>1. IsRows(cmd[q].stream, rows) /\ know[q] \in Readings
      BY <2>2, RowOfCall
    <3>2. \A i \in DOMAIN rows : rows[i].knowledge < know[q]
      BY <2>2 DEF Ahead
    <3>3. Nanos(know[q]) = know[q] /\ know[q] \in Nat
      BY <3>1, NanosOfReading
    <3>4. \A i \in DOMAIN rows : rows[i].knowledge \in Nat
      BY <3>1, ReadingsAssumption DEF IsRows, Instant
    <3> HIDE DEF rows
    <3>5. DOMAIN rows # {} => LastKnown(rows) < know[q] /\ LastKnown(rows) \in Nat
      BY <3>1, <3>2, <3>4, LastKnownRow
    <3>6. ~(DOMAIN rows # {} /\ Nanos(know[q]) <= LastKnown(rows))
      BY <3>3, <3>5
    <3>7. QED
      BY <3>6 DEF AppendWithin, Ok
  <2>5. QED
    BY <2>2, <2>3, <2>4 DEF RaceErrors
<1>3. Inv /\ Ahead /\ [Next]_vars => Ahead'
  BY StepAhead
<1>4. QED
  BY <1>1, <1>2, <1>3, AlwaysInv, PTL DEF Spec

-----------------------------------------------------------------------------
(* Every commit is atomic, where only the store writes *)

NoGaps == \A s \in Streams : Contiguous(table[s])

LEMMA StepNoGaps ==
  ASSUME MaxLosses = 0 PROVE Inv /\ NoGaps /\ [Next]_vars => NoGaps'
<1> SUFFICES ASSUME Inv, NoGaps, [Next]_vars, NEW t \in Streams PROVE Contiguous(table'[t])
  BY DEF NoGaps, Contiguous
<1>1. CASE table' = table
  BY <1>1 DEF NoGaps
<1>2. ASSUME NEW s \in Streams, LoseRow(s) PROVE FALSE
  BY <1>2 DEF LoseRow, Inv, Types
<1>3. ASSUME NEW r \in Requests, Commit(r) PROVE Contiguous(table'[t])
  <2> DEFINE s    == cmd[r].stream
             rows == table[s]
             f    == RowOf(cmd[r], snap[r], know[r], NextSequence(rows))
             n    == Count(rows)
  <2>1. /\ s \in Streams /\ IsRows(s, rows) /\ table' = [table EXCEPT ![s] = Insert(rows, f)]
        /\ n \in Nat /\ DOMAIN rows = 1..n
    BY <1>3, CommitExtends
  <2>2. /\ f \in Fact /\ f.knowledge \in Readings
        /\ f.ref = [stream |-> s, sequence |-> NextSequence(rows)]
    BY <1>3, RowOfCall DEF Commit
  <2>3. IsRows(t, table'[t])
    BY <1>3, CommitInv DEF Inv, Types
  <2>4. CASE t # s
    <3>1. table'[t] = table[t]
      BY <2>1, <2>4 DEF Inv, Types
    <3>2. QED
      BY <3>1 DEF NoGaps
  <2>5. CASE t = s
    <3>1. table'[t] = Insert(rows, f)
      BY <2>1, <2>5 DEF Inv, Types
    <3> HIDE DEF s, rows, f, n
    <3>2. rows \in Seq(Fact) /\ Len(rows) = n /\ Insert(rows, f) = Append(rows, f)
      BY <2>1, <2>2, InsertAppends
    <3>3. DOMAIN table'[t] = 1..(n + 1) /\ n + 1 \in Nat
      BY <2>1, <3>1, <3>2
    <3>4. Count(table'[t]) = n + 1
      BY <2>3, <3>3, RowsAreStream
    <3>5. QED
      BY <3>3, <3>4 DEF Contiguous
  <2>6. QED
    BY <2>4, <2>5
<1>4. QED
  BY <1>1, <1>2, <1>3, TableSteps

LEMMA AlwaysNoGaps ==
  ASSUME MaxLosses = 0 PROVE Spec => []NoGaps
<1>1. Init => NoGaps
  <2> SUFFICES ASSUME Init, NEW s \in Streams PROVE Contiguous(table[s])
    BY DEF NoGaps
  <2>1. table[s] = <<>> /\ DOMAIN <<>> = {} /\ DOMAIN <<>> = 1..0
    BY DEF Init
  <2>2. Cardinality({}) = 0
    BY FS_EmptySet
  <2>3. QED
    BY <2>1, <2>2 DEF Contiguous, Count
<1>2. Inv /\ NoGaps /\ [Next]_vars => NoGaps'
  BY StepNoGaps
<1>3. QED
  BY <1>1, <1>2, AlwaysInv, PTL DEF Spec

\* What is committed can be loaded again, whatever crashes: appending and
\* loading check a stream's sequences and its length each in their own way and
\* agree.  A stream without a name is the exception: the store appends to it and
\* refuses to load it.
THEOREM CommittedFactsLoad ==
  ASSUME MaxLosses = 0, EmptyName \notin Streams
  PROVE  Spec => []RecordedFactsLoad
<1>1. Inv /\ NoGaps => RecordedFactsLoad
  <2> SUFFICES ASSUME Inv, NoGaps, NEW s \in Streams, DOMAIN table[s] # {}
               PROVE  LoadOutcome(s, table[s]) = Ok
    BY DEF RecordedFactsLoad
  <2>1. DOMAIN table[s] = 1..Count(table[s]) /\ IsRows(s, table[s])
    BY DEF NoGaps, Contiguous, Inv, Types
  <2>2. ASSUME NEW i \in DOMAIN table[s] PROVE i \in 1..Count(table[s]) /\ table[s][i].ref.sequence = i
    <3>1. table[s][i].ref = [stream |-> s, sequence |-> i]
      BY <2>1 DEF IsRows
    <3>2. QED
      BY <2>1, <3>1
  <2>3. s # EmptyName
    OBVIOUS
  <2>4. QED
    BY <2>2, <2>3 DEF LoadOutcome
<1>2. QED
  BY <1>1, AlwaysInv, AlwaysNoGaps, PTL

\* AtomicLedger is instantiated with the constants of this module, so that its
\* copies of the use cases' operators are the ones used here.
LEMMA SameOutcomes ==
  ASSUME NEW c, NEW stream, NEW k, NEW name, NEW expect
  PROVE  /\ Atomic!Admission(c) = Admission(c)
         /\ Atomic!ReadOutcome(c, stream) = ReadOutcome(c, stream)
         /\ Atomic!DraftOutcome(c, stream, k) = DraftOutcome(c, stream, k)
         /\ Atomic!Expect(c, stream) = Expect(c, stream)
         /\ Atomic!AppendOutcome(name, stream, expect, k) = AppendOutcome(name, stream, expect, k)
<1> USE DEF Ok, Atomic!Ok, Unset, Atomic!Unset
<1>1. Atomic!Admission(c) = Admission(c)
  BY Zenon DEF Admission, Atomic!Admission, AcceptHoldingClaimAdmission,
     Atomic!AcceptHoldingClaimAdmission, MintIdentityAdmission, Atomic!MintIdentityAdmission,
     EntityKinds, Atomic!EntityKinds
<1>2. Atomic!ReadOutcome(c, stream) = ReadOutcome(c, stream)
  BY Zenon DEF ReadOutcome, Atomic!ReadOutcome, CorrectFactRead, Atomic!CorrectFactRead,
     MintIdentityRead, Atomic!MintIdentityRead, ObserveClaimedHoldingRead,
     Atomic!ObserveClaimedHoldingRead, HasFact, Atomic!HasFact,
     CorrectionKinds, Atomic!CorrectionKinds, CanDerive, Atomic!CanDerive,
     IsResolved, Atomic!IsResolved, Answering, Atomic!Answering, VisibleAt, Atomic!VisibleAt,
     Resolves, Atomic!Resolves, IsA, Atomic!IsA, Visible, Atomic!Visible,
     Contains, Atomic!Contains, IsOpen, Atomic!IsOpen
<1>3. Atomic!DraftOutcome(c, stream, k) = DraftOutcome(c, stream, k)
  BY Zenon DEF DraftOutcome, Atomic!DraftOutcome, MintIdentityOutcome,
     Atomic!MintIdentityOutcome, StatedOutcome, Atomic!StatedOutcome,
     RecordedOutcome, Atomic!RecordedOutcome, MintIdentityResolves,
     Atomic!MintIdentityResolves, NewAsOf, Atomic!NewAsOf,
     IsResolved, Atomic!IsResolved, Answering, Atomic!Answering, VisibleAt, Atomic!VisibleAt,
     Resolves, Atomic!Resolves, IsA, Atomic!IsA, Visible, Atomic!Visible,
     Contains, Atomic!Contains, IsOpen, Atomic!IsOpen
<1>4. Atomic!Expect(c, stream) = Expect(c, stream)
  BY Zenon DEF Expect, Atomic!Expect, ReadsStream, Atomic!ReadsStream, AtLength,
     Atomic!AtLength, ExpectAny, Atomic!ExpectAny
<1>5. Atomic!AppendOutcome(name, stream, expect, k) = AppendOutcome(name, stream, expect, k)
  BY Zenon DEF AppendOutcome, Atomic!AppendOutcome, LastKnowledge, Atomic!LastKnowledge
<1>6. QED
  BY <1>1, <1>2, <1>3, <1>4, <1>5

LEMMA SameFacts ==
  ASSUME NEW c, NEW stream, NEW k, NEW name, NEW d
  PROVE  /\ Atomic!Draft(c, stream, k) = Draft(c, stream, k)
         /\ Atomic!NewFact(name, stream, d) = NewFact(name, stream, d)
<1>1. Atomic!Draft(c, stream, k) = Draft(c, stream, k)
  BY Zenon DEF Draft, Atomic!Draft, ObserveHoldingDraft, Atomic!ObserveHoldingDraft,
     CorrectFactDraft, Atomic!CorrectFactDraft, AcceptHoldingClaimDraft,
     Atomic!AcceptHoldingClaimDraft, MintIdentityDraft, Atomic!MintIdentityDraft,
     ObserveClaimedHoldingDraft, Atomic!ObserveClaimedHoldingDraft,
     MintFor, Atomic!MintFor, DeriveFromClaim, Atomic!DeriveFromClaim,
     ZeroAsOf, Atomic!ZeroAsOf, Unset, Atomic!Unset,
     DeriveHoldingObserved, Atomic!DeriveHoldingObserved,
     ResolveWithTrace, Atomic!ResolveWithTrace, FirstOf, Atomic!FirstOf,
     Precedes, Atomic!Precedes, Answering, Atomic!Answering, VisibleAt, Atomic!VisibleAt,
     Resolves, Atomic!Resolves, IsA, Atomic!IsA, Visible, Atomic!Visible,
     Contains, Atomic!Contains, IsOpen, Atomic!IsOpen
<1>2. Atomic!NewFact(name, stream, d) = NewFact(name, stream, d)
  BY Zenon DEF NewFact, Atomic!NewFact, NextRef, Atomic!NextRef
<1>3. QED
  BY <1>1, <1>2


\* A commit is the whole use case, done atomically on the stream as it is: the
\* checks of the call hold of the committed rows, and its row is the next fact.
LEMMA CommitIsAtomic ==
  ASSUME EmptyName \notin Streams, Inv, NEW r \in Requests, Commit(r)
  PROVE  Atomic!Next
<1> DEFINE c    == cmd[r]
           k    == know[r]
           s    == c.stream
           rows == table[s]
           f    == RowOf(c, snap[r], k, NextSequence(rows))
           n    == Count(rows)
           g    == NewFact(s, rows, Draft(c, rows, k))
<1>1. /\ c \in Commands /\ c \in Command /\ s \in Streams /\ k \in Readings
      /\ Admission(c) = Ok /\ IsRows(s, rows)
      /\ f \in Fact /\ f.knowledge = k
      /\ f.ref = [stream |-> s, sequence |-> NextSequence(rows)]
  BY RowOfCall DEF Commit
<1>2. /\ table' = [table EXCEPT ![s] = Insert(rows, f)]
      /\ AppendWithin(rows, Expect(c, snap[r]), k) = Ok
      /\ n \in Nat /\ DOMAIN rows = 1..n
  BY CommitExtends
<1>3. ReadAsStored(r) /\ Drafted(r)
  BY DEF Commit, Inv, Fresh
<1>4. /\ ReadOutcome(c, rows) = Ok
      /\ DraftOutcome(c, rows, k) = Ok
      /\ Draft(c, snap[r], k) = Draft(c, rows, k)
      /\ Expect(c, snap[r]) = Expect(c, rows)
  <2>1. CASE ReadsStream(c)
    <3>1. Loaded(s, rows, snap[r])
      BY <1>3, <2>1 DEF ReadAsStored
    <3>2. snap[r] = rows
      BY <1>1, <3>1, LoadedIsRows
    <3>3. QED
      BY <1>3, <3>2 DEF ReadAsStored, Drafted
  <2>2. CASE ~ReadsStream(c)
    BY <1>1, <1>3, <2>2, UnreadStream DEF ReadAsStored, Drafted
  <2>3. QED
    BY <2>1, <2>2
<1>5. f = [ref |-> [stream |-> s, sequence |-> NextSequence(rows)],
           effective |-> Draft(c, rows, k).effective,
           knowledge |-> Draft(c, rows, k).knowledge,
           confidence |-> Draft(c, rows, k).confidence,
           inputs |-> Draft(c, rows, k).inputs, asOf |-> Draft(c, rows, k).asOf,
           kind |-> Draft(c, rows, k).kind, payload |-> Draft(c, rows, k).payload]
  BY <1>4 DEF RowOf, NewFact
<1> HIDE DEF c, k, s, rows, f, n
<1>6. /\ rows \in Seq(Fact) /\ Len(rows) = n /\ NextSequence(rows) = n + 1
      /\ Insert(rows, f) = Append(rows, f)
  BY <1>1, <1>2, InsertAppends
<1>7. Count(rows) = n
  BY DEF n
<1>8. f = g
  BY <1>5, <1>6 DEF NewFact, NextRef
<1>9. table' = [table EXCEPT ![s] = Append(rows, g)]
  BY <1>2, <1>6, <1>8
<1>10. AppendOutcome(s, rows, Expect(c, rows), k) = Ok
  <2>1. s # EmptyName
    BY <1>1
  <2>2. ~(Expect(c, rows).checked /\ Len(rows) # Expect(c, rows).length)
    BY <1>2, <1>4, <1>6, <1>7 DEF AppendWithin, Ok
  <2>3. ~(k <= LastKnowledge(rows))
    <3>1. k \in Nat /\ k # 0 /\ Nanos(k) = k
      BY <1>1, NanosOfReading, ReadingsAssumption DEF Instant, Unset
    <3>2. CASE n = 0
      BY <1>6, <3>1, <3>2 DEF LastKnowledge, Unset
    <3>3. CASE n # 0
      <4>1. n \in DOMAIN rows /\ rows # <<>>
        BY <1>2, <1>6, <3>3
      <4>2. LastKnowledge(rows) = rows[n].knowledge
        BY <1>6, <4>1 DEF LastKnowledge
      <4>3. ~(Nanos(k) <= LastKnown(rows))
        BY <1>2, <4>1 DEF AppendWithin, Ok
      <4>4. /\ \E i \in DOMAIN rows : LastKnown(rows) = rows[i].knowledge
            /\ rows[n].knowledge <= LastKnown(rows)
        BY <1>1, <4>1, LastKnownRow
      <4>5. \A i \in DOMAIN rows : rows[i].knowledge \in Nat
        BY <1>1, ReadingsAssumption DEF IsRows, Instant
      <4>6. QED
        BY <3>1, <4>1, <4>2, <4>3, <4>4, <4>5
    <3>4. QED
      BY <3>2, <3>3
  <2>4. QED
    BY <2>1, <2>2, <2>3 DEF AppendOutcome
<1>11. Atomic!Record(c, k)
  <2>1. /\ Atomic!Admission(c) = Ok
        /\ Atomic!ReadOutcome(c, rows) = Ok
        /\ Atomic!DraftOutcome(c, rows, k) = Ok
    BY <1>1, <1>4, SameOutcomes
  <2>2. Atomic!AppendOutcome(s, rows, Atomic!Expect(c, rows), k) = Ok
    BY <1>10, SameOutcomes
  <2>3. Atomic!NewFact(s, rows, Atomic!Draft(c, rows, k)) = g
    BY SameFacts
  <2>4. table' = [table EXCEPT ![s] =
                    Append(rows, Atomic!NewFact(s, rows, Atomic!Draft(c, rows, k)))]
    BY <1>9, <2>3
  <2>5. QED
    BY <2>1, <2>2, <2>4 DEF Atomic!Record, Atomic!Ok, Ok, s, rows
<1>12. QED
  BY <1>1, <1>11, CommandOfOp
     DEF Atomic!Next, Atomic!ObserveHolding, Atomic!CorrectFact, Atomic!AcceptHoldingClaim,
         Atomic!MintIdentity, Atomic!ObserveClaimedHolding

\* Several processes over one file, crashing at any step, implement the atomic
\* ledger while nothing but the store removes rows and every stream has a name:
\* each commit is one accepted use case, on the stream as it then is.
THEOREM ServiceIsAtomic ==
  ASSUME MaxLosses = 0, EmptyName \notin Streams
  PROVE  Spec => ImplementsAtomic
<1>1. Init => Atomic!Init
  BY DEF Init, Atomic!Init
<1>2. Inv /\ [Next]_vars => [Atomic!Next]_table
  <2> SUFFICES ASSUME Inv, [Next]_vars, table' # table PROVE Atomic!Next
    OBVIOUS
  <2>1. ASSUME NEW s \in Streams, LoseRow(s) PROVE FALSE
    BY <2>1 DEF LoseRow, Inv, Types
  <2>2. QED
    BY <2>1, TableSteps, CommitIsAtomic
<1>3. QED
  BY <1>1, <1>2, AlwaysInv, PTL DEF Spec, ImplementsAtomic, Atomic!Spec

-----------------------------------------------------------------------------
(* Answers and rows *)

NextRow(r) == [stream |-> cmd[r].stream, sequence |-> NextSequence(table[cmd[r].stream])]

\* A call about to commit promises the row it will insert; one that rolls back
\* promises nothing.
Promised ==
  \A r \in Requests :
    /\ pc[r] = "commit" => result[r] = Accepted(NextRow(r))
    /\ pc[r] = "rollback" => result[r].outcome # Ok

\* A step leaves what a call promised as it was, if it leaves the call alone and
\* nobody commits to its stream.
LEMMA StepPromised == Inv /\ Promised /\ [Next]_vars => Promised'
<1> SUFFICES ASSUME Inv, Promised, [Next]_vars, NEW q \in Requests
             PROVE  /\ pc'[q] = "commit" => result'[q] = Accepted(NextRow(q)')
                    /\ pc'[q] = "rollback" => result'[q].outcome # Ok
  BY DEF Promised
<1>1. ASSUME pc'[q] = pc[q], result'[q] = result[q], cmd'[q] = cmd[q],
             pc[q] \in Tx => table' = table
      PROVE  /\ pc'[q] = "commit" => result'[q] = Accepted(NextRow(q)')
             /\ pc'[q] = "rollback" => result'[q].outcome # Ok
  BY <1>1 DEF Promised, NextRow, Tx
<1>2. CASE UNCHANGED vars \/ Finished
  <2>1. UNCHANGED <<table, pc, cmd, result>>
    BY <1>2 DEF Finished, vars
  <2>2. QED
    BY <1>1, <2>1
<1>3. ASSUME NEW r \in Requests, Invoke(r) \/ Connect(r) \/ Begin(r) \/ Answer(r)
      PROVE  /\ pc'[q] = "commit" => result'[q] = Accepted(NextRow(q)')
             /\ pc'[q] = "rollback" => result'[q].outcome # Ok
  <2>1. table' = table
    BY <1>3 DEF Invoke, Connect, Begin, Answer
  <2>2. q # r => pc'[q] = pc[q] /\ result'[q] = result[q] /\ cmd'[q] = cmd[q]
    BY <1>3 DEF Invoke, Connect, Begin, Answer, Goto, Return, Inv, Types
  <2>3. pc'[r] \notin {"commit", "rollback"}
    BY <1>3 DEF Invoke, Connect, Begin, Answer, Goto, Inv, Types
  <2>4. QED
    BY <1>1, <2>1, <2>2, <2>3
<1>4. ASSUME NEW r \in Requests, Busy(r) \/ Abort(r) \/ Rollback(r) \/ Commit(r)
      PROVE  /\ pc'[q] = "commit" => result'[q] = Accepted(NextRow(q)')
             /\ pc'[q] = "rollback" => result'[q].outcome # Ok
  <2>1. pc'[r] = "answer" /\ UNCHANGED cmd
    BY <1>4 DEF Busy, Abort, Rollback, Commit, Goto, Inv, Types
  <2>2. q # r => pc'[q] = pc[q] /\ result'[q] = result[q]
    BY <1>4 DEF Busy, Abort, Rollback, Commit, Goto, Return, Inv, Types
  <2>3. q # r /\ pc[q] \in Tx => table' = table
    BY <1>4, Exclusive DEF Busy, Abort, Rollback, Commit, Tx
  <2>4. QED
    BY <1>1, <2>1, <2>2, <2>3
<1>5. ASSUME NEW p \in Processes, Crash(p)
      PROVE  /\ pc'[q] = "commit" => result'[q] = Accepted(NextRow(q)')
             /\ pc'[q] = "rollback" => result'[q].outcome # Ok
  <2>1. /\ UNCHANGED <<table, cmd>>
        /\ pc'[q] = "lost" \/ (pc'[q] = pc[q] /\ result'[q] = result[q])
    BY <1>5 DEF Crash
  <2>2. QED
    BY <1>1, <2>1
<1>6. ASSUME NEW s \in Streams, LoseRow(s)
      PROVE  /\ pc'[q] = "commit" => result'[q] = Accepted(NextRow(q)')
             /\ pc'[q] = "rollback" => result'[q].outcome # Ok
  <2>1. UNCHANGED <<pc, cmd, result>> /\ pc[q] \notin Tx
    BY <1>6, NobodyWrites DEF LoseRow
  <2>2. QED
    BY <1>1, <2>1
<1>7. ASSUME NEW r \in Requests, Load(r) \/ ReadClock(r)
      PROVE  /\ pc'[q] = "commit" => result'[q] = Accepted(NextRow(q)')
             /\ pc'[q] = "rollback" => result'[q].outcome # Ok
  <2>1. PICK o : \/ pc' = [pc EXCEPT ![r] = "clock"] /\ result' = result
                 \/ pc' = [pc EXCEPT ![r] = "append"] /\ result' = result
                 \/ /\ o # Ok /\ pc' = [pc EXCEPT ![r] = "rollback"]
                    /\ result' = [result EXCEPT ![r] = Refused(o)]
    BY <1>7 DEF Load, ReadClock, Goto, Return
  <2>2. UNCHANGED <<table, cmd>>
    BY <1>7 DEF Load, ReadClock
  <2>3. q # r => pc'[q] = pc[q] /\ result'[q] = result[q]
    BY <2>1 DEF Inv, Types
  <2>4. pc'[r] # "commit" /\ (pc'[r] = "rollback" => result'[r].outcome # Ok)
    BY <2>1 DEF Inv, Types, Refused
  <2>5. QED
    BY <1>1, <2>2, <2>3, <2>4
<1>8. ASSUME NEW r \in Requests, StoreAppend(r)
      PROVE  /\ pc'[q] = "commit" => result'[q] = Accepted(NextRow(q)')
             /\ pc'[q] = "rollback" => result'[q].outcome # Ok
  <2> DEFINE o == AppendWithin(work[r], Expect(cmd[r], snap[r]), know[r])
  <2>1. pc[r] = "append" /\ UNCHANGED <<table, cmd>>
    BY <1>8, StoreAppendCases
  <2>2. work[r] = table[cmd[r].stream]
    BY <2>1 DEF Inv, Fresh
  <2>3. \/ /\ pc' = [pc EXCEPT ![r] = "commit"]
           /\ result' = [result EXCEPT ![r] = Accepted(NextRow(r))]
        \/ /\ o # Ok /\ pc' = [pc EXCEPT ![r] = "rollback"]
           /\ result' = [result EXCEPT ![r] = Refused(o)]
    BY <1>8, <2>2, StoreAppendCases DEF NextRow
  <2> HIDE DEF o
  <2>4. q # r => pc'[q] = pc[q] /\ result'[q] = result[q]
    BY <2>3 DEF Inv, Types
  <2>5. /\ pc'[r] = "commit" => result'[r] = Accepted(NextRow(r))
        /\ pc'[r] = "rollback" => result'[r].outcome # Ok
    BY <2>3 DEF Inv, Types, Refused
  <2>6. NextRow(r)' = NextRow(r)
    BY <2>1 DEF NextRow
  <2>7. QED
    BY <1>1, <2>1, <2>4, <2>5, <2>6
<1>9. QED
  BY <1>2, <1>3, <1>4, <1>5, <1>6, <1>7, <1>8 DEF Next, Step

\* A call that was, or is about to be, told that it was accepted.
Told(r) == pc[r] \in {"answer", "done"} /\ result[r].outcome = Ok

\* A call that may have left a row.
Settled(r) == Told(r) \/ pc[r] = "lost"

Committed(ref) ==
  \E s \in Streams : \E i \in DOMAIN table[s] : ref = [stream |-> s, sequence |-> i]

\* Without a commit nothing is recorded, nobody is accepted, and no call that
\* may have left a row is forgotten.
LEMMA QuietStep ==
  ASSUME MaxLosses = 0, Inv, Promised, [Next]_vars, \A r \in Requests : ~Commit(r),
         NEW q \in Requests
  PROVE  /\ table' = table
         /\ Told(q)' => Told(q) /\ result'[q] = result[q]
         /\ Settled(q) => Settled(q)'
<1>1. table' = table
  <2>1. ASSUME NEW s \in Streams, LoseRow(s) PROVE FALSE
    BY <2>1 DEF LoseRow, Inv, Types
  <2>2. QED
    BY <2>1, TableSteps
<1> SUFFICES /\ Told(q)' => Told(q) /\ result'[q] = result[q]
             /\ Settled(q) => Settled(q)'
  BY <1>1
<1> USE DEF Told, Settled
<1>2. CASE UNCHANGED vars \/ Finished
  <2>1. UNCHANGED <<pc, result>>
    BY <1>2 DEF Finished, vars
  <2>2. QED
    BY <2>1
<1>3. ASSUME NEW r \in Requests, NEW from, NEW to,
             from \notin {"answer", "done", "lost"},
             pc[r] = from, pc' = [pc EXCEPT ![r] = to],
             result' = result \/ \E res : result' = [result EXCEPT ![r] = res],
             ~Told(r)'
      PROVE  /\ Told(q)' => Told(q) /\ result'[q] = result[q]
             /\ Settled(q) => Settled(q)'
  <2>1. q # r => pc'[q] = pc[q] /\ result'[q] = result[q]
    BY <1>3 DEF Inv, Types
  <2>2. QED
    BY <1>3, <2>1
<1>4. ASSUME NEW r \in Requests, Invoke(r)
      PROVE  /\ Told(q)' => Told(q) /\ result'[q] = result[q]
             /\ Settled(q) => Settled(q)'
  <2>1. PICK o : \/ pc' = [pc EXCEPT ![r] = "connect"] /\ result' = result
                 \/ /\ o # Ok /\ pc' = [pc EXCEPT ![r] = "done"]
                    /\ result' = [result EXCEPT ![r] = Refused(o)]
    BY <1>4 DEF Invoke, Goto, Return
  <2>2. ~Told(r)'
    BY <2>1 DEF Refused, Inv, Types
  <2>3. pc[r] = "new"
    BY <1>4 DEF Invoke
  <2>4. QED
    BY <1>3, <2>1, <2>2, <2>3
<1>5. ASSUME NEW r \in Requests, Connect(r) \/ Begin(r) \/ Load(r) \/ ReadClock(r) \/ StoreAppend(r)
      PROVE  /\ Told(q)' => Told(q) /\ result'[q] = result[q]
             /\ Settled(q) => Settled(q)'
  <2>1. /\ pc[r] \in {"connect", "begin", "load", "clock", "append"}
        /\ \E to \in {"begin"} \union Tx : pc' = [pc EXCEPT ![r] = to]
        /\ result' = result \/ \E res : result' = [result EXCEPT ![r] = res]
    BY <1>5 DEF Connect, Begin, Load, ReadClock, StoreAppend, Goto, Return, Tx
  <2>2. ~Told(r)'
    BY <2>1 DEF Tx, Inv, Types
  <2>3. QED
    BY <1>3, <2>1, <2>2
<1>6. ASSUME NEW r \in Requests, Busy(r) \/ Abort(r) \/ Rollback(r)
      PROVE  /\ Told(q)' => Told(q) /\ result'[q] = result[q]
             /\ Settled(q) => Settled(q)'
  <2>1. /\ pc[r] \in {"connect", "begin"} \union Tx
        /\ pc' = [pc EXCEPT ![r] = "answer"]
        /\ \/ result' = result /\ pc[r] = "rollback"
           \/ \E o \in {"ErrBusy", "ErrAborted"} : result' = [result EXCEPT ![r] = Refused(o)]
    BY <1>6 DEF Busy, Abort, Rollback, Goto, Return, Tx
  <2>2. ~Told(r)'
    BY <2>1 DEF Refused, Inv, Types, Promised, Ok
  <2>3. pc[r] \notin {"answer", "done", "lost"}
    BY <2>1 DEF Tx
  <2>4. QED
    BY <1>3, <2>1, <2>2, <2>3
<1>7. ASSUME NEW r \in Requests, Answer(r)
      PROVE  /\ Told(q)' => Told(q) /\ result'[q] = result[q]
             /\ Settled(q) => Settled(q)'
  BY <1>7 DEF Answer, Goto, Inv, Types
<1>8. ASSUME NEW p \in Processes, Crash(p)
      PROVE  /\ Told(q)' => Told(q) /\ result'[q] = result[q]
             /\ Settled(q) => Settled(q)'
  <2>1. pc'[q] = "lost" \/ (pc'[q] = pc[q] /\ result'[q] = result[q])
    BY <1>8 DEF Crash
  <2>2. QED
    BY <2>1
<1>9. ASSUME NEW s \in Streams, LoseRow(s)
      PROVE  /\ Told(q)' => Told(q) /\ result'[q] = result[q]
             /\ Settled(q) => Settled(q)'
  BY <1>9 DEF LoseRow
<1>10. QED
  BY <1>2, <1>4, <1>5, <1>6, <1>7, <1>8, <1>9 DEF Next, Step

\* A commit records the row its call promised and no other, and tells it alone.
LEMMA CommitStep ==
  ASSUME Inv, Promised, NEW r \in Requests, Commit(r)
  PROVE  /\ ~Settled(r) /\ Told(r)' /\ result' = result /\ result[r].ref = NextRow(r)
         /\ ~Committed(NextRow(r))
         /\ \A ref : Committed(ref)' <=> Committed(ref) \/ ref = NextRow(r)
         /\ \A q \in Requests : q # r => (Told(q)' <=> Told(q)) /\ (Settled(q)' <=> Settled(q))
<1> DEFINE s    == cmd[r].stream
           rows == table[s]
           m    == NextSequence(rows)
           f    == RowOf(cmd[r], snap[r], know[r], m)
<1>1. pc[r] = "commit" /\ pc' = [pc EXCEPT ![r] = "answer"] /\ result' = result
  BY DEF Commit, Goto
<1>2. result[r] = Accepted(NextRow(r))
  BY <1>1 DEF Promised
<1>3. result[r].ref = NextRow(r) /\ result[r].outcome = Ok
  BY <1>2 DEF Accepted
<1>4. pc'[r] = "answer" /\ \A q \in Requests : q # r => pc'[q] = pc[q]
  BY <1>1 DEF Inv, Types
<1>5. /\ s \in Streams /\ IsRows(s, rows) /\ table' = [table EXCEPT ![s] = Insert(rows, f)]
      /\ f.ref = [stream |-> s, sequence |-> m]
  BY <1>1, CommitExtends, RowOfCall
<1>6. f.ref.sequence = m
  BY <1>5
<1>7. m \notin DOMAIN rows
  BY <1>5, CountAndHighest DEF NextSequence
<1>8. NextRow(r) = [stream |-> s, sequence |-> m]
  BY DEF NextRow
<1> HIDE DEF f, m
<1>9. DOMAIN table'[s] = DOMAIN rows \union {m}
  <2>1. table'[s] = Insert(rows, f)
    BY <1>5 DEF Inv, Types
  <2>2. QED
    BY <1>6, <2>1 DEF Insert
<1>10. \A t \in Streams : t # s => table'[t] = table[t]
  BY <1>5 DEF Inv, Types
<1> HIDE DEF s
<1>11. ~Committed(NextRow(r))
  <2>1. SUFFICES ASSUME NEW t \in Streams, NEW i \in DOMAIN table[t],
                        [stream |-> s, sequence |-> m] = [stream |-> t, sequence |-> i]
                 PROVE  FALSE
    BY <1>8 DEF Committed
  <2>2. s = t /\ m = i
    BY <2>1
  <2>3. QED
    BY <1>7, <2>2
<1>12. ASSUME NEW ref PROVE Committed(ref)' <=> Committed(ref) \/ ref = NextRow(r)
  <2>1. ASSUME Committed(ref)' PROVE Committed(ref) \/ ref = NextRow(r)
    <3>0. PICK t \in Streams : \E i \in DOMAIN table'[t] : ref = [stream |-> t, sequence |-> i]
      BY <2>1 DEF Committed
    <3>1. PICK i \in DOMAIN table'[t] : ref = [stream |-> t, sequence |-> i]
      BY <3>0
    <3>2. CASE t = s /\ i = m
      BY <1>8, <3>1, <3>2
    <3>3. CASE ~(t = s /\ i = m)
      <4>1. i \in DOMAIN table[t]
        BY <1>9, <1>10, <3>1, <3>3
      <4>2. QED
        BY <3>1, <4>1 DEF Committed
    <3>4. QED
      BY <3>2, <3>3
  <2>2. ASSUME Committed(ref) PROVE Committed(ref)'
    <3>0. PICK t \in Streams : \E i \in DOMAIN table[t] : ref = [stream |-> t, sequence |-> i]
      BY <2>2 DEF Committed
    <3>1. PICK i \in DOMAIN table[t] : ref = [stream |-> t, sequence |-> i]
      BY <3>0
    <3>2. i \in DOMAIN table'[t]
      BY <1>9, <1>10, <3>1
    <3>3. QED
      BY <3>1, <3>2 DEF Committed
  <2>3. ASSUME ref = NextRow(r) PROVE Committed(ref)'
    BY <1>5, <1>8, <1>9, <2>3 DEF Committed
  <2>4. QED
    BY <2>1, <2>2, <2>3
<1>13. QED
  BY <1>1, <1>3, <1>4, <1>11, <1>12 DEF Told, Settled

\* Every call that was told a reference was told a committed one, nobody else's,
\* and every committed row was promised by a call that was told so or was lost.
Accounted ==
  /\ \A r \in Requests : Told(r) => Committed(result[r].ref)
  /\ \A q, r \in Requests : Told(q) /\ Told(r) /\ result[q].ref = result[r].ref => q = r
  /\ \E own :
       /\ DOMAIN own = Requests
       /\ \A r \in Requests : Told(r) => own[r] = result[r].ref
       /\ \A ref : Committed(ref) => \E r \in Requests : Settled(r) /\ own[r] = ref

LEMMA StepAccounted ==
  ASSUME MaxLosses = 0 PROVE Inv /\ Promised /\ Accounted /\ [Next]_vars => Accounted'
<1> SUFFICES ASSUME Inv, Promised, Accounted, [Next]_vars PROVE Accounted'
  OBVIOUS
<1>0. PICK own :
        /\ DOMAIN own = Requests
        /\ \A r \in Requests : Told(r) => own[r] = result[r].ref
        /\ \A ref : Committed(ref) => \E r \in Requests : Settled(r) /\ own[r] = ref
  BY DEF Accounted
<1>1. CASE \A r \in Requests : ~Commit(r)
  <2>1. \A q \in Requests :
          /\ table' = table
          /\ Told(q)' => Told(q) /\ result'[q] = result[q]
          /\ Settled(q) => Settled(q)'
    BY <1>1, QuietStep
  <2>2. \A ref : Committed(ref)' <=> Committed(ref)
    <3>1. CASE Requests = {}
      <4>1. table' = table
        BY <3>1, TableSteps DEF LoseRow, Inv, Types
      <4>2. QED
        BY <4>1 DEF Committed
    <3>2. CASE Requests # {}
      BY <2>1, <3>2 DEF Committed
    <3>3. QED
      BY <3>1, <3>2
  <2>3. ASSUME NEW r \in Requests, Told(r)' PROVE Committed(result[r].ref)' /\ result'[r] = result[r]
    BY <2>1, <2>2, <2>3 DEF Accounted
  <2>4. ASSUME NEW q \in Requests, NEW r \in Requests, Told(q)', Told(r)',
               result'[q].ref = result'[r].ref
        PROVE  q = r
    BY <2>1, <2>4 DEF Accounted
  <2>5. \A r \in Requests : Told(r)' => own[r] = result'[r].ref
    BY <1>0, <2>1
  <2>6. ASSUME NEW ref, Committed(ref)' PROVE \E r \in Requests : Settled(r)' /\ own[r] = ref
    BY <1>0, <2>1, <2>2, <2>6
  <2>7. /\ \A r \in Requests : Told(r)' => Committed(result[r].ref)' /\ result'[r] = result[r]
        /\ \A q, r \in Requests : Told(q)' /\ Told(r)' /\ result'[q].ref = result'[r].ref => q = r
        /\ \E o :
             /\ DOMAIN o = Requests
             /\ \A r \in Requests : Told(r)' => o[r] = result'[r].ref
             /\ \A ref : Committed(ref)' => \E r \in Requests : Settled(r)' /\ o[r] = ref
    BY <1>0, <2>3, <2>4, <2>5, <2>6
  <2>8. \A r \in Requests : Told(r)' => Committed(result[r].ref)'
    BY <2>7
  <2>9. QED
    BY <2>7 DEF Accounted, Committed
<1>2. ASSUME NEW r \in Requests, Commit(r) PROVE Accounted'
  <2> DEFINE new == NextRow(r)
             o   == [own EXCEPT ![r] = new]
  <2>1. /\ ~Settled(r) /\ ~Told(r) /\ Told(r)' /\ result' = result /\ result[r].ref = new
        /\ ~Committed(new)
        /\ \A ref : Committed(ref)' <=> Committed(ref) \/ ref = new
        /\ \A q \in Requests : q # r => (Told(q)' <=> Told(q)) /\ (Settled(q)' <=> Settled(q))
    BY <1>2, CommitStep DEF Settled
  <2>2. Settled(r)'
    BY <2>1 DEF Settled
  <2> HIDE DEF new
  <2>3. DOMAIN o = Requests /\ o[r] = new /\ \A q \in Requests : q # r => o[q] = own[q]
    BY <1>0
  <2>4. \A q \in Requests : Told(q)' => Committed(result[q].ref)'
    BY <2>1 DEF Accounted
  <2>5. \A p, q \in Requests : Told(p)' /\ Told(q)' /\ result[p].ref = result[q].ref => p = q
    BY <2>1 DEF Accounted
  <2>6. \A q \in Requests : Told(q)' => o[q] = result[q].ref
    BY <1>0, <2>1, <2>3
  <2>7. ASSUME NEW ref, Committed(ref)' PROVE \E q \in Requests : Settled(q)' /\ o[q] = ref
    <3>1. CASE ref = new
      BY <2>2, <2>3, <3>1
    <3>2. CASE ref # new
      <4>1. PICK q \in Requests : Settled(q) /\ own[q] = ref
        BY <1>0, <2>1, <2>7, <3>2
      <4>2. QED
        BY <2>1, <2>3, <4>1
    <3>3. QED
      BY <3>1, <3>2
  <2> HIDE DEF o
  <2>8. \E e :
          /\ DOMAIN e = Requests
          /\ \A q \in Requests : Told(q)' => e[q] = result[q].ref
          /\ \A ref : Committed(ref)' => \E q \in Requests : Settled(q)' /\ e[q] = ref
    BY <2>3, <2>6, <2>7
  <2>9. QED
    BY <2>1, <2>4, <2>5, <2>8 DEF Accounted, Committed
<1>3. QED
  BY <1>1, <1>2

\* A reference a caller was given names a committed fact whatever crashes follow,
\* no two callers are given the same one, and every committed fact is some
\* caller's answer, is about to be, or was lost with its process: a refused call
\* left nothing behind.
THEOREM AnswersSurvive ==
  ASSUME MaxLosses = 0, IsFiniteSet(Requests)
  PROVE  Spec => []AnswersAreDurable
<1>1. Init => Promised /\ Accounted
  <2> SUFFICES ASSUME Init PROVE Promised /\ Accounted
    OBVIOUS
  <2>1. Promised
    BY DEF Init, Promised
  <2>2. \A r \in Requests : ~Told(r)
    BY DEF Init, Told
  <2>3. \A ref : ~Committed(ref)
    BY DEF Init, Committed
  <2>4. DOMAIN [r \in Requests |-> 0] = Requests
    OBVIOUS
  <2>5. QED
    BY <2>1, <2>2, <2>3, <2>4 DEF Accounted
<1>2. Inv /\ Promised /\ Accounted /\ [Next]_vars => Accounted'
  BY StepAccounted
<1>3. Accounted => AnswersAreDurable
  <2> SUFFICES ASSUME Accounted PROVE AnswersAreDurable
    OBVIOUS
  <2> DEFINE accepted  == {r \in Requests : pc[r] = "done" /\ result[r].outcome = Ok}
             uncertain == {r \in Requests : pc[r] = "lost" \/ (pc[r] = "answer" /\ result[r].outcome = Ok)}
             answered  == {result[r].ref : r \in accepted}
             recorded  == UNION {{[stream |-> s, sequence |-> i] : i \in DOMAIN table[s]} : s \in Streams}
  <2>0. PICK own :
          /\ DOMAIN own = Requests
          /\ \A r \in Requests : Told(r) => own[r] = result[r].ref
          /\ \A ref : Committed(ref) => \E r \in Requests : Settled(r) /\ own[r] = ref
    BY DEF Accounted
  <2>1. \A r \in accepted : r \in Requests /\ Told(r)
    BY DEF Told
  <2>2. \A ref : ref \in recorded <=> Committed(ref)
    BY DEF Committed
  <2>3. IsFiniteSet(accepted) /\ IsFiniteSet(uncertain)
    BY FS_Subset
  <2>4. ASSUME NEW r \in Requests, Settled(r) PROVE r \in accepted \/ r \in uncertain
    BY <2>4 DEF Settled, Told
  <2> HIDE DEF accepted, uncertain, recorded
  <2>5. answered \subseteq recorded
    BY <2>1, <2>2 DEF Accounted
  <2>6. Cardinality(answered) = Cardinality(accepted)
    <3> DEFINE g == [r \in accepted |-> result[r].ref]
    <3>1. g \in [accepted -> answered] /\ \A t \in answered : \E r \in accepted : g[r] = t
      OBVIOUS
    <3>2. \A q, r \in accepted : g[q] = g[r] => q = r
      BY <2>1 DEF Accounted
    <3> HIDE DEF g, answered
    <3>3. QED
      BY <2>3, <3>1, <3>2, CountOfImage
  <2>7. Cardinality(recorded \ answered) <= Cardinality(uncertain)
    <3> DEFINE left == recorded \ answered
               T    == {own[r] : r \in uncertain}
               g    == [r \in uncertain |-> own[r]]
    <3>1. \A ref \in left : ref \in T
      <4> SUFFICES ASSUME NEW ref \in left PROVE ref \in T
        OBVIOUS
      <4>1. PICK r \in Requests : Settled(r) /\ own[r] = ref
        BY <2>0, <2>2
      <4>2. r \notin accepted
        <5>1. r \in accepted => own[r] = result[r].ref
          BY <2>0, <2>1
        <5>2. QED
          BY <4>1, <5>1
      <4>3. QED
        BY <2>4, <4>1, <4>2
    <3>2. g \in [uncertain -> T] /\ \A t \in T : \E r \in uncertain : g[r] = t
      OBVIOUS
    <3> HIDE DEF T, g, left
    <3>3. IsFiniteSet(T) /\ Cardinality(T) <= Cardinality(uncertain)
      BY <2>3, <3>2, CountOfImage
    <3>4. IsFiniteSet(left) /\ Cardinality(left) <= Cardinality(T)
      BY <3>1, <3>3, FS_Subset
    <3>5. Cardinality(left) \in Nat /\ Cardinality(T) \in Nat /\ Cardinality(uncertain) \in Nat
      BY <2>3, <3>3, <3>4, FS_CardinalityType
    <3>6. QED
      BY <3>3, <3>4, <3>5 DEF left
  <2>8. QED
    BY <2>5, <2>6, <2>7 DEF AnswersAreDurable, accepted, uncertain, recorded
<1>4. QED
  BY <1>1, <1>2, <1>3, StepPromised, AlwaysInv, PTL DEF Spec
=============================================================================

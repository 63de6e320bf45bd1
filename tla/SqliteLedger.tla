---------------------------- MODULE SqliteLedger ----------------------------
(***************************************************************************)
(* The application service over the SQLite store: usecases.go on           *)
(* libs/ledger-sqlite/store.go, in several processes that share one file.  *)
(*                                                                         *)
(* A region is a transaction.  A call waits for its process's only         *)
(* connection, then for the file's write lock, and works on the database   *)
(* as the lock found it until it commits or rolls back.                    *)
(*                                                                         *)
(*   new -> connect -> begin -> load -> clock -> append -> commit ---.     *)
(*               |        |       \_______\________\-> rollback -.   |     *)
(*               `--------`--------------------------------------`-> answer *)
(*                                                                         *)
(* From `answer` the caller learns the result (done).  A process may die   *)
(* at any step: its calls are then lost, its transaction is rolled back    *)
(* and what it committed stays (journal_mode WAL, synchronous FULL).       *)
(*                                                                         *)
(* A stream is stored as rows keyed by sequence: a function whose domain   *)
(* is the set of sequences present.  While no row is missing that function *)
(* is the sequence of its facts.                                           *)
(***************************************************************************)
EXTENDS UseCases

CONSTANTS
  Requests,      \* calls of the write use cases
  Processes,     \* processes that have the file open
  Host,          \* [Requests -> Processes]: where each call runs
  Commands,      \* the commands callers may issue
  Readings,      \* the instants the wall clock may show
  SteadyClock,   \* TRUE: each reading is one tick after the last
  HalfRange,     \* an int64 holds -HalfRange .. HalfRange - 1
  MaxCrashes,    \* bound on process crashes
  MaxLosses,     \* bound on rows removed by something other than the store
  Free           \* no holder, no command

ASSUME CommandsAssumption == Commands \subseteq Command
ASSUME ReadingsAssumption == Readings \subseteq Instant
ASSUME HalfRangeAssumption ==
  /\ HalfRange \in Nat \ {0}
  /\ \A k \in Readings : k < HalfRange
ASSUME RequestsAssumption ==
  /\ Host \in [Requests -> Processes]
  /\ Free \notin Requests
  /\ SteadyClock \in BOOLEAN
  /\ MaxCrashes \in Nat
  /\ MaxLosses \in Nat

VARIABLES
  table,     \* table[s]: the committed rows of stream s
  writer,    \* the request whose transaction holds the write lock, or Free
  conn,      \* conn[p]: the request using the only connection of p, or Free
  clock,     \* the last reading of the wall clock
  pc,        \* where each request is
  cmd,       \* what each request asks
  work,      \* the rows of its stream as each request's transaction sees them
  snap,      \* the stream each request loaded
  know,      \* the knowledge time each request read
  result,    \* what each request will return: an outcome and a reference
  crashes,   \* how many crashes have happened
  losses     \* how many rows have been removed out of band

locals == <<work, snap, know>>
vars == <<table, writer, conn, clock, pc, cmd, locals, result, crashes, losses>>

-----------------------------------------------------------------------------
(* Rows *)

Count(rows) == Cardinality(DOMAIN rows)

\* Fault of Highest: the rows that are left are counted instead.
HighestFault(rows) == Cardinality(DOMAIN rows)

Highest(rows) == IF DOMAIN rows = {} THEN 0 ELSE Max(DOMAIN rows)

\* UnixNano in 64 bits: an instant outside the range wraps.
Nanos(t) == ((t + HalfRange) % (2 * HalfRange)) - HalfRange

LastKnown(rows) == Max({Nanos(rows[i].knowledge) : i \in DOMAIN rows})

\* Fault of NextSequence: sequences counted from zero.
NextSequenceFault(rows) == Highest(rows)

NextSequence(rows) == Highest(rows) + 1

Insert(rows, f) ==
  [i \in DOMAIN rows \union {f.ref.sequence} |-> IF i = f.ref.sequence THEN f ELSE rows[i]]

\* ORDER BY sequence, each fact appended to the stream replayed so far: the
\* reference is the position, whatever was stored.
Replay(name, rows) ==
  LET nth(n) == CHOOSE i \in DOMAIN rows : Cardinality({j \in DOMAIN rows : j <= i}) = n
  IN  [n \in 1..Count(rows) |->
         [rows[nth(n)] EXCEPT !.ref = [stream |-> name, sequence |-> n]]]

\* Fault of LoadOutcome: the stored sequences are not compared.
LoadOutcomeFault(name, rows) ==
  IF name = EmptyName THEN "ErrEmptyType"
  ELSE IF DOMAIN rows = {} THEN "ErrStreamNotFound"
  ELSE Ok

LoadOutcome(name, rows) ==
  IF name = EmptyName THEN "ErrEmptyType"
  ELSE IF DOMAIN rows = {} THEN "ErrStreamNotFound"
  ELSE IF \E i \in DOMAIN rows : i \notin 1..Count(rows) \/ rows[i].ref.sequence # i
       THEN "ErrGap"
  ELSE Ok

\* Fault of AppendWithin: one tick after the last is not yet later.
AppendWithinFault(rows, expect, k) ==
  IF Highest(rows) # Count(rows) THEN "ErrGap"
  ELSE IF expect.checked /\ Count(rows) # expect.length THEN "ErrStaleRead"
  ELSE IF DOMAIN rows # {} /\ Nanos(k) <= LastKnown(rows) + 1 THEN "ErrNonMonotonicKnowledge"
  ELSE Ok

\* The checks of appendWithin.  The name is not one of them.
AppendWithin(rows, expect, k) ==
  IF Highest(rows) # Count(rows) THEN "ErrGap"
  ELSE IF expect.checked /\ Count(rows) # expect.length THEN "ErrStaleRead"
  ELSE IF DOMAIN rows # {} /\ Nanos(k) <= LastKnown(rows) THEN "ErrNonMonotonicKnowledge"
  ELSE Ok

-----------------------------------------------------------------------------
Pending == [outcome |-> "pending", ref |-> [stream |-> EmptyName, sequence |-> 0]]

Refused(err) == [outcome |-> err, ref |-> Pending.ref]

Accepted(ref) == [outcome |-> Ok, ref |-> ref]

Init ==
  /\ table = [s \in Streams |-> <<>>]
  /\ writer = Free
  /\ conn = [p \in Processes |-> Free]
  /\ clock = Unset
  /\ pc = [r \in Requests |-> "new"]
  /\ cmd = [r \in Requests |-> Free]
  /\ work = [r \in Requests |-> <<>>]
  /\ snap = [r \in Requests |-> <<>>]
  /\ know = [r \in Requests |-> Unset]
  /\ result = [r \in Requests |-> Pending]
  /\ crashes = 0
  /\ losses = 0

Goto(r, to) == pc' = [pc EXCEPT ![r] = to]

Return(r, res) == result' = [result EXCEPT ![r] = res]

Hosted(p) == {r \in Requests : Host[r] = p}

\* The transaction and the connection of each of these requests are given back.
Release(rs) ==
  /\ writer' = IF writer \in rs THEN Free ELSE writer
  /\ conn' = [p \in Processes |-> IF conn[p] \in rs THEN Free ELSE conn[p]]
  /\ work' = [r \in Requests |-> IF r \in rs THEN <<>> ELSE work[r]]
  /\ snap' = [r \in Requests |-> IF r \in rs THEN <<>> ELSE snap[r]]
  /\ know' = [r \in Requests |-> IF r \in rs THEN Unset ELSE know[r]]

\* The use case is called; a malformed command is refused at once.
Invoke(r) ==
  /\ pc[r] = "new"
  /\ \E c \in Commands :
       /\ cmd' = [cmd EXCEPT ![r] = c]
       /\ IF Admission(c) = Ok
          THEN Goto(r, "connect") /\ UNCHANGED result
          ELSE Goto(r, "done") /\ Return(r, Refused(Admission(c)))
  /\ UNCHANGED <<table, writer, conn, clock, locals, crashes, losses>>

\* SetMaxOpenConns(1): one call of a process at a time talks to the database.
Connect(r) ==
  /\ pc[r] = "connect"
  /\ conn[Host[r]] = Free
  /\ conn' = [conn EXCEPT ![Host[r]] = r]
  /\ Goto(r, "begin")
  /\ UNCHANGED <<table, writer, clock, cmd, locals, result, crashes, losses>>

\* Fault of Begin: the write lock is left for later.
BeginFault(r) ==
  /\ pc[r] = "begin"
  /\ work' = [work EXCEPT ![r] = table[cmd[r].stream]]
  /\ Goto(r, IF ReadsStream(cmd[r]) THEN "load" ELSE "clock")
  /\ UNCHANGED <<table, writer, conn, clock, cmd, snap, know, result, crashes, losses>>

\* BEGIN IMMEDIATE.
Begin(r) ==
  /\ pc[r] = "begin"
  /\ writer = Free
  /\ writer' = r
  /\ work' = [work EXCEPT ![r] = table[cmd[r].stream]]
  /\ Goto(r, IF ReadsStream(cmd[r]) THEN "load" ELSE "clock")
  /\ UNCHANGED <<table, conn, clock, cmd, snap, know, result, crashes, losses>>

\* busy_timeout ran out while another transaction held the lock.
Busy(r) ==
  /\ pc[r] = "begin"
  /\ writer # Free
  /\ Release({r})
  /\ Goto(r, "answer")
  /\ Return(r, Refused("ErrBusy"))
  /\ UNCHANGED <<table, clock, cmd, crashes, losses>>

\* loadFrom, and everything the use case decides from the stream it got.  An
\* absent stream goes on to the use case, any other failure ends the region.
Load(r) ==
  /\ pc[r] = "load"
  /\ LET name    == cmd[r].stream
         loaded  == LoadOutcome(name, work[r])
         stream  == IF loaded = Ok THEN Replay(name, work[r]) ELSE <<>>
         outcome == IF loaded \in {Ok, "ErrStreamNotFound"}
                    THEN ReadOutcome(cmd[r], stream) ELSE loaded
     IN  /\ snap' = [snap EXCEPT ![r] = stream]
         /\ IF outcome = Ok
            THEN Goto(r, "clock") /\ UNCHANGED result
            ELSE Goto(r, "rollback") /\ Return(r, Refused(outcome))
  /\ UNCHANGED <<table, writer, conn, clock, cmd, work, know, crashes, losses>>

\* Read knowledge time and build the envelope.
ReadClock(r) ==
  /\ pc[r] = "clock"
  /\ \E k \in Readings :
       LET outcome == DraftOutcome(cmd[r], snap[r], k) IN
       /\ SteadyClock => k = clock + 1
       /\ clock' = IF SteadyClock THEN k ELSE clock
       /\ know' = [know EXCEPT ![r] = k]
       /\ IF outcome = Ok
          THEN Goto(r, "append") /\ UNCHANGED result
          ELSE Goto(r, "rollback") /\ Return(r, Refused(outcome))
  /\ UNCHANGED <<table, writer, conn, cmd, work, snap, crashes, losses>>

\* appendWithin, on the region's transaction.
StoreAppend(r) ==
  /\ pc[r] = "append"
  /\ LET name    == cmd[r].stream
         outcome == AppendWithin(work[r], Expect(cmd[r], snap[r]), know[r])
         ref     == [stream |-> name, sequence |-> NextSequence(work[r])]
         fact    == [NewFact(name, <<>>, Draft(cmd[r], snap[r], know[r])) EXCEPT !.ref = ref]
     IN  IF outcome = Ok
         THEN /\ work' = [work EXCEPT ![r] = Insert(work[r], fact)]
              /\ Return(r, Accepted(ref))
              /\ Goto(r, "commit")
         ELSE UNCHANGED work /\ Return(r, Refused(outcome)) /\ Goto(r, "rollback")
  /\ UNCHANGED <<table, writer, conn, clock, cmd, snap, know, crashes, losses>>

\* Fault of Commit: the region ends without one.
CommitFault(r) ==
  /\ pc[r] = "commit"
  /\ Release({r})
  /\ Goto(r, "answer")
  /\ UNCHANGED <<table, clock, cmd, result, crashes, losses>>

Commit(r) ==
  /\ pc[r] = "commit"
  /\ table' = [table EXCEPT ![cmd[r].stream] = work[r]]
  /\ Release({r})
  /\ Goto(r, "answer")
  /\ UNCHANGED <<clock, cmd, result, crashes, losses>>

\* Fault of Rollback: only a commit ends a region.
RollbackFault(r) ==
  /\ pc[r] = "rollback"
  /\ Goto(r, "answer")
  /\ UNCHANGED <<table, writer, conn, clock, cmd, locals, result, crashes, losses>>

\* The deferred rollback, after the use case refused.
Rollback(r) ==
  /\ pc[r] = "rollback"
  /\ Release({r})
  /\ Goto(r, "answer")
  /\ UNCHANGED <<table, clock, cmd, result, crashes, losses>>

\* A statement or the commit fails, or the caller's context is cancelled:
\* database/sql rolls the transaction back and the call returns an error.
Abort(r) ==
  /\ pc[r] \in {"connect", "begin", "load", "clock", "append", "commit"}
  /\ Release({r})
  /\ Goto(r, "answer")
  /\ Return(r, Refused("ErrAborted"))
  /\ UNCHANGED <<table, clock, cmd, crashes, losses>>

\* The caller gets its answer.
Answer(r) ==
  /\ pc[r] = "answer"
  /\ Goto(r, "done")
  /\ UNCHANGED <<table, writer, conn, clock, cmd, locals, result, crashes, losses>>

\* A process dies and is started again.  What it did not commit is rolled back,
\* and its callers never learn what became of their calls.
Crash(p) ==
  /\ crashes < MaxCrashes
  /\ crashes' = crashes + 1
  /\ LET dead == {r \in Hosted(p) : pc[r] \notin {"new", "done"}}
     IN  /\ Release(dead)
         /\ pc' = [r \in Requests |-> IF r \in dead THEN "lost" ELSE pc[r]]
         /\ result' = [r \in Requests |-> IF r \in dead THEN Refused("lost") ELSE result[r]]
  /\ UNCHANGED <<table, clock, cmd, losses>>

\* A row is removed by something other than the store, between transactions.
LoseRow(s) ==
  /\ losses < MaxLosses
  /\ writer = Free
  /\ \E i \in DOMAIN table[s] :
       table' = [table EXCEPT ![s] = [j \in DOMAIN table[s] \ {i} |-> table[s][j]]]
  /\ losses' = losses + 1
  /\ UNCHANGED <<writer, conn, clock, pc, cmd, locals, result, crashes>>

Step(r) ==
  \/ Connect(r) \/ Begin(r) \/ Load(r) \/ ReadClock(r) \/ StoreAppend(r)
  \/ Commit(r) \/ Rollback(r) \/ Answer(r)

\* Every request has returned or was lost.
Finished == (\A r \in Requests : pc[r] \in {"done", "lost"}) /\ UNCHANGED vars

Next ==
  \/ \E r \in Requests : Invoke(r) \/ Step(r) \/ Busy(r) \/ Abort(r)
  \/ \E p \in Processes : Crash(p)
  \/ \E s \in Streams : LoseRow(s)
  \/ Finished

Spec == Init /\ [][Next]_vars

\* A goroutine that can run eventually does.  Nobody has to call, to give up or
\* to crash, and no wait has to time out.
Fairness == \A r \in Requests : WF_vars(Step(r))

FairSpec == Spec /\ Fairness

-----------------------------------------------------------------------------
\* Several processes over one file, crashing at any step, record what the
\* abstract ledger records: each commit is one accepted use case, in full and on
\* the stream as it then is, and nothing else changes what is recorded.
Atomic == INSTANCE AtomicLedger WITH log <- table, Moments <- {}

ImplementsAtomic == Atomic!Spec

\* A reference a caller was given names a committed fact whatever crashes
\* follow, no two callers are given the same one, and every committed fact is
\* some caller's answer, is about to be, or was lost with its process: a refused
\* call left nothing behind.
AnswersAreDurable ==
  LET accepted  == {r \in Requests : pc[r] = "done" /\ result[r].outcome = Ok}
      uncertain == {r \in Requests : pc[r] = "lost" \/ (pc[r] = "answer" /\ result[r].outcome = Ok)}
      answered  == {result[r].ref : r \in accepted}
      recorded  == UNION {{[stream |-> s, sequence |-> i] : i \in DOMAIN table[s]} : s \in Streams}
  IN  /\ answered \subseteq recorded
      /\ Cardinality(answered) = Cardinality(accepted)
      /\ Cardinality(recorded \ answered) <= Cardinality(uncertain)

\* What is committed can be loaded again: "nothing is lost or altered in the
\* round trip" (storetest.go).  Appending and loading check a stream's name, its
\* sequences and its length each in their own way and have to agree.
RecordedFactsLoad ==
  \A s \in Streams : DOMAIN table[s] # {} => LoadOutcome(s, table[s]) = Ok

\* With a clock that advances between readings no writer is refused because of
\* another, in its own process or a different one: the clock is read inside the
\* transaction.
NoWriterRefusedForAnother ==
  \A r \in Requests : result[r].outcome \notin {"ErrStaleRead", "ErrNonMonotonicKnowledge"}

\* A call that asked for the region is answered or dies with its process,
\* whatever calls before it met: refusals, aborts, crashes inside the region.
EveryCallReturns == \A r \in Requests : pc[r] = "connect" ~> pc[r] \in {"done", "lost"}

Contiguous(rows) == DOMAIN rows = 1..Count(rows)

\* A stream with a missing row is never written to, neither after the gap nor
\* inside it nor over a row that is left: only further losses change it.
GapIsNotExtended ==
  [][\A s \in Streams :
       ~Contiguous(table[s]) =>
         \A i \in DOMAIN table'[s] : i \in DOMAIN table[s] /\ table'[s][i] = table[s][i]]_vars

\* No use case decides from a renumbered stream: each fact of a stream that was
\* loaded is the one stored under its reference.
LoadedAsStored ==
  \A r \in Requests : \A n \in DOMAIN snap[r] :
    n \in DOMAIN work[r] /\ snap[r][n] = work[r][n]
=============================================================================

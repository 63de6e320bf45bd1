---------------------------- MODULE MemoryLedger ----------------------------
(***************************************************************************)
(* The application service over the in-memory store: usecases.go on        *)
(* adapters/memory/store.go and streamlocks.go.                            *)
(*                                                                         *)
(* Each request is one call of a write use case, on a goroutine of its     *)
(* own.  It interleaves with the others wherever it touches shared state:  *)
(* the lock table, the stream map and the clock.                           *)
(*                                                                         *)
(*   new ---> enter ---> load ---> clock ---> append ---> leave ---> done  *)
(*    |          \________________^  ^__________|___________^              *)
(*    `----> done   (not read)          any refusal                        *)
(***************************************************************************)
EXTENDS UseCases

CONSTANTS
  Requests,       \* calls of the write use cases
  Commands,       \* the commands callers may issue
  Readings,       \* the instants the wall clock may show
  Shards,         \* the lock table
  Shard,          \* [Streams -> Shards]: shardFor
  Free            \* no holder, no command

ASSUME CommandsAssumption == Commands \subseteq Command
ASSUME ReadingsAssumption == Readings \subseteq Instant
ASSUME RequestsAssumption ==
  /\ Free \notin Requests
  /\ Shard \in [Streams -> Shards]

VARIABLES
  log,      \* the stream map
  holder,   \* holder[m]: the request that holds mutex m, or Free
  steady,   \* each reading is one tick after the last (clock.Sequence)
  clock,    \* the last reading of a steady clock
  pc,       \* where each request is
  cmd,      \* what each request asks
  snap,     \* the stream each request loaded
  know,     \* the knowledge time each request read
  result    \* what each request returned: an outcome and a reference

vars == <<log, holder, steady, clock, pc, cmd, snap, know, result>>

Pending == [outcome |-> "pending", ref |-> [stream |-> EmptyName, sequence |-> 0]]

Refused(err) == [outcome |-> err, ref |-> Pending.ref]

Accepted(ref) == [outcome |-> Ok, ref |-> ref]

Init ==
  /\ log = [s \in Streams |-> <<>>]
  /\ holder = [m \in Shards |-> Free]
  /\ steady \in BOOLEAN
  /\ clock = Unset
  /\ pc = [r \in Requests |-> "new"]
  /\ cmd = [r \in Requests |-> Free]
  /\ snap = [r \in Requests |-> <<>>]
  /\ know = [r \in Requests |-> Unset]
  /\ result = [r \in Requests |-> Pending]

Mutex(r) == Shard[cmd[r].stream]

Goto(r, to) == pc' = [pc EXCEPT ![r] = to]

Return(r, res) == result' = [result EXCEPT ![r] = res]

\* The use case is called.  A malformed command is refused here, without ever
\* queueing for the region.
Invoke(r) ==
  /\ pc[r] = "new"
  /\ \E c \in Commands :
       /\ cmd' = [cmd EXCEPT ![r] = c]
       /\ IF Admission(c) = Ok
          THEN Goto(r, "enter") /\ UNCHANGED result
          ELSE Goto(r, "done") /\ Return(r, Refused(Admission(c)))
  /\ UNCHANGED <<log, holder, steady, clock, snap, know>>

\* Fault of Enter: the region excludes nobody.
EnterFault(r) ==
  /\ pc[r] = "enter"
  /\ Goto(r, IF ReadsStream(cmd[r]) THEN "load" ELSE "clock")
  /\ UNCHANGED <<log, holder, steady, clock, cmd, snap, know, result>>

\* Serialise: take the mutex that covers the stream.
Enter(r) ==
  /\ pc[r] = "enter"
  /\ holder[Mutex(r)] = Free
  /\ holder' = [holder EXCEPT ![Mutex(r)] = r]
  /\ Goto(r, IF ReadsStream(cmd[r]) THEN "load" ELSE "clock")
  /\ UNCHANGED <<log, steady, clock, cmd, snap, know, result>>

\* Load, and everything the use case decides from the stream it got.
Load(r) ==
  /\ pc[r] = "load"
  /\ LET stream  == log[cmd[r].stream]
         outcome == ReadOutcome(cmd[r], stream)
     IN  /\ snap' = [snap EXCEPT ![r] = stream]
         /\ IF outcome = Ok
            THEN Goto(r, "clock") /\ UNCHANGED result
            ELSE Goto(r, "leave") /\ Return(r, Refused(outcome))
  /\ UNCHANGED <<log, holder, steady, clock, cmd, know>>

\* Fault of ReadClock: what the envelope's construction refuses is appended.
ReadClockFault(r) ==
  /\ pc[r] = "clock"
  /\ \E k \in Readings :
       /\ steady => k = clock + 1
       /\ clock' = IF steady THEN k ELSE clock
       /\ know' = [know EXCEPT ![r] = k]
       /\ Goto(r, "append")
  /\ UNCHANGED <<log, holder, steady, cmd, snap, result>>

\* Read knowledge time and build the envelope.
ReadClock(r) ==
  /\ pc[r] = "clock"
  /\ \E k \in Readings :
       LET outcome == DraftOutcome(cmd[r], snap[r], k) IN
       /\ steady => k = clock + 1
       /\ clock' = IF steady THEN k ELSE clock
       /\ know' = [know EXCEPT ![r] = k]
       /\ IF outcome = Ok
          THEN Goto(r, "append") /\ UNCHANGED result
          ELSE Goto(r, "leave") /\ Return(r, Refused(outcome))
  /\ UNCHANGED <<log, holder, steady, cmd, snap>>

\* Fault of StoreAppend: the caller's copy of the stream is extended and stored.
StoreAppendFault(r) ==
  /\ pc[r] = "append"
  /\ LET name    == cmd[r].stream
         stream  == snap[r]
         outcome == AppendOutcome(name, stream, Expect(cmd[r], stream), know[r])
         draft   == Draft(cmd[r], stream, know[r])
     IN  IF outcome = Ok
         THEN /\ log' = [log EXCEPT ![name] = Append(stream, NewFact(name, stream, draft))]
              /\ Return(r, Accepted(NextRef(name, stream)))
         ELSE UNCHANGED log /\ Return(r, Refused(outcome))
  /\ Goto(r, "leave")
  /\ UNCHANGED <<holder, steady, clock, cmd, snap, know>>

\* Store.Append: expectation, monotonicity, then the fact, under the map's lock.
StoreAppend(r) ==
  /\ pc[r] = "append"
  /\ LET name    == cmd[r].stream
         stream  == log[name]
         outcome == AppendOutcome(name, stream, Expect(cmd[r], snap[r]), know[r])
         draft   == Draft(cmd[r], snap[r], know[r])
     IN  IF outcome = Ok
         THEN /\ log' = [log EXCEPT ![name] = Append(stream, NewFact(name, stream, draft))]
              /\ Return(r, Accepted(NextRef(name, stream)))
         ELSE UNCHANGED log /\ Return(r, Refused(outcome))
  /\ Goto(r, "leave")
  /\ UNCHANGED <<holder, steady, clock, cmd, snap, know>>

\* Fault of Leave: only an accepted call gives the mutex back.
LeaveFault(r) ==
  /\ pc[r] = "leave"
  /\ IF result[r].outcome # Ok
     THEN UNCHANGED holder
     ELSE holder' = [holder EXCEPT ![Mutex(r)] = Free]
  /\ snap' = [snap EXCEPT ![r] = <<>>]
  /\ know' = [know EXCEPT ![r] = Unset]
  /\ Goto(r, "done")
  /\ UNCHANGED <<log, steady, clock, cmd, result>>

\* The region ends, whatever the outcome, and its locals with it.
Leave(r) ==
  /\ pc[r] = "leave"
  /\ holder' = [holder EXCEPT ![Mutex(r)] = Free]
  /\ snap' = [snap EXCEPT ![r] = <<>>]
  /\ know' = [know EXCEPT ![r] = Unset]
  /\ Goto(r, "done")
  /\ UNCHANGED <<log, steady, clock, cmd, result>>

Step(r) == Enter(r) \/ Load(r) \/ ReadClock(r) \/ StoreAppend(r) \/ Leave(r)

\* Every request has returned.
Finished == (\A r \in Requests : pc[r] = "done") /\ UNCHANGED vars

Next == (\E r \in Requests : Invoke(r) \/ Step(r)) \/ Finished

Spec == Init /\ [][Next]_vars

\* A goroutine that can run eventually does.  Nothing obliges a caller to call.
Fairness == \A r \in Requests : WF_vars(Step(r))

FairSpec == Spec /\ Fairness

-----------------------------------------------------------------------------
TypeOK ==
  /\ log \in [Streams -> Seq(Fact)]
  /\ holder \in [Shards -> Requests \union {Free}]
  /\ steady \in BOOLEAN
  /\ clock \in Nat
  /\ pc \in [Requests -> {"new", "enter", "load", "clock", "append", "leave", "done"}]
  /\ cmd \in [Requests -> Commands \union {Free}]
  /\ snap \in [Requests -> Seq(Fact)]
  /\ know \in [Requests -> Nat]

\* Every step of the service is one accepted use case, in full and on the stream
\* as it then is, or changes nothing that is recorded: between loading a stream
\* and appending to it no decision goes stale unnoticed.
Atomic == INSTANCE AtomicLedger WITH Moments <- {}

ImplementsAtomic == Atomic!Spec

\* The references returned to callers and the facts in the store correspond one
\* to one: no accepted fact is lost or overwritten, no two callers are handed
\* the same reference, and a refused call left nothing behind.
AnswersMatchLog ==
  LET accepted == {r \in Requests : result[r].outcome = Ok} IN
  /\ \A r \in accepted : HasFact(cmd[r].stream, log[cmd[r].stream], result[r].ref)
  /\ \A q, r \in accepted : result[q].ref = result[r].ref => q = r
  /\ \A s \in Streams : \A i \in DOMAIN log[s] :
       \E r \in accepted : result[r].ref = log[s][i].ref

\* Inside one process no read goes stale, whatever the clock does: the region
\* covers the load as well as the append.
NoStaleReads == \A r \in Requests : result[r].outcome # "ErrStaleRead"

\* With a clock that advances between readings no writer is refused because of
\* another: knowledge time is read under the stream's lock, so it cannot be
\* overtaken before it is appended.
NoWriterRefusedForAnother ==
  steady => \A r \in Requests : result[r].outcome \notin {"ErrStaleRead", "ErrNonMonotonicKnowledge"}

\* A call that asked for the region gets its answer, also when calls before it
\* were refused inside the region or when its stream shares a mutex with another.
EveryCallReturns == \A r \in Requests : pc[r] = "enter" ~> pc[r] = "done"
=============================================================================

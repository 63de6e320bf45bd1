------------------------- MODULE MemoryLedgerProofs -------------------------
(***************************************************************************)
(* The application service over the in-memory store, for any number of     *)
(* requests, streams, mutexes and clock readings: it implements            *)
(* AtomicLedger, its answers correspond to its facts, and no request is    *)
(* refused for another's sake.                                             *)
(*                                                                         *)
(* The argument is mutual exclusion: a request in the region holds the     *)
(* mutex of its stream (Control), so what it decided from the stream it    *)
(* loaded still holds of the stream it appends to (Fresh), and a steady    *)
(* clock it read is ahead of that stream (Ahead).                          *)
(***************************************************************************)
EXTENDS MemoryLedger, UseCasesProofs

Region == {"load", "clock", "append", "leave"}

AllAddressed == \A s \in Streams : Addressed(s, log[s])

\* A request that was let in has a complete command and holds its mutex; one
\* that has not come back from the store has returned nothing.
Control ==
  /\ DOMAIN result = Requests
  /\ \A r \in Requests :
       /\ pc[r] # "new" => cmd[r] \in Commands
       /\ pc[r] \notin {"new", "done"} => Admission(cmd[r]) = Ok
       /\ pc[r] \in Region => holder[Mutex(r)] = r
       /\ pc[r] \notin {"leave", "done"} => result[r] = Pending

\* What a request decided, it decided from the stream as it still is.
Fresh ==
  \A r \in Requests :
    /\ pc[r] \in {"clock", "append"} =>
         /\ ReadsStream(cmd[r]) => snap[r] = log[cmd[r].stream]
         /\ ReadOutcome(cmd[r], snap[r]) = Ok
    /\ pc[r] = "append" =>
         /\ know[r] \in Readings
         /\ DraftOutcome(cmd[r], snap[r], know[r]) = Ok

Inv == TypeOK /\ AllAddressed /\ Control /\ Fresh

-----------------------------------------------------------------------------
(* What holds of a request about to append *)

LEMMA CommandsAreCommands ==
  ASSUME NEW c \in Commands
  PROVE  /\ c \in Command
         /\ c.stream \in Streams
         /\ Shard[c.stream] \in Shards
BY CommandsAssumption, RequestsAssumption, CommandOfOp

\* Two requests in the region are on different mutexes, and so on different streams.
LEMMA Exclusion ==
  ASSUME Inv, NEW q \in Requests, NEW r \in Requests,
         pc[q] \in Region, pc[r] \in Region, q # r
  PROVE  /\ Mutex(q) # Mutex(r)
         /\ cmd[q].stream # cmd[r].stream
BY DEF Inv, Control, Mutex

\* A request at StoreAppend passes every check on the stream as it is: all that
\* Record asks but what the store itself decides.
LEMMA ReadyToAppend ==
  ASSUME Inv, NEW r \in Requests, pc[r] = "append"
  PROVE  LET stream == log[cmd[r].stream] IN
         /\ cmd[r] \in Commands /\ cmd[r] \in Command /\ cmd[r].stream \in Streams
         /\ know[r] \in Readings /\ know[r] \in Instant
         /\ Addressed(cmd[r].stream, stream)
         /\ Admission(cmd[r]) = Ok
         /\ ReadOutcome(cmd[r], stream) = Ok
         /\ DraftOutcome(cmd[r], stream, know[r]) = Ok
         /\ Draft(cmd[r], snap[r], know[r]) = Draft(cmd[r], stream, know[r])
         /\ Expect(cmd[r], snap[r]) = Expect(cmd[r], stream)
<1> DEFINE stream == log[cmd[r].stream]
<1>1. cmd[r] \in Commands /\ Admission(cmd[r]) = Ok
  BY DEF Inv, Control
<1>2. cmd[r] \in Command /\ cmd[r].stream \in Streams
  BY <1>1, CommandsAreCommands
<1>3. know[r] \in Readings /\ know[r] \in Instant
  BY ReadingsAssumption DEF Inv, Fresh
<1>4. Addressed(cmd[r].stream, stream)
  BY <1>2 DEF Inv, AllAddressed
<1>5. /\ ReadOutcome(cmd[r], snap[r]) = Ok
      /\ DraftOutcome(cmd[r], snap[r], know[r]) = Ok
      /\ ReadsStream(cmd[r]) => snap[r] = stream
  BY DEF Inv, Fresh
<1>6. CASE ReadsStream(cmd[r])
  BY <1>1, <1>2, <1>3, <1>4, <1>5, <1>6
<1>7. CASE ~ReadsStream(cmd[r])
  BY <1>1, <1>2, <1>3, <1>4, <1>5, <1>7, UnreadStream
<1>8. QED
  BY <1>6, <1>7

\* The fact an accepted request appends, and the stream it leaves.
LEMMA AppendedFact ==
  ASSUME Inv, NEW r \in Requests, pc[r] = "append"
  PROVE  LET name   == cmd[r].stream
             stream == log[name]
             f      == NewFact(name, stream, Draft(cmd[r], snap[r], know[r]))
         IN  /\ f \in Fact
             /\ f.ref = NextRef(name, stream)
             /\ f.knowledge = know[r]
             /\ Addressed(name, Append(stream, f))
<1> DEFINE name   == cmd[r].stream
           stream == log[name]
           d      == Draft(cmd[r], snap[r], know[r])
           f      == NewFact(name, stream, d)
<1>1. f \in Fact
  BY ReadyToAppend, DraftBecomesFact
<1>2. d.knowledge = know[r]
  BY ReadyToAppend, DraftKnowledge
<1> HIDE DEF d
<1>3. f.ref = NextRef(name, stream) /\ f.knowledge = know[r]
  BY <1>2 DEF NewFact
<1>4. Addressed(name, Append(stream, f))
  BY <1>1, <1>3, ReadyToAppend, AppendAddressed
<1>5. QED
  BY <1>1, <1>3, <1>4 DEF d

-----------------------------------------------------------------------------
(* The inductive invariant *)

LEMMA InitInv == Init => Inv
<1> SUFFICES ASSUME Init PROVE Inv
  OBVIOUS
<1>1. TypeOK
  BY DEF Init, TypeOK, Unset
<1>2. AllAddressed
  <2>1. <<>> \in Seq(Fact) /\ 1..Len(<<>>) = {}
    OBVIOUS
  <2>2. QED
    BY <2>1 DEF Init, AllAddressed, Addressed
<1>3. Control
  BY DEF Init, Control, Region
<1>4. Fresh
  BY DEF Init, Fresh
<1>5. QED
  BY <1>1, <1>2, <1>3, <1>4 DEF Inv

LEMMA InvokeInv ==
  ASSUME Inv, NEW r \in Requests, Invoke(r) PROVE Inv'
<1>1. PICK c \in Commands :
        /\ pc[r] = "new"
        /\ cmd' = [cmd EXCEPT ![r] = c]
        /\ IF Admission(c) = Ok
           THEN Goto(r, "enter") /\ UNCHANGED result
           ELSE Goto(r, "done") /\ Return(r, Refused(Admission(c)))
        /\ UNCHANGED <<log, holder, steady, clock, snap, know>>
  BY DEF Invoke
<1>2. TypeOK'
  BY <1>1 DEF Inv, TypeOK, Goto
<1>3. AllAddressed'
  BY <1>1 DEF Inv, AllAddressed
<1>4. Control'
  <2>1. \/ pc' = [pc EXCEPT ![r] = "enter"] /\ Admission(c) = Ok
        \/ pc' = [pc EXCEPT ![r] = "done"]
    BY <1>1 DEF Goto
  <2>2. pc'[r] = "enter" => result' = result
    BY <1>1 DEF Inv, TypeOK, Goto
  <2>3. DOMAIN result' = Requests /\ \A q \in Requests \ {r} : result'[q] = result[q]
    BY <1>1 DEF Inv, Control, Return
  <2>4. \A q \in Requests \ {r} : pc'[q] = pc[q] /\ cmd'[q] = cmd[q]
    BY <1>1, <2>1 DEF Inv, TypeOK
  <2>5. cmd'[r] = c
    BY <1>1 DEF Inv, TypeOK
  <2> SUFFICES ASSUME NEW q \in Requests
               PROVE  /\ pc'[q] # "new" => cmd'[q] \in Commands
                      /\ pc'[q] \notin {"new", "done"} => Admission(cmd'[q]) = Ok
                      /\ pc'[q] \in Region => holder'[Shard[cmd'[q].stream]] = q
                      /\ pc'[q] \notin {"leave", "done"} => result'[q] = Pending
    BY <2>3 DEF Control, Mutex
  <2>6. CASE q = r
    BY <1>1, <2>1, <2>2, <2>5, <2>6 DEF Inv, TypeOK, Control, Region
  <2>7. CASE q # r
    BY <1>1, <2>3, <2>4, <2>7 DEF Inv, Control, Mutex
  <2>8. QED
    BY <2>6, <2>7
<1>5. Fresh'
  BY <1>1 DEF Inv, TypeOK, Fresh, Goto
<1>6. QED
  BY <1>2, <1>3, <1>4, <1>5 DEF Inv

LEMMA EnterInv ==
  ASSUME Inv, NEW r \in Requests, Enter(r) PROVE Inv'
<1>1. cmd[r] \in Commands /\ Mutex(r) \in Shards
  BY CommandsAreCommands DEF Inv, Control, Enter, Mutex
<1>2. TypeOK'
  BY <1>1 DEF Inv, TypeOK, Enter, Goto
<1>3. AllAddressed'
  BY DEF Inv, AllAddressed, Enter
<1>4. Control'
  <2>1. ASSUME NEW q \in Requests, q # r, pc[q] \in Region
        PROVE  holder'[Mutex(q)] = q
    BY <1>1, <2>1, RequestsAssumption DEF Inv, TypeOK, Control, Enter
  <2>2. holder'[Mutex(r)] = r
    BY <1>1 DEF Inv, TypeOK, Enter
  <2>3. QED
    BY <2>1, <2>2 DEF Inv, TypeOK, Control, Region, Enter, Goto, Mutex
<1>5. Fresh'
  <2>1. ASSUME ~ReadsStream(cmd[r]) PROVE ReadOutcome(cmd[r], snap[r]) = Ok
    BY <1>1, <2>1, CommandsAreCommands, UnreadStream
  <2>2. QED
    BY <2>1 DEF Inv, TypeOK, Fresh, Enter, Goto
<1>6. QED
  BY <1>2, <1>3, <1>4, <1>5 DEF Inv

LEMMA LoadInv ==
  ASSUME Inv, NEW r \in Requests, Load(r) PROVE Inv'
<1> DEFINE stream == log[cmd[r].stream]
           outcome == ReadOutcome(cmd[r], stream)
<1>1. cmd[r] \in Commands /\ cmd[r].stream \in Streams
  BY CommandsAreCommands DEF Inv, Control, Load
<1>2. /\ pc[r] = "load"
      /\ snap' = [snap EXCEPT ![r] = stream]
      /\ \/ outcome = Ok /\ pc' = [pc EXCEPT ![r] = "clock"] /\ result' = result
         \/ outcome # Ok /\ pc' = [pc EXCEPT ![r] = "leave"] /\ Return(r, Refused(outcome))
      /\ UNCHANGED <<log, holder, steady, clock, cmd, know>>
  BY DEF Load, Goto
<1> HIDE DEF outcome
<1>3. TypeOK'
  BY <1>1, <1>2 DEF Inv, TypeOK
<1>4. AllAddressed'
  BY <1>2 DEF Inv, AllAddressed
<1>5. Control'
  BY <1>2 DEF Inv, TypeOK, Control, Region, Return, Mutex
<1>6. Fresh'
  <2>1. outcome = Ok => ReadOutcome(cmd[r], stream) = Ok
    BY DEF outcome
  <2>2. QED
    BY <1>2, <2>1 DEF Inv, TypeOK, Fresh
<1>7. QED
  BY <1>3, <1>4, <1>5, <1>6 DEF Inv

LEMMA ReadClockInv ==
  ASSUME Inv, NEW r \in Requests, ReadClock(r) PROVE Inv'
<1>1. PICK k \in Readings :
        /\ pc[r] = "clock"
        /\ steady => k = clock + 1
        /\ clock' = IF steady THEN k ELSE clock
        /\ know' = [know EXCEPT ![r] = k]
        /\ \/ /\ DraftOutcome(cmd[r], snap[r], k) = Ok
              /\ pc' = [pc EXCEPT ![r] = "append"] /\ result' = result
           \/ /\ DraftOutcome(cmd[r], snap[r], k) # Ok
              /\ pc' = [pc EXCEPT ![r] = "leave"]
              /\ Return(r, Refused(DraftOutcome(cmd[r], snap[r], k)))
        /\ UNCHANGED <<log, holder, steady, cmd, snap>>
  BY DEF ReadClock, Goto
<1>2. k \in Nat
  BY ReadingsAssumption DEF Instant
<1>3. TypeOK'
  BY <1>1, <1>2 DEF Inv, TypeOK
<1>4. AllAddressed'
  BY <1>1 DEF Inv, AllAddressed
<1>5. Control'
  BY <1>1 DEF Inv, TypeOK, Control, Region, Return, Mutex
<1>6. Fresh'
  BY <1>1 DEF Inv, TypeOK, Fresh
<1>7. QED
  BY <1>3, <1>4, <1>5, <1>6 DEF Inv

\* What StoreAppend does, as two cases.
LEMMA StoreAppendCases ==
  ASSUME NEW r \in Requests, StoreAppend(r)
  PROVE  LET name    == cmd[r].stream
             outcome == AppendOutcome(name, log[name], Expect(cmd[r], snap[r]), know[r])
             f       == NewFact(name, log[name], Draft(cmd[r], snap[r], know[r]))
         IN  /\ pc[r] = "append"
             /\ \/ /\ outcome = Ok
                   /\ log' = [log EXCEPT ![name] = Append(log[name], f)]
                   /\ result' = [result EXCEPT ![r] = Accepted(NextRef(name, log[name]))]
                \/ /\ outcome # Ok
                   /\ log' = log
                   /\ result' = [result EXCEPT ![r] = Refused(outcome)]
             /\ pc' = [pc EXCEPT ![r] = "leave"]
             /\ UNCHANGED <<holder, steady, clock, cmd, snap, know>>
BY DEF StoreAppend, Goto, Return

LEMMA StoreAppendInv ==
  ASSUME Inv, NEW r \in Requests, StoreAppend(r) PROVE Inv'
<1> DEFINE name == cmd[r].stream
           f    == NewFact(name, log[name], Draft(cmd[r], snap[r], know[r]))
<1>1. /\ pc[r] = "append"
      /\ \/ log' = [log EXCEPT ![name] = Append(log[name], f)]
         \/ log' = log
      /\ pc' = [pc EXCEPT ![r] = "leave"]
      /\ UNCHANGED <<holder, steady, clock, cmd, snap, know>>
      /\ \E res : result' = [result EXCEPT ![r] = res]
  BY StoreAppendCases
<1>2. name \in Streams /\ f \in Fact /\ Addressed(name, Append(log[name], f))
  BY <1>1, ReadyToAppend, AppendedFact
<1> HIDE DEF f
<1>3. \A s \in Streams : s # name => log'[s] = log[s]
  BY <1>1 DEF Inv, TypeOK
<1>4. log' \in [Streams -> Seq(Fact)]
  <2>1. Append(log[name], f) \in Seq(Fact)
    BY <1>2 DEF Addressed
  <2>2. QED
    BY <1>1, <2>1 DEF Inv, TypeOK
<1>5. TypeOK'
  BY <1>1, <1>4 DEF Inv, TypeOK
<1>6. AllAddressed'
  <2>1. log'[name] = Append(log[name], f) \/ log'[name] = log[name]
    BY <1>1, <1>2 DEF Inv, TypeOK
  <2>2. QED
    BY <1>2, <1>3, <2>1 DEF Inv, AllAddressed
<1>7. Control'
  BY <1>1 DEF Inv, TypeOK, Control, Region, Mutex
<1>8. Fresh'
  <2> SUFFICES ASSUME NEW q \in Requests, pc'[q] \in {"clock", "append"}
               PROVE  /\ ReadsStream(cmd[q]) => snap[q] = log'[cmd[q].stream]
                      /\ ReadOutcome(cmd[q], snap[q]) = Ok
                      /\ pc'[q] = "append" =>
                           /\ know[q] \in Readings
                           /\ DraftOutcome(cmd[q], snap[q], know[q]) = Ok
    BY <1>1 DEF Fresh
  <2>1. q # r /\ pc[q] = pc'[q]
    BY <1>1 DEF Inv, TypeOK
  <2>2. cmd[q].stream # name
    BY <1>1, <2>1, Exclusion DEF Region
  <2>3. cmd[q].stream \in Streams
    BY <2>1, CommandsAreCommands DEF Inv, Control
  <2>4. log'[cmd[q].stream] = log[cmd[q].stream]
    BY <1>3, <2>2, <2>3
  <2>5. QED
    BY <2>1, <2>4 DEF Inv, Fresh
<1>9. QED
  BY <1>5, <1>6, <1>7, <1>8 DEF Inv

LEMMA LeaveInv ==
  ASSUME Inv, NEW r \in Requests, Leave(r) PROVE Inv'
<1>1. cmd[r] \in Commands /\ Mutex(r) \in Shards
  BY CommandsAreCommands DEF Inv, Control, Leave, Mutex
<1>2. TypeOK'
  BY <1>1 DEF Inv, TypeOK, Leave, Goto, Unset
<1>3. AllAddressed'
  BY DEF Inv, AllAddressed, Leave
<1>4. Control'
  <2>1. ASSUME NEW q \in Requests, q # r, pc[q] \in Region
        PROVE  holder'[Mutex(q)] = q
    <3>1. Mutex(q) # Mutex(r)
      BY <2>1, Exclusion DEF Leave, Region
    <3>2. QED
      BY <1>1, <2>1, <3>1 DEF Inv, TypeOK, Control, Leave
  <2>2. QED
    BY <2>1 DEF Inv, TypeOK, Control, Region, Leave, Goto, Mutex
<1>5. Fresh'
  BY DEF Inv, TypeOK, Fresh, Leave, Goto
<1>6. QED
  BY <1>2, <1>3, <1>4, <1>5 DEF Inv

LEMMA StepInv == Inv /\ [Next]_vars => Inv'
<1> SUFFICES ASSUME Inv, [Next]_vars PROVE Inv'
  OBVIOUS
<1>1. CASE UNCHANGED vars
  BY <1>1 DEF vars, Inv, TypeOK, AllAddressed, Control, Fresh, Mutex
<1>2. CASE Finished
  BY <1>1, <1>2 DEF Finished
<1>3. ASSUME NEW r \in Requests, Invoke(r) \/ Step(r) PROVE Inv'
  BY <1>3, InvokeInv, EnterInv, LoadInv, ReadClockInv, StoreAppendInv, LeaveInv DEF Step
<1>4. QED
  BY <1>1, <1>2, <1>3 DEF Next

LEMMA AlwaysInv == Spec => []Inv
BY InitInv, StepInv, PTL DEF Spec

\* Every stream holds well-formed facts only, and every request is where the
\* service can be, whatever callers send and however they interleave.
THEOREM TypeCorrect == Spec => []TypeOK
<1>1. Inv => TypeOK
  BY DEF Inv
<1>2. QED
  BY <1>1, AlwaysInv, PTL

-----------------------------------------------------------------------------
(* Every step is atomic *)

\* AtomicLedger is instantiated with the constants of this module, so that its
\* copies of the use cases' operators are the ones used here.
LEMMA SameOutcomes ==
  ASSUME NEW c, NEW stream, NEW k, NEW name, NEW expect
  PROVE  /\ Atomic!Admission(c) = Admission(c)
         /\ Atomic!ReadOutcome(c, stream) = ReadOutcome(c, stream)
         /\ Atomic!DraftOutcome(c, stream, k) = DraftOutcome(c, stream, k)
         /\ Atomic!Expect(c, stream) = Expect(c, stream)
         /\ Atomic!AppendOutcome(name, stream, expect, k) = AppendOutcome(name, stream, expect, k)
<1> USE DEF Ok, Atomic!Ok, Unset, Atomic!Unset
<1>1. Atomic!Admission(c) = Admission(c)
  BY Zenon DEF Admission, Atomic!Admission, AcceptHoldingClaimAdmission,
     Atomic!AcceptHoldingClaimAdmission, MintIdentityAdmission, Atomic!MintIdentityAdmission,
     EntityKinds, Atomic!EntityKinds
<1>2. Atomic!ReadOutcome(c, stream) = ReadOutcome(c, stream)
  BY Zenon DEF ReadOutcome, Atomic!ReadOutcome, CorrectFactRead, Atomic!CorrectFactRead,
     MintIdentityRead, Atomic!MintIdentityRead, ObserveClaimedHoldingRead,
     Atomic!ObserveClaimedHoldingRead, HasFact, Atomic!HasFact,
     CorrectionKinds, Atomic!CorrectionKinds, CanDerive, Atomic!CanDerive,
     IsResolved, Atomic!IsResolved, Answering, Atomic!Answering, VisibleAt, Atomic!VisibleAt,
     Resolves, Atomic!Resolves, IsA, Atomic!IsA, Visible, Atomic!Visible,
     Contains, Atomic!Contains, IsOpen, Atomic!IsOpen
<1>3. Atomic!DraftOutcome(c, stream, k) = DraftOutcome(c, stream, k)
  BY Zenon DEF DraftOutcome, Atomic!DraftOutcome, MintIdentityOutcome,
     Atomic!MintIdentityOutcome, StatedOutcome, Atomic!StatedOutcome,
     RecordedOutcome, Atomic!RecordedOutcome, MintIdentityResolves,
     Atomic!MintIdentityResolves, NewAsOf, Atomic!NewAsOf,
     IsResolved, Atomic!IsResolved, Answering, Atomic!Answering, VisibleAt, Atomic!VisibleAt,
     Resolves, Atomic!Resolves, IsA, Atomic!IsA, Visible, Atomic!Visible,
     Contains, Atomic!Contains, IsOpen, Atomic!IsOpen
<1>4. Atomic!Expect(c, stream) = Expect(c, stream)
  BY Zenon DEF Expect, Atomic!Expect, ReadsStream, Atomic!ReadsStream, AtLength,
     Atomic!AtLength, ExpectAny, Atomic!ExpectAny
<1>5. Atomic!AppendOutcome(name, stream, expect, k) = AppendOutcome(name, stream, expect, k)
  BY Zenon DEF AppendOutcome, Atomic!AppendOutcome, LastKnowledge, Atomic!LastKnowledge
<1>6. QED
  BY <1>1, <1>2, <1>3, <1>4, <1>5

LEMMA SameFacts ==
  ASSUME NEW c, NEW stream, NEW k, NEW name, NEW d
  PROVE  /\ Atomic!Draft(c, stream, k) = Draft(c, stream, k)
         /\ Atomic!NewFact(name, stream, d) = NewFact(name, stream, d)
<1>1. Atomic!Draft(c, stream, k) = Draft(c, stream, k)
  BY Zenon DEF Draft, Atomic!Draft, ObserveHoldingDraft, Atomic!ObserveHoldingDraft,
     CorrectFactDraft, Atomic!CorrectFactDraft, AcceptHoldingClaimDraft,
     Atomic!AcceptHoldingClaimDraft, MintIdentityDraft, Atomic!MintIdentityDraft,
     ObserveClaimedHoldingDraft, Atomic!ObserveClaimedHoldingDraft,
     MintFor, Atomic!MintFor, DeriveFromClaim, Atomic!DeriveFromClaim,
     ZeroAsOf, Atomic!ZeroAsOf, Unset, Atomic!Unset,
     DeriveHoldingObserved, Atomic!DeriveHoldingObserved,
     ResolveWithTrace, Atomic!ResolveWithTrace, FirstOf, Atomic!FirstOf,
     Precedes, Atomic!Precedes, Answering, Atomic!Answering, VisibleAt, Atomic!VisibleAt,
     Resolves, Atomic!Resolves, IsA, Atomic!IsA, Visible, Atomic!Visible,
     Contains, Atomic!Contains, IsOpen, Atomic!IsOpen
<1>2. Atomic!NewFact(name, stream, d) = NewFact(name, stream, d)
  BY Zenon DEF NewFact, Atomic!NewFact, NextRef, Atomic!NextRef
<1>3. QED
  BY <1>1, <1>2

\* The step of a request into the store is the whole use case, done atomically,
\* or nothing.
LEMMA AppendIsAtomic ==
  ASSUME Inv, NEW r \in Requests, StoreAppend(r)
  PROVE  Atomic!Next \/ UNCHANGED log
<1> DEFINE c       == cmd[r]
           k       == know[r]
           name    == c.stream
           stream  == log[name]
           outcome == AppendOutcome(name, stream, Expect(c, snap[r]), k)
           f       == NewFact(name, stream, Draft(c, snap[r], k))
<1>1. pc[r] = "append"
  BY StoreAppendCases
<1>2. \/ outcome = Ok /\ log' = [log EXCEPT ![name] = Append(stream, f)]
      \/ log' = log
  BY StoreAppendCases
<1>3. CASE outcome = Ok /\ log' = [log EXCEPT ![name] = Append(stream, f)]
  <2>1. /\ c \in Commands /\ c \in Command /\ k \in Readings
        /\ Admission(c) = Ok
        /\ ReadOutcome(c, stream) = Ok
        /\ DraftOutcome(c, stream, k) = Ok
        /\ Draft(c, snap[r], k) = Draft(c, stream, k)
        /\ Expect(c, snap[r]) = Expect(c, stream)
    BY <1>1, ReadyToAppend
  <2>2. AppendOutcome(name, stream, Expect(c, stream), k) = Ok
    BY <1>3, <2>1
  <2>3. log' = [log EXCEPT ![name] = Append(stream, NewFact(name, stream, Draft(c, stream, k)))]
    BY <1>3, <2>1
  <2> HIDE DEF c, k
  <2>4. Atomic!Record(c, k)
    <3>1. /\ Atomic!Admission(c) = Ok
          /\ Atomic!ReadOutcome(c, stream) = Ok
          /\ Atomic!DraftOutcome(c, stream, k) = Ok
      BY <2>1, SameOutcomes
    <3>2. Atomic!AppendOutcome(name, stream, Atomic!Expect(c, stream), k) = Ok
      BY <2>2, SameOutcomes
    <3>3. Atomic!NewFact(name, stream, Atomic!Draft(c, stream, k))
            = NewFact(name, stream, Draft(c, stream, k))
      BY SameFacts
    <3>4. log' = [log EXCEPT ![name] =
                    Append(stream, Atomic!NewFact(name, stream, Atomic!Draft(c, stream, k)))]
      BY <2>3, <3>3
    <3>5. QED
      BY <3>1, <3>2, <3>4 DEF Atomic!Record, Atomic!Ok, Ok
  <2>5. QED
    BY <2>1, <2>4, CommandOfOp
       DEF Atomic!Next, Atomic!ObserveHolding, Atomic!CorrectFact, Atomic!AcceptHoldingClaim,
           Atomic!MintIdentity, Atomic!ObserveClaimedHolding
<1>4. QED
  BY <1>2, <1>3

\* The service over the in-memory store implements the atomic ledger: whatever
\* the interleaving, a request that is accepted was decided on the very stream
\* it extended.
THEOREM ServiceIsAtomic == Spec => ImplementsAtomic
<1>1. Init => Atomic!Init
  BY DEF Init, Atomic!Init
<1>2. ASSUME Inv, [Next]_vars PROVE [Atomic!Next]_log
  <2>1. CASE UNCHANGED vars \/ Finished
    BY <2>1 DEF Finished, vars
  <2>2. ASSUME NEW r \in Requests, Invoke(r) PROVE UNCHANGED log
    BY <2>2 DEF Invoke
  <2>3. ASSUME NEW r \in Requests, Enter(r) \/ Load(r) \/ ReadClock(r) \/ Leave(r)
        PROVE  UNCHANGED log
    BY <2>3 DEF Enter, Load, ReadClock, Leave
  <2>4. ASSUME NEW r \in Requests, StoreAppend(r) PROVE Atomic!Next \/ UNCHANGED log
    BY <1>2, <2>4, AppendIsAtomic
  <2>5. QED
    BY <1>2, <2>1, <2>2, <2>3, <2>4 DEF Next, Step
<1>3. QED
  BY <1>1, <1>2, AlwaysInv, PTL DEF Spec, ImplementsAtomic, Atomic!Spec

-----------------------------------------------------------------------------
(* Nobody is refused for another's sake *)

\* A step gives a request an outcome of Store.Append only at StoreAppend.
LEMMA OutcomeSteps ==
  ASSUME Inv, [Next]_vars, NEW q \in Requests, result'[q].outcome \in RaceErrors
  PROVE  \/ result'[q] = result[q]
         \/ /\ StoreAppend(q)
            /\ result'[q].outcome = AppendOutcome(cmd[q].stream, log[cmd[q].stream],
                                                  Expect(cmd[q], snap[q]), know[q])
<1>1. CASE UNCHANGED result
  BY <1>1
<1>2. CASE UNCHANGED vars \/ Finished
  BY <1>2 DEF Finished, vars
<1>3. ASSUME NEW r \in Requests, NEW c \in Command, NEW stream, NEW k,
             \/ Return(r, Refused(Admission(c)))
             \/ Return(r, Refused(ReadOutcome(c, stream)))
             \/ Return(r, Refused(DraftOutcome(c, stream, k)))
      PROVE  result'[q] = result[q]
  <2>1. PICK o : o \notin RaceErrors /\ result' = [result EXCEPT ![r] = Refused(o)]
    BY <1>3, NoRaceBeforeAppend DEF Return
  <2>2. r = q => result'[q].outcome = o
    BY <2>1 DEF Inv, Control, Refused
  <2>3. QED
    BY <2>1, <2>2 DEF Inv, Control
<1>4. ASSUME NEW r \in Requests, Invoke(r) PROVE result'[q] = result[q]
  BY <1>3, <1>4, CommandsAreCommands DEF Invoke
<1>5. ASSUME NEW r \in Requests, Enter(r) \/ Leave(r) PROVE result'[q] = result[q]
  BY <1>5 DEF Enter, Leave
<1>6. ASSUME NEW r \in Requests, Load(r) PROVE result'[q] = result[q]
  <2>1. cmd[r] \in Command
    BY <1>6, CommandsAreCommands DEF Inv, Control, Load
  <2>2. QED
    BY <1>3, <1>6, <2>1 DEF Load
<1>7. ASSUME NEW r \in Requests, ReadClock(r) PROVE result'[q] = result[q]
  <2>1. cmd[r] \in Command
    BY <1>7, CommandsAreCommands DEF Inv, Control, ReadClock
  <2>2. QED
    BY <1>3, <1>7, <2>1 DEF ReadClock
<1>8. ASSUME NEW r \in Requests, StoreAppend(r), r # q PROVE result'[q] = result[q]
  BY <1>8, StoreAppendCases DEF Inv, Control
<1>9. ASSUME StoreAppend(q)
      PROVE  result'[q].outcome = AppendOutcome(cmd[q].stream, log[cmd[q].stream],
                                                Expect(cmd[q], snap[q]), know[q])
  <2> DEFINE o == AppendOutcome(cmd[q].stream, log[cmd[q].stream],
                                Expect(cmd[q], snap[q]), know[q])
  <2>1. \/ o = Ok /\ result' = [result EXCEPT ![q] = Accepted(NextRef(cmd[q].stream, log[cmd[q].stream]))]
        \/ result' = [result EXCEPT ![q] = Refused(o)]
    BY <1>9, StoreAppendCases
  <2> HIDE DEF o
  <2>2. result'[q].outcome = o
    BY <2>1 DEF Inv, Control, Accepted, Refused, Ok
  <2>3. QED
    BY <2>2 DEF o
<1>10. QED
  BY <1>2, <1>4, <1>5, <1>6, <1>7, <1>8, <1>9 DEF Next, Step

\* The expectation a request hands to the store is met.
LEMMA ExpectationMet ==
  ASSUME Inv, NEW r \in Requests, StoreAppend(r)
  PROVE  AppendOutcome(cmd[r].stream, log[cmd[r].stream], Expect(cmd[r], snap[r]), know[r])
           # "ErrStaleRead"
<1>1. Expect(cmd[r], snap[r]) = Expect(cmd[r], log[cmd[r].stream])
  BY ReadyToAppend DEF StoreAppend
<1>2. LET e == Expect(cmd[r], log[cmd[r].stream]) IN
      ~(e.checked /\ Len(log[cmd[r].stream]) # e.length)
  BY DEF Expect, ExpectAny, AtLength
<1>3. QED
  BY <1>1, <1>2 DEF AppendOutcome, Ok

\* No read goes stale inside one process, whatever the clock and the other
\* requests do: the region covers the load as well as the append.
THEOREM ReadsStayFresh == Spec => []NoStaleReads
<1>1. Init => NoStaleReads
  BY DEF Init, NoStaleReads, Pending
<1>2. Inv /\ NoStaleReads /\ [Next]_vars => NoStaleReads'
  BY OutcomeSteps, ExpectationMet DEF NoStaleReads, RaceErrors
<1>3. QED
  BY <1>1, <1>2, AlwaysInv, PTL DEF Spec

\* A steady clock is ahead of every stream, and a request that has read it is
\* ahead of the stream it will append to.
Ahead ==
  steady =>
    /\ \A s \in Streams : LastKnowledge(log[s]) <= clock
    /\ \A r \in Requests : pc[r] = "append" =>
         /\ LastKnowledge(log[cmd[r].stream]) < know[r]
         /\ know[r] <= clock

LEMMA StepAhead == Inv /\ Ahead /\ [Next]_vars => Ahead'
<1> SUFFICES ASSUME Inv, Ahead, [Next]_vars, steady' PROVE Ahead'
  BY DEF Ahead
<1>0. /\ \A s \in Streams : LastKnowledge(log[s]) \in Nat
      /\ clock \in Nat
      /\ \A r \in Requests : know[r] \in Nat
      /\ \A r \in Requests : pc[r] # "new" => cmd[r].stream \in Streams
  BY KnowledgeOfLast, CommandsAreCommands DEF Inv, TypeOK, Control
<1>1. CASE UNCHANGED vars \/ Finished
  BY <1>1 DEF Finished, vars, Ahead
<1>2. ASSUME NEW r \in Requests, Invoke(r) \/ Enter(r) \/ Load(r) \/ Leave(r) PROVE Ahead'
  <2>1. /\ UNCHANGED <<log, steady, clock>>
        /\ \A q \in Requests : pc'[q] = "append" =>
             pc[q] = "append" /\ cmd'[q] = cmd[q] /\ know'[q] = know[q]
    BY <1>2 DEF Invoke, Enter, Load, Leave, Goto, Inv, TypeOK
  <2>2. QED
    BY <2>1 DEF Ahead
<1>3. ASSUME NEW r \in Requests, ReadClock(r) PROVE Ahead'
  <2>1. PICK k \in Readings : k = clock + 1 /\ clock' = k /\ know' = [know EXCEPT ![r] = k]
    BY <1>3 DEF ReadClock
  <2>2. /\ steady /\ pc[r] = "clock" /\ UNCHANGED <<log, cmd>>
        /\ \A q \in Requests : q # r => pc'[q] = pc[q]
    BY <1>3 DEF ReadClock, Goto, Inv, TypeOK
  <2>3. \A s \in Streams : LastKnowledge(log'[s]) <= clock /\ clock < clock'
    BY <1>0, <2>1, <2>2 DEF Ahead
  <2>4. ASSUME NEW q \in Requests, pc'[q] = "append"
        PROVE  LastKnowledge(log'[cmd'[q].stream]) < know'[q] /\ know'[q] <= clock'
    <3>1. CASE q = r
      <4>1. know'[q] = clock + 1 /\ cmd'[q].stream \in Streams
        BY <1>0, <2>1, <2>2, <3>1 DEF Inv, TypeOK
      <4>2. QED
        BY <1>0, <2>1, <2>2, <2>3, <4>1
    <3>2. CASE q # r
      <4>1. know'[q] = know[q] /\ pc[q] = "append"
        BY <2>1, <2>2, <2>4, <3>2 DEF Inv, TypeOK
      <4>2. LastKnowledge(log[cmd[q].stream]) < know[q] /\ know[q] <= clock
        BY <2>2, <4>1 DEF Ahead
      <4>3. QED
        BY <1>0, <2>1, <2>2, <4>1, <4>2
    <3>3. QED
      BY <3>1, <3>2
  <2>5. ASSUME NEW s \in Streams PROVE LastKnowledge(log'[s]) <= clock'
    BY <1>0, <2>1, <2>2, <2>3
  <2>6. QED
    BY <2>4, <2>5 DEF Ahead
<1>4. ASSUME NEW r \in Requests, StoreAppend(r) PROVE Ahead'
  <2> DEFINE name == cmd[r].stream
             f    == NewFact(name, log[name], Draft(cmd[r], snap[r], know[r]))
  <2>1. /\ pc[r] = "append"
        /\ \/ log' = [log EXCEPT ![name] = Append(log[name], f)]
           \/ log' = log
        /\ pc' = [pc EXCEPT ![r] = "leave"]
        /\ UNCHANGED <<holder, steady, clock, cmd, snap, know>>
    BY <1>4, StoreAppendCases
  <2>2. name \in Streams /\ f.knowledge = know[r]
    BY <2>1, ReadyToAppend, AppendedFact
  <2> HIDE DEF f
  <2>3. \A s \in Streams : s # name => log'[s] = log[s]
    BY <2>1 DEF Inv, TypeOK
  <2>4. LastKnowledge(log'[name]) \in {LastKnowledge(log[name]), know[r]}
    <3>1. log[name] \in Seq(Fact) /\ log'[name] \in {log[name], Append(log[name], f)}
      BY <2>1, <2>2 DEF Inv, TypeOK
    <3>2. LastKnowledge(Append(log[name], f)) = know[r]
      BY <2>2, <3>1, KnowledgeOfLast
    <3>3. QED
      BY <3>1, <3>2
  <2>5. \A s \in Streams : LastKnowledge(log'[s]) <= clock
    BY <2>1, <2>3, <2>4 DEF Ahead
  <2>6. ASSUME NEW q \in Requests, pc'[q] = "append"
        PROVE  LastKnowledge(log'[cmd[q].stream]) < know[q] /\ know[q] <= clock
    <3>1. q # r /\ pc[q] = "append"
      BY <2>1, <2>6 DEF Inv, TypeOK
    <3>2. cmd[q].stream # name /\ cmd[q].stream \in Streams
      BY <1>0, <2>1, <3>1, Exclusion DEF Region
    <3>3. QED
      BY <2>1, <2>3, <3>1, <3>2 DEF Ahead
  <2>7. QED
    BY <2>1, <2>5, <2>6 DEF Ahead
<1>5. QED
  BY <1>1, <1>2, <1>3, <1>4 DEF Next, Step

\* With a clock that advances between readings no request is refused because of
\* another: knowledge time is read under the stream's lock, so it cannot be
\* overtaken before it is appended.
THEOREM SteadyWritersAreIndependent == Spec => []NoWriterRefusedForAnother
<1>1. Init => Ahead /\ NoWriterRefusedForAnother
  BY DEF Init, Ahead, NoWriterRefusedForAnother, Pending, LastKnowledge, Unset
<1>2. Inv /\ Ahead /\ NoWriterRefusedForAnother /\ [Next]_vars => NoWriterRefusedForAnother'
  <2> SUFFICES ASSUME Inv, Ahead, NoWriterRefusedForAnother, [Next]_vars, steady',
                      NEW q \in Requests, result'[q].outcome \in RaceErrors
               PROVE  FALSE
    BY DEF NoWriterRefusedForAnother, RaceErrors
  <2>1. steady
    BY DEF Next, Finished, vars, Invoke, Step, Enter, Load, ReadClock, StoreAppend, Leave
  <2>2. result'[q] # result[q]
    BY <2>1 DEF NoWriterRefusedForAnother, RaceErrors
  <2>3. /\ StoreAppend(q)
        /\ result'[q].outcome = AppendOutcome(cmd[q].stream, log[cmd[q].stream],
                                              Expect(cmd[q], snap[q]), know[q])
    BY <2>2, OutcomeSteps
  <2>4. pc[q] = "append" /\ cmd[q].stream \in Streams /\ know[q] \in Nat
    BY <2>3, ReadyToAppend DEF StoreAppend, Inv, TypeOK
  <2>5. LastKnowledge(log[cmd[q].stream]) \in Nat /\ LastKnowledge(log[cmd[q].stream]) < know[q]
    BY <2>1, <2>4, KnowledgeOfLast DEF Ahead, Inv, TypeOK
  <2>6. result'[q].outcome # "ErrNonMonotonicKnowledge"
    BY <2>3, <2>4, <2>5 DEF AppendOutcome, Ok
  <2>7. QED
    BY <2>3, <2>6, ExpectationMet DEF RaceErrors
<1>3. QED
  BY <1>1, <1>2, StepAhead, AlwaysInv, PTL DEF Spec

-----------------------------------------------------------------------------
(* Answers and facts *)

\* Only StoreAppend gives a request the outcome Ok, and no step takes it away.
LEMMA AcceptedSteps ==
  ASSUME Inv, [Next]_vars, NEW q \in Requests
  PROVE  /\ result[q].outcome = Ok => result'[q] = result[q] /\ cmd'[q] = cmd[q]
         /\ result'[q].outcome = Ok /\ result'[q] # result[q] => StoreAppend(q)
<1>1. CASE UNCHANGED vars \/ Finished
  BY <1>1 DEF Finished, vars
<1>2. ASSUME NEW r \in Requests, NEW o, o # Ok, Return(r, Refused(o))
      PROVE  result'[q] = result[q] \/ (q = r /\ result'[q].outcome # Ok)
  <2>1. result' = [result EXCEPT ![r] = Refused(o)] /\ Refused(o).outcome = o
    BY <1>2 DEF Return, Refused
  <2>2. QED
    BY <1>2, <2>1 DEF Inv, Control
<1>3. ASSUME pc[q] \notin {"leave", "done"} PROVE result[q].outcome # Ok
  BY <1>3 DEF Inv, Control, Pending, Ok
<1>4. ASSUME NEW r \in Requests, Invoke(r)
      PROVE  /\ result[q].outcome = Ok => result'[q] = result[q] /\ cmd'[q] = cmd[q]
             /\ result'[q].outcome = Ok => result'[q] = result[q]
  <2>1. pc[r] = "new" /\ (q # r => cmd'[q] = cmd[q])
    BY <1>4 DEF Invoke, Inv, TypeOK
  <2>2. result' = result \/ \E o : o # Ok /\ Return(r, Refused(o))
    BY <1>4 DEF Invoke
  <2>3. QED
    BY <1>2, <1>3, <2>1, <2>2
<1>5. ASSUME NEW r \in Requests, Enter(r) \/ Load(r) \/ ReadClock(r) \/ Leave(r)
      PROVE  /\ result[q].outcome = Ok => result'[q] = result[q] /\ cmd'[q] = cmd[q]
             /\ result'[q].outcome = Ok => result'[q] = result[q]
  <2>1. UNCHANGED cmd
    BY <1>5 DEF Enter, Load, ReadClock, Leave
  <2>2. \/ result' = result
        \/ pc[r] \notin {"leave", "done"} /\ \E o : o # Ok /\ Return(r, Refused(o))
    BY <1>5 DEF Enter, Load, ReadClock, Leave
  <2>3. QED
    BY <1>2, <1>3, <2>1, <2>2
<1>6. ASSUME NEW r \in Requests, StoreAppend(r)
      PROVE  /\ result[q].outcome = Ok => result'[q] = result[q] /\ cmd'[q] = cmd[q]
             /\ result'[q] # result[q] => q = r
  <2>1. pc[r] = "append" /\ UNCHANGED cmd /\ \E res : result' = [result EXCEPT ![r] = res]
    BY <1>6, StoreAppendCases
  <2>2. QED
    BY <1>3, <2>1 DEF Inv, Control
<1>7. QED
  BY <1>1, <1>4, <1>5, <1>6 DEF Next, Step

\* A step that accepts no request leaves the streams alone.
LEMMA LogSteps ==
  ASSUME Inv, [Next]_vars, log' # log
  PROVE  \E r \in Requests :
           LET name == cmd[r].stream
               f    == NewFact(name, log[name], Draft(cmd[r], snap[r], know[r]))
           IN  /\ StoreAppend(r)
               /\ log' = [log EXCEPT ![name] = Append(log[name], f)]
               /\ result' = [result EXCEPT ![r] = Accepted(NextRef(name, log[name]))]
<1>1. PICK r \in Requests : StoreAppend(r)
  BY DEF Next, Finished, vars, Invoke, Step, Enter, Load, ReadClock, Leave
<1>2. QED
  BY <1>1, StoreAppendCases

LEMMA StepAnswersMatchLog == Inv /\ AnswersMatchLog /\ [Next]_vars => AnswersMatchLog'
<1> SUFFICES ASSUME Inv, AnswersMatchLog, [Next]_vars PROVE AnswersMatchLog'
  OBVIOUS
<1> DEFINE Yes(r) == result[r].outcome = Ok
<1>0. /\ \A r \in Requests : Yes(r) => HasFact(cmd[r].stream, log[cmd[r].stream], result[r].ref)
      /\ \A q, r \in Requests : Yes(q) /\ Yes(r) /\ result[q].ref = result[r].ref => q = r
      /\ \A s \in Streams : \A i \in DOMAIN log[s] :
           \E r \in Requests : Yes(r) /\ result[r].ref = log[s][i].ref
  BY DEF AnswersMatchLog
<1>1. \A r \in Requests : Yes(r) => result'[r] = result[r] /\ cmd'[r] = cmd[r]
  BY AcceptedSteps
<1>2. CASE log' = log
  <2>1. ASSUME NEW r \in Requests, result'[r].outcome = Ok PROVE Yes(r)
    <3>1. ASSUME StoreAppend(r) PROVE FALSE
      <4> DEFINE name == cmd[r].stream
                 f    == NewFact(name, log[name], Draft(cmd[r], snap[r], know[r]))
                 o    == AppendOutcome(name, log[name], Expect(cmd[r], snap[r]), know[r])
      <4>1. pc[r] = "append"
        BY <3>1 DEF StoreAppend
      <4>2. name \in Streams /\ log[name] \in Seq(Fact)
        BY <4>1, ReadyToAppend DEF Addressed
      <4>3. \/ log' = [log EXCEPT ![name] = Append(log[name], f)]
            \/ o # Ok /\ result' = [result EXCEPT ![r] = Refused(o)]
        BY <3>1, StoreAppendCases
      <4> HIDE DEF f, o
      <4>4. log' # [log EXCEPT ![name] = Append(log[name], f)]
        <5>1. Len(Append(log[name], f)) = Len(log[name]) + 1 /\ Len(log[name]) \in Nat
          BY <4>2
        <5>2. Append(log[name], f) # log[name]
          BY <5>1
        <5>3. QED
          BY <1>2, <4>2, <5>2 DEF Inv, TypeOK
      <4>5. result'[r].outcome = o /\ o # Ok
        BY <4>3, <4>4 DEF Refused, Inv, Control
      <4>6. QED
        BY <2>1, <4>5
    <3>2. result'[r] = result[r]
      BY <2>1, <3>1, AcceptedSteps
    <3>3. QED
      BY <2>1, <3>2
  <2>2. ASSUME NEW r \in Requests, result'[r].outcome = Ok
        PROVE  HasFact(cmd'[r].stream, log'[cmd'[r].stream], result'[r].ref)
    BY <1>0, <1>1, <1>2, <2>1, <2>2
  <2>3. ASSUME NEW q \in Requests, NEW r \in Requests, result'[q].outcome = Ok,
               result'[r].outcome = Ok, result'[q].ref = result'[r].ref
        PROVE  q = r
    BY <1>0, <1>1, <2>1, <2>3
  <2>4. ASSUME NEW s \in Streams, NEW i \in DOMAIN log'[s]
        PROVE  \E r \in Requests : result'[r].outcome = Ok /\ result'[r].ref = log'[s][i].ref
    BY <1>0, <1>1, <1>2
  <2>5. QED
    BY <2>2, <2>3, <2>4 DEF AnswersMatchLog
<1>3. CASE log' # log
  <2>1. PICK r \in Requests :
          LET name == cmd[r].stream
              f    == NewFact(name, log[name], Draft(cmd[r], snap[r], know[r]))
          IN  /\ StoreAppend(r)
              /\ log' = [log EXCEPT ![name] = Append(log[name], f)]
              /\ result' = [result EXCEPT ![r] = Accepted(NextRef(name, log[name]))]
    BY <1>3, LogSteps
  <2> DEFINE name == cmd[r].stream
             f    == NewFact(name, log[name], Draft(cmd[r], snap[r], know[r]))
             n    == Len(log[name])
             new  == [stream |-> name, sequence |-> n + 1]
  <2>2. pc[r] = "append" /\ UNCHANGED cmd
    BY <2>1, StoreAppendCases
  <2>3. name \in Streams /\ log[name] \in Seq(Fact) /\ f \in Fact /\ f.ref = new
    BY <2>2, ReadyToAppend, AppendedFact DEF Addressed, NextRef
  <2>4. /\ log' = [log EXCEPT ![name] = Append(log[name], f)]
        /\ result' = [result EXCEPT ![r] = Accepted(new)]
    BY <2>1 DEF NextRef
  <2> HIDE DEF f
  <2>5. /\ \A s \in Streams : s # name => log'[s] = log[s]
        /\ log'[name] = Append(log[name], f)
    BY <2>3, <2>4 DEF Inv, TypeOK
  <2>6. /\ n \in Nat /\ Len(log'[name]) = n + 1
        /\ DOMAIN log'[name] = 1..(n + 1) /\ DOMAIN log[name] = 1..n
        /\ \A i \in 1..n : log'[name][i] = log[name][i]
        /\ log'[name][n + 1] = f
    BY <2>3, <2>5
  <2> HIDE DEF n
  <2>7. /\ result'[r].outcome = Ok /\ result'[r].ref = new
        /\ \A q \in Requests : q # r => result'[q] = result[q]
        /\ ~Yes(r)
    BY <2>2, <2>4 DEF Inv, Control, Accepted, Pending, Ok
  <2>8. ASSUME NEW q \in Requests, Yes(q)
        PROVE  /\ HasFact(cmd[q].stream, log'[cmd[q].stream], result[q].ref)
               /\ result[q].ref # new
    <3>1. HasFact(cmd[q].stream, log[cmd[q].stream], result[q].ref)
      BY <1>0, <2>8
    <3>2. pc[q] # "new"
      BY <2>8 DEF Inv, Control, Pending, Ok
    <3>3. cmd[q].stream \in Streams
      BY <3>2, CommandsAreCommands DEF Inv, Control
    <3>4. CASE cmd[q].stream # name
      <4>1. new.stream = name /\ result[q].ref.stream = cmd[q].stream
        BY <3>1 DEF HasFact
      <4>2. QED
        BY <2>5, <3>1, <3>3, <3>4, <4>1
    <3>5. CASE cmd[q].stream = name
      <4>1. result[q].ref.sequence \in 1..n /\ result[q].ref.stream = name
        BY <3>1, <3>5 DEF HasFact, n
      <4>2. new.sequence = n + 1
        OBVIOUS
      <4>3. result[q].ref # new
        BY <2>6, <4>1, <4>2
      <4>4. result[q].ref.sequence \in 1..Len(log'[name])
        BY <2>6, <4>1
      <4>5. QED
        BY <3>5, <4>1, <4>3, <4>4 DEF HasFact
    <3>6. QED
      BY <3>4, <3>5
  <2>9. HasFact(cmd[r].stream, log'[cmd[r].stream], new)
    BY <2>6 DEF HasFact
  <2>10. ASSUME NEW q \in Requests, result'[q].outcome = Ok
         PROVE  HasFact(cmd'[q].stream, log'[cmd'[q].stream], result'[q].ref)
    BY <2>2, <2>7, <2>8, <2>9, <2>10
  <2>11. ASSUME NEW p \in Requests, NEW q \in Requests, result'[p].outcome = Ok,
                result'[q].outcome = Ok, result'[p].ref = result'[q].ref
         PROVE  p = q
    BY <1>0, <2>7, <2>8, <2>11
  <2>12. ASSUME NEW s \in Streams, NEW i \in DOMAIN log'[s]
         PROVE  \E q \in Requests : result'[q].outcome = Ok /\ result'[q].ref = log'[s][i].ref
    <3>1. CASE s = name /\ i = n + 1
      BY <2>3, <2>6, <2>7, <3>1
    <3>2. CASE ~(s = name /\ i = n + 1)
      <4>1. i \in DOMAIN log[s] /\ log'[s][i] = log[s][i]
        <5>1. CASE s # name
          BY <2>5, <5>1
        <5>2. CASE s = name
          <6> HIDE DEF name, new
          <6>1. i \in 1..(n + 1) /\ i # n + 1
            BY <2>6, <2>12, <3>2, <5>2
          <6>2. i \in 1..n
            BY <2>6, <6>1
          <6>3. QED
            BY <2>6, <5>2, <6>2
        <5>3. QED
          BY <5>1, <5>2
      <4>2. PICK q \in Requests : Yes(q) /\ result[q].ref = log[s][i].ref
        BY <1>0, <4>1
      <4>3. QED
        BY <2>7, <4>1, <4>2
    <3>3. QED
      BY <3>1, <3>2
  <2>13. QED
    BY <2>10, <2>11, <2>12 DEF AnswersMatchLog
<1>4. QED
  BY <1>2, <1>3

\* The references handed to callers and the facts in the store correspond one to
\* one: no accepted fact is lost or overwritten, no reference is handed out
\* twice, and a refused call leaves nothing behind.
THEOREM AnswersAreFacts == Spec => []AnswersMatchLog
<1>1. Init => AnswersMatchLog
  BY DEF Init, AnswersMatchLog, Pending, Ok
<1>2. QED
  BY <1>1, StepAnswersMatchLog, AlwaysInv, PTL DEF Spec
=============================================================================

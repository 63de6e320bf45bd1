-------------------------- MODULE SubmissionProofs --------------------------
(***************************************************************************)
(* The submission service, for any number of producers and attempts and    *)
(* whatever is resent, given up, refused or killed: it admits only what    *)
(* the ledger admits, every 201 is true, and a claim is recorded twice     *)
(* only for an answer that was missed.                                     *)
(*                                                                         *)
(* The argument: an attempt is handled once and its answer never changes   *)
(* afterwards (Handled), its answer names its fact (Truthful), and it is   *)
(* sent only after every attempt before it failed or was given up          *)
(* (Ordered).                                                              *)
(***************************************************************************)
EXTENDS Submission, UseCasesProofs

Places == {"unsent", "sent", "responding", "answered", "lost"}

Types ==
  /\ DOMAIN log = Streams
  /\ \A s \in Streams : Addressed(s, log[s])
  /\ pc \in [Attempts -> Places]
  /\ waiting \in [Attempts -> BOOLEAN]
  /\ DOMAIN answer = Attempts

Yes(a) == answer[a].outcome = Ok

\* Nothing is answered before the handler runs, and 201 means admitted.
Handled ==
  \A a \in Attempts :
    /\ pc[a] \in {"unsent", "sent"} => answer[a] = NoAnswer
    /\ pc[a] = "unsent" => waiting[a]
    /\ answer[a].status = 201 <=> Yes(a)

\* An admitted attempt was told where its claim is, every recorded fact was told
\* to an attempt, and no two were told the same.
Truthful ==
  /\ \A a \in Attempts : Yes(a) =>
       LET cmd == Submission[a[1]].cmd
           ref == answer[a].ref
       IN  /\ HasFact(cmd.stream, log[cmd.stream], ref)
           /\ log[cmd.stream][ref.sequence].ref = ref
           /\ log[cmd.stream][ref.sequence].payload = AcceptHoldingClaimDraft(cmd, 1).payload
  /\ \A a, b \in Attempts : Yes(a) /\ Yes(b) /\ answer[a].ref = answer[b].ref => a = b
  /\ \A s \in Streams : \A i \in DOMAIN log[s] :
       \E a \in Attempts : Yes(a) /\ answer[a].ref = log[s][i].ref

Inv == Types /\ Handled

-----------------------------------------------------------------------------
(* What the handler does *)

\* An attempt is a producer and a number.
LEMMA AttemptOf ==
  ASSUME NEW a \in Attempts
  PROVE  /\ a[1] \in Producers /\ a[2] \in 1..MaxAttempts[a[1]] /\ a = <<a[1], a[2]>>
         /\ MaxAttempts[a[1]] \in Nat
BY MaxAttemptsAssumption DEF Attempts

LEMMA CommandOf ==
  ASSUME NEW a \in Attempts
  PROVE  LET cmd == Submission[a[1]].cmd IN
         /\ cmd \in AcceptHoldingClaimCommand /\ cmd \in Command
         /\ cmd.op = "AcceptHoldingClaim" /\ cmd.stream \in Streams
         /\ ~ReadsStream(cmd)
BY AttemptOf, SubmissionAssumption DEF AcceptHoldingClaimCommand, Command, ReadsStream

\* The status table lets 201 mean success and nothing else.
LEMMA StatusOfOutcome ==
  ASSUME NEW o PROVE StatusFor(o) = 201 <=> o = Ok
<1>1. CASE o = Ok
  BY <1>1 DEF StatusFor, Ok
<1>2. CASE o \in {"ErrMalformedSource", "ErrIncompleteEnvelope", "ErrUnknownKind"}
  BY <1>2 DEF StatusFor, Ok
<1>3. CASE o \in {"ErrStaleRead", "ErrNonMonotonicKnowledge"}
  BY <1>3 DEF StatusFor, Ok
<1>4. CASE o \notin {Ok, "ErrMalformedSource", "ErrIncompleteEnvelope", "ErrUnknownKind",
                     "ErrStaleRead", "ErrNonMonotonicKnowledge"}
  BY <1>4 DEF StatusFor
<1>5. QED
  BY <1>1, <1>2, <1>3, <1>4

\* A request the ledger never sees is not answered with success.
LEMMA RefusalIsNoSuccess ==
  ASSUME NEW form \in Forms \ {"decodes"}
  PROVE  RefusalStatus(form) # 201 /\ form # Ok
<1>1. form # Ok
  BY DEF Forms, Ok
<1>2. CASE form = "notPost"
  BY <1>1, <1>2 DEF RefusalStatus
<1>3. CASE form = "notProtobuf"
  BY <1>1, <1>3 DEF RefusalStatus
<1>4. CASE form = "unreadable"
  BY <1>1, <1>4 DEF RefusalStatus
<1>5. CASE form = "tooLarge"
  BY <1>1, <1>5 DEF RefusalStatus
<1>6. CASE form = "unparsable"
  BY <1>1, <1>6 DEF RefusalStatus
<1>7. CASE form = "undecodable"
  BY <1>1, <1>7 DEF RefusalStatus
<1>8. QED
  BY <1>2, <1>3, <1>4, <1>5, <1>6, <1>7 DEF Forms

\* The checks an admitted submission passed.
LEMMA AdmitOk ==
  ASSUME NEW cmd, NEW k, Admit(cmd, k) = Ok
  PROVE  /\ Admission(cmd) = Ok
         /\ DraftOutcome(cmd, log[cmd.stream], k) = Ok
         /\ AppendOutcome(cmd.stream, log[cmd.stream], Expect(cmd, log[cmd.stream]), k) = Ok
BY DEF Admit

\* What the handler answers: a refusal of its own, the ledger's, or the place of
\* the fact that was just recorded.
Admits(a, k) ==
  LET cmd    == Submission[a[1]].cmd
      stream == log[cmd.stream]
  IN  /\ Admit(cmd, k) = Ok
      /\ log' = [log EXCEPT ![cmd.stream] =
                   Append(stream, NewFact(cmd.stream, stream, Draft(cmd, stream, k)))]
      /\ answer' = [answer EXCEPT ![a] =
                      [status |-> 201, outcome |-> Ok, ref |-> NextRef(cmd.stream, stream)]]

LEMMA HandleCases ==
  ASSUME NEW a \in Attempts, Handle(a)
  PROVE  /\ pc[a] = "sent" /\ pc' = [pc EXCEPT ![a] = "responding"]
         /\ UNCHANGED <<server, waiting>>
         /\ \/ \E k \in Readings : Admits(a, k)
            \/ /\ log' = log
               /\ \E status, outcome :
                    /\ status # 201 /\ outcome # Ok
                    /\ answer' = [answer EXCEPT ![a] =
                                    [status |-> status, outcome |-> outcome, ref |-> NoRef]]
<1>1. CASE Refuse(a)
  <2> DEFINE form == Submission[a[1]].form
  <2>1. form \in Forms /\ form # "decodes"
    BY <1>1, AttemptOf, SubmissionAssumption DEF Refuse
  <2>2. RefusalStatus(form) # 201 /\ form # Ok
    BY <2>1, RefusalIsNoSuccess
  <2>3. QED
    BY <1>1, <2>2 DEF Refuse, Respond
<1>2. CASE Accept(a)
  <2> DEFINE cmd    == Submission[a[1]].cmd
             stream == log[cmd.stream]
  <2>1. PICK k \in Readings :
          \/ /\ Admit(cmd, k) = Ok
             /\ log' = [log EXCEPT ![cmd.stream] =
                          Append(stream, NewFact(cmd.stream, stream, Draft(cmd, stream, k)))]
             /\ Respond(a, StatusFor(Ok), Ok, NextRef(cmd.stream, stream))
          \/ /\ Admit(cmd, k) # Ok /\ log' = log
             /\ Respond(a, StatusFor(Admit(cmd, k)), Admit(cmd, k), NoRef)
    BY <1>2 DEF Accept
  <2>2. pc[a] = "sent" /\ UNCHANGED <<server, waiting>>
    BY <1>2 DEF Accept
  <2>3. StatusFor(Ok) = 201 /\ (Admit(cmd, k) # Ok => StatusFor(Admit(cmd, k)) # 201)
    BY StatusOfOutcome
  <2>4. QED
    BY <2>1, <2>2, <2>3 DEF Respond, Admits
<1>3. CASE StoreFails(a)
  <2>1. StoreFailure # Ok
    BY DEF StoreFailure, Ok
  <2>2. StatusFor(StoreFailure) # 201
    BY <2>1, StatusOfOutcome
  <2>3. QED
    BY <1>3, <2>1, <2>2 DEF StoreFails, Respond
<1>4. QED
  BY <1>1, <1>2, <1>3 DEF Handle

\* The fact an admitted submission becomes, and the stream it leaves.
LEMMA AdmittedFact ==
  ASSUME Inv, NEW a \in Attempts, NEW k \in Readings,
         Admit(Submission[a[1]].cmd, k) = Ok
  PROVE  LET cmd    == Submission[a[1]].cmd
             stream == log[cmd.stream]
             f      == NewFact(cmd.stream, stream, Draft(cmd, stream, k))
         IN  /\ f \in Fact /\ f.ref = NextRef(cmd.stream, stream)
             /\ f.payload = AcceptHoldingClaimDraft(cmd, 1).payload
             /\ Addressed(cmd.stream, stream)
             /\ Addressed(cmd.stream, Append(stream, f))
<1> DEFINE cmd    == Submission[a[1]].cmd
           stream == log[cmd.stream]
           d      == Draft(cmd, stream, k)
           f      == NewFact(cmd.stream, stream, d)
<1>1. /\ cmd \in Command /\ cmd.op = "AcceptHoldingClaim" /\ cmd.stream \in Streams
      /\ ~ReadsStream(cmd)
  BY CommandOf
<1>2. Addressed(cmd.stream, stream)
  BY <1>1 DEF Inv, Types
<1>3. Admission(cmd) = Ok /\ DraftOutcome(cmd, stream, k) = Ok
  BY AdmitOk
<1>4. ReadOutcome(cmd, stream) = Ok
  BY <1>1, UnreadStream
<1>5. f \in Fact
  BY <1>1, <1>2, <1>3, <1>4, DraftBecomesFact, ReadingsAssumption
<1>6. d = AcceptHoldingClaimDraft(cmd, k)
  BY <1>1 DEF Draft
<1>7. d.payload = AcceptHoldingClaimDraft(cmd, 1).payload
  BY <1>6 DEF AcceptHoldingClaimDraft
<1> HIDE DEF d
<1>8. f.ref = NextRef(cmd.stream, stream) /\ f.payload = d.payload
  BY DEF NewFact
<1>9. Addressed(cmd.stream, Append(stream, f))
  BY <1>2, <1>5, <1>8, AppendAddressed
<1>10. QED
  BY <1>2, <1>5, <1>7, <1>8, <1>9 DEF d

-----------------------------------------------------------------------------
(* The inductive invariant *)

\* The steps that handle nothing move attempts along and stop producers waiting;
\* they change no answer and record nothing.
LEMMA QuietStep ==
  ASSUME Inv, [Next]_vars, \A a \in Attempts : ~Handle(a)
  PROVE  /\ UNCHANGED <<log, answer>>
         /\ pc' \in [Attempts -> Places] /\ waiting' \in [Attempts -> BOOLEAN]
         /\ \A b \in Attempts :
              /\ pc'[b] = "unsent" => pc[b] = "unsent" /\ waiting'[b] = waiting[b]
              /\ pc'[b] = "sent" => pc[b] \in {"unsent", "sent"}
              /\ pc[b] = "answered" => pc'[b] = "answered"
              /\ pc[b] # "unsent" => pc'[b] # "unsent"
              /\ waiting'[b] => waiting[b]
<1> USE DEF Places
<1>1. CASE UNCHANGED vars
  BY <1>1 DEF vars, Inv, Types
<1>2. CASE Signal \/ Shutdown
  BY <1>2 DEF Signal, Shutdown, Inv, Types
<1>3. CASE ShutdownTimeout \/ Crash
  <2>1. Drop(InFlight) /\ UNCHANGED <<log, answer>>
    BY <1>3 DEF ShutdownTimeout, Crash
  <2>2. QED
    BY <2>1 DEF Drop, InFlight, Inv, Types
<1>4. ASSUME NEW a \in Attempts, Send(a) \/ GiveUp(a) \/ Write(a)
      PROVE  /\ UNCHANGED <<log, answer>>
             /\ pc' \in [Attempts -> Places] /\ waiting' \in [Attempts -> BOOLEAN]
             /\ \A b \in Attempts :
                  /\ pc'[b] = "unsent" => pc[b] = "unsent" /\ waiting'[b] = waiting[b]
                  /\ pc'[b] = "sent" => pc[b] \in {"unsent", "sent"}
                  /\ pc[b] = "answered" => pc'[b] = "answered"
                  /\ pc[b] # "unsent" => pc'[b] # "unsent"
                  /\ waiting'[b] => waiting[b]
  <2>1. CASE Send(a)
    BY <2>1 DEF Send, Inv, Types
  <2>2. CASE GiveUp(a)
    BY <2>2 DEF GiveUp, Inv, Types
  <2>3. CASE Write(a)
    BY <2>3 DEF Write, Inv, Types
  <2>4. QED
    BY <1>4, <2>1, <2>2, <2>3
<1>5. QED
  BY <1>1, <1>2, <1>3, <1>4 DEF Next

\* What an admission leaves: one more fact, and one more attempt that was told.
LEMMA AdmitStep ==
  ASSUME Inv, NEW a \in Attempts, NEW k \in Readings, Admits(a, k), pc[a] = "sent"
  PROVE  LET name == Submission[a[1]].cmd.stream
             n    == Len(log[name])
         IN  /\ name \in Streams /\ n \in Nat
             /\ DOMAIN log' = Streams
             /\ \A s \in Streams : s # name => log'[s] = log[s]
             /\ log[name] \in Seq(Fact) /\ log'[name] \in Seq(Fact) /\ Len(log'[name]) = n + 1
             /\ \A i \in 1..n : log'[name][i] = log[name][i]
             /\ log'[name][n + 1].ref = [stream |-> name, sequence |-> n + 1]
             /\ log'[name][n + 1].payload = AcceptHoldingClaimDraft(Submission[a[1]].cmd, 1).payload
             /\ \A s \in Streams : Addressed(s, log'[s])
             /\ ~Yes(a) /\ Yes(a)' /\ answer'[a].status = 201
             /\ answer'[a].ref = [stream |-> name, sequence |-> n + 1]
             /\ DOMAIN answer' = Attempts
             /\ \A b \in Attempts : b # a => answer'[b] = answer[b]
<1> DEFINE cmd    == Submission[a[1]].cmd
           name   == cmd.stream
           stream == log[name]
           n      == Len(stream)
           f      == NewFact(name, stream, Draft(cmd, stream, k))
           longer == Append(stream, f)
<1>1. /\ Admit(cmd, k) = Ok
      /\ log' = [log EXCEPT ![name] = longer]
      /\ answer' = [answer EXCEPT ![a] =
                      [status |-> 201, outcome |-> Ok, ref |-> NextRef(name, stream)]]
  BY DEF Admits
<1>2. /\ f \in Fact /\ f.ref = [stream |-> name, sequence |-> n + 1]
      /\ f.payload = AcceptHoldingClaimDraft(cmd, 1).payload
      /\ Addressed(name, stream) /\ Addressed(name, longer)
  BY <1>1, AdmittedFact DEF NextRef
<1>3. name \in Streams
  BY CommandOf
<1> HIDE DEF f, stream
<1>4. stream \in Seq(Fact) /\ n \in Nat
  BY <1>2 DEF Addressed
<1>5. /\ longer \in Seq(Fact) /\ Len(longer) = n + 1
      /\ \A i \in 1..n : longer[i] = stream[i]
      /\ longer[n + 1] = f
  BY <1>2, <1>4
<1> HIDE DEF longer, name
<1>6. /\ DOMAIN log' = Streams /\ log'[name] = longer
      /\ \A s \in Streams : s # name => log'[s] = log[s]
  BY <1>1, <1>3 DEF Inv, Types
<1>7. ASSUME NEW s \in Streams PROVE Addressed(s, log'[s])
  <2>1. CASE s = name
    BY <1>2, <1>6, <2>1
  <2>2. CASE s # name
    BY <1>6, <2>2 DEF Inv, Types
  <2>3. QED
    BY <2>1, <2>2
<1>8. /\ DOMAIN answer' = Attempts /\ Yes(a)' /\ answer'[a].status = 201
      /\ answer'[a].ref = [stream |-> name, sequence |-> n + 1]
      /\ \A b \in Attempts : b # a => answer'[b] = answer[b]
  BY <1>1 DEF Inv, Types, NextRef, Yes
<1>9. ~Yes(a)
  BY DEF Inv, Handled, Yes, NoAnswer, Ok
<1>10. log'[name][n + 1] = f /\ stream = log[name]
  BY <1>5, <1>6 DEF stream
<1>11. /\ log[name] \in Seq(Fact) /\ n = Len(log[name])
       /\ log'[name] \in Seq(Fact) /\ Len(log'[name]) = n + 1
       /\ \A i \in 1..n : log'[name][i] = log[name][i]
  BY <1>4, <1>5, <1>6, <1>10
<1>12. /\ log'[name][n + 1].ref = [stream |-> name, sequence |-> n + 1]
       /\ log'[name][n + 1].payload = AcceptHoldingClaimDraft(cmd, 1).payload
  BY <1>2, <1>10
<1> HIDE DEF n
<1>13. QED
  BY <1>3, <1>4, <1>6, <1>7, <1>8, <1>9, <1>11, <1>12 DEF name

LEMMA InitInv == Init => Inv
<1> SUFFICES ASSUME Init PROVE Inv
  OBVIOUS
<1>1. <<>> \in Seq(Fact) /\ 1..Len(<<>>) = {}
  OBVIOUS
<1>2. Types
  BY <1>1 DEF Init, Types, Addressed, Places
<1>3. Handled
  BY DEF Init, Handled, Yes, NoAnswer, Ok
<1>4. QED
  BY <1>2, <1>3 DEF Inv

LEMMA StepInv == Inv /\ [Next]_vars => Inv'
<1> SUFFICES ASSUME Inv, [Next]_vars PROVE Inv'
  OBVIOUS
<1>1. CASE \A a \in Attempts : ~Handle(a)
  <2>1. Types'
    BY <1>1, QuietStep DEF Inv, Types
  <2>2. Handled'
    BY <1>1, QuietStep DEF Inv, Handled, Yes
  <2>3. QED
    BY <2>1, <2>2 DEF Inv
<1>2. ASSUME NEW a \in Attempts, Handle(a) PROVE Inv'
  <2>1. /\ pc[a] = "sent" /\ pc' = [pc EXCEPT ![a] = "responding"]
        /\ UNCHANGED <<server, waiting>>
    BY <1>2, HandleCases
  <2>2. pc'[a] = "responding" /\ \A b \in Attempts : b # a => pc'[b] = pc[b]
    BY <2>1 DEF Inv, Types
  <2>3. /\ DOMAIN log' = Streams /\ \A s \in Streams : Addressed(s, log'[s])
        /\ DOMAIN answer' = Attempts
        /\ \A b \in Attempts : b # a => answer'[b] = answer[b]
        /\ answer'[a].status = 201 <=> Yes(a)'
    <3>1. CASE \E k \in Readings : Admits(a, k)
      BY <2>1, <3>1, AdmitStep
    <3>2. ASSUME log' = log, NEW status, NEW outcome, status # 201, outcome # Ok,
                 answer' = [answer EXCEPT ![a] =
                              [status |-> status, outcome |-> outcome, ref |-> NoRef]]
          PROVE  /\ DOMAIN answer' = Attempts
                 /\ \A b \in Attempts : b # a => answer'[b] = answer[b]
                 /\ answer'[a].status = 201 <=> Yes(a)'
      BY <3>2 DEF Inv, Types, Yes
    <3>3. QED
      BY <1>2, <3>1, <3>2, HandleCases DEF Inv, Types
  <2>4. Types'
    BY <2>1, <2>3 DEF Inv, Types, Places
  <2>5. Handled'
    BY <2>1, <2>2, <2>3 DEF Inv, Handled, Yes
  <2>6. QED
    BY <2>4, <2>5 DEF Inv
<1>3. QED
  BY <1>1, <1>2

LEMMA AlwaysInv == Spec => []Inv
BY InitInv, StepInv, PTL DEF Spec

-----------------------------------------------------------------------------
(* The service implements the atomic ledger *)

\* AtomicLedger is instantiated with the constants of this module, so that its
\* copies of the use cases' operators are the ones used here.
LEMMA SameOutcomes ==
  ASSUME NEW c, NEW stream, NEW k, NEW name, NEW expect
  PROVE  /\ Atomic!Admission(c) = Admission(c)
         /\ Atomic!ReadOutcome(c, stream) = ReadOutcome(c, stream)
         /\ Atomic!DraftOutcome(c, stream, k) = DraftOutcome(c, stream, k)
         /\ Atomic!Expect(c, stream) = Expect(c, stream)
         /\ Atomic!AppendOutcome(name, stream, expect, k) = AppendOutcome(name, stream, expect, k)
<1> USE DEF Ok, Atomic!Ok, Unset, Atomic!Unset
<1>1. Atomic!Admission(c) = Admission(c)
  BY Zenon DEF Admission, Atomic!Admission, AcceptHoldingClaimAdmission,
     Atomic!AcceptHoldingClaimAdmission, MintIdentityAdmission, Atomic!MintIdentityAdmission,
     EntityKinds, Atomic!EntityKinds
<1>2. Atomic!ReadOutcome(c, stream) = ReadOutcome(c, stream)
  BY Zenon DEF ReadOutcome, Atomic!ReadOutcome, CorrectFactRead, Atomic!CorrectFactRead,
     MintIdentityRead, Atomic!MintIdentityRead, ObserveClaimedHoldingRead,
     Atomic!ObserveClaimedHoldingRead, HasFact, Atomic!HasFact,
     CorrectionKinds, Atomic!CorrectionKinds, CanDerive, Atomic!CanDerive,
     IsResolved, Atomic!IsResolved, Answering, Atomic!Answering, VisibleAt, Atomic!VisibleAt,
     Resolves, Atomic!Resolves, IsA, Atomic!IsA, Visible, Atomic!Visible,
     Contains, Atomic!Contains, IsOpen, Atomic!IsOpen
<1>3. Atomic!DraftOutcome(c, stream, k) = DraftOutcome(c, stream, k)
  BY Zenon DEF DraftOutcome, Atomic!DraftOutcome, MintIdentityOutcome,
     Atomic!MintIdentityOutcome, StatedOutcome, Atomic!StatedOutcome,
     RecordedOutcome, Atomic!RecordedOutcome, MintIdentityResolves,
     Atomic!MintIdentityResolves, NewAsOf, Atomic!NewAsOf,
     IsResolved, Atomic!IsResolved, Answering, Atomic!Answering, VisibleAt, Atomic!VisibleAt,
     Resolves, Atomic!Resolves, IsA, Atomic!IsA, Visible, Atomic!Visible,
     Contains, Atomic!Contains, IsOpen, Atomic!IsOpen
<1>4. Atomic!Expect(c, stream) = Expect(c, stream)
  BY Zenon DEF Expect, Atomic!Expect, ReadsStream, Atomic!ReadsStream, AtLength,
     Atomic!AtLength, ExpectAny, Atomic!ExpectAny
<1>5. Atomic!AppendOutcome(name, stream, expect, k) = AppendOutcome(name, stream, expect, k)
  BY Zenon DEF AppendOutcome, Atomic!AppendOutcome, LastKnowledge, Atomic!LastKnowledge
<1>6. QED
  BY <1>1, <1>2, <1>3, <1>4, <1>5

LEMMA SameFacts ==
  ASSUME NEW c, NEW stream, NEW k, NEW name, NEW d
  PROVE  /\ Atomic!Draft(c, stream, k) = Draft(c, stream, k)
         /\ Atomic!NewFact(name, stream, d) = NewFact(name, stream, d)
<1>1. Atomic!Draft(c, stream, k) = Draft(c, stream, k)
  BY Zenon DEF Draft, Atomic!Draft, ObserveHoldingDraft, Atomic!ObserveHoldingDraft,
     CorrectFactDraft, Atomic!CorrectFactDraft, AcceptHoldingClaimDraft,
     Atomic!AcceptHoldingClaimDraft, MintIdentityDraft, Atomic!MintIdentityDraft,
     ObserveClaimedHoldingDraft, Atomic!ObserveClaimedHoldingDraft,
     MintFor, Atomic!MintFor, DeriveFromClaim, Atomic!DeriveFromClaim,
     ZeroAsOf, Atomic!ZeroAsOf, Unset, Atomic!Unset,
     DeriveHoldingObserved, Atomic!DeriveHoldingObserved,
     ResolveWithTrace, Atomic!ResolveWithTrace, FirstOf, Atomic!FirstOf,
     Precedes, Atomic!Precedes, Answering, Atomic!Answering, VisibleAt, Atomic!VisibleAt,
     Resolves, Atomic!Resolves, IsA, Atomic!IsA, Visible, Atomic!Visible,
     Contains, Atomic!Contains, IsOpen, Atomic!IsOpen
<1>2. Atomic!NewFact(name, stream, d) = NewFact(name, stream, d)
  BY Zenon DEF NewFact, Atomic!NewFact, NextRef, Atomic!NextRef
<1>3. QED
  BY <1>1, <1>2

\* An admission is AcceptHoldingClaim, done atomically.
LEMMA AdmitIsAtomic ==
  ASSUME Inv, NEW a \in Attempts, NEW k \in Readings, Admits(a, k)
  PROVE  Atomic!Next
<1> DEFINE c      == Submission[a[1]].cmd
           name   == c.stream
           stream == log[name]
<1>1. c \in Command /\ c.op = "AcceptHoldingClaim" /\ ~ReadsStream(c)
  BY CommandOf
<1>2. a[1] \in Producers
  BY AttemptOf
<1>3. /\ Admit(c, k) = Ok
      /\ log' = [log EXCEPT ![name] = Append(stream, NewFact(name, stream, Draft(c, stream, k)))]
  BY DEF Admits
<1>4. /\ Admission(c) = Ok
      /\ DraftOutcome(c, stream, k) = Ok
      /\ AppendOutcome(name, stream, Expect(c, stream), k) = Ok
  BY <1>3, AdmitOk
<1>5. ReadOutcome(c, stream) = Ok
  BY <1>1, UnreadStream
<1>6. c \in {Submission[p].cmd : p \in Producers}
  BY <1>2
<1> HIDE DEF c
<1>7. Atomic!Record(c, k)
  <2>1. /\ Atomic!Admission(c) = Ok
        /\ Atomic!ReadOutcome(c, stream) = Ok
        /\ Atomic!DraftOutcome(c, stream, k) = Ok
    BY <1>4, <1>5, SameOutcomes
  <2>2. Atomic!AppendOutcome(name, stream, Atomic!Expect(c, stream), k) = Ok
    BY <1>4, SameOutcomes
  <2>3. Atomic!NewFact(name, stream, Atomic!Draft(c, stream, k))
          = NewFact(name, stream, Draft(c, stream, k))
    BY SameFacts
  <2>4. log' = [log EXCEPT ![name] =
                  Append(stream, Atomic!NewFact(name, stream, Atomic!Draft(c, stream, k)))]
    BY <1>3, <2>3
  <2>5. QED
    BY <2>1, <2>2, <2>4 DEF Atomic!Record, Atomic!Ok, Ok
<1>8. QED
  BY <1>1, <1>6, <1>7 DEF Atomic!Next, Atomic!AcceptHoldingClaim

\* The service admits nothing of its own: whatever producers resend and however
\* the process ends, the log is one the ledger's use cases produce.
THEOREM ServiceIsAtomic == Spec => ImplementsAtomic
<1>1. Init => Atomic!Init
  BY DEF Init, Atomic!Init
<1>2. ASSUME Inv, [Next]_vars PROVE [Atomic!Next]_log
  <2>1. CASE \A a \in Attempts : ~Handle(a)
    BY <1>2, <2>1, QuietStep
  <2>2. ASSUME NEW a \in Attempts, Handle(a) PROVE [Atomic!Next]_log
    BY <1>2, <2>2, HandleCases, AdmitIsAtomic
  <2>3. QED
    BY <2>1, <2>2
<1>3. QED
  BY <1>1, <1>2, AlwaysInv, PTL DEF Spec, ImplementsAtomic, Atomic!Spec

-----------------------------------------------------------------------------
(* Every 201 is true *)

\* A step that admits nothing leaves the streams and who was told.
LEMMA NothingAdmitted ==
  ASSUME Inv, [Next]_vars, ~\E a \in Attempts, k \in Readings : pc[a] = "sent" /\ Admits(a, k)
  PROVE  /\ log' = log
         /\ \A a \in Attempts : Yes(a)' <=> Yes(a)
         /\ \A a \in Attempts : Yes(a) => answer'[a] = answer[a]
<1>1. CASE \A a \in Attempts : ~Handle(a)
  BY <1>1, QuietStep DEF Yes
<1>2. ASSUME NEW a \in Attempts, Handle(a)
      PROVE  /\ log' = log
             /\ \A b \in Attempts : Yes(b)' <=> Yes(b)
             /\ \A b \in Attempts : Yes(b) => answer'[b] = answer[b]
  <2>1. pc[a] = "sent" /\ log' = log
    BY <1>2, HandleCases
  <2>2. PICK status, outcome :
          /\ outcome # Ok
          /\ answer' = [answer EXCEPT ![a] =
                          [status |-> status, outcome |-> outcome, ref |-> NoRef]]
    BY <1>2, HandleCases
  <2>3. ~Yes(a)
    BY <2>1 DEF Inv, Handled, Yes, NoAnswer, Ok
  <2>4. ~Yes(a)' /\ \A b \in Attempts : b # a => answer'[b] = answer[b]
    BY <2>2 DEF Inv, Types, Yes
  <2>5. QED
    BY <2>1, <2>3, <2>4 DEF Yes
<1>3. QED
  BY <1>1, <1>2

\* A claim an attempt was told about stays where it is.
LEMMA ToldStays ==
  ASSUME Inv, Truthful, NEW a \in Attempts, NEW k \in Readings, Admits(a, k), pc[a] = "sent",
         NEW b \in Attempts, Yes(b)
  PROVE  LET cmd  == Submission[b[1]].cmd
             name == Submission[a[1]].cmd.stream
             ref  == answer[b].ref
         IN  /\ ref # [stream |-> name, sequence |-> Len(log[name]) + 1]
             /\ HasFact(cmd.stream, log'[cmd.stream], ref)
             /\ log'[cmd.stream][ref.sequence].ref = ref
             /\ log'[cmd.stream][ref.sequence].payload = AcceptHoldingClaimDraft(cmd, 1).payload
<1> DEFINE cmd  == Submission[b[1]].cmd
           s    == cmd.stream
           name == Submission[a[1]].cmd.stream
           ref  == answer[b].ref
           n    == Len(log[name])
           new  == [stream |-> name, sequence |-> n + 1]
<1>1. /\ HasFact(s, log[s], ref) /\ log[s][ref.sequence].ref = ref
      /\ log[s][ref.sequence].payload = AcceptHoldingClaimDraft(cmd, 1).payload
  BY DEF Truthful
<1>2. s \in Streams
  BY CommandOf
<1>3. /\ name \in Streams /\ n \in Nat
      /\ \A t \in Streams : t # name => log'[t] = log[t]
      /\ Len(log'[name]) = n + 1
      /\ \A i \in 1..n : log'[name][i] = log[name][i]
  BY AdmitStep
<1> HIDE DEF cmd, name, ref
<1>4. ref.stream = s /\ ref.sequence \in 1..Len(log[s])
  BY <1>1 DEF HasFact
<1>5. new.stream = name /\ new.sequence = n + 1
  OBVIOUS
<1>6. CASE s # name
  <2>1. log'[s] = log[s] /\ ref # new
    BY <1>2, <1>3, <1>4, <1>5, <1>6
  <2>2. QED
    BY <1>1, <2>1 DEF cmd, name, ref
<1>7. CASE s = name
  <2>1. ref.sequence \in 1..n
    BY <1>4, <1>7
  <2>2. ref # new
    BY <1>3, <1>5, <2>1
  <2>3. ref.sequence \in 1..Len(log'[s]) /\ log'[s][ref.sequence] = log[s][ref.sequence]
    BY <1>3, <1>7, <2>1
  <2>4. HasFact(s, log'[s], ref)
    BY <1>4, <2>3 DEF HasFact
  <2>5. QED
    BY <1>1, <2>2, <2>3, <2>4 DEF cmd, name, ref
<1>8. QED
  BY <1>6, <1>7

\* Whatever the step, an attempt that was told keeps its answer.
LEMMA StepTruthful == Inv /\ Truthful /\ [Next]_vars => Truthful'
<1> SUFFICES ASSUME Inv, Truthful, [Next]_vars PROVE Truthful'
  OBVIOUS
<1> DEFINE Told(b, l, ans) ==
             LET cmd == Submission[b[1]].cmd
                 ref == ans[b].ref
             IN  /\ HasFact(cmd.stream, l[cmd.stream], ref)
                 /\ l[cmd.stream][ref.sequence].ref = ref
                 /\ l[cmd.stream][ref.sequence].payload = AcceptHoldingClaimDraft(cmd, 1).payload
<1>0. /\ \A b \in Attempts : Yes(b) => Told(b, log, answer)
      /\ \A b, c \in Attempts : Yes(b) /\ Yes(c) /\ answer[b].ref = answer[c].ref => b = c
      /\ \A s \in Streams : \A i \in DOMAIN log[s] :
           \E b \in Attempts : Yes(b) /\ answer[b].ref = log[s][i].ref
  BY DEF Truthful
<1>1. CASE ~\E a \in Attempts, k \in Readings : pc[a] = "sent" /\ Admits(a, k)
  <2>1. /\ log' = log
        /\ \A b \in Attempts : Yes(b)' <=> Yes(b)
        /\ \A b \in Attempts : Yes(b) => answer'[b] = answer[b]
    BY <1>1, NothingAdmitted
  <2>2. \A b \in Attempts : Yes(b)' => Told(b, log', answer')
    BY <1>0, <2>1
  <2>3. \A b, c \in Attempts : Yes(b)' /\ Yes(c)' /\ answer'[b].ref = answer'[c].ref => b = c
    BY <1>0, <2>1
  <2>4. ASSUME NEW s \in Streams, NEW i \in DOMAIN log'[s]
        PROVE  \E b \in Attempts : Yes(b)' /\ answer'[b].ref = log'[s][i].ref
    <3> HIDE DEF Told
    <3>1. PICK b \in Attempts : Yes(b) /\ answer[b].ref = log[s][i].ref
      BY <1>0, <2>1
    <3>2. QED
      BY <2>1, <3>1
  <2>5. QED
    BY <2>2, <2>3, <2>4 DEF Truthful
<1>2. ASSUME NEW a \in Attempts, NEW k \in Readings, pc[a] = "sent", Admits(a, k)
      PROVE  Truthful'
  <2> DEFINE name == Submission[a[1]].cmd.stream
             n    == Len(log[name])
             new  == [stream |-> name, sequence |-> n + 1]
  <2>1. /\ name \in Streams /\ n \in Nat
        /\ \A s \in Streams : s # name => log'[s] = log[s]
        /\ log[name] \in Seq(Fact) /\ log'[name] \in Seq(Fact) /\ Len(log'[name]) = n + 1
        /\ \A i \in 1..n : log'[name][i] = log[name][i]
        /\ log'[name][n + 1].ref = new
        /\ log'[name][n + 1].payload = AcceptHoldingClaimDraft(Submission[a[1]].cmd, 1).payload
        /\ Yes(a)' /\ answer'[a].ref = new
    <3>1. name \in Streams /\ n \in Nat /\ \A s \in Streams : s # name => log'[s] = log[s]
      BY <1>2, AdmitStep
    <3>2. /\ log[name] \in Seq(Fact) /\ log'[name] \in Seq(Fact) /\ Len(log'[name]) = n + 1
          /\ \A i \in 1..n : log'[name][i] = log[name][i]
      BY <1>2, AdmitStep
    <3>3. /\ log'[name][n + 1].ref = new
          /\ log'[name][n + 1].payload = AcceptHoldingClaimDraft(Submission[a[1]].cmd, 1).payload
      BY <1>2, AdmitStep
    <3>4. Yes(a)' /\ answer'[a].ref = new
      BY <1>2, AdmitStep
    <3>5. QED
      BY <3>1, <3>2, <3>3, <3>4
  <2>2. \A b \in Attempts : b # a => answer'[b] = answer[b] /\ (Yes(b)' <=> Yes(b))
    <3>1. \A b \in Attempts : b # a => answer'[b] = answer[b]
      BY <1>2, AdmitStep
    <3>2. QED
      BY <3>1 DEF Yes
  <2>3. \A b \in Attempts : Yes(b) => answer[b].ref # new /\ Told(b, log', answer)
    BY <1>2, ToldStays
  <2>4. Told(a, log', answer')
    <3>1. new.stream = name /\ new.sequence = n + 1
      OBVIOUS
    <3>2. n + 1 \in 1..Len(log'[name])
      <4>1. n \in Nat /\ Len(log'[name]) = n + 1
        BY <2>1
      <4> HIDE DEF n, name
      <4>2. QED
        BY <4>1
    <3> HIDE DEF new, n
    <3>3. HasFact(name, log'[name], new)
      BY <3>1, <3>2 DEF HasFact
    <3>4. log'[name][new.sequence].ref = new
      BY <2>1, <3>1
    <3>5. log'[name][new.sequence].payload
            = AcceptHoldingClaimDraft(Submission[a[1]].cmd, 1).payload
      BY <2>1, <3>1
    <3>6. QED
      BY <2>1, <3>3, <3>4, <3>5
  <2> HIDE DEF new
  <2>5. ASSUME NEW b \in Attempts, Yes(b)' PROVE Told(b, log', answer')
    <3>1. CASE b = a
      BY <2>4, <3>1
    <3>2. CASE b # a
      BY <2>2, <2>3, <2>5, <3>2
    <3>3. QED
      BY <3>1, <3>2
  <2>6. ASSUME NEW b \in Attempts, NEW c \in Attempts, Yes(b)', Yes(c)',
               answer'[b].ref = answer'[c].ref
        PROVE  b = c
    <3>1. \A d \in Attempts : Yes(d) => answer[d].ref # new
      BY <2>3
    <3> HIDE DEF Told
    <3>2. CASE b = a \/ c = a
      BY <2>1, <2>2, <2>6, <3>1, <3>2
    <3>3. CASE b # a /\ c # a
      BY <1>0, <2>2, <2>6, <3>3
    <3>4. QED
      BY <3>2, <3>3
  <2>7. ASSUME NEW s \in Streams, NEW i \in DOMAIN log'[s]
        PROVE  \E b \in Attempts : Yes(b)' /\ answer'[b].ref = log'[s][i].ref
    <3>1. CASE s = name /\ i = n + 1
      BY <2>1, <3>1
    <3>2. CASE ~(s = name /\ i = n + 1)
      <4>1. i \in DOMAIN log[s] /\ log'[s][i] = log[s][i]
        <5>1. CASE s # name
          BY <2>1, <5>1
        <5>2. CASE s = name
          <6> HIDE DEF name
          <6>1. DOMAIN log'[name] = 1..(n + 1) /\ DOMAIN log[name] = 1..n
            BY <2>1
          <6> HIDE DEF n
          <6>2. QED
            BY <2>1, <3>2, <5>2, <6>1
        <5>3. QED
          BY <5>1, <5>2
      <4>2. PICK b \in Attempts : Yes(b) /\ answer[b].ref = log[s][i].ref
        BY <1>0, <4>1
      <4>3. b # a
        BY <1>2, <4>2, AdmitStep
      <4>4. QED
        BY <2>2, <4>1, <4>2, <4>3
    <3>3. QED
      BY <3>1, <3>2
  <2>8. QED
    BY <2>5, <2>6, <2>7 DEF Truthful
<1>3. QED
  BY <1>1, <1>2

\* Finitely many producers make finitely many attempts.
LEMMA FiniteAttempts ==
  ASSUME IsFiniteSet(Producers)
  PROVE  IsFiniteSet(Attempts)
<1> DEFINE Of(p) == {p} \X (1..MaxAttempts[p])
           All   == {Of(p) : p \in Producers}
           g     == [p \in Producers |-> Of(p)]
<1>1. ASSUME NEW p \in Producers PROVE IsFiniteSet(Of(p))
  <2>1. MaxAttempts[p] \in Int
    BY MaxAttemptsAssumption
  <2>2. IsFiniteSet(1..MaxAttempts[p]) /\ IsFiniteSet({p})
    <3>1. IsFiniteSet(1..MaxAttempts[p])
      BY <2>1, FS_Interval
    <3>2. QED
      BY <3>1, FS_Singleton
  <2>3. QED
    BY <2>2, FS_Product
<1> HIDE DEF Of
<1>2. g \in [Producers -> All] /\ \A T \in All : \E p \in Producers : g[p] = T
  OBVIOUS
<1>3. IsFiniteSet(All)
  BY <1>2, CountOfImage
<1>4. IsFiniteSet(UNION All)
  BY <1>1, <1>3, FS_UNION
<1>5. QED
  BY <1>4 DEF Attempts, Of

\* An answer is true and a recorded claim was answered: as many attempts were
\* told 201 as facts are recorded, one each.
THEOREM AnswersAreFacts ==
  ASSUME IsFiniteSet(Producers)
  PROVE  Spec => []AnswersAreTrue
<1>1. Init => Truthful
  BY DEF Init, Truthful, Yes, NoAnswer, Ok
<1>2. Inv /\ Truthful => AnswersAreTrue
  <2> SUFFICES ASSUME Inv, Truthful PROVE AnswersAreTrue
    OBVIOUS
  <2> DEFINE admitted == {a \in Attempts : answer[a].outcome = Ok}
             facts    == UNION {{log[s][i].ref : i \in DOMAIN log[s]} : s \in Streams}
             g        == [a \in admitted |-> answer[a].ref]
  <2>1. \A a \in Answered(201) : a \in Attempts /\ Yes(a)
    BY DEF Answered, Inv, Handled
  <2>2. \A a, b \in admitted : answer[a].ref = answer[b].ref => a = b
    BY DEF Truthful, Yes
  <2>3. IsFiniteSet(admitted)
    BY FiniteAttempts, FS_Subset
  <2>4. ASSUME NEW a \in admitted PROVE answer[a].ref \in facts
    <3> DEFINE s   == Submission[a[1]].cmd.stream
               ref == answer[a].ref
    <3>1. s \in Streams /\ Addressed(s, log[s])
      BY CommandOf DEF Inv, Types
    <3>2. HasFact(s, log[s], ref) /\ log[s][ref.sequence].ref = ref
      BY DEF Truthful, Yes
    <3> HIDE DEF s, ref
    <3>3. ref.sequence \in DOMAIN log[s]
      BY <3>1, <3>2 DEF HasFact, Addressed
    <3>4. QED
      BY <3>1, <3>2, <3>3 DEF ref
  <2>5. ASSUME NEW t \in facts PROVE \E a \in admitted : answer[a].ref = t
    <3>1. PICK s \in Streams : t \in {log[s][i].ref : i \in DOMAIN log[s]}
      OBVIOUS
    <3>2. PICK i \in DOMAIN log[s] : t = log[s][i].ref
      BY <3>1
    <3>3. PICK a \in Attempts : Yes(a) /\ answer[a].ref = log[s][i].ref
      BY DEF Truthful
    <3>4. QED
      BY <3>2, <3>3 DEF Yes
  <2> HIDE DEF admitted, facts
  <2>6. /\ g \in [admitted -> facts] /\ \A t \in facts : \E a \in admitted : g[a] = t
        /\ \A a, b \in admitted : g[a] = g[b] => a = b
    BY <2>2, <2>4, <2>5
  <2>7. Cardinality(facts) = Cardinality(admitted)
    BY <2>3, <2>6, CountOfImage
  <2>8. QED
    BY <2>1, <2>2, <2>7 DEF AnswersAreTrue, Truthful, admitted, facts
<1>3. QED
  BY <1>1, <1>2, StepTruthful, AlwaysInv, PTL DEF Spec

-----------------------------------------------------------------------------
(* Why a claim is recorded twice *)

\* A producer sends again only after every attempt before failed or was given up.
Ordered ==
  \A a \in Attempts : pc[a] # "unsent" => \A m \in 1..(a[2] - 1) : Retries(<<a[1], m>>)

\* A reason to send again does not go away.
LEMMA RetriesStays ==
  ASSUME Inv, [Next]_vars, NEW a \in Attempts, Retries(a)
  PROVE  Retries(a)'
<1>1. CASE \A b \in Attempts : ~Handle(b)
  BY <1>1, QuietStep DEF Retries
<1>2. ASSUME NEW b \in Attempts, Handle(b) PROVE Retries(a)'
  <2>1. /\ pc[b] = "sent" /\ pc' = [pc EXCEPT ![b] = "responding"] /\ waiting' = waiting
        /\ \/ \E k \in Readings : Admits(b, k)
           \/ \E status, outcome :
                answer' = [answer EXCEPT ![b] =
                             [status |-> status, outcome |-> outcome, ref |-> NoRef]]
    BY <1>2, HandleCases
  <2>2. \E x : answer' = [answer EXCEPT ![b] = x]
    BY <2>1 DEF Admits
  <2>3. a # b => pc'[a] = pc[a] /\ answer'[a] = answer[a]
    BY <2>1, <2>2 DEF Inv, Types
  <2>4. QED
    BY <2>1, <2>3 DEF Retries
<1>3. QED
  BY <1>1, <1>2

\* An attempt leaves its producer only by being sent.
LEMMA OnlySent ==
  ASSUME Inv, [Next]_vars, NEW a \in Attempts, pc[a] = "unsent", pc'[a] # "unsent"
  PROVE  a[2] > 1 => Retries(<<a[1], a[2] - 1>>)
<1>1. CASE UNCHANGED vars \/ Signal \/ Shutdown
  BY <1>1 DEF vars, Signal, Shutdown
<1>2. CASE ShutdownTimeout \/ Crash
  BY <1>2 DEF ShutdownTimeout, Crash, Drop, InFlight
<1>3. ASSUME NEW b \in Attempts, GiveUp(b) \/ Write(b) \/ Handle(b) PROVE FALSE
  <2>1. CASE GiveUp(b)
    BY <2>1 DEF GiveUp
  <2>2. CASE Write(b)
    BY <2>2 DEF Write, Inv, Types
  <2>3. CASE Handle(b)
    BY <2>3, HandleCases DEF Inv, Types
  <2>4. QED
    BY <1>3, <2>1, <2>2, <2>3
<1>4. ASSUME NEW b \in Attempts, Send(b) PROVE a = b
  BY <1>4 DEF Send, Inv, Types
<1>5. QED
  BY <1>1, <1>2, <1>3, <1>4 DEF Next, Send

\* The attempts before an attempt.
LEMMA Earlier ==
  ASSUME NEW a \in Attempts, NEW m \in 1..(a[2] - 1)
  PROVE  <<a[1], m>> \in Attempts
<1>1. a[1] \in Producers /\ MaxAttempts[a[1]] \in Nat /\ a[2] \in 1..MaxAttempts[a[1]]
  BY AttemptOf
<1> DEFINE p == a[1]
           M == MaxAttempts[p]
<1> HIDE DEF p, M
<1>2. p \in Producers /\ M \in Nat /\ a[2] \in 1..M
  BY <1>1 DEF p, M
<1>3. m \in 1..M
  BY <1>2
<1>4. <<p, m>> \in {p} \X (1..M)
  BY <1>3
<1>5. QED
  BY <1>2, <1>4 DEF Attempts, p, M

LEMMA StepOrdered == Inv /\ Ordered /\ [Next]_vars => Ordered'
<1> SUFFICES ASSUME Inv, Ordered, [Next]_vars, NEW a \in Attempts, pc'[a] # "unsent",
                    NEW m \in 1..(a[2] - 1)
             PROVE  Retries(<<a[1], m>>)'
  BY DEF Ordered
<1>1. a[2] \in Nat /\ <<a[1], m>> \in Attempts
  BY AttemptOf, Earlier
<1>2. Retries(<<a[1], m>>)
  <2>1. CASE pc[a] # "unsent"
    BY <2>1 DEF Ordered
  <2>2. CASE pc[a] = "unsent"
    <3> DEFINE b == <<a[1], a[2] - 1>>
    <3>1. b \in Attempts /\ Retries(b)
      <4>1. a[2] > 1 /\ a[2] - 1 \in 1..(a[2] - 1)
        BY <1>1
      <4>2. QED
        BY <2>2, <4>1, OnlySent, Earlier
    <3>2. b[1] = a[1] /\ b[2] = a[2] - 1
      OBVIOUS
    <3>3. CASE m = a[2] - 1
      BY <3>1, <3>3
    <3>4. CASE m # a[2] - 1
      <4> HIDE DEF b
      <4>1. pc[b] # "unsent"
        BY <3>1 DEF Retries, Inv, Handled
      <4>2. m \in 1..(b[2] - 1)
        BY <1>1, <3>2, <3>4
      <4>3. QED
        BY <3>1, <3>2, <4>1, <4>2 DEF Ordered
    <3>5. QED
      BY <3>3, <3>4
  <2>3. QED
    BY <2>1, <2>2
<1>3. QED
  BY <1>1, <1>2, RetriesStays

\* Of the attempts of a producer that were admitted, at most one is still waited
\* for or was read.
LEMMA OneIsRead ==
  ASSUME Inv, Ordered, NEW a \in Attempts, NEW b \in Attempts, a[1] = b[1],
         Yes(a), Yes(b), waiting[a], waiting[b]
  PROVE  a = b
<1>1. ASSUME NEW c \in Attempts, NEW d \in Attempts, c[1] = d[1], Yes(c), Yes(d), waiting[c],
             c[2] < d[2]
      PROVE  FALSE
  <2>1. pc[d] # "unsent"
    BY <1>1 DEF Inv, Handled, Yes, NoAnswer, Ok
  <2>2. c[2] \in 1..(d[2] - 1) /\ c = <<d[1], c[2]>>
    <3>1. /\ c[2] \in 1..MaxAttempts[c[1]] /\ d[2] \in 1..MaxAttempts[d[1]]
          /\ c = <<c[1], c[2]>>
      BY AttemptOf
    <3>2. MaxAttempts[c[1]] \in Nat /\ MaxAttempts[d[1]] \in Nat
      BY AttemptOf
    <3>3. c = <<d[1], c[2]>>
      BY <1>1, <3>1
    <3>4. c[2] \in Nat /\ d[2] \in Nat /\ 1 <= c[2]
      BY <3>1, <3>2
    <3>5. QED
      BY <1>1, <3>3, <3>4
  <2>3. Retries(c)
    BY <2>1, <2>2 DEF Ordered
  <2>4. answer[c].status = 201
    BY <1>1 DEF Inv, Handled
  <2>5. QED
    BY <1>1, <2>3, <2>4 DEF Retries
<1>2. a[2] \in Nat /\ b[2] \in Nat /\ a = <<a[1], a[2]>> /\ b = <<b[1], b[2]>>
  BY AttemptOf
<1>3. ~(a[2] < b[2]) /\ ~(b[2] < a[2])
  BY <1>1
<1>4. a[2] = b[2]
  BY <1>2, <1>3
<1>5. QED
  BY <1>2, <1>4

\* A claim recorded more than once was recorded once more for each answer the
\* producer gave up or lost, and for nothing else: a producer that reads its
\* answers records one fact.
THEOREM DuplicatesHaveACause == Spec => []DuplicatesAreMissedAnswers
<1>1. Init => Ordered
  BY DEF Init, Ordered
<1>2. Inv /\ Ordered => DuplicatesAreMissedAnswers
  <2> SUFFICES ASSUME Inv, Ordered, NEW p \in Producers
               PROVE  LET admitted == {a \in Attempts : a[1] = p /\ answer[a].outcome = Ok}
                          missed   == {a \in admitted : ~waiting[a]}
                      IN  Cardinality(admitted) <= 1 + Cardinality(missed)
    BY DEF DuplicatesAreMissedAnswers
  <2> DEFINE admitted == {a \in Attempts : a[1] = p /\ answer[a].outcome = Ok}
             missed   == {a \in admitted : ~waiting[a]}
             kept     == admitted \ missed
  <2>1. IsFiniteSet(admitted)
    <3>1. MaxAttempts[p] \in Int
      BY MaxAttemptsAssumption
    <3>2. IsFiniteSet(1..MaxAttempts[p])
      BY <3>1, FS_Interval
    <3>3. IsFiniteSet({p} \X (1..MaxAttempts[p]))
      BY <3>2, FS_Singleton, FS_Product
    <3>4. \A a \in admitted : a = <<p, a[2]>> /\ a[2] \in 1..MaxAttempts[p]
      BY AttemptOf
    <3>5. admitted \subseteq {p} \X (1..MaxAttempts[p])
      <4> HIDE DEF admitted
      <4>1. QED
        BY <3>4
    <3>6. QED
      BY <3>3, <3>5, FS_Subset
  <2>2. missed \subseteq admitted
    OBVIOUS
  <2>3. \A a, b \in kept : a = b
    BY OneIsRead DEF Yes
  <2> HIDE DEF admitted, missed
  <2>4. /\ IsFiniteSet(missed) /\ IsFiniteSet(kept)
        /\ Cardinality(missed) \in Nat /\ Cardinality(admitted) \in Nat
    BY <2>1, <2>2, FS_Subset, FS_Difference, FS_CardinalityType
  <2>5. Cardinality(kept) = Cardinality(admitted) - Cardinality(admitted \cap missed)
    BY <2>1, FS_Difference
  <2>6. admitted \cap missed = missed
    BY <2>2
  <2> HIDE DEF kept
  <2>7. Cardinality(kept) \in {0, 1}
    <3>1. CASE kept = {}
      BY <3>1, FS_EmptySet
    <3>2. ASSUME NEW a \in kept PROVE Cardinality(kept) = 1
      <4>1. kept = {a}
        BY <2>3
      <4>2. QED
        BY <4>1, FS_Singleton
    <3>3. QED
      BY <3>1, <3>2
  <2>8. Cardinality(admitted) <= 1 + Cardinality(missed)
    <3> DEFINE A == Cardinality(admitted)
               M == Cardinality(missed)
               K == Cardinality(kept)
    <3>1. K = A - M
      BY <2>5, <2>6
    <3>2. A \in Nat /\ M \in Nat /\ K \in {0, 1}
      BY <2>4, <2>7
    <3> HIDE DEF A, M, K
    <3>3. A <= 1 + M
      BY <3>1, <3>2
    <3>4. QED
      BY <3>3 DEF A, M
  <2>9. QED
    BY <2>8 DEF admitted, missed
<1>3. QED
  BY <1>1, <1>2, StepOrdered, AlwaysInv, PTL DEF Spec

=============================================================================

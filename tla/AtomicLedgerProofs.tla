------------------------- MODULE AtomicLedgerProofs -------------------------
(***************************************************************************)
(* The properties of AtomicLedger, for every set of streams, claims,       *)
(* commands and clock readings.                                            *)
(*                                                                         *)
(* The argument: every step appends one well-formed fact, later than all   *)
(* before it, to one stream (NextAppends).  LedgerInv records what that    *)
(* makes of a stream.  What a mint, a correction and a derived observation *)
(* say about the facts they were built from is recorded in invariants of   *)
(* their own, each inductive relative to LedgerInv.                        *)
(***************************************************************************)
EXTENDS AtomicLedger, UseCasesProofs

LedgerInv ==
  /\ TypeOK
  /\ \A s \in Streams : Addressed(s, log[s])
  /\ KnowledgeMonotonic

\* The step that appends f to stream s.
Appends(s, f) ==
  /\ f.ref = NextRef(s, log[s])
  /\ LastKnowledge(log[s]) < f.knowledge
  /\ log' = [log EXCEPT ![s] = Append(log[s], f)]

-----------------------------------------------------------------------------
(* Every step appends *)

\* An accepted use case appends the fact its draft describes.
LEMMA RecordAppends ==
  ASSUME LedgerInv, NEW cmd \in Commands, NEW k \in Readings, Record(cmd, k)
  PROVE  LET f == NewFact(cmd.stream, log[cmd.stream], Draft(cmd, log[cmd.stream], k)) IN
         /\ cmd \in Command
         /\ cmd.stream \in Streams
         /\ f \in Fact
         /\ Appends(cmd.stream, f)
<1> DEFINE stream == log[cmd.stream]
           d == Draft(cmd, stream, k)
           f == NewFact(cmd.stream, stream, d)
<1>1. cmd \in Command /\ cmd.stream \in Streams
  BY CommandsAssumption, CommandOfOp
<1>2. Addressed(cmd.stream, stream)
  BY <1>1 DEF LedgerInv
<1>3. k \in Instant
  BY ReadingsAssumption
<1>4. Admission(cmd) = Ok /\ ReadOutcome(cmd, stream) = Ok /\ DraftOutcome(cmd, stream, k) = Ok
  BY DEF Record
<1>5. f \in Fact
  BY <1>1, <1>2, <1>3, <1>4, DraftBecomesFact
<1>6. log' = [log EXCEPT ![cmd.stream] = Append(stream, f)]
  BY DEF Record
<1>7. f.knowledge = k /\ f.ref = NextRef(cmd.stream, stream)
  <2>1. d.knowledge = k
    BY <1>1, DraftKnowledge
  <2> HIDE DEF d
  <2>2. QED
    BY <2>1 DEF NewFact
<1>8. ~(k <= LastKnowledge(stream))
  BY DEF Record, AppendOutcome, Ok
<1>9. LastKnowledge(stream) \in Nat
  BY <1>2, FactFields DEF Addressed, LastKnowledge, Unset
<1>10. LastKnowledge(stream) < f.knowledge
  BY <1>3, <1>7, <1>8, <1>9 DEF Instant, Unset
<1>11. QED
  BY <1>1, <1>5, <1>6, <1>7, <1>10 DEF Appends

\* A step of the ledger is one accepted use case.
LEMMA NextRecords ==
  ASSUME Next
  PROVE  \E cmd \in Commands, k \in Readings : Record(cmd, k)
BY DEF Next, ObserveHolding, CorrectFact, AcceptHoldingClaim, MintIdentity,
       ObserveClaimedHolding

LEMMA NextAppends ==
  ASSUME LedgerInv, Next
  PROVE  \E s \in Streams, f \in Fact : Appends(s, f)
<1>1. PICK cmd \in Commands, k \in Readings : Record(cmd, k)
  BY NextRecords
<1>2. QED
  BY <1>1, RecordAppends

-----------------------------------------------------------------------------
(* What appending does to the streams *)

LEMMA AppendedStreams ==
  ASSUME LedgerInv, NEW s \in Streams, NEW f \in Fact, Appends(s, f)
  PROVE  /\ TypeOK'
         /\ \A t \in Streams : t # s => log'[t] = log[t]
         /\ log'[s] = Append(log[s], f)
         /\ Len(log'[s]) = Len(log[s]) + 1
         /\ \A i \in 1..Len(log[s]) : log'[s][i] = log[s][i]
         /\ log'[s][Len(log[s]) + 1] = f
         /\ \A t \in Streams : DOMAIN log[t] = 1..Len(log[t]) /\ DOMAIN log'[t] = 1..Len(log'[t])
<1>1. log \in [Streams -> Seq(Fact)] /\ log[s] \in Seq(Fact)
  BY DEF LedgerInv, TypeOK
<1>2. log' = [log EXCEPT ![s] = Append(log[s], f)]
  BY DEF Appends
<1>3. TypeOK'
  BY <1>1, <1>2 DEF TypeOK
<1>4. log'[s] = Append(log[s], f) /\ \A t \in Streams : t # s => log'[t] = log[t]
  BY <1>1, <1>2
<1>5. \A t \in Streams : DOMAIN log[t] = 1..Len(log[t]) /\ DOMAIN log'[t] = 1..Len(log'[t])
  BY <1>1, <1>3 DEF TypeOK
<1>6. QED
  BY <1>1, <1>3, <1>4, <1>5

\* Knowledge times bound: every fact is known no later than the last one.
LEMMA KnownBeforeLast ==
  ASSUME LedgerInv, NEW s \in Streams, NEW i \in 1..Len(log[s])
  PROVE  /\ log[s][i] \in Fact
         /\ log[s][i].knowledge \in Nat
         /\ LastKnowledge(log[s]) \in Nat
         /\ log[s][i].knowledge <= LastKnowledge(log[s])
<1>1. log[s] \in Seq(Fact) /\ DOMAIN log[s] = 1..Len(log[s]) /\ Len(log[s]) \in 1..Len(log[s])
  BY DEF LedgerInv, TypeOK
<1>2. log[s] # <<>> /\ LastKnowledge(log[s]) = log[s][Len(log[s])].knowledge
  BY <1>1 DEF LastKnowledge
<1>3. log[s][i] \in Fact /\ log[s][Len(log[s])] \in Fact
  BY <1>1
<1>4. log[s][i].knowledge \in Nat /\ log[s][Len(log[s])].knowledge \in Nat
  BY <1>3, FactFields
<1>5. CASE i = Len(log[s])
  BY <1>2, <1>3, <1>4, <1>5
<1>6. CASE i < Len(log[s])
  <2>1. log[s][i].knowledge < log[s][Len(log[s])].knowledge
    BY <1>1, <1>6 DEF LedgerInv, KnowledgeMonotonic
  <2>2. QED
    BY <1>2, <1>3, <1>4, <2>1
<1>7. QED
  BY <1>1, <1>5, <1>6

\* A fact that is not visible at a coordinate changes nothing there.
LEMMA UnseenAppend ==
  ASSUME LedgerInv, NEW s \in Streams, NEW f \in Fact, Appends(s, f),
         NEW a, ~Visible(f, a)
  PROVE  VisibleAt(log'[s], a) = VisibleAt(log[s], a)
<1> DEFINE n == Len(log[s])
<1>1. n \in Nat
  BY DEF LedgerInv, TypeOK
<1>2. /\ DOMAIN log[s] = 1..n /\ DOMAIN log'[s] = 1..(n + 1)
      /\ \A i \in 1..n : log'[s][i] = log[s][i]
      /\ log'[s][n + 1] = f
  BY AppendedStreams
<1> HIDE DEF n
<1>3. {i \in DOMAIN log'[s] : Visible(log'[s][i], a)} = {i \in DOMAIN log[s] : Visible(log[s][i], a)}
  BY <1>1, <1>2
<1>4. QED
  BY <1>1, <1>2, <1>3 DEF VisibleAt

LEMMA InitLedgerInv == Init => LedgerInv
<1> SUFFICES ASSUME Init PROVE LedgerInv
  OBVIOUS
<1>1. \A s \in Streams : log[s] = <<>>
  BY DEF Init
<1>2. TypeOK
  BY DEF Init, TypeOK
<1>3. \A s \in Streams : Addressed(s, log[s])
  <2>1. <<>> \in Seq(Fact) /\ 1..Len(<<>>) = {}
    OBVIOUS
  <2>2. QED
    BY <1>1, <2>1 DEF Addressed
<1>4. KnowledgeMonotonic
  BY <1>1 DEF KnowledgeMonotonic
<1>5. QED
  BY <1>2, <1>3, <1>4 DEF LedgerInv

LEMMA AppendsLedgerInv ==
  ASSUME LedgerInv, NEW s \in Streams, NEW f \in Fact, Appends(s, f)
  PROVE  LedgerInv'
<1> DEFINE n == Len(log[s])
<1>1. n \in Nat /\ n + 1 = Len(log'[s])
  BY AppendedStreams DEF LedgerInv, TypeOK
<1>2. TypeOK'
  BY AppendedStreams
<1>3. \A t \in Streams : Addressed(t, log'[t])
  <2> SUFFICES ASSUME NEW t \in Streams PROVE Addressed(t, log'[t])
    OBVIOUS
  <2>1. CASE t # s
    BY <2>1, AppendedStreams DEF LedgerInv
  <2>2. CASE t = s
    <3>1. Addressed(s, log[s]) /\ log'[s] = Append(log[s], f)
      BY AppendedStreams DEF LedgerInv
    <3>2. QED
      BY <2>2, <3>1, AppendAddressed DEF Appends
  <2>3. QED
    BY <2>1, <2>2
<1>4. KnowledgeMonotonic'
  <2> SUFFICES ASSUME NEW t \in Streams, NEW i \in DOMAIN log'[t], NEW j \in DOMAIN log'[t],
                      i < j
               PROVE  log'[t][i].knowledge < log'[t][j].knowledge
    BY DEF KnowledgeMonotonic
  <2>1. CASE t # s
    <3>1. log'[t] = log[t]
      BY <2>1, AppendedStreams
    <3>2. QED
      BY <3>1 DEF LedgerInv, KnowledgeMonotonic
  <2>2. CASE t = s
    <3>1. i \in 1..n /\ j \in 1..(n + 1)
      <4>1. DOMAIN log'[s] = 1..Len(log'[s])
        BY AppendedStreams
      <4>2. i \in 1..(n + 1) /\ j \in 1..(n + 1)
        BY <1>1, <2>2, <4>1
      <4> HIDE DEF n
      <4>3. QED
        BY <1>1, <4>2
    <3>2. log'[s][i] = log[s][i]
      BY <3>1, AppendedStreams
    <3>3. CASE j = n + 1
      <4>1. log'[s][j] = f /\ LastKnowledge(log[s]) < f.knowledge
        <5>1. log'[s][n + 1] = f
          BY AppendedStreams
        <5>2. QED
          BY <3>3, <5>1 DEF Appends
      <4>2. log[s][i].knowledge <= LastKnowledge(log[s])
        BY <3>1, KnownBeforeLast
      <4>3. log[s][i].knowledge \in Nat /\ LastKnowledge(log[s]) \in Nat /\ f.knowledge \in Nat
        BY <3>1, KnownBeforeLast, FactFields
      <4>4. QED
        BY <2>2, <3>2, <4>1, <4>2, <4>3
    <3>4. CASE j # n + 1
      <4>1. j \in 1..n /\ log'[s][j] = log[s][j]
        BY <1>1, <3>1, <3>4, AppendedStreams
      <4>2. i \in DOMAIN log[s] /\ j \in DOMAIN log[s]
        BY <3>1, <4>1, AppendedStreams
      <4>3. QED
        BY <2>2, <3>2, <4>1, <4>2 DEF LedgerInv, KnowledgeMonotonic
    <3>5. QED
      BY <3>3, <3>4
  <2>3. QED
    BY <2>1, <2>2
<1>5. QED
  BY <1>2, <1>3, <1>4 DEF LedgerInv

LEMMA StepLedgerInv == LedgerInv /\ [Next]_log => LedgerInv'
<1> SUFFICES ASSUME LedgerInv, [Next]_log PROVE LedgerInv'
  OBVIOUS
<1>1. CASE Next
  BY <1>1, NextAppends, AppendsLedgerInv
<1>2. CASE UNCHANGED log
  BY <1>2 DEF LedgerInv, TypeOK, KnowledgeMonotonic
<1>3. QED
  BY <1>1, <1>2

LEMMA AlwaysLedgerInv == Spec => []LedgerInv
BY InitLedgerInv, StepLedgerInv, PTL DEF Spec

-----------------------------------------------------------------------------
(* Types, order, stability *)

\* Every fact of every stream is well formed, whatever the callers send and the
\* clock shows: no use case lets an incomplete envelope or payload through.
THEOREM TypeCorrect == Spec => []TypeOK
<1>1. LedgerInv => TypeOK
  BY DEF LedgerInv
<1>2. QED
  BY <1>1, AlwaysLedgerInv, PTL

\* Facts of a stream are strictly ordered on the knowledge axis, for any clock.
THEOREM KnowledgeOrder == Spec => []KnowledgeMonotonic
<1>1. LedgerInv => KnowledgeMonotonic
  BY DEF LedgerInv
<1>2. QED
  BY <1>1, AlwaysLedgerInv, PTL

\* A reference handed out by Append names the same fact for ever.
THEOREM StableReferences == Spec => RefsAreStable
<1> DEFINE Stable == \A s \in Streams : \A i \in DOMAIN log[s] :
                       /\ i \in DOMAIN log'[s]
                       /\ log'[s][i] = log[s][i]
                       /\ log'[s][i].ref = [stream |-> s, sequence |-> i]
<1>1. ASSUME LedgerInv, Next PROVE Stable
  <2>1. PICK s \in Streams, f \in Fact : Appends(s, f)
    BY <1>1, NextAppends
  <2>2. ASSUME NEW t \in Streams, NEW i \in DOMAIN log[t]
        PROVE  /\ i \in DOMAIN log'[t]
               /\ log'[t][i] = log[t][i]
               /\ log'[t][i].ref = [stream |-> t, sequence |-> i]
    <3>1. i \in 1..Len(log[t]) /\ log[t] \in Seq(Fact)
      BY <1>1 DEF LedgerInv, TypeOK
    <3>2. log[t][i].ref = [stream |-> t, sequence |-> i]
      BY <1>1, <3>1 DEF LedgerInv, Addressed
    <3>3. CASE t # s
      BY <1>1, <2>1, <3>2, <3>3, AppendedStreams
    <3>4. CASE t = s
      <4>1. log'[s][i] = log[s][i]
        BY <1>1, <2>1, <3>1, <3>4, AppendedStreams
      <4>2. i \in 1..Len(log'[s]) /\ DOMAIN log'[s] = 1..Len(log'[s])
        BY <1>1, <2>1, <3>1, <3>4, AppendedStreams
      <4>3. QED
        BY <3>2, <3>4, <4>1, <4>2
    <3>5. QED
      BY <3>3, <3>4
  <2>3. QED
    BY <2>2
<1>2. LedgerInv /\ [Next]_log => [Stable]_log
  BY <1>1
<1>3. QED
  BY <1>2, AlwaysLedgerInv, PTL DEF Spec, RefsAreStable

\* What was visible at a coordinate already reached on the knowledge axis stays
\* exactly what is visible there, so every answer computed from it replays.
THEOREM NoLookAhead == Spec => PastIsFixed
<1> DEFINE Fixed == \A s \in Streams, a \in Queries :
                      a.knowledge <= LastKnowledge(log[s])
                        => VisibleAt(log'[s], a) = VisibleAt(log[s], a)
<1>1. ASSUME LedgerInv, Next PROVE Fixed
  <2>1. PICK s \in Streams, f \in Fact : Appends(s, f)
    BY <1>1, NextAppends
  <2>2. ASSUME NEW t \in Streams, NEW a \in Queries, a.knowledge <= LastKnowledge(log[t])
        PROVE  VisibleAt(log'[t], a) = VisibleAt(log[t], a)
    <3>1. CASE t # s
      BY <1>1, <2>1, <3>1, AppendedStreams
    <3>2. CASE t = s
      <4>1. a.knowledge \in Nat
        BY MomentsAssumption DEF Queries
      <4>2. LastKnowledge(log[s]) \in Nat
        BY <1>1, FactFields DEF LedgerInv, TypeOK, LastKnowledge, Unset
      <4>3. f.knowledge \in Nat /\ LastKnowledge(log[s]) < f.knowledge
        BY <2>1, FactFields DEF Appends
      <4>4. ~Visible(f, a)
        BY <2>2, <3>2, <4>1, <4>2, <4>3 DEF Visible
      <4>5. QED
        BY <1>1, <2>1, <3>2, <4>4, UnseenAppend
    <3>3. QED
      BY <3>1, <3>2
  <2>3. QED
    BY <2>2
<1>2. LedgerInv /\ [Next]_log => [Fixed]_log
  BY <1>1
<1>3. QED
  BY <1>2, AlwaysLedgerInv, PTL DEF Spec, PastIsFixed

-----------------------------------------------------------------------------
(* Minting *)

\* An observation derived from a claim is drafted from what DeriveHoldingObserved
\* returned on the stream that was loaded.
LEMMA DerivedDraft ==
  ASSUME NEW cmd \in Command, NEW stream, NEW k, cmd.op = "ObserveClaimedHolding"
  PROVE  LET c == stream[cmd.claim.sequence]
             o == DeriveHoldingObserved(stream, c, cmd.asOf)
             d == Draft(cmd, stream, k)
         IN  /\ d.payload = o.payload
             /\ d.inputs = o.inputs
             /\ d.confidence = o.confidence
             /\ d.effective = c.effective
             /\ d.asOf = cmd.asOf
             /\ d.payload.type = "HoldingObserved"
<1> DEFINE c == stream[cmd.claim.sequence]
           o == DeriveHoldingObserved(stream, c, cmd.asOf)
           d == Draft(cmd, stream, k)
<1>1. d = ObserveClaimedHoldingDraft(cmd, stream, k)
  BY DEF Draft
<1>2. o.payload.type = "HoldingObserved"
  BY DEF DeriveHoldingObserved
<1> HIDE DEF o, c
<1>3. d = [effective |-> c.effective, knowledge |-> k, confidence |-> o.confidence,
           inputs |-> o.inputs, asOf |-> cmd.asOf, kind |-> "observation",
           payload |-> o.payload]
  BY <1>1 DEF ObserveClaimedHoldingDraft, c, o
<1> HIDE DEF d
<1>4. QED
  BY <1>2, <1>3 DEF c, o, d

\* A fact of type EntityMinted was appended by MintIdentity, and nothing else:
\* the claim did not resolve at the mint's coordinate, and the identity is the
\* one the claim derives.
LEMMA MintRecorded ==
  ASSUME NEW cmd \in Command, NEW stream, NEW k, DraftOutcome(cmd, stream, k) = Ok,
         IsA(NewFact(cmd.stream, stream, Draft(cmd, stream, k)), "EntityMinted")
  PROVE  LET f == NewFact(cmd.stream, stream, Draft(cmd, stream, k)) IN
         /\ f.payload = MintFor(cmd.kind, cmd.claim)
         /\ f.effective = cmd.effective
         /\ f.knowledge = k
         /\ ~IsResolved(stream, cmd.claim, NewAsOf(cmd.effective.from, k))
<1> DEFINE d == Draft(cmd, stream, k)
           f == NewFact(cmd.stream, stream, d)
<1>1. /\ f.payload = d.payload /\ f.effective = d.effective /\ f.knowledge = d.knowledge
      /\ d.payload.type = "EntityMinted"
  BY DEF NewFact, IsA
<1>2. cmd.op = "MintIdentity"
  <2>1. CASE cmd.op = "ObserveHolding"
    BY <1>1, <2>1 DEF Draft, ObserveHoldingDraft
  <2>2. CASE cmd.op = "CorrectFact"
    BY <1>1, <2>2 DEF Draft, CorrectFactDraft
  <2>3. CASE cmd.op = "AcceptHoldingClaim"
    BY <1>1, <2>3 DEF Draft, AcceptHoldingClaimDraft
  <2>4. CASE cmd.op = "ObserveClaimedHolding"
    BY <1>1, <2>4, DerivedDraft
  <2>5. QED
    BY <2>1, <2>2, <2>3, <2>4, CommandOfOp
<1>3. d = MintIdentityDraft(cmd, k)
  BY <1>2 DEF Draft
<1>4. d.payload = MintFor(cmd.kind, cmd.claim) /\ d.effective = cmd.effective /\ d.knowledge = k
  BY <1>3 DEF MintIdentityDraft
<1>5. DraftOutcome(cmd, stream, k) = MintIdentityOutcome(cmd, stream, k)
  BY <1>2 DEF DraftOutcome
<1>6. ~MintIdentityResolves(cmd, stream, k)
  BY <1>5 DEF MintIdentityOutcome, Ok
<1>7. QED
  BY <1>1, <1>4, <1>6 DEF MintIdentityResolves

LEMMA StepMintFindsNoMint ==
  LedgerInv /\ MintFindsNoMint /\ [Next]_log => MintFindsNoMint'
<1> SUFFICES ASSUME LedgerInv, MintFindsNoMint, [Next]_log PROVE MintFindsNoMint'
  OBVIOUS
<1>1. CASE UNCHANGED log
  BY <1>1 DEF MintFindsNoMint
<1>2. CASE Next
  <2>1. PICK cmd \in Commands, k \in Readings : Record(cmd, k)
    BY <1>2, NextRecords
  <2> DEFINE s == cmd.stream
             f == NewFact(s, log[s], Draft(cmd, log[s], k))
             n == Len(log[s])
  <2>2. cmd \in Command /\ s \in Streams /\ f \in Fact /\ Appends(s, f)
    BY <2>1, RecordAppends
  <2>3. DraftOutcome(cmd, log[s], k) = Ok
    BY <2>1 DEF Record
  <2>4. n \in Nat /\ log[s] \in Seq(Fact)
    BY <2>2 DEF LedgerInv, TypeOK
  <2> SUFFICES ASSUME NEW t \in Streams, NEW i \in Mints(log'[t]), NEW j \in Mints(log'[t]),
                      i < j, Resolves(log'[t][i], log'[t][j].payload.bornFrom)
               PROVE  ~Contains(log'[t][i].effective, log'[t][j].effective.from)
    BY DEF MintFindsNoMint
  <2>5. CASE t # s
    <3>1. log'[t] = log[t]
      BY <2>2, <2>5, AppendedStreams
    <3>2. QED
      BY <3>1 DEF MintFindsNoMint
  <2>6. CASE t = s
    <3> HIDE DEF f, n
    <3>1. /\ Len(log'[s]) = n + 1 /\ DOMAIN log'[s] = 1..(n + 1) /\ DOMAIN log[s] = 1..n
          /\ \A m \in 1..n : log'[s][m] = log[s][m]
          /\ log'[s][n + 1] = f
      BY <2>2, AppendedStreams DEF n
    <3>2. i \in 1..(n + 1) /\ j \in 1..(n + 1)
      BY <2>6, <3>1 DEF Mints
    <3>3. i \in 1..n /\ log'[s][i] = log[s][i]
      BY <2>4, <3>1, <3>2
    <3>4. CASE j = n + 1
      <4>1. log'[s][j] = f /\ IsA(f, "EntityMinted")
        BY <2>6, <3>1, <3>4 DEF Mints
      <4>2. /\ f.payload = MintFor(cmd.kind, cmd.claim) /\ f.effective = cmd.effective
            /\ ~IsResolved(log[s], cmd.claim, NewAsOf(cmd.effective.from, k))
        BY <2>2, <2>3, <4>1, MintRecorded DEF f
      <4>3. f.payload.bornFrom = cmd.claim
        BY <4>2 DEF MintFor
      <4>4. Resolves(log[s][i], cmd.claim)
        BY <2>6, <3>3, <4>1, <4>3
      <4>5. ~Visible(log[s][i], NewAsOf(cmd.effective.from, k))
        BY <3>1, <3>3, <4>2, <4>4 DEF IsResolved, Answering, VisibleAt
      <4>6. log[s][i].knowledge <= k
        <5>1. /\ log[s][i].knowledge \in Nat /\ LastKnowledge(log[s]) \in Nat
              /\ log[s][i].knowledge <= LastKnowledge(log[s])
          BY <2>2, <3>3, KnownBeforeLast DEF n
        <5>2. f.knowledge = k /\ LastKnowledge(log[s]) < f.knowledge /\ f.knowledge \in Nat
          <6>1. f.knowledge = k
            BY <2>2, <2>3, <4>1, MintRecorded DEF f
          <6>2. QED
            BY <2>2, <6>1, FactFields DEF Appends
        <5>3. QED
          BY <5>1, <5>2
      <4>7. ~Contains(log[s][i].effective, cmd.effective.from)
        BY <4>5, <4>6 DEF Visible, NewAsOf
      <4>8. QED
        BY <2>6, <3>3, <4>1, <4>2, <4>7
    <3>5. CASE j # n + 1
      <4>1. j \in 1..n /\ log'[s][j] = log[s][j]
        BY <2>4, <3>1, <3>2, <3>5
      <4>2. i \in Mints(log[s]) /\ j \in Mints(log[s])
        BY <2>6, <3>1, <3>3, <4>1 DEF Mints
      <4>3. QED
        BY <2>2, <2>6, <3>3, <4>1, <4>2 DEF MintFindsNoMint
    <3>6. QED
      BY <3>4, <3>5
  <2>7. QED
    BY <2>5, <2>6
<1>3. QED
  BY <1>1, <1>2

\* No mint begins while an earlier mint for the same thing is in force: the race
\* AtLength exists to close stays closed whatever is minted.
THEOREM NoDuplicateMint == Spec => []MintFindsNoMint
<1>1. Init => MintFindsNoMint
  BY DEF Init, MintFindsNoMint, Mints
<1>2. QED
  BY <1>1, StepMintFindsNoMint, AlwaysLedgerInv, PTL DEF Spec

-----------------------------------------------------------------------------
(* Retractions *)

\* A fact of a stream is among those visible exactly when it is visible.
LEMMA VisibleInStream ==
  ASSUME NEW stream \in Seq(Fact), NEW i \in 1..Len(stream), NEW a
  PROVE  stream[i] \in VisibleAt(stream, a) <=> Visible(stream[i], a)
<1>1. DOMAIN stream = 1..Len(stream)
  OBVIOUS
<1>2. QED
  BY <1>1 DEF VisibleAt

\* A correction is about an earlier fact of its own stream, and in force exactly
\* as long as that fact is.
CorrectionsCover ==
  \A s \in Streams : \A j \in DOMAIN log[s] :
    IsA(log[s][j], "FactCorrected") =>
      \E i \in 1..(j - 1) :
        /\ log[s][j].payload.corrects = [stream |-> s, sequence |-> i]
        /\ log[s][j].effective = log[s][i].effective

\* A fact of type FactCorrected was appended by CorrectFact, over the interval of
\* the fact it corrects.
LEMMA CorrectionRecorded ==
  ASSUME NEW cmd \in Command, NEW stream, NEW k, ReadOutcome(cmd, stream) = Ok,
         IsA(NewFact(cmd.stream, stream, Draft(cmd, stream, k)), "FactCorrected")
  PROVE  LET f == NewFact(cmd.stream, stream, Draft(cmd, stream, k)) IN
         /\ HasFact(cmd.stream, stream, cmd.corrects)
         /\ f.payload.corrects = cmd.corrects
         /\ cmd.corrects \in Ref
         /\ f.effective = stream[cmd.corrects.sequence].effective
<1> DEFINE d == Draft(cmd, stream, k)
           f == NewFact(cmd.stream, stream, d)
<1>1. f.payload = d.payload /\ f.effective = d.effective /\ d.payload.type = "FactCorrected"
  BY DEF NewFact, IsA
<1>2. cmd.op = "CorrectFact"
  <2>1. CASE cmd.op = "ObserveHolding"
    BY <1>1, <2>1 DEF Draft, ObserveHoldingDraft
  <2>2. CASE cmd.op = "MintIdentity"
    BY <1>1, <2>2 DEF Draft, MintIdentityDraft, MintFor
  <2>3. CASE cmd.op = "AcceptHoldingClaim"
    BY <1>1, <2>3 DEF Draft, AcceptHoldingClaimDraft
  <2>4. CASE cmd.op = "ObserveClaimedHolding"
    BY <1>1, <2>4, DerivedDraft
  <2>5. QED
    BY <2>1, <2>2, <2>3, <2>4, CommandOfOp
<1>3. d = CorrectFactDraft(cmd, stream, k)
  BY <1>2 DEF Draft
<1>4. HasFact(cmd.stream, stream, cmd.corrects)
  BY <1>2 DEF ReadOutcome, CorrectFactRead, Ok
<1>5. cmd.corrects \in Ref
  BY <1>2, CommandOfOp DEF CorrectFactCommand
<1>6. QED
  BY <1>1, <1>3, <1>4, <1>5 DEF CorrectFactDraft

LEMMA StepCorrectionsCover ==
  LedgerInv /\ CorrectionsCover /\ [Next]_log => CorrectionsCover'
<1> SUFFICES ASSUME LedgerInv, CorrectionsCover, [Next]_log PROVE CorrectionsCover'
  OBVIOUS
<1>1. CASE UNCHANGED log
  BY <1>1 DEF CorrectionsCover
<1>2. CASE Next
  <2>1. PICK cmd \in Commands, k \in Readings : Record(cmd, k)
    BY <1>2, NextRecords
  <2> DEFINE s == cmd.stream
             f == NewFact(s, log[s], Draft(cmd, log[s], k))
             n == Len(log[s])
  <2>2. cmd \in Command /\ s \in Streams /\ f \in Fact /\ Appends(s, f)
    BY <2>1, RecordAppends
  <2>3. ReadOutcome(cmd, log[s]) = Ok
    BY <2>1 DEF Record
  <2>4. n \in Nat /\ log[s] \in Seq(Fact)
    BY <2>2 DEF LedgerInv, TypeOK
  <2> SUFFICES ASSUME NEW t \in Streams, NEW j \in DOMAIN log'[t],
                      IsA(log'[t][j], "FactCorrected")
               PROVE  \E i \in 1..(j - 1) :
                        /\ log'[t][j].payload.corrects = [stream |-> t, sequence |-> i]
                        /\ log'[t][j].effective = log'[t][i].effective
    BY DEF CorrectionsCover
  <2>5. CASE t # s
    <3>1. log'[t] = log[t]
      BY <2>2, <2>5, AppendedStreams
    <3>2. QED
      BY <3>1 DEF CorrectionsCover
  <2>6. CASE t = s
    <3> HIDE DEF f, n
    <3>1. /\ DOMAIN log'[s] = 1..(n + 1) /\ DOMAIN log[s] = 1..n
          /\ \A m \in 1..n : log'[s][m] = log[s][m]
          /\ log'[s][n + 1] = f
      BY <2>2, AppendedStreams DEF n
    <3>2. CASE j = n + 1
      <4>1. /\ HasFact(s, log[s], cmd.corrects)
            /\ f.payload.corrects = cmd.corrects
            /\ cmd.corrects \in Ref
            /\ f.effective = log[s][cmd.corrects.sequence].effective
        BY <2>2, <2>3, <2>6, <3>1, <3>2, CorrectionRecorded DEF f
      <4>2. /\ cmd.corrects.sequence \in 1..n
            /\ cmd.corrects = [stream |-> s, sequence |-> cmd.corrects.sequence]
        BY <4>1 DEF HasFact, Ref, n
      <4>3. cmd.corrects.sequence \in 1..(j - 1)
        BY <2>4, <3>2, <4>2
      <4>4. QED
        BY <2>6, <3>1, <3>2, <4>1, <4>2, <4>3
    <3>3. CASE j # n + 1
      <4>1. j \in 1..n /\ log'[s][j] = log[s][j]
        BY <2>4, <2>6, <3>1, <3>3
      <4>2. PICK i \in 1..(j - 1) :
              /\ log[s][j].payload.corrects = [stream |-> s, sequence |-> i]
              /\ log[s][j].effective = log[s][i].effective
        BY <2>2, <2>6, <3>1, <4>1 DEF CorrectionsCover
      <4>3. i \in 1..n
        BY <2>4, <4>1
      <4>4. QED
        BY <2>6, <3>1, <4>1, <4>2, <4>3
    <3>4. QED
      BY <3>2, <3>3
  <2>7. QED
    BY <2>5, <2>6
<1>3. QED
  BY <1>1, <1>2

LEMMA CoverRetracts ==
  ASSUME LedgerInv, CorrectionsCover
  PROVE  RetractionCoversItsFact
<1> SUFFICES ASSUME NEW s \in Streams, NEW a \in Queries, NEW i \in DOMAIN log[s],
                    IsA(log[s][i], "HoldingObserved")
             PROVE  LET f == log[s][i] IN
                    f \in Observations(log[s], f.payload.account, f.payload.instrument, a)
                      <=> /\ Visible(f, a)
                          /\ ~\E j \in DOMAIN log[s] :
                               /\ IsA(log[s][j], "FactCorrected")
                               /\ log[s][j].payload.kind = "retracted"
                               /\ log[s][j].payload.corrects = f.ref
                               /\ log[s][j].knowledge <= a.knowledge
  BY DEF RetractionCoversItsFact
<1> DEFINE f == log[s][i]
<1>1. log[s] \in Seq(Fact) /\ DOMAIN log[s] = 1..Len(log[s])
  BY DEF LedgerInv, TypeOK
<1>2. f.ref = [stream |-> s, sequence |-> i]
  BY <1>1 DEF LedgerInv, Addressed
<1>3. f \in Observations(log[s], f.payload.account, f.payload.instrument, a)
        <=> Visible(f, a) /\ f.ref \notin Retracted(log[s], a)
  BY <1>1, VisibleInStream DEF Observations
<1>4. f.ref \in Retracted(log[s], a)
        <=> \E g \in VisibleAt(log[s], a) :
              /\ IsA(g, "FactCorrected")
              /\ g.payload.kind = "retracted"
              /\ g.payload.corrects = f.ref
  BY DEF Retracted, Corrections
<1>5. ASSUME Visible(f, a), NEW j \in DOMAIN log[s],
             IsA(log[s][j], "FactCorrected"), log[s][j].payload.corrects = f.ref
      PROVE  log[s][j] \in VisibleAt(log[s], a) <=> log[s][j].knowledge <= a.knowledge
  <2>1. PICK m \in 1..(j - 1) :
          /\ log[s][j].payload.corrects = [stream |-> s, sequence |-> m]
          /\ log[s][j].effective = log[s][m].effective
    BY <1>5 DEF CorrectionsCover
  <2>2. m = i
    BY <1>2, <1>5, <2>1
  <2>3. Contains(log[s][j].effective, a.effective)
    BY <1>5, <2>1, <2>2 DEF Visible
  <2>4. Visible(log[s][j], a) <=> log[s][j].knowledge <= a.knowledge
    BY <2>3 DEF Visible
  <2>5. QED
    BY <1>1, <2>4, VisibleInStream
<1>6. \A g \in VisibleAt(log[s], a) : \E j \in DOMAIN log[s] : g = log[s][j]
  BY DEF VisibleAt
<1> HIDE DEF f
<1>7. ASSUME Visible(f, a)
      PROVE  f.ref \in Retracted(log[s], a)
               <=> \E j \in DOMAIN log[s] :
                     /\ IsA(log[s][j], "FactCorrected")
                     /\ log[s][j].payload.kind = "retracted"
                     /\ log[s][j].payload.corrects = f.ref
                     /\ log[s][j].knowledge <= a.knowledge
  BY <1>4, <1>5, <1>6, <1>7
<1>8. QED
  BY <1>3, <1>7 DEF f

\* A retraction removes its observation from every projection from the moment it
\* is known, over the whole interval of the observation, and from none before.
THEOREM RetractionsAreComplete == Spec => []RetractionCoversItsFact
<1>1. Init => CorrectionsCover
  BY DEF Init, CorrectionsCover
<1>2. Spec => []CorrectionsCover
  BY <1>1, StepCorrectionsCover, AlwaysLedgerInv, PTL DEF Spec
<1>3. LedgerInv /\ CorrectionsCover => RetractionCoversItsFact
  BY CoverRetracts
<1>4. QED
  BY <1>2, <1>3, AlwaysLedgerInv, PTL

-----------------------------------------------------------------------------
(* Derivations *)

\* A derived observation was appended by ObserveClaimedHolding: a claim of the
\* stream resolved at the coordinate it names, and the observation is what the
\* stream then yielded.
LEMMA DerivedRecorded ==
  ASSUME NEW cmd \in Command, NEW stream \in Seq(Fact), NEW k, ReadOutcome(cmd, stream) = Ok,
         Derived(NewFact(cmd.stream, stream, Draft(cmd, stream, k)))
  PROVE  LET f == NewFact(cmd.stream, stream, Draft(cmd, stream, k)) IN
         \E i \in 1..Len(stream) :
           /\ IsA(stream[i], "HoldingClaimed")
           /\ f.effective = stream[i].effective
           /\ CanDerive(stream, stream[i], f.asOf)
           /\ DeriveHoldingObserved(stream, stream[i], f.asOf)
                = [payload |-> f.payload, inputs |-> f.inputs, confidence |-> f.confidence]
<1> DEFINE d == Draft(cmd, stream, k)
           f == NewFact(cmd.stream, stream, d)
<1>1. /\ f.payload = d.payload /\ f.inputs = d.inputs /\ f.confidence = d.confidence
      /\ f.effective = d.effective /\ f.asOf = d.asOf
      /\ d.payload.type = "HoldingObserved" /\ d.inputs # {}
  BY DEF NewFact, Derived, IsA
<1>2. cmd.op = "ObserveClaimedHolding"
  <2>1. CASE cmd.op = "ObserveHolding"
    BY <1>1, <2>1 DEF Draft, ObserveHoldingDraft
  <2>2. CASE cmd.op = "MintIdentity"
    BY <1>1, <2>2 DEF Draft, MintIdentityDraft, MintFor
  <2>3. CASE cmd.op = "AcceptHoldingClaim"
    BY <1>1, <2>3 DEF Draft, AcceptHoldingClaimDraft
  <2>4. CASE cmd.op = "CorrectFact"
    BY <1>1, <2>4 DEF Draft, CorrectFactDraft
  <2>5. QED
    BY <2>1, <2>2, <2>3, <2>4, CommandOfOp
<1> DEFINE i == cmd.claim.sequence
           o == DeriveHoldingObserved(stream, stream[i], cmd.asOf)
<1>3. i \in 1..Len(stream) /\ IsA(stream[i], "HoldingClaimed") /\ CanDerive(stream, stream[i], cmd.asOf)
  BY <1>2 DEF ReadOutcome, ObserveClaimedHoldingRead, HasFact, Ok
<1>4. o = [payload |-> o.payload, inputs |-> o.inputs, confidence |-> o.confidence]
  BY DEF DeriveHoldingObserved
<1>5. /\ d.payload = o.payload /\ d.inputs = o.inputs /\ d.confidence = o.confidence
      /\ d.effective = stream[i].effective /\ d.asOf = cmd.asOf
  BY <1>2, DerivedDraft
<1> HIDE DEF d, o
<1>6. QED
  BY <1>1, <1>3, <1>4, <1>5 DEF o, d

\* Resolution reads a stream only through what is visible.
LEMMA SameAnswers ==
  ASSUME NEW s1, NEW s2, NEW a,
         \A c : Answering(s1, c, a) = Answering(s2, c, a)
  PROVE  \A f : /\ CanDerive(s1, f, a) <=> CanDerive(s2, f, a)
                /\ DeriveHoldingObserved(s1, f, a) = DeriveHoldingObserved(s2, f, a)
BY DEF CanDerive, IsResolved, DeriveHoldingObserved, ResolveWithTrace

\* Appending something that is no mint, or is not visible, answers no claim anew.
LEMMA AnswersUnchanged ==
  ASSUME LedgerInv, NEW s \in Streams, NEW f \in Fact, Appends(s, f),
         NEW a, ~Visible(f, a) \/ ~IsA(f, "EntityMinted")
  PROVE  \A c : Answering(log'[s], c, a) = Answering(log[s], c, a)
<1> DEFINE n == Len(log[s])
<1>1. n \in Nat
  BY DEF LedgerInv, TypeOK
<1>2. /\ DOMAIN log[s] = 1..n /\ DOMAIN log'[s] = 1..(n + 1)
      /\ \A i \in 1..n : log'[s][i] = log[s][i]
      /\ log'[s][n + 1] = f
  BY AppendedStreams
<1> HIDE DEF n
<1> SUFFICES ASSUME NEW c PROVE Answering(log'[s], c, a) = Answering(log[s], c, a)
  OBVIOUS
<1>3. ASSUME NEW g \in VisibleAt(log'[s], a), Resolves(g, c)
      PROVE  g \in VisibleAt(log[s], a)
  <2>1. PICK i \in 1..(n + 1) : g = log'[s][i] /\ Visible(log'[s][i], a)
    BY <1>2 DEF VisibleAt
  <2>2. i # n + 1
    BY <1>2, <1>3, <2>1 DEF Resolves
  <2>3. i \in 1..n
    BY <1>1, <2>2
  <2>4. QED
    BY <1>2, <2>1, <2>3 DEF VisibleAt
<1>4. ASSUME NEW g \in VisibleAt(log[s], a)
      PROVE  g \in VisibleAt(log'[s], a)
  <2>1. PICK i \in 1..n : g = log[s][i] /\ Visible(log[s][i], a)
    BY <1>2 DEF VisibleAt
  <2>2. i \in 1..(n + 1)
    BY <1>1
  <2>3. QED
    BY <1>2, <2>1, <2>2 DEF VisibleAt
<1>5. QED
  BY <1>3, <1>4 DEF Answering

LEMMA StepDerivationReplays ==
  LedgerInv /\ DerivationReplays /\ [Next]_log => DerivationReplays'
<1> SUFFICES ASSUME LedgerInv, DerivationReplays, [Next]_log PROVE DerivationReplays'
  OBVIOUS
<1>1. CASE UNCHANGED log
  BY <1>1 DEF DerivationReplays
<1>2. CASE Next
  <2>1. PICK cmd \in Commands, k \in Readings : Record(cmd, k)
    BY <1>2, NextRecords
  <2> DEFINE s == cmd.stream
             f == NewFact(s, log[s], Draft(cmd, log[s], k))
             n == Len(log[s])
             Replays(stream, i, g) ==
               /\ IsA(stream[i], "HoldingClaimed")
               /\ g.effective = stream[i].effective
               /\ CanDerive(stream, stream[i], g.asOf)
               /\ DeriveHoldingObserved(stream, stream[i], g.asOf)
                    = [payload |-> g.payload, inputs |-> g.inputs, confidence |-> g.confidence]
  <2>2. cmd \in Command /\ s \in Streams /\ f \in Fact /\ Appends(s, f)
    BY <2>1, RecordAppends
  <2>3. ReadOutcome(cmd, log[s]) = Ok
    BY <2>1 DEF Record
  <2>4. n \in Nat /\ log[s] \in Seq(Fact)
    BY <2>2 DEF LedgerInv, TypeOK
  <2> SUFFICES ASSUME NEW t \in Streams, NEW j \in DOMAIN log'[t],
                      Derived(log'[t][j]), log'[t][j].asOf.knowledge <= log'[t][j].knowledge
               PROVE  \E i \in 1..(j - 1) : Replays(log'[t], i, log'[t][j])
    BY DEF DerivationReplays
  <2>5. CASE t # s
    <3>1. log'[t] = log[t]
      BY <2>2, <2>5, AppendedStreams
    <3>2. QED
      BY <3>1 DEF DerivationReplays
  <2>6. CASE t = s
    <3> DEFINE g == log'[s][j]
    <3> HIDE DEF f, n
    <3>1. /\ DOMAIN log'[s] = 1..(n + 1) /\ DOMAIN log[s] = 1..n
          /\ \A m \in 1..n : log'[s][m] = log[s][m]
          /\ log'[s][n + 1] = f
      BY <2>2, AppendedStreams DEF n
    <3>2. /\ ~Visible(f, g.asOf) \/ ~IsA(f, "EntityMinted")
          /\ \E i \in 1..n : i <= j - 1 /\ Replays(log[s], i, g)
      <4>1. CASE j = n + 1
        <5>1. g = f /\ ~IsA(f, "EntityMinted")
          BY <2>6, <3>1, <4>1 DEF Derived, IsA
        <5>2. \E i \in 1..n : Replays(log[s], i, f)
          BY <2>2, <2>3, <2>4, <2>6, <5>1, DerivedRecorded DEF f, n
        <5>3. QED
          BY <2>4, <4>1, <5>1, <5>2
      <4>2. CASE j # n + 1
        <5>1. j \in 1..n /\ g = log[s][j]
          BY <2>4, <2>6, <3>1, <4>2
        <5>a. ASSUME NEW u \in Streams, NEW m \in DOMAIN log[u], Derived(log[u][m]),
                     log[u][m].asOf.knowledge <= log[u][m].knowledge
              PROVE  \E i \in 1..(m - 1) : Replays(log[u], i, log[u][m])
          BY <5>a DEF DerivationReplays
        <5>b. /\ j \in DOMAIN log[s] /\ Derived(log[s][j])
              /\ log[s][j].asOf.knowledge <= log[s][j].knowledge
          BY <2>6, <3>1, <5>1
        <5> HIDE DEF s, g, Replays
        <5>2. PICK i \in 1..(j - 1) : Replays(log[s], i, g)
          BY <2>2, <5>1, <5>a, <5>b
        <5>3. i \in 1..n /\ i <= j - 1
          BY <2>4, <5>1
        <5>4. ~Visible(f, g.asOf)
          <6>1. /\ g \in Fact /\ g.knowledge \in Nat /\ LastKnowledge(log[s]) \in Nat
                /\ g.knowledge <= LastKnowledge(log[s])
            BY <2>2, <5>1, KnownBeforeLast DEF n
          <6>2. f.knowledge \in Nat /\ LastKnowledge(log[s]) < f.knowledge
            BY <2>2, FactFields DEF Appends
          <6>3. g.asOf.knowledge \in Nat
            BY <6>1 DEF Fact, AsOf
          <6>4. ~(f.knowledge <= g.asOf.knowledge)
            BY <5>1, <5>b, <6>1, <6>2, <6>3
          <6>5. QED
            BY <6>4 DEF Visible
        <5>5. QED
          BY <5>2, <5>3, <5>4
      <4>3. QED
        BY <4>1, <4>2
    <3>3. \A c : Answering(log'[s], c, g.asOf) = Answering(log[s], c, g.asOf)
      BY <2>2, <3>2, AnswersUnchanged
    <3>4. PICK i \in 1..n : i <= j - 1 /\ Replays(log[s], i, g)
      BY <3>2
    <3>5. log'[s][i] = log[s][i]
      BY <3>1
    <3>6. /\ CanDerive(log'[s], log[s][i], g.asOf) <=> CanDerive(log[s], log[s][i], g.asOf)
          /\ DeriveHoldingObserved(log'[s], log[s][i], g.asOf)
               = DeriveHoldingObserved(log[s], log[s][i], g.asOf)
      BY <3>3, SameAnswers
    <3>7. Replays(log'[s], i, g)
      BY <3>4, <3>5, <3>6
    <3>8. i \in 1..(j - 1)
      BY <2>4, <2>6, <3>1, <3>4
    <3>9. QED
      BY <2>6, <3>7, <3>8
  <2>7. QED
    BY <2>5, <2>6
<1>3. QED
  BY <1>1, <1>2

\* A derived observation can be derived again from the stream of any later time,
\* at the coordinate it recorded.
THEOREM DerivationsReplay == Spec => []DerivationReplays
<1>1. Init => DerivationReplays
  BY DEF Init, DerivationReplays
<1>2. QED
  BY <1>1, StepDerivationReplays, AlwaysLedgerInv, PTL DEF Spec

-----------------------------------------------------------------------------
(* Identities *)

\* A mint carries the identity its claim derives under its kind (MintFor).
NamesItsClaim(mint) == mint.entity = DeriveFromClaim(mint.entity.kind, mint.bornFrom)

MintsNameTheirClaim ==
  \A s \in Streams : \A i \in DOMAIN log[s] :
    IsA(log[s][i], "EntityMinted") => NamesItsClaim(log[s][i].payload)

LEMMA StepMintsNameTheirClaim ==
  LedgerInv /\ MintsNameTheirClaim /\ [Next]_log => MintsNameTheirClaim'
<1> SUFFICES ASSUME LedgerInv, MintsNameTheirClaim, [Next]_log PROVE MintsNameTheirClaim'
  OBVIOUS
<1>1. CASE UNCHANGED log
  BY <1>1 DEF MintsNameTheirClaim
<1>2. CASE Next
  <2>1. PICK cmd \in Commands, k \in Readings : Record(cmd, k)
    BY <1>2, NextRecords
  <2> DEFINE s == cmd.stream
             f == NewFact(s, log[s], Draft(cmd, log[s], k))
             n == Len(log[s])
  <2>2. cmd \in Command /\ s \in Streams /\ f \in Fact /\ Appends(s, f)
    BY <2>1, RecordAppends
  <2>3. DraftOutcome(cmd, log[s], k) = Ok
    BY <2>1 DEF Record
  <2>4. n \in Nat
    BY <2>2 DEF LedgerInv, TypeOK
  <2>5. IsA(f, "EntityMinted") => NamesItsClaim(f.payload)
    <3> SUFFICES ASSUME IsA(f, "EntityMinted") PROVE NamesItsClaim(f.payload)
      OBVIOUS
    <3>1. f.payload = MintFor(cmd.kind, cmd.claim)
      BY <2>2, <2>3, MintRecorded
    <3> HIDE DEF f
    <3>2. QED
      BY <3>1 DEF MintFor, DeriveFromClaim, NamesItsClaim
  <2> HIDE DEF f, n
  <2>6. /\ DOMAIN log'[s] = 1..(n + 1) /\ DOMAIN log[s] = 1..n
        /\ \A m \in 1..n : log'[s][m] = log[s][m]
        /\ log'[s][n + 1] = f
    BY <2>2, AppendedStreams DEF n
  <2> SUFFICES ASSUME NEW t \in Streams, NEW j \in DOMAIN log'[t], IsA(log'[t][j], "EntityMinted")
               PROVE  NamesItsClaim(log'[t][j].payload)
    BY DEF MintsNameTheirClaim
  <2>7. CASE t # s
    <3>1. log'[t] = log[t]
      BY <2>2, <2>7, AppendedStreams
    <3>2. QED
      BY <3>1 DEF MintsNameTheirClaim
  <2>8. CASE t = s /\ j = n + 1
    BY <2>5, <2>6, <2>8
  <2>9. CASE t = s /\ j # n + 1
    <3>1. j \in DOMAIN log[s] /\ log'[t][j] = log[s][j]
      BY <2>4, <2>6, <2>9
    <3>2. QED
      BY <2>2, <3>1 DEF MintsNameTheirClaim
  <2>10. QED
    BY <2>7, <2>8, <2>9
<1>3. QED
  BY <1>1, <1>2

\* The identity a claim resolves to is the one it would itself have been minted
\* under the kind of the mint that answers it.
LEMMA ResolvedIdentity ==
  ASSUME LedgerInv, MintsNameTheirClaim, NEW s \in Streams, NEW claim, NEW a,
         IsResolved(log[s], claim, a)
  PROVE  LET m == ResolveWithTrace(log[s], claim, a)
         IN  /\ m.payload.entity = DeriveFromClaim(m.payload.entity.kind, claim)
             /\ \E i \in 1..Len(log[s]) :
                  /\ m = log[s][i] /\ IsA(m, "EntityMinted")
                  /\ Preimage[m.payload.bornFrom] = Preimage[claim]
<1> DEFINE m == ResolveWithTrace(log[s], claim, a)
<1>1. Addressed(s, log[s])
  BY DEF LedgerInv
<1>2. Resolves(m, claim) /\ \E i \in 1..Len(log[s]) : m = log[s][i]
  BY <1>1, ResolvesToAMint
<1> HIDE DEF m
<1>3. PICK i \in 1..Len(log[s]) : m = log[s][i]
  BY <1>2
<1>4. i \in DOMAIN log[s]
  BY <1>1 DEF Addressed
<1>5. IsA(m, "EntityMinted") /\ Preimage[m.payload.bornFrom] = Preimage[claim]
  BY <1>2 DEF Resolves
<1>6. m.payload.entity = DeriveFromClaim(m.payload.entity.kind, m.payload.bornFrom)
  BY <1>3, <1>4, <1>5 DEF MintsNameTheirClaim, NamesItsClaim
<1>7. m.payload.entity = DeriveFromClaim(m.payload.entity.kind, claim)
  BY <1>5, <1>6 DEF DeriveFromClaim
<1>8. QED
  BY <1>3, <1>5, <1>7 DEF m

\* What DerivedNamesItsClaim says of one derived observation and its claim.
Names(c, g, stream) ==
  /\ IsA(c, "HoldingClaimed")
  /\ c.ref \in g.inputs
  /\ MintedAs("account", c.payload.account, g, stream)
       => g.payload.account = DeriveFromClaim("account", c.payload.account)
  /\ MintedAs("instrument", c.payload.instrument, g, stream)
       => g.payload.instrument = DeriveFromClaim("instrument", c.payload.instrument)

\* Fewer mints ask less of what is named: a longer stream has the same names.
LEMMA NamesKept ==
  ASSUME NEW c, NEW g, NEW stream, NEW longer, Names(c, g, stream),
         \A m \in Mints(stream) : m \in Mints(longer) /\ longer[m] = stream[m]
  PROVE  Names(c, g, longer)
<1>1. \A kind, claim : MintedAs(kind, claim, g, longer) => MintedAs(kind, claim, g, stream)
  BY DEF MintedAs
<1>2. QED
  BY <1>1 DEF Names

LEMMA StepDerivedNamesItsClaim ==
  LedgerInv /\ MintsNameTheirClaim /\ DerivedNamesItsClaim /\ [Next]_log => DerivedNamesItsClaim'
<1> SUFFICES ASSUME LedgerInv, MintsNameTheirClaim, DerivedNamesItsClaim, [Next]_log
             PROVE  DerivedNamesItsClaim'
  OBVIOUS
<1>1. CASE UNCHANGED log
  BY <1>1 DEF DerivedNamesItsClaim, MintedAs, Mints
<1>2. CASE Next
  <2>1. PICK cmd \in Commands, k \in Readings : Record(cmd, k)
    BY <1>2, NextRecords
  <2> DEFINE s == cmd.stream
             f == NewFact(s, log[s], Draft(cmd, log[s], k))
             n == Len(log[s])
  <2>2. cmd \in Command /\ s \in Streams /\ f \in Fact /\ Appends(s, f)
    BY <2>1, RecordAppends
  <2>3. ReadOutcome(cmd, log[s]) = Ok
    BY <2>1 DEF Record
  <2>4. n \in Nat /\ log[s] \in Seq(Fact) /\ DOMAIN log[s] = 1..n
    BY <2>2 DEF LedgerInv, TypeOK
  <2>5. Derived(f) => \E i \in 1..n : Names(log[s][i], f, log[s])
    <3> SUFFICES ASSUME Derived(f) PROVE \E i \in 1..n : Names(log[s][i], f, log[s])
      OBVIOUS
    <3>1. PICK i \in 1..n :
            /\ IsA(log[s][i], "HoldingClaimed")
            /\ CanDerive(log[s], log[s][i], f.asOf)
            /\ DeriveHoldingObserved(log[s], log[s][i], f.asOf)
                 = [payload |-> f.payload, inputs |-> f.inputs, confidence |-> f.confidence]
      BY <2>2, <2>3, <2>4, DerivedRecorded
    <3> DEFINE c == log[s][i]
               a == f.asOf
               account == ResolveWithTrace(log[s], c.payload.account, a)
               instrument == ResolveWithTrace(log[s], c.payload.instrument, a)
               Answers(m, claim) ==
                 /\ m.payload.entity = DeriveFromClaim(m.payload.entity.kind, claim)
                 /\ \E j \in 1..n :
                      /\ m = log[s][j] /\ IsA(m, "EntityMinted")
                      /\ Preimage[m.payload.bornFrom] = Preimage[claim]
    <3>2. Answers(account, c.payload.account) /\ Answers(instrument, c.payload.instrument)
      <4> HIDE DEF a, c, s
      <4>1. CanDerive(log[s], c, a)
        BY <3>1 DEF a, c
      <4>2. IsResolved(log[s], c.payload.account, a) /\ IsResolved(log[s], c.payload.instrument, a)
        BY <4>1 DEF CanDerive
      <4>3. s \in Streams
        BY <2>2
      <4>4. ASSUME NEW claim, IsResolved(log[s], claim, a)
            PROVE  Answers(ResolveWithTrace(log[s], claim, a), claim)
        BY <4>3, <4>4, ResolvedIdentity
      <4> HIDE DEF Answers
      <4>5. QED
        BY <4>2, <4>4
    <3> HIDE DEF f
    <3>3. /\ f.payload.account = account.payload.entity
          /\ f.payload.instrument = instrument.payload.entity
          /\ {c.ref, account.ref, instrument.ref} \subseteq f.inputs
      <4>1. DeriveHoldingObserved(log[s], c, a) =
              [payload |-> [type |-> "HoldingObserved", account |-> account.payload.entity,
                            instrument |-> instrument.payload.entity,
                            quantity |-> c.payload.quantity],
               inputs |-> {c.ref, account.ref, instrument.ref},
               confidence |-> c.confidence]
        BY DEF DeriveHoldingObserved
      <4>2. DeriveHoldingObserved(log[s], c, a)
              = [payload |-> f.payload, inputs |-> f.inputs, confidence |-> f.confidence]
        BY <3>1
      <4> HIDE DEF account, instrument, c, a, s
      <4>3. QED
        BY <4>1, <4>2
    <3> HIDE DEF account, instrument, c, s, n
    <3>4. ASSUME NEW m, NEW claim, NEW kind, Answers(m, claim), m.ref \in f.inputs,
                 MintedAs(kind, claim, f, log[s])
          PROVE  m.payload.entity = DeriveFromClaim(kind, claim)
      <4>1. PICK j \in 1..n : /\ m = log[s][j] /\ IsA(m, "EntityMinted")
                              /\ Preimage[m.payload.bornFrom] = Preimage[claim]
        BY <3>4
      <4>2. j \in Mints(log[s])
        BY <2>4, <4>1 DEF Mints
      <4>3. m.payload.entity.kind = kind
        BY <3>4, <4>1, <4>2 DEF MintedAs
      <4>4. QED
        BY <3>4, <4>3
    <3>5. Names(c, f, log[s])
      <4>1. IsA(c, "HoldingClaimed") /\ c.ref \in f.inputs
        BY <3>1, <3>3 DEF c
      <4>2. MintedAs("account", c.payload.account, f, log[s])
              => f.payload.account = DeriveFromClaim("account", c.payload.account)
        <5> HIDE DEF Answers
        <5>1. QED
          BY <3>2, <3>3, <3>4
      <4>3. MintedAs("instrument", c.payload.instrument, f, log[s])
              => f.payload.instrument = DeriveFromClaim("instrument", c.payload.instrument)
        <5> HIDE DEF Answers
        <5>1. QED
          BY <3>2, <3>3, <3>4
      <4>4. QED
        BY <4>1, <4>2, <4>3 DEF Names
    <3>6. QED
      BY <3>5 DEF c
  <2> HIDE DEF f, n
  <2>6. /\ DOMAIN log'[s] = 1..(n + 1)
        /\ \A m \in 1..n : log'[s][m] = log[s][m]
        /\ log'[s][n + 1] = f
    BY <2>2, AppendedStreams DEF n
  <2>7. \A m \in Mints(log[s]) : m \in Mints(log'[s]) /\ log'[s][m] = log[s][m]
    BY <2>4, <2>6 DEF Mints
  <2>8. \A u \in Streams : \A m \in DOMAIN log[u] :
          Derived(log[u][m]) => \E i \in 1..(m - 1) : Names(log[u][i], log[u][m], log[u])
    BY DEF DerivedNamesItsClaim, Names
  <2> SUFFICES ASSUME NEW t \in Streams, NEW j \in DOMAIN log'[t], Derived(log'[t][j])
               PROVE  \E i \in 1..(j - 1) : Names(log'[t][i], log'[t][j], log'[t])
    BY DEF DerivedNamesItsClaim, Names
  <2>9. CASE t # s
    <3>1. log'[t] = log[t]
      BY <2>2, <2>9, AppendedStreams
    <3>2. QED
      BY <2>8, <3>1
  <2>10. CASE t = s /\ j = n + 1
    <3>1. PICK i \in 1..n : Names(log[s][i], f, log[s])
      BY <2>5, <2>6, <2>10
    <3>2. Names(log'[s][i], f, log'[s])
      BY <2>6, <2>7, <3>1, NamesKept
    <3>3. QED
      BY <2>4, <2>6, <2>10, <3>2
  <2>11. CASE t = s /\ j # n + 1
    <3>1. j \in 1..n /\ log'[t][j] = log[s][j]
      BY <2>4, <2>6, <2>11
    <3>2. PICK i \in 1..(j - 1) : Names(log[s][i], log[s][j], log[s])
      BY <2>2, <2>4, <2>8, <2>11, <3>1
    <3>3. log'[s][i] = log[s][i]
      BY <2>4, <2>6, <3>1
    <3>4. Names(log'[s][i], log'[s][j], log'[s])
      BY <2>7, <2>11, <3>1, <3>2, <3>3, NamesKept
    <3>5. QED
      BY <2>11, <3>4
  <2>12. QED
    BY <2>9, <2>10, <2>11
<1>3. QED
  BY <1>1, <1>2

\* Resolution agrees with minting: a derived observation whose mints are of the
\* kinds its claim is about names the identities, kind and all, that the claim would
\* itself have been minted, whatever spelling a mint is born from.
THEOREM DerivationsNameTheirClaim == Spec => []DerivedNamesItsClaim
<1>1. Init => MintsNameTheirClaim /\ DerivedNamesItsClaim
  BY DEF Init, MintsNameTheirClaim, DerivedNamesItsClaim
<1>2. QED
  BY <1>1, StepMintsNameTheirClaim, StepDerivedNamesItsClaim, AlwaysLedgerInv, PTL DEF Spec

-----------------------------------------------------------------------------
(* The backlog *)

\* What is visible stays visible as knowledge grows.
LEMMA VisibleLater ==
  ASSUME NEW f \in Fact, NEW e \in Nat, NEW k \in Nat, NEW l \in Nat, k <= l,
         Visible(f, NewAsOf(e, k))
  PROVE  Visible(f, NewAsOf(e, l))
BY FactFields DEF Visible, NewAsOf

\* No mint that is visible at some knowledge is missed at a later one.
LEMMA AnsweredStays ==
  LedgerInv => AnsweredUntilRetracted
<1> SUFFICES ASSUME LedgerInv, NEW s \in Streams, NEW b \in Queries,
                    NEW u \in Unresolved(log[s], b), NEW k \in Moments,
                    k \in log[s][u[1].sequence].knowledge..b.knowledge
             PROVE  Answering(log[s], u[2], NewAsOf(b.effective, k)) = {}
  BY DEF AnsweredUntilRetracted
<1> DEFINE a == NewAsOf(b.effective, k)
<1>1. /\ b.effective \in Nat /\ b.knowledge \in Nat /\ k \in Nat
      /\ b = NewAsOf(b.effective, b.knowledge)
  BY MomentsAssumption DEF Queries, NewAsOf
<1>2. /\ log[s] \in Seq(Fact) /\ Addressed(s, log[s])
      /\ DOMAIN log[s] = 1..Len(log[s])
  BY DEF LedgerInv, Addressed
<1>3. PICK f \in VisibleAt(log[s], b) :
        /\ IsA(f, "HoldingClaimed")
        /\ \E c \in {f.payload.account, f.payload.instrument} :
             u = <<f.ref, c>> /\ ~IsResolved(log[s], c, b)
  BY DEF Unresolved
<1>4. PICK c \in {f.payload.account, f.payload.instrument} :
        u = <<f.ref, c>> /\ ~IsResolved(log[s], c, b)
  BY <1>3
<1>5. PICK i \in 1..Len(log[s]) : f = log[s][i] /\ Visible(f, b)
  BY <1>2 DEF VisibleAt
<1>6. f.ref.sequence = i
  <2>1. f.ref = [stream |-> s, sequence |-> i]
    BY <1>2, <1>5 DEF Addressed
  <2>2. QED
    BY <2>1
<1>7. f.knowledge <= k /\ k <= b.knowledge /\ f \in Fact
  <2>1. f \in Fact /\ f.knowledge \in Nat
    BY <1>2, <1>5, FactFields
  <2>2. k \in f.knowledge..b.knowledge
    BY <1>4, <1>5, <1>6
  <2>3. QED
    BY <1>1, <2>1, <2>2
<1>8. u[2] = c
  BY <1>4
<1>9. Answering(log[s], c, a) = {}
  <2> SUFFICES ASSUME NEW g \in Answering(log[s], c, a) PROVE FALSE
    OBVIOUS
  <2>1. g \in VisibleAt(log[s], a) /\ Resolves(g, c)
    BY DEF Answering
  <2>2. PICK j \in 1..Len(log[s]) : g = log[s][j] /\ Visible(g, a)
    BY <1>2, <2>1 DEF VisibleAt
  <2>3. g \in Fact
    BY <1>2, <2>2
  <2>4. Visible(g, b)
    BY <1>1, <1>7, <2>2, <2>3, VisibleLater
  <2>5. g \in VisibleAt(log[s], b)
    BY <1>2, <2>2, <2>4 DEF VisibleAt
  <2>6. QED
    BY <1>4, <2>1, <2>5 DEF IsResolved, Answering
<1> HIDE DEF a
<1>10. QED
  BY <1>8, <1>9 DEF a

\* A claim that was answered at an effective time is listed as unresolved at a later
\* knowledge there only if every mint that answered it has been retracted.
THEOREM AnswersStand == Spec => []AnsweredUntilRetracted
BY AnsweredStays, AlwaysLedgerInv, PTL
=============================================================================

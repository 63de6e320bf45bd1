--------------------------- MODULE UseCasesProofs ---------------------------
(***************************************************************************)
(* What the domain's operators return: the deterministic order of a stream *)
(* has a first element, and resolution and derivation return facts of the  *)
(* stream and well-typed payloads.  What the use cases hand to the store:  *)
(* a draft that passed every check becomes a well-formed fact, and         *)
(* appending it keeps the stream addressed and ordered on the knowledge    *)
(* axis.                                                                   *)
(***************************************************************************)
EXTENDS UseCases, WellFoundedInduction, FiniteSetTheorems, TLAPS

-----------------------------------------------------------------------------
(* The domain *)

Less == {ss \in Nat \X Nat : ss[1] < ss[2]}

\* The natural numbers, as the domain uses them for instants and sequences, are
\* well ordered.
LEMMA LessIsWellFounded == IsWellFoundedOn(Less, Nat)
BY NatLessThanWellFounded DEF OpToRel, Less

\* A non-empty set of instants or of sequence numbers has a least element.
LEMMA LeastNatural ==
  ASSUME NEW T \in SUBSET Nat, T # {}
  PROVE  \E x \in T : \A y \in T : x <= y
<1>1. PICK x \in T : \A y \in T : ~ (<<y, x>> \in Less)
  BY LessIsWellFounded, WFMin, Zenon
<1>2. ASSUME NEW y \in T PROVE ~(y < x)
  <2>1. <<y, x>> \notin Less
    BY <1>1
  <2>2. QED
    BY <2>1 DEF Less
<1>3. QED
  BY <1>2

\* The fields of a fact that the order of VisibleAt compares are numbers.
LEMMA FactFields ==
  ASSUME NEW f \in Fact
  PROVE  /\ f.effective.from \in Nat
         /\ f.knowledge \in Nat
         /\ f.ref.sequence \in Nat
BY DEF Fact, NewInterval, Instant, Ref, Unset

\* The order of VisibleAt is total on facts with distinct sequence numbers, so a
\* non-empty set of them has a first one and FirstOf returns it.
LEMMA FirstOfIsFirst ==
  ASSUME NEW S \in SUBSET Fact, S # {},
         \A f, g \in S : f.ref.sequence = g.ref.sequence => f = g
  PROVE  /\ FirstOf(S) \in S
         /\ \A g \in S \ {FirstOf(S)} : Precedes(FirstOf(S), g)
<1>1. PICK f1 \in S : \A g \in S : f1.effective.from <= g.effective.from
  <2> DEFINE T == {f.effective.from : f \in S}
  <2>1. T \in SUBSET Nat /\ T # {}
    BY FactFields
  <2>2. PICK m \in T : \A y \in T : m <= y
    BY <2>1, LeastNatural
  <2>3. QED
    BY <2>2
<1> DEFINE S2 == {f \in S : f.effective.from = f1.effective.from}
<1>2. PICK f2 \in S2 : \A g \in S2 : f2.knowledge <= g.knowledge
  <2> DEFINE T == {f.knowledge : f \in S2}
  <2>1. T \in SUBSET Nat /\ T # {}
    BY FactFields
  <2>2. PICK m \in T : \A y \in T : m <= y
    BY <2>1, LeastNatural
  <2>3. QED
    BY <2>2
<1> DEFINE S3 == {f \in S2 : f.knowledge = f2.knowledge}
<1>3. PICK f3 \in S3 : \A g \in S3 : f3.ref.sequence <= g.ref.sequence
  <2> DEFINE T == {f.ref.sequence : f \in S3}
  <2>1. T \in SUBSET Nat /\ T # {}
    BY FactFields
  <2>2. PICK m \in T : \A y \in T : m <= y
    BY <2>1, LeastNatural
  <2>3. QED
    BY <2>2
<1>4. ASSUME NEW g \in S \ {f3} PROVE Precedes(f3, g)
  <2>1. f3 \in S /\ f3 \in S2 /\ f3 \in S3
    BY <1>3
  <2>2. f3.ref.sequence # g.ref.sequence
    BY <2>1
  <2>3. /\ f3.effective.from \in Nat /\ f3.knowledge \in Nat /\ f3.ref.sequence \in Nat
        /\ g.effective.from \in Nat /\ g.knowledge \in Nat /\ g.ref.sequence \in Nat
    BY <2>1, FactFields
  <2>4. CASE g \notin S2
    <3>1. f1.effective.from <= g.effective.from /\ g.effective.from # f1.effective.from
      BY <1>1, <2>4
    <3>2. f3.effective.from = f1.effective.from
      BY <2>1
    <3>3. f3.effective.from < g.effective.from
      BY <3>1, <3>2, <2>3
    <3>4. QED
      BY <3>3 DEF Precedes
  <2>5. CASE g \in S2 /\ g \notin S3
    <3>1. f2.knowledge <= g.knowledge /\ g.knowledge # f2.knowledge
      BY <1>2, <2>5
    <3>2. f3.knowledge = f2.knowledge /\ f3.effective.from = g.effective.from
      BY <2>1, <2>5
    <3>3. f3.knowledge < g.knowledge
      BY <3>1, <3>2, <2>3
    <3>4. QED
      BY <3>2, <3>3 DEF Precedes
  <2>6. CASE g \in S3
    <3>1. f3.knowledge = g.knowledge /\ f3.effective.from = g.effective.from
      BY <2>1, <2>6
    <3>2. f3.ref.sequence < g.ref.sequence
      BY <1>3, <2>2, <2>3, <2>6
    <3>3. QED
      BY <3>1, <3>2 DEF Precedes
  <2>7. QED
    BY <2>4, <2>5, <2>6
<1>5. \E f \in S : \A g \in S \ {f} : Precedes(f, g)
  BY <1>3, <1>4
<1>6. QED
  BY <1>5 DEF FirstOf

-----------------------------------------------------------------------------
(* Streams as the store builds them *)

\* Every fact of the stream carries the reference its position gives it.
Addressed(name, stream) ==
  /\ stream \in Seq(Fact)
  /\ \A i \in 1..Len(stream) : stream[i].ref = [stream |-> name, sequence |-> i]

\* What VisibleAt returns are facts of the stream, told apart by their sequence.
LEMMA VisibleAreFacts ==
  ASSUME NEW name, NEW stream, Addressed(name, stream), NEW a
  PROVE  /\ VisibleAt(stream, a) \subseteq Fact
         /\ \A f \in VisibleAt(stream, a) : \E i \in 1..Len(stream) : f = stream[i]
         /\ \A f, g \in VisibleAt(stream, a) : f.ref.sequence = g.ref.sequence => f = g
<1>1. stream \in Seq(Fact) /\ DOMAIN stream = 1..Len(stream)
  BY DEF Addressed
<1>2. \A f \in VisibleAt(stream, a) : \E i \in 1..Len(stream) : f = stream[i]
  BY <1>1 DEF VisibleAt
<1>3. ASSUME NEW i \in 1..Len(stream)
      PROVE  stream[i] \in Fact /\ stream[i].ref.sequence = i
  <2>1. stream[i] \in Fact
    BY <1>1
  <2>2. stream[i].ref = [stream |-> name, sequence |-> i]
    BY DEF Addressed
  <2>3. QED
    BY <2>1, <2>2
<1>4. QED
  BY <1>2, <1>3

\* A claim that resolves is answered by a mint of the stream with its pre-image.
LEMMA ResolvesToAMint ==
  ASSUME NEW name, NEW stream, Addressed(name, stream), NEW claim, NEW a,
         IsResolved(stream, claim, a)
  PROVE  LET f == ResolveWithTrace(stream, claim, a) IN
         /\ f \in Answering(stream, claim, a)
         /\ f \in VisibleAt(stream, a)
         /\ f \in Fact
         /\ Resolves(f, claim)
         /\ \E i \in 1..Len(stream) : f = stream[i]
<1> DEFINE S == Answering(stream, claim, a)
<1>1. S \in SUBSET Fact /\ S # {} /\ S \subseteq VisibleAt(stream, a)
  BY VisibleAreFacts DEF Answering, IsResolved
<1>2. \A f, g \in S : f.ref.sequence = g.ref.sequence => f = g
  BY <1>1, VisibleAreFacts
<1>3. FirstOf(S) \in S
  <2> HIDE DEF S
  <2> QED BY <1>1, <1>2, FirstOfIsFirst
<1>4. FirstOf(S) \in VisibleAt(stream, a) /\ FirstOf(S) \in Fact
  BY <1>1, <1>3
<1>5. Resolves(FirstOf(S), claim)
  BY <1>3 DEF Answering
<1>6. \E i \in 1..Len(stream) : FirstOf(S) = stream[i]
  BY <1>4, VisibleAreFacts
<1>7. QED
  BY <1>3, <1>4, <1>5, <1>6 DEF ResolveWithTrace

\* A fact that answers a claim carries a minted identity.
LEMMA AnsweringIsMinted ==
  ASSUME NEW f \in Fact, NEW claim, Resolves(f, claim)
  PROVE  f.payload \in EntityMinted /\ f.payload.entity \in EntityID
<1>1. f.payload \in Payload /\ f.payload.type = "EntityMinted"
  BY DEF Fact, Resolves, IsA
<1>2. f.payload \in EntityMinted
  BY <1>1 DEF Payload, HoldingObserved, HoldingClaimed, FactCorrected, EntityMinted
<1>3. QED
  BY <1>2 DEF EntityMinted

\* Deriving an observation from a claim of the stream that resolves yields a
\* HoldingObserved, and names facts of the stream.
LEMMA DerivedIsWellTyped ==
  ASSUME NEW name \in Streams, NEW stream, Addressed(name, stream),
         NEW i \in 1..Len(stream), IsA(stream[i], "HoldingClaimed"), NEW a,
         CanDerive(stream, stream[i], a)
  PROVE  LET d == DeriveHoldingObserved(stream, stream[i], a) IN
         /\ d.payload \in HoldingObserved
         /\ d.inputs \in SUBSET Ref
         /\ d.confidence \in Confidence
<1> DEFINE c == stream[i]
           account == ResolveWithTrace(stream, c.payload.account, a)
           instrument == ResolveWithTrace(stream, c.payload.instrument, a)
<1>1. c \in Fact
  BY DEF Addressed
<1>2. c.payload \in HoldingClaimed
  <2>1. c.payload \in Payload /\ c.payload.type = "HoldingClaimed"
    BY <1>1 DEF Fact, IsA
  <2>2. QED
    BY <2>1 DEF Payload, HoldingObserved, HoldingClaimed, FactCorrected, EntityMinted
<1>3. account \in Fact /\ Resolves(account, c.payload.account)
  BY ResolvesToAMint DEF CanDerive
<1>4. instrument \in Fact /\ Resolves(instrument, c.payload.instrument)
  BY ResolvesToAMint DEF CanDerive
<1> HIDE DEF account, instrument
<1>5. account.payload.entity \in EntityID /\ instrument.payload.entity \in EntityID
  BY <1>3, <1>4, AnsweringIsMinted
<1>6. account.ref \in Ref /\ instrument.ref \in Ref /\ c.ref \in Ref /\ c.confidence \in Confidence
  BY <1>1, <1>3, <1>4 DEF Fact
<1>7. c.payload.quantity \in Quantities
  BY <1>2 DEF HoldingClaimed
<1>8. DeriveHoldingObserved(stream, c, a) =
        [payload |-> [type |-> "HoldingObserved", account |-> account.payload.entity,
                      instrument |-> instrument.payload.entity,
                      quantity |-> c.payload.quantity],
         inputs |-> {c.ref, account.ref, instrument.ref},
         confidence |-> c.confidence]
  BY DEF DeriveHoldingObserved, account, instrument
<1> HIDE DEF c
<1>9. QED
  BY <1>5, <1>6, <1>7, <1>8 DEF HoldingObserved, c

-----------------------------------------------------------------------------
(* The use cases *)

\* The command of each use case is the record usecases.go declares for it.
LEMMA CommandOfOp ==
  ASSUME NEW cmd \in Command
  PROVE  /\ cmd.op \in {"ObserveHolding", "CorrectFact", "AcceptHoldingClaim",
                        "MintIdentity", "ObserveClaimedHolding"}
         /\ cmd.op = "ObserveHolding" => cmd \in ObserveHoldingCommand
         /\ cmd.op = "CorrectFact" => cmd \in CorrectFactCommand
         /\ cmd.op = "AcceptHoldingClaim" => cmd \in AcceptHoldingClaimCommand
         /\ cmd.op = "MintIdentity" => cmd \in MintIdentityCommand
         /\ cmd.op = "ObserveClaimedHolding" => cmd \in ObserveClaimedHoldingCommand
         /\ cmd.stream \in Streams
BY DEF Command, ObserveHoldingCommand, CorrectFactCommand, AcceptHoldingClaimCommand,
       MintIdentityCommand, ObserveClaimedHoldingCommand

\* An interval whose beginning is set came from NewInterval.
LEMMA SetInterval ==
  ASSUME NEW iv \in Interval, iv.from # Unset
  PROVE  iv \in NewInterval
BY DEF Interval, ZeroInterval

\* The store assigns a reference of the stream it appends to.
LEMMA NextRefIsRef ==
  ASSUME NEW name \in Streams, NEW stream \in Seq(Fact)
  PROVE  NextRef(name, stream) \in Ref
BY DEF NextRef, Ref

\* What NewFact needs of a draft.
LEMMA NewFactIsFact ==
  ASSUME NEW name \in Streams, NEW stream \in Seq(Fact), NEW d,
         d.effective \in NewInterval, d.knowledge \in Instant,
         d.confidence \in Confidence, d.inputs \in SUBSET Ref, d.asOf \in AsOf,
         d.kind \in {"occurrence", "observation"}, d.payload \in Payload
  PROVE  NewFact(name, stream, d) \in Fact
BY NextRefIsRef DEF NewFact, Fact

\* No use case builds an ill-formed fact: whatever command passes the checks of
\* its use case, the fact appended for it is complete.
LEMMA DraftBecomesFact ==
  ASSUME NEW cmd \in Command, NEW stream, Addressed(cmd.stream, stream),
         NEW k \in Instant,
         Admission(cmd) = Ok, ReadOutcome(cmd, stream) = Ok,
         DraftOutcome(cmd, stream, k) = Ok
  PROVE  NewFact(cmd.stream, stream, Draft(cmd, stream, k)) \in Fact
<1> DEFINE d == Draft(cmd, stream, k)
<1>0. stream \in Seq(Fact) /\ cmd.stream \in Streams
  BY CommandOfOp DEF Addressed
<1>z. ZeroAsOf \in AsOf /\ {} \in SUBSET Ref
  BY DEF ZeroAsOf, AsOf, Unset
<1>1. CASE cmd.op = "ObserveHolding"
  <2>1. cmd \in ObserveHoldingCommand
    BY <1>1, CommandOfOp
  <2>2. d = ObserveHoldingDraft(cmd, k)
    BY <1>1 DEF Draft
  <2>3. cmd.effective.from # Unset
    BY <1>1 DEF DraftOutcome, StatedOutcome, Ok
  <2>4. cmd.effective \in NewInterval
    BY <2>1, <2>3, SetInterval DEF ObserveHoldingCommand
  <2>5. d.payload \in HoldingObserved
    BY <2>1, <2>2 DEF ObserveHoldingDraft, ObserveHoldingCommand, HoldingObserved
  <2>6. d.payload \in Payload
    BY <2>5 DEF Payload
  <2>7. /\ d.effective \in NewInterval /\ d.knowledge \in Instant
        /\ d.confidence \in Confidence /\ d.inputs \in SUBSET Ref
        /\ d.asOf \in AsOf /\ d.kind \in {"occurrence", "observation"}
    BY <1>z, <2>1, <2>2, <2>4 DEF ObserveHoldingDraft, ObserveHoldingCommand
  <2>8. QED
    BY <1>0, <2>6, <2>7, NewFactIsFact
<1>2. CASE cmd.op = "CorrectFact"
  <2>1. cmd \in CorrectFactCommand
    BY <1>2, CommandOfOp
  <2>2. d = CorrectFactDraft(cmd, stream, k)
    BY <1>2 DEF Draft
  <2>3. /\ HasFact(cmd.stream, stream, cmd.corrects)
        /\ cmd.kind \in CorrectionKinds
    BY <1>2 DEF ReadOutcome, CorrectFactRead, Ok
  <2>4. stream[cmd.corrects.sequence] \in Fact
    BY <1>0, <2>3 DEF HasFact
  <2>5. stream[cmd.corrects.sequence].effective \in NewInterval
    BY <2>4 DEF Fact
  <2>6. d.payload \in FactCorrected
    BY <2>1, <2>2, <2>3 DEF CorrectFactDraft, CorrectFactCommand, FactCorrected
  <2>7. d.payload \in Payload
    BY <2>6 DEF Payload
  <2>8. /\ d.effective \in NewInterval /\ d.knowledge \in Instant
        /\ d.confidence \in Confidence /\ d.inputs \in SUBSET Ref
        /\ d.asOf \in AsOf /\ d.kind \in {"occurrence", "observation"}
    BY <1>z, <2>1, <2>2, <2>5 DEF CorrectFactDraft, CorrectFactCommand
  <2>9. QED
    BY <1>0, <2>7, <2>8, NewFactIsFact
<1>3. CASE cmd.op = "AcceptHoldingClaim"
  <2>1. cmd \in AcceptHoldingClaimCommand
    BY <1>3, CommandOfOp
  <2>2. d = AcceptHoldingClaimDraft(cmd, k)
    BY <1>3 DEF Draft
  <2>3. cmd.effective.from # Unset
    BY <1>3 DEF DraftOutcome, StatedOutcome, Ok
  <2>4. cmd.effective \in NewInterval
    BY <2>1, <2>3, SetInterval DEF AcceptHoldingClaimCommand
  <2>5. cmd.account \in Claims /\ cmd.instrument \in Claims
    <3>1. NoClaim \notin {cmd.account, cmd.instrument}
      BY <1>3 DEF Admission, AcceptHoldingClaimAdmission, Ok
    <3>2. QED
      BY <2>1, <3>1 DEF AcceptHoldingClaimCommand
  <2>6. d.payload \in HoldingClaimed
    BY <2>1, <2>2, <2>5 DEF AcceptHoldingClaimDraft, AcceptHoldingClaimCommand, HoldingClaimed
  <2>7. d.payload \in Payload
    BY <2>6 DEF Payload
  <2>8. /\ d.effective \in NewInterval /\ d.knowledge \in Instant
        /\ d.confidence \in Confidence /\ d.inputs \in SUBSET Ref
        /\ d.asOf \in AsOf /\ d.kind \in {"occurrence", "observation"}
    BY <1>z, <2>1, <2>2, <2>4 DEF AcceptHoldingClaimDraft, AcceptHoldingClaimCommand
  <2>9. QED
    BY <1>0, <2>7, <2>8, NewFactIsFact
<1>4. CASE cmd.op = "MintIdentity"
  <2>1. cmd \in MintIdentityCommand
    BY <1>4, CommandOfOp
  <2>2. d = MintIdentityDraft(cmd, k)
    BY <1>4 DEF Draft
  <2>3. cmd.effective.from # Unset
    BY <1>4 DEF DraftOutcome, MintIdentityOutcome, Ok
  <2>4. cmd.effective \in NewInterval
    BY <2>1, <2>3, SetInterval DEF MintIdentityCommand
  <2>5. cmd.kind \in EntityKinds /\ cmd.claim \in Claims
    <3>1. cmd.kind \in EntityKinds /\ cmd.claim # NoClaim
      BY <1>4 DEF Admission, MintIdentityAdmission, Ok
    <3>2. QED
      BY <2>1, <3>1 DEF MintIdentityCommand
  <2>6. MintFor(cmd.kind, cmd.claim) \in EntityMinted
    BY <2>5 DEF MintFor, EntityMinted, DeriveFromClaim, EntityID
  <2>7. d.payload \in Payload
    BY <2>2, <2>6 DEF Payload, MintIdentityDraft
  <2>8. /\ d.effective \in NewInterval /\ d.knowledge \in Instant
        /\ d.confidence \in Confidence /\ d.inputs \in SUBSET Ref
        /\ d.asOf \in AsOf /\ d.kind \in {"occurrence", "observation"}
    BY <1>z, <2>1, <2>2, <2>4 DEF MintIdentityDraft, MintIdentityCommand, Ref
  <2>9. QED
    BY <1>0, <2>7, <2>8, NewFactIsFact
<1>5. CASE cmd.op = "ObserveClaimedHolding"
  <2> DEFINE c == stream[cmd.claim.sequence]
             o == DeriveHoldingObserved(stream, c, cmd.asOf)
  <2>1. cmd \in ObserveClaimedHoldingCommand
    BY <1>5, CommandOfOp
  <2>2. d = ObserveClaimedHoldingDraft(cmd, stream, k)
    BY <1>5 DEF Draft
  <2>3. /\ HasFact(cmd.stream, stream, cmd.claim)
        /\ IsA(c, "HoldingClaimed")
        /\ CanDerive(stream, c, cmd.asOf)
    BY <1>5 DEF ReadOutcome, ObserveClaimedHoldingRead, Ok
  <2>4. cmd.claim.sequence \in 1..Len(stream)
    BY <2>3 DEF HasFact
  <2>5. c \in Fact
    BY <1>0, <2>4
  <2>6. c.effective \in NewInterval
    BY <2>5 DEF Fact
  <2>7. o.payload \in HoldingObserved /\ o.inputs \in SUBSET Ref /\ o.confidence \in Confidence
    BY <1>0, <2>3, <2>4, DerivedIsWellTyped
  <2>8. d = [effective |-> c.effective, knowledge |-> k, confidence |-> o.confidence,
             inputs |-> o.inputs, asOf |-> cmd.asOf, kind |-> "observation",
             payload |-> o.payload]
    BY <2>2 DEF ObserveClaimedHoldingDraft
  <2> HIDE DEF d, c, o
  <2>9. cmd.asOf \in AsOf
    BY <2>1 DEF ObserveClaimedHoldingCommand
  <2>10. d.payload \in Payload
    BY <2>7, <2>8 DEF Payload
  <2>11. /\ d.effective \in NewInterval /\ d.knowledge \in Instant
         /\ d.confidence \in Confidence /\ d.inputs \in SUBSET Ref
         /\ d.asOf \in AsOf /\ d.kind \in {"occurrence", "observation"}
    BY <2>6, <2>7, <2>8, <2>9
  <2>12. NewFact(cmd.stream, stream, d) \in Fact
    BY <1>0, <2>10, <2>11, NewFactIsFact
  <2>13. QED
    BY <2>12 DEF d
<1>6. QED
  BY <1>1, <1>2, <1>3, <1>4, <1>5, CommandOfOp

-----------------------------------------------------------------------------
(* What reaches the store *)

\* Knowledge time is the clock's reading whatever the use case.
LEMMA DraftKnowledge ==
  ASSUME NEW cmd \in Command, NEW stream, NEW k
  PROVE  Draft(cmd, stream, k).knowledge = k
<1>1. CASE cmd.op = "ObserveHolding"
  BY <1>1 DEF Draft, ObserveHoldingDraft
<1>2. CASE cmd.op = "CorrectFact"
  BY <1>2 DEF Draft, CorrectFactDraft
<1>3. CASE cmd.op = "AcceptHoldingClaim"
  BY <1>3 DEF Draft, AcceptHoldingClaimDraft
<1>4. CASE cmd.op = "MintIdentity"
  BY <1>4 DEF Draft, MintIdentityDraft
<1>5. CASE cmd.op = "ObserveClaimedHolding"
  <2>1. Draft(cmd, stream, k) = ObserveClaimedHoldingDraft(cmd, stream, k)
    BY <1>5 DEF Draft
  <2>2. QED
    BY <2>1 DEF ObserveClaimedHoldingDraft
<1>6. QED
  BY <1>1, <1>2, <1>3, <1>4, <1>5, CommandOfOp

\* What a use case that loads no stream drafts depends on no stream.
LEMMA UnreadStream ==
  ASSUME NEW cmd \in Command, ~ReadsStream(cmd), NEW s1, NEW s2, NEW k
  PROVE  /\ ReadOutcome(cmd, s1) = Ok
         /\ DraftOutcome(cmd, s1, k) = DraftOutcome(cmd, s2, k)
         /\ Draft(cmd, s1, k) = Draft(cmd, s2, k)
         /\ Expect(cmd, s1) = Expect(cmd, s2)
<1>1. cmd.op \in {"ObserveHolding", "AcceptHoldingClaim"}
  BY CommandOfOp DEF ReadsStream
<1>2. ReadOutcome(cmd, s1) = Ok
  BY <1>1 DEF ReadOutcome
<1>3. DraftOutcome(cmd, s1, k) = DraftOutcome(cmd, s2, k)
  BY <1>1 DEF DraftOutcome
<1>4. Draft(cmd, s1, k) = Draft(cmd, s2, k)
  BY <1>1 DEF Draft
<1>5. QED
  BY <1>2, <1>3, <1>4 DEF Expect

\* Only Store.Append returns the refusals a race can cause, and no use case
\* returns an outcome that a caller could take for an unanswered call.
RaceErrors == {"ErrStaleRead", "ErrNonMonotonicKnowledge"}

LEMMA NoRaceBeforeAppend ==
  ASSUME NEW cmd \in Command, NEW stream, NEW k
  PROVE  /\ Admission(cmd) \notin RaceErrors
         /\ ReadOutcome(cmd, stream) \notin RaceErrors
         /\ DraftOutcome(cmd, stream, k) \notin RaceErrors
<1>1. Admission(cmd) \notin RaceErrors
  <2>1. CASE cmd.op = "AcceptHoldingClaim"
    BY <2>1 DEF Admission, AcceptHoldingClaimAdmission, RaceErrors, Ok
  <2>2. CASE cmd.op = "MintIdentity"
    BY <2>2 DEF Admission, MintIdentityAdmission, RaceErrors, Ok
  <2>3. CASE cmd.op \notin {"AcceptHoldingClaim", "MintIdentity"}
    BY <2>3 DEF Admission, RaceErrors, Ok
  <2>4. QED
    BY <2>1, <2>2, <2>3
<1>2. ReadOutcome(cmd, stream) \notin RaceErrors
  <2>1. CASE cmd.op = "CorrectFact"
    BY <2>1 DEF ReadOutcome, CorrectFactRead, RaceErrors, Ok
  <2>2. CASE cmd.op = "MintIdentity"
    BY <2>2 DEF ReadOutcome, MintIdentityRead, RaceErrors, Ok
  <2>3. CASE cmd.op = "ObserveClaimedHolding"
    BY <2>3 DEF ReadOutcome, ObserveClaimedHoldingRead, RaceErrors, Ok
  <2>4. CASE ~ReadsStream(cmd)
    BY <2>4, UnreadStream DEF RaceErrors, Ok
  <2>5. QED
    BY <2>1, <2>2, <2>3, <2>4 DEF ReadsStream
<1>3. DraftOutcome(cmd, stream, k) \notin RaceErrors
  <2>1. CASE cmd.op = "MintIdentity"
    BY <2>1 DEF DraftOutcome, MintIdentityOutcome, RaceErrors, Ok
  <2>2. CASE cmd.op \in {"ObserveHolding", "AcceptHoldingClaim"}
    BY <2>2 DEF DraftOutcome, StatedOutcome, RaceErrors, Ok
  <2>3. CASE cmd.op \in {"CorrectFact", "ObserveClaimedHolding"}
    BY <2>3 DEF DraftOutcome, RecordedOutcome, RaceErrors, Ok
  <2>4. QED
    BY <2>1, <2>2, <2>3, CommandOfOp
<1>4. QED
  BY <1>1, <1>2, <1>3

\* A fact given the next reference keeps the stream it is appended to addressed.
LEMMA AppendAddressed ==
  ASSUME NEW name, NEW stream, Addressed(name, stream), NEW f \in Fact,
         f.ref = NextRef(name, stream)
  PROVE  Addressed(name, Append(stream, f))
<1> DEFINE n == Len(stream)
<1>1. /\ stream \in Seq(Fact) /\ n \in Nat
      /\ \A i \in 1..n : stream[i].ref = [stream |-> name, sequence |-> i]
  BY DEF Addressed
<1>2. /\ Append(stream, f) \in Seq(Fact) /\ Len(Append(stream, f)) = n + 1
      /\ \A i \in 1..n : Append(stream, f)[i] = stream[i]
      /\ Append(stream, f)[n + 1] = f
  BY <1>1
<1>3. f.ref = [stream |-> name, sequence |-> n + 1]
  BY DEF NextRef
<1> HIDE DEF n
<1>4. ASSUME NEW i \in 1..(n + 1)
      PROVE  Append(stream, f)[i].ref = [stream |-> name, sequence |-> i]
  <2>1. CASE i = n + 1
    BY <1>2, <1>3, <2>1
  <2>2. CASE i # n + 1
    <3>1. i \in 1..n
      BY <1>1, <2>2
    <3>2. QED
      BY <1>1, <1>2, <3>1
  <2>3. QED
    BY <2>1, <2>2
<1>5. QED
  BY <1>2, <1>4 DEF Addressed

\* Knowledge time of the last fact is a number, zero for an empty stream, and
\* the one of a fact just appended.
LEMMA KnowledgeOfLast ==
  ASSUME NEW stream \in Seq(Fact)
  PROVE  /\ LastKnowledge(stream) \in Nat
         /\ \A f : LastKnowledge(Append(stream, f)) = f.knowledge
<1>1. LastKnowledge(stream) \in Nat
  BY FactFields DEF LastKnowledge, Unset
<1>2. ASSUME NEW f PROVE LastKnowledge(Append(stream, f)) = f.knowledge
  BY DEF LastKnowledge
<1>3. QED
  BY <1>1, <1>2

-----------------------------------------------------------------------------
(* Counting answers *)

\* A finite set counts at least as much as what a function maps it onto, and as
\* much when the function is one to one.
LEMMA CountOfImage ==
  ASSUME NEW S, IsFiniteSet(S), NEW T, NEW f \in [S -> T],
         \A t \in T : \E x \in S : f[x] = t
  PROVE  /\ IsFiniteSet(T)
         /\ Cardinality(T) <= Cardinality(S)
         /\ (\A x, y \in S : f[x] = f[y] => x = y) => Cardinality(T) = Cardinality(S)
<1>1. f \in Surjection(S, T)
  BY DEF Surjection
<1>2. (\A x, y \in S : f[x] = f[y] => x = y) => f \in Injection(S, T)
  BY DEF Injection, IsInjective
<1>3. QED
  BY <1>1, <1>2, FS_Surjection
=============================================================================

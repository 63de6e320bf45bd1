---------------------------- MODULE AtomicLedger ----------------------------
(***************************************************************************)
(* What the ledger promises: every accepted use case happens in one step,  *)
(* on the stream as it is at that step.  The application service over a    *)
(* real store (MemoryLedger) takes several steps and is shown to implement *)
(* this specification; the properties of what is recorded are stated here. *)
(*                                                                         *)
(* A refused request leaves no trace in the log, so refusals are           *)
(* stuttering steps.                                                       *)
(***************************************************************************)
EXTENDS UseCases

CONSTANTS
  Commands,    \* the commands callers may issue
  Readings,    \* the instants the wall clock may show
  Moments      \* the instants queries are asked at

ASSUME CommandsAssumption == Commands \subseteq Command
ASSUME ReadingsAssumption == Readings \subseteq Instant
ASSUME MomentsAssumption == Moments \subseteq Nat

VARIABLE log   \* log[s] is the stream named s; an absent stream is empty

TypeOK == log \in [Streams -> Seq(Fact)]

Init == log = [s \in Streams |-> <<>>]

\* The request is refused by no check, and its draft becomes the next fact.
Record(cmd, k) ==
  LET stream == log[cmd.stream] IN
  /\ Admission(cmd) = Ok
  /\ ReadOutcome(cmd, stream) = Ok
  /\ DraftOutcome(cmd, stream, k) = Ok
  /\ AppendOutcome(cmd.stream, stream, Expect(cmd, stream), k) = Ok
  /\ log' = [log EXCEPT ![cmd.stream] =
               Append(stream, NewFact(cmd.stream, stream, Draft(cmd, stream, k)))]

ObserveHolding(cmd, k) == cmd.op = "ObserveHolding" /\ Record(cmd, k)

CorrectFact(cmd, k) == cmd.op = "CorrectFact" /\ Record(cmd, k)

AcceptHoldingClaim(cmd, k) == cmd.op = "AcceptHoldingClaim" /\ Record(cmd, k)

MintIdentity(cmd, k) == cmd.op = "MintIdentity" /\ Record(cmd, k)

ObserveClaimedHolding(cmd, k) == cmd.op = "ObserveClaimedHolding" /\ Record(cmd, k)

Next ==
  \E cmd \in Commands, k \in Readings :
    \/ ObserveHolding(cmd, k)
    \/ CorrectFact(cmd, k)
    \/ AcceptHoldingClaim(cmd, k)
    \/ MintIdentity(cmd, k)
    \/ ObserveClaimedHolding(cmd, k)

Spec == Init /\ [][Next]_log
-----------------------------------------------------------------------------
(* Properties of what is recorded *)

Queries == [effective : Moments, knowledge : Moments]

Mints(stream) == {i \in DOMAIN stream : IsA(stream[i], "EntityMinted")}

\* A HoldingObserved derived from a claim, as opposed to one a source stated.
Derived(f) == IsA(f, "HoldingObserved") /\ f.inputs # {}

\* Two facts of a stream are always ordered on the knowledge axis, in the order
\* they were appended, whatever the wall clock does: repeated or backward
\* readings are refused by Store.Append.
KnowledgeMonotonic ==
  \A s \in Streams : \A i, j \in DOMAIN log[s] :
    i < j => log[s][i].knowledge < log[s][j].knowledge

\* A reference once handed out names the same fact for ever: it is the fact's
\* position, and appending changes nothing at or before it.
RefsAreStable ==
  [][\A s \in Streams : \A i \in DOMAIN log[s] :
       /\ i \in DOMAIN log'[s]
       /\ log'[s][i] = log[s][i]
       /\ log'[s][i].ref = [stream |-> s, sequence |-> i]]_log

\* No look-ahead: what is visible at a coordinate the stream has already reached
\* on the knowledge axis never changes, so every answer computed there
\* (resolution, unresolved claims, position) replays.
PastIsFixed ==
  [][\A s \in Streams, a \in Queries :
       a.knowledge <= LastKnowledge(log[s])
         => VisibleAt(log'[s], a) = VisibleAt(log[s], a)]_log

\* A retraction removes its observation from every projection from the moment it
\* is known, at every effective time the observation covers, and from none
\* before: CorrectFact takes the interval of the fact it corrects.
RetractionCoversItsFact ==
  \A s \in Streams, a \in Queries : \A i \in DOMAIN log[s] :
    LET f == log[s][i] IN
    IsA(f, "HoldingObserved") =>
      (f \in Observations(log[s], f.payload.account, f.payload.instrument, a)
         <=> /\ Visible(f, a)
             /\ ~\E j \in DOMAIN log[s] :
                  /\ IsA(log[s][j], "FactCorrected")
                  /\ log[s][j].payload.kind = "retracted"
                  /\ log[s][j].payload.corrects = f.ref
                  /\ log[s][j].knowledge <= a.knowledge)

\* No mint begins while an earlier mint for the same thing is in force:
\* MintIdentity resolves first, at the coordinate the mint would occupy.
MintFindsNoMint ==
  \A s \in Streams : \A i, j \in Mints(log[s]) :
    /\ i < j
    /\ Resolves(log[s][i], log[s][j].payload.bornFrom)
    => ~Contains(log[s][i].effective, log[s][j].effective.from)

\* A derived observation can be derived again: at the coordinate it recorded,
\* provided that was not in its future, the stream of any later time yields the
\* same identities, the same inputs and the same confidence.
DerivationReplays ==
  \A s \in Streams : \A j \in DOMAIN log[s] :
    LET f == log[s][j] IN
    Derived(f) /\ f.asOf.knowledge <= f.knowledge =>
      \E i \in 1..(j - 1) :
        /\ IsA(log[s][i], "HoldingClaimed")
        /\ f.effective = log[s][i].effective
        /\ CanDerive(log[s], log[s][i], f.asOf)
        /\ DeriveHoldingObserved(log[s], log[s][i], f.asOf)
             = [payload |-> f.payload, inputs |-> f.inputs, confidence |-> f.confidence]

\* A claim that was answered is listed by UnresolvedClaims again, at a later
\* knowledge of the same effective time, only once every mint that answered it has
\* been retracted: no further mint of the same thing, no correction of anything
\* else takes an answer back.
AnsweredUntilRetracted ==
  \A s \in Streams, b \in Queries : \A u \in Unresolved(log[s], b) :
    \A k \in Moments :
      k \in log[s][u[1].sequence].knowledge..b.knowledge =>
        \A m \in Answering(log[s], u[2], NewAsOf(b.effective, k)) :
          m.ref \in Retracted(log[s], b)

\* Every mint among the inputs of f that was born from a spelling of this claim
\* has this kind: pre-images are compared "for claims already known to share a
\* kind" (CanonicalPreimage).
MintedAs(kind, claim, f, stream) ==
  \A m \in Mints(stream) :
    /\ stream[m].ref \in f.inputs
    /\ Preimage[stream[m].payload.bornFrom] = Preimage[claim]
    => stream[m].payload.entity.kind = kind

\* Resolution agrees with minting: where the mints a derived observation names are
\* of the kinds its claim is about, the account and the instrument it is recorded
\* for are the very identities, kind and all, that DeriveFromClaim gives the claim,
\* whatever spelling of it the mints were born from.
DerivedNamesItsClaim ==
  \A s \in Streams : \A j \in DOMAIN log[s] :
    LET f == log[s][j] IN
    Derived(f) =>
      \E i \in 1..(j - 1) :
        LET claimed == log[s][i].payload IN
        /\ IsA(log[s][i], "HoldingClaimed")
        /\ log[s][i].ref \in f.inputs
        /\ MintedAs("account", claimed.account, f, log[s])
             => f.payload.account = DeriveFromClaim("account", claimed.account)
        /\ MintedAs("instrument", claimed.instrument, f, log[s])
             => f.payload.instrument = DeriveFromClaim("instrument", claimed.instrument)

-----------------------------------------------------------------------------
(* What comments in the code say of it, and the code does not do *)

\* "Resolution goes through recorded identifier assertions (ADR-0007), so that a
\* wrong match is a fact that can be retracted rather than a computation that
\* cannot be undone" (Derive).  Resolve reads mints and never corrections: an
\* observation is derived through a mint whose retraction is already recorded and
\* known at the coordinate of the derivation.
RetractedMintsAnswerNothing ==
  \A s \in Streams : \A j \in DOMAIN log[s] :
    LET f == log[s][j] IN
    Derived(f) =>
      \A m \in Mints(log[s]) :
        log[s][m].ref \in Retracted(SubSeq(log[s], 1, j - 1), f.asOf)
          => log[s][m].ref \notin f.inputs

\* "Confidence propagates as the weakest input. A holding resolved through a mint
\* FDOS is unsure of is not more trustworthy than that mint"
\* (DeriveHoldingObserved).  The record is built with the confidence of the claim
\* alone, so a derived observation can be stronger than a mint among its inputs.
WeakestInputDecides ==
  \A s \in Streams : \A j \in DOMAIN log[s] :
    Derived(log[s][j]) =>
      \A i \in 1..(j - 1) :
        log[s][i].ref \in log[s][j].inputs => log[s][i].confidence <= log[s][j].confidence
=============================================================================

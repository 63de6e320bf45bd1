------------------------------- MODULE Domain -------------------------------
(***************************************************************************)
(* The pure ledger domain: libs/ledger/domain.  A stream is a sequence of  *)
(* facts; everything a caller can learn from it is one of the read         *)
(* operators below, evaluated at a query coordinate.                       *)
(*                                                                         *)
(* The canonical pre-image that decides whether two claims name one thing  *)
(* (libs/kernel/identity) is the constant function Preimage: resolution    *)
(* and minting both use only its equality.                                 *)
(***************************************************************************)
EXTENDS Temporal, Sequences, FiniteSets, FiniteSetsExt

CONSTANTS
  Streams,      \* the stream names a caller may use
  EmptyName,    \* the empty string as a stream name, possibly in Streams
  Claims,       \* identifier claims as a provider stated them
  NoClaim,      \* the zero Claim{}
  Preimage,     \* [Claims -> ...]: Ruleset.CanonicalPreimage
  Quantities    \* holding quantities

ASSUME DomainAssumption ==
  /\ NoClaim \notin Claims
  /\ DOMAIN Preimage = Claims

EntityKinds == {"instrument", "party", "account", "ledger_stream"}

\* DeriveFromClaim hashes the kind and the pre-image of the folded claim: the
\* identifier is the pair.
DeriveFromClaim(kind, claim) == [kind |-> kind, seed |-> Preimage[claim]]

EntityID == [kind : EntityKinds, seed : {Preimage[c] : c \in Claims}]

\* Ordinal, from asserted (1) to disputed (5); 0 is the invalid unset level.
Confidence == 1..5

Weakest(levels) == Max(levels \union {1})

Ref == [stream : Streams, sequence : Nat]

CorrectionKinds == {"corrected", "retracted", "superseded"}

HoldingObserved ==
  [type : {"HoldingObserved"}, account : EntityID, instrument : EntityID,
   quantity : Quantities]

HoldingClaimed ==
  [type : {"HoldingClaimed"}, account : Claims, instrument : Claims,
   quantity : Quantities]

EntityMinted == [type : {"EntityMinted"}, entity : EntityID, bornFrom : Claims]

FactCorrected == [type : {"FactCorrected"}, corrects : Ref, kind : CorrectionKinds]

Payload == HoldingObserved \union HoldingClaimed \union EntityMinted \union FactCorrected

(***************************************************************************)
(* A fact: its address, its coordinates and the confidence of its          *)
(* provenance.  The provenance of a derived fact carries the content       *)
(* address of its derivation; the model carries the two parts of what is   *)
(* hashed that decide anything: the inputs the derivation names and the    *)
(* query coordinate it was made at.  A fact a source stated has none.      *)
(***************************************************************************)
Fact ==
  [ref : Ref, effective : NewInterval, knowledge : Instant,
   confidence : Confidence, inputs : SUBSET Ref, asOf : AsOf,
   kind : {"occurrence", "observation"}, payload : Payload]

IsA(f, type) == f.payload.type = type

-----------------------------------------------------------------------------
(* Stream *)

\* Fault of NextRef: sequences counted from zero.
NextRefFault(name, stream) == [stream |-> name, sequence |-> Len(stream)]

NextRef(name, stream) == [stream |-> name, sequence |-> Len(stream) + 1]

\* Get refuses another stream's reference, sequence 0 and one past the end.
HasFact(name, stream, ref) ==
  /\ ref.stream = name
  /\ ref.sequence \in 1..Len(stream)

\* The order of VisibleAt: effective_from, then knowledge, then sequence.
Precedes(f, g) ==
  \/ f.effective.from < g.effective.from
  \/ /\ f.effective.from = g.effective.from
     /\ \/ f.knowledge < g.knowledge
        \/ f.knowledge = g.knowledge /\ f.ref.sequence < g.ref.sequence

VisibleAt(stream, asOf) == {stream[i] : i \in {j \in DOMAIN stream : Visible(stream[j], asOf)}}

FirstOf(facts) == CHOOSE f \in facts : \A g \in facts \ {f} : Precedes(f, g)

LastOf(facts) == CHOOSE f \in facts : \A g \in facts \ {f} : Precedes(g, f)

Corrections(stream, asOf) ==
  {f.payload : f \in {g \in VisibleAt(stream, asOf) : IsA(g, "FactCorrected")}}

-----------------------------------------------------------------------------
(* Resolution *)

\* Fault of Resolves: any mint answers.
ResolvesFault(f, claim) == IsA(f, "EntityMinted")

\* Matching is on the pre-image alone: the kind of the minted entity plays no part.
Resolves(f, claim) ==
  /\ IsA(f, "EntityMinted")
  /\ Preimage[f.payload.bornFrom] = Preimage[claim]

\* Fault of Answering: two mints of one thing are no answer.
AnsweringFault(stream, claim, asOf) ==
  {f \in VisibleAt(stream, asOf) :
     /\ Resolves(f, claim)
     /\ \A g \in VisibleAt(stream, asOf) : Resolves(g, claim) => g = f}

Answering(stream, claim, asOf) == {f \in VisibleAt(stream, asOf) : Resolves(f, claim)}

IsResolved(stream, claim, asOf) == Answering(stream, claim, asOf) # {}

\* The mint that answers a claim: the first one visible, in the stream's order.
ResolveWithTrace(stream, claim, asOf) == FirstOf(Answering(stream, claim, asOf))

\* Every claim a visible HoldingClaimed names that no mint answers.
Unresolved(stream, asOf) ==
  UNION {{<<f.ref, c>> : c \in {d \in {f.payload.account, f.payload.instrument} :
                                  ~IsResolved(stream, d, asOf)}} :
         f \in {g \in VisibleAt(stream, asOf) : IsA(g, "HoldingClaimed")}}

CanDerive(stream, claimed, asOf) ==
  /\ IsResolved(stream, claimed.payload.account, asOf)
  /\ IsResolved(stream, claimed.payload.instrument, asOf)

\* The observation derived from a claim fact, and the facts the derivation names.
DeriveHoldingObserved(stream, claimed, asOf) ==
  LET account    == ResolveWithTrace(stream, claimed.payload.account, asOf)
      instrument == ResolveWithTrace(stream, claimed.payload.instrument, asOf)
  IN  [payload |-> [type |-> "HoldingObserved",
                    account    |-> account.payload.entity,
                    instrument |-> instrument.payload.entity,
                    quantity   |-> claimed.payload.quantity],
       inputs |-> {claimed.ref, account.ref, instrument.ref},
       confidence |-> claimed.confidence]

MintFor(kind, claim) ==
  [type |-> "EntityMinted", entity |-> DeriveFromClaim(kind, claim), bornFrom |-> claim]

-----------------------------------------------------------------------------
(* Projection *)

Retracted(stream, asOf) ==
  {c.corrects : c \in {d \in Corrections(stream, asOf) : d.kind = "retracted"}}

\* The observations a projection consumes.
Observations(stream, account, instrument, asOf) ==
  {f \in VisibleAt(stream, asOf) :
     /\ f.ref \notin Retracted(stream, asOf)
     /\ IsA(f, "HoldingObserved")
     /\ f.payload.account = account
     /\ f.payload.instrument = instrument}

\* No observation is ErrNoFacts; otherwise the last one in order states the
\* quantity, and the trace and the confidence are those of all that were folded.
HasPosition(stream, account, instrument, asOf) ==
  Observations(stream, account, instrument, asOf) # {}

ProjectPosition(stream, account, instrument, asOf) ==
  LET consumed == Observations(stream, account, instrument, asOf)
  IN  [quantity   |-> LastOf(consumed).payload.quantity,
       inputs     |-> {f.ref : f \in consumed},
       confidence |-> Weakest({f.confidence : f \in consumed})]
=============================================================================

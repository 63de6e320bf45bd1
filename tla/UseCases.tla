------------------------------ MODULE UseCases ------------------------------
(***************************************************************************)
(* The write use cases of libs/ledger/app/usecases.go, cut where the code  *)
(* touches something shared.  Each is, in order:                           *)
(*                                                                         *)
(*   Admission      checks made before the serialised region is entered    *)
(*   ReadOutcome    what is decided from the stream loaded in the region   *)
(*   DraftOutcome   what is decided once knowledge time has been read      *)
(*   Draft          the envelope and the payload handed to Store.Append    *)
(*   Expect         the precondition handed to Store.Append                *)
(*                                                                         *)
(* An outcome is Ok or the error the use case returns.  The order in which *)
(* a request meets these steps belongs to the modules that use this one.   *)
(***************************************************************************)
EXTENDS Domain

Ok == "ok"

(***************************************************************************)
(* Commands.  `complete` stands for what provenance.Observed requires:     *)
(* source, collected_at and interpreter set and a known confidence level.  *)
(* `addressed` stands for Source.CheckContentAddress.  Reasons, reference  *)
(* bindings and the text of sources decide nothing and are left out.       *)
(***************************************************************************)
ObserveHoldingCommand ==
  [op : {"ObserveHolding"}, stream : Streams, account : EntityID,
   instrument : EntityID, quantity : Quantities, effective : Interval,
   confidence : Confidence, complete : BOOLEAN]

CorrectFactCommand ==
  [op : {"CorrectFact"}, stream : Streams, corrects : Ref,
   kind : CorrectionKinds \union {"unspecified"},
   confidence : Confidence, complete : BOOLEAN]

AcceptHoldingClaimCommand ==
  [op : {"AcceptHoldingClaim"}, stream : Streams,
   account : Claims \union {NoClaim}, instrument : Claims \union {NoClaim},
   quantity : Quantities, effective : Interval,
   confidence : Confidence, complete : BOOLEAN, addressed : BOOLEAN]

MintIdentityCommand ==
  [op : {"MintIdentity"}, stream : Streams,
   kind : EntityKinds \union {"unspecified"}, claim : Claims \union {NoClaim},
   answers : [stream : Streams \union {EmptyName}, sequence : Nat],
   effective : Interval,
   confidence : Confidence, complete : BOOLEAN, addressed : BOOLEAN]

ObserveClaimedHoldingCommand ==
  [op : {"ObserveClaimedHolding"}, stream : Streams, claim : Ref, asOf : AsOf,
   complete : BOOLEAN]

Command ==
  ObserveHoldingCommand \union CorrectFactCommand \union AcceptHoldingClaimCommand
    \union MintIdentityCommand \union ObserveClaimedHoldingCommand

-----------------------------------------------------------------------------
(* Before the region *)

AcceptHoldingClaimAdmission(cmd) ==
  IF ~cmd.addressed THEN "ErrMalformedSource"
  ELSE IF NoClaim \in {cmd.account, cmd.instrument} THEN "ErrIncompleteEnvelope"
  ELSE Ok

\* Fault of MintIdentityAdmission: the kind goes unchecked.
MintIdentityAdmissionFault(cmd) ==
  IF ~cmd.addressed THEN "ErrMalformedSource"
  ELSE IF cmd.claim = NoClaim THEN "ErrIncompleteEnvelope"
  ELSE Ok

MintIdentityAdmission(cmd) ==
  IF ~cmd.addressed THEN "ErrMalformedSource"
  ELSE IF cmd.kind \notin EntityKinds THEN "ErrUnknownKind"
  ELSE IF cmd.claim = NoClaim THEN "ErrIncompleteEnvelope"
  ELSE Ok

Admission(cmd) ==
  CASE cmd.op = "AcceptHoldingClaim" -> AcceptHoldingClaimAdmission(cmd)
    [] cmd.op = "MintIdentity"       -> MintIdentityAdmission(cmd)
    [] OTHER                         -> Ok

-----------------------------------------------------------------------------
(* In the region, on the stream that was loaded *)

\* ObserveHolding and AcceptHoldingClaim never load the stream.
ReadsStream(cmd) == cmd.op \in {"CorrectFact", "MintIdentity", "ObserveClaimedHolding"}

CorrectFactRead(cmd, stream) ==
  IF stream = <<>> THEN "ErrStreamNotFound"
  ELSE IF ~HasFact(cmd.stream, stream, cmd.corrects) THEN "ErrNotFound"
  ELSE IF cmd.kind \notin CorrectionKinds THEN "ErrUnknownKind"
  ELSE Ok

\* An absent stream is an empty one to a mint, unless it cannot be named.
MintIdentityRead(cmd, stream) ==
  IF stream = <<>> /\ cmd.stream = EmptyName THEN "ErrEmptyType" ELSE Ok

ObserveClaimedHoldingRead(cmd, stream) ==
  IF stream = <<>> THEN "ErrStreamNotFound"
  ELSE IF ~HasFact(cmd.stream, stream, cmd.claim) THEN "ErrNotFound"
  ELSE IF ~IsA(stream[cmd.claim.sequence], "HoldingClaimed") THEN "ErrEmptyType"
  ELSE IF ~CanDerive(stream, stream[cmd.claim.sequence], cmd.asOf) THEN "ErrUnresolved"
  ELSE Ok

ReadOutcome(cmd, stream) ==
  CASE cmd.op = "CorrectFact"           -> CorrectFactRead(cmd, stream)
    [] cmd.op = "MintIdentity"          -> MintIdentityRead(cmd, stream)
    [] cmd.op = "ObserveClaimedHolding" -> ObserveClaimedHoldingRead(cmd, stream)
    [] OTHER                            -> Ok

-----------------------------------------------------------------------------
(* In the region, once knowledge time k has been read *)

\* Fault of MintIdentityResolves: the claim is resolved as of now.
MintIdentityResolvesFault(cmd, stream, k) == IsResolved(stream, cmd.claim, NewAsOf(k, k))

\* The claim is resolved at the coordinate the mint would occupy.
MintIdentityResolves(cmd, stream, k) ==
  IsResolved(stream, cmd.claim, NewAsOf(cmd.effective.from, k))

MintIdentityOutcome(cmd, stream, k) ==
  IF cmd.effective.from = Unset THEN "ErrZeroInstant"
  ELSE IF MintIdentityResolves(cmd, stream, k) THEN "ErrAlreadyMinted"
  ELSE IF ~cmd.complete THEN "ErrIncomplete"
  ELSE Ok

\* Fault of StatedOutcome: the interval is not checked.
StatedOutcomeFault(cmd) == IF ~cmd.complete THEN "ErrIncomplete" ELSE Ok

\* ObserveHolding and AcceptHoldingClaim: temporal.Assign, provenance.Observed.
StatedOutcome(cmd) ==
  IF cmd.effective.from = Unset THEN "ErrZeroInstant"
  ELSE IF ~cmd.complete THEN "ErrIncomplete"
  ELSE Ok

\* CorrectFact and ObserveClaimedHolding take the interval of a recorded fact.
RecordedOutcome(cmd) == IF ~cmd.complete THEN "ErrIncomplete" ELSE Ok

DraftOutcome(cmd, stream, k) ==
  CASE cmd.op = "MintIdentity" -> MintIdentityOutcome(cmd, stream, k)
    [] cmd.op \in {"ObserveHolding", "AcceptHoldingClaim"} -> StatedOutcome(cmd)
    [] OTHER -> RecordedOutcome(cmd)

ObserveHoldingDraft(cmd, k) ==
  [effective |-> cmd.effective, knowledge |-> k, confidence |-> cmd.confidence,
   inputs |-> {}, asOf |-> ZeroAsOf, kind |-> "observation",
   payload |-> [type |-> "HoldingObserved", account |-> cmd.account,
                instrument |-> cmd.instrument, quantity |-> cmd.quantity]]

\* Fault of CorrectFactDraft: a correction in force for one instant only.
CorrectFactDraftFault(cmd, stream, k) ==
  LET begins == stream[cmd.corrects.sequence].effective.from IN
  [effective |-> [from |-> begins, to |-> begins], knowledge |-> k,
   confidence |-> cmd.confidence, inputs |-> {}, asOf |-> ZeroAsOf,
   kind |-> "observation",
   payload |-> [type |-> "FactCorrected", corrects |-> cmd.corrects,
                kind |-> cmd.kind]]

CorrectFactDraft(cmd, stream, k) ==
  [effective |-> stream[cmd.corrects.sequence].effective, knowledge |-> k,
   confidence |-> cmd.confidence, inputs |-> {}, asOf |-> ZeroAsOf,
   kind |-> "observation",
   payload |-> [type |-> "FactCorrected", corrects |-> cmd.corrects,
                kind |-> cmd.kind]]

AcceptHoldingClaimDraft(cmd, k) ==
  [effective |-> cmd.effective, knowledge |-> k, confidence |-> cmd.confidence,
   inputs |-> {}, asOf |-> ZeroAsOf, kind |-> "observation",
   payload |-> [type |-> "HoldingClaimed", account |-> cmd.account,
                instrument |-> cmd.instrument, quantity |-> cmd.quantity]]

\* The claim fact a mint answers is optional, and never looked up.
MintIdentityDraft(cmd, k) ==
  [effective |-> cmd.effective, knowledge |-> k, confidence |-> cmd.confidence,
   inputs |-> IF cmd.answers.stream # EmptyName THEN {cmd.answers} ELSE {},
   asOf |-> ZeroAsOf, kind |-> "occurrence",
   payload |-> MintFor(cmd.kind, cmd.claim)]

ObserveClaimedHoldingDraft(cmd, stream, k) ==
  LET claimed  == stream[cmd.claim.sequence]
      observed == DeriveHoldingObserved(stream, claimed, cmd.asOf)
  IN  [effective |-> claimed.effective, knowledge |-> k,
       confidence |-> observed.confidence, inputs |-> observed.inputs,
       asOf |-> cmd.asOf, kind |-> "observation", payload |-> observed.payload]

Draft(cmd, stream, k) ==
  CASE cmd.op = "ObserveHolding"     -> ObserveHoldingDraft(cmd, k)
    [] cmd.op = "CorrectFact"        -> CorrectFactDraft(cmd, stream, k)
    [] cmd.op = "AcceptHoldingClaim" -> AcceptHoldingClaimDraft(cmd, k)
    [] cmd.op = "MintIdentity"       -> MintIdentityDraft(cmd, k)
    [] OTHER                         -> ObserveClaimedHoldingDraft(cmd, stream, k)

-----------------------------------------------------------------------------
(* What Store.Append is asked, and what every store does with it *)

ExpectAny == [checked |-> FALSE, length |-> 0]

AtLength(n) == [checked |-> TRUE, length |-> n]

\* Fault of Expect: no precondition reaches the store.
ExpectFault(cmd, stream) == ExpectAny

Expect(cmd, stream) == IF ReadsStream(cmd) THEN AtLength(Len(stream)) ELSE ExpectAny

LastKnowledge(stream) == IF stream = <<>> THEN Unset ELSE stream[Len(stream)].knowledge

\* Fault of AppendOutcome: a repeated reading is let through.
AppendOutcomeFault(name, stream, expect, k) ==
  IF name = EmptyName THEN "ErrEmptyType"
  ELSE IF expect.checked /\ Len(stream) # expect.length THEN "ErrStaleRead"
  ELSE IF k < LastKnowledge(stream) THEN "ErrNonMonotonicKnowledge"
  ELSE Ok

AppendOutcome(name, stream, expect, k) ==
  IF name = EmptyName THEN "ErrEmptyType"
  ELSE IF expect.checked /\ Len(stream) # expect.length THEN "ErrStaleRead"
  ELSE IF k <= LastKnowledge(stream) THEN "ErrNonMonotonicKnowledge"
  ELSE Ok

\* The fact a draft becomes: the store assigns the reference from its own length.
NewFact(name, stream, d) ==
  [ref |-> NextRef(name, stream), effective |-> d.effective,
   knowledge |-> d.knowledge, confidence |-> d.confidence, inputs |-> d.inputs,
   asOf |-> d.asOf, kind |-> d.kind, payload |-> d.payload]
=============================================================================

------------------------------ MODULE Exchange ------------------------------
(***************************************************************************)
(* A message on its way: one side encodes a value, the other decodes what  *)
(* arrives.                                                                *)
(*                                                                         *)
(* The contracts have no required fields and producers are not FDOS's own, *)
(* so a message may arrive otherwise than EncodeX writes it.  The producer *)
(* is external: Altered says what it may do, and module Producers is the   *)
(* one the runs use.  The codecs are those of Wire.                        *)
(***************************************************************************)
EXTENDS Wire

CONSTANTS
  Outgoing,     \* the values that are sent, each with its sort
  Altered(_),   \* the messages a producer may send in place of one
  MaxChanges    \* how many fields differ from what EncodeX writes

VARIABLES
  sent,       \* the value on its way, if any
  message,    \* what has been written, or made of it
  changes,    \* fields that differ so far
  received    \* what decoding returned: a value, or nothing

exchange == <<sent, message, changes, received>>

Encode(sort, v) ==
  CASE sort = "fact"       -> EncodeFact(v)
    [] sort = "submission" -> EncodeHoldingClaimSubmission(v)
    [] sort = "context"    -> EncodeRoundingContext(v)
    [] sort = "money"      -> EncodeMoney(v)

Decode(sort, w) ==
  CASE sort = "fact"       -> DecodeFact(w)
    [] sort = "submission" -> DecodeHoldingClaimSubmission(w)
    [] sort = "context"    -> DecodeRoundingContext(w)
    [] sort = "money"      -> DecodeMoney(w)

-----------------------------------------------------------------------------
(* What the constructors build *)

Claims == {c \in [scheme : Text, value : Text] : IsClaim(c)}

EntityIDs ==
  {id \in [kind : DOMAIN KindText, value : [uuid : Text]] : CanRestore(id.kind, id.value)}

References ==
  {list \in Seq([dataset : Text, version : Text]) :
     \A i \in DOMAIN list : IsReferenceBinding(list[i])}

Sources == {s \in Text : IsSource(s)}

Interpreters == {i \in [name : Text, version : Text] : IsInterpreter(i)}

Provenances ==
  [source : Sources, collectedAt : Instant, publishedAt : Nat, interpreter : Interpreters,
   derivation : Optional({ref \in Text : IsRef(ref)}), confidence : Levels]

Refs == [stream : Text \ {<<>>}, sequence : Nat \ {0}]

Payloads ==
  [type : {"HoldingObserved"}, account : EntityIDs, instrument : EntityIDs, quantity : Quantities]
    \union
  [type : {"HoldingClaimed"}, account : Claims, instrument : Claims, quantity : Quantities]
    \union
  [type : {"EntityMinted"}, entity : EntityIDs, bornFrom : Claims]
    \union
  [type : {"FactCorrected"}, corrects : Refs, kind : {"corrected", "retracted", "superseded"},
   reason : Text]

Facts ==
  [ref : Refs, kind : {"occurrence", "observation"}, payload : Payloads,
   envelope : [coordinates : [effective : NewInterval, knowledge : Instant],
               provenance : Provenances, references : References]]

\* Neither the stream nor the time of collection need be set.
Submissions ==
  [stream : Text, account : Claims, instrument : Claims, quantity : Quantities,
   effective : NewInterval, source : Sources, collectedAt : Nat, interpreter : Interpreters,
   confidence : Levels, references : References]

ASSUME OutgoingAssumption ==
  Outgoing \subseteq
    [sort : {"fact"}, value : Facts] \union [sort : {"submission"}, value : Submissions]
      \union [sort : {"context"}, value : RoundingContexts]
      \union [sort : {"money"}, value : Monies]

ASSUME MaxChangesAssumption == MaxChanges \in Nat

-----------------------------------------------------------------------------
ExchangeInit == sent = {} /\ message = {} /\ changes = 0 /\ received = {}

Send(sort, v) ==
  /\ message = {}
  /\ sent' = {[sort |-> sort, value |-> v]}
  /\ message' = {Encode(sort, v)}
  /\ changes' = 0
  /\ received' = {}

\* A producer that fills one field differently.
Alter ==
  /\ changes < MaxChanges /\ received = {}
  /\ \E m \in message : \E w \in Altered(m) : message' = {w}
  /\ changes' = changes + 1
  /\ UNCHANGED <<sent, received>>

Receive ==
  /\ \E s \in sent : message # {} /\ received' = {[answer |-> Decode(s.sort, message), of |-> message]}
  /\ message' = {}
  /\ UNCHANGED <<sent, changes>>

Deliver == (\E o \in Outgoing : Send(o.sort, o.value)) \/ Alter \/ Receive

ExchangeSpec == ExchangeInit /\ [][Deliver]_exchange

-----------------------------------------------------------------------------
(* Properties *)

\* A value as text spells it: an amount loses a positive exponent.
Spelled(x) == IF "quantity" \in DOMAIN x THEN [x EXCEPT !.quantity.amount = Plain(@)] ELSE x

AsWritten(s) ==
  CASE s.sort = "fact"  -> [s.value EXCEPT !.payload = Spelled(@)]
    [] s.sort = "money" -> [s.value EXCEPT !.amount = Plain(@)]
    [] OTHER            -> Spelled(s.value)

\* Domain to wire to domain is the identity: what was encoded decodes to itself,
\* the absent apart from zero, for every payload of a fact, for submissions, for
\* rounding contexts and for money (EncodeFact, DecodeFact and their parts).
RoundTrips ==
  \A s \in sent, r \in received : changes = 0 => r.answer = {AsWritten(s)}

\* A time of publication that is no instant is dropped, and nothing else is.
Legible(sort, m) ==
  IF sort # "fact" THEN m
  ELSE [m EXCEPT !.envelope =
         {[e EXCEPT !.provenance = {[p EXCEPT !.published_at = @ \ {Unset}] : p \in @}] : e \in @}]

\* Decoding invents nothing: whatever a producer left out, a message that is
\* accepted is the encoding of the value it was accepted as.  A missing field is
\* never taken for a zero, and no fact is taken for one of another type.
NothingInvented ==
  \A s \in sent, r \in received : \A v \in r.answer :
    {Encode(s.sort, v)} = {Legible(s.sort, m) : m \in r.of}
=============================================================================

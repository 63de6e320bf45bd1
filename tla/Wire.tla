-------------------------------- MODULE Wire --------------------------------
(***************************************************************************)
(* The codecs between domain values and protobuf messages:                 *)
(* libs/kernel-wire and libs/ledger-wire.                                  *)
(*                                                                         *)
(* A message is a record of its fields.  A field that may be absent (a     *)
(* message, a timestamp, an optional scalar) is a set of at most one       *)
(* value; any other field that is left out holds its zero.  A timestamp    *)
(* that is Unset is the first instant of year 1, Go's zero time.           *)
(*                                                                         *)
(* Encoding is total.  Decoding yields the set of the value it returns,    *)
(* which is empty when it returns an error: a record of decoded parts is a *)
(* set of records, empty as soon as one part is.                           *)
(***************************************************************************)
EXTENDS Provenance, Money, Identifiers

The(field) == CHOOSE x \in field : TRUE

\* The number of a name in an enum of the contracts; 0 is "unspecified".
Numbered(enum, name) == IF name \in DOMAIN enum THEN enum[name] ELSE 0

Named(enum, number) == IF number \in DOMAIN enum THEN {enum[number]} ELSE {}

-----------------------------------------------------------------------------
(* Identity *)

EncodeEntityKind(kind) ==
  Numbered([instrument |-> 1, party |-> 2, account |-> 3, ledger_stream |-> 4], kind)

DecodeEntityKind(n) == Named(<<"instrument", "party", "account", "ledger_stream">>, n)

EncodeEntityID(id) == [value |-> id.value, kind |-> EncodeEntityKind(id.kind)]

DecodeEntityID(w) ==
  {id \in UNION {[kind : DecodeEntityKind(m.kind), value : {m.value}] : m \in w} :
     CanRestore(id.kind, id.value)}

EncodeClaim(c) == [scheme |-> c.scheme, value |-> c.value]

DecodeClaim(w) == {c \in {[scheme |-> m.scheme, value |-> m.value] : m \in w} : IsClaim(c)}

-----------------------------------------------------------------------------
(* Money *)

EncodeMoney(m) == [amount |-> {TextOf(m.amount)}, currency |-> m.currency]

DecodeMoney(w) ==
  UNION {{Parse(t, m.currency) : t \in {u \in m.amount : CanParse(u, m.currency)}} : m \in w}

EncodeQuantity(q) == [amount |-> {TextOf(q.amount)}, unit |-> q.unit]

DecodeQuantity(w) ==
  UNION {{ParseQuantity(t, m.unit) : t \in {u \in m.amount : CanParseQuantity(u, m.unit)}} : m \in w}

EncodeRoundingMode(mode) ==
  Numbered([half_even |-> 1, half_up |-> 2, down |-> 3, up |-> 4, ceiling |-> 5, floor |-> 6], mode)

DecodeRoundingMode(n) == Named(<<"half_even", "half_up", "down", "up", "ceiling", "floor">>, n)

EncodeRoundingContext(rc) ==
  [precision |-> rc.precision, mode |-> EncodeRoundingMode(rc.mode), scale |-> rc.scale]

\* Fault of DecodeRoundingContext: the scale is read through its getter, to which
\* an absent one is zero.
DecodeRoundingContextFault(w) ==
  UNION {{WithScale(NewRoundingContext(m.precision, mode), IF m.scale = {} THEN 0 ELSE The(m.scale)) :
            mode \in {r \in DecodeRoundingMode(m.mode) : CanNewRoundingContext(m.precision, r)}} :
           m \in w}

DecodeRoundingContext(w) ==
  LET Scaled(rc, scale) == IF scale = {} THEN rc ELSE WithScale(rc, The(scale)) IN
  UNION {{Scaled(NewRoundingContext(m.precision, mode), m.scale) :
            mode \in {r \in DecodeRoundingMode(m.mode) : CanNewRoundingContext(m.precision, r)}} :
           m \in w}

-----------------------------------------------------------------------------
(* Time *)

EncodeInstant(t) == {t} \ {Unset}

\* An absent timestamp is the zero instant; one that says year 1 is refused.
DecodeInstant(w) == IF w = {} THEN {Unset} ELSE w \ {Unset}

EncodeInterval(iv) == [from |-> EncodeInstant(iv.from), to |-> EncodeInstant(iv.to)]

DecodeInterval(w) ==
  {iv \in UNION {[from : DecodeInstant(m.from), to : DecodeInstant(m.to)] : m \in w} :
     iv \in NewInterval}

EncodeCoordinates(c) ==
  [effective |-> {EncodeInterval(c.effective)}, knowledge |-> EncodeInstant(c.knowledge)]

DecodeCoordinates(w) ==
  {c \in UNION {[effective : DecodeInterval(m.effective), knowledge : DecodeInstant(m.knowledge)] :
                  m \in w} :
     c.knowledge # Unset}

-----------------------------------------------------------------------------
(* Provenance *)

EncodeConfidence(c) == IF c \in Levels THEN c ELSE 0

DecodeConfidence(n) == {n} \intersect Levels

EncodeReferenceBinding(b) == [dataset |-> b.dataset, version |-> b.version]

DecodeReferenceBinding(w) ==
  {b \in {[dataset |-> m.dataset, version |-> m.version] : m \in w} : IsReferenceBinding(b)}

\* A list of bindings is refused with its first bad one.
DecodeReferences(list) ==
  IF \A i \in DOMAIN list : DecodeReferenceBinding({list[i]}) # {}
  THEN {[i \in DOMAIN list |-> The(DecodeReferenceBinding({list[i]}))]}
  ELSE {}

EncodeSource(source) == [value |-> source]

DecodeSource(w) == {s \in {m.value : m \in w} : IsSource(s)}

EncodeInterpreter(i) == [name |-> i.name, version |-> i.version]

DecodeInterpreter(w) ==
  {i \in {[name |-> m.name, version |-> m.version] : m \in w} : IsInterpreter(i)}

EncodeDerivation(ref) == [content_hash |-> ref]

\* Fault of EncodeProvenance: the time of publication is not written.
EncodeProvenanceFault(p) ==
  [source |-> {EncodeSource(p.source)}, collected_at |-> EncodeInstant(p.collectedAt),
   published_at |-> {}, interpreter |-> {EncodeInterpreter(p.interpreter)},
   confidence |-> EncodeConfidence(p.confidence),
   derivation |-> {EncodeDerivation(ref) : ref \in p.derivation}]

EncodeProvenance(p) ==
  [source |-> {EncodeSource(p.source)}, collected_at |-> EncodeInstant(p.collectedAt),
   published_at |-> EncodeInstant(p.publishedAt),
   interpreter |-> {EncodeInterpreter(p.interpreter)},
   confidence |-> EncodeConfidence(p.confidence),
   derivation |-> {EncodeDerivation(ref) : ref \in p.derivation}]

\* Observed without a derivation, Derived with one.  A time of publication that
\* does not decode is taken for an absent one.
DecodeProvenance(w) ==
  LET Built(m) ==
        {IF m.derivation = {} THEN Observed(s, t, i, c)
         ELSE DerivedFrom(s, t, i, The(m.derivation).content_hash, c) :
           s \in DecodeSource(m.source), t \in DecodeInstant(m.collected_at) \ {Unset},
           i \in DecodeInterpreter(m.interpreter), c \in DecodeConfidence(m.confidence)}
      Dated(p, published) == IF published = {} THEN p ELSE WithPublishedAt(p, The(published))
  IN  UNION {{Dated(p, m.published_at \ {Unset}) : p \in Built(m)} :
               m \in {x \in w : \A d \in x.derivation : IsRef(d.content_hash)}}

-----------------------------------------------------------------------------
(* Facts *)

EncodeRef(ref) == [stream |-> ref.stream, sequence |-> ref.sequence]

DecodeRef(w) ==
  {[stream |-> m.stream, sequence |-> m.sequence] :
     m \in {x \in w : x.stream # <<>> /\ x.sequence # 0}}

\* The reference of a fact travels in its envelope.
EncodeEnvelope(e, ref) ==
  [temporal |-> {EncodeCoordinates(e.coordinates)},
   provenance |-> {EncodeProvenance(e.provenance)},
   references |-> Each(e.references, EncodeReferenceBinding),
   ref |-> {EncodeRef(ref)}]

\* NewEnvelope refuses nothing that got here.
DecodeEnvelope(w) ==
  UNION {[envelope : [coordinates : DecodeCoordinates(m.temporal),
                      provenance : DecodeProvenance(m.provenance),
                      references : DecodeReferences(m.references)],
          ref : DecodeRef(m.ref)] : m \in w}

EncodeFactKind(kind) == Numbered([occurrence |-> 1, observation |-> 2], kind)

DecodeFactKind(n) == Named(<<"occurrence", "observation">>, n)

EncodeCorrectionKind(kind) ==
  Numbered([corrected |-> 1, retracted |-> 2, superseded |-> 3], kind)

DecodeCorrectionKind(n) == Named(<<"corrected", "retracted", "superseded">>, n)

\* The payload in its Any, whose type is the message's.
EncodePayload(p) ==
  CASE p.type = "HoldingObserved" ->
         [any |-> "payload.HoldingObserved", account |-> {EncodeEntityID(p.account)},
          instrument |-> {EncodeEntityID(p.instrument)}, quantity |-> {EncodeQuantity(p.quantity)}]
    [] p.type = "HoldingClaimed" ->
         [any |-> "payload.HoldingClaimed", account |-> {EncodeClaim(p.account)},
          instrument |-> {EncodeClaim(p.instrument)}, quantity |-> {EncodeQuantity(p.quantity)}]
    [] p.type = "EntityMinted" ->
         [any |-> "payload.EntityMinted", entity |-> {EncodeEntityID(p.entity)},
          born_from |-> {EncodeClaim(p.bornFrom)}]
    [] p.type = "FactCorrected" ->
         [any |-> "ledger.Correction", corrects |-> {EncodeRef(p.corrects)},
          kind |-> EncodeCorrectionKind(p.kind), reason |-> p.reason]

DecodePayload(w) ==
  UNION {CASE m.any = "payload.HoldingObserved" ->
                [type : {"HoldingObserved"}, account : DecodeEntityID(m.account),
                 instrument : DecodeEntityID(m.instrument), quantity : DecodeQuantity(m.quantity)]
           [] m.any = "payload.HoldingClaimed" ->
                [type : {"HoldingClaimed"}, account : DecodeClaim(m.account),
                 instrument : DecodeClaim(m.instrument), quantity : DecodeQuantity(m.quantity)]
           [] m.any = "payload.EntityMinted" ->
                [type : {"EntityMinted"}, entity : DecodeEntityID(m.entity),
                 bornFrom : DecodeClaim(m.born_from)]
           [] m.any = "ledger.Correction" ->
                [type : {"FactCorrected"}, corrects : DecodeRef(m.corrects),
                 kind : DecodeCorrectionKind(m.kind), reason : {m.reason}]
           [] OTHER -> {} : m \in w}

\* Every payload is at version 1.
TypeVersion == 1

EncodeFact(f) ==
  [envelope |-> {EncodeEnvelope(f.envelope, f.ref)}, kind |-> EncodeFactKind(f.kind),
   type |-> f.payload.type, type_version |-> TypeVersion, payload |-> {EncodePayload(f.payload)}]

\* What a fact says it is has to be what it carries.
DecodeFact(w) ==
  UNION {{[ref |-> e.ref, envelope |-> e.envelope, kind |-> kind, payload |-> p] :
            e \in DecodeEnvelope(m.envelope), kind \in DecodeFactKind(m.kind),
            p \in {q \in DecodePayload(m.payload) :
                     q.type = m.type /\ m.type_version = TypeVersion}} : m \in w}

-----------------------------------------------------------------------------
(* Submissions *)

EncodeHoldingClaimSubmission(cmd) ==
  [stream |-> cmd.stream, account |-> {EncodeClaim(cmd.account)},
   instrument |-> {EncodeClaim(cmd.instrument)}, quantity |-> {EncodeQuantity(cmd.quantity)},
   effective |-> {EncodeInterval(cmd.effective)}, source |-> {EncodeSource(cmd.source)},
   collected_at |-> EncodeInstant(cmd.collectedAt),
   interpreter |-> {EncodeInterpreter(cmd.interpreter)},
   confidence |-> EncodeConfidence(cmd.confidence),
   references |-> Each(cmd.references, EncodeReferenceBinding)]

\* Neither the stream nor the time of collection is checked here.
DecodeHoldingClaimSubmission(w) ==
  UNION {[stream : {m.stream}, account : DecodeClaim(m.account),
          instrument : DecodeClaim(m.instrument), quantity : DecodeQuantity(m.quantity),
          effective : DecodeInterval(m.effective), source : DecodeSource(m.source),
          collectedAt : DecodeInstant(m.collected_at),
          interpreter : DecodeInterpreter(m.interpreter),
          confidence : DecodeConfidence(m.confidence),
          references : DecodeReferences(m.references)] : m \in w}
=============================================================================

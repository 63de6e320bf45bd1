----------------------------- MODULE Provenance -----------------------------
(***************************************************************************)
(* Where a fact comes from and how a value was computed:                   *)
(* libs/kernel/provenance.                                                 *)
(*                                                                         *)
(* Names, versions and references are texts (module Framing).  The SHA-256 *)
(* digest of a pre-image stands for the pre-image: collisions of the hash  *)
(* itself are left out, and a digest quoted in another pre-image is as     *)
(* long as what it stands for.                                             *)
(***************************************************************************)
EXTENDS Framing, Temporal, FiniteSets, FiniteSetsExt

\* Ordinal, from asserted to disputed; 0 is the unset level.
Levels == 1..5

\* Fault of Weakest: the strongest level is taken.
WeakestFault(levels) == Min(levels)

Weakest(levels) == Max(levels \union {1})

-----------------------------------------------------------------------------
(* Sources, interpreters, bindings, methods *)

IsSource(value) == ~IsBlank(value)

LowerHex == (48..57) \union (97..102)

(***************************************************************************)
(* A content address is the prefix of the one algorithm and a digest.  The *)
(* prefix is one symbol and a digest has DigestLength of them.             *)
(***************************************************************************)
SourceAlgorithm == 115

DigestLength == 2

IsDigest(text) == Len(text) = DigestLength /\ \A i \in DOMAIN text : text[i] \in LowerHex

CheckContentAddress(value) ==
  value # <<>> /\ value[1] = SourceAlgorithm /\ IsDigest(Tail(value))

\* NewInterpreter, NewReferenceBinding and NewMethod ask the same of two texts.
IsInterpreter(i) == ~IsBlank(i.name) /\ ~IsBlank(i.version)

IsReferenceBinding(b) == ~IsBlank(b.dataset) /\ ~IsBlank(b.version)

IsMethod(m) == ~IsBlank(m.name) /\ ~IsBlank(m.version)

AtSign == 64

BindingText(b) == b.dataset \o <<AtSign>> \o b.version

MethodText(m) == m.name \o <<AtSign>> \o m.version

\* The interpreter of a producer that ran no code.
Unmediated == [name |-> <<117>>, version |-> <<49>>]

IsUnmediated(i) == i.name = Unmediated.name

-----------------------------------------------------------------------------
(* Provenance of a fact; `derivation` holds a reference or nothing *)

CanObserve(source, collectedAt, interpreter, confidence) ==
  /\ source # <<>>
  /\ collectedAt # Unset
  /\ interpreter.name # <<>>
  /\ confidence \in Levels

Observed(source, collectedAt, interpreter, confidence) ==
  [source |-> source, collectedAt |-> collectedAt, publishedAt |-> Unset,
   interpreter |-> interpreter, derivation |-> {}, confidence |-> confidence]

CanBeDerived(source, collectedAt, interpreter, ref, confidence) ==
  CanObserve(source, collectedAt, interpreter, confidence) /\ ref # <<>>

DerivedFrom(source, collectedAt, interpreter, ref, confidence) ==
  [Observed(source, collectedAt, interpreter, confidence) EXCEPT !.derivation = {ref}]

WithPublishedAt(p, at) == [p EXCEPT !.publishedAt = at]

\* NewRef: the address is well formed, whether or not the record exists.
IsRef(hash) == IsDigest(hash)

-----------------------------------------------------------------------------
(* Derivation records *)

TagDerivation == <<68>>
TagInputs == <<73>>
TagParameters == <<80>>
TagParameter == <<112>>
TagReferences == <<82>>

CanNewDerivation(method, confidence) == method.name # <<>> /\ confidence \in Levels

Each(seq, Op(_)) == [i \in DOMAIN seq |-> Op(seq[i])]

\* An order of positions in which no key is below an earlier one.
Ascending(keys) ==
  {p \in [DOMAIN keys -> DOMAIN keys] :
     /\ \A n \in DOMAIN keys : \E i \in DOMAIN keys : p[i] = n
     /\ \A i, j \in DOMAIN keys : i < j => p[i] # p[j] /\ ~TextLess(keys[p[j]], keys[p[i]])}

\* sort.Slice by a text each element has, its key: which of the orders it takes
\* when keys are equal is not said.
SortSlice(seq, keys) ==
  LET order == CHOOSE p \in Ascending(keys) : TRUE
  IN  [i \in DOMAIN seq |-> seq[order[i]]]

\* Parameters in the order of their names, bindings in the order of their
\* datasets; inputs keep theirs.
NewDerivation(method, inputs, parameters, references, confidence) ==
  [method |-> method, inputs |-> inputs,
   parameters |-> SortSlice(parameters, Each(parameters, LAMBDA p : p.name)),
   references |-> SortSlice(references, Each(references, LAMBDA b : b.dataset)),
   confidence |-> confidence]

ContentAddress(d) ==
  Frame(TagDerivation,
    <<MethodText(d.method),
      Frame(TagInputs, d.inputs),
      Frame(TagParameters, Each(d.parameters, LAMBDA p : Frame(TagParameter, <<p.name, p.value>>))),
      Frame(TagReferences, Each(d.references, BindingText)),
      <<d.confidence>>>>)
=============================================================================

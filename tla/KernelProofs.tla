---------------------------- MODULE KernelProofs ----------------------------
(***************************************************************************)
(* The values of the kernel and their codecs.                              *)
(*                                                                         *)
(* Explained, for any reports, derivations and rounding contexts and       *)
(* chains of combinators of any length.  The argument: a step adds one     *)
(* value, whose confidence and reports are those of the values it was made *)
(* of (Adds).  A value that is not money rests on no money (Pure): without *)
(* that, a product would bring in the currencies under its quantity.  What *)
(* the exact context does not refuse it does not change (Sound).  Of every *)
(* value it is known how it was got (Known); a record is read back from    *)
(* its address part by part, because frames are injective and a list whose *)
(* keys are distinct is sorted in one way only.                            *)
(*                                                                         *)
(* Exchange, for any value the constructors build and any producer.  The   *)
(* argument follows the codecs from their leaves: each decodes what it     *)
(* encodes to the set of that one value; and of a message that keeps the   *)
(* contracts, each accepts only what it would encode (the Back lemmas).    *)
(***************************************************************************)
EXTENDS Explained, Exchange, IdentityProofs, FiniteSetTheorems

\* A step adds one value; what it is, how far it is trusted, what it rests on.
Adds(value, confidence, facts) ==
  \E n : /\ values' = values \union {n}
         /\ n.value = value /\ n.confidence = confidence /\ n.facts = facts

\* A value is trusted as its weakest report.
Weighed(v) ==
  /\ v.confidence \in Levels
  /\ \A r \in v.facts : r.confidence \in Levels /\ r.confidence <= v.confidence
  /\ \E r \in v.facts : r.confidence = v.confidence

\* Money rests on money of its own currency, and anything else on none.
Pure(v) ==
  \A r \in v.facts : IsMoney(r.amount) =>
    IsMoney(v.value) /\ r.amount.currency = v.value.currency

-----------------------------------------------------------------------------
(* Records *)

\* A record keeps the confidence it is made with.
LEMMA RecordConfidence ==
  ASSUME NEW method, NEW inputs, NEW parameters, NEW references, NEW confidence
  PROVE  NewDerivation(method, inputs, parameters, references, confidence).confidence = confidence
BY Zenon DEF NewDerivation

LEMMA ExplainAdds ==
  ASSUME NEW value, NEW exact, NEW asked, NEW method, NEW inputs, NEW how, NEW parameters,
         NEW references, NEW confidence, NEW facts,
         Explain(value, exact, asked, method, inputs, how, parameters, references, confidence, facts)
  PROVE  Adds(value, confidence, facts) /\ confidence \in Levels
<1> DEFINE record == NewDerivation(method, inputs, parameters, references, confidence)
           trace  == ContentAddress(record)
           done   == [method |-> method, inputs |-> how, parameters |-> Listed(parameters),
                      references |-> Listed(references), confidence |-> confidence]
           n      == [value |-> value, trace |-> trace, confidence |-> record.confidence,
                      exact |-> exact, asked |-> asked, facts |-> facts, how |-> done]
<1>1. values' = values \union {n} /\ CanNewDerivation(method, confidence)
  BY Zenon DEF Explain
<1>2. record.confidence = confidence
  BY RecordConfidence
<1> HIDE DEF record, trace, done
<1>3. n.value = value /\ n.confidence = confidence /\ n.facts = facts
  BY <1>2
<1>4. confidence \in Levels
  BY <1>1 DEF CanNewDerivation
<1> HIDE DEF n
<1>5. QED
  BY <1>1, <1>3, <1>4 DEF Adds

\* A set of levels has a weakest, and Weakest returns it.
LEMMA WeakestOf ==
  ASSUME NEW S \in SUBSET Levels, S # {}
  PROVE  Weakest(S) \in S /\ \A c \in S : c <= Weakest(S)
<1>0. \A c \in S : c \in 1..5
  BY DEF Levels
<1>1. \E m \in S : \A c \in S : c <= m
  <2>1. CASE 5 \in S
    BY <1>0, <2>1
  <2>2. CASE 5 \notin S /\ 4 \in S
    BY <1>0, <2>2
  <2>3. CASE 5 \notin S /\ 4 \notin S /\ 3 \in S
    BY <1>0, <2>3
  <2>4. CASE 5 \notin S /\ 4 \notin S /\ 3 \notin S /\ 2 \in S
    BY <1>0, <2>4
  <2>5. CASE 5 \notin S /\ 4 \notin S /\ 3 \notin S /\ 2 \notin S
    <3>1. \A c \in S : c = 1
      BY <1>0, <2>5
    <3>2. PICK m : m \in S
      OBVIOUS
    <3>3. QED
      BY <3>1, <3>2
  <2>6. QED
    BY <2>1, <2>2, <2>3, <2>4, <2>5
<1>2. PICK m \in S : \A c \in S : c <= m
  BY <1>1
<1>3. m \in S \union {1} /\ \A c \in S \union {1} : m >= c
  BY <1>0, <1>2
<1>4. /\ Weakest(S) \in S \union {1}
      /\ \A c \in S \union {1} : Weakest(S) >= c
  BY <1>3 DEF Weakest, Max
<1>5. Weakest(S) = m
  <2>1. m \in 1..5 /\ Weakest(S) \in 1..5
    BY <1>0, <1>2, <1>4
  <2>2. Weakest(S) >= m /\ m >= Weakest(S)
    BY <1>2, <1>3, <1>4
  <2>3. QED
    BY <2>1, <2>2
<1>6. QED
  BY <1>2, <1>5

\* What a combinator of several values weighs.
LEMMA WeighedTogether ==
  ASSUME NEW S, S # {}, \A v \in S : Weighed(v), NEW n,
         n.confidence = Weakest({v.confidence : v \in S}),
         n.facts = UNION {v.facts : v \in S}
  PROVE  Weighed(n)
<1> DEFINE levels == {v.confidence : v \in S}
<1>1. levels \in SUBSET Levels /\ levels # {}
  BY DEF Weighed
<1>2. n.confidence \in levels /\ \A c \in levels : c <= n.confidence
  BY <1>1, WeakestOf
<1>3. ASSUME NEW r \in n.facts PROVE r.confidence \in Levels /\ r.confidence <= n.confidence
  <2>1. PICK v \in S : r \in v.facts
    OBVIOUS
  <2>2. /\ r.confidence \in Levels /\ r.confidence <= v.confidence
        /\ v.confidence \in Levels /\ v.confidence <= n.confidence
    BY <1>2, <2>1 DEF Weighed
  <2>3. QED
    BY <1>1, <1>2, <2>2 DEF Levels
<1>4. \E r \in n.facts : r.confidence = n.confidence
  <2>1. PICK v \in S : v.confidence = n.confidence
    BY <1>2
  <2>2. PICK r \in v.facts : r.confidence = v.confidence
    BY DEF Weighed
  <2>3. QED
    BY <2>1, <2>2
<1>5. QED
  BY <1>1, <1>2, <1>3, <1>4 DEF Weighed

-----------------------------------------------------------------------------
(* Arithmetic keeps the currency of its first operand *)

LEMMA KeepsCurrency ==
  ASSUME NEW m, NEW n, NEW rc, NEW k \in {Add(m, n), Sub(m, n), Neg(m), Mul(m, n), Div(m, n, rc),
                                          Quantize(m, rc), AddQuantity(m, n), SubQuantity(m, n)}
  PROVE  /\ IsMoney(k) <=> IsMoney(m)
         /\ IsMoney(m) => k.currency = m.currency
<1>1. ASSUME NEW x PROVE LET c == [m EXCEPT !.amount = x] IN
        /\ IsMoney(c) <=> IsMoney(m)
        /\ IsMoney(m) => c.currency = m.currency
  BY DEF IsMoney
<1>2. \E x : k = [m EXCEPT !.amount = x]
  BY Zenon DEF Add, Sub, Neg, Mul, Div, Quantize, AddQuantity, SubQuantity
<1>3. QED
  BY <1>1, <1>2

\* The sums Fold goes through, one by one.
LEMMA ThreeSums ==
  ASSUME NEW v, NEW w, NEW x
  PROVE  LET inputs == <<v, w, x>>
             sum    == Sums(inputs)
         IN  /\ sum[0] = Zero(v.value.currency)
             /\ sum[1] = Add(sum[0], v.value)
             /\ sum[2] = Add(sum[1], w.value)
             /\ sum[3] = Add(sum[2], x.value)
<1> DEFINE inputs == <<v, w, x>>
           zero   == Zero(inputs[1].value.currency)
           one    == Add(zero, v.value)
           two    == Add(one, w.value)
           three  == Add(two, x.value)
           g      == [i \in 0..3 |-> IF i = 0 THEN zero ELSE IF i = 1 THEN one
                                     ELSE IF i = 2 THEN two ELSE three]
<1>1. Len(inputs) = 3 /\ inputs[1] = v /\ inputs[2] = w /\ inputs[3] = x
  OBVIOUS
<1> HIDE DEF inputs, zero
<1>2. g = [i \in 0..3 |-> IF i = 0 THEN zero ELSE Add(g[i - 1], inputs[i].value)]
  <2>1. g[0] = zero /\ g[1] = one /\ g[2] = two
    OBVIOUS
  <2> HIDE DEF g
  <2>2. QED
    BY <1>1, <2>1 DEF g
<1> HIDE DEF g
<1>3. \E s : s = [i \in 0..Len(inputs) |->
                    IF i = 0 THEN zero ELSE Add(s[i - 1], inputs[i].value)]
  BY <1>1, <1>2
<1> DEFINE sum == Sums(inputs)
<1>4. sum = [i \in 0..Len(inputs) |->
               IF i = 0 THEN zero ELSE Add(sum[i - 1], inputs[i].value)]
  BY <1>3, Zenon DEF Sums, zero
<1> HIDE DEF sum
<1>5. /\ sum[0] = zero /\ sum[1] = Add(sum[0], inputs[1].value)
      /\ sum[2] = Add(sum[1], inputs[2].value) /\ sum[3] = Add(sum[2], inputs[3].value)
  BY <1>1, <1>4
<1>6. zero = Zero(v.value.currency)
  BY <1>1 DEF zero
<1>7. QED
  BY <1>1, <1>5, <1>6 DEF sum, inputs

-----------------------------------------------------------------------------
(* What a step adds *)

\* A report is lifted.
Lifts(r) == Adds(r.amount, r.confidence, {r}) /\ r.confidence \in Levels

\* A value is made of others, of whose currencies it has every one.
Makes(S, value) ==
  /\ S # {} /\ S \subseteq values
  /\ Adds(value, Weakest({v.confidence : v \in S}), UNION {v.facts : v \in S})
  /\ \A v \in S : IsMoney(v.value) => IsMoney(value) /\ value.currency = v.value.currency

LEMMA MapMakes ==
  ASSUME NEW v \in values, Weighed(v), NEW value, Adds(value, v.confidence, v.facts),
         IsMoney(v.value) => IsMoney(value) /\ value.currency = v.value.currency
  PROVE  Makes({v}, value)
<1>1. {u.confidence : u \in {v}} = {v.confidence} /\ UNION {u.facts : u \in {v}} = v.facts
  OBVIOUS
<1>2. Weakest({v.confidence}) = v.confidence
  BY WeakestOf DEF Weighed
<1>3. QED
  BY <1>1, <1>2 DEF Makes

LEMMA CombineMakes ==
  ASSUME NEW v \in values, NEW w \in values, NEW value,
         Adds(value, Weakest({v.confidence, w.confidence}), v.facts \union w.facts),
         IsMoney(v.value) => IsMoney(value) /\ value.currency = v.value.currency,
         IsMoney(w.value) => IsMoney(value) /\ value.currency = w.value.currency
  PROVE  Makes({v, w}, value)
<1>1. /\ {u.confidence : u \in {v, w}} = {v.confidence, w.confidence}
      /\ UNION {u.facts : u \in {v, w}} = v.facts \union w.facts
  OBVIOUS
<1>2. QED
  BY <1>1 DEF Makes

\* Every combinator makes a value of the ones it is given, and money it is given
\* is money of one currency.
LEMMA ComputeAdds ==
  ASSUME \A v \in values : Weighed(v), Compute
  PROVE  (\E r : Lifts(r)) \/ (\E S, value : Makes(S, value))
<1>1. ASSUME NEW r, NEW parameters, NEW references, FromDerivation(r, parameters, references)
      PROVE  Lifts(r)
  BY <1>1, ExplainAdds DEF FromDerivation, Lifts
<1>2. ASSUME NEW r, FromObservation(r) PROVE Lifts(r)
  BY <1>1, <1>2 DEF FromObservation
<1>3. ASSUME NEW v \in values, Negate(v) PROVE \E S, value : Makes(S, value)
  <2>1. Adds(Neg(v.value), v.confidence, v.facts)
    BY <1>3, ExplainAdds DEF Negate, Map
  <2>2. QED
    BY <2>1, KeepsCurrency, MapMakes
<1>4. ASSUME NEW v \in values, NEW rc, RoundToScale(v, rc) PROVE \E S, value : Makes(S, value)
  <2>1. Adds(Quantize(v.value, rc), v.confidence, v.facts)
    BY <1>4, ExplainAdds DEF RoundToScale, TryMap
  <2>2. QED
    BY <2>1, KeepsCurrency, MapMakes
<1>5. ASSUME NEW v \in values, NEW w \in values, NEW method, NEW parameters, NEW value, NEW exact,
             NEW asked, Combine2(v, w, method, parameters, value, exact, asked),
             IsMoney(value) <=> IsMoney(v.value),
             IsMoney(v.value) => value.currency = v.value.currency,
             IsMoney(w.value) => IsMoney(v.value) /\ w.value.currency = v.value.currency
      PROVE  \E S, k : Makes(S, k)
  <2>1. Adds(value, Weakest({v.confidence, w.confidence}), v.facts \union w.facts)
    BY <1>5, ExplainAdds DEF Combine2
  <2>2. QED
    BY <1>5, <2>1, CombineMakes
<1>6. ASSUME NEW v \in values, NEW w \in values, Total(v, w) PROVE \E S, k : Makes(S, k)
  <2>1. /\ IsMoney(Add(v.value, w.value)) <=> IsMoney(v.value)
        /\ IsMoney(v.value) => Add(v.value, w.value).currency = v.value.currency
    BY KeepsCurrency
  <2>2. QED
    BY <1>5, <1>6, <2>1 DEF Total, CanAdd
<1>7. ASSUME NEW v \in values, NEW w \in values, Difference(v, w) PROVE \E S, k : Makes(S, k)
  <2>1. /\ IsMoney(Sub(v.value, w.value)) <=> IsMoney(v.value)
        /\ IsMoney(v.value) => Sub(v.value, w.value).currency = v.value.currency
    BY KeepsCurrency
  <2>2. QED
    BY <1>5, <1>7, <2>1 DEF Difference, CanSub
<1>8. ASSUME NEW v \in values, NEW w \in values, CombineQuantities(v, w)
      PROVE  \E S, k : Makes(S, k)
  <2>1. ~IsMoney(v.value) /\ ~IsMoney(w.value)
    BY <1>8 DEF CombineQuantities
  <2>2. ASSUME NEW value \in {AddQuantity(v.value, w.value), SubQuantity(v.value, w.value)},
               NEW method, NEW exact, Combine2(v, w, method, <<>>, value, exact, {})
        PROVE  \E S, k : Makes(S, k)
    <3>1. ~IsMoney(value)
      <4>1. CASE value = AddQuantity(v.value, w.value)
        BY <2>1, <4>1, KeepsCurrency
      <4>2. CASE value = SubQuantity(v.value, w.value)
        BY <2>1, <4>2, KeepsCurrency
      <4>3. QED
        BY <4>1, <4>2
    <3>2. QED
      BY <1>5, <2>1, <2>2, <3>1
  <2>3. QED
    BY <1>8, <2>2 DEF CombineQuantities
<1>9. ASSUME NEW v \in values, NEW q \in values, Worth(v, q) PROVE \E S, k : Makes(S, k)
  BY <1>5, <1>9, KeepsCurrency DEF Worth
<1>10. ASSUME NEW v \in values, NEW q \in values, NEW rc, PerUnit(v, q, rc)
       PROVE  \E S, k : Makes(S, k)
  BY <1>5, <1>10, KeepsCurrency DEF PerUnit
<1>11. ASSUME NEW v \in values, NEW w \in values, NEW x \in values, Fold(<<v, w, x>>)
       PROVE  \E S, k : Makes(S, k)
  <2> DEFINE inputs == <<v, w, x>>
             sum    == Sums(inputs)
  <2>1. Len(inputs) = 3 /\ DOMAIN inputs = {1, 2, 3}
        /\ inputs[1] = v /\ inputs[2] = w /\ inputs[3] = x
    OBVIOUS
  <2>2. /\ \A i \in DOMAIN inputs : IsMoney(inputs[i].value)
        /\ \A i \in DOMAIN inputs : CanAdd(sum[i - 1], inputs[i].value)
    BY <1>11, Zenon DEF Fold
  <2>3. Adds(sum[Len(inputs)], Weakest({inputs[i].confidence : i \in DOMAIN inputs}),
             UNION {inputs[i].facts : i \in DOMAIN inputs})
    BY <1>11, ExplainAdds, Zenon DEF Fold
  <2>4. /\ sum[0] = Zero(v.value.currency) /\ sum[1] = Add(sum[0], v.value)
        /\ sum[2] = Add(sum[1], w.value) /\ sum[3] = Add(sum[2], x.value)
    BY ThreeSums
  <2> HIDE DEF inputs, sum
  <2>5. /\ IsMoney(v.value) /\ IsMoney(w.value) /\ IsMoney(x.value)
        /\ CanAdd(sum[0], v.value) /\ CanAdd(sum[1], w.value) /\ CanAdd(sum[2], x.value)
    BY <2>1, <2>2
  <2>6. IsMoney(sum[0]) /\ sum[0].currency = v.value.currency
    BY <2>4 DEF Zero, IsMoney
  <2>7. IsMoney(sum[1]) /\ sum[1].currency = sum[0].currency
    BY <2>4, <2>6, KeepsCurrency
  <2>8. IsMoney(sum[2]) /\ sum[2].currency = sum[1].currency
    BY <2>4, <2>7, KeepsCurrency
  <2>9. IsMoney(sum[3]) /\ sum[3].currency = sum[2].currency
    BY <2>4, <2>8, KeepsCurrency
  <2>10. /\ w.value.currency = sum[3].currency /\ x.value.currency = sum[3].currency
         /\ v.value.currency = sum[3].currency
    BY <2>5, <2>6, <2>7, <2>8, <2>9 DEF CanAdd
  <2>11. /\ {inputs[i].confidence : i \in DOMAIN inputs} = {u.confidence : u \in {v, w, x}}
         /\ UNION {inputs[i].facts : i \in DOMAIN inputs} = UNION {u.facts : u \in {v, w, x}}
    BY <2>1
  <2>12. Makes({v, w, x}, sum[3])
    BY <2>1, <2>3, <2>9, <2>10, <2>11 DEF Makes
  <2>13. QED
    BY <2>12
<1>12. QED
  BY <1>1, <1>2, <1>3, <1>4, <1>6, <1>7, <1>8, <1>9, <1>10, <1>11 DEF Compute

-----------------------------------------------------------------------------
(* Confidence and currency follow the reports *)

Inv == \A v \in values : Weighed(v) /\ Pure(v)

LEMMA StepInv == Inv /\ [Compute]_values => Inv'
<1> SUFFICES ASSUME Inv, Compute PROVE Inv'
  BY DEF Inv
<1>1. ASSUME NEW r, Lifts(r) PROVE Inv'
  <2>1. PICK n : values' = values \union {n} /\ n.value = r.amount
                 /\ n.confidence = r.confidence /\ n.facts = {r}
    BY <1>1 DEF Lifts, Adds
  <2>2. Weighed(n) /\ Pure(n)
    BY <1>1, <2>1 DEF Lifts, Weighed, Pure, Levels
  <2>3. QED
    BY <2>1, <2>2 DEF Inv
<1>2. ASSUME NEW S, NEW value, Makes(S, value) PROVE Inv'
  <2>1. PICK n : values' = values \union {n} /\ n.value = value
                 /\ n.confidence = Weakest({v.confidence : v \in S})
                 /\ n.facts = UNION {v.facts : v \in S}
    BY <1>2 DEF Makes, Adds
  <2>2. Weighed(n)
    BY <1>2, <2>1, WeighedTogether DEF Makes, Inv
  <2>3. Pure(n)
    <3> SUFFICES ASSUME NEW r \in n.facts, IsMoney(r.amount)
                 PROVE  IsMoney(n.value) /\ r.amount.currency = n.value.currency
      BY DEF Pure
    <3>1. PICK v \in S : r \in v.facts
      BY <2>1
    <3>2. IsMoney(v.value) /\ r.amount.currency = v.value.currency
      BY <1>2, <3>1 DEF Makes, Inv, Pure
    <3>3. QED
      BY <1>2, <2>1, <3>2 DEF Makes
  <2>4. QED
    BY <2>1, <2>2, <2>3 DEF Inv
<1>3. QED
  BY <1>1, <1>2, ComputeAdds DEF Inv

LEMMA AlwaysInv == ExplainedSpec => []Inv
<1>1. ExplainedInit => Inv
  BY DEF ExplainedInit, Inv
<1>2. QED
  BY <1>1, StepInv, PTL DEF ExplainedSpec

\* However long the chain of combinators, a value is exactly as trustworthy as
\* the weakest report under it.
THEOREM ConfidenceIsTheWeakest == ExplainedSpec => []WeakestReportDecides
<1>1. Inv => WeakestReportDecides
  BY DEF Inv, Weighed, WeakestReportDecides
<1>2. QED
  BY <1>1, AlwaysInv, PTL

\* Money of one currency never reaches a value in another, through any chain of
\* sums, products, quotients and folds.
THEOREM CurrenciesNeverMix == ExplainedSpec => []CurrenciesStayApart
<1>1. Inv => CurrenciesStayApart
  BY DEF Inv, Pure, CurrenciesStayApart
<1>2. QED
  BY <1>1, AlwaysInv, PTL

-----------------------------------------------------------------------------
(* What a step adds *)

\* The address and the computation of a value that was got some way.
Address(method, inputs, parameters, references, confidence) ==
  ContentAddress(NewDerivation(method, inputs, parameters, references, confidence))

Computation(method, inputs, parameters, references, confidence) ==
  [method |-> method, inputs |-> inputs, parameters |-> Listed(parameters),
   references |-> Listed(references), confidence |-> confidence]

Enters(n, value, exact, method, inputs, how, parameters, references, confidence) ==
  /\ values' = values \union {n}
  /\ confidence \in Levels
  /\ n.value = value /\ n.exact = exact
  /\ n.trace = Address(method, inputs, parameters, references, confidence)
  /\ n.how = Computation(method, how, parameters, references, confidence)

\* A value enters with the address of its record and with its computation.
LEMMA ExplainEnters ==
  ASSUME NEW value, NEW exact, NEW asked, NEW method, NEW inputs, NEW how, NEW parameters,
         NEW references, NEW confidence, NEW facts,
         Explain(value, exact, asked, method, inputs, how, parameters, references, confidence, facts)
  PROVE  \E n : Enters(n, value, exact, method, inputs, how, parameters, references, confidence)
<1> DEFINE record == NewDerivation(method, inputs, parameters, references, confidence)
           trace  == ContentAddress(record)
           done   == [method |-> method, inputs |-> how, parameters |-> Listed(parameters),
                      references |-> Listed(references), confidence |-> confidence]
           n      == [value |-> value, trace |-> trace, confidence |-> record.confidence,
                      exact |-> exact, asked |-> asked, facts |-> facts, how |-> done]
<1>1. values' = values \union {n} /\ CanNewDerivation(method, confidence)
  BY Zenon DEF Explain
<1>2. trace = Address(method, inputs, parameters, references, confidence)
  BY Zenon DEF Address
<1>3. done = Computation(method, how, parameters, references, confidence)
  BY Zenon DEF Computation
<1> HIDE DEF record, trace, done
<1>4. n.value = value /\ n.exact = exact /\ n.trace = trace /\ n.how = done
  OBVIOUS
<1>5. confidence \in Levels
  BY <1>1 DEF CanNewDerivation
<1> HIDE DEF n
<1>6. Enters(n, value, exact, method, inputs, how, parameters, references, confidence)
  BY <1>1, <1>2, <1>3, <1>4, <1>5 DEF Enters
<1>7. QED
  BY <1>6

-----------------------------------------------------------------------------
(* Nothing is lost *)

\* The digits of a coefficient are a number.
LEMMA DigitsIsNat == ASSUME NEW n PROVE Digits(n) \in Nat
<1> DEFINE S == {k \in 1..2 * MaxPrecision : 10 ^ k <= Magnitude(n)}
<1>1. IsFiniteSet(1..2 * MaxPrecision)
  BY FS_Interval, PrecisionAssumption
<1>2. IsFiniteSet(S)
  BY <1>1, FS_Subset
<1>3. Cardinality(S) \in Nat
  BY <1>2, FS_CardinalityType
<1>4. Digits(n) = 1 + Cardinality(S)
  BY Zenon DEF Digits
<1> HIDE DEF S
<1>5. QED
  BY <1>3, <1>4

\* What the exact context does not refuse it does not change.
LEMMA FittedExactly == ASSUME NEW d, Exactly(d) PROVE Fitted(d) = d
<1>1. Digits(d.coeff) \in Nat /\ MaxPrecision \in Nat
  BY DigitsIsNat, PrecisionAssumption
<1>2. Digits(d.coeff) <= MaxPrecision
  BY DEF Exactly, ExactContext
<1> DEFINE lost == Digits(d.coeff) - MaxPrecision
<1>3. lost <= 0
  BY <1>1, <1>2
<1>4. ExactContext.precision = MaxPrecision
  BY DEF ExactContext
<1>5. ContextRound(ExactContext, d) = d
  BY <1>3, <1>4, Zenon DEF ContextRound
<1>6. QED
  BY <1>5 DEF Fitted

\* Replacing an amount.
LEMMA AmountReplaced ==
  ASSUME NEW m, "amount" \in DOMAIN m, NEW x
  PROVE  /\ "amount" \in DOMAIN [m EXCEPT !.amount = x]
         /\ [m EXCEPT !.amount = x].amount = x
OBVIOUS

\* A value is what unbounded arithmetic gives.
Sound(value, exact) == "amount" \in DOMAIN value /\ value.amount = exact

\* The exact operations, on operands that are sound, when they are not refused.
LEMMA AddSound ==
  ASSUME NEW m, NEW n, NEW d, NEW e, Sound(m, d), Sound(n, e), Exactly(DecimalAdd(m.amount, n.amount))
  PROVE  Sound(Add(m, n), DecimalAdd(d, e)) /\ Sound(AddQuantity(m, n), DecimalAdd(d, e))
<1>1. Fitted(DecimalAdd(m.amount, n.amount)) = DecimalAdd(d, e)
  BY FittedExactly DEF Sound
<1>2. Add(m, n) = [m EXCEPT !.amount = DecimalAdd(d, e)]
  BY <1>1, Zenon DEF Add
<1>3. AddQuantity(m, n) = [m EXCEPT !.amount = DecimalAdd(d, e)]
  BY <1>1, Zenon DEF AddQuantity
<1>4. QED
  BY <1>2, <1>3, AmountReplaced DEF Sound

\* So is a difference,
LEMMA SubSound ==
  ASSUME NEW m, NEW n, NEW d, NEW e, Sound(m, d), Sound(n, e),
         Exactly(DecimalAdd(m.amount, DecimalNeg(n.amount)))
  PROVE  /\ Sound(Sub(m, n), DecimalAdd(d, DecimalNeg(e)))
         /\ Sound(SubQuantity(m, n), DecimalAdd(d, DecimalNeg(e)))
<1>1. Fitted(DecimalAdd(m.amount, DecimalNeg(n.amount))) = DecimalAdd(d, DecimalNeg(e))
  BY FittedExactly DEF Sound
<1>2. Sub(m, n) = [m EXCEPT !.amount = DecimalAdd(d, DecimalNeg(e))]
  BY <1>1, Zenon DEF Sub
<1>3. SubQuantity(m, n) = [m EXCEPT !.amount = DecimalAdd(d, DecimalNeg(e))]
  BY <1>1, Zenon DEF SubQuantity
<1>4. QED
  BY <1>2, <1>3, AmountReplaced DEF Sound

\* and a product.
LEMMA MulSound ==
  ASSUME NEW m, NEW n, NEW d, NEW e, Sound(m, d), Sound(n, e), Exactly(DecimalMul(m.amount, n.amount))
  PROVE  Sound(Mul(m, n), DecimalMul(d, e))
<1>1. Fitted(DecimalMul(m.amount, n.amount)) = DecimalMul(d, e)
  BY FittedExactly DEF Sound
<1>2. Mul(m, n) = [m EXCEPT !.amount = DecimalMul(d, e)]
  BY <1>1, Zenon DEF Mul
<1>3. QED
  BY <1>2, AmountReplaced DEF Sound

\* What Fold would give without a bound on digits, one by one.
LEMMA ThreeExactSums ==
  ASSUME NEW v, NEW w, NEW x
  PROVE  LET inputs == <<v, w, x>>
             exact  == ExactSums(inputs)
         IN  /\ exact[0] = Decimal(0, 0)
             /\ exact[1] = DecimalAdd(exact[0], v.exact)
             /\ exact[2] = DecimalAdd(exact[1], w.exact)
             /\ exact[3] = DecimalAdd(exact[2], x.exact)
<1> DEFINE inputs == <<v, w, x>>
           zero   == Decimal(0, 0)
           one    == DecimalAdd(zero, v.exact)
           two    == DecimalAdd(one, w.exact)
           three  == DecimalAdd(two, x.exact)
           g      == [i \in 0..3 |-> IF i = 0 THEN zero ELSE IF i = 1 THEN one
                                     ELSE IF i = 2 THEN two ELSE three]
<1>1. Len(inputs) = 3 /\ inputs[1] = v /\ inputs[2] = w /\ inputs[3] = x
  OBVIOUS
<1> HIDE DEF inputs, zero
<1>2. g = [i \in 0..3 |-> IF i = 0 THEN zero ELSE DecimalAdd(g[i - 1], inputs[i].exact)]
  <2>1. g[0] = zero /\ g[1] = one /\ g[2] = two
    OBVIOUS
  <2> HIDE DEF g
  <2>2. QED
    BY <1>1, <2>1 DEF g
<1> HIDE DEF g
<1>3. \E s : s = [i \in 0..Len(inputs) |->
                    IF i = 0 THEN zero ELSE DecimalAdd(s[i - 1], inputs[i].exact)]
  BY <1>1, <1>2
<1> DEFINE exact == ExactSums(inputs)
<1>4. exact = [i \in 0..Len(inputs) |->
               IF i = 0 THEN zero ELSE DecimalAdd(exact[i - 1], inputs[i].exact)]
  BY <1>3, Zenon DEF ExactSums, zero
<1> HIDE DEF exact
<1>5. /\ exact[0] = zero /\ exact[1] = DecimalAdd(exact[0], inputs[1].exact)
      /\ exact[2] = DecimalAdd(exact[1], inputs[2].exact) /\ exact[3] = DecimalAdd(exact[2], inputs[3].exact)
  BY <1>1, <1>4
<1>6. QED
  BY <1>1, <1>5 DEF exact, inputs, zero

\* A sum over three values that Fold does not refuse.
LEMMA FoldSound ==
  ASSUME NEW v, NEW w, NEW x, Sound(v.value, v.exact), Sound(w.value, w.exact), Sound(x.value, x.exact),
         \A i \in DOMAIN <<v, w, x>> : CanAdd(Sums(<<v, w, x>>)[i - 1], <<v, w, x>>[i].value)
  PROVE  Sound(Sums(<<v, w, x>>)[3], ExactSums(<<v, w, x>>)[3])
<1> DEFINE inputs == <<v, w, x>>
           sum    == Sums(inputs)
           exact  == ExactSums(inputs)
<1>1. DOMAIN inputs = {1, 2, 3} /\ inputs[1] = v /\ inputs[2] = w /\ inputs[3] = x
  OBVIOUS
<1>2. /\ sum[0] = Zero(v.value.currency) /\ sum[1] = Add(sum[0], v.value)
      /\ sum[2] = Add(sum[1], w.value) /\ sum[3] = Add(sum[2], x.value)
  BY ThreeSums
<1>3. /\ exact[0] = Decimal(0, 0) /\ exact[1] = DecimalAdd(exact[0], v.exact)
      /\ exact[2] = DecimalAdd(exact[1], w.exact) /\ exact[3] = DecimalAdd(exact[2], x.exact)
  BY ThreeExactSums
<1>4. \A i \in DOMAIN inputs : CanAdd(sum[i - 1], inputs[i].value)
  OBVIOUS
<1> HIDE DEF inputs, sum, exact
<1>5. /\ Exactly(DecimalAdd(sum[0].amount, v.value.amount))
      /\ Exactly(DecimalAdd(sum[1].amount, w.value.amount))
      /\ Exactly(DecimalAdd(sum[2].amount, x.value.amount))
  BY <1>1, <1>4 DEF CanAdd
<1>6. Sound(sum[0], exact[0])
  BY <1>2, <1>3 DEF Zero, Sound
<1>7. Sound(sum[1], exact[1])
  BY <1>2, <1>3, <1>5, <1>6, AddSound
<1>8. Sound(sum[2], exact[2])
  BY <1>2, <1>3, <1>5, <1>7, AddSound
<1>9. Sound(sum[3], exact[3])
  BY <1>2, <1>3, <1>5, <1>8, AddSound
<1>10. QED
  BY <1>9 DEF sum, exact, inputs

AllSound == \A v \in values : Sound(v.value, v.exact)

\* Every combinator adds a value that is what unbounded arithmetic gives.
LEMMA StepSound == AllSound /\ [Compute]_values => AllSound'
<1> SUFFICES ASSUME AllSound, Compute PROVE AllSound'
  BY DEF AllSound
<1>1. ASSUME NEW value, NEW exact, NEW asked, NEW method, NEW inputs, NEW how, NEW parameters,
             NEW references, NEW confidence, NEW facts, Sound(value, exact),
             Explain(value, exact, asked, method, inputs, how, parameters, references, confidence, facts)
      PROVE  AllSound'
  <2>1. PICK n : Enters(n, value, exact, method, inputs, how, parameters, references, confidence)
    BY <1>1, ExplainEnters
  <2>2. values' = values \union {n} /\ Sound(n.value, n.exact)
    BY <1>1, <2>1 DEF Enters
  <2>3. QED
    BY <2>2 DEF AllSound
<1>2. ASSUME NEW r \in Reported, NEW parameters, NEW references,
             FromDerivation(r, parameters, references)
      PROVE  AllSound'
  <2>1. r.amount \in Monies \union Quantities
    BY DEF Reported
  <2>2. Sound(r.amount, r.amount.amount)
    BY <2>1 DEF Sound, Monies, Quantities
  <2>3. QED
    BY <1>1, <1>2, <2>2, Zenon DEF FromDerivation
<1>3. ASSUME NEW r \in Reports, FromObservation(r) PROVE AllSound'
  <2>1. r \in Reported
    BY ReportsAssumption
  <2>2. QED
    BY <1>2, <1>3, <2>1 DEF FromObservation
<1>4. ASSUME NEW d \in Derivations, FromDerivation(d.report, d.parameters, d.references) PROVE AllSound'
  <2>1. d.report \in Reported
    BY ReportsAssumption
  <2>2. QED
    BY <1>2, <1>4, <2>1
<1>5. ASSUME NEW v \in values, Negate(v) PROVE AllSound'
  <2>1. Sound(v.value, v.exact)
    BY DEF AllSound
  <2>2. Neg(v.value) = [v.value EXCEPT !.amount = DecimalNeg(v.exact)]
    BY <2>1, Zenon DEF Neg, Sound
  <2>3. Sound(Neg(v.value), DecimalNeg(v.exact))
    BY <2>1, <2>2, AmountReplaced DEF Sound
  <2>4. QED
    BY <1>1, <1>5, <2>3, Zenon DEF Negate, Map
<1>6. ASSUME NEW v \in values, NEW rc, RoundToScale(v, rc) PROVE AllSound'
  <2> DEFINE x == Quantized(ApdContext(rc), v.value.amount, -(CHOOSE s \in rc.scale : TRUE))
             rounded == Quantize(v.value, rc)
  <2>1. rounded = [v.value EXCEPT !.amount = x]
    BY Zenon DEF Quantize
  <2>2. Sound(v.value, v.exact)
    BY DEF AllSound
  <2> HIDE DEF x
  <2>3. Sound(rounded, rounded.amount)
    BY <2>1, <2>2, AmountReplaced DEF Sound
  <2>4. QED
    BY <1>1, <1>6, <2>3, Zenon DEF RoundToScale, TryMap
<1>7. ASSUME NEW v \in values, NEW w \in values, NEW method, NEW parameters, NEW value, NEW exact,
             NEW asked, Combine2(v, w, method, parameters, value, exact, asked), Sound(value, exact)
      PROVE  AllSound'
  BY <1>1, <1>7, Zenon DEF Combine2
<1>8. ASSUME NEW v \in values, NEW w \in values, Total(v, w) PROVE AllSound'
  <2>1. Sound(v.value, v.exact) /\ Sound(w.value, w.exact) /\ Exactly(DecimalAdd(v.value.amount, w.value.amount))
    BY <1>8 DEF AllSound, Total, CanAdd
  <2>2. Sound(Add(v.value, w.value), DecimalAdd(v.exact, w.exact))
    BY <2>1, AddSound
  <2>3. QED
    BY <1>7, <1>8, <2>2, Zenon DEF Total
<1>9. ASSUME NEW v \in values, NEW w \in values, Difference(v, w) PROVE AllSound'
  <2>1. /\ Sound(v.value, v.exact) /\ Sound(w.value, w.exact)
        /\ Exactly(DecimalAdd(v.value.amount, DecimalNeg(w.value.amount)))
    BY <1>9 DEF AllSound, Difference, CanSub
  <2>2. Sound(Sub(v.value, w.value), DecimalAdd(v.exact, DecimalNeg(w.exact)))
    BY <2>1, SubSound
  <2>3. QED
    BY <1>7, <1>9, <2>2, Zenon DEF Difference
<1>10. ASSUME NEW v \in values, NEW w \in values, CombineQuantities(v, w) PROVE AllSound'
  <2>1. Sound(v.value, v.exact) /\ Sound(w.value, w.exact)
    BY DEF AllSound
  <2>2. CASE /\ CanAddQuantity(v.value, w.value)
             /\ Combine2(v, w, Method(97), <<>>, AddQuantity(v.value, w.value),
                         DecimalAdd(v.exact, w.exact), {})
    <3>1. Exactly(DecimalAdd(v.value.amount, w.value.amount))
      BY <2>2 DEF CanAddQuantity
    <3>2. Sound(AddQuantity(v.value, w.value), DecimalAdd(v.exact, w.exact))
      BY <2>1, <3>1, AddSound
    <3>3. QED
      BY <1>7, <2>2, <3>2, Zenon
  <2>3. CASE /\ CanSubQuantity(v.value, w.value)
             /\ Combine2(v, w, Method(115), <<>>, SubQuantity(v.value, w.value),
                         DecimalAdd(v.exact, DecimalNeg(w.exact)), {})
    <3>1. Exactly(DecimalAdd(v.value.amount, DecimalNeg(w.value.amount)))
      BY <2>3 DEF CanSubQuantity
    <3>2. Sound(SubQuantity(v.value, w.value), DecimalAdd(v.exact, DecimalNeg(w.exact)))
      BY <2>1, <3>1, SubSound
    <3>3. QED
      BY <1>7, <2>3, <3>2, Zenon
  <2>4. QED
    BY <1>10, <2>2, <2>3, Zenon DEF CombineQuantities
<1>11. ASSUME NEW v \in values, NEW q \in values, Worth(v, q) PROVE AllSound'
  <2>1. Sound(v.value, v.exact) /\ Sound(q.value, q.exact) /\ Exactly(DecimalMul(v.value.amount, q.value.amount))
    BY <1>11 DEF AllSound, Worth, CanMul
  <2>2. Sound(Mul(v.value, q.value), DecimalMul(v.exact, q.exact))
    BY <2>1, MulSound
  <2>3. QED
    BY <1>7, <1>11, <2>2, Zenon DEF Worth
<1>12. ASSUME NEW v \in values, NEW q \in values, NEW rc, PerUnit(v, q, rc) PROVE AllSound'
  <2> DEFINE x == Quo(ApdContext(rc), v.value.amount, q.value.amount)
             quotient == Div(v.value, q.value, rc)
  <2>1. quotient = [v.value EXCEPT !.amount = x]
    BY Zenon DEF Div
  <2>2. Sound(v.value, v.exact)
    BY DEF AllSound
  <2> HIDE DEF x
  <2>3. Sound(quotient, quotient.amount)
    BY <2>1, <2>2, AmountReplaced DEF Sound
  <2>4. QED
    BY <1>7, <1>12, <2>3, Zenon DEF PerUnit
<1>13. ASSUME NEW v \in values, NEW w \in values, NEW x \in values, Fold(<<v, w, x>>) PROVE AllSound'
  <2> DEFINE inputs == <<v, w, x>>
  <2>1. \A i \in DOMAIN inputs : CanAdd(Sums(inputs)[i - 1], inputs[i].value)
    BY <1>13, Zenon DEF Fold
  <2>2. Sound(v.value, v.exact) /\ Sound(w.value, w.exact) /\ Sound(x.value, x.exact)
    BY DEF AllSound
  <2>3. Sound(Sums(inputs)[3], ExactSums(inputs)[3])
    BY <2>1, <2>2, FoldSound
  <2>4. Len(inputs) = 3
    OBVIOUS
  <2> HIDE DEF inputs
  <2>5. Sound(Sums(inputs)[Len(inputs)], ExactSums(inputs)[Len(inputs)])
    BY <2>3, <2>4
  <2>6. QED
    BY <1>1, <1>13, <2>5, Zenon DEF Fold, inputs
<1>14. QED
  BY <1>3, <1>4, <1>5, <1>6, <1>8, <1>9, <1>10, <1>11, <1>12, <1>13 DEF Compute

\* However long the chain of combinators, a value has lost nothing that no
\* rounding context asked for: what the exact context does not trap it leaves
\* as it is.
THEOREM NothingIsLost == ExplainedSpec => []NothingLostUnasked
<1>1. ExplainedInit => AllSound
  BY DEF ExplainedInit, AllSound
<1>2. AllSound => NothingLostUnasked
  BY DEF AllSound, Sound, NothingLostUnasked, SameValue
<1>3. QED
  BY <1>1, <1>2, StepSound, PTL DEF ExplainedSpec

-----------------------------------------------------------------------------
(* Sorted lists *)

\* A list is sorted into a list of the same elements.
LEMMA SortedIs ==
  ASSUME NEW S, NEW s \in Seq(S), NEW keys \in Seq(Text), Len(keys) = Len(s)
  PROVE  /\ SortSlice(s, keys) \in Seq(S)
         /\ Len(SortSlice(s, keys)) = Len(s)
         /\ Listed(SortSlice(s, keys)) = Listed(s)
<1> DEFINE m == Len(s)
           t == SortSlice(s, keys)
<1>1. PICK order : Sorts(order, s, keys)
  BY SortSliceSorts
<1>2. /\ t = [i \in 1..m |-> s[order[i]]]
      /\ \A i \in 1..m : order[i] \in 1..m
      /\ \A x \in 1..m : \E i \in 1..m : order[i] = x
  BY <1>1 DEF Sorts
<1>3. m \in Nat /\ DOMAIN s = 1..m /\ \A i \in 1..m : s[i] \in S
  OBVIOUS
<1> HIDE DEF m, t
<1>4. t \in Seq(S) /\ Len(t) = m /\ DOMAIN t = 1..m
  <2>1. \A i \in 1..m : s[order[i]] \in S
    BY <1>2, <1>3
  <2>2. t \in [1..m -> S]
    BY <1>2, <2>1
  <2>3. QED
    BY <1>3, <2>2
<1>5. Listed(t) = Listed(s)
  <2>1. \A i \in 1..m : t[i] = s[order[i]]
    BY <1>2
  <2>2. \A i \in 1..m : t[i] \in Listed(s)
    BY <1>2, <1>3, <2>1 DEF Listed
  <2>3. \A x \in 1..m : s[x] \in Listed(t)
    BY <1>2, <1>4, <2>1 DEF Listed
  <2>4. QED
    BY <1>3, <1>4, <2>2, <2>3 DEF Listed
<1>6. QED
  BY <1>4, <1>5 DEF m, t

\* The keys of a list, each element having its own.
Keys(K, s) == [i \in DOMAIN s |-> K[s[i]]]

Strict(K, s) == \A i, j \in DOMAIN s : i < j => TextLess(K[s[i]], K[s[j]])

Distinct(K, s) == \A i, j \in DOMAIN s : K[s[i]] = K[s[j]] => i = j

\* Without two elements of one key a sorted list rises.
LEMMA SortedRises ==
  ASSUME NEW S, NEW K \in [S -> Text], NEW s \in Seq(S), Distinct(K, s)
  PROVE  /\ SortSlice(s, Keys(K, s)) \in Seq(S)
         /\ Listed(SortSlice(s, Keys(K, s))) = Listed(s)
         /\ Strict(K, SortSlice(s, Keys(K, s)))
<1> DEFINE m == Len(s)
           keys == Keys(K, s)
           t == SortSlice(s, keys)
<1>1. m \in Nat /\ DOMAIN s = 1..m /\ \A i \in 1..m : s[i] \in S
  OBVIOUS
<1>2. /\ keys \in Seq(Text) /\ Len(keys) = Len(s) /\ \A i \in 1..m : keys[i] = K[s[i]]
  BY <1>1 DEF Keys
<1> HIDE DEF keys
<1>3. t \in Seq(S) /\ Listed(t) = Listed(s) /\ Len(t) = m
  BY <1>2, SortedIs
<1>4. PICK order : Sorts(order, s, keys)
  BY <1>2, SortSliceSorts
<1>5. /\ t = [i \in 1..m |-> s[order[i]]]
      /\ \A i \in 1..m : order[i] \in 1..m
      /\ \A i, j \in 1..m : i < j => order[i] # order[j] /\ ~TextLess(keys[order[j]], keys[order[i]])
  BY <1>4 DEF Sorts
<1> HIDE DEF m, t
<1>6. DOMAIN t = 1..m
  BY <1>5
<1>7. ASSUME NEW i \in 1..m, NEW j \in 1..m, i < j PROVE TextLess(K[t[i]], K[t[j]])
  <2> DEFINE x == order[i]
             y == order[j]
  <2>1. x \in 1..m /\ y \in 1..m /\ x # y /\ ~TextLess(keys[y], keys[x])
    BY <1>5, <1>7
  <2>2. t[i] = s[x] /\ t[j] = s[y]
    BY <1>5
  <2> HIDE DEF x, y
  <2>3. keys[x] = K[s[x]] /\ keys[y] = K[s[y]] /\ K[s[x]] \in Text /\ K[s[y]] \in Text
    BY <1>1, <1>2, <2>1
  <2>4. K[s[x]] # K[s[y]]
    BY <1>1, <2>1 DEF Distinct
  <2>5. TextLess(K[s[x]], K[s[y]])
    BY <2>1, <2>3, <2>4, OrderTotal
  <2>6. QED
    BY <2>2, <2>5
<1>8. Strict(K, t)
  BY <1>6, <1>7 DEF Strict
<1>9. QED
  BY <1>3, <1>8 DEF t, keys

\* Lists that rise and have the same elements are one list.
LEMMA RisesOnce ==
  ASSUME NEW S, NEW K \in [S -> Text], NEW a \in Seq(S), NEW b \in Seq(S),
         Strict(K, a), Strict(K, b), Listed(a) = Listed(b)
  PROVE  a = b
<1> DEFINE m == Len(a)
           n == Len(b)
           D == {i \in Nat : i > 0 /\ (i <= m \/ i <= n) /\ ~(i <= m /\ i <= n /\ a[i] = b[i])}
<1>1. /\ m \in Nat /\ n \in Nat /\ DOMAIN a = 1..m /\ DOMAIN b = 1..n
      /\ \A i \in 1..m : a[i] \in S
      /\ \A i \in 1..n : b[i] \in S
  OBVIOUS
<1>2. /\ \A i \in 1..m : \E j \in 1..n : a[i] = b[j]
      /\ \A i \in 1..n : \E j \in 1..m : b[i] = a[j]
  BY <1>1 DEF Listed
<1>3. /\ \A i, j \in 1..m : i < j => TextLess(K[a[i]], K[a[j]])
      /\ \A i, j \in 1..n : i < j => TextLess(K[b[i]], K[b[j]])
  BY <1>1 DEF Strict
<1>4. \A x, y \in S : TextLess(K[x], K[y]) => ~TextLess(K[y], K[x])
  BY OrderAsymmetric
<1>5. ASSUME D = {} PROVE a = b
  <2>1. m = n
    <3>1. m <= n
      <4> SUFFICES ASSUME m > n PROVE FALSE
        BY <1>1
      <4>1. m \in D
        BY <1>1
      <4>2. QED
        BY <1>5, <4>1
    <3>2. n <= m
      <4> SUFFICES ASSUME n > m PROVE FALSE
        BY <1>1
      <4>1. n \in D
        BY <1>1
      <4>2. QED
        BY <1>5, <4>1
    <3> HIDE DEF m, n
    <3>3. QED
      BY <1>1, <3>1, <3>2
  <2>2. \A i \in 1..m : a[i] = b[i]
    BY <1>1, <1>5, <2>1
  <2>3. QED
    BY <2>1, <2>2
<1>6. ASSUME D # {} PROVE FALSE
  <2>1. PICK i \in D : \A k \in D : i <= k
    <3>1. D \in SUBSET Nat
      OBVIOUS
    <3> HIDE DEF D
    <3>2. QED
      BY <1>6, <3>1, LeastNatural
  <2>2. /\ i \in Nat /\ i > 0 /\ (i <= m \/ i <= n) /\ ~(i <= m /\ i <= n /\ a[i] = b[i])
    OBVIOUS
  <2>3. ASSUME NEW k \in Nat, k > 0, k < i PROVE k \in 1..m /\ k \in 1..n /\ a[k] = b[k]
    <3>1. k \notin D
      BY <2>1, <2>2, <2>3
    <3>2. k <= m \/ k <= n
      BY <1>1, <2>2, <2>3
    <3>3. k <= m /\ k <= n /\ a[k] = b[k]
      BY <2>3, <3>1, <3>2
    <3>4. QED
      BY <1>1, <2>3, <3>3
  <2> HIDE DEF D, m, n
  <2>4. CASE i > m
    <3>1. i \in 1..n
      BY <1>1, <2>2, <2>4
    <3>2. PICK j \in 1..m : b[i] = a[j]
      BY <1>2, <3>1
    <3>3. j \in Nat /\ j > 0 /\ j < i
      BY <1>1, <2>2, <2>4
    <3>4. b[j] = b[i] /\ j \in 1..n
      BY <2>3, <3>2, <3>3
    <3>5. TextLess(K[b[j]], K[b[i]]) /\ b[i] \in S
      BY <1>1, <1>3, <3>1, <3>3, <3>4
    <3>6. QED
      BY <1>4, <3>4, <3>5
  <2>5. CASE i <= m
    <3>1. i \in 1..m
      BY <1>1, <2>2, <2>5
    <3>2. PICK j \in 1..n : a[i] = b[j]
      BY <1>2, <3>1
    <3>3. CASE j < i
      <4>1. j \in Nat /\ j > 0
        OBVIOUS
      <4>2. a[j] = a[i] /\ j \in 1..m
        BY <2>3, <3>2, <3>3, <4>1
      <4>3. TextLess(K[a[j]], K[a[i]]) /\ a[i] \in S
        BY <1>1, <1>3, <3>1, <3>3, <4>2
      <4>4. QED
        BY <1>4, <4>2, <4>3
    <3>4. CASE j = i
      BY <1>1, <2>2, <3>1, <3>2, <3>4
    <3>5. CASE j > i
      <4>1. i \in 1..n
        BY <1>1, <2>2, <3>5
      <4>2. TextLess(K[b[i]], K[a[i]])
        BY <1>3, <3>2, <3>5, <4>1
      <4>3. PICK k \in 1..m : b[i] = a[k]
        BY <1>2, <4>1
      <4>4. CASE k < i
        <5>1. k \in Nat /\ k > 0
          OBVIOUS
        <5>2. b[k] = b[i] /\ k \in 1..n
          BY <2>3, <4>3, <4>4, <5>1
        <5>3. TextLess(K[b[k]], K[b[i]]) /\ b[i] \in S
          BY <1>1, <1>3, <4>1, <4>4, <5>2
        <5>4. QED
          BY <1>4, <5>2, <5>3
      <4>5. CASE k = i
        BY <1>1, <2>2, <3>1, <4>1, <4>3, <4>5
      <4>6. CASE k > i
        <5>1. TextLess(K[a[i]], K[b[i]]) /\ a[i] \in S /\ b[i] \in S
          BY <1>1, <1>3, <3>1, <4>1, <4>3, <4>6
        <5>2. QED
          BY <1>4, <4>2, <5>1
      <4>7. QED
        BY <1>1, <2>2, <4>4, <4>5, <4>6
    <3>6. QED
      BY <1>1, <2>2, <3>3, <3>4, <3>5
  <2>6. QED
    BY <1>1, <2>2, <2>4, <2>5
<1>7. QED
  BY <1>5, <1>6

\* Lists of the same elements, each with a key of its own, are sorted into one.
LEMMA SortedOnce ==
  ASSUME NEW S, NEW K \in [S -> Text], NEW s \in Seq(S), NEW t \in Seq(S),
         Distinct(K, s), Distinct(K, t), Listed(s) = Listed(t)
  PROVE  SortSlice(s, Keys(K, s)) = SortSlice(t, Keys(K, t))
<1> DEFINE a == SortSlice(s, Keys(K, s))
           b == SortSlice(t, Keys(K, t))
<1>1. a \in Seq(S) /\ Listed(a) = Listed(s) /\ Strict(K, a)
  BY SortedRises, Zenon
<1>2. b \in Seq(S) /\ Listed(b) = Listed(t) /\ Strict(K, b)
  BY SortedRises, Zenon
<1> HIDE DEF a, b
<1>3. Listed(a) = Listed(b)
  BY <1>1, <1>2, Zenon
<1>4. a = b
  BY <1>1, <1>2, <1>3, RisesOnce
<1>5. QED
  BY <1>4 DEF a, b

-----------------------------------------------------------------------------
(* Texts of records *)

Params == [name : Text, value : Text]
Bindings == [dataset : Text, version : Text]

Unsplit(s) == \A i \in DOMAIN s : s[i] # AtSign

\* A text before the first separator, and one after it.
LEMMA SplitOnce ==
  ASSUME NEW a \in Text, NEW v \in Text, NEW b \in Text, NEW w \in Text, Unsplit(a), Unsplit(b),
         a \o <<AtSign>> \o v = b \o <<AtSign>> \o w
  PROVE  a = b /\ v = w
<1> DEFINE m == Len(a)
           n == Len(b)
           at == <<AtSign>>
           aa == a \o at
           bb == b \o at
           x == aa \o v
           y == bb \o w
<1>1. /\ m \in Nat /\ n \in Nat /\ DOMAIN a = 1..m /\ DOMAIN b = 1..n
      /\ Len(v) \in Nat /\ Len(w) \in Nat
  BY DEF Text
<1>2. at \in Text /\ Len(at) = 1 /\ at[1] = AtSign
  BY DEF Text, AtSign
<1> HIDE DEF at
<1>3. /\ aa \in Text /\ Len(aa) = m + Len(at)
      /\ \A i \in 1..m : aa[i] = a[i]
      /\ \A i \in 1..Len(at) : aa[m + i] = at[i]
  BY <1>2, Join, Zenon
<1>4. /\ bb \in Text /\ Len(bb) = n + Len(at)
      /\ \A i \in 1..n : bb[i] = b[i]
      /\ \A i \in 1..Len(at) : bb[n + i] = at[i]
  BY <1>2, Join, Zenon
<1> HIDE DEF aa, bb
<1>5. Len(aa) = m + 1 /\ aa[m + 1] = AtSign /\ Len(bb) = n + 1 /\ bb[n + 1] = AtSign
  <2>1. 1 \in 1..Len(at)
    BY <1>2
  <2>2. QED
    BY <1>2, <1>3, <1>4, <2>1
<1>6. /\ \A i \in 1..Len(aa) : x[i] = aa[i]
      /\ \A i \in 1..Len(bb) : y[i] = bb[i]
  BY <1>3, <1>4, Join, Zenon
<1>7. x = y
  BY DEF aa, bb, at
<1> HIDE DEF m, n
<1>8. /\ \A i \in 1..m : x[i] = a[i] /\ a[i] # AtSign
      /\ x[m + 1] = AtSign
  <2>1. \A i \in 1..m : i \in 1..Len(aa)
    BY <1>1, <1>5
  <2>2. m + 1 \in 1..Len(aa)
    BY <1>1, <1>5
  <2> HIDE DEF x, y
  <2>3. QED
    BY <1>1, <1>3, <1>5, <1>6, <2>1, <2>2 DEF Unsplit
<1>9. /\ \A i \in 1..n : y[i] = b[i] /\ b[i] # AtSign
      /\ y[n + 1] = AtSign
  <2>1. \A i \in 1..n : i \in 1..Len(bb)
    BY <1>1, <1>5
  <2>2. n + 1 \in 1..Len(bb)
    BY <1>1, <1>5
  <2> HIDE DEF x, y
  <2>3. QED
    BY <1>1, <1>4, <1>5, <1>6, <2>1, <2>2 DEF Unsplit
<1>10. m = n
  <2> HIDE DEF x, y
  <2>1. ~(m < n)
    <3> SUFFICES ASSUME m < n PROVE FALSE
      OBVIOUS
    <3>1. m + 1 \in 1..n
      BY <1>1
    <3>2. QED
      BY <1>7, <1>8, <1>9, <3>1
  <2>2. ~(n < m)
    <3> SUFFICES ASSUME n < m PROVE FALSE
      OBVIOUS
    <3>1. n + 1 \in 1..m
      BY <1>1
    <3>2. QED
      BY <1>7, <1>8, <1>9, <3>1
  <2>3. QED
    BY <1>1, <2>1, <2>2
<1>11. a = b
  <2> HIDE DEF x, y
  <2>1. \A i \in 1..m : a[i] = b[i]
    BY <1>7, <1>8, <1>9, <1>10
  <2>2. Len(a) = Len(b) /\ Len(a) = m
    BY <1>10 DEF m, n
  <2>3. QED
    BY <2>1, <2>2, SameText
<1>12. aa = bb
  BY <1>11 DEF aa, bb
<1>13. aa \o v = aa \o w
  BY <1>7, <1>12
<1>14. v = w
  BY <1>3, <1>13, JoinCancels
<1>15. QED
  BY <1>11, <1>14

\* A binding has a text of its own, when no dataset is named with the separator.
LEMMA BindingTextOnce ==
  ASSUME NEW b \in Bindings, NEW c \in Bindings, Unsplit(b.dataset), Unsplit(c.dataset),
         BindingText(b) = BindingText(c)
  PROVE  b = c
<1>1. /\ b.dataset \in Text /\ b.version \in Text /\ c.dataset \in Text /\ c.version \in Text
  BY DEF Bindings
<1>2. b.dataset = c.dataset /\ b.version = c.version
  BY <1>1, SplitOnce DEF BindingText
<1>3. QED
  BY <1>2 DEF Bindings

\* What a record writes for a binding is a text.
LEMMA BindingIsText == ASSUME NEW b \in Bindings PROVE BindingText(b) \in Text
<1>1. b.dataset \in Text /\ b.version \in Text /\ <<AtSign>> \in Text
  BY DEF Bindings, Text, AtSign
<1> DEFINE x == b.dataset \o <<AtSign>>
<1>2. x \in Text
  BY <1>1, Join
<1> HIDE DEF x
<1>3. x \o b.version \in Text
  BY <1>1, <1>2, Join
<1>4. QED
  BY <1>3, Zenon DEF BindingText, x

\* The contexts a caller may hold.
AllContexts == RoundingContexts \union {ZeroContext}

\* Their modes, the unset one included, are told apart.
Modes == {"half_even", "half_up", "down", "up", "ceiling", "floor", "unspecified"}

LEMMA ModeTextOnce ==
  ASSUME NEW m \in Modes, NEW n \in Modes
  PROVE  ModeText(m) \in Nat /\ (ModeText(m) = ModeText(n) => m = n)
<1>1. /\ ModeText("half_even") = 1 /\ ModeText("half_up") = 2 /\ ModeText("down") = 3
      /\ ModeText("up") = 4 /\ ModeText("ceiling") = 5 /\ ModeText("floor") = 6
      /\ ModeText("unspecified") = 7
  BY DEF ModeText
<1>2. QED
  BY <1>1 DEF Modes

\* The scale of a context, if it has one.
LEMMA ContextIs ==
  ASSUME NEW rc \in AllContexts
  PROVE  /\ rc.precision \in Nat /\ rc.mode \in Modes
         /\ rc = [precision |-> rc.precision, mode |-> rc.mode, scale |-> rc.scale]
         /\ rc.scale = {} \/ \E s \in Int : rc.scale = {s}
<1>1. CASE rc \in RoundingContexts
  <2>1. rc.precision \in 1..MaxPrecision /\ rc.mode \in RoundingModes /\ rc.scale \in Optional(Int)
    BY <1>1 DEF RoundingContexts
  <2>2. rc = [precision |-> rc.precision, mode |-> rc.mode, scale |-> rc.scale]
    BY <1>1 DEF RoundingContexts
  <2>3. rc.scale = {} \/ \E s \in Int : rc.scale = {s}
    <3> SUFFICES ASSUME rc.scale # {} PROVE \E s \in Int : rc.scale = {s}
      OBVIOUS
    <3>1. PICK s : s \in rc.scale
      OBVIOUS
    <3>2. rc.scale \subseteq Int /\ \A x, y \in rc.scale : x = y
      BY <2>1 DEF Optional
    <3>3. s \in Int /\ rc.scale = {s}
      BY <3>1, <3>2
    <3>4. QED
      BY <3>3
  <2>4. rc.precision \in Nat /\ rc.mode \in Modes
    BY <2>1, PrecisionAssumption DEF RoundingModes, Modes
  <2>5. QED
    BY <2>2, <2>3, <2>4
<1>2. CASE rc = ZeroContext
  BY <1>2 DEF ZeroContext, Modes
<1>3. QED
  BY <1>1, <1>2 DEF AllContexts

\* A number is printed in a way of its own.
LEMMA PrintedOnce ==
  ASSUME NEW m \in Int, NEW n \in Int
  PROVE  /\ Printed(m) \in Text /\ Printed(m) # <<>>
         /\ Printed(m) = Printed(n) => m = n
<1>1. /\ m < 0 => Printed(m) = <<45, -m>> /\ -m \in Nat
      /\ m >= 0 => Printed(m) = <<m>> /\ m \in Nat
      /\ n < 0 => Printed(n) = <<45, -n>> /\ -n \in Nat
      /\ n >= 0 => Printed(n) = <<n>> /\ n \in Nat
  BY DEF Printed
<1>2. m < 0 \/ m >= 0
  OBVIOUS
<1>3. n < 0 \/ n >= 0
  OBVIOUS
<1>4. Printed(m) \in Text /\ Printed(m) # <<>>
  <2>1. CASE m < 0
    <3> DEFINE k == -m
    <3>1. Printed(m) = <<45, k>> /\ k \in Nat
      BY <1>1, <2>1
    <3> HIDE DEF k
    <3>2. <<45, k>> \in Text /\ <<45, k>> # <<>>
      BY <3>1 DEF Text
    <3>3. QED
      BY <3>1, <3>2, Zenon
  <2>2. CASE m >= 0
    <3>1. Printed(m) = <<m>> /\ m \in Nat
      BY <1>1, <2>2
    <3>2. <<m>> \in Text /\ <<m>> # <<>>
      BY <3>1 DEF Text
    <3>3. QED
      BY <3>1, <3>2, Zenon
  <2>3. QED
    BY <1>2, <2>1, <2>2
<1>5. ASSUME Printed(m) = Printed(n) PROVE m = n
  <2>1. CASE m < 0 /\ n < 0
    <3>1. <<45, -m>> = <<45, -n>>
      BY <1>1, <1>5, <2>1
    <3>2. -m = -n
      BY <3>1
    <3>3. QED
      BY <3>2
  <2>2. CASE m >= 0 /\ n >= 0
    <3>1. <<m>> = <<n>>
      BY <1>1, <1>5, <2>2
    <3>2. QED
      BY <3>1
  <2>3. CASE m < 0 /\ n >= 0
    <3>1. <<45, -m>> = <<n>>
      BY <1>1, <1>5, <2>3
    <3>2. Len(<<45, -m>>) = 2 /\ Len(<<n>>) = 1
      OBVIOUS
    <3>3. QED
      BY <3>1, <3>2
  <2>4. CASE m >= 0 /\ n < 0
    <3>1. <<m>> = <<45, -n>>
      BY <1>1, <1>5, <2>4
    <3>2. Len(<<m>>) = 1 /\ Len(<<45, -n>>) = 2
      OBVIOUS
    <3>3. QED
      BY <3>1, <3>2
  <2>5. QED
    BY <1>2, <1>3, <2>1, <2>2, <2>3, <2>4
<1>6. QED
  BY <1>4, <1>5

\* A context has a text of its own.
ScaleText(scale) == IF scale = {} THEN <<>> ELSE Printed(CHOOSE s \in scale : TRUE)

LEMMA ContextTextOnce ==
  ASSUME NEW rc \in AllContexts, NEW other \in AllContexts
  PROVE  /\ ContextText(rc) \in Text
         /\ ContextText(rc) = ContextText(other) => rc = other
<1>1. ASSUME NEW x \in AllContexts
      PROVE  /\ ContextText(x) = <<x.precision, ModeText(x.mode)>> \o ScaleText(x.scale)
             /\ <<x.precision, ModeText(x.mode)>> \in Text
             /\ ScaleText(x.scale) \in Text
             /\ ContextText(x) \in Text
  <2>1. ContextText(x) = <<x.precision, ModeText(x.mode)>> \o ScaleText(x.scale)
    BY Zenon DEF ContextText, ScaleText
  <2>2. x.precision \in Nat /\ ModeText(x.mode) \in Nat
    BY ContextIs, ModeTextOnce
  <2>3. <<x.precision, ModeText(x.mode)>> \in Text
    BY <2>2 DEF Text
  <2>4. ScaleText(x.scale) \in Text
    <3>1. CASE x.scale = {}
      BY <3>1 DEF ScaleText, Text
    <3>2. CASE x.scale # {}
      <4>1. PICK s \in Int : x.scale = {s}
        BY <3>2, ContextIs
      <4>2. ScaleText(x.scale) = Printed(s)
        BY <4>1 DEF ScaleText
      <4>3. QED
        BY <4>2, PrintedOnce
    <3>3. QED
      BY <3>1, <3>2
  <2>5. QED
    BY <2>1, <2>3, <2>4, Join
<1>2. ASSUME ContextText(rc) = ContextText(other) PROVE rc = other
  <2> DEFINE a == <<rc.precision, ModeText(rc.mode)>>
             b == <<other.precision, ModeText(other.mode)>>
             v == ScaleText(rc.scale)
             w == ScaleText(other.scale)
             x == a \o v
             y == b \o w
  <2>1. x = y /\ a \in Text /\ b \in Text /\ v \in Text /\ w \in Text
    BY <1>1, <1>2
  <2>2. Len(a) = 2 /\ Len(b) = 2 /\ a[1] = rc.precision /\ a[2] = ModeText(rc.mode)
        /\ b[1] = other.precision /\ b[2] = ModeText(other.mode)
    OBVIOUS
  <2>3. (\A i \in 1..Len(a) : x[i] = a[i]) /\ (\A i \in 1..Len(b) : y[i] = b[i])
    BY <2>1, Join, Zenon
  <2> HIDE DEF a, b, v, w, x, y
  <2>4. rc.precision = other.precision /\ ModeText(rc.mode) = ModeText(other.mode)
    <3>1. x[1] = a[1] /\ x[2] = a[2] /\ y[1] = b[1] /\ y[2] = b[2]
      BY <2>2, <2>3
    <3>2. QED
      BY <2>1, <2>2, <3>1
  <2>5. rc.mode = other.mode
    BY <2>4, ContextIs, ModeTextOnce
  <2>6. a = b
    BY <2>4 DEF a, b
  <2>7. v = w
    <3>1. a \o v = a \o w
      BY <2>1, <2>6 DEF x, y
    <3>2. QED
      BY <2>1, <3>1, JoinCancels
  <2>8. ASSUME NEW z \in AllContexts, z.scale # {} PROVE \E s \in Int : z.scale = {s} /\ ScaleText(z.scale) = Printed(s)
    <3>1. PICK s \in Int : z.scale = {s}
      BY <2>8, ContextIs
    <3>2. ScaleText(z.scale) = Printed(s)
      BY <3>1 DEF ScaleText
    <3>3. QED
      BY <3>1, <3>2
  <2>9. rc.scale = other.scale
    <3>1. CASE rc.scale = {} /\ other.scale = {}
      BY <3>1
    <3>2. CASE rc.scale # {} /\ other.scale # {}
      <4>1. PICK s \in Int : rc.scale = {s} /\ v = Printed(s)
        BY <2>8, <3>2 DEF v
      <4>2. PICK t \in Int : other.scale = {t} /\ w = Printed(t)
        BY <2>8, <3>2 DEF w
      <4>3. s = t
        BY <2>7, <4>1, <4>2, PrintedOnce
      <4>4. QED
        BY <4>1, <4>2, <4>3
    <3>3. CASE rc.scale = {} /\ other.scale # {}
      <4>1. PICK t \in Int : w = Printed(t)
        BY <2>8, <3>3 DEF w
      <4>2. v = <<>>
        BY <3>3 DEF v, ScaleText
      <4>3. QED
        BY <2>7, <4>1, <4>2, PrintedOnce
    <3>4. CASE rc.scale # {} /\ other.scale = {}
      <4>1. PICK t \in Int : v = Printed(t)
        BY <2>8, <3>4 DEF v
      <4>2. w = <<>>
        BY <3>4 DEF w, ScaleText
      <4>3. QED
        BY <2>7, <4>1, <4>2, PrintedOnce
    <3>5. QED
      BY <3>1, <3>2, <3>3, <3>4
  <2>10. QED
    BY <2>4, <2>5, <2>9, ContextIs, Zenon
<1>3. QED
  BY <1>1, <1>2

-----------------------------------------------------------------------------
(* Addresses *)

\* Parameters and bindings in the order a record has them.
Sorted(ps) == SortSlice(ps, Each(ps, LAMBDA p : p.name))
SortedBindings(bs) == SortSlice(bs, Each(bs, LAMBDA b : b.dataset))

ParameterFrame(p) == Frame(TagParameter, <<p.name, p.value>>)

\* A record has the parameters it was given,
LEMMA SortedParams ==
  ASSUME NEW ps \in Seq(Params)
  PROVE  Sorted(ps) \in Seq(Params) /\ Listed(Sorted(ps)) = Listed(ps)
<1> DEFINE keys == Each(ps, LAMBDA p : p.name)
<1>1. keys = [i \in DOMAIN ps |-> ps[i].name]
  BY Zenon DEF Each
<1>2. \A p \in Params : p.name \in Text
  BY DEF Params
<1>3. keys \in Seq(Text) /\ Len(keys) = Len(ps)
  BY <1>1, <1>2
<1> HIDE DEF keys
<1>4. SortSlice(ps, keys) \in Seq(Params) /\ Listed(SortSlice(ps, keys)) = Listed(ps)
  BY <1>3, SortedIs
<1>5. QED
  BY <1>4 DEF Sorted, keys

\* and the bindings.
LEMMA SortedBindingsAre ==
  ASSUME NEW bs \in Seq(Bindings)
  PROVE  SortedBindings(bs) \in Seq(Bindings) /\ Listed(SortedBindings(bs)) = Listed(bs)
<1> DEFINE keys == Each(bs, LAMBDA b : b.dataset)
<1>1. keys = [i \in DOMAIN bs |-> bs[i].dataset]
  BY Zenon DEF Each
<1>2. \A b \in Bindings : b.dataset \in Text
  BY DEF Bindings
<1>3. keys \in Seq(Text) /\ Len(keys) = Len(bs)
  BY <1>1, <1>2
<1> HIDE DEF keys
<1>4. SortSlice(bs, keys) \in Seq(Bindings) /\ Listed(SortSlice(bs, keys)) = Listed(bs)
  BY <1>3, SortedIs
<1>5. QED
  BY <1>4 DEF SortedBindings, keys

\* What a record writes for its parameters and for its bindings.
Frames(ps) == [i \in DOMAIN ps |-> ParameterFrame(ps[i])]
Texts(bs) == [i \in DOMAIN bs |-> BindingText(bs[i])]

\* The parts of an address, in their order.
Parts(code, inputs, ps, bs, confidence) ==
  <<MethodText(Method(code)), Frame(TagInputs, inputs),
    Frame(TagParameters, Frames(Sorted(ps))), Frame(TagReferences, Texts(SortedBindings(bs))),
    <<confidence>>>>

\* An address is the frame of its parts.
LEMMA AddressIs ==
  ASSUME NEW code, NEW inputs, NEW ps, NEW bs, NEW confidence
  PROVE  Address(Method(code), inputs, ps, bs, confidence)
           = Frame(TagDerivation, Parts(code, inputs, ps, bs, confidence))
<1> DEFINE d == NewDerivation(Method(code), inputs, ps, bs, confidence)
<1>1. d = [method |-> Method(code), inputs |-> inputs, parameters |-> Sorted(ps),
           references |-> SortedBindings(bs), confidence |-> confidence]
  BY Zenon DEF NewDerivation, Sorted, SortedBindings
<1>2. /\ d.method = Method(code) /\ d.inputs = inputs /\ d.parameters = Sorted(ps)
      /\ d.references = SortedBindings(bs) /\ d.confidence = confidence
  BY <1>1
<1> HIDE DEF d
<1>3. Each(d.parameters, LAMBDA p : Frame(TagParameter, <<p.name, p.value>>)) = Frames(Sorted(ps))
  BY <1>2, Zenon DEF Each, Frames, ParameterFrame
<1>4. Each(d.references, BindingText) = Texts(SortedBindings(bs))
  BY <1>2, Zenon DEF Each, Texts
<1>5. ContentAddress(d) = Frame(TagDerivation, Parts(code, inputs, ps, bs, confidence))
  BY <1>2, <1>3, <1>4, Zenon DEF ContentAddress, Parts
<1>6. QED
  BY <1>5 DEF Address, d

\* Lists over the same positions are as long.
LEMMA SameLength ==
  ASSUME NEW m \in Nat, NEW n \in Nat, 1..m = 1..n PROVE m = n
<1>1. m > 0 => m \in 1..n
  OBVIOUS
<1>2. n > 0 => n \in 1..m
  OBVIOUS
<1>3. QED
  BY <1>1, <1>2

\* What a record writes for its parameters are texts.
LEMMA FramesAreText ==
  ASSUME NEW ps \in Seq(Params) PROVE Frames(ps) \in Seq(Text)
<1>1. ASSUME NEW p \in Params PROVE ParameterFrame(p) \in Text
  <2>1. p.name \in Text /\ p.value \in Text
    BY DEF Params
  <2>2. <<p.name, p.value>> \in Seq(Text)
    BY <2>1
  <2>3. TagParameter \in Text
    BY DEF TagParameter, Text
  <2>4. QED
    BY <2>2, <2>3, FrameIsText DEF ParameterFrame
<1>2. QED
  BY <1>1 DEF Frames

\* Parameters are written once.
LEMMA FramesOnce ==
  ASSUME NEW ps \in Seq(Params), NEW qs \in Seq(Params), Frames(ps) = Frames(qs)
  PROVE  ps = qs
<1>1. ASSUME NEW p \in Params, NEW q \in Params, ParameterFrame(p) = ParameterFrame(q) PROVE p = q
  <2>1. p.name \in Text /\ p.value \in Text /\ q.name \in Text /\ q.value \in Text
    BY DEF Params
  <2>2. <<p.name, p.value>> \in Seq(Text) /\ <<q.name, q.value>> \in Seq(Text)
    BY <2>1
  <2>3. TagParameter \in Text
    BY DEF TagParameter, Text
  <2> DEFINE x == <<p.name, p.value>>
             y == <<q.name, q.value>>
  <2>4. Frame(TagParameter, x) = Frame(TagParameter, y) /\ x \in Seq(Text) /\ y \in Seq(Text)
    BY <1>1, <2>2, Zenon DEF ParameterFrame
  <2>5. p.name = q.name /\ p.value = q.value
    <3>1. x = y
      <4> HIDE DEF x, y
      <4>1. QED
        BY <2>3, <2>4, FrameOnce
    <3>2. QED
      BY <3>1
  <2>6. QED
    BY <2>5 DEF Params
<1>2. /\ DOMAIN ps = 1..Len(ps) /\ DOMAIN qs = 1..Len(qs) /\ Len(ps) \in Nat /\ Len(qs) \in Nat
      /\ \A i \in DOMAIN ps : ps[i] \in Params
      /\ \A i \in DOMAIN qs : qs[i] \in Params
  OBVIOUS
<1>3. DOMAIN ps = DOMAIN qs
  BY DEF Frames
<1>4. ASSUME NEW i \in DOMAIN ps PROVE ps[i] = qs[i]
  <2>1. Frames(ps)[i] = ParameterFrame(ps[i]) /\ Frames(qs)[i] = ParameterFrame(qs[i])
    BY <1>3 DEF Frames
  <2>2. QED
    BY <1>1, <1>2, <1>3, <2>1
<1>5. Len(ps) = Len(qs)
  BY <1>2, <1>3, SameLength
<1>6. QED
  BY <1>2, <1>4, <1>5

\* So is what it writes for its bindings.
LEMMA TextsAreText ==
  ASSUME NEW bs \in Seq(Bindings) PROVE Texts(bs) \in Seq(Text)
BY BindingIsText DEF Texts

\* Bindings are written once, when no dataset is named with the separator.
LEMMA TextsOnce ==
  ASSUME NEW bs \in Seq(Bindings), NEW cs \in Seq(Bindings), Texts(bs) = Texts(cs),
         \A b \in Listed(bs) \union Listed(cs) : Unsplit(b.dataset)
  PROVE  bs = cs
<1>1. /\ DOMAIN bs = 1..Len(bs) /\ DOMAIN cs = 1..Len(cs) /\ Len(bs) \in Nat /\ Len(cs) \in Nat
      /\ \A i \in DOMAIN bs : bs[i] \in Bindings
      /\ \A i \in DOMAIN cs : cs[i] \in Bindings
  OBVIOUS
<1>2. DOMAIN bs = DOMAIN cs
  BY DEF Texts
<1>3. ASSUME NEW i \in DOMAIN bs PROVE bs[i] = cs[i]
  <2>1. Texts(bs)[i] = BindingText(bs[i]) /\ Texts(cs)[i] = BindingText(cs[i])
    BY <1>2 DEF Texts
  <2>2. Unsplit(bs[i].dataset) /\ Unsplit(cs[i].dataset)
    BY <1>2 DEF Listed
  <2>3. QED
    BY <1>1, <1>2, <2>1, <2>2, BindingTextOnce
<1>4. Len(bs) = Len(cs)
  BY <1>1, <1>2, SameLength
<1>5. QED
  BY <1>1, <1>3, <1>4

\* A method is written with its code first.
LEMMA MethodIs ==
  ASSUME NEW code \in Nat
  PROVE  MethodText(Method(code)) \in Text /\ MethodText(Method(code))[1] = code
<1> DEFINE a == <<code>>
           at == <<AtSign>>
           b == <<49>>
           x == a \o at
<1>1. Method(code).name = a /\ Method(code).version = b
  BY DEF Method
<1>2. MethodText(Method(code)) = x \o b
  BY <1>1, Zenon DEF MethodText
<1>3. /\ a \in Text /\ at \in Text /\ b \in Text /\ Len(a) = 1 /\ Len(at) = 1 /\ a[1] = code
  BY DEF Text, AtSign
<1> HIDE DEF a, at, b
<1>4. x \in Text /\ Len(x) = 2 /\ x[1] = code
  <2>1. x \in Text /\ Len(x) = Len(a) + Len(at) /\ \A i \in 1..Len(a) : x[i] = a[i]
    BY <1>3, Join, Zenon
  <2> HIDE DEF x
  <2>2. QED
    BY <1>3, <2>1
<1> HIDE DEF x
<1>5. x \o b \in Text /\ \A i \in 1..Len(x) : (x \o b)[i] = x[i]
  BY <1>3, <1>4, Join, Zenon
<1>6. 1 \in 1..Len(x)
  BY <1>4
<1>7. QED
  BY <1>2, <1>4, <1>5, <1>6, Zenon

\* The parts of an address are texts.
LEMMA PartsAreText ==
  ASSUME NEW code \in Nat, NEW inputs \in Seq(Text), NEW ps \in Seq(Params),
         NEW bs \in Seq(Bindings), NEW confidence \in Levels
  PROVE  Parts(code, inputs, ps, bs, confidence) \in Seq(Text)
<1> DEFINE a == MethodText(Method(code))
           b == Frame(TagInputs, inputs)
           c == Frame(TagParameters, Frames(Sorted(ps)))
           d == Frame(TagReferences, Texts(SortedBindings(bs)))
           e == <<confidence>>
<1>1. a \in Text
  BY MethodIs
<1>2. TagInputs \in Text /\ TagParameters \in Text /\ TagReferences \in Text
  BY DEF TagInputs, TagParameters, TagReferences, Text
<1>3. Frames(Sorted(ps)) \in Seq(Text) /\ Texts(SortedBindings(bs)) \in Seq(Text)
  BY SortedParams, SortedBindingsAre, FramesAreText, TextsAreText
<1>4. b \in Text /\ c \in Text /\ d \in Text
  BY <1>2, <1>3, FrameIsText
<1>5. e \in Text
  BY DEF Levels, Text
<1>6. Parts(code, inputs, ps, bs, confidence) = <<a, b, c, d, e>>
  BY Zenon DEF Parts
<1> HIDE DEF a, b, c, d, e
<1>7. QED
  BY <1>1, <1>4, <1>5, <1>6

\* An address is a text.
LEMMA AddressIsText ==
  ASSUME NEW code \in Nat, NEW inputs \in Seq(Text), NEW ps \in Seq(Params),
         NEW bs \in Seq(Bindings), NEW confidence \in Levels
  PROVE  Address(Method(code), inputs, ps, bs, confidence) \in Text
<1>1. TagDerivation \in Text
  BY DEF TagDerivation, Text
<1>2. Parts(code, inputs, ps, bs, confidence) \in Seq(Text)
  BY PartsAreText
<1>3. QED
  BY <1>1, <1>2, AddressIs, FrameIsText

\* An address says its method, its inputs and its confidence, its parameters in
\* their order, and the texts of its bindings.
LEMMA AddressOnce ==
  ASSUME NEW code \in Nat, NEW inputs \in Seq(Text), NEW ps \in Seq(Params),
         NEW bs \in Seq(Bindings), NEW confidence \in Levels,
         NEW other \in Nat, NEW sources \in Seq(Text), NEW qs \in Seq(Params),
         NEW cs \in Seq(Bindings), NEW level \in Levels
  PROVE  Address(Method(code), inputs, ps, bs, confidence) = Address(Method(other), sources, qs, cs, level)
           <=> /\ code = other /\ inputs = sources /\ confidence = level
               /\ Sorted(ps) = Sorted(qs)
               /\ Texts(SortedBindings(bs)) = Texts(SortedBindings(cs))
<1> DEFINE p == Parts(code, inputs, ps, bs, confidence)
           q == Parts(other, sources, qs, cs, level)
<1>1. TagDerivation \in Text /\ p \in Seq(Text) /\ q \in Seq(Text)
  <2>1. TagDerivation \in Text
    BY DEF TagDerivation, Text
  <2>2. QED
    BY <2>1, PartsAreText
<1>2. Address(Method(code), inputs, ps, bs, confidence) = Address(Method(other), sources, qs, cs, level)
        <=> p = q
  <2>1. /\ Address(Method(code), inputs, ps, bs, confidence) = Frame(TagDerivation, p)
        /\ Address(Method(other), sources, qs, cs, level) = Frame(TagDerivation, q)
    BY AddressIs
  <2> HIDE DEF p, q
  <2>2. QED
    BY <1>1, <2>1, FrameOnce
<1>3. ASSUME p = q
      PROVE  /\ code = other /\ inputs = sources /\ confidence = level
             /\ Sorted(ps) = Sorted(qs)
             /\ Texts(SortedBindings(bs)) = Texts(SortedBindings(cs))
  <2>1. /\ MethodText(Method(code)) = MethodText(Method(other))
        /\ Frame(TagInputs, inputs) = Frame(TagInputs, sources)
        /\ Frame(TagParameters, Frames(Sorted(ps))) = Frame(TagParameters, Frames(Sorted(qs)))
        /\ Frame(TagReferences, Texts(SortedBindings(bs))) = Frame(TagReferences, Texts(SortedBindings(cs)))
        /\ <<confidence>> = <<level>>
    BY <1>3 DEF Parts
  <2>2. code = other
    BY <2>1, MethodIs, Zenon
  <2>3. code = other /\ confidence = level
    BY <2>1, <2>2
  <2>4. TagInputs \in Text /\ TagParameters \in Text /\ TagReferences \in Text
    BY DEF TagInputs, TagParameters, TagReferences, Text
  <2>5. /\ Frames(Sorted(ps)) \in Seq(Text) /\ Texts(SortedBindings(bs)) \in Seq(Text)
        /\ Frames(Sorted(qs)) \in Seq(Text) /\ Texts(SortedBindings(cs)) \in Seq(Text)
    BY SortedParams, SortedBindingsAre, FramesAreText, TextsAreText
  <2>6. /\ inputs = sources /\ Frames(Sorted(ps)) = Frames(Sorted(qs))
        /\ Texts(SortedBindings(bs)) = Texts(SortedBindings(cs))
    BY <2>1, <2>4, <2>5, FrameOnce
  <2>7. Sorted(ps) = Sorted(qs)
    BY <2>6, SortedParams, FramesOnce
  <2>8. QED
    BY <2>3, <2>6, <2>7
<1>4. ASSUME code = other, inputs = sources, confidence = level, Sorted(ps) = Sorted(qs),
             Texts(SortedBindings(bs)) = Texts(SortedBindings(cs))
      PROVE  p = q
  BY <1>4, Zenon DEF Parts
<1>5. QED
  BY <1>2, <1>3, <1>4

-----------------------------------------------------------------------------
(* How the values of a behaviour were got *)

\* The codes of the methods that combine values.
Combined == {97, 102, 109, 110, 113, 115, 118}

\* The rounding a method records, if it rounds.
Chosen(code, rc) == IF code \in {113, 118} THEN RoundingParameter(rc) ELSE <<>>

Traces(xs) == [i \in DOMAIN xs |-> xs[i].trace]
Hows(xs) == [i \in DOMAIN xs |-> xs[i].how]
Amounts(xs) == [i \in DOMAIN xs |-> xs[i].value]

\* What a method makes of amounts.
Result(code, ys, rc) ==
  CASE code = 110 -> Neg(ys[1])
    [] code = 113 -> Quantize(ys[1], rc)
    [] code = 97  -> Add(ys[1], ys[2])
    [] code = 115 -> Sub(ys[1], ys[2])
    [] code = 109 -> Mul(ys[1], ys[2])
    [] code = 118 -> Div(ys[1], ys[2], rc)
    [] OTHER      -> Add(Add(Add(Zero(ys[1].currency), ys[1]), ys[2]), ys[3])

Got(n, code, inputs, how, ps, bs, confidence) ==
  /\ confidence \in Levels
  /\ n.trace = Address(Method(code), inputs, ps, bs, confidence)
  /\ n.how = Computation(Method(code), how, ps, bs, confidence)

\* A value that a method made of values there were.
MadeOf(n, code, xs, rc, confidence, V) ==
  /\ code \in Combined /\ xs \in Seq(V) /\ rc \in AllContexts
  /\ Got(n, code, Traces(xs), Hows(xs), Chosen(code, rc), <<>>, confidence)
  /\ n.value = Result(code, Amounts(xs), rc)

\* What may be lifted, and with which record.
Given(r, ps, bs) ==
  \/ r \in Reports /\ ps = <<>> /\ bs = <<>>
  \/ \E d \in Derivations : r = d.report /\ ps = d.parameters /\ bs = d.references

\* A value that was lifted.
LiftOf(n, r, ps, bs) ==
  /\ Given(r, ps, bs)
  /\ Got(n, 100, <<r.ref>>, <<[fact |-> r.ref]>>, ps, bs, r.confidence)
  /\ n.value = r.amount

Known(n, V) ==
  \/ \E code, xs, rc, confidence : MadeOf(n, code, xs, rc, confidence, V)
  \/ \E r, ps, bs : LiftOf(n, r, ps, bs)

\* A step that adds one value of which it is known how it was got.
Grows == \E n : values' = values \union {n} /\ Known(n, values)

\* A combinator over values there are.
LEMMA Making ==
  ASSUME NEW code \in Combined, NEW xs \in Seq(values), NEW rc \in AllContexts, NEW exact, NEW asked,
         NEW confidence, NEW facts,
         Explain(Result(code, Amounts(xs), rc), exact, asked, Method(code), Traces(xs), Hows(xs),
                 Chosen(code, rc), <<>>, confidence, facts)
  PROVE  Grows
<1>1. PICK n : Enters(n, Result(code, Amounts(xs), rc), exact, Method(code), Traces(xs), Hows(xs),
                      Chosen(code, rc), <<>>, confidence)
  BY ExplainEnters, Zenon
<1>2. values' = values \union {n} /\ MadeOf(n, code, xs, rc, confidence, values)
  BY <1>1, Zenon DEF Enters, MadeOf, Got
<1>3. QED
  BY <1>2, Zenon DEF Grows, Known

\* Lifting what may be lifted.
LEMMA Lifting ==
  ASSUME NEW r, NEW ps, NEW bs, Given(r, ps, bs), FromDerivation(r, ps, bs)
  PROVE  Grows
<1>1. PICK n : Enters(n, r.amount, r.amount.amount, Method(100), <<r.ref>>, <<[fact |-> r.ref]>>,
                      ps, bs, r.confidence)
  BY ExplainEnters, Zenon DEF FromDerivation
<1>2. values' = values \union {n} /\ LiftOf(n, r, ps, bs)
  BY <1>1, Zenon DEF Enters, LiftOf, Got
<1>3. QED
  BY <1>2, Zenon DEF Grows, Known

\* What one value as a list shows of it.
LEMMA OneOf ==
  ASSUME NEW V, NEW v \in V
  PROVE  /\ <<v>> \in Seq(V) /\ Traces(<<v>>) = <<v.trace>> /\ Hows(<<v>>) = <<v.how>>
         /\ Amounts(<<v>>) = <<v.value>>
BY DEF Traces, Hows, Amounts

\* What two values as a list show of them.
LEMMA TwoOf ==
  ASSUME NEW V, NEW v \in V, NEW w \in V
  PROVE  /\ <<v, w>> \in Seq(V) /\ Traces(<<v, w>>) = <<v.trace, w.trace>>
         /\ Hows(<<v, w>>) = <<v.how, w.how>> /\ Amounts(<<v, w>>) = <<v.value, w.value>>
BY DEF Traces, Hows, Amounts

\* What three values as a list show of them.
LEMMA ThreeOf ==
  ASSUME NEW V, NEW v \in V, NEW w \in V, NEW x \in V
  PROVE  <<v, w, x>> \in Seq(V) /\ Amounts(<<v, w, x>>) = <<v.value, w.value, x.value>>
BY DEF Amounts

\* Two amounts combined by a method that needs no rounding, or by division.
LEMMA MakingOfTwo ==
  ASSUME NEW code \in Combined, NEW v \in values, NEW w \in values, NEW rc \in AllContexts,
         NEW exact, NEW asked,
         Combine2(v, w, Method(code), Chosen(code, rc), Result(code, <<v.value, w.value>>, rc), exact, asked)
  PROVE  Grows
<1> DEFINE xs == <<v, w>>
<1>1. /\ xs \in Seq(values) /\ Traces(xs) = <<v.trace, w.trace>>
      /\ Hows(xs) = <<v.how, w.how>> /\ Amounts(xs) = <<v.value, w.value>>
  BY TwoOf
<1> HIDE DEF xs
<1>2. Explain(Result(code, Amounts(xs), rc), exact, asked, Method(code), Traces(xs), Hows(xs),
              Chosen(code, rc), <<>>, Weakest({v.confidence, w.confidence}), v.facts \union w.facts)
  BY <1>1, Zenon DEF Combine2
<1>3. QED
  BY <1>1, <1>2, Making

\* One amount turned into another, rounded or not.
LEMMA MakingOfOne ==
  ASSUME NEW code \in Combined, NEW v \in values, NEW rc \in AllContexts,
         NEW exact, NEW asked,
         TryMap(v, Method(code), Chosen(code, rc), Result(code, <<v.value>>, rc), exact, asked)
  PROVE  Grows
<1> DEFINE xs == <<v>>
<1>1. /\ xs \in Seq(values) /\ Traces(xs) = <<v.trace>>
      /\ Hows(xs) = <<v.how>> /\ Amounts(xs) = <<v.value>>
  BY OneOf
<1> HIDE DEF xs
<1>2. Explain(Result(code, Amounts(xs), rc), exact, asked, Method(code), Traces(xs), Hows(xs),
              Chosen(code, rc), <<>>, v.confidence, v.facts)
  BY <1>1, Zenon DEF TryMap
<1>3. QED
  BY <1>1, <1>2, Making

\* Every step of a calculation adds a value of which it is known how it was got.
LEMMA ComputeGrows == ASSUME Compute PROVE Grows
<1>1. /\ 97 \in Combined /\ 102 \in Combined /\ 109 \in Combined /\ 110 \in Combined
      /\ 113 \in Combined /\ 115 \in Combined /\ 118 \in Combined
  BY DEF Combined
<1>2. ZeroContext \in AllContexts /\ Contexts \subseteq AllContexts
  BY ContextsAssumption DEF AllContexts
<1>3. ASSUME NEW rc
      PROVE  /\ Chosen(97, rc) = <<>> /\ Chosen(102, rc) = <<>> /\ Chosen(109, rc) = <<>>
             /\ Chosen(110, rc) = <<>> /\ Chosen(115, rc) = <<>>
             /\ Chosen(113, rc) = RoundingParameter(rc) /\ Chosen(118, rc) = RoundingParameter(rc)
  BY DEF Chosen
<1>4. ASSUME NEW ys, NEW rc
      PROVE  /\ Result(110, ys, rc) = Neg(ys[1]) /\ Result(113, ys, rc) = Quantize(ys[1], rc)
             /\ Result(97, ys, rc) = Add(ys[1], ys[2]) /\ Result(115, ys, rc) = Sub(ys[1], ys[2])
             /\ Result(109, ys, rc) = Mul(ys[1], ys[2]) /\ Result(118, ys, rc) = Div(ys[1], ys[2], rc)
             /\ Result(102, ys, rc) = Add(Add(Add(Zero(ys[1].currency), ys[1]), ys[2]), ys[3])
  BY DEF Result
<1>5. ASSUME NEW a, NEW b PROVE <<a>>[1] = a /\ <<a, b>>[1] = a /\ <<a, b>>[2] = b
  OBVIOUS
<1>6. ASSUME NEW r \in Reports, FromObservation(r) PROVE Grows
  <2>1. Given(r, <<>>, <<>>)
    BY DEF Given
  <2>2. QED
    BY <1>6, <2>1, Lifting DEF FromObservation
<1>7. ASSUME NEW d \in Derivations, FromDerivation(d.report, d.parameters, d.references) PROVE Grows
  <2>1. Given(d.report, d.parameters, d.references)
    BY DEF Given
  <2>2. QED
    BY <1>7, <2>1, Lifting
<1>8. ASSUME NEW v \in values, Negate(v) PROVE Grows
  <2>1. Result(110, <<v.value>>, ZeroContext) = Neg(v.value)
    BY <1>4, <1>5
  <2>2. TryMap(v, Method(110), Chosen(110, ZeroContext), Result(110, <<v.value>>, ZeroContext),
               DecimalNeg(v.exact), {})
    BY <1>3, <1>8, <2>1, Zenon DEF Negate, Map, TryMap
  <2>3. QED
    BY <1>1, <1>2, <2>2, MakingOfOne, Zenon
<1>9. ASSUME NEW v \in values, NEW rc \in Contexts, RoundToScale(v, rc) PROVE Grows
  <2> DEFINE value == Quantize(v.value, rc)
             asked == {[of |-> v.value.amount, by |-> Decimal(1, 0), context |-> rc]}
  <2>1. Result(113, <<v.value>>, rc) = value
    BY <1>4, <1>5
  <2>2. TryMap(v, Method(113), Chosen(113, rc), Result(113, <<v.value>>, rc), value.amount, asked)
    BY <1>3, <1>9, <2>1, Zenon DEF RoundToScale
  <2> HIDE DEF value, asked
  <2>3. QED
    BY <1>1, <1>2, <2>2, MakingOfOne
<1>10. ASSUME NEW v \in values, NEW w \in values, Total(v, w) PROVE Grows
  <2>1. Result(97, <<v.value, w.value>>, ZeroContext) = Add(v.value, w.value)
    BY <1>4, <1>5
  <2>2. Combine2(v, w, Method(97), Chosen(97, ZeroContext),
                 Result(97, <<v.value, w.value>>, ZeroContext), DecimalAdd(v.exact, w.exact), {})
    BY <1>3, <1>10, <2>1, Zenon DEF Total
  <2>3. QED
    BY <1>1, <1>2, <2>2, MakingOfTwo
<1>11. ASSUME NEW v \in values, NEW w \in values, Difference(v, w) PROVE Grows
  <2>1. Result(115, <<v.value, w.value>>, ZeroContext) = Sub(v.value, w.value)
    BY <1>4, <1>5
  <2>2. Combine2(v, w, Method(115), Chosen(115, ZeroContext),
                 Result(115, <<v.value, w.value>>, ZeroContext),
                 DecimalAdd(v.exact, DecimalNeg(w.exact)), {})
    BY <1>3, <1>11, <2>1, Zenon DEF Difference
  <2>3. QED
    BY <1>1, <1>2, <2>2, MakingOfTwo
<1>12. ASSUME NEW v \in values, NEW w \in values, CombineQuantities(v, w) PROVE Grows
  <2>1. Result(97, <<v.value, w.value>>, ZeroContext) = Add(v.value, w.value)
    BY <1>4, <1>5
  <2>2. Result(115, <<v.value, w.value>>, ZeroContext) = Sub(v.value, w.value)
    BY <1>4, <1>5
  <2>3. /\ AddQuantity(v.value, w.value) = Add(v.value, w.value)
        /\ SubQuantity(v.value, w.value) = Sub(v.value, w.value)
    BY Zenon DEF AddQuantity, Add, SubQuantity, Sub
  <2>4. \/ Combine2(v, w, Method(97), Chosen(97, ZeroContext),
                    Result(97, <<v.value, w.value>>, ZeroContext), DecimalAdd(v.exact, w.exact), {})
        \/ Combine2(v, w, Method(115), Chosen(115, ZeroContext),
                    Result(115, <<v.value, w.value>>, ZeroContext),
                    DecimalAdd(v.exact, DecimalNeg(w.exact)), {})
    BY <1>3, <1>12, <2>1, <2>2, <2>3, Zenon DEF CombineQuantities
  <2>5. QED
    BY <1>1, <1>2, <2>4, MakingOfTwo
<1>13. ASSUME NEW v \in values, NEW q \in values, Worth(v, q) PROVE Grows
  <2>1. Result(109, <<v.value, q.value>>, ZeroContext) = Mul(v.value, q.value)
    BY <1>4, <1>5
  <2>2. Combine2(v, q, Method(109), Chosen(109, ZeroContext),
                 Result(109, <<v.value, q.value>>, ZeroContext), DecimalMul(v.exact, q.exact), {})
    BY <1>3, <1>13, <2>1, Zenon DEF Worth
  <2>3. QED
    BY <1>1, <1>2, <2>2, MakingOfTwo
<1>14. ASSUME NEW v \in values, NEW q \in values, NEW rc \in Contexts, PerUnit(v, q, rc) PROVE Grows
  <2> DEFINE value == Div(v.value, q.value, rc)
             asked == {[of |-> v.value.amount, by |-> q.value.amount, context |-> [rc EXCEPT !.scale = {}]]}
  <2>1. Result(118, <<v.value, q.value>>, rc) = value
    BY <1>4, <1>5
  <2>2. Combine2(v, q, Method(118), Chosen(118, rc), Result(118, <<v.value, q.value>>, rc),
                 value.amount, asked)
    BY <1>3, <1>14, <2>1, Zenon DEF PerUnit
  <2> HIDE DEF value, asked
  <2>3. QED
    BY <1>1, <1>2, <2>2, MakingOfTwo
<1>15. ASSUME NEW v \in values, NEW w \in values, NEW x \in values, Fold(<<v, w, x>>) PROVE Grows
  <2> DEFINE xs == <<v, w, x>>
             ys == <<v.value, w.value, x.value>>
             sum == Sums(xs)
             weakest == Weakest({xs[i].confidence : i \in DOMAIN xs})
             facts == UNION {xs[i].facts : i \in DOMAIN xs}
  <2>1. xs \in Seq(values) /\ Amounts(xs) = ys
    BY ThreeOf
  <2>2. Len(xs) = 3 /\ ys[1] = v.value /\ ys[2] = w.value /\ ys[3] = x.value
    OBVIOUS
  <2>3. /\ sum[0] = Zero(v.value.currency) /\ sum[1] = Add(sum[0], v.value)
        /\ sum[2] = Add(sum[1], w.value) /\ sum[3] = Add(sum[2], x.value)
    BY ThreeSums
  <2>4. Explain(sum[Len(xs)], ExactSums(xs)[Len(xs)], {}, Method(102), Traces(xs), Hows(xs),
                <<>>, <<>>, weakest, facts)
    BY <1>15, Zenon DEF Fold, Each, Traces, Hows
  <2> HIDE DEF xs, ys, sum, weakest, facts
  <2>5. Result(102, Amounts(xs), ZeroContext) = sum[Len(xs)]
    BY <1>4, <2>1, <2>2, <2>3
  <2>6. QED
    BY <1>1, <1>2, <1>3, <2>1, <2>4, <2>5, Making
<1>16. QED
  BY <1>6, <1>7, <1>8, <1>9, <1>10, <1>11, <1>12, <1>13, <1>14, <1>15, Zenon DEF Compute

-----------------------------------------------------------------------------
(* What an address says *)

\* The codes are numbers, and none of them is that of lifting.
LEMMA CodesApart == ASSUME NEW code \in Combined PROVE code \in Nat /\ code # 100
BY DEF Combined

\* The parameters of a method that combines values.
LEMMA ChosenIs ==
  ASSUME NEW code, NEW rc \in AllContexts
  PROVE  Chosen(code, rc) \in Seq(Params)
<1>1. ContextText(rc) \in Text
  BY ContextTextOnce
<1>2. [name |-> <<114>>, value |-> ContextText(rc)] \in Params
  BY <1>1 DEF Params, Text
<1>3. RoundingParameter(rc) \in Seq(Params)
  BY <1>2 DEF RoundingParameter
<1>4. QED
  BY <1>3 DEF Chosen

\* What is lifted.
LEMMA GivenIs ==
  ASSUME NEW r, NEW ps, NEW bs, Given(r, ps, bs)
  PROVE  r \in Reported /\ ps \in Seq(Params) /\ bs \in Seq(Bindings) /\ r.ref \in Text
<1> DEFINE D == [report : Reported, parameters : Seq(Params), references : Seq(Bindings)]
<1>1. Reports \subseteq Reported /\ Derivations \subseteq D
  BY ReportsAssumption, Zenon DEF Params, Bindings
<1>2. r \in Reported /\ ps \in Seq(Params) /\ bs \in Seq(Bindings)
  <2>1. CASE r \in Reports /\ ps = <<>> /\ bs = <<>>
    <3>1. <<>> \in Seq(Params) /\ <<>> \in Seq(Bindings)
      OBVIOUS
    <3>2. QED
      BY <1>1, <2>1, <3>1
  <2>2. CASE \E d \in Derivations : r = d.report /\ ps = d.parameters /\ bs = d.references
    <3>1. PICK d \in D : r = d.report /\ ps = d.parameters /\ bs = d.references
      BY <1>1, <2>2
    <3>2. d.report \in Reported /\ d.parameters \in Seq(Params) /\ d.references \in Seq(Bindings)
      OBVIOUS
    <3>3. QED
      BY <3>1, <3>2
  <2>3. QED
    BY <2>1, <2>2 DEF Given
<1>3. r.ref \in Text
  BY <1>2 DEF Reported
<1>4. QED
  BY <1>2, <1>3

\* The traces of a list of values are texts.
LEMMA TracesAreText ==
  ASSUME NEW V, \A x \in V : x.trace \in Text, NEW xs \in Seq(V)
  PROVE  Traces(xs) \in Seq(Text)
BY DEF Traces

\* The record under an address, and what was done.
Recorded(x, code, inputs, how, ps, bs, confidence) ==
  /\ code \in Nat /\ inputs \in Seq(Text) /\ ps \in Seq(Params) /\ bs \in Seq(Bindings)
  /\ Got(x, code, inputs, how, ps, bs, confidence)

\* A value that was made has a record of its method and of what it was made of.
LEMMA MadeRecorded ==
  ASSUME NEW V, \A x \in V : x.trace \in Text, NEW n, NEW code, NEW xs, NEW rc, NEW confidence,
         MadeOf(n, code, xs, rc, confidence, V)
  PROVE  Recorded(n, code, Traces(xs), Hows(xs), Chosen(code, rc), <<>>, confidence)
<1>1. code \in Combined /\ xs \in Seq(V) /\ rc \in AllContexts
  BY Zenon DEF MadeOf
<1>2. code \in Nat /\ Chosen(code, rc) \in Seq(Params) /\ Traces(xs) \in Seq(Text)
  BY <1>1, CodesApart, ChosenIs, TracesAreText
<1>3. <<>> \in Seq(Bindings)
  OBVIOUS
<1>4. QED
  BY <1>2, <1>3, Zenon DEF MadeOf, Recorded

\* A value that was lifted has a record of its reference.
LEMMA LiftRecorded ==
  ASSUME NEW n, NEW r, NEW ps, NEW bs, LiftOf(n, r, ps, bs)
  PROVE  Recorded(n, 100, <<r.ref>>, <<[fact |-> r.ref]>>, ps, bs, r.confidence)
<1>1. ps \in Seq(Params) /\ bs \in Seq(Bindings) /\ r.ref \in Text
  BY GivenIs DEF LiftOf
<1>2. <<r.ref>> \in Seq(Text) /\ 100 \in Nat
  BY <1>1
<1>3. QED
  BY <1>1, <1>2, Zenon DEF LiftOf, Recorded

\* Values of one address have one record, but for the order in which parameters
\* were given and for what the texts of bindings leave open.
LEMMA RecordedOnce ==
  ASSUME NEW x, NEW code, NEW inputs, NEW how, NEW ps, NEW bs, NEW confidence,
         Recorded(x, code, inputs, how, ps, bs, confidence),
         NEW y, NEW other, NEW sources, NEW done, NEW qs, NEW cs, NEW level,
         Recorded(y, other, sources, done, qs, cs, level)
  PROVE  x.trace = y.trace
           <=> /\ code = other /\ inputs = sources /\ confidence = level
               /\ Sorted(ps) = Sorted(qs)
               /\ Texts(SortedBindings(bs)) = Texts(SortedBindings(cs))
<1>1. /\ code \in Nat /\ inputs \in Seq(Text) /\ ps \in Seq(Params) /\ bs \in Seq(Bindings)
      /\ confidence \in Levels /\ x.trace = Address(Method(code), inputs, ps, bs, confidence)
  BY Zenon DEF Recorded, Got
<1>2. /\ other \in Nat /\ sources \in Seq(Text) /\ qs \in Seq(Params) /\ cs \in Seq(Bindings)
      /\ level \in Levels /\ y.trace = Address(Method(other), sources, qs, cs, level)
  BY Zenon DEF Recorded, Got
<1>3. QED
  BY <1>1, <1>2, AddressOnce

\* Every value that is known has a text as its address.
LEMMA KnownIsText ==
  ASSUME NEW V, \A x \in V : x.trace \in Text, NEW n, Known(n, V)
  PROVE  n.trace \in Text
<1>1. ASSUME NEW code, NEW inputs, NEW how, NEW ps, NEW bs, NEW confidence,
             Recorded(n, code, inputs, how, ps, bs, confidence)
      PROVE  n.trace \in Text
  BY <1>1, AddressIsText DEF Recorded, Got
<1>2. ASSUME NEW code, NEW xs, NEW rc, NEW confidence, MadeOf(n, code, xs, rc, confidence, V)
      PROVE  n.trace \in Text
  <2>1. Recorded(n, code, Traces(xs), Hows(xs), Chosen(code, rc), <<>>, confidence)
    BY <1>2, MadeRecorded
  <2>2. QED
    BY <1>1, <2>1, Zenon
<1>3. ASSUME NEW r, NEW ps, NEW bs, LiftOf(n, r, ps, bs) PROVE n.trace \in Text
  BY <1>1, <1>3, LiftRecorded, Zenon
<1>4. QED
  BY <1>2, <1>3 DEF Known

\* What was known stays known.
LEMMA KnownStays ==
  ASSUME NEW V, NEW W, V \subseteq W, NEW n, Known(n, V) PROVE Known(n, W)
<1>1. ASSUME NEW xs \in Seq(V) PROVE xs \in Seq(W)
  OBVIOUS
<1>2. QED
  BY <1>1, Zenon DEF Known, MadeOf

\* Every value is known, and has a text as its address.
AllKnown == \A v \in values : v.trace \in Text /\ Known(v, values)

\* Every step keeps that.
LEMMA StepKnown == AllKnown /\ [Compute]_values => AllKnown'
<1> SUFFICES ASSUME AllKnown, [Compute]_values PROVE AllKnown'
  OBVIOUS
<1>1. CASE UNCHANGED values
  BY <1>1 DEF AllKnown, Known, MadeOf, LiftOf
<1>2. CASE Compute
  <2>1. PICK n : values' = values \union {n} /\ Known(n, values)
    BY <1>2, ComputeGrows DEF Grows
  <2>2. n.trace \in Text
    BY <2>1, KnownIsText DEF AllKnown
  <2>3. \A v \in values' : v.trace \in Text /\ Known(v, values)
    BY <2>1, <2>2 DEF AllKnown
  <2>4. values \subseteq values'
    BY <2>1
  <2>5. \A v \in values' : Known(v, values')
    BY <2>3, <2>4, KnownStays
  <2>6. QED
    BY <2>3, <2>5 DEF AllKnown
<1>3. QED
  BY <1>1, <1>2

-----------------------------------------------------------------------------
(* An address decides the value *)

\* A reference names one reported amount: whoever lifts it, it says the same.
\* It is the address of a record that is never changed.
Liftable == Reports \union {d.report : d \in Derivations}

OneAmountEach == \A r, s \in Liftable : r.ref = s.ref => r.amount = s.amount

\* Lists of values that have the same traces have the same amounts.
LEMMA SameAmounts ==
  ASSUME NEW V, \A x, y \in V : x.trace = y.trace => x.value = y.value,
         NEW xs \in Seq(V), NEW ys \in Seq(V), Traces(xs) = Traces(ys)
  PROVE  Amounts(xs) = Amounts(ys)
<1>1. DOMAIN xs = DOMAIN ys
  BY DEF Traces
<1>2. ASSUME NEW i \in DOMAIN xs PROVE xs[i].value = ys[i].value
  <2>1. Traces(xs)[i] = xs[i].trace /\ Traces(ys)[i] = ys[i].trace
    BY <1>1 DEF Traces
  <2>2. xs[i] \in V /\ ys[i] \in V
    BY <1>1
  <2>3. QED
    BY <2>1, <2>2
<1>3. QED
  BY <1>1, <1>2 DEF Amounts

\* The rounding a method records is the one it uses.
LEMMA SameRounding ==
  ASSUME NEW code \in Combined, NEW rc \in AllContexts, NEW other \in AllContexts, NEW ys,
         Sorted(Chosen(code, rc)) = Sorted(Chosen(code, other))
  PROVE  Result(code, ys, rc) = Result(code, ys, other)
<1>1. CASE code \in {113, 118}
  <2>1. Chosen(code, rc) = RoundingParameter(rc) /\ Chosen(code, other) = RoundingParameter(other)
    BY <1>1 DEF Chosen
  <2>2. Listed(RoundingParameter(rc)) = Listed(RoundingParameter(other))
    BY <2>1, ChosenIs, SortedParams
  <2> DEFINE p == [name |-> <<114>>, value |-> ContextText(rc)]
             q == [name |-> <<114>>, value |-> ContextText(other)]
  <2>3. RoundingParameter(rc) = <<p>> /\ RoundingParameter(other) = <<q>>
    BY Zenon DEF RoundingParameter
  <2>4. p.value = ContextText(rc) /\ q.value = ContextText(other)
    OBVIOUS
  <2> HIDE DEF p, q
  <2>5. ASSUME NEW x PROVE Listed(<<x>>) = {x}
    <3>1. DOMAIN <<x>> = {1} /\ <<x>>[1] = x
      OBVIOUS
    <3>2. QED
      BY <3>1, Zenon DEF Listed
  <2>6. p = q
    BY <2>2, <2>3, <2>5
  <2>7. rc = other
    BY <2>4, <2>6, ContextTextOnce
  <2>8. QED
    BY <2>7
<1>2. CASE code \notin {113, 118}
  BY <1>2 DEF Result
<1>3. QED
  BY <1>1, <1>2

\* Values that were made and values that were lifted are never under one address.
LEMMA MadeIsNotLifted ==
  ASSUME NEW V, \A x \in V : x.trace \in Text,
         NEW n, NEW code, NEW xs, NEW rc, NEW confidence, MadeOf(n, code, xs, rc, confidence, V),
         NEW u, NEW r, NEW ps, NEW bs, LiftOf(u, r, ps, bs)
  PROVE  n.trace # u.trace /\ n.how # u.how
<1> DEFINE sources == <<r.ref>>
           done == <<[fact |-> r.ref]>>
<1>1. Recorded(n, code, Traces(xs), Hows(xs), Chosen(code, rc), <<>>, confidence)
  BY MadeRecorded
<1>2. Recorded(u, 100, sources, done, ps, bs, r.confidence)
  BY LiftRecorded
<1>3. code # 100
  BY CodesApart DEF MadeOf
<1> HIDE DEF sources, done
<1>4. n.trace # u.trace
  BY <1>1, <1>2, <1>3, RecordedOnce
<1>5. n.how.method = Method(code) /\ u.how.method = Method(100)
  BY <1>1, <1>2 DEF Recorded, Got, Computation
<1>6. Method(code) # Method(100)
  <2>1. Method(code).name[1] = code /\ Method(100).name[1] = 100
    BY DEF Method
  <2>2. QED
    BY <1>3, <2>1
<1>7. QED
  BY <1>4, <1>5, <1>6

\* Two values that are known, over values whose addresses decide them.
LEMMA AddressDecides ==
  ASSUME OneAmountEach, NEW V, \A x \in V : x.trace \in Text,
         \A x, y \in V : x.trace = y.trace => x.value = y.value,
         NEW n, NEW u, Known(n, V), Known(u, V), n.trace = u.trace
  PROVE  n.value = u.value
<1>1. ASSUME NEW code, NEW xs, NEW rc, NEW confidence, MadeOf(n, code, xs, rc, confidence, V),
             NEW other, NEW ys, NEW context, NEW level, MadeOf(u, other, ys, context, level, V)
      PROVE  n.value = u.value
  <2>1. /\ code \in Combined /\ xs \in Seq(V) /\ ys \in Seq(V) /\ rc \in AllContexts
        /\ context \in AllContexts /\ n.value = Result(code, Amounts(xs), rc)
        /\ u.value = Result(other, Amounts(ys), context)
    BY <1>1, Zenon DEF MadeOf
  <2>2. /\ Recorded(n, code, Traces(xs), Hows(xs), Chosen(code, rc), <<>>, confidence)
        /\ Recorded(u, other, Traces(ys), Hows(ys), Chosen(other, context), <<>>, level)
    BY <1>1, MadeRecorded, Zenon
  <2>3. code = other /\ Traces(xs) = Traces(ys) /\ Sorted(Chosen(code, rc)) = Sorted(Chosen(other, context))
    BY <2>2, RecordedOnce
  <2>4. Amounts(xs) = Amounts(ys)
    BY <2>1, <2>3, SameAmounts
  <2>5. Result(code, Amounts(xs), rc) = Result(code, Amounts(xs), context)
    BY <2>1, <2>3, SameRounding
  <2>6. QED
    BY <2>1, <2>3, <2>4, <2>5
<1>2. ASSUME NEW r, NEW ps, NEW bs, LiftOf(n, r, ps, bs), NEW s, NEW qs, NEW cs, LiftOf(u, s, qs, cs)
      PROVE  n.value = u.value
  <2> DEFINE inputs == <<r.ref>>
             sources == <<s.ref>>
             how == <<[fact |-> r.ref]>>
             done == <<[fact |-> s.ref]>>
  <2>1. /\ Recorded(n, 100, inputs, how, ps, bs, r.confidence)
        /\ Recorded(u, 100, sources, done, qs, cs, s.confidence)
    BY <1>2, LiftRecorded, Zenon
  <2>2. inputs = sources
    <3> HIDE DEF inputs, sources, how, done
    <3>1. QED
      BY <2>1, RecordedOnce
  <2>3. r.ref = s.ref
    BY <2>2
  <2>4. n.value = r.amount /\ u.value = s.amount /\ Given(r, ps, bs) /\ Given(s, qs, cs)
    BY <1>2, Zenon DEF LiftOf
  <2>5. r \in Liftable /\ s \in Liftable
    BY <2>4, Zenon DEF Given, Liftable
  <2>6. QED
    BY <2>3, <2>4, <2>5, Zenon DEF OneAmountEach
<1>3. QED
  BY <1>1, <1>2, MadeIsNotLifted, Zenon DEF Known

AddressInv == AllKnown /\ AddressDecidesValue

\* A step adds a value that its address decides.
LEMMA StepDecides == ASSUME OneAmountEach PROVE AddressInv /\ [Compute]_values => AddressInv'
<1> SUFFICES ASSUME AddressInv, [Compute]_values PROVE AddressInv'
  OBVIOUS
<1>1. AllKnown'
  BY StepKnown DEF AddressInv
<1>2. AddressDecidesValue'
  <2>1. CASE UNCHANGED values
    BY <2>1 DEF AddressInv, AddressDecidesValue
  <2>2. CASE Compute
    <3>1. PICK n : values' = values \union {n} /\ Known(n, values)
      BY <2>2, ComputeGrows DEF Grows
    <3>2. \A v \in values' : Known(v, values)
      BY <3>1 DEF AddressInv, AllKnown
    <3>3. /\ \A x \in values : x.trace \in Text
          /\ \A x, y \in values : x.trace = y.trace => x.value = y.value
      BY DEF AddressInv, AllKnown, AddressDecidesValue
    <3>4. ASSUME NEW u \in values', NEW v \in values', u.trace = v.trace PROVE u.value = v.value
      BY <3>2, <3>3, <3>4, AddressDecides
    <3>5. QED
      BY <3>4 DEF AddressDecidesValue
  <2>3. QED
    BY <2>1, <2>2
<1>3. QED
  BY <1>1, <1>2 DEF AddressInv

\* When a reference names one amount, a content address decides the answer: two
\* values of one address are one value, however they were got (contentAddress).
THEOREM AddressesDecide == OneAmountEach => (ExplainedSpec => []AddressDecidesValue)
<1> SUFFICES ASSUME OneAmountEach PROVE ExplainedSpec => []AddressDecidesValue
  OBVIOUS
<1>1. ExplainedInit => AddressInv
  BY DEF ExplainedInit, AddressInv, AllKnown, AddressDecidesValue
<1>2. AddressInv /\ [Compute]_values => AddressInv'
  BY StepDecides
<1>3. AddressInv => AddressDecidesValue
  BY DEF AddressInv
<1>4. QED
  BY <1>1, <1>2, <1>3, PTL DEF ExplainedSpec

-----------------------------------------------------------------------------
(* An address names the computation *)

\* A record says what it lists: no parameter is named twice and no dataset is
\* bound twice, so that the order in which they were given does not matter, and no
\* dataset has the separator of BindingText in its name.
Clear(ps, bs) ==
  /\ \A i, j \in DOMAIN ps : ps[i].name = ps[j].name => i = j
  /\ \A i, j \in DOMAIN bs : bs[i].dataset = bs[j].dataset => i = j
  /\ \A i \in DOMAIN bs : Unsplit(bs[i].dataset)

DerivationsClear == \A d \in Derivations : Clear(d.parameters, d.references)

\* Parameters that are named once each are sorted into one list, in whatever order
\* they were given.
LEMMA ParamsOnce ==
  ASSUME NEW ps \in Seq(Params), NEW qs \in Seq(Params), NEW bs, NEW cs, Clear(ps, bs), Clear(qs, cs)
  PROVE  Sorted(ps) = Sorted(qs) <=> Listed(ps) = Listed(qs)
<1>1. ASSUME Sorted(ps) = Sorted(qs) PROVE Listed(ps) = Listed(qs)
  BY <1>1, SortedParams
<1>2. ASSUME Listed(ps) = Listed(qs) PROVE Sorted(ps) = Sorted(qs)
  <2> DEFINE K == [p \in Params |-> p.name]
  <2>1. K \in [Params -> Text] /\ \A p \in Params : K[p] = p.name
    BY DEF Params
  <2> HIDE DEF K
  <2>2. ASSUME NEW xs \in Seq(Params)
        PROVE  /\ Sorted(xs) = SortSlice(xs, Keys(K, xs))
               /\ \A i \in DOMAIN xs : K[xs[i]] = xs[i].name
    <3>1. \A i \in DOMAIN xs : xs[i] \in Params
      OBVIOUS
    <3>2. \A i \in DOMAIN xs : K[xs[i]] = xs[i].name
      BY <2>1, <3>1
    <3>3. Each(xs, LAMBDA p : p.name) = [i \in DOMAIN xs |-> xs[i].name]
      BY Zenon DEF Each
    <3>4. Keys(K, xs) = [i \in DOMAIN xs |-> xs[i].name]
      BY <3>2 DEF Keys
    <3>5. Sorted(xs) = SortSlice(xs, Keys(K, xs))
      BY <3>3, <3>4, Zenon DEF Sorted
    <3>6. QED
      BY <3>2, <3>5
  <2>3. Distinct(K, ps) /\ Distinct(K, qs)
    BY <2>2 DEF Distinct, Clear
  <2>4. SortSlice(ps, Keys(K, ps)) = SortSlice(qs, Keys(K, qs))
    BY <1>2, <2>1, <2>3, SortedOnce, Zenon
  <2>5. QED
    BY <2>2, <2>4, Zenon
<1>3. QED
  BY <1>1, <1>2

\* So are bindings, and their texts tell them apart.
LEMMA BindingsOnce ==
  ASSUME NEW bs \in Seq(Bindings), NEW cs \in Seq(Bindings), NEW ps, NEW qs, Clear(ps, bs), Clear(qs, cs)
  PROVE  Texts(SortedBindings(bs)) = Texts(SortedBindings(cs)) <=> Listed(bs) = Listed(cs)
<1>1. ASSUME Texts(SortedBindings(bs)) = Texts(SortedBindings(cs)) PROVE Listed(bs) = Listed(cs)
  <2>1. /\ SortedBindings(bs) \in Seq(Bindings) /\ Listed(SortedBindings(bs)) = Listed(bs)
        /\ SortedBindings(cs) \in Seq(Bindings) /\ Listed(SortedBindings(cs)) = Listed(cs)
    BY SortedBindingsAre
  <2>2. \A b \in Listed(bs) \union Listed(cs) : Unsplit(b.dataset)
    BY DEF Listed, Clear
  <2> DEFINE x == SortedBindings(bs)
             y == SortedBindings(cs)
  <2>3. \A b \in Listed(x) \union Listed(y) : Unsplit(b.dataset)
    BY <2>1, <2>2
  <2> HIDE DEF x, y
  <2>4. x = y
    BY <1>1, <2>1, <2>3, TextsOnce DEF x, y
  <2>5. QED
    BY <2>1, <2>4 DEF x, y
<1>2. ASSUME Listed(bs) = Listed(cs) PROVE Texts(SortedBindings(bs)) = Texts(SortedBindings(cs))
  <2> DEFINE K == [b \in Bindings |-> b.dataset]
  <2>1. K \in [Bindings -> Text] /\ \A b \in Bindings : K[b] = b.dataset
    BY DEF Bindings
  <2> HIDE DEF K
  <2>2. ASSUME NEW xs \in Seq(Bindings)
        PROVE  /\ SortedBindings(xs) = SortSlice(xs, Keys(K, xs))
               /\ \A i \in DOMAIN xs : K[xs[i]] = xs[i].dataset
    <3>1. \A i \in DOMAIN xs : xs[i] \in Bindings
      OBVIOUS
    <3>2. \A i \in DOMAIN xs : K[xs[i]] = xs[i].dataset
      BY <2>1, <3>1
    <3>3. Each(xs, LAMBDA b : b.dataset) = [i \in DOMAIN xs |-> xs[i].dataset]
      BY Zenon DEF Each
    <3>4. Keys(K, xs) = [i \in DOMAIN xs |-> xs[i].dataset]
      BY <3>2 DEF Keys
    <3>5. SortedBindings(xs) = SortSlice(xs, Keys(K, xs))
      BY <3>3, <3>4, Zenon DEF SortedBindings
    <3>6. QED
      BY <3>2, <3>5
  <2>3. Distinct(K, bs) /\ Distinct(K, cs)
    BY <2>2 DEF Distinct, Clear
  <2>4. SortSlice(bs, Keys(K, bs)) = SortSlice(cs, Keys(K, cs))
    BY <1>2, <2>1, <2>3, SortedOnce, Zenon
  <2>5. QED
    BY <2>2, <2>4, Zenon
<1>3. QED
  BY <1>1, <1>2

\* What a computation says.
LEMMA ComputationOnce ==
  ASSUME NEW code, NEW how, NEW ps, NEW bs, NEW confidence,
         NEW other, NEW done, NEW qs, NEW cs, NEW level
  PROVE  Computation(Method(code), how, ps, bs, confidence) = Computation(Method(other), done, qs, cs, level)
           <=> /\ code = other /\ how = done /\ confidence = level
               /\ Listed(ps) = Listed(qs) /\ Listed(bs) = Listed(cs)
<1> DEFINE x == Computation(Method(code), how, ps, bs, confidence)
           y == Computation(Method(other), done, qs, cs, level)
<1>1. /\ x.method = Method(code) /\ x.inputs = how /\ x.parameters = Listed(ps)
      /\ x.references = Listed(bs) /\ x.confidence = confidence
      /\ y.method = Method(other) /\ y.inputs = done /\ y.parameters = Listed(qs)
      /\ y.references = Listed(cs) /\ y.confidence = level
  BY DEF Computation
<1>2. Method(code).name[1] = code /\ Method(other).name[1] = other
  BY DEF Method
<1>3. ASSUME code = other, how = done, confidence = level, Listed(ps) = Listed(qs), Listed(bs) = Listed(cs)
      PROVE  x = y
  BY <1>3, Zenon DEF Computation
<1> HIDE DEF x, y
<1>4. ASSUME x = y
      PROVE  /\ code = other /\ how = done /\ confidence = level
             /\ Listed(ps) = Listed(qs) /\ Listed(bs) = Listed(cs)
  BY <1>1, <1>2, <1>4
<1>5. x = y <=> /\ code = other /\ how = done /\ confidence = level
                /\ Listed(ps) = Listed(qs) /\ Listed(bs) = Listed(cs)
  BY <1>3, <1>4
<1>6. QED
  BY <1>5 DEF x, y

\* Records that are clear tell apart what computations tell apart, if inputs do.
LEMMA RecordsName ==
  ASSUME NEW x, NEW code, NEW inputs, NEW how, NEW ps, NEW bs, NEW confidence,
         Recorded(x, code, inputs, how, ps, bs, confidence), Clear(ps, bs),
         NEW y, NEW other, NEW sources, NEW done, NEW qs, NEW cs, NEW level,
         Recorded(y, other, sources, done, qs, cs, level), Clear(qs, cs),
         inputs = sources <=> how = done
  PROVE  x.trace = y.trace <=> x.how = y.how
<1>1. x.trace = y.trace
        <=> /\ code = other /\ inputs = sources /\ confidence = level
            /\ Sorted(ps) = Sorted(qs)
            /\ Texts(SortedBindings(bs)) = Texts(SortedBindings(cs))
  BY RecordedOnce
<1>2. /\ x.how = Computation(Method(code), how, ps, bs, confidence)
      /\ y.how = Computation(Method(other), done, qs, cs, level)
  BY Zenon DEF Recorded, Got
<1>3. x.how = y.how
        <=> /\ code = other /\ how = done /\ confidence = level
            /\ Listed(ps) = Listed(qs) /\ Listed(bs) = Listed(cs)
  BY <1>2, ComputationOnce
<1>4. ps \in Seq(Params) /\ qs \in Seq(Params) /\ bs \in Seq(Bindings) /\ cs \in Seq(Bindings)
  BY Zenon DEF Recorded
<1>5. Sorted(ps) = Sorted(qs) <=> Listed(ps) = Listed(qs)
  BY <1>4, ParamsOnce
<1>6. Texts(SortedBindings(bs)) = Texts(SortedBindings(cs)) <=> Listed(bs) = Listed(cs)
  BY <1>4, BindingsOnce
<1>7. QED
  BY <1>1, <1>3, <1>5, <1>6, Zenon

\* Lists of values have the same traces exactly when they were computed alike.
LEMMA SameHows ==
  ASSUME NEW V, \A x, y \in V : x.trace = y.trace <=> x.how = y.how,
         NEW xs \in Seq(V), NEW ys \in Seq(V)
  PROVE  Traces(xs) = Traces(ys) <=> Hows(xs) = Hows(ys)
<1>1. ASSUME Traces(xs) = Traces(ys) \/ Hows(xs) = Hows(ys)
      PROVE  Traces(xs) = Traces(ys) /\ Hows(xs) = Hows(ys)
  <2>1. DOMAIN xs = DOMAIN ys
    BY <1>1 DEF Traces, Hows
  <2>2. ASSUME NEW i \in DOMAIN xs PROVE xs[i].trace = ys[i].trace /\ xs[i].how = ys[i].how
    <3>1. /\ Traces(xs)[i] = xs[i].trace /\ Traces(ys)[i] = ys[i].trace
          /\ Hows(xs)[i] = xs[i].how /\ Hows(ys)[i] = ys[i].how
      BY <2>1 DEF Traces, Hows
    <3>2. xs[i] \in V /\ ys[i] \in V
      BY <2>1
    <3>3. xs[i].trace = ys[i].trace \/ xs[i].how = ys[i].how
      BY <1>1, <3>1
    <3>4. QED
      BY <3>2, <3>3
  <2>3. QED
    BY <2>1, <2>2 DEF Traces, Hows
<1>2. QED
  BY <1>1

\* What a combinator records is clear.
LEMMA ChosenIsClear == ASSUME NEW code, NEW rc PROVE Clear(Chosen(code, rc), <<>>)
<1>1. \A i, j \in DOMAIN Chosen(code, rc) : i = j
  <2>1. CASE Chosen(code, rc) = <<>>
    BY <2>1
  <2>2. CASE Chosen(code, rc) = RoundingParameter(rc)
    <3> DEFINE p == [name |-> <<114>>, value |-> ContextText(rc)]
    <3>1. Chosen(code, rc) = <<p>>
      BY <2>2, Zenon DEF RoundingParameter
    <3> HIDE DEF p
    <3>2. DOMAIN <<p>> = {1}
      OBVIOUS
    <3>3. QED
      BY <3>1, <3>2
  <2>3. QED
    BY <2>1, <2>2 DEF Chosen
<1>2. QED
  BY <1>1 DEF Clear

\* Two values that are known, over values whose addresses name their computations.
LEMMA AddressNames ==
  ASSUME DerivationsClear, NEW V, \A x \in V : x.trace \in Text,
         \A x, y \in V : x.trace = y.trace <=> x.how = y.how,
         NEW n, NEW u, Known(n, V), Known(u, V)
  PROVE  n.trace = u.trace <=> n.how = u.how
<1>1. ASSUME NEW code, NEW xs, NEW rc, NEW confidence, MadeOf(n, code, xs, rc, confidence, V),
             NEW other, NEW ys, NEW context, NEW level, MadeOf(u, other, ys, context, level, V)
      PROVE  n.trace = u.trace <=> n.how = u.how
  <2>1. /\ Recorded(n, code, Traces(xs), Hows(xs), Chosen(code, rc), <<>>, confidence)
        /\ Recorded(u, other, Traces(ys), Hows(ys), Chosen(other, context), <<>>, level)
    BY <1>1, MadeRecorded, Zenon
  <2>2. Traces(xs) = Traces(ys) <=> Hows(xs) = Hows(ys)
    BY <1>1, SameHows DEF MadeOf
  <2>3. Clear(Chosen(code, rc), <<>>) /\ Clear(Chosen(other, context), <<>>)
    BY ChosenIsClear
  <2>4. QED
    BY <2>1, <2>2, <2>3, RecordsName
<1>2. ASSUME NEW r, NEW ps, NEW bs, LiftOf(n, r, ps, bs), NEW s, NEW qs, NEW cs, LiftOf(u, s, qs, cs)
      PROVE  n.trace = u.trace <=> n.how = u.how
  <2> DEFINE inputs == <<r.ref>>
             sources == <<s.ref>>
             how == <<[fact |-> r.ref]>>
             done == <<[fact |-> s.ref]>>
  <2>1. /\ Recorded(n, 100, inputs, how, ps, bs, r.confidence)
        /\ Recorded(u, 100, sources, done, qs, cs, s.confidence)
    BY <1>2, LiftRecorded, Zenon
  <2>2. inputs = sources <=> how = done
    <3>1. inputs[1] = r.ref /\ sources[1] = s.ref /\ how[1].fact = r.ref /\ done[1].fact = s.ref
      OBVIOUS
    <3>2. r.ref = s.ref => inputs = sources /\ how = done
      OBVIOUS
    <3> HIDE DEF inputs, sources, how, done
    <3>3. QED
      BY <3>1, <3>2
  <2>3. ASSUME NEW x, NEW as, NEW ds, Given(x, as, ds) PROVE Clear(as, ds)
    <3>1. Clear(<<>>, <<>>)
      BY DEF Clear
    <3>2. QED
      BY <2>3, <3>1, Zenon DEF Given, DerivationsClear
  <2>4. Clear(ps, bs) /\ Clear(qs, cs)
    BY <1>2, <2>3 DEF LiftOf
  <2> HIDE DEF inputs, sources, how, done
  <2>5. QED
    BY <2>1, <2>2, <2>4, RecordsName
<1>3. ASSUME NEW code, NEW xs, NEW rc, NEW confidence, MadeOf(n, code, xs, rc, confidence, V),
             NEW r, NEW ps, NEW bs, LiftOf(u, r, ps, bs)
      PROVE  n.trace = u.trace <=> n.how = u.how
  BY <1>3, MadeIsNotLifted
<1>4. ASSUME NEW code, NEW xs, NEW rc, NEW confidence, MadeOf(u, code, xs, rc, confidence, V),
             NEW r, NEW ps, NEW bs, LiftOf(n, r, ps, bs)
      PROVE  n.trace = u.trace <=> n.how = u.how
  BY <1>4, MadeIsNotLifted
<1>5. QED
  BY <1>1, <1>2, <1>3, <1>4, Zenon DEF Known

NamesInv == AllKnown /\ AddressNamesComputation

\* A step adds a value whose address names its computation.
LEMMA StepNames == ASSUME DerivationsClear PROVE NamesInv /\ [Compute]_values => NamesInv'
<1> SUFFICES ASSUME NamesInv, [Compute]_values PROVE NamesInv'
  OBVIOUS
<1>1. AllKnown'
  BY StepKnown DEF NamesInv
<1>2. AddressNamesComputation'
  <2>1. CASE UNCHANGED values
    BY <2>1 DEF NamesInv, AddressNamesComputation
  <2>2. CASE Compute
    <3>1. PICK n : values' = values \union {n} /\ Known(n, values)
      BY <2>2, ComputeGrows DEF Grows
    <3>2. \A v \in values' : Known(v, values)
      BY <3>1 DEF NamesInv, AllKnown
    <3>3. /\ \A x \in values : x.trace \in Text
          /\ \A x, y \in values : x.trace = y.trace <=> x.how = y.how
      BY DEF NamesInv, AllKnown, AddressNamesComputation
    <3>4. ASSUME NEW u \in values', NEW v \in values' PROVE u.trace = v.trace <=> u.how = v.how
      BY <3>2, <3>3, AddressNames
    <3>5. QED
      BY <3>4 DEF AddressNamesComputation
  <2>3. QED
    BY <2>1, <2>2
<1>3. QED
  BY <1>1, <1>2 DEF NamesInv

\* When every record is clear, a content address names one computation and every
\* computation has one address, through chains of any length: parameters and
\* bindings may come in any order, and nothing else may differ (NewDerivation,
\* contentAddress).
THEOREM AddressesName == DerivationsClear => (ExplainedSpec => []AddressNamesComputation)
<1> SUFFICES ASSUME DerivationsClear PROVE ExplainedSpec => []AddressNamesComputation
  OBVIOUS
<1>1. ExplainedInit => NamesInv
  BY DEF ExplainedInit, NamesInv, AllKnown, AddressNamesComputation
<1>2. NamesInv /\ [Compute]_values => NamesInv'
  BY StepNames
<1>3. NamesInv => AddressNamesComputation
  BY DEF NamesInv
<1>4. QED
  BY <1>1, <1>2, <1>3, PTL DEF ExplainedSpec

-----------------------------------------------------------------------------
(* Codecs *)

\* An optional value is absent, or the one there is.
LEMMA OptionalIs ==
  ASSUME NEW T, NEW S \in Optional(T)
  PROVE  S = {} \/ (S = {The(S)} /\ The(S) \in T)
<1>1. S \in SUBSET T /\ \A x, y \in S : x = y
  BY DEF Optional
<1>2. CASE S # {}
  <2>1. The(S) \in S
    BY <1>2 DEF The
  <2>2. QED
    BY <1>1, <2>1
<1>3. QED
  BY <1>2

\* A claim decodes to itself.
LEMMA ClaimTrip ==
  ASSUME NEW c \in Claims PROVE DecodeClaim({EncodeClaim(c)}) = {c}
<1>1. c \in [scheme : Text, value : Text] /\ IsClaim(c)
  BY DEF Claims
<1>2. [scheme |-> EncodeClaim(c).scheme, value |-> EncodeClaim(c).value] = c
  BY <1>1 DEF EncodeClaim
<1>3. QED
  BY <1>1, <1>2 DEF DecodeClaim

\* An identifier decodes to itself: the kinds are numbered both ways alike.
LEMMA EntityIDTrip ==
  ASSUME NEW id \in EntityIDs PROVE DecodeEntityID({EncodeEntityID(id)}) = {id}
<1> DEFINE w == EncodeEntityID(id)
<1>1. id \in [kind : DOMAIN KindText, value : [uuid : Text]] /\ CanRestore(id.kind, id.value)
  BY DEF EntityIDs
<1>2. id.kind \in {"instrument", "party", "account", "ledger_stream"}
  BY <1>1 DEF KindText
<1>3. DecodeEntityKind(w.kind) = {id.kind}
  <2>1. w.kind = EncodeEntityKind(id.kind)
    BY DEF EncodeEntityID
  <2>2. CASE id.kind = "instrument"
    BY <2>1, <2>2 DEF EncodeEntityKind, DecodeEntityKind, Named, Numbered
  <2>3. CASE id.kind = "party"
    BY <2>1, <2>3 DEF EncodeEntityKind, DecodeEntityKind, Named, Numbered
  <2>4. CASE id.kind = "account"
    BY <2>1, <2>4 DEF EncodeEntityKind, DecodeEntityKind, Named, Numbered
  <2>5. CASE id.kind = "ledger_stream"
    BY <2>1, <2>5 DEF EncodeEntityKind, DecodeEntityKind, Named, Numbered
  <2>6. QED
    BY <1>2, <2>2, <2>3, <2>4, <2>5
<1>4. w.value = id.value
  BY DEF EncodeEntityID
<1> HIDE DEF w
<1>5. UNION {[kind : DecodeEntityKind(m.kind), value : {m.value}] : m \in {w}}
        = [kind : {id.kind}, value : {id.value}]
  BY <1>3, <1>4
<1>6. [kind : {id.kind}, value : {id.value}] = {id}
  <2>1. id = [kind |-> id.kind, value |-> id.value]
    BY <1>1
  <2>2. ASSUME NEW x \in [kind : {id.kind}, value : {id.value}] PROVE x = id
    BY <2>1
  <2>3. id \in [kind : {id.kind}, value : {id.value}]
    BY <2>1
  <2>4. QED
    BY <2>2, <2>3
<1>7. QED
  BY <1>1, <1>5, <1>6 DEF DecodeEntityID, w

\* Text spells a decimal without a positive exponent, and nothing else is lost.
LEMMA DecimalTrip ==
  ASSUME NEW d \in Decimals
  PROVE  ValidateCanonical(TextOf(d)) /\ ParsedDecimal(TextOf(d)) = Plain(d)
<1>1. Plain(d) \in Decimals /\ Plain(d).exp <= 0
  <2>1. CASE d.exp > 0
    <3>1. At(d, 0) \in Int
      BY <2>1 DEF At, Decimals
    <3>2. QED
      BY <2>1, <3>1 DEF Plain, Decimal, Decimals
  <2>2. CASE ~(d.exp > 0)
    BY <2>2 DEF Plain, Decimals
  <2>3. QED
    BY <2>1, <2>2
<1> DEFINE flat == Plain(d)
           t    == TextOf(d)
<1>2. PICK c \in Int, e \in Int : flat = [coeff |-> c, exp |-> e] /\ e <= 0
  BY <1>1 DEF Decimals
<1>3. /\ t.lead = (IF flat.coeff < 0 THEN "-" ELSE "") /\ t.marked = FALSE /\ t.whole = 1
      /\ t.points = (IF flat.exp < 0 THEN 1 ELSE 0) /\ t.places = -flat.exp
      /\ t.digits = Magnitude(flat.coeff)
  BY DEF TextOf
<1> HIDE DEF flat, t
<1>4. flat.coeff = c /\ flat.exp = e
  BY <1>2
<1>5. t.lead = (IF c < 0 THEN "-" ELSE "") /\ t.marked = FALSE
  BY <1>3, <1>4, Zenon
<1>6. /\ t.whole = 1 /\ t.points = (IF e < 0 THEN 1 ELSE 0) /\ t.places = -e
      /\ t.digits = Magnitude(c)
  BY <1>3, <1>4, Zenon
<1>7. ValidateCanonical(t)
  <2>1. t.lead \in {"", "-"} /\ ~t.marked
    BY <1>5, Zenon
  <2>2. t.whole > 0 /\ t.points \in {0, 1} /\ (t.points = 1 => t.places > 0)
    BY <1>6
  <2>3. QED
    BY <2>1, <2>2, Zenon DEF ValidateCanonical
<1>8. (IF t.lead = "-" THEN -t.digits ELSE t.digits) = c
  <2>1. CASE c < 0
    <3>1. t.lead = "-" /\ -t.digits = c
      BY <1>5, <1>6, <2>1 DEF Magnitude
    <3>2. QED
      BY <3>1
  <2>2. CASE ~(c < 0)
    <3>1. t.lead # "-"
      BY <1>5, <2>2, Zenon
    <3>2. t.digits = c
      BY <1>6, <2>2 DEF Magnitude
    <3>3. QED
      BY <3>1, <3>2
  <2>3. QED
    BY <2>1, <2>2
<1>9. -t.places = e
  BY <1>6
<1>10. ParsedDecimal(t) = flat
  BY <1>2, <1>8, <1>9, Zenon DEF ParsedDecimal, Decimal
<1>11. QED
  BY <1>7, <1>10 DEF flat, t

\* Money decodes to itself as text spells it.
LEMMA MoneyTrip ==
  ASSUME NEW m \in Monies
  PROVE  DecodeMoney({EncodeMoney(m)}) = {[m EXCEPT !.amount = Plain(@)]}
<1> DEFINE t == TextOf(m.amount)
<1>1. m \in [amount : Decimals, currency : Text] /\ IsCurrency(m.currency)
  BY DEF Monies
<1>2. ValidateCanonical(t) /\ ParsedDecimal(t) = Plain(m.amount)
  BY <1>1, DecimalTrip
<1> HIDE DEF t
<1>3. EncodeMoney(m).amount = {t} /\ EncodeMoney(m).currency = m.currency
  BY DEF EncodeMoney, t
<1>4. /\ CanParse(t, m.currency)
      /\ Parse(t, m.currency) = [amount |-> Plain(m.amount), currency |-> m.currency]
  BY <1>1, <1>2 DEF CanParse, Parse
<1>5. [m EXCEPT !.amount = Plain(@)] = [amount |-> Plain(m.amount), currency |-> m.currency]
  BY <1>1
<1>6. DecodeMoney({EncodeMoney(m)}) = {Parse(t, m.currency)}
  BY <1>3, <1>4 DEF DecodeMoney
<1>7. QED
  BY <1>4, <1>5, <1>6

\* A quantity decodes to itself as text spells it.
LEMMA QuantityTrip ==
  ASSUME NEW q \in Quantities
  PROVE  DecodeQuantity({EncodeQuantity(q)}) = {[q EXCEPT !.amount = Plain(@)]}
<1> DEFINE t == TextOf(q.amount)
<1>1. q \in [amount : Decimals, unit : Text] /\ q.unit # <<>>
  BY DEF Quantities
<1>2. ValidateCanonical(t) /\ ParsedDecimal(t) = Plain(q.amount)
  BY <1>1, DecimalTrip
<1> HIDE DEF t
<1>3. EncodeQuantity(q).amount = {t} /\ EncodeQuantity(q).unit = q.unit
  BY DEF EncodeQuantity, t
<1>4. /\ CanParseQuantity(t, q.unit)
      /\ ParseQuantity(t, q.unit) = [amount |-> Plain(q.amount), unit |-> q.unit]
  BY <1>1, <1>2 DEF CanParseQuantity, ParseQuantity
<1>5. [q EXCEPT !.amount = Plain(@)] = [amount |-> Plain(q.amount), unit |-> q.unit]
  BY <1>1
<1>6. DecodeQuantity({EncodeQuantity(q)}) = {ParseQuantity(t, q.unit)}
  BY <1>3, <1>4 DEF DecodeQuantity
<1>7. QED
  BY <1>4, <1>5, <1>6

\* A rounding context decodes to itself, an absent scale apart from zero.
LEMMA ContextTrip ==
  ASSUME NEW rc \in RoundingContexts
  PROVE  DecodeRoundingContext({EncodeRoundingContext(rc)}) = {rc}
<1> DEFINE w == EncodeRoundingContext(rc)
           built == NewRoundingContext(rc.precision, rc.mode)
           scaled == IF rc.scale = {} THEN built ELSE WithScale(built, The(rc.scale))
<1>1. /\ rc = [precision |-> rc.precision, mode |-> rc.mode, scale |-> rc.scale]
      /\ rc.precision \in 1..MaxPrecision /\ rc.scale \in Optional(Int)
      /\ rc.mode \in {"half_even", "half_up", "down", "up", "ceiling", "floor"}
  BY DEF RoundingContexts, RoundingModes
<1>2. w.precision = rc.precision /\ w.scale = rc.scale /\ w.mode = EncodeRoundingMode(rc.mode)
  BY DEF EncodeRoundingContext
<1>3. DecodeRoundingMode(w.mode) = {rc.mode}
  <2> USE <1>2 DEF EncodeRoundingMode, DecodeRoundingMode, Named, Numbered
  <2> HIDE DEF w
  <2>2. CASE rc.mode = "half_even"
    BY <2>2
  <2>3. CASE rc.mode = "half_up"
    BY <2>3
  <2>4. CASE rc.mode = "down"
    BY <2>4
  <2>5. CASE rc.mode = "up"
    BY <2>5
  <2>6. CASE rc.mode = "ceiling"
    BY <2>6
  <2>7. CASE rc.mode = "floor"
    BY <2>7
  <2>8. QED
    BY <1>1, <2>2, <2>3, <2>4, <2>5, <2>6, <2>7
<1>4. CanNewRoundingContext(rc.precision, rc.mode)
  BY <1>1 DEF CanNewRoundingContext, RoundingModes
<1>5. scaled = rc
  <2>1. CASE rc.scale = {}
    BY <1>1, <2>1 DEF NewRoundingContext
  <2>2. CASE rc.scale # {}
    <3>1. rc.scale = {The(rc.scale)}
      BY <1>1, <2>2, OptionalIs
    <3>2. scaled = [precision |-> rc.precision, mode |-> rc.mode, scale |-> {The(rc.scale)}]
      BY <2>2 DEF NewRoundingContext, WithScale
    <3>3. QED
      BY <1>1, <3>1, <3>2
  <2>3. QED
    BY <2>1, <2>2
<1> HIDE DEF w
<1>6. DecodeRoundingContext({w}) = {scaled}
  BY <1>2, <1>3, <1>4 DEF DecodeRoundingContext
<1>7. QED
  BY <1>5, <1>6 DEF w

\* An interval decodes to itself, an open end apart from an instant.
LEMMA IntervalTrip ==
  ASSUME NEW iv \in NewInterval
  PROVE  DecodeInterval({EncodeInterval(iv)}) = {iv}
<1> DEFINE w == EncodeInterval(iv)
<1>1. iv = [from |-> iv.from, to |-> iv.to]
  BY DEF NewInterval
<1>2. DecodeInstant(w.from) = {iv.from} /\ DecodeInstant(w.to) = {iv.to}
  BY DEF EncodeInterval, DecodeInstant, EncodeInstant
<1> HIDE DEF w
<1>3. UNION {[from : DecodeInstant(m.from), to : DecodeInstant(m.to)] : m \in {w}}
        = [from : {iv.from}, to : {iv.to}]
  BY <1>2
<1>4. [from : {iv.from}, to : {iv.to}] = {iv}
  <2>1. ASSUME NEW x \in [from : {iv.from}, to : {iv.to}] PROVE x = iv
    BY <1>1
  <2>2. iv \in [from : {iv.from}, to : {iv.to}]
    BY <1>1
  <2>3. QED
    BY <2>1, <2>2
<1>5. QED
  BY <1>3, <1>4 DEF DecodeInterval, w

\* Coordinates decode to themselves.
LEMMA CoordinatesTrip ==
  ASSUME NEW c \in [effective : NewInterval, knowledge : Instant]
  PROVE  DecodeCoordinates({EncodeCoordinates(c)}) = {c}
<1> DEFINE w == EncodeCoordinates(c)
<1>1. DecodeInstant(EncodeInstant(c.knowledge)) = {c.knowledge}
  BY DEF DecodeInstant, EncodeInstant
<1>2. DecodeInterval(w.effective) = {c.effective} /\ DecodeInstant(w.knowledge) = {c.knowledge}
  BY <1>1, IntervalTrip DEF EncodeCoordinates
<1> HIDE DEF w
<1>3. UNION {[effective : DecodeInterval(m.effective), knowledge : DecodeInstant(m.knowledge)] :
                  m \in {w}} = [effective : {c.effective}, knowledge : {c.knowledge}]
  BY <1>2
<1>4. [effective : {c.effective}, knowledge : {c.knowledge}] = {c}
  <2>1. c = [effective |-> c.effective, knowledge |-> c.knowledge]
    OBVIOUS
  <2>2. ASSUME NEW x \in [effective : {c.effective}, knowledge : {c.knowledge}] PROVE x = c
    BY <2>1
  <2>3. c \in [effective : {c.effective}, knowledge : {c.knowledge}]
    BY <2>1
  <2>4. QED
    BY <2>2, <2>3
<1>5. c.knowledge # Unset
  BY DEF Instant
<1>6. QED
  BY <1>3, <1>4, <1>5 DEF DecodeCoordinates, w

\* A list of bindings decodes to itself, in its order.
LEMMA ReferencesTrip ==
  ASSUME NEW list \in References
  PROVE  DecodeReferences(Each(list, EncodeReferenceBinding)) = {list}
<1> DEFINE e == Each(list, EncodeReferenceBinding)
<1>1. /\ list \in Seq([dataset : Text, version : Text])
      /\ \A i \in DOMAIN list : IsReferenceBinding(list[i])
  BY DEF References
<1>2. /\ \A i \in DOMAIN list :
           list[i] \in [dataset : Text, version : Text] /\ IsReferenceBinding(list[i])
      /\ list = [i \in DOMAIN list |-> list[i]]
  <2> DEFINE Binding == [dataset : Text, version : Text]
  <2>1. list \in Seq(Binding)
    BY <1>1
  <2> HIDE DEF Binding
  <2>2. (\A i \in DOMAIN list : list[i] \in Binding) /\ list = [i \in DOMAIN list |-> list[i]]
    BY <2>1
  <2>3. QED
    BY <1>1, <2>2 DEF Binding
<1>3. DOMAIN e = DOMAIN list /\ \A i \in DOMAIN list : e[i] = EncodeReferenceBinding(list[i])
  BY Zenon DEF Each
<1> HIDE DEF e
<1>4. ASSUME NEW i \in DOMAIN list PROVE DecodeReferenceBinding({e[i]}) = {list[i]}
  <2>1. [dataset |-> e[i].dataset, version |-> e[i].version] = list[i]
    BY <1>2, <1>3 DEF EncodeReferenceBinding
  <2>2. QED
    BY <1>2, <2>1 DEF DecodeReferenceBinding
<1>5. \A i \in DOMAIN list : The(DecodeReferenceBinding({e[i]})) = list[i]
  BY <1>4 DEF The
<1>6. [i \in DOMAIN e |-> The(DecodeReferenceBinding({e[i]}))] = list
  BY <1>2, <1>3, <1>5
<1>7. QED
  BY <1>3, <1>4, <1>6 DEF DecodeReferences, e

\* The parts of a provenance, an instant and a reference decode to themselves.
LEMMA PartsTrip ==
  /\ \A s \in Sources : DecodeSource({EncodeSource(s)}) = {s}
  /\ \A i \in Interpreters : DecodeInterpreter({EncodeInterpreter(i)}) = {i}
  /\ \A c \in Levels : DecodeConfidence(EncodeConfidence(c)) = {c}
  /\ \A t : DecodeInstant(EncodeInstant(t)) = {t}
  /\ \A r \in Refs : DecodeRef({EncodeRef(r)}) = {r}
<1>1. ASSUME NEW s \in Sources PROVE DecodeSource({EncodeSource(s)}) = {s}
  BY DEF Sources, DecodeSource, EncodeSource
<1>2. ASSUME NEW i \in Interpreters PROVE DecodeInterpreter({EncodeInterpreter(i)}) = {i}
  <2>1. [name |-> EncodeInterpreter(i).name, version |-> EncodeInterpreter(i).version] = i
        /\ IsInterpreter(i)
    BY DEF EncodeInterpreter, Interpreters
  <2>2. QED
    BY <2>1 DEF DecodeInterpreter
<1>3. \A c \in Levels : DecodeConfidence(EncodeConfidence(c)) = {c}
  BY DEF DecodeConfidence, EncodeConfidence
<1>4. \A t : DecodeInstant(EncodeInstant(t)) = {t}
  BY DEF DecodeInstant, EncodeInstant
<1>5. ASSUME NEW r \in Refs PROVE DecodeRef({EncodeRef(r)}) = {r}
  <2>1. [stream |-> EncodeRef(r).stream, sequence |-> EncodeRef(r).sequence] = r
        /\ EncodeRef(r).stream # <<>> /\ EncodeRef(r).sequence # 0
    BY DEF EncodeRef, Refs
  <2>2. QED
    BY <2>1 DEF DecodeRef
<1>6. QED
  BY <1>1, <1>2, <1>3, <1>4, <1>5

\* A provenance decodes to itself: derived or not, published or not.
LEMMA ProvenanceTrip ==
  ASSUME NEW p \in Provenances
  PROVE  DecodeProvenance({EncodeProvenance(p)}) = {p}
<1> DEFINE w     == EncodeProvenance(p)
           built == IF w.derivation = {}
                    THEN Observed(p.source, p.collectedAt, p.interpreter, p.confidence)
                    ELSE DerivedFrom(p.source, p.collectedAt, p.interpreter,
                                     The(w.derivation).content_hash, p.confidence)
           dated == IF w.published_at \ {Unset} = {} THEN built
                    ELSE WithPublishedAt(built, The(w.published_at \ {Unset}))
<1>1. /\ p = [source |-> p.source, collectedAt |-> p.collectedAt, publishedAt |-> p.publishedAt,
              interpreter |-> p.interpreter, derivation |-> p.derivation,
              confidence |-> p.confidence]
      /\ p.source \in Sources /\ p.interpreter \in Interpreters /\ p.confidence \in Levels
      /\ p.collectedAt # Unset
      /\ p.derivation \in Optional({ref \in Text : IsRef(ref)})
  BY DEF Provenances, Instant
<1>2. /\ w.source = {EncodeSource(p.source)} /\ w.interpreter = {EncodeInterpreter(p.interpreter)}
      /\ w.confidence = EncodeConfidence(p.confidence)
      /\ w.collected_at = EncodeInstant(p.collectedAt)
      /\ w.published_at = EncodeInstant(p.publishedAt)
      /\ w.derivation = {EncodeDerivation(ref) : ref \in p.derivation}
  BY DEF EncodeProvenance
<1> HIDE DEF w
<1>3. /\ DecodeSource(w.source) = {p.source} /\ DecodeInterpreter(w.interpreter) = {p.interpreter}
      /\ DecodeConfidence(w.confidence) = {p.confidence}
      /\ DecodeInstant(w.collected_at) \ {Unset} = {p.collectedAt}
  <2>1. DecodeInstant(w.collected_at) = {p.collectedAt}
    BY <1>2, PartsTrip
  <2>2. QED
    BY <1>1, <1>2, <2>1, PartsTrip
<1>4. p.derivation = {} \/ (p.derivation = {The(p.derivation)} /\ IsRef(The(p.derivation)))
  <2>1. p.derivation = {} \/ (p.derivation = {The(p.derivation)}
                               /\ The(p.derivation) \in {ref \in Text : IsRef(ref)})
    BY <1>1, OptionalIs
  <2>2. QED
    BY <2>1
<1>5. /\ \A d \in w.derivation : IsRef(d.content_hash)
      /\ built = [source |-> p.source, collectedAt |-> p.collectedAt, publishedAt |-> Unset,
                  interpreter |-> p.interpreter, derivation |-> p.derivation,
                  confidence |-> p.confidence]
  <2>1. CASE p.derivation = {}
    <3>1. w.derivation = {}
      BY <1>2, <2>1
    <3>2. QED
      BY <2>1, <3>1 DEF Observed
  <2>2. CASE p.derivation # {}
    <3> DEFINE ref == The(p.derivation)
    <3>1. p.derivation = {ref} /\ IsRef(ref)
      BY <1>4, <2>2
    <3> HIDE DEF ref
    <3>2. w.derivation = {EncodeDerivation(ref)}
      BY <1>2, <3>1
    <3>3. The(w.derivation) = EncodeDerivation(ref)
      BY <3>2 DEF The
    <3>4. EncodeDerivation(ref).content_hash = ref
      BY DEF EncodeDerivation
    <3>5. w.derivation # {}
      BY <3>2
    <3>6. built = DerivedFrom(p.source, p.collectedAt, p.interpreter, ref, p.confidence)
      BY <3>3, <3>4, <3>5
    <3>7. QED
      BY <3>1, <3>2, <3>4, <3>6 DEF DerivedFrom, Observed
  <2>3. QED
    BY <2>1, <2>2
<1> HIDE DEF built
<1>6. dated = p
  <2>1. CASE p.publishedAt = Unset
    <3>1. w.published_at \ {Unset} = {}
      BY <1>2, <2>1 DEF EncodeInstant
    <3>2. QED
      BY <1>1, <1>5, <2>1, <3>1
  <2>2. CASE p.publishedAt # Unset
    <3>1. w.published_at \ {Unset} = {p.publishedAt}
      BY <1>2, <2>2 DEF EncodeInstant
    <3>2. The({p.publishedAt}) = p.publishedAt
      BY DEF The
    <3>3. dated = WithPublishedAt(built, p.publishedAt)
      BY <3>1, <3>2
    <3>4. built = [source |-> p.source, collectedAt |-> p.collectedAt, publishedAt |-> Unset,
                   interpreter |-> p.interpreter, derivation |-> p.derivation,
                   confidence |-> p.confidence]
      BY <1>5
    <3>5. WithPublishedAt(built, p.publishedAt)
            = [source |-> p.source, collectedAt |-> p.collectedAt, publishedAt |-> p.publishedAt,
               interpreter |-> p.interpreter, derivation |-> p.derivation,
               confidence |-> p.confidence]
      BY <3>4 DEF WithPublishedAt
    <3>6. QED
      BY <1>1, <3>3, <3>5
  <2>3. QED
    BY <2>1, <2>2
<1>7. {x \in {w} : \A d \in x.derivation : IsRef(d.content_hash)} = {w}
  BY <1>5
<1> DEFINE Built(m) ==
             {IF m.derivation = {} THEN Observed(s, t, i, c)
              ELSE DerivedFrom(s, t, i, The(m.derivation).content_hash, c) :
                s \in DecodeSource(m.source), t \in DecodeInstant(m.collected_at) \ {Unset},
                i \in DecodeInterpreter(m.interpreter), c \in DecodeConfidence(m.confidence)}
           Dated(q, published) == IF published = {} THEN q ELSE WithPublishedAt(q, The(published))
<1>8. Built(w) = {built}
  BY <1>3 DEF built
<1>9. Dated(built, w.published_at \ {Unset}) = dated
  OBVIOUS
<1>10. DecodeProvenance({w}) =
         UNION {{Dated(q, m.published_at \ {Unset}) : q \in Built(m)} :
                  m \in {x \in {w} : \A d \in x.derivation : IsRef(d.content_hash)}}
  BY DEF DecodeProvenance
<1> HIDE DEF Built, Dated, dated
<1>11. DecodeProvenance({w}) = {Dated(q, w.published_at \ {Unset}) : q \in Built(w)}
  <2> DEFINE S(m) == {Dated(q, m.published_at \ {Unset}) : q \in Built(m)}
  <2>1. DecodeProvenance({w}) = UNION {S(m) : m \in {w}}
    BY <1>7, <1>10
  <2> HIDE DEF S
  <2>2. UNION {S(m) : m \in {w}} = S(w)
    OBVIOUS
  <2>3. QED
    BY <2>1, <2>2 DEF S
<1>12. DecodeProvenance({w}) = {dated}
  BY <1>8, <1>9, <1>11
<1>13. QED
  BY <1>6, <1>12 DEF w

\* An envelope and the reference it carries decode to themselves.
LEMMA EnvelopeTrip ==
  ASSUME NEW e \in [coordinates : [effective : NewInterval, knowledge : Instant],
                    provenance : Provenances, references : References],
         NEW ref \in Refs
  PROVE  DecodeEnvelope({EncodeEnvelope(e, ref)}) = {[envelope |-> e, ref |-> ref]}
<1> DEFINE w == EncodeEnvelope(e, ref)
           E == [coordinates : {e.coordinates}, provenance : {e.provenance},
                 references : {e.references}]
<1>1. /\ e = [coordinates |-> e.coordinates, provenance |-> e.provenance,
              references |-> e.references]
      /\ e.coordinates \in [effective : NewInterval, knowledge : Instant]
      /\ e.provenance \in Provenances /\ e.references \in References
  OBVIOUS
<1>2. /\ w.temporal = {EncodeCoordinates(e.coordinates)} /\ w.ref = {EncodeRef(ref)}
      /\ w.provenance = {EncodeProvenance(e.provenance)}
      /\ w.references = Each(e.references, EncodeReferenceBinding)
  BY Zenon DEF EncodeEnvelope
<1> HIDE DEF w
<1>3. /\ DecodeCoordinates(w.temporal) = {e.coordinates} /\ DecodeRef(w.ref) = {ref}
      /\ DecodeProvenance(w.provenance) = {e.provenance}
      /\ DecodeReferences(w.references) = {e.references}
  <2>1. DecodeCoordinates(w.temporal) = {e.coordinates}
    BY <1>1, <1>2, CoordinatesTrip
  <2>2. DecodeProvenance(w.provenance) = {e.provenance}
    BY <1>1, <1>2, ProvenanceTrip
  <2>3. DecodeReferences(w.references) = {e.references}
    BY <1>1, <1>2, ReferencesTrip, Zenon
  <2>4. DecodeRef(w.ref) = {ref}
    BY <1>2, PartsTrip
  <2>5. QED
    BY <2>1, <2>2, <2>3, <2>4
<1>4. DecodeEnvelope({w}) = [envelope : E, ref : {ref}]
  BY <1>3 DEF DecodeEnvelope
<1>5. E = {e}
  <2>1. ASSUME NEW x \in E PROVE x = e
    BY <1>1
  <2>2. e \in E
    BY <1>1
  <2> HIDE DEF E
  <2>3. QED
    BY <2>1, <2>2
<1>6. [envelope : {e}, ref : {ref}] = {[envelope |-> e, ref |-> ref]}
  <2>1. ASSUME NEW x \in [envelope : {e}, ref : {ref}] PROVE x = [envelope |-> e, ref |-> ref]
    OBVIOUS
  <2>2. [envelope |-> e, ref |-> ref] \in [envelope : {e}, ref : {ref}]
    OBVIOUS
  <2>3. QED
    BY <2>1, <2>2
<1> HIDE DEF E
<1>7. QED
  BY <1>4, <1>5, <1>6 DEF w

\* A quantity is spelled with its holder.
LEMMA SpelledQuantity ==
  ASSUME NEW x, "quantity" \in DOMAIN x
  PROVE  Spelled(x) = [x EXCEPT !.quantity = [x.quantity EXCEPT !.amount = Plain(@)]]
BY Zenon DEF Spelled

\* Every payload decodes to itself, under its own type.
LEMMA PayloadTrip ==
  ASSUME NEW p \in Payloads
  PROVE  /\ DecodePayload({EncodePayload(p)}) = {Spelled(p)}
         /\ Spelled(p).type = p.type
<1> DEFINE w == EncodePayload(p)
<1>1. CASE p \in [type : {"HoldingObserved"}, account : EntityIDs, instrument : EntityIDs,
                  quantity : Quantities]
  <2> DEFINE q == [p.quantity EXCEPT !.amount = Plain(@)]
             P == [type : {"HoldingObserved"}, account : {p.account},
                   instrument : {p.instrument}, quantity : {q}]
             v == [type |-> "HoldingObserved", account |-> p.account,
                   instrument |-> p.instrument, quantity |-> q]
  <2>1. w = [any |-> "payload.HoldingObserved", account |-> {EncodeEntityID(p.account)},
             instrument |-> {EncodeEntityID(p.instrument)}, quantity |-> {EncodeQuantity(p.quantity)}]
    BY <1>1 DEF EncodePayload
  <2>2. /\ w.any = "payload.HoldingObserved" /\ w.account = {EncodeEntityID(p.account)}
        /\ w.instrument = {EncodeEntityID(p.instrument)} /\ w.quantity = {EncodeQuantity(p.quantity)}
    BY <2>1
  <2> HIDE DEF w, q
  <2>3. /\ DecodeEntityID(w.account) = {p.account} /\ DecodeEntityID(w.instrument) = {p.instrument}
        /\ DecodeQuantity(w.quantity) = {q}
    BY <1>1, <2>2, EntityIDTrip, QuantityTrip DEF q
  <2>4. DecodePayload({w}) = P
    BY <2>2, <2>3 DEF DecodePayload
  <2>5. P = {v}
    <3>1. ASSUME NEW x \in P PROVE x = v
      OBVIOUS
    <3>2. v \in P
      OBVIOUS
    <3> HIDE DEF P, v
    <3>3. QED
      BY <3>1, <3>2
  <2>6. Spelled(p) = v
    <3>1. Spelled(p) = [p EXCEPT !.quantity = q]
      BY <1>1, SpelledQuantity DEF q
    <3>2. QED
      BY <1>1, <3>1
  <2>7. p.type = v.type
    BY <1>1
  <2> HIDE DEF P, v
  <2>8. QED
    BY <2>4, <2>5, <2>6, <2>7 DEF w
<1>2. CASE p \in [type : {"HoldingClaimed"}, account : Claims, instrument : Claims,
                  quantity : Quantities]
  <2> DEFINE q == [p.quantity EXCEPT !.amount = Plain(@)]
             P == [type : {"HoldingClaimed"}, account : {p.account},
                   instrument : {p.instrument}, quantity : {q}]
             v == [type |-> "HoldingClaimed", account |-> p.account,
                   instrument |-> p.instrument, quantity |-> q]
  <2>1. w = [any |-> "payload.HoldingClaimed", account |-> {EncodeClaim(p.account)},
             instrument |-> {EncodeClaim(p.instrument)}, quantity |-> {EncodeQuantity(p.quantity)}]
    BY <1>2 DEF EncodePayload
  <2>2. /\ w.any = "payload.HoldingClaimed" /\ w.account = {EncodeClaim(p.account)}
        /\ w.instrument = {EncodeClaim(p.instrument)} /\ w.quantity = {EncodeQuantity(p.quantity)}
    BY <2>1
  <2> HIDE DEF w, q
  <2>3. /\ DecodeClaim(w.account) = {p.account} /\ DecodeClaim(w.instrument) = {p.instrument}
        /\ DecodeQuantity(w.quantity) = {q}
    BY <1>2, <2>2, ClaimTrip, QuantityTrip DEF q
  <2>4. DecodePayload({w}) = P
    BY <2>2, <2>3 DEF DecodePayload
  <2>5. P = {v}
    <3>1. ASSUME NEW x \in P PROVE x = v
      OBVIOUS
    <3>2. v \in P
      OBVIOUS
    <3> HIDE DEF P, v
    <3>3. QED
      BY <3>1, <3>2
  <2>6. Spelled(p) = v
    <3>1. Spelled(p) = [p EXCEPT !.quantity = q]
      BY <1>2, SpelledQuantity DEF q
    <3>2. QED
      BY <1>2, <3>1
  <2>7. p.type = v.type
    BY <1>2
  <2> HIDE DEF P, v
  <2>8. QED
    BY <2>4, <2>5, <2>6, <2>7 DEF w
<1>3. CASE p \in [type : {"EntityMinted"}, entity : EntityIDs, bornFrom : Claims]
  <2> DEFINE P == [type : {"EntityMinted"}, entity : {p.entity}, bornFrom : {p.bornFrom}]
  <2>1. w = [any |-> "payload.EntityMinted", entity |-> {EncodeEntityID(p.entity)},
             born_from |-> {EncodeClaim(p.bornFrom)}]
    BY <1>3 DEF EncodePayload
  <2>2. /\ w.any = "payload.EntityMinted" /\ w.entity = {EncodeEntityID(p.entity)}
        /\ w.born_from = {EncodeClaim(p.bornFrom)}
    BY <2>1
  <2> HIDE DEF w
  <2>3. DecodeEntityID(w.entity) = {p.entity} /\ DecodeClaim(w.born_from) = {p.bornFrom}
    BY <1>3, <2>2, EntityIDTrip, ClaimTrip
  <2>4. DecodePayload({w}) = P
    BY <2>2, <2>3 DEF DecodePayload
  <2>5. P = {p}
    <3>1. ASSUME NEW x \in P PROVE x = p
      BY <1>3
    <3>2. p \in P
      BY <1>3
    <3> HIDE DEF P
    <3>3. QED
      BY <3>1, <3>2
  <2>6. Spelled(p) = p
    BY <1>3 DEF Spelled
  <2>7. QED
    BY <2>4, <2>5, <2>6 DEF w
<1>4. CASE p \in [type : {"FactCorrected"}, corrects : Refs,
                  kind : {"corrected", "retracted", "superseded"}, reason : Text]
  <2> DEFINE P == [type : {"FactCorrected"}, corrects : {p.corrects}, kind : {p.kind},
                   reason : {p.reason}]
  <2>1. w = [any |-> "ledger.Correction", corrects |-> {EncodeRef(p.corrects)},
             kind |-> EncodeCorrectionKind(p.kind), reason |-> p.reason]
    BY <1>4 DEF EncodePayload
  <2>2. /\ w.any = "ledger.Correction" /\ w.corrects = {EncodeRef(p.corrects)}
        /\ w.kind = EncodeCorrectionKind(p.kind) /\ w.reason = p.reason
    BY <2>1
  <2> HIDE DEF w
  <2>3. DecodeRef(w.corrects) = {p.corrects}
    BY <1>4, <2>2, PartsTrip
  <2>4. DecodeCorrectionKind(w.kind) = {p.kind}
    <3> USE <2>2 DEF EncodeCorrectionKind, DecodeCorrectionKind, Named, Numbered
    <3>1. CASE p.kind = "corrected"
      BY <3>1
    <3>2. CASE p.kind = "retracted"
      BY <3>2
    <3>3. CASE p.kind = "superseded"
      BY <3>3
    <3>4. QED
      BY <1>4, <3>1, <3>2, <3>3
  <2>5. DecodePayload({w}) = P
    BY <2>2, <2>3, <2>4 DEF DecodePayload
  <2>6. P = {p}
    <3>1. ASSUME NEW x \in P PROVE x = p
      BY <1>4
    <3>2. p \in P
      BY <1>4
    <3> HIDE DEF P
    <3>3. QED
      BY <3>1, <3>2
  <2>7. Spelled(p) = p
    BY <1>4 DEF Spelled
  <2>8. QED
    BY <2>5, <2>6, <2>7 DEF w
<1>5. QED
  BY <1>1, <1>2, <1>3, <1>4 DEF Payloads

\* A fact decodes to itself.
LEMMA FactTrip ==
  ASSUME NEW f \in Facts
  PROVE  DecodeFact({EncodeFact(f)}) = {[f EXCEPT !.payload = Spelled(@)]}
<1> DEFINE w == EncodeFact(f)
<1>1. /\ f = [ref |-> f.ref, kind |-> f.kind, payload |-> f.payload, envelope |-> f.envelope]
      /\ f.ref \in Refs /\ f.kind \in {"occurrence", "observation"} /\ f.payload \in Payloads
      /\ f.envelope \in [coordinates : [effective : NewInterval, knowledge : Instant],
                         provenance : Provenances, references : References]
  BY DEF Facts
<1>2. /\ w.envelope = {EncodeEnvelope(f.envelope, f.ref)} /\ w.kind = EncodeFactKind(f.kind)
      /\ w.type = f.payload.type /\ w.type_version = TypeVersion
      /\ w.payload = {EncodePayload(f.payload)}
  BY DEF EncodeFact
<1> HIDE DEF w
<1>3. DecodeEnvelope(w.envelope) = {[envelope |-> f.envelope, ref |-> f.ref]}
  BY <1>1, <1>2, EnvelopeTrip
<1>4. DecodeFactKind(w.kind) = {f.kind}
  <2> USE <1>2 DEF EncodeFactKind, DecodeFactKind, Named, Numbered
  <2>1. CASE f.kind = "occurrence"
    BY <2>1
  <2>2. CASE f.kind = "observation"
    BY <2>2
  <2>3. QED
    BY <1>1, <2>1, <2>2
<1>5. DecodePayload(w.payload) = {Spelled(f.payload)} /\ Spelled(f.payload).type = w.type
  BY <1>1, <1>2, PayloadTrip
<1> DEFINE e == [envelope |-> f.envelope, ref |-> f.ref]
           v == [ref |-> e.ref, envelope |-> e.envelope, kind |-> f.kind,
                 payload |-> Spelled(f.payload)]
<1>6. e.envelope = f.envelope /\ e.ref = f.ref
  OBVIOUS
<1> HIDE DEF e
<1>7. {q \in DecodePayload(w.payload) : q.type = w.type /\ w.type_version = TypeVersion}
        = {Spelled(f.payload)}
  BY <1>2, <1>5
<1>8. DecodeFact({w}) = {v}
  <2> DEFINE D(m) == {[ref |-> x.ref, envelope |-> x.envelope, kind |-> kind, payload |-> p] :
                        x \in DecodeEnvelope(m.envelope), kind \in DecodeFactKind(m.kind),
                        p \in {q \in DecodePayload(m.payload) :
                                 q.type = m.type /\ m.type_version = TypeVersion}}
  <2> DEFINE F(X, K, P) == {[ref |-> x.ref, envelope |-> x.envelope, kind |-> kind, payload |-> p] :
                              x \in X, kind \in K, p \in P}
             Q == {q \in DecodePayload(w.payload) : q.type = w.type /\ w.type_version = TypeVersion}
  <2>1. D(w) = F(DecodeEnvelope(w.envelope), DecodeFactKind(w.kind), Q)
    OBVIOUS
  <2>2. F({e}, {f.kind}, {Spelled(f.payload)}) = {v}
    OBVIOUS
  <2>3. DecodeEnvelope(w.envelope) = {e} /\ Q = {Spelled(f.payload)}
    BY <1>3, <1>7 DEF e
  <2> HIDE DEF D, F, Q, v
  <2>4. D(w) = {v}
    BY <1>4, <2>1, <2>2, <2>3
  <2>5. DecodeFact({w}) = UNION {D(m) : m \in {w}}
    BY DEF DecodeFact, D
  <2>6. QED
    BY <2>4, <2>5
<1>9. v = [f EXCEPT !.payload = Spelled(f.payload)]
  BY <1>1, <1>6
<1>10. QED
  BY <1>8, <1>9 DEF w

\* A submission decodes to itself.
LEMMA SubmissionTrip ==
  ASSUME NEW cmd \in Submissions
  PROVE  DecodeHoldingClaimSubmission({EncodeHoldingClaimSubmission(cmd)}) = {Spelled(cmd)}
<1> DEFINE w == EncodeHoldingClaimSubmission(cmd)
           q == [cmd.quantity EXCEPT !.amount = Plain(@)]
           S == [stream : {cmd.stream}, account : {cmd.account}, instrument : {cmd.instrument},
                 quantity : {q}, effective : {cmd.effective}, source : {cmd.source},
                 collectedAt : {cmd.collectedAt}, interpreter : {cmd.interpreter},
                 confidence : {cmd.confidence}, references : {cmd.references}]
           v == [stream |-> cmd.stream, account |-> cmd.account, instrument |-> cmd.instrument,
                 quantity |-> q, effective |-> cmd.effective, source |-> cmd.source,
                 collectedAt |-> cmd.collectedAt, interpreter |-> cmd.interpreter,
                 confidence |-> cmd.confidence, references |-> cmd.references]
<1>1. /\ cmd.account \in Claims /\ cmd.instrument \in Claims /\ cmd.quantity \in Quantities
      /\ cmd.effective \in NewInterval /\ cmd.source \in Sources
      /\ cmd.interpreter \in Interpreters /\ cmd.confidence \in Levels
      /\ cmd.references \in References
  BY DEF Submissions
<1>2. /\ w.stream = cmd.stream /\ w.account = {EncodeClaim(cmd.account)}
      /\ w.instrument = {EncodeClaim(cmd.instrument)}
      /\ w.quantity = {EncodeQuantity(cmd.quantity)}
      /\ w.effective = {EncodeInterval(cmd.effective)} /\ w.source = {EncodeSource(cmd.source)}
      /\ w.collected_at = EncodeInstant(cmd.collectedAt)
      /\ w.interpreter = {EncodeInterpreter(cmd.interpreter)}
      /\ w.confidence = EncodeConfidence(cmd.confidence)
      /\ w.references = Each(cmd.references, EncodeReferenceBinding)
  BY Zenon DEF EncodeHoldingClaimSubmission
<1> HIDE DEF w, q
<1>3. /\ DecodeClaim(w.account) = {cmd.account} /\ DecodeClaim(w.instrument) = {cmd.instrument}
      /\ DecodeQuantity(w.quantity) = {q} /\ DecodeInterval(w.effective) = {cmd.effective}
  BY <1>1, <1>2, ClaimTrip, QuantityTrip, IntervalTrip, Zenon DEF q
<1>4. /\ DecodeSource(w.source) = {cmd.source} /\ DecodeInstant(w.collected_at) = {cmd.collectedAt}
      /\ DecodeInterpreter(w.interpreter) = {cmd.interpreter}
      /\ DecodeConfidence(w.confidence) = {cmd.confidence}
  BY <1>1, <1>2, PartsTrip, Zenon
<1>5. DecodeReferences(w.references) = {cmd.references}
  BY <1>1, <1>2, ReferencesTrip, Zenon
<1>6. DecodeHoldingClaimSubmission({w}) = S
  <2> DEFINE D(m) == [stream : {m.stream}, account : DecodeClaim(m.account),
                      instrument : DecodeClaim(m.instrument), quantity : DecodeQuantity(m.quantity),
                      effective : DecodeInterval(m.effective), source : DecodeSource(m.source),
                      collectedAt : DecodeInstant(m.collected_at),
                      interpreter : DecodeInterpreter(m.interpreter),
                      confidence : DecodeConfidence(m.confidence),
                      references : DecodeReferences(m.references)]
  <2>1. D(w) = S
    BY <1>2, <1>3, <1>4, <1>5, Zenon
  <2>2. DecodeHoldingClaimSubmission({w}) = UNION {D(m) : m \in {w}}
    BY DEF DecodeHoldingClaimSubmission
  <2> HIDE DEF D, S
  <2>3. QED
    BY <2>1, <2>2
<1>7. S = {v}
  <2>1. ASSUME NEW x \in S PROVE x = v
    OBVIOUS
  <2>2. v \in S
    OBVIOUS
  <2> HIDE DEF S, v
  <2>3. QED
    BY <2>1, <2>2
<1>8. Spelled(cmd) = v
  <2>1. Spelled(cmd) = [cmd EXCEPT !.quantity = q]
    BY SpelledQuantity DEF q, Submissions
  <2>2. QED
    BY <2>1 DEF Submissions
<1> HIDE DEF S, v
<1>9. QED
  BY <1>6, <1>7, <1>8 DEF w

-----------------------------------------------------------------------------
(* Messages *)

\* What was sent is on its way as it was written, until a producer alters it.
Carried ==
  /\ changes \in Nat
  /\ sent = {} \/ \E o \in Outgoing : sent = {o}
  /\ \A s \in sent : changes = 0 /\ message # {} => message = {Encode(s.sort, s.value)}
  /\ RoundTrips

\* Whatever is sent decodes to itself.
LEMMA OutgoingTrips ==
  ASSUME NEW o \in Outgoing
  PROVE  /\ o = [sort |-> o.sort, value |-> o.value]
         /\ Decode(o.sort, {Encode(o.sort, o.value)}) = {AsWritten(o)}
<1>1. CASE o \in [sort : {"fact"}, value : Facts]
  <2>1. o = [sort |-> o.sort, value |-> o.value] /\ o.sort = "fact" /\ o.value \in Facts
    BY <1>1
  <2>2. AsWritten(o) = [o.value EXCEPT !.payload = Spelled(@)]
    BY <2>1, Zenon DEF AsWritten
  <2>3. Decode("fact", {Encode("fact", o.value)}) = DecodeFact({EncodeFact(o.value)})
    BY DEF Encode, Decode
  <2>4. QED
    BY <2>1, <2>2, <2>3, FactTrip
<1>2. CASE o \in [sort : {"submission"}, value : Submissions]
  BY <1>2, SubmissionTrip DEF Encode, Decode, AsWritten
<1>3. CASE o \in [sort : {"context"}, value : RoundingContexts]
  <2>1. Spelled(o.value) = o.value
    BY <1>3 DEF Spelled, RoundingContexts
  <2>2. QED
    BY <1>3, <2>1, ContextTrip DEF Encode, Decode, AsWritten
<1>4. CASE o \in [sort : {"money"}, value : Monies]
  BY <1>4, MoneyTrip DEF Encode, Decode, AsWritten
<1>5. QED
  BY <1>1, <1>2, <1>3, <1>4, OutgoingAssumption

LEMMA StepCarried == Carried /\ [Deliver]_exchange => Carried'
<1> SUFFICES ASSUME Carried, [Deliver]_exchange PROVE Carried'
  OBVIOUS
<1>1. CASE UNCHANGED exchange
  BY <1>1 DEF exchange, Carried, RoundTrips
<1>2. ASSUME NEW o \in Outgoing, Send(o.sort, o.value) PROVE Carried'
  <2>1. sent' = {o}
    BY <1>2, OutgoingTrips DEF Send
  <2>2. QED
    BY <1>2, <2>1 DEF Send, Carried, RoundTrips
<1>3. CASE Alter
  <2>1. changes' \in Nat /\ changes' # 0 /\ sent' = sent
    BY <1>3 DEF Alter, Carried
  <2>2. QED
    BY <2>1 DEF Carried, RoundTrips
<1>4. CASE Receive
  <2>1. PICK s \in sent : /\ message # {}
                          /\ received' = {[answer |-> Decode(s.sort, message), of |-> message]}
    BY <1>4 DEF Receive
  <2>2. PICK o \in Outgoing : sent = {o}
    BY <2>1 DEF Carried
  <2>3. message' = {} /\ sent' = sent /\ changes' = changes /\ s = o
    BY <1>4, <2>2 DEF Receive
  <2>4. changes = 0 => Decode(s.sort, message) = {AsWritten(o)}
    BY <2>1, <2>3, OutgoingTrips DEF Carried
  <2>5. RoundTrips'
    BY <2>1, <2>2, <2>3, <2>4 DEF RoundTrips
  <2>6. QED
    BY <2>2, <2>3, <2>5 DEF Carried
<1>5. QED
  BY <1>1, <1>2, <1>3, <1>4 DEF Deliver

\* Whatever the constructors build and whatever producers do to other messages, a
\* message that arrives as it was written decodes to the value it was written from.
THEOREM CodecsRoundTrip == ExchangeSpec => []RoundTrips
<1>1. ExchangeInit => Carried
  BY DEF ExchangeInit, Carried, RoundTrips
<1>2. Carried => RoundTrips
  BY DEF Carried
<1>3. QED
  BY <1>1, <1>2, StepCarried, PTL DEF ExchangeSpec

-----------------------------------------------------------------------------
(* Messages that keep the contracts *)

\* Every field holds what its type allows, and whatever may be absent may be.  An
\* amount is spelled as Text('f') spells one.
Spellings == {TextOf(d) : d \in Decimals}

ClaimMessages == [scheme : Text, value : Text]
EntityMessages == [value : [uuid : Text], kind : Int]
MoneyMessages == [amount : Optional(Spellings), currency : Text]
QuantityMessages == [amount : Optional(Spellings), unit : Text]
ContextMessages == [precision : Int, mode : Int, scale : Optional(Int)]
IntervalMessages == [from : Optional(Nat), to : Optional(Nat)]
CoordinatesMessages == [effective : Optional(IntervalMessages), knowledge : Optional(Nat)]
SourceMessages == [value : Text]
InterpreterMessages == [name : Text, version : Text]
RefMessages == [stream : Text, sequence : Nat]

ProvenanceMessages ==
  [source : Optional(SourceMessages), collected_at : Optional(Nat), published_at : Optional(Nat),
   interpreter : Optional(InterpreterMessages), confidence : Int,
   derivation : Optional([content_hash : Text])]

EnvelopeMessages ==
  [temporal : Optional(CoordinatesMessages), provenance : Optional(ProvenanceMessages),
   references : Seq(Bindings), ref : Optional(RefMessages)]

SubmissionMessages ==
  [stream : Text, account : Optional(ClaimMessages), instrument : Optional(ClaimMessages),
   quantity : Optional(QuantityMessages), effective : Optional(IntervalMessages),
   source : Optional(SourceMessages), collected_at : Optional(Nat),
   interpreter : Optional(InterpreterMessages), confidence : Int, references : Seq(Bindings)]

\* A payload has the fields of the type its Any names; one of a type that nobody
\* knows may have any.
IsPayloadMessage(m) ==
  /\ m.any = "payload.HoldingObserved" =>
       m \in [any : {"payload.HoldingObserved"}, account : Optional(EntityMessages),
              instrument : Optional(EntityMessages), quantity : Optional(QuantityMessages)]
  /\ m.any = "payload.HoldingClaimed" =>
       m \in [any : {"payload.HoldingClaimed"}, account : Optional(ClaimMessages),
              instrument : Optional(ClaimMessages), quantity : Optional(QuantityMessages)]
  /\ m.any = "payload.EntityMinted" =>
       m \in [any : {"payload.EntityMinted"}, entity : Optional(EntityMessages),
              born_from : Optional(ClaimMessages)]
  /\ m.any = "ledger.Correction" =>
       m \in [any : {"ledger.Correction"}, corrects : Optional(RefMessages),
              kind : Int, reason : Text]

IsFactMessage(m) ==
  /\ m = [envelope |-> m.envelope, kind |-> m.kind, type |-> m.type,
          type_version |-> m.type_version, payload |-> m.payload]
  /\ m.envelope \in Optional(EnvelopeMessages)
  /\ m.payload \in Optional(m.payload) /\ \A p \in m.payload : IsPayloadMessage(p)

IsMessage(sort, m) ==
  /\ sort = "fact" => IsFactMessage(m)
  /\ sort = "submission" => m \in SubmissionMessages
  /\ sort = "context" => m \in ContextMessages
  /\ sort = "money" => m \in MoneyMessages

\* Producers keep the contracts, whatever they leave out of a message.
ContractKept == \A sort, m : IsMessage(sort, m) => \A w \in Altered(m) : IsMessage(sort, w)

-----------------------------------------------------------------------------
(* Decoding backwards *)

\* The one value an optional field holds.
LEMMA OnlyOne ==
  ASSUME NEW T, NEW w \in Optional(T), NEW m \in w PROVE w = {m} /\ m \in T
<1>1. w \in SUBSET T /\ \A x, y \in w : x = y
  BY DEF Optional
<1>2. QED
  BY <1>1

\* A field that is written is an optional one.
LEMMA IsOptional == /\ \A T : {} \in Optional(T)
                    /\ \A T : \A x \in T : {x} \in Optional(T)
BY DEF Optional

\* A claim that is accepted is the one that was stated.
LEMMA ClaimBack ==
  ASSUME NEW w \in Optional(ClaimMessages), NEW c \in DecodeClaim(w)
  PROVE  w = {EncodeClaim(c)}
<1>1. PICK m \in w : c = [scheme |-> m.scheme, value |-> m.value]
  BY DEF DecodeClaim
<1>2. w = {m} /\ m \in ClaimMessages
  BY OnlyOne, Zenon
<1>3. EncodeClaim(c) = [scheme |-> m.scheme, value |-> m.value]
  BY <1>1 DEF EncodeClaim
<1>4. m = [scheme |-> m.scheme, value |-> m.value]
  BY <1>2 DEF ClaimMessages
<1>5. QED
  BY <1>2, <1>3, <1>4

\* The name a number has in an enum has that number.
LEMMA NumbersBack ==
  /\ \A n : \A k \in DecodeEntityKind(n) : EncodeEntityKind(k) = n
  /\ \A n : \A k \in DecodeRoundingMode(n) : EncodeRoundingMode(k) = n
  /\ \A n : \A k \in DecodeFactKind(n) : EncodeFactKind(k) = n
  /\ \A n : \A k \in DecodeCorrectionKind(n) : EncodeCorrectionKind(k) = n
<1>1. ASSUME NEW n, NEW k \in DecodeEntityKind(n) PROVE EncodeEntityKind(k) = n
  <2>1. n \in 1..4 /\ k = <<"instrument", "party", "account", "ledger_stream">>[n]
    BY <1>1 DEF DecodeEntityKind, Named
  <2>2. CASE n = 1
    BY <2>1, <2>2 DEF EncodeEntityKind, Numbered
  <2>3. CASE n = 2
    BY <2>1, <2>3 DEF EncodeEntityKind, Numbered
  <2>4. CASE n = 3
    BY <2>1, <2>4 DEF EncodeEntityKind, Numbered
  <2>5. CASE n = 4
    BY <2>1, <2>5 DEF EncodeEntityKind, Numbered
  <2>6. QED
    BY <2>1, <2>2, <2>3, <2>4, <2>5
<1>2. ASSUME NEW n, NEW k \in DecodeRoundingMode(n) PROVE EncodeRoundingMode(k) = n
  <2>1. n \in 1..6 /\ k = <<"half_even", "half_up", "down", "up", "ceiling", "floor">>[n]
    BY <1>2 DEF DecodeRoundingMode, Named
  <2>2. CASE n = 1
    BY <2>1, <2>2 DEF EncodeRoundingMode, Numbered
  <2>3. CASE n = 2
    BY <2>1, <2>3 DEF EncodeRoundingMode, Numbered
  <2>4. CASE n = 3
    BY <2>1, <2>4 DEF EncodeRoundingMode, Numbered
  <2>5. CASE n = 4
    BY <2>1, <2>5 DEF EncodeRoundingMode, Numbered
  <2>6. CASE n = 5
    BY <2>1, <2>6 DEF EncodeRoundingMode, Numbered
  <2>7. CASE n = 6
    BY <2>1, <2>7 DEF EncodeRoundingMode, Numbered
  <2>8. QED
    BY <2>1, <2>2, <2>3, <2>4, <2>5, <2>6, <2>7
<1>3. ASSUME NEW n, NEW k \in DecodeFactKind(n) PROVE EncodeFactKind(k) = n
  <2>1. n \in 1..2 /\ k = <<"occurrence", "observation">>[n]
    BY <1>3 DEF DecodeFactKind, Named
  <2>2. CASE n = 1
    BY <2>1, <2>2 DEF EncodeFactKind, Numbered
  <2>3. CASE n = 2
    BY <2>1, <2>3 DEF EncodeFactKind, Numbered
  <2>4. QED
    BY <2>1, <2>2, <2>3
<1>4. ASSUME NEW n, NEW k \in DecodeCorrectionKind(n) PROVE EncodeCorrectionKind(k) = n
  <2>1. n \in 1..3 /\ k = <<"corrected", "retracted", "superseded">>[n]
    BY <1>4 DEF DecodeCorrectionKind, Named
  <2>2. CASE n = 1
    BY <2>1, <2>2 DEF EncodeCorrectionKind, Numbered
  <2>3. CASE n = 2
    BY <2>1, <2>3 DEF EncodeCorrectionKind, Numbered
  <2>4. CASE n = 3
    BY <2>1, <2>4 DEF EncodeCorrectionKind, Numbered
  <2>5. QED
    BY <2>1, <2>2, <2>3, <2>4
<1>5. QED
  BY <1>1, <1>2, <1>3, <1>4

\* An identifier that is accepted is the one that was sent, under its own kind.
LEMMA EntityIDBack ==
  ASSUME NEW w \in Optional(EntityMessages), NEW id \in DecodeEntityID(w)
  PROVE  w = {EncodeEntityID(id)}
<1>1. PICK m \in w : id \in [kind : DecodeEntityKind(m.kind), value : {m.value}]
  BY DEF DecodeEntityID
<1>2. w = {m} /\ m \in EntityMessages
  BY OnlyOne, Zenon
<1>3. id.kind \in DecodeEntityKind(m.kind) /\ id.value = m.value
  BY <1>1
<1>4. m = [value |-> m.value, kind |-> m.kind] /\ m.kind \in Int
  BY <1>2 DEF EntityMessages
<1>5. EncodeEntityKind(id.kind) = m.kind
  BY <1>3, <1>4, NumbersBack, Zenon
<1>6. EncodeEntityID(id) = m
  BY <1>3, <1>4, <1>5 DEF EncodeEntityID
<1>7. QED
  BY <1>2, <1>6

\* An amount that is parsed is written as it was spelled.
LEMMA SpellingBack ==
  ASSUME NEW t \in Spellings PROVE TextOf(ParsedDecimal(t)) = t
<1>1. PICK d \in Decimals : t = TextOf(d)
  BY DEF Spellings
<1>2. ParsedDecimal(t) = Plain(d)
  BY <1>1, DecimalTrip
<1>3. Plain(Plain(d)) = Plain(d)
  <2>1. CASE d.exp > 0
    <3>1. Plain(d) = Decimal(At(d, 0), 0)
      BY <2>1 DEF Plain
    <3>2. Plain(d).exp = 0
      BY <3>1 DEF Decimal
    <3> DEFINE e == Plain(d)
    <3>3. e.exp = 0
      BY <3>2
    <3> HIDE DEF e
    <3>4. Plain(e) = e
      BY <3>3 DEF Plain
    <3>5. QED
      BY <3>4 DEF e
  <2>2. CASE ~(d.exp > 0)
    BY <2>2 DEF Plain
  <2>3. QED
    BY <2>1, <2>2
<1>4. TextOf(Plain(d)) = TextOf(d)
  BY <1>3, Zenon DEF TextOf
<1>5. QED
  BY <1>1, <1>2, <1>4

\* Money that is accepted is what was sent: an absent amount is not a zero one.
LEMMA MoneyBack ==
  ASSUME NEW w \in Optional(MoneyMessages), NEW v \in DecodeMoney(w)
  PROVE  w = {EncodeMoney(v)}
<1>1. PICK m \in w : \E t \in m.amount : v = Parse(t, m.currency)
  BY DEF DecodeMoney
<1>2. PICK t \in m.amount : v = Parse(t, m.currency)
  BY <1>1
<1>3. w = {m} /\ m \in MoneyMessages
  BY OnlyOne, Zenon
<1>4. m = [amount |-> m.amount, currency |-> m.currency] /\ m.amount \in Optional(Spellings)
  BY <1>3 DEF MoneyMessages
<1>5. m.amount = {t} /\ t \in Spellings
  BY <1>4, OnlyOne, Zenon
<1>6. v.amount = ParsedDecimal(t) /\ v.currency = m.currency
  BY <1>2 DEF Parse
<1>7. TextOf(v.amount) = t
  BY <1>5, <1>6, SpellingBack, Zenon
<1>8. EncodeMoney(v) = m
  BY <1>4, <1>5, <1>6, <1>7 DEF EncodeMoney
<1>9. QED
  BY <1>3, <1>8

\* So is a quantity.
LEMMA QuantityBack ==
  ASSUME NEW w \in Optional(QuantityMessages), NEW v \in DecodeQuantity(w)
  PROVE  w = {EncodeQuantity(v)}
<1>1. PICK m \in w : \E t \in m.amount : v = ParseQuantity(t, m.unit)
  BY DEF DecodeQuantity
<1>2. PICK t \in m.amount : v = ParseQuantity(t, m.unit)
  BY <1>1
<1>3. w = {m} /\ m \in QuantityMessages
  BY OnlyOne, Zenon
<1>4. m = [amount |-> m.amount, unit |-> m.unit] /\ m.amount \in Optional(Spellings)
  BY <1>3 DEF QuantityMessages
<1>5. m.amount = {t} /\ t \in Spellings
  BY <1>4, OnlyOne, Zenon
<1>6. v.amount = ParsedDecimal(t) /\ v.unit = m.unit
  BY <1>2 DEF ParseQuantity
<1>7. TextOf(v.amount) = t
  BY <1>5, <1>6, SpellingBack, Zenon
<1>8. EncodeQuantity(v) = m
  BY <1>4, <1>5, <1>6, <1>7 DEF EncodeQuantity
<1>9. QED
  BY <1>3, <1>8

\* A rounding context that is accepted is what was sent: an absent scale is not a
\* scale of zero.
LEMMA ContextBack ==
  ASSUME NEW w \in Optional(ContextMessages), NEW rc \in DecodeRoundingContext(w)
  PROVE  w = {EncodeRoundingContext(rc)}
<1> DEFINE Scaled(c, scale) == IF scale = {} THEN c ELSE WithScale(c, The(scale))
<1>1. PICK m \in w : \E mode \in DecodeRoundingMode(m.mode) :
        rc = Scaled(NewRoundingContext(m.precision, mode), m.scale)
  BY DEF DecodeRoundingContext
<1>2. PICK mode \in DecodeRoundingMode(m.mode) :
        rc = Scaled(NewRoundingContext(m.precision, mode), m.scale)
  BY <1>1
<1>3. w = {m} /\ m \in ContextMessages
  BY OnlyOne, Zenon
<1>4. /\ m = [precision |-> m.precision, mode |-> m.mode, scale |-> m.scale]
      /\ m.scale \in Optional(Int) /\ m.mode \in Int
  BY <1>3 DEF ContextMessages
<1>5. EncodeRoundingMode(mode) = m.mode
  BY <1>4, NumbersBack, Zenon
<1>6. rc = [precision |-> m.precision, mode |-> mode, scale |-> m.scale]
  <2>1. CASE m.scale = {}
    BY <1>2, <2>1 DEF NewRoundingContext
  <2>2. CASE m.scale # {}
    <3>1. m.scale = {The(m.scale)}
      BY <1>4, <2>2, OptionalIs
    <3>2. rc = [precision |-> m.precision, mode |-> mode, scale |-> {The(m.scale)}]
      BY <1>2, <2>2 DEF NewRoundingContext, WithScale
    <3>3. QED
      BY <3>1, <3>2
  <2>3. QED
    BY <2>1, <2>2
<1>7. rc.precision = m.precision /\ rc.mode = mode /\ rc.scale = m.scale
  BY <1>6
<1>8. EncodeRoundingContext(rc) = m
  BY <1>4, <1>5, <1>7 DEF EncodeRoundingContext
<1>9. QED
  BY <1>3, <1>8

\* A timestamp that is accepted is the one that was sent, and an absent one stays
\* absent.
LEMMA InstantBack ==
  ASSUME NEW w \in Optional(Nat), NEW t \in DecodeInstant(w) PROVE w = EncodeInstant(t)
<1>1. CASE w = {}
  BY <1>1 DEF DecodeInstant, EncodeInstant
<1>2. CASE w # {}
  <2>1. t \in w /\ t # Unset
    BY <1>2 DEF DecodeInstant
  <2>2. w = {t}
    BY <2>1, OnlyOne, Zenon
  <2>3. QED
    BY <2>1, <2>2 DEF EncodeInstant
<1>3. QED
  BY <1>1, <1>2

\* An interval that is accepted is the one that was sent, open or closed.
LEMMA IntervalBack ==
  ASSUME NEW w \in Optional(IntervalMessages), NEW iv \in DecodeInterval(w)
  PROVE  w = {EncodeInterval(iv)}
<1>1. PICK m \in w : iv \in [from : DecodeInstant(m.from), to : DecodeInstant(m.to)]
  BY DEF DecodeInterval
<1>2. w = {m} /\ m \in IntervalMessages
  BY OnlyOne, Zenon
<1>3. /\ m = [from |-> m.from, to |-> m.to]
      /\ m.from \in Optional(Nat) /\ m.to \in Optional(Nat)
  BY <1>2 DEF IntervalMessages
<1>4. iv.from \in DecodeInstant(m.from) /\ iv.to \in DecodeInstant(m.to)
  BY <1>1
<1>5. m.from = EncodeInstant(iv.from) /\ m.to = EncodeInstant(iv.to)
  BY <1>3, <1>4, InstantBack, Zenon
<1>6. EncodeInterval(iv) = m
  BY <1>3, <1>5 DEF EncodeInterval
<1>7. QED
  BY <1>2, <1>6

\* So are coordinates.
LEMMA CoordinatesBack ==
  ASSUME NEW w \in Optional(CoordinatesMessages), NEW c \in DecodeCoordinates(w)
  PROVE  w = {EncodeCoordinates(c)}
<1>1. PICK m \in w : c \in [effective : DecodeInterval(m.effective),
                            knowledge : DecodeInstant(m.knowledge)]
  BY DEF DecodeCoordinates
<1>2. w = {m} /\ m \in CoordinatesMessages
  BY OnlyOne, Zenon
<1>3. /\ m = [effective |-> m.effective, knowledge |-> m.knowledge]
      /\ m.effective \in Optional(IntervalMessages) /\ m.knowledge \in Optional(Nat)
  BY <1>2 DEF CoordinatesMessages
<1>4. c.effective \in DecodeInterval(m.effective) /\ c.knowledge \in DecodeInstant(m.knowledge)
  BY <1>1
<1>5. m.effective = {EncodeInterval(c.effective)} /\ m.knowledge = EncodeInstant(c.knowledge)
  BY <1>3, <1>4, InstantBack, IntervalBack, Zenon
<1>6. EncodeCoordinates(c) = m
  BY <1>3, <1>5 DEF EncodeCoordinates
<1>7. QED
  BY <1>2, <1>6

\* A list of bindings that is accepted is the one that was sent, in its order.
LEMMA ReferencesBack ==
  ASSUME NEW list \in Seq(Bindings), NEW bs \in DecodeReferences(list)
  PROVE  list = Each(bs, EncodeReferenceBinding)
<1>1. /\ \A i \in DOMAIN list : DecodeReferenceBinding({list[i]}) # {}
      /\ bs = [i \in DOMAIN list |-> The(DecodeReferenceBinding({list[i]}))]
  BY DEF DecodeReferences
<1>2. DOMAIN bs = DOMAIN list
  BY <1>1
<1>3. ASSUME NEW i \in DOMAIN list PROVE EncodeReferenceBinding(bs[i]) = list[i]
  <2>1. bs[i] \in DecodeReferenceBinding({list[i]})
    BY <1>1 DEF The
  <2>2. bs[i] = [dataset |-> list[i].dataset, version |-> list[i].version]
    BY <2>1 DEF DecodeReferenceBinding
  <2>3. list[i] \in Bindings
    OBVIOUS
  <2>4. list[i] = [dataset |-> list[i].dataset, version |-> list[i].version]
    BY <2>3 DEF Bindings
  <2>5. EncodeReferenceBinding(bs[i]) = [dataset |-> list[i].dataset, version |-> list[i].version]
    BY <2>2 DEF EncodeReferenceBinding
  <2>6. QED
    BY <2>4, <2>5
<1>4. list = [i \in DOMAIN list |-> list[i]]
  OBVIOUS
<1> DEFINE e == Each(bs, EncodeReferenceBinding)
<1>5. e = [i \in DOMAIN bs |-> EncodeReferenceBinding(bs[i])]
  BY Zenon DEF Each
<1> HIDE DEF e
<1>6. e = [i \in DOMAIN list |-> list[i]]
  BY <1>2, <1>3, <1>5
<1>7. QED
  BY <1>4, <1>6 DEF e

\* A source, an interpreter, a confidence and a reference that are accepted are the
\* ones that were sent.
LEMMA PartsBack ==
  /\ \A w \in Optional(SourceMessages) : \A s \in DecodeSource(w) : w = {EncodeSource(s)}
  /\ \A w \in Optional(InterpreterMessages) :
       \A i \in DecodeInterpreter(w) : w = {EncodeInterpreter(i)}
  /\ \A n : \A c \in DecodeConfidence(n) : n = EncodeConfidence(c)
  /\ \A w \in Optional(RefMessages) : \A r \in DecodeRef(w) : w = {EncodeRef(r)}
<1>1. ASSUME NEW w \in Optional(SourceMessages), NEW s \in DecodeSource(w)
      PROVE  w = {EncodeSource(s)}
  <2>1. PICK m \in w : s = m.value
    BY DEF DecodeSource
  <2>2. w = {m} /\ m \in SourceMessages
    BY OnlyOne, Zenon
  <2>3. m = [value |-> s]
    BY <2>1, <2>2 DEF SourceMessages
  <2>4. QED
    BY <2>2, <2>3 DEF EncodeSource
<1>2. ASSUME NEW w \in Optional(InterpreterMessages), NEW i \in DecodeInterpreter(w)
      PROVE  w = {EncodeInterpreter(i)}
  <2>1. PICK m \in w : i = [name |-> m.name, version |-> m.version]
    BY DEF DecodeInterpreter
  <2>2. w = {m} /\ m \in InterpreterMessages
    BY OnlyOne, Zenon
  <2>3. EncodeInterpreter(i) = [name |-> m.name, version |-> m.version]
    BY <2>1 DEF EncodeInterpreter
  <2>4. m = [name |-> m.name, version |-> m.version]
    BY <2>2 DEF InterpreterMessages
  <2>5. QED
    BY <2>2, <2>3, <2>4
<1>3. \A n : \A c \in DecodeConfidence(n) : n = EncodeConfidence(c)
  BY DEF DecodeConfidence, EncodeConfidence
<1>4. ASSUME NEW w \in Optional(RefMessages), NEW r \in DecodeRef(w) PROVE w = {EncodeRef(r)}
  <2>1. PICK m \in w : r = [stream |-> m.stream, sequence |-> m.sequence]
    BY DEF DecodeRef
  <2>2. w = {m} /\ m \in RefMessages
    BY OnlyOne, Zenon
  <2>3. EncodeRef(r) = [stream |-> m.stream, sequence |-> m.sequence]
    BY <2>1 DEF EncodeRef
  <2>4. m = [stream |-> m.stream, sequence |-> m.sequence]
    BY <2>2 DEF RefMessages
  <2>5. QED
    BY <2>2, <2>3, <2>4
<1>5. QED
  BY <1>1, <1>2, <1>3, <1>4

\* A provenance without a time of publication that is no instant.
Shown(m) == [m EXCEPT !.published_at = @ \ {Unset}]

\* What DecodeProvenance builds of one message.
BuiltOf(m, s, t, i, c) ==
  IF m.derivation = {} THEN Observed(s, t, i, c)
  ELSE DerivedFrom(s, t, i, The(m.derivation).content_hash, c)

DatedOf(q, published) == IF published = {} THEN q ELSE WithPublishedAt(q, The(published))

\* A provenance that is accepted is the one that was sent, derived or not: only a
\* time of publication that is no instant is dropped.
LEMMA ProvenanceBack ==
  ASSUME NEW w \in Optional(ProvenanceMessages), NEW p \in DecodeProvenance(w)
  PROVE  {EncodeProvenance(p)} = {Shown(m) : m \in w}
<1>1. PICK m \in w : \E s \in DecodeSource(m.source), t \in DecodeInstant(m.collected_at) \ {Unset},
                        i \in DecodeInterpreter(m.interpreter), c \in DecodeConfidence(m.confidence) :
        p = DatedOf(BuiltOf(m, s, t, i, c), m.published_at \ {Unset})
  <2> DEFINE Made(x) == {BuiltOf(x, s, t, i, c) :
                           s \in DecodeSource(x.source),
                           t \in DecodeInstant(x.collected_at) \ {Unset},
                           i \in DecodeInterpreter(x.interpreter),
                           c \in DecodeConfidence(x.confidence)}
             D(x) == {DatedOf(q, x.published_at \ {Unset}) : q \in Made(x)}
  <2>1. DecodeProvenance(w)
          = UNION {D(x) : x \in {y \in w : \A d \in y.derivation : IsRef(d.content_hash)}}
    BY DEF DecodeProvenance, DatedOf, BuiltOf
  <2> HIDE DEF D
  <2>2. PICK m \in w : p \in D(m)
    BY <2>1
  <2>3. PICK q \in Made(m) : p = DatedOf(q, m.published_at \ {Unset})
    <3> HIDE DEF Made
    <3>1. QED
      BY <2>2 DEF D
  <2>4. PICK s \in DecodeSource(m.source), t \in DecodeInstant(m.collected_at) \ {Unset},
           i \in DecodeInterpreter(m.interpreter), c \in DecodeConfidence(m.confidence) :
          q = BuiltOf(m, s, t, i, c)
    BY <2>3
  <2> HIDE DEF Made
  <2>5. p = DatedOf(BuiltOf(m, s, t, i, c), m.published_at \ {Unset})
    BY <2>3, <2>4
  <2>6. QED
    BY <2>5
<1>2. PICK s \in DecodeSource(m.source), t \in DecodeInstant(m.collected_at) \ {Unset},
           i \in DecodeInterpreter(m.interpreter), c \in DecodeConfidence(m.confidence) :
        p = DatedOf(BuiltOf(m, s, t, i, c), m.published_at \ {Unset})
  BY <1>1
<1>3. w = {m} /\ m \in ProvenanceMessages
  BY OnlyOne, Zenon
<1>4. /\ m.source \in Optional(SourceMessages) /\ m.collected_at \in Optional(Nat)
      /\ m.published_at \in Optional(Nat) /\ m.interpreter \in Optional(InterpreterMessages)
      /\ m.derivation \in Optional([content_hash : Text])
      /\ m = [source |-> m.source, collected_at |-> m.collected_at,
              published_at |-> m.published_at, interpreter |-> m.interpreter,
              confidence |-> m.confidence, derivation |-> m.derivation]
  BY <1>3 DEF ProvenanceMessages
<1> DEFINE d    == {x.content_hash : x \in m.derivation}
           rest == m.published_at \ {Unset}
           at   == IF rest = {} THEN Unset ELSE The(rest)
<1>5. BuiltOf(m, s, t, i, c)
        = [source |-> s, collectedAt |-> t, publishedAt |-> Unset, interpreter |-> i,
           derivation |-> d, confidence |-> c]
  <2>1. CASE m.derivation = {}
    <3>1. d = {}
      BY <2>1
    <3> HIDE DEF d
    <3>2. QED
      BY <2>1, <3>1 DEF BuiltOf, Observed
  <2>2. CASE m.derivation # {}
    <3> DEFINE x == The(m.derivation)
    <3>1. m.derivation = {x}
      BY <1>4, <2>2, OptionalIs
    <3> HIDE DEF x
    <3>2. d = {x.content_hash}
      BY <3>1
    <3> HIDE DEF d
    <3>3. BuiltOf(m, s, t, i, c) = DerivedFrom(s, t, i, x.content_hash, c)
      BY <2>2 DEF BuiltOf, x
    <3>4. DerivedFrom(s, t, i, x.content_hash, c)
            = [source |-> s, collectedAt |-> t, publishedAt |-> Unset, interpreter |-> i,
               derivation |-> {x.content_hash}, confidence |-> c]
      BY DEF DerivedFrom, Observed
    <3>5. QED
      BY <3>2, <3>3, <3>4
  <2>3. QED
    BY <2>1, <2>2
<1>6. {EncodeDerivation(ref) : ref \in d} = m.derivation
  <2>1. \A x \in m.derivation : EncodeDerivation(x.content_hash) = x
    <3>1. ASSUME NEW x \in m.derivation PROVE EncodeDerivation(x.content_hash) = x
      <4>1. x \in [content_hash : Text]
        BY <1>4 DEF Optional
      <4>2. QED
        BY <4>1 DEF EncodeDerivation
    <3>2. QED
      BY <3>1
  <2>2. QED
    BY <2>1
<1>7. EncodeInstant(at) = rest
  <2>1. CASE rest = {}
    BY <2>1 DEF EncodeInstant
  <2>2. CASE rest # {}
    <3>1. at \in rest
      BY <2>2 DEF The
    <3>2. at \in m.published_at /\ at # Unset
      BY <3>1
    <3>3. m.published_at = {at}
      BY <1>4, <3>2 DEF Optional
    <3>4. QED
      BY <3>2, <3>3 DEF EncodeInstant
  <2>3. QED
    BY <2>1, <2>2
<1> DEFINE Q(u) == [source |-> s, collectedAt |-> t, publishedAt |-> u, interpreter |-> i,
                    derivation |-> d, confidence |-> c]
<1>8. p = Q(at)
  <2>1. p = DatedOf(Q(Unset), rest)
    BY <1>2, <1>5
  <2>2. WithPublishedAt(Q(Unset), The(rest)) = Q(The(rest))
    <3> HIDE DEF rest, d
    <3>1. QED
      BY DEF WithPublishedAt
  <2>3. CASE rest = {}
    <3>1. at = Unset
      BY <2>3
    <3> HIDE DEF rest, d, at, Q
    <3>2. QED
      BY <2>1, <2>3, <3>1 DEF DatedOf
  <2>4. CASE rest # {}
    <3>1. at = The(rest)
      BY <2>4
    <3> HIDE DEF rest, d, at, Q
    <3>2. QED
      BY <2>1, <2>2, <2>4, <3>1 DEF DatedOf
  <2>5. QED
    BY <2>3, <2>4
<1> HIDE DEF rest, at, d
<1>9. /\ p.source = s /\ p.collectedAt = t /\ p.publishedAt = at /\ p.interpreter = i
      /\ p.derivation = d /\ p.confidence = c
  BY <1>8
<1>10. /\ m.source = {EncodeSource(s)} /\ m.interpreter = {EncodeInterpreter(i)}
       /\ m.confidence = EncodeConfidence(c) /\ m.collected_at = EncodeInstant(t)
  BY <1>4, PartsBack, InstantBack
<1>11. EncodeProvenance(p)
         = [source |-> m.source, collected_at |-> m.collected_at, published_at |-> rest,
            interpreter |-> m.interpreter, confidence |-> m.confidence,
            derivation |-> m.derivation]
  BY <1>6, <1>7, <1>9, <1>10, Zenon DEF EncodeProvenance
<1>12. Shown(m)
         = [source |-> m.source, collected_at |-> m.collected_at, published_at |-> rest,
            interpreter |-> m.interpreter, confidence |-> m.confidence,
            derivation |-> m.derivation]
  <2>1. Shown(m) = [m EXCEPT !.published_at = rest]
    BY DEF Shown, rest
  <2>2. QED
    BY <1>3, <2>1 DEF ProvenanceMessages
<1>13. EncodeProvenance(p) = Shown(m)
  BY <1>11, <1>12
<1>14. QED
  BY <1>3, <1>13

\* An envelope whose provenance is shown so.
Seen(e) == [e EXCEPT !.provenance = {Shown(p) : p \in @}]

\* An envelope that is accepted is the one that was sent, with its reference.
LEMMA EnvelopeBack ==
  ASSUME NEW w \in Optional(EnvelopeMessages), NEW x \in DecodeEnvelope(w)
  PROVE  {EncodeEnvelope(x.envelope, x.ref)} = {Seen(e) : e \in w}
<1>1. PICK m \in w :
        x \in [envelope : [coordinates : DecodeCoordinates(m.temporal),
                           provenance : DecodeProvenance(m.provenance),
                           references : DecodeReferences(m.references)],
               ref : DecodeRef(m.ref)]
  BY DEF DecodeEnvelope
<1>2. w = {m} /\ m \in EnvelopeMessages
  BY OnlyOne, Zenon
<1> DEFINE e == x.envelope
<1>3. e \in [coordinates : DecodeCoordinates(m.temporal),
             provenance : DecodeProvenance(m.provenance),
             references : DecodeReferences(m.references)] /\ x.ref \in DecodeRef(m.ref)
  BY <1>1
<1> HIDE DEF e
<1>4. /\ e.coordinates \in DecodeCoordinates(m.temporal)
      /\ e.provenance \in DecodeProvenance(m.provenance)
      /\ e.references \in DecodeReferences(m.references)
  BY <1>3
<1>5. /\ m.temporal \in Optional(CoordinatesMessages)
      /\ m.provenance \in Optional(ProvenanceMessages)
      /\ m.references \in Seq(Bindings) /\ m.ref \in Optional(RefMessages)
  BY <1>2 DEF EnvelopeMessages
<1>6. m.temporal = {EncodeCoordinates(e.coordinates)} /\ m.ref = {EncodeRef(x.ref)}
  BY <1>3, <1>4, <1>5, CoordinatesBack, PartsBack, Zenon
<1>7. {EncodeProvenance(e.provenance)} = {Shown(p) : p \in m.provenance}
  BY <1>4, <1>5, ProvenanceBack, Zenon
<1>8. m.references = Each(e.references, EncodeReferenceBinding)
  BY <1>4, <1>5, ReferencesBack, Zenon
<1> DEFINE ps == {Shown(p) : p \in m.provenance}
<1>9. EncodeEnvelope(e, x.ref)
        = [temporal |-> m.temporal, provenance |-> ps, references |-> m.references, ref |-> m.ref]
  BY <1>6, <1>7, <1>8, Zenon DEF EncodeEnvelope
<1>10. Seen(m) = [m EXCEPT !.provenance = ps]
  BY DEF Seen
<1> HIDE DEF ps
<1>11. [m EXCEPT !.provenance = ps]
        = [temporal |-> m.temporal, provenance |-> ps, references |-> m.references, ref |-> m.ref]
  BY <1>2 DEF EnvelopeMessages
<1>12. EncodeEnvelope(e, x.ref) = Seen(m)
  BY <1>9, <1>10, <1>11
<1>13. QED
  BY <1>2, <1>12 DEF e

\* A payload that is accepted is the one that was sent, under the type it has.
LEMMA PayloadBack ==
  ASSUME NEW w, w \in Optional(w), \A m \in w : IsPayloadMessage(m), NEW p \in DecodePayload(w)
  PROVE  w = {EncodePayload(p)}
<1> DEFINE D(m) ==
      CASE m.any = "payload.HoldingObserved" ->
                [type : {"HoldingObserved"}, account : DecodeEntityID(m.account),
                 instrument : DecodeEntityID(m.instrument), quantity : DecodeQuantity(m.quantity)]
           [] m.any = "payload.HoldingClaimed" ->
                [type : {"HoldingClaimed"}, account : DecodeClaim(m.account),
                 instrument : DecodeClaim(m.instrument), quantity : DecodeQuantity(m.quantity)]
           [] m.any = "payload.EntityMinted" ->
                [type : {"EntityMinted"}, entity : DecodeEntityID(m.entity),
                 bornFrom : DecodeClaim(m.born_from)]
           [] m.any = "ledger.Correction" ->
                [type : {"FactCorrected"}, corrects : DecodeRef(m.corrects),
                 kind : DecodeCorrectionKind(m.kind), reason : {m.reason}]
           [] OTHER -> {}
<1>1. DecodePayload(w) = UNION {D(m) : m \in w}
  BY DEF DecodePayload
<1>2. PICK m \in w : p \in D(m)
  <2> HIDE DEF D
  <2>1. QED
    BY <1>1
<1>3. w = {m} /\ IsPayloadMessage(m)
  BY OnlyOne, Zenon
<1>4. CASE m.any = "payload.HoldingObserved"
  <2>1. /\ p.type = "HoldingObserved" /\ p.account \in DecodeEntityID(m.account)
        /\ p.instrument \in DecodeEntityID(m.instrument)
        /\ p.quantity \in DecodeQuantity(m.quantity)
    <3>1. D(m) = [type : {"HoldingObserved"}, account : DecodeEntityID(m.account),
                  instrument : DecodeEntityID(m.instrument), quantity : DecodeQuantity(m.quantity)]
      BY <1>4
    <3> HIDE DEF D
    <3>2. QED
      BY <1>2, <3>1
  <2> HIDE DEF D
  <2>2. m \in [any : {"payload.HoldingObserved"}, account : Optional(EntityMessages),
               instrument : Optional(EntityMessages), quantity : Optional(QuantityMessages)]
    BY <1>3, <1>4 DEF IsPayloadMessage
  <2>3. /\ m.account \in Optional(EntityMessages) /\ m.instrument \in Optional(EntityMessages)
        /\ m.quantity \in Optional(QuantityMessages)
        /\ m = [any |-> m.any, account |-> m.account, instrument |-> m.instrument,
                quantity |-> m.quantity]
    BY <2>2
  <2>4. /\ m.account = {EncodeEntityID(p.account)} /\ m.instrument = {EncodeEntityID(p.instrument)}
        /\ m.quantity = {EncodeQuantity(p.quantity)}
    BY <2>1, <2>3, EntityIDBack, QuantityBack, Zenon
  <2>5. EncodePayload(p)
          = [any |-> "payload.HoldingObserved", account |-> {EncodeEntityID(p.account)},
             instrument |-> {EncodeEntityID(p.instrument)}, quantity |-> {EncodeQuantity(p.quantity)}]
    BY <2>1 DEF EncodePayload
  <2>6. m = EncodePayload(p)
    BY <1>4, <2>3, <2>4, <2>5, Zenon
  <2>7. QED
    BY <1>3, <2>6
<1>5. CASE m.any = "payload.HoldingClaimed"
  <2>1. /\ p.type = "HoldingClaimed" /\ p.account \in DecodeClaim(m.account)
        /\ p.instrument \in DecodeClaim(m.instrument)
        /\ p.quantity \in DecodeQuantity(m.quantity)
    <3>1. D(m) = [type : {"HoldingClaimed"}, account : DecodeClaim(m.account),
                  instrument : DecodeClaim(m.instrument), quantity : DecodeQuantity(m.quantity)]
      BY <1>5
    <3> HIDE DEF D
    <3>2. QED
      BY <1>2, <3>1
  <2> HIDE DEF D
  <2>2. m \in [any : {"payload.HoldingClaimed"}, account : Optional(ClaimMessages),
               instrument : Optional(ClaimMessages), quantity : Optional(QuantityMessages)]
    BY <1>3, <1>5 DEF IsPayloadMessage
  <2>3. /\ m.account \in Optional(ClaimMessages) /\ m.instrument \in Optional(ClaimMessages)
        /\ m.quantity \in Optional(QuantityMessages)
        /\ m = [any |-> m.any, account |-> m.account, instrument |-> m.instrument,
                quantity |-> m.quantity]
    BY <2>2
  <2>4. /\ m.account = {EncodeClaim(p.account)} /\ m.instrument = {EncodeClaim(p.instrument)}
        /\ m.quantity = {EncodeQuantity(p.quantity)}
    BY <2>1, <2>3, ClaimBack, QuantityBack, Zenon
  <2>5. EncodePayload(p)
          = [any |-> "payload.HoldingClaimed", account |-> {EncodeClaim(p.account)},
             instrument |-> {EncodeClaim(p.instrument)}, quantity |-> {EncodeQuantity(p.quantity)}]
    BY <2>1 DEF EncodePayload
  <2>6. m = EncodePayload(p)
    BY <1>5, <2>3, <2>4, <2>5, Zenon
  <2>7. QED
    BY <1>3, <2>6
<1>6. CASE m.any = "payload.EntityMinted"
  <2>1. /\ p.type = "EntityMinted" /\ p.entity \in DecodeEntityID(m.entity)
        /\ p.bornFrom \in DecodeClaim(m.born_from)
    <3>1. D(m) = [type : {"EntityMinted"}, entity : DecodeEntityID(m.entity),
                  bornFrom : DecodeClaim(m.born_from)]
      BY <1>6
    <3> HIDE DEF D
    <3>2. QED
      BY <1>2, <3>1
  <2> HIDE DEF D
  <2>2. m \in [any : {"payload.EntityMinted"}, entity : Optional(EntityMessages),
               born_from : Optional(ClaimMessages)]
    BY <1>3, <1>6 DEF IsPayloadMessage
  <2>3. /\ m.entity \in Optional(EntityMessages) /\ m.born_from \in Optional(ClaimMessages)
        /\ m = [any |-> m.any, entity |-> m.entity, born_from |-> m.born_from]
    BY <2>2
  <2>4. m.entity = {EncodeEntityID(p.entity)} /\ m.born_from = {EncodeClaim(p.bornFrom)}
    BY <2>1, <2>3, EntityIDBack, ClaimBack, Zenon
  <2>5. EncodePayload(p)
          = [any |-> "payload.EntityMinted", entity |-> {EncodeEntityID(p.entity)},
             born_from |-> {EncodeClaim(p.bornFrom)}]
    BY <2>1 DEF EncodePayload
  <2>6. m = EncodePayload(p)
    BY <1>6, <2>3, <2>4, <2>5, Zenon
  <2>7. QED
    BY <1>3, <2>6
<1>7. CASE m.any = "ledger.Correction"
  <2>1. /\ p.type = "FactCorrected" /\ p.corrects \in DecodeRef(m.corrects)
        /\ p.kind \in DecodeCorrectionKind(m.kind) /\ p.reason = m.reason
    <3>1. D(m) = [type : {"FactCorrected"}, corrects : DecodeRef(m.corrects),
                  kind : DecodeCorrectionKind(m.kind), reason : {m.reason}]
      BY <1>7
    <3> HIDE DEF D
    <3>2. QED
      BY <1>2, <3>1
  <2> HIDE DEF D
  <2>2. m \in [any : {"ledger.Correction"}, corrects : Optional(RefMessages),
               kind : Int, reason : Text]
    BY <1>3, <1>7 DEF IsPayloadMessage
  <2>3. /\ m.corrects \in Optional(RefMessages)
        /\ m = [any |-> m.any, corrects |-> m.corrects, kind |-> m.kind, reason |-> m.reason]
    BY <2>2
  <2>4. m.corrects = {EncodeRef(p.corrects)} /\ m.kind = EncodeCorrectionKind(p.kind)
    BY <2>1, <2>3, PartsBack, NumbersBack, Zenon
  <2>5. EncodePayload(p)
          = [any |-> "ledger.Correction", corrects |-> {EncodeRef(p.corrects)},
             kind |-> EncodeCorrectionKind(p.kind), reason |-> p.reason]
    BY <2>1 DEF EncodePayload
  <2>6. m = EncodePayload(p)
    BY <1>7, <2>1, <2>3, <2>4, <2>5, Zenon
  <2>7. QED
    BY <1>3, <2>6
<1>8. QED
  BY <1>2, <1>4, <1>5, <1>6, <1>7

\* A fact that is accepted is the one that was sent, under the kind and the type it
\* announced.
LEMMA FactBack ==
  ASSUME NEW m, IsFactMessage(m), NEW f \in DecodeFact({m})
  PROVE  EncodeFact(f) = Legible("fact", m)
<1> DEFINE D(n) == {[ref |-> e.ref, envelope |-> e.envelope, kind |-> kind, payload |-> p] :
                      e \in DecodeEnvelope(n.envelope), kind \in DecodeFactKind(n.kind),
                      p \in {q \in DecodePayload(n.payload) :
                               q.type = n.type /\ n.type_version = TypeVersion}}
<1>1. f \in D(m)
  <2>1. DecodeFact({m}) = UNION {D(n) : n \in {m}}
    BY DEF DecodeFact
  <2> HIDE DEF D
  <2>2. QED
    BY <2>1
<1>2. PICK e \in DecodeEnvelope(m.envelope), kind \in DecodeFactKind(m.kind),
           p \in DecodePayload(m.payload) :
        /\ p.type = m.type /\ m.type_version = TypeVersion
        /\ f = [ref |-> e.ref, envelope |-> e.envelope, kind |-> kind, payload |-> p]
  BY <1>1
<1> HIDE DEF D
<1>3. f.ref = e.ref /\ f.envelope = e.envelope /\ f.kind = kind /\ f.payload = p
  BY <1>2
<1>4. /\ m = [envelope |-> m.envelope, kind |-> m.kind, type |-> m.type,
              type_version |-> m.type_version, payload |-> m.payload]
      /\ m.envelope \in Optional(EnvelopeMessages)
      /\ m.payload \in Optional(m.payload) /\ \A q \in m.payload : IsPayloadMessage(q)
  BY DEF IsFactMessage
<1> DEFINE es == {Seen(x) : x \in m.envelope}
<1>5. {EncodeEnvelope(e.envelope, e.ref)} = es
  BY <1>4, EnvelopeBack, Zenon
<1>6. m.payload = {EncodePayload(p)}
  <2>1. m.payload \in Optional(m.payload) /\ \A q \in m.payload : IsPayloadMessage(q)
    BY <1>4
  <2>2. QED
    BY <2>1, PayloadBack, Zenon
<1>7. m.kind = EncodeFactKind(kind)
  BY NumbersBack, Zenon
<1>8. EncodeFact(f) = [envelope |-> es, kind |-> m.kind, type |-> m.type,
                       type_version |-> m.type_version, payload |-> m.payload]
  BY <1>2, <1>3, <1>5, <1>6, <1>7, Zenon DEF EncodeFact
<1>9. Legible("fact", m) = [m EXCEPT !.envelope = es]
  BY DEF Legible, Seen, Shown
<1> HIDE DEF es
<1>10. [m EXCEPT !.envelope = es]
         = [envelope |-> es, kind |-> m.kind, type |-> m.type,
            type_version |-> m.type_version, payload |-> m.payload]
  <2> DEFINE a == m.envelope
             b == m.kind
             c == m.type
             d == m.type_version
             g == m.payload
  <2>1. m = [envelope |-> a, kind |-> b, type |-> c, type_version |-> d, payload |-> g]
    BY <1>4
  <2> HIDE DEF a, b, c, d, g
  <2>2. [m EXCEPT !.envelope = es]
          = [envelope |-> es, kind |-> b, type |-> c, type_version |-> d, payload |-> g]
    BY <2>1
  <2>3. QED
    BY <2>2 DEF b, c, d, g
<1>11. QED
  BY <1>8, <1>9, <1>10

\* A submission that is accepted is the one that was sent.
LEMMA SubmissionBack ==
  ASSUME NEW m \in SubmissionMessages, NEW cmd \in DecodeHoldingClaimSubmission({m})
  PROVE  EncodeHoldingClaimSubmission(cmd) = m
<1> DEFINE D(n) == [stream : {n.stream}, account : DecodeClaim(n.account),
                    instrument : DecodeClaim(n.instrument), quantity : DecodeQuantity(n.quantity),
                    effective : DecodeInterval(n.effective), source : DecodeSource(n.source),
                    collectedAt : DecodeInstant(n.collected_at),
                    interpreter : DecodeInterpreter(n.interpreter),
                    confidence : DecodeConfidence(n.confidence),
                    references : DecodeReferences(n.references)]
<1>1. cmd \in D(m)
  <2>1. DecodeHoldingClaimSubmission({m}) = UNION {D(n) : n \in {m}}
    BY DEF DecodeHoldingClaimSubmission
  <2> HIDE DEF D
  <2>2. QED
    BY <2>1
<1>2. /\ cmd.stream = m.stream /\ cmd.account \in DecodeClaim(m.account)
      /\ cmd.instrument \in DecodeClaim(m.instrument)
      /\ cmd.quantity \in DecodeQuantity(m.quantity)
      /\ cmd.effective \in DecodeInterval(m.effective)
      /\ cmd.source \in DecodeSource(m.source)
      /\ cmd.collectedAt \in DecodeInstant(m.collected_at)
      /\ cmd.interpreter \in DecodeInterpreter(m.interpreter)
      /\ cmd.confidence \in DecodeConfidence(m.confidence)
      /\ cmd.references \in DecodeReferences(m.references)
  BY <1>1
<1> HIDE DEF D
<1>3. /\ m.account \in Optional(ClaimMessages) /\ m.instrument \in Optional(ClaimMessages)
      /\ m.quantity \in Optional(QuantityMessages) /\ m.effective \in Optional(IntervalMessages)
      /\ m.source \in Optional(SourceMessages) /\ m.collected_at \in Optional(Nat)
      /\ m.interpreter \in Optional(InterpreterMessages) /\ m.references \in Seq(Bindings)
  BY DEF SubmissionMessages
<1>4. /\ m.account = {EncodeClaim(cmd.account)} /\ m.instrument = {EncodeClaim(cmd.instrument)}
      /\ m.quantity = {EncodeQuantity(cmd.quantity)}
      /\ m.effective = {EncodeInterval(cmd.effective)}
  BY <1>2, <1>3, ClaimBack, QuantityBack, IntervalBack, Zenon
<1>5. /\ m.source = {EncodeSource(cmd.source)}
      /\ m.interpreter = {EncodeInterpreter(cmd.interpreter)}
      /\ m.confidence = EncodeConfidence(cmd.confidence)
      /\ m.collected_at = EncodeInstant(cmd.collectedAt)
  BY <1>2, <1>3, PartsBack, InstantBack, Zenon
<1>6. m.references = Each(cmd.references, EncodeReferenceBinding)
  BY <1>2, <1>3, ReferencesBack, Zenon
<1>7. EncodeHoldingClaimSubmission(cmd)
        = [stream |-> m.stream, account |-> m.account, instrument |-> m.instrument,
           quantity |-> m.quantity, effective |-> m.effective, source |-> m.source,
           collected_at |-> m.collected_at, interpreter |-> m.interpreter,
           confidence |-> m.confidence, references |-> m.references]
  BY <1>2, <1>4, <1>5, <1>6, Zenon DEF EncodeHoldingClaimSubmission
<1>8. QED
  BY <1>7 DEF SubmissionMessages

\* Whatever is accepted is what was sent.
LEMMA DecodedBack ==
  ASSUME NEW o \in Outgoing, NEW m, IsMessage(o.sort, m), NEW v \in Decode(o.sort, {m})
  PROVE  Encode(o.sort, v) = Legible(o.sort, m)
<1>1. o.sort \in {"fact", "submission", "context", "money"}
  BY OutgoingAssumption
<1>2. CASE o.sort = "fact"
  <2>1. IsFactMessage(m) /\ v \in DecodeFact({m})
    BY <1>2 DEF IsMessage, Decode
  <2>2. EncodeFact(v) = Legible("fact", m)
    BY <2>1, FactBack, Zenon
  <2>3. QED
    BY <1>2, <2>2 DEF Encode
<1>3. ASSUME o.sort # "fact" PROVE Legible(o.sort, m) = m
  BY <1>3, Zenon DEF Legible
<1>4. CASE o.sort = "submission"
  <2>1. m \in SubmissionMessages /\ v \in DecodeHoldingClaimSubmission({m})
    BY <1>4 DEF IsMessage, Decode
  <2>2. EncodeHoldingClaimSubmission(v) = m
    BY <2>1, SubmissionBack, Zenon
  <2>3. QED
    BY <1>3, <1>4, <2>2 DEF Encode
<1>5. CASE o.sort = "context"
  <2>1. {m} \in Optional(ContextMessages) /\ v \in DecodeRoundingContext({m})
    BY <1>5, IsOptional DEF IsMessage, Decode
  <2>2. {m} = {EncodeRoundingContext(v)}
    BY <2>1, ContextBack, Zenon
  <2>3. QED
    BY <1>3, <1>5, <2>2 DEF Encode
<1>6. CASE o.sort = "money"
  <2>1. {m} \in Optional(MoneyMessages) /\ v \in DecodeMoney({m})
    BY <1>6, IsOptional DEF IsMessage, Decode
  <2>2. {m} = {EncodeMoney(v)}
    BY <2>1, MoneyBack, Zenon
  <2>3. QED
    BY <1>3, <1>6, <2>2 DEF Encode
<1>7. QED
  BY <1>1, <1>2, <1>4, <1>5, <1>6

-----------------------------------------------------------------------------
(* What encoding writes keeps the contracts *)

\* A claim is written as its contract says.
LEMMA EncodedClaim ==
  ASSUME NEW c \in Claims PROVE {EncodeClaim(c)} \in Optional(ClaimMessages)
<1>1. EncodeClaim(c) \in ClaimMessages
  BY DEF Claims, EncodeClaim, ClaimMessages
<1>2. QED
  BY <1>1, IsOptional, Zenon

\* Whatever is written in an enum is a number.
LEMMA EncodedNumbers ==
  /\ \A k : EncodeEntityKind(k) \in Int
  /\ \A k : EncodeRoundingMode(k) \in Int
  /\ \A k : EncodeCorrectionKind(k) \in Int
  /\ \A c : EncodeConfidence(c) \in Int
<1>1. ASSUME NEW k PROVE EncodeEntityKind(k) \in Int
  BY DEF EncodeEntityKind, Numbered
<1>2. ASSUME NEW k PROVE EncodeRoundingMode(k) \in Int
  BY DEF EncodeRoundingMode, Numbered
<1>3. ASSUME NEW k PROVE EncodeCorrectionKind(k) \in Int
  BY DEF EncodeCorrectionKind, Numbered
<1>4. ASSUME NEW c PROVE EncodeConfidence(c) \in Int
  BY DEF EncodeConfidence, Levels
<1>5. QED
  BY <1>1, <1>2, <1>3, <1>4

\* An identifier is written as its contract says.
LEMMA EncodedEntityID ==
  ASSUME NEW id \in EntityIDs PROVE {EncodeEntityID(id)} \in Optional(EntityMessages)
<1>1. id.value \in [uuid : Text]
  BY DEF EntityIDs
<1>2. EncodeEntityID(id) \in EntityMessages
  BY <1>1, EncodedNumbers DEF EncodeEntityID, EntityMessages
<1>3. QED
  BY <1>2, IsOptional, Zenon

\* Money is written as its contract says.
LEMMA EncodedMoney == ASSUME NEW m \in Monies PROVE EncodeMoney(m) \in MoneyMessages
<1>1. m.amount \in Decimals /\ m.currency \in Text
  BY DEF Monies
<1>2. {TextOf(m.amount)} \in Optional(Spellings)
  <2>1. TextOf(m.amount) \in Spellings
    BY <1>1 DEF Spellings
  <2>2. QED
    BY <2>1, IsOptional, Zenon
<1>3. QED
  BY <1>1, <1>2 DEF EncodeMoney, MoneyMessages

\* A quantity is written as its contract says.
LEMMA EncodedQuantity ==
  ASSUME NEW q \in Quantities PROVE {EncodeQuantity(q)} \in Optional(QuantityMessages)
<1>1. q.amount \in Decimals /\ q.unit \in Text
  BY DEF Quantities
<1>2. {TextOf(q.amount)} \in Optional(Spellings)
  <2>1. TextOf(q.amount) \in Spellings
    BY <1>1 DEF Spellings
  <2>2. QED
    BY <2>1, IsOptional, Zenon
<1>3. EncodeQuantity(q) \in QuantityMessages
  BY <1>1, <1>2 DEF EncodeQuantity, QuantityMessages
<1>4. QED
  BY <1>3, IsOptional, Zenon

\* A rounding context is written as its contract says.
LEMMA EncodedContext ==
  ASSUME NEW rc \in RoundingContexts PROVE EncodeRoundingContext(rc) \in ContextMessages
<1>1. rc.precision \in Int /\ rc.scale \in Optional(Int)
  BY DEF RoundingContexts
<1>2. QED
  BY <1>1, EncodedNumbers DEF EncodeRoundingContext, ContextMessages

\* An instant is written as a timestamp, or left out.
LEMMA EncodedInstant == ASSUME NEW t \in Nat PROVE EncodeInstant(t) \in Optional(Nat)
BY DEF EncodeInstant, Optional

\* An interval is written as its contract says.
LEMMA EncodedInterval ==
  ASSUME NEW iv \in NewInterval PROVE {EncodeInterval(iv)} \in Optional(IntervalMessages)
<1>1. iv.from \in Nat /\ iv.to \in Nat
  BY DEF NewInterval, Instant
<1>2. EncodeInterval(iv) \in IntervalMessages
  BY <1>1, EncodedInstant DEF EncodeInterval, IntervalMessages
<1>3. QED
  BY <1>2, IsOptional, Zenon

\* A source, an interpreter and a reference are written as their contracts say.
LEMMA EncodedParts ==
  /\ \A s \in Sources : {EncodeSource(s)} \in Optional(SourceMessages)
  /\ \A i \in Interpreters : {EncodeInterpreter(i)} \in Optional(InterpreterMessages)
  /\ \A r \in Refs : {EncodeRef(r)} \in Optional(RefMessages)
<1>1. ASSUME NEW s \in Sources PROVE {EncodeSource(s)} \in Optional(SourceMessages)
  <2>1. EncodeSource(s) \in SourceMessages
    BY DEF Sources, EncodeSource, SourceMessages
  <2>2. QED
    BY <2>1, IsOptional, Zenon
<1>2. ASSUME NEW i \in Interpreters
      PROVE  {EncodeInterpreter(i)} \in Optional(InterpreterMessages)
  <2>1. EncodeInterpreter(i) \in InterpreterMessages
    BY DEF Interpreters, EncodeInterpreter, InterpreterMessages
  <2>2. QED
    BY <2>1, IsOptional, Zenon
<1>3. ASSUME NEW r \in Refs PROVE {EncodeRef(r)} \in Optional(RefMessages)
  <2>1. EncodeRef(r) \in RefMessages
    BY DEF Refs, EncodeRef, RefMessages
  <2>2. QED
    BY <2>1, IsOptional, Zenon
<1>4. QED
  BY <1>1, <1>2, <1>3

\* A list of bindings is written as its contract says.
LEMMA EncodedReferences ==
  ASSUME NEW list \in References PROVE Each(list, EncodeReferenceBinding) \in Seq(Bindings)
<1>1. list \in Seq(Bindings)
  BY DEF References, Bindings
<1> DEFINE e == Each(list, EncodeReferenceBinding)
<1>2. e = [i \in DOMAIN list |-> EncodeReferenceBinding(list[i])]
  BY Zenon DEF Each
<1> HIDE DEF e
<1>3. ASSUME NEW i \in DOMAIN list PROVE EncodeReferenceBinding(list[i]) \in Bindings
  <2>1. list[i] \in Bindings
    BY <1>1
  <2>2. QED
    BY <2>1 DEF EncodeReferenceBinding, Bindings
<1>4. DOMAIN list = 1..Len(list) /\ Len(list) \in Nat
  BY <1>1
<1>5. e \in Seq(Bindings)
  BY <1>2, <1>3, <1>4
<1>6. QED
  BY <1>5 DEF e

\* A provenance is written as its contract says.
LEMMA EncodedProvenance ==
  ASSUME NEW p \in Provenances PROVE {EncodeProvenance(p)} \in Optional(ProvenanceMessages)
<1>1. /\ p.source \in Sources /\ p.interpreter \in Interpreters
      /\ p.collectedAt \in Nat /\ p.publishedAt \in Nat
      /\ p.derivation \in Optional({ref \in Text : IsRef(ref)})
  BY DEF Provenances, Instant
<1>2. {EncodeDerivation(ref) : ref \in p.derivation} \in Optional([content_hash : Text])
  <2>1. p.derivation \in SUBSET Text /\ \A x, y \in p.derivation : x = y
    BY <1>1 DEF Optional
  <2>2. \A ref \in Text : EncodeDerivation(ref) \in [content_hash : Text]
    BY DEF EncodeDerivation
  <2>3. QED
    BY <2>1, <2>2 DEF Optional
<1>3. EncodeProvenance(p) \in ProvenanceMessages
  BY <1>1, <1>2, EncodedParts, EncodedInstant, EncodedNumbers DEF EncodeProvenance, ProvenanceMessages
<1>4. QED
  BY <1>3, IsOptional, Zenon

\* An envelope is written as its contract says.
LEMMA EncodedEnvelope ==
  ASSUME NEW e \in [coordinates : [effective : NewInterval, knowledge : Instant],
                    provenance : Provenances, references : References],
         NEW ref \in Refs
  PROVE  {EncodeEnvelope(e, ref)} \in Optional(EnvelopeMessages)
<1>1. /\ e.coordinates.effective \in NewInterval /\ e.coordinates.knowledge \in Nat
      /\ e.provenance \in Provenances /\ e.references \in References
  BY DEF Instant
<1>2. {EncodeCoordinates(e.coordinates)} \in Optional(CoordinatesMessages)
  <2>1. EncodeCoordinates(e.coordinates) \in CoordinatesMessages
    BY <1>1, EncodedInterval, EncodedInstant DEF EncodeCoordinates, CoordinatesMessages
  <2>2. QED
    BY <2>1, IsOptional, Zenon
<1> DEFINE list == Each(e.references, EncodeReferenceBinding)
<1>3. list \in Seq(Bindings)
  BY <1>1, EncodedReferences, Zenon
<1>4. {EncodeProvenance(e.provenance)} \in Optional(ProvenanceMessages)
  BY <1>1, EncodedProvenance
<1>5. EncodeEnvelope(e, ref)
        = [temporal |-> {EncodeCoordinates(e.coordinates)},
           provenance |-> {EncodeProvenance(e.provenance)}, references |-> list,
           ref |-> {EncodeRef(ref)}]
  BY Zenon DEF EncodeEnvelope
<1> HIDE DEF list
<1>6. EncodeEnvelope(e, ref) \in EnvelopeMessages
  BY <1>2, <1>3, <1>4, <1>5, EncodedParts DEF EnvelopeMessages
<1>7. QED
  BY <1>6, IsOptional, Zenon

\* A payload is written with the fields of the type its Any names.
LEMMA EncodedPayload == ASSUME NEW p \in Payloads PROVE IsPayloadMessage(EncodePayload(p))
<1> DEFINE w == EncodePayload(p)
<1>1. CASE p \in [type : {"HoldingObserved"}, account : EntityIDs, instrument : EntityIDs,
                  quantity : Quantities]
  <2>1. w = [any |-> "payload.HoldingObserved", account |-> {EncodeEntityID(p.account)},
             instrument |-> {EncodeEntityID(p.instrument)}, quantity |-> {EncodeQuantity(p.quantity)}]
    BY <1>1 DEF EncodePayload
  <2>2. /\ {EncodeEntityID(p.account)} \in Optional(EntityMessages)
        /\ {EncodeEntityID(p.instrument)} \in Optional(EntityMessages)
        /\ {EncodeQuantity(p.quantity)} \in Optional(QuantityMessages)
    BY <1>1, EncodedEntityID, EncodedQuantity
  <2> HIDE DEF w
  <2>3. w.any = "payload.HoldingObserved"
    BY <2>1
  <2>4. w \in [any : {"payload.HoldingObserved"}, account : Optional(EntityMessages),
               instrument : Optional(EntityMessages), quantity : Optional(QuantityMessages)]
    BY <2>1, <2>2
  <2>5. IsPayloadMessage(w)
    BY <2>3, <2>4 DEF IsPayloadMessage
  <2>6. QED
    BY <2>5 DEF w
<1>2. CASE p \in [type : {"HoldingClaimed"}, account : Claims, instrument : Claims,
                  quantity : Quantities]
  <2>1. w = [any |-> "payload.HoldingClaimed", account |-> {EncodeClaim(p.account)},
             instrument |-> {EncodeClaim(p.instrument)}, quantity |-> {EncodeQuantity(p.quantity)}]
    BY <1>2 DEF EncodePayload
  <2>2. /\ {EncodeClaim(p.account)} \in Optional(ClaimMessages)
        /\ {EncodeClaim(p.instrument)} \in Optional(ClaimMessages)
        /\ {EncodeQuantity(p.quantity)} \in Optional(QuantityMessages)
    BY <1>2, EncodedClaim, EncodedQuantity
  <2> HIDE DEF w
  <2>3. w.any = "payload.HoldingClaimed"
    BY <2>1
  <2>4. w \in [any : {"payload.HoldingClaimed"}, account : Optional(ClaimMessages),
               instrument : Optional(ClaimMessages), quantity : Optional(QuantityMessages)]
    BY <2>1, <2>2
  <2>5. IsPayloadMessage(w)
    BY <2>3, <2>4 DEF IsPayloadMessage
  <2>6. QED
    BY <2>5 DEF w
<1>3. CASE p \in [type : {"EntityMinted"}, entity : EntityIDs, bornFrom : Claims]
  <2>1. w = [any |-> "payload.EntityMinted", entity |-> {EncodeEntityID(p.entity)},
             born_from |-> {EncodeClaim(p.bornFrom)}]
    BY <1>3 DEF EncodePayload
  <2>2. /\ {EncodeEntityID(p.entity)} \in Optional(EntityMessages)
        /\ {EncodeClaim(p.bornFrom)} \in Optional(ClaimMessages)
    BY <1>3, EncodedEntityID, EncodedClaim
  <2> HIDE DEF w
  <2>3. w.any = "payload.EntityMinted"
    BY <2>1
  <2>4. w \in [any : {"payload.EntityMinted"}, entity : Optional(EntityMessages),
               born_from : Optional(ClaimMessages)]
    BY <2>1, <2>2
  <2>5. IsPayloadMessage(w)
    BY <2>3, <2>4 DEF IsPayloadMessage
  <2>6. QED
    BY <2>5 DEF w
<1>4. CASE p \in [type : {"FactCorrected"}, corrects : Refs,
                  kind : {"corrected", "retracted", "superseded"}, reason : Text]
  <2>1. w = [any |-> "ledger.Correction", corrects |-> {EncodeRef(p.corrects)},
             kind |-> EncodeCorrectionKind(p.kind), reason |-> p.reason]
    BY <1>4 DEF EncodePayload
  <2>2. /\ {EncodeRef(p.corrects)} \in Optional(RefMessages) /\ p.reason \in Text
        /\ EncodeCorrectionKind(p.kind) \in Int
    BY <1>4, EncodedParts, EncodedNumbers
  <2> HIDE DEF w
  <2>3. w.any = "ledger.Correction"
    BY <2>1
  <2>4. w \in [any : {"ledger.Correction"}, corrects : Optional(RefMessages),
               kind : Int, reason : Text]
    BY <2>1, <2>2
  <2>5. IsPayloadMessage(w)
    BY <2>3, <2>4 DEF IsPayloadMessage
  <2>6. QED
    BY <2>5 DEF w
<1>5. QED
  BY <1>1, <1>2, <1>3, <1>4 DEF Payloads

\* Whatever is sent is written as the contracts say.
LEMMA OutgoingKeeps == ASSUME NEW o \in Outgoing PROVE IsMessage(o.sort, Encode(o.sort, o.value))
<1>1. CASE o \in [sort : {"fact"}, value : Facts]
  <2> DEFINE f == o.value
             w == EncodeFact(f)
  <2>1. /\ o.sort = "fact" /\ f.ref \in Refs /\ f.payload \in Payloads
        /\ f.envelope \in [coordinates : [effective : NewInterval, knowledge : Instant],
                           provenance : Provenances, references : References]
    BY <1>1 DEF Facts
  <2>2. w = [envelope |-> {EncodeEnvelope(f.envelope, f.ref)}, kind |-> EncodeFactKind(f.kind),
             type |-> f.payload.type, type_version |-> TypeVersion,
             payload |-> {EncodePayload(f.payload)}]
    BY DEF EncodeFact
  <2>3. {EncodeEnvelope(f.envelope, f.ref)} \in Optional(EnvelopeMessages)
    BY <2>1, EncodedEnvelope, Zenon
  <2>4. IsPayloadMessage(EncodePayload(f.payload))
    BY <2>1, EncodedPayload, Zenon
  <2>5. Encode("fact", f) = w
    BY DEF Encode
  <2> HIDE DEF f, w
  <2>6. /\ w.envelope = {EncodeEnvelope(f.envelope, f.ref)}
        /\ w.payload = {EncodePayload(f.payload)}
        /\ w = [envelope |-> w.envelope, kind |-> w.kind, type |-> w.type,
                type_version |-> w.type_version, payload |-> w.payload]
    BY <2>2
  <2>7. w.payload \in Optional(w.payload)
    BY <2>6 DEF Optional
  <2>8. IsFactMessage(w)
    BY <2>3, <2>4, <2>6, <2>7 DEF IsFactMessage
  <2>9. QED
    BY <2>1, <2>5, <2>8 DEF IsMessage, f
<1>2. CASE o \in [sort : {"submission"}, value : Submissions]
  <2> DEFINE cmd == o.value
             list == Each(cmd.references, EncodeReferenceBinding)
             w == EncodeHoldingClaimSubmission(cmd)
  <2>1. o.sort = "submission" /\ cmd \in Submissions
    BY <1>2
  <2>2. Encode("submission", cmd) = w
    BY DEF Encode
  <2>3. w = [stream |-> cmd.stream, account |-> {EncodeClaim(cmd.account)},
             instrument |-> {EncodeClaim(cmd.instrument)},
             quantity |-> {EncodeQuantity(cmd.quantity)},
             effective |-> {EncodeInterval(cmd.effective)}, source |-> {EncodeSource(cmd.source)},
             collected_at |-> EncodeInstant(cmd.collectedAt),
             interpreter |-> {EncodeInterpreter(cmd.interpreter)},
             confidence |-> EncodeConfidence(cmd.confidence), references |-> list]
    BY Zenon DEF EncodeHoldingClaimSubmission
  <2> HIDE DEF cmd, w
  <2>4. /\ cmd.account \in Claims /\ cmd.instrument \in Claims /\ cmd.quantity \in Quantities
        /\ cmd.effective \in NewInterval /\ cmd.source \in Sources /\ cmd.stream \in Text
        /\ cmd.interpreter \in Interpreters /\ cmd.collectedAt \in Nat
        /\ cmd.references \in References
    BY <2>1 DEF Submissions
  <2>5. list \in Seq(Bindings)
    BY <2>4, EncodedReferences, Zenon
  <2> HIDE DEF list
  <2>6. /\ {EncodeClaim(cmd.account)} \in Optional(ClaimMessages)
        /\ {EncodeClaim(cmd.instrument)} \in Optional(ClaimMessages)
        /\ {EncodeQuantity(cmd.quantity)} \in Optional(QuantityMessages)
        /\ {EncodeInterval(cmd.effective)} \in Optional(IntervalMessages)
        /\ {EncodeSource(cmd.source)} \in Optional(SourceMessages)
        /\ {EncodeInterpreter(cmd.interpreter)} \in Optional(InterpreterMessages)
        /\ EncodeInstant(cmd.collectedAt) \in Optional(Nat)
        /\ EncodeConfidence(cmd.confidence) \in Int
    BY <2>4, EncodedClaim, EncodedQuantity, EncodedInterval, EncodedParts, EncodedInstant,
       EncodedNumbers
  <2>7. w \in SubmissionMessages
    BY <2>3, <2>4, <2>5, <2>6 DEF SubmissionMessages
  <2>8. QED
    BY <2>1, <2>2, <2>7 DEF IsMessage, cmd
<1>3. CASE o \in [sort : {"context"}, value : RoundingContexts]
  BY <1>3, EncodedContext DEF Encode, IsMessage
<1>4. CASE o \in [sort : {"money"}, value : Monies]
  BY <1>4, EncodedMoney DEF Encode, IsMessage
<1>5. QED
  BY <1>1, <1>2, <1>3, <1>4, OutgoingAssumption

\* What is on its way keeps the contract of what was sent.
Kept ==
  /\ sent = {} \/ \E o \in Outgoing : sent = {o}
  /\ message = {} \/ \E m : message = {m} /\ \A s \in sent : IsMessage(s.sort, m)
  /\ NothingInvented

\* Every step keeps it so, if producers do.
LEMMA StepKept == ASSUME ContractKept PROVE Kept /\ [Deliver]_exchange => Kept'
<1> SUFFICES ASSUME Kept, [Deliver]_exchange PROVE Kept'
  OBVIOUS
<1>1. CASE UNCHANGED exchange
  BY <1>1 DEF exchange, Kept, NothingInvented
<1>2. ASSUME NEW o \in Outgoing, Send(o.sort, o.value) PROVE Kept'
  <2>1. sent' = {o} /\ message' = {Encode(o.sort, o.value)} /\ received' = {}
    BY <1>2, OutgoingTrips DEF Send
  <2>2. IsMessage(o.sort, Encode(o.sort, o.value))
    BY OutgoingKeeps
  <2>3. QED
    BY <2>1, <2>2 DEF Kept, NothingInvented
<1>3. CASE Alter
  <2>1. PICK m \in message : \E w \in Altered(m) : message' = {w}
    BY <1>3 DEF Alter
  <2>2. PICK w \in Altered(m) : message' = {w}
    BY <2>1
  <2>3. sent' = sent /\ received' = received
    BY <1>3 DEF Alter
  <2>4. \A s \in sent : IsMessage(s.sort, m)
    BY <2>1 DEF Kept
  <2>5. \A s \in sent : IsMessage(s.sort, w)
    BY <2>2, <2>4 DEF ContractKept
  <2>6. QED
    BY <2>2, <2>3, <2>5 DEF Kept, NothingInvented
<1>4. CASE Receive
  <2>1. PICK s \in sent : /\ message # {}
                          /\ received' = {[answer |-> Decode(s.sort, message), of |-> message]}
    BY <1>4 DEF Receive
  <2>2. PICK o \in Outgoing : sent = {o}
    BY <2>1 DEF Kept
  <2>3. PICK m : message = {m} /\ IsMessage(o.sort, m)
    BY <2>1, <2>2 DEF Kept
  <2>4. message' = {} /\ sent' = {o} /\ s = o
    BY <1>4, <2>2 DEF Receive
  <2>5. ASSUME NEW v \in Decode(o.sort, {m})
        PROVE  {Encode(o.sort, v)} = {Legible(o.sort, x) : x \in {m}}
    <3>1. Encode(o.sort, v) = Legible(o.sort, m)
      BY <2>3, DecodedBack, Zenon
    <3>2. QED
      BY <3>1
  <2> DEFINE r == [answer |-> Decode(o.sort, {m}), of |-> {m}]
  <2>6. received' = {r} /\ r.answer = Decode(o.sort, {m}) /\ r.of = {m}
    BY <2>1, <2>3, <2>4
  <2> HIDE DEF r
  <2>7. NothingInvented'
    BY <2>4, <2>5, <2>6 DEF NothingInvented
  <2>8. QED
    BY <2>4, <2>7 DEF Kept
<1>5. QED
  BY <1>1, <1>2, <1>3, <1>4 DEF Deliver

\* Where producers keep the contracts and spell amounts as Text does, whatever they
\* leave out: a message that DecodeX accepts is the encoding of what it returned.
THEOREM DecodingInventsNothing == ContractKept => (ExchangeSpec => []NothingInvented)
<1> SUFFICES ASSUME ContractKept PROVE ExchangeSpec => []NothingInvented
  OBVIOUS
<1>1. ExchangeInit => Kept
  BY DEF ExchangeInit, Kept, NothingInvented
<1>2. Kept /\ [Deliver]_exchange => Kept'
  BY StepKept
<1>3. Kept => NothingInvented
  BY DEF Kept
<1>4. QED
  BY <1>1, <1>2, <1>3, PTL DEF ExchangeSpec
=============================================================================

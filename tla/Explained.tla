----------------------------- MODULE Explained -----------------------------
(***************************************************************************)
(* Values that carry how they were computed: libs/kernel/explained over    *)
(* the records of provenance and the arithmetic of money.                  *)
(*                                                                         *)
(* A behaviour builds values one after another: it lifts reported amounts  *)
(* and combines what it has.  A combinator that returns an error builds    *)
(* nothing.  Four parts of a value are not in the code and are what the    *)
(* properties compare with: `how` is the computation itself, `facts` the   *)
(* reports it rests on, `exact` its value without any bound on digits,     *)
(* `asked` what the last rounding was asked.                               *)
(***************************************************************************)
EXTENDS Provenance, Money

CONSTANTS
  Reports,       \* reported amounts: a reference, an amount, a confidence
  Derivations,   \* what callers of FromDerivation pass: a report, parameters, bindings
  Contexts,      \* the rounding contexts callers hold
  MaxValues      \* how many values a behaviour builds

VARIABLE values

\* What is lifted: an amount that a constructor of money built, and what the
\* caller says of it.
Reported == [ref : Text, amount : Monies \union Quantities, confidence : Nat]

ASSUME ReportsAssumption ==
  /\ Reports \subseteq Reported
  /\ Derivations \subseteq
       [report : Reported, parameters : Seq([name : Text, value : Text]),
        references : Seq([dataset : Text, version : Text])]

ASSUME ContextsAssumption == Contexts \subseteq RoundingContexts \union {ZeroContext}

IsMoney(amount) == "currency" \in DOMAIN amount

Listed(seq) == {seq[i] : i \in DOMAIN seq}

Method(code) == [name |-> <<code>>, version |-> <<49>>]

\* A value enters with the record NewDerivation made for it.
Explain(value, exact, asked, method, inputs, how, parameters, references, confidence, facts) ==
  LET record == NewDerivation(method, inputs, parameters, references, confidence) IN
  /\ Cardinality(values) < MaxValues
  /\ CanNewDerivation(method, confidence)
  /\ values' = values \union
       {[value |-> value, trace |-> ContentAddress(record), confidence |-> record.confidence,
         exact |-> exact, asked |-> asked, facts |-> facts,
         how |-> [method |-> method, inputs |-> how, parameters |-> Listed(parameters),
                  references |-> Listed(references), confidence |-> confidence]]}

FromDerivation(r, parameters, references) ==
  Explain(r.amount, r.amount.amount, {}, Method(100), <<r.ref>>, <<[fact |-> r.ref]>>,
          parameters, references, r.confidence, {r})

FromObservation(r) == FromDerivation(r, <<>>, <<>>)

\* A total function of one value.
Map(v, method, value, exact) ==
  Explain(value, exact, {}, method, <<v.trace>>, <<v.how>>, <<>>, <<>>, v.confidence, v.facts)

\* A function of one value that can fail: its caller has checked that it did not.
TryMap(v, method, parameters, value, exact, asked) ==
  Explain(value, exact, asked, method, <<v.trace>>, <<v.how>>, parameters, <<>>,
          v.confidence, v.facts)

\* A function of two values; the weaker of their confidences decides.
Combine2(v, w, method, parameters, value, exact, asked) ==
  Explain(value, exact, asked, method, <<v.trace, w.trace>>, <<v.how, w.how>>, parameters,
          <<>>, Weakest({v.confidence, w.confidence}), v.facts \union w.facts)

-----------------------------------------------------------------------------
(* What the calculations of this instance do with the combinators *)

RoundingParameter(rc) == <<[name |-> <<114>>, value |-> ContextText(rc)]>>

Negate(v) ==
  /\ IsMoney(v.value)
  /\ Map(v, Method(110), Neg(v.value), DecimalNeg(v.exact))

RoundToScale(v, rc) ==
  LET rounded == Quantize(v.value, rc) IN
  /\ IsMoney(v.value)
  /\ CanQuantize(v.value, rc)
  /\ TryMap(v, Method(113), RoundingParameter(rc), rounded, rounded.amount,
            {[of |-> v.value.amount, by |-> Decimal(1, 0), context |-> rc]})

Total(v, w) ==
  /\ IsMoney(v.value) /\ IsMoney(w.value)
  /\ CanAdd(v.value, w.value)
  /\ Combine2(v, w, Method(97), <<>>, Add(v.value, w.value), DecimalAdd(v.exact, w.exact), {})

Difference(v, w) ==
  /\ IsMoney(v.value) /\ IsMoney(w.value)
  /\ CanSub(v.value, w.value)
  /\ Combine2(v, w, Method(115), <<>>, Sub(v.value, w.value),
              DecimalAdd(v.exact, DecimalNeg(w.exact)), {})

CombineQuantities(v, w) ==
  /\ ~IsMoney(v.value) /\ ~IsMoney(w.value)
  /\ \/ /\ CanAddQuantity(v.value, w.value)
        /\ Combine2(v, w, Method(97), <<>>, AddQuantity(v.value, w.value),
                    DecimalAdd(v.exact, w.exact), {})
     \/ /\ CanSubQuantity(v.value, w.value)
        /\ Combine2(v, w, Method(115), <<>>, SubQuantity(v.value, w.value),
                    DecimalAdd(v.exact, DecimalNeg(w.exact)), {})

Worth(v, q) ==
  /\ IsMoney(v.value) /\ ~IsMoney(q.value)
  /\ CanMul(v.value, q.value)
  /\ Combine2(v, q, Method(109), <<>>, Mul(v.value, q.value), DecimalMul(v.exact, q.exact), {})

\* A division keeps to the digits of its context and not to the places.
PerUnit(v, q, rc) ==
  LET quotient == Div(v.value, q.value, rc) IN
  /\ IsMoney(v.value) /\ ~IsMoney(q.value)
  /\ CanDiv(q.value)
  /\ Combine2(v, q, Method(118), RoundingParameter(rc), quotient, quotient.amount,
              {[of |-> v.value.amount, by |-> q.value.amount, context |-> [rc EXCEPT !.scale = {}]]})

\* The sums of money Fold goes through, from zero.
Sums(inputs) ==
  LET sum[i \in 0..Len(inputs)] ==
        IF i = 0 THEN Zero(inputs[1].value.currency) ELSE Add(sum[i - 1], inputs[i].value)
  IN  sum

\* What they would be without a bound on digits.
ExactSums(inputs) ==
  LET exact[i \in 0..Len(inputs)] ==
        IF i = 0 THEN Decimal(0, 0) ELSE DecimalAdd(exact[i - 1], inputs[i].exact)
  IN  exact

\* Fold: a sum of money over some of the values, in an order, from zero.
Fold(inputs) ==
  LET sum   == Sums(inputs)
      exact == ExactSums(inputs)
  IN  /\ inputs # <<>>
      /\ \A i \in DOMAIN inputs : IsMoney(inputs[i].value)
      /\ \A i \in DOMAIN inputs : CanAdd(sum[i - 1], inputs[i].value)
      /\ Explain(sum[Len(inputs)], exact[Len(inputs)], {}, Method(102),
                 Each(inputs, LAMBDA v : v.trace), Each(inputs, LAMBDA v : v.how), <<>>, <<>>,
                 Weakest({inputs[i].confidence : i \in DOMAIN inputs}),
                 UNION {inputs[i].facts : i \in DOMAIN inputs})

ExplainedInit == values = {}

Compute ==
  \/ \E r \in Reports : FromObservation(r)
  \/ \E d \in Derivations : FromDerivation(d.report, d.parameters, d.references)
  \/ \E v \in values : Negate(v) \/ \E rc \in Contexts : RoundToScale(v, rc)
  \/ \E v, w \in values : Total(v, w) \/ Difference(v, w) \/ CombineQuantities(v, w)
  \/ \E v, q \in values : Worth(v, q) \/ \E rc \in Contexts : PerUnit(v, q, rc)
  \/ \E v, w, x \in values : Fold(<<v, w, x>>)

ExplainedSpec == ExplainedInit /\ [][Compute]_values

-----------------------------------------------------------------------------
(* Properties *)

\* A content address names one computation: two values share it exactly when
\* they were got by the same method from the same inputs in the same order, with
\* the same parameters and bindings in whatever order and the same confidence
\* (NewDerivation, contentAddress).
AddressNamesComputation == \A u, v \in values : u.trace = v.trace <=> u.how = v.how

\* A content address decides the answer: a choice that changes the value, such as
\* the scale a division is rounded to, is part of the record.
AddressDecidesValue == \A u, v \in values : u.trace = v.trace => u.value = v.value

\* However long the chain of combinators, a value is exactly as trustworthy as
\* the weakest report under it (Map, Combine2, Fold): no report is weaker, and one
\* is as weak.
WeakestReportDecides ==
  \A v \in values :
    /\ \A r \in v.facts : r.confidence <= v.confidence
    /\ \E r \in v.facts : r.confidence = v.confidence

\* No value has lost anything that no rounding context asked for: up to the last
\* rounding it is what unbounded arithmetic gives, whatever the order of the
\* operations (exactContext traps what does not fit).
NothingLostUnasked == \A v \in values : SameValue(v.value.amount, v.exact)

\* Money of one currency never reaches a value in another, through any chain of
\* sums, products and quotients.
CurrenciesStayApart ==
  \A v \in values : IsMoney(v.value) =>
    \A r \in v.facts : IsMoney(r.amount) => r.amount.currency = v.value.currency

\* A rounded value is where its mode puts it: nearest, ties to even or away from
\* zero; or on the side asked for, less than a unit of its last place away; and
\* it keeps to the digits and the places of its context.  An amount below a tenth
\* of that unit is the exception: Quantize makes it zero whatever the mode, also
\* where up, floor or ceiling would make it one unit.
RoundedAsAsked ==
  \A v \in values : \A a \in v.asked :
    LET res  == v.value.amount
        back == DecimalMul(res, a.by)
        exp  == Lower(a.of.exp, back.exp)
        of   == At(a.of, exp)
        got  == At(back, exp)
        off  == Magnitude(got - of)
        unit == At(Decimal(Magnitude(a.by.coeff), res.exp + a.by.exp), exp)
        mode == a.context.mode
    IN  /\ Digits(res.coeff) <= a.context.precision
        /\ a.context.scale = {} \/ -res.exp \in a.context.scale
        /\ \/ off = 0
           \/ 10 * Magnitude(of) < unit /\ got = 0
           \/ /\ 10 * Magnitude(of) >= unit
              /\ CASE mode = "down"    -> off < unit /\ Magnitude(got) <= Magnitude(of)
                   [] mode = "up"      -> off < unit /\ Magnitude(got) >= Magnitude(of)
                   [] mode = "floor"   -> off < unit /\ (got <= of <=> a.by.coeff > 0)
                   [] mode = "ceiling" -> off < unit /\ (got >= of <=> a.by.coeff > 0)
                   [] mode = "half_up" ->
                        2 * off < unit \/ (2 * off = unit /\ Magnitude(got) > Magnitude(of))
                   [] mode = "half_even" ->
                        2 * off < unit \/ (2 * off = unit /\ res.coeff % 2 = 0)
                   [] OTHER -> FALSE
=============================================================================

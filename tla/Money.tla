------------------------------- MODULE Money -------------------------------
(***************************************************************************)
(* Amounts: libs/kernel/money over the decimals of apd.                    *)
(*                                                                         *)
(* A decimal is a coefficient and a power of ten, so 1.50 and 1.5 are two  *)
(* decimals of one value; the sign of zero is left out.  Operations are    *)
(* partial: CanX says when X returns no error.                             *)
(***************************************************************************)
EXTENDS Framing, FiniteSets

CONSTANT MaxPrecision   \* digits an exact result may have (maxPrecision)

ASSUME PrecisionAssumption == MaxPrecision \in Nat \ {0}

Magnitude(n) == IF n < 0 THEN -n ELSE n

\* Digits of a coefficient: one more than the powers of ten it reaches.  Two
\* factors of MaxPrecision digits bound the count.
Digits(n) == 1 + Cardinality({k \in 1..2 * MaxPrecision : 10 ^ k <= Magnitude(n)})

Decimal(coeff, exp) == [coeff |-> coeff, exp |-> exp]

Decimals == [coeff : Int, exp : Int]

Lower(m, n) == IF m < n THEN m ELSE n

\* The coefficient of a decimal at an exponent that is not above its own.
At(d, exp) == d.coeff * 10 ^ (d.exp - exp)

\* Decimal.Cmp: equality of values.
SameValue(d, e) == LET exp == Lower(d.exp, e.exp) IN At(d, exp) = At(e, exp)

-----------------------------------------------------------------------------
(* Text *)

(***************************************************************************)
(* A decimal text by its parts: what leads it, how many digits are before  *)
(* and after the points it has, whether it has an exponent or other marks, *)
(* and the number its digits spell.                                        *)
(***************************************************************************)
ValidateCanonical(t) ==
  /\ t.lead \in {"", "-"}
  /\ ~t.marked
  /\ t.whole > 0
  /\ t.points \in {0, 1}
  /\ t.points = 1 => t.places > 0

ParsedDecimal(t) == Decimal(IF t.lead = "-" THEN -t.digits ELSE t.digits, -t.places)

\* A positive exponent written out as zeros.
Plain(d) == IF d.exp > 0 THEN Decimal(At(d, 0), 0) ELSE d

\* Decimal.Text('f')
TextOf(d) ==
  LET flat == Plain(d)
  IN  [lead |-> IF flat.coeff < 0 THEN "-" ELSE "", marked |-> FALSE, whole |-> 1,
       points |-> IF flat.exp < 0 THEN 1 ELSE 0, places |-> -flat.exp,
       digits |-> Magnitude(flat.coeff)]

IsCurrency(code) == Len(code) = 3 /\ \A i \in DOMAIN code : code[i] \in 65..90

Monies == {m \in [amount : Decimals, currency : Text] : IsCurrency(m.currency)}

Quantities == [amount : Decimals, unit : Text \ {<<>>}]

CanParse(text, code) == IsCurrency(code) /\ ValidateCanonical(text)

Parse(text, code) == [amount |-> ParsedDecimal(text), currency |-> code]

Zero(code) == [amount |-> Decimal(0, 0), currency |-> code]

CanParseQuantity(text, unit) == unit # <<>> /\ ValidateCanonical(text)

ParseQuantity(text, unit) == [amount |-> ParsedDecimal(text), unit |-> unit]

-----------------------------------------------------------------------------
(* Rounding *)

(***************************************************************************)
(* A rounding context: significant digits, a mode, and a set that holds    *)
(* the decimal places it fixes, if any.  A Go literal can also be the zero *)
(* context, which no constructor returns.                                  *)
(***************************************************************************)
ZeroContext == [precision |-> 0, mode |-> "unspecified", scale |-> {}]

\* Fault of ApdRounder: banker's rounding rounds every half up.
ApdRounderFault(mode) ==
  [half_even |-> "RoundHalfUp", half_up |-> "RoundHalfUp", down |-> "RoundDown",
   up |-> "RoundUp", ceiling |-> "RoundCeiling", floor |-> "RoundFloor"][mode]

ApdRounder(mode) ==
  [half_even |-> "RoundHalfEven", half_up |-> "RoundHalfUp", down |-> "RoundDown",
   up |-> "RoundUp", ceiling |-> "RoundCeiling", floor |-> "RoundFloor"][mode]

RoundingModes == {"half_even", "half_up", "down", "up", "ceiling", "floor"}

CanNewRoundingContext(precision, mode) ==
  precision \in 1..MaxPrecision /\ mode \in RoundingModes

NewRoundingContext(precision, mode) ==
  [precision |-> precision, mode |-> mode, scale |-> {}]

WithScale(rc, scale) == [rc EXCEPT !.scale = {scale}]

\* An optional value is a set of at most one.
Optional(T) == {S \in SUBSET T : \A x, y \in S : x = y}

RoundingContexts == [precision : 1..MaxPrecision, mode : RoundingModes, scale : Optional(Int)]

\* A context without a mode falls back to one digit and to what apd does when
\* no rounding is named.
ApdContext(rc) ==
  IF rc.mode \in RoundingModes
  THEN [precision |-> rc.precision, rounder |-> ApdRounder(rc.mode)]
  ELSE [precision |-> 1, rounder |-> "RoundHalfUp"]

\* Does the rounder raise the magnitude q of n / d, of which a rest is left?
RaisesMagnitude(rounder, negative, n, d) ==
  LET q == n \div d
      r == n % d
  IN  /\ r # 0
      /\ \/ rounder = "RoundUp"
         \/ rounder = "RoundCeiling" /\ ~negative
         \/ rounder = "RoundFloor" /\ negative
         \/ rounder \in {"RoundHalfUp", "RoundHalfEven"} /\ 2 * r > d
         \/ rounder = "RoundHalfUp" /\ 2 * r = d
         \/ rounder = "RoundHalfEven" /\ 2 * r = d /\ q % 2 = 1

RoundedQuotient(rounder, negative, n, d) ==
  LET q == (n \div d) + (IF RaisesMagnitude(rounder, negative, n, d) THEN 1 ELSE 0)
  IN  IF negative THEN -q ELSE q

\* Context.Round: a coefficient with too many digits loses the last ones.
ContextRound(ctx, d) ==
  LET lost == Digits(d.coeff) - ctx.precision
      c == RoundedQuotient(ctx.rounder, d.coeff < 0, Magnitude(d.coeff), 10 ^ lost)
  IN  IF lost <= 0 THEN d
      ELSE IF Digits(c) > ctx.precision THEN Decimal(c \div 10, d.exp + lost + 1)
      ELSE Decimal(c, d.exp + lost)

\* Context.Quo: exact if the digits suffice, with as few of them shifted in as
\* that takes; otherwise as many digits as the context has.
Quo(ctx, a, b) ==
  LET negative == (a.coeff < 0) # (b.coeff < 0)
      N(s) == Magnitude(a.coeff) * (IF s > 0 THEN 10 ^ s ELSE 1)
      D(s) == Magnitude(b.coeff) * (IF s < 0 THEN 10 ^ (-s) ELSE 1)
      shifts == -(2 * MaxPrecision)..(2 * MaxPrecision)
      exact == {s \in shifts : N(s) % D(s) = 0 /\ N(s) \div D(s) < 10 ^ ctx.precision}
      s == IF exact # {}
           THEN CHOOSE t \in exact : \A u \in exact : Magnitude(t) <= Magnitude(u)
           ELSE CHOOSE t \in shifts :
                  (N(t) \div D(t)) \in 10 ^ (ctx.precision - 1)..10 ^ ctx.precision - 1
      c == RoundedQuotient(ctx.rounder, negative, N(s), D(s))
  IN  ContextRound(ctx, Decimal(c, a.exp - b.exp - s))

\* Context.Quantize: the coefficient at the exponent asked for.  A coefficient of
\* fewer digits than are to be dropped becomes zero, and the rounder is not asked.
Quantized(ctx, d, exp) ==
  IF exp <= d.exp THEN Decimal(At(d, exp), exp)
  ELSE IF Magnitude(d.coeff) < 10 ^ (exp - d.exp - 1) THEN Decimal(0, exp)
  ELSE Decimal(RoundedQuotient(ctx.rounder, d.coeff < 0, Magnitude(d.coeff), 10 ^ (exp - d.exp)), exp)

CanDiv(q) == q.amount.coeff # 0

Div(m, q, rc) == [m EXCEPT !.amount = Quo(ApdContext(rc), @, q.amount)]

\* A scale is required, and what it leaves has to fit the precision.
CanQuantize(m, rc) ==
  \E scale \in rc.scale :
    Digits(Quantized(ApdContext(rc), m.amount, -scale).coeff) <= ApdContext(rc).precision

Quantize(m, rc) ==
  [m EXCEPT !.amount = Quantized(ApdContext(rc), @, -(CHOOSE s \in rc.scale : TRUE))]

ModeText(mode) ==
  [half_even |-> 1, half_up |-> 2, down |-> 3, up |-> 4, ceiling |-> 5, floor |-> 6,
   unspecified |-> 7][mode]

\* A number as it is printed: its sign, if it has one, and a symbol.
Printed(n) == IF n < 0 THEN <<45, -n>> ELSE <<n>>

\* Fault of ContextText: the scale is left out.
ContextTextFault(rc) == <<rc.precision, ModeText(rc.mode)>>

\* RoundingContext.String; a mode is one symbol.
ContextText(rc) ==
  <<rc.precision, ModeText(rc.mode)>>
    \o (IF rc.scale = {} THEN <<>> ELSE Printed(CHOOSE s \in rc.scale : TRUE))

-----------------------------------------------------------------------------
(* Exact arithmetic *)

DecimalAdd(d, e) ==
  LET exp == Lower(d.exp, e.exp) IN Decimal(At(d, exp) + At(e, exp), exp)

DecimalNeg(d) == Decimal(-d.coeff, d.exp)

DecimalMul(d, e) == Decimal(d.coeff * e.coeff, d.exp + e.exp)

\* No rounding is named: with every rounding trapped it is out of reach.
ExactContext == [precision |-> MaxPrecision, rounder |-> "RoundHalfUp"]

\* What an operation of the exact context computes.
Fitted(d) == ContextRound(ExactContext, d)

\* Fault of Exactly: the context traps no rounding.
ExactlyFault(d) == TRUE

\* The exact context traps every rounding, also of zeros.
Exactly(d) == Digits(d.coeff) <= ExactContext.precision

\* Fault of CanAdd: amounts of two currencies are added.
CanAddFault(m, n) == Exactly(DecimalAdd(m.amount, n.amount))

CanAdd(m, n) == m.currency = n.currency /\ Exactly(DecimalAdd(m.amount, n.amount))

Add(m, n) == [m EXCEPT !.amount = Fitted(DecimalAdd(@, n.amount))]

CanSub(m, n) ==
  m.currency = n.currency /\ Exactly(DecimalAdd(m.amount, DecimalNeg(n.amount)))

Sub(m, n) == [m EXCEPT !.amount = Fitted(DecimalAdd(@, DecimalNeg(n.amount)))]

Neg(m) == [m EXCEPT !.amount = DecimalNeg(@)]

CanMul(m, q) == Exactly(DecimalMul(m.amount, q.amount))

Mul(m, q) == [m EXCEPT !.amount = Fitted(DecimalMul(@, q.amount))]

CanAddQuantity(p, q) == p.unit = q.unit /\ Exactly(DecimalAdd(p.amount, q.amount))

AddQuantity(p, q) == [p EXCEPT !.amount = Fitted(DecimalAdd(@, q.amount))]

CanSubQuantity(p, q) ==
  p.unit = q.unit /\ Exactly(DecimalAdd(p.amount, DecimalNeg(q.amount)))

SubQuantity(p, q) == [p EXCEPT !.amount = Fitted(DecimalAdd(@, DecimalNeg(q.amount)))]

=============================================================================

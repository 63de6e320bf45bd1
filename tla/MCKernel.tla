------------------------------ MODULE MCKernel ------------------------------
(***************************************************************************)
(* Small instances of Explained and Exchange.  A behaviour either builds   *)
(* values or sends messages.                                               *)
(***************************************************************************)
EXTENDS Explained, Exchange, Producers

VARIABLE menu   \* what this behaviour does

USD == <<85, 83, 68>>
EUR == <<69, 85, 82>>
Share == <<115>>

Cash(coeff, exp, currency) == [amount |-> Decimal(coeff, exp), currency |-> currency]

Shares(coeff, exp) == [amount |-> Decimal(coeff, exp), unit |-> Share]

Report(n, amount, confidence) == [ref |-> <<n>>, amount |-> amount, confidence |-> confidence]

\* 2.5 is a tie for whole units; 9.75 and 2.5 have sums of three digits and
\* products of more; a third of anything is never exact.
MCReports ==
  {Report(1, Cash(25, -1, USD), 1), Report(2, Cash(975, -2, USD), 4),
   Report(3, Cash(7, 0, EUR), 2), Report(4, Shares(3, 0), 3)}

Given(name, value) == [name |-> name, value |-> value]

Bound(dataset, version) == [dataset |-> dataset, version |-> version]

\* One report read in ways that only their records tell apart: texts that join to
\* the same bytes, and lists that differ by order.
MCDerivations ==
  {[report |-> Report(1, Cash(25, -1, USD), 1), parameters |-> ps, references |-> bs] :
     ps \in {<<>>, <<Given(<<97>>, <<98, 99>>)>>, <<Given(<<97, 98>>, <<99>>)>>},
     bs \in {<<Bound(<<97>>, <<49>>), Bound(<<98>>, <<50>>)>>,
             <<Bound(<<98>>, <<50>>), Bound(<<97>>, <<49>>)>>}}

\* A dataset named with the separator of BindingText, next to one without it.
JoinedDerivations ==
  {[report |-> Report(1, Cash(25, -1, USD), 1), parameters |-> <<>>, references |-> <<b>>] :
     b \in {Bound(<<97, AtSign, 98>>, <<99>>), Bound(<<97>>, <<98, AtSign, 99>>)}}

MCContexts ==
  {WithScale(NewRoundingContext(3, "half_even"), 0), WithScale(NewRoundingContext(3, "half_even"), 1),
   WithScale(NewRoundingContext(2, "floor"), 0), NewRoundingContext(2, "ceiling")}

-----------------------------------------------------------------------------

Name(c) == <<c>>

Minted(kind, c) == [kind |-> kind, value |-> UUIDv5(<<c>>)]

Stated(scheme, value) == [scheme |-> <<scheme>>, value |-> <<value>>]

Told == WithPublishedAt(Observed(Name(115), 2, Unmediated, 4), 1)

Worked == DerivedFrom(Name(115), 2, [name |-> Name(105), version |-> Name(49)], <<48, 97>>, 5)

Fact(kind, provenance, references, effective, payload) ==
  [ref |-> [stream |-> Name(115), sequence |-> 1], kind |-> kind, payload |-> payload,
   envelope |-> [coordinates |-> [effective |-> effective, knowledge |-> 3],
                 provenance |-> provenance, references |-> references]]

Open(t) == [from |-> t, to |-> Unset]
Closed(t, u) == [from |-> t, to |-> u]

\* Every payload; a quantity whose exponent is positive, one below zero and one
\* of several places; intervals open, closed and of one instant.
MCFacts ==
  {Fact("observation", Told, <<Bound(Name(98), Name(50)), Bound(Name(97), Name(49))>>, Closed(1, 2),
        [type |-> "HoldingObserved", account |-> Minted("account", 1),
         instrument |-> Minted("instrument", 2), quantity |-> Shares(5, 2)]),
   Fact("observation", Worked, <<>>, Open(1),
        [type |-> "HoldingClaimed", account |-> Stated(97, 32),
         instrument |-> Stated(114, 98), quantity |-> Shares(-125, -2)]),
   Fact("occurrence", Told, <<>>, Closed(1, 1),
        [type |-> "EntityMinted", entity |-> Minted("party", 3), bornFrom |-> Stated(97, 98)]),
   Fact("occurrence", Worked, <<Bound(Name(97), Name(49))>>, Open(1),
        [type |-> "FactCorrected", corrects |-> [stream |-> Name(115), sequence |-> 2],
         kind |-> "superseded", reason |-> Name(114)])}

MCSubmission ==
  [stream |-> Name(115), account |-> Stated(97, 98), instrument |-> Stated(114, 98),
   quantity |-> Shares(150, -2), effective |-> Closed(1, 2), source |-> Name(115),
   collectedAt |-> 2, interpreter |-> Unmediated, confidence |-> 3,
   references |-> <<Bound(Name(97), Name(49))>>]

MCOutgoing ==
  {[sort |-> "fact", value |-> f] : f \in MCFacts}
    \union {[sort |-> "submission", value |-> MCSubmission]}
    \union {[sort |-> "context", value |-> rc] : rc \in MCContexts}
    \union {[sort |-> "money", value |-> m] : m \in {Cash(-5, 0, USD), Cash(5, 1, EUR), Cash(150, -2, EUR)}}

MCInit == ExplainedInit /\ ExchangeInit /\ menu \in {"compute", "send"}

Computing == menu = "compute" /\ Compute /\ UNCHANGED <<menu, exchange>>

Sending == menu = "send" /\ Deliver /\ UNCHANGED <<menu, values>>

MCNext == Computing \/ Sending

MCSpec == MCInit /\ [][MCNext]_<<values, exchange, menu>>
=============================================================================

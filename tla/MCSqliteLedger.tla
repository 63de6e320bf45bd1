--------------------------- MODULE MCSqliteLedger ---------------------------
(***************************************************************************)
(* Small instances of SqliteLedger: two processes, one of them with two    *)
(* calls.                                                                  *)
(***************************************************************************)
EXTENDS SqliteLedger, TLC

CONSTANTS
  s1, s2, anon,      \* stream names; anon is the empty one
  petr4,             \* a claim
  p1, p2,            \* processes
  r1, r2, r3         \* requests

MCPreimage == [c \in {petr4} |-> "PETR4"]
MCHost == [r \in Requests |-> IF r = r2 THEN p2 ELSE p1]

\* The two calls of p1 are interchangeable.
Symmetry == Permutations({r1, r3})

From(t) == [from |-> t, to |-> Unset]
Party == DeriveFromClaim("party", petr4)

Observe(s, t) ==
  [op |-> "ObserveHolding", stream |-> s, account |-> Party,
   instrument |-> Party, quantity |-> 100, effective |-> From(t), confidence |-> 1,
   complete |-> TRUE]

Retract(s, n) ==
  [op |-> "CorrectFact", stream |-> s, corrects |-> [stream |-> s, sequence |-> n],
   kind |-> "retracted", confidence |-> 1, complete |-> TRUE]

Accept(s) ==
  [op |-> "AcceptHoldingClaim", stream |-> s, account |-> petr4,
   instrument |-> petr4, quantity |-> 100, effective |-> From(1),
   confidence |-> 2, complete |-> TRUE, addressed |-> TRUE]

Mint(s, t) ==
  [op |-> "MintIdentity", stream |-> s, kind |-> "party", claim |-> petr4,
   answers |-> [stream |-> anon, sequence |-> 0], effective |-> From(t),
   confidence |-> 1, complete |-> TRUE, addressed |-> TRUE]

Unaddressed(s) == [Accept(s) EXCEPT !.addressed = FALSE]

\* Stated facts on two streams, and decisions that a stale read would spoil.
SharedCommands == {Observe(s1, 1), Accept(s2), Mint(s1, 1), Retract(s1, 1), Unaddressed(s1)}

\* Fewer of them where liveness is checked; a second mint is refused in the region.
SteadyCommands == {Observe(s1, 1), Accept(s2), Mint(s1, 1)}

UnnamedCommands == {Accept(anon), Accept(s1)}
=============================================================================

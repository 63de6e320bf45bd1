--------------------------- MODULE MCMemoryLedger ---------------------------
(***************************************************************************)
(* Small instances of MemoryLedger.  Streams s1 and s2 share a mutex.      *)
(***************************************************************************)
EXTENDS MemoryLedger

CONSTANTS
  s1, s2, anon,      \* stream names; anon is the empty one
  petr4, PETR4,      \* two spellings of one claim
  m0, m1,            \* mutexes
  r1, r2, r3         \* requests

MCClaims == {petr4, PETR4}
MCPreimage == [c \in MCClaims |-> "PETR4"]
MCQuantities == {100}
MCShard == [s \in Streams |-> IF s = anon THEN m1 ELSE m0]

From(t) == [from |-> t, to |-> Unset]
At(s, n) == [stream |-> s, sequence |-> n]
Party == DeriveFromClaim("party", petr4)

Observe(s, iv) ==
  [op |-> "ObserveHolding", stream |-> s, account |-> Party,
   instrument |-> Party, quantity |-> 100, effective |-> iv, confidence |-> 1,
   complete |-> TRUE]

Retract(s, ref) ==
  [op |-> "CorrectFact", stream |-> s, corrects |-> ref, kind |-> "retracted",
   confidence |-> 1, complete |-> TRUE]

\* The account and the instrument of the claim have one pre-image, so that a
\* single mint lets the claim be derived.
Accept(s, addressed) ==
  [op |-> "AcceptHoldingClaim", stream |-> s, account |-> petr4,
   instrument |-> PETR4, quantity |-> 100, effective |-> From(1),
   confidence |-> 2, complete |-> TRUE, addressed |-> addressed]

Mint(s, claim, t) ==
  [op |-> "MintIdentity", stream |-> s, kind |-> "party", claim |-> claim,
   answers |-> At(anon, 0), effective |-> From(t), confidence |-> 1, complete |-> TRUE,
   addressed |-> TRUE]

Derive(s, ref, e, k) ==
  [op |-> "ObserveClaimedHolding", stream |-> s, claim |-> ref,
   asOf |-> NewAsOf(e, k), complete |-> TRUE]

\* One of everything: each use case, each kind of refusal, both streams.
MixedCommands ==
  {Observe(s1, From(1)), Observe(s1, ZeroInterval),
   Accept(s1, FALSE), Accept(s1, TRUE), Accept(s2, TRUE), Accept(anon, TRUE),
   Retract(s1, At(s1, 1)), Mint(s1, petr4, 1), Mint(s1, PETR4, 1),
   Derive(s1, At(s1, 1), 2, 2)}
=============================================================================

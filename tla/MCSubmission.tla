---------------------------- MODULE MCSubmission ----------------------------
(***************************************************************************)
(* A small instance of Submission.                                         *)
(***************************************************************************)
EXTENDS Submission

CONSTANTS
  s1, anon,           \* stream names; anon is the empty one
  petr4, vale3,       \* claims
  good, bad, plain    \* producers

MCPreimage == [c \in {petr4, vale3} |-> c]

Claimed(claim, addressed) ==
  [op |-> "AcceptHoldingClaim", stream |-> s1, account |-> petr4,
   instrument |-> claim, quantity |-> 100, effective |-> [from |-> 1, to |-> Unset],
   confidence |-> 2, complete |-> TRUE, addressed |-> addressed]

Submits(form, cmd) == [form |-> form, cmd |-> cmd]

\* `bad` has a claim of its own with a malformed source and `plain` sends no protobuf.
MCSubmission ==
  [p \in Producers |->
     CASE p = good  -> Submits("decodes", Claimed(petr4, TRUE))
       [] p = bad   -> Submits("decodes", Claimed(vale3, FALSE))
       [] p = plain -> Submits("notProtobuf", Claimed(petr4, TRUE))]

\* Resending matters where the claim can be recorded.
MCMaxAttempts == [p \in Producers |-> IF p = good THEN 3 ELSE 1]
=============================================================================

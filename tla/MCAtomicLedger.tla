--------------------------- MODULE MCAtomicLedger ---------------------------
(***************************************************************************)
(* Small instances of AtomicLedger over the claims of Identity.            *)
(*                                                                         *)
(* petr4 and PETR4 are spellings of one claim under the rule of their      *)
(* scheme, acct names something else.  One holding is stated directly,     *)
(* claimed, minted for and derived.  A behaviour draws its commands from   *)
(* one of two menus, or compares claims.                                   *)
(***************************************************************************)
EXTENDS AtomicLedger, Identity

CONSTANTS s1, s2, anon   \* stream names; anon is the empty one

VARIABLE menu            \* where this behaviour takes its commands from

\* Codes of characters.
Space == 32
A == 65
a == 97
p == 112
r == 114

Claim(scheme, value) == [scheme |-> scheme, value |-> value]

\* A rule for values of two characters beside the ones the build ships.
MCRuleset ==
  Append(Canonicalisation,
         [scheme |-> <<r>>, standard |-> <<r>>, length |-> 2, folds |-> <<"strip_whitespace">>])

Texts(symbols, n) == UNION {[1..i -> symbols] : i \in 1..n}

\* Every value of up to three characters, or two when case varies, under a scheme
\* with a rule, one without and one that holds a colon; and schemes and a value
\* that are refused.
MCStatements ==
  {Claim(s, v) : s \in {<<r>>, <<a>>, <<a, Colon, a>>},
                 v \in Texts({a, Space, Colon}, 3) \union Texts({a, A, Space}, 2)}
    \union {Claim(s, <<a>>) : s \in {<<>>, <<A>>, <<Space, a>>}} \union {Claim(<<a>>, <<>>)}

petr4 == Claim(<<r>>, <<p, 52>>)
PETR4 == Claim(<<r>>, <<Space, 80, Space, 52>>)
acct == Claim(<<a>>, <<p, 52>>)

MCClaims == {petr4, PETR4, acct}
MCPreimage == [c \in MCClaims |-> CanonicalPreimage(c)]
MCQuantities == {100, 150}

From(t) == [from |-> t, to |-> Unset]
Between(t, u) == [from |-> t, to |-> u]
At(s, n) == [stream |-> s, sequence |-> n]

Account == DeriveFromClaim("account", acct)
Instrument == DeriveFromClaim("instrument", petr4)

Observe(s, q, iv, conf, complete) ==
  [op |-> "ObserveHolding", stream |-> s, account |-> Account,
   instrument |-> Instrument, quantity |-> q, effective |-> iv,
   confidence |-> conf, complete |-> complete]

Correct(s, ref, kind, complete) ==
  [op |-> "CorrectFact", stream |-> s, corrects |-> ref, kind |-> kind,
   confidence |-> 1, complete |-> complete]

Accept(s, acc, ins, iv, addressed) ==
  [op |-> "AcceptHoldingClaim", stream |-> s, account |-> acc,
   instrument |-> ins, quantity |-> 100, effective |-> iv, confidence |-> 2,
   complete |-> TRUE, addressed |-> addressed]

Mint(s, kind, claim, iv, conf, complete, addressed) ==
  [op |-> "MintIdentity", stream |-> s, kind |-> kind, claim |-> claim,
   answers |-> At(s, 1), effective |-> iv, confidence |-> conf,
   complete |-> complete, addressed |-> addressed]

Derive(s, ref, e, k) ==
  [op |-> "ObserveClaimedHolding", stream |-> s, claim |-> ref,
   asOf |-> NewAsOf(e, k), complete |-> TRUE]

\* Stated observations and corrections, with corrections of corrections and of
\* what does not exist.
HistoryCommands ==
  {Observe(s1, 100, From(1), 1, TRUE), Observe(s1, 150, Between(2, 3), 3, TRUE),
   Observe(s1, 100, Between(2, 2), 1, TRUE), Observe(s2, 150, From(2), 1, TRUE),
   Observe(s1, 100, ZeroInterval, 1, TRUE), Observe(s1, 100, From(1), 1, FALSE),
   Observe(anon, 100, From(1), 1, TRUE)}
    \union {Correct(s1, At(s1, n), "retracted", TRUE) : n \in 0..3}
    \union {Correct(s1, At(s1, 1), kind, TRUE) : kind \in {"superseded", "unspecified"}}
    \union {Correct(s1, At(s2, 1), "retracted", TRUE),
            Correct(s1, At(s1, 1), "retracted", FALSE)}

\* Claims, mints over different intervals and kinds, and derivations at several
\* coordinates, one of them in the future of the clock.
IdentityCommands ==
  {Accept(s1, acct, petr4, From(1), TRUE), Accept(s1, acct, petr4, From(1), FALSE),
   Accept(s1, NoClaim, petr4, From(1), TRUE),
   Mint(s1, "account", acct, From(1), 4, TRUE, TRUE),
   Mint(s1, "instrument", PETR4, From(1), 1, TRUE, TRUE),
   Mint(s1, "instrument", petr4, From(2), 1, TRUE, TRUE),
   Mint(s1, "party", petr4, Between(1, 2), 1, TRUE, TRUE),
   Mint(s1, "unspecified", petr4, From(1), 1, TRUE, TRUE),
   Mint(s1, "instrument", NoClaim, From(1), 1, TRUE, TRUE),
   Mint(s1, "instrument", petr4, ZeroInterval, 1, TRUE, TRUE),
   Mint(anon, "instrument", petr4, From(1), 1, TRUE, TRUE),
   Correct(s1, At(s1, 2), "retracted", TRUE),
   Derive(s1, At(s1, 1), 1, 3), Derive(s1, At(s1, 1), 2, 4), Derive(s1, At(s1, 2), 2, 9)}

Menu == [history |-> HistoryCommands, identity |-> IdentityCommands]

\* The clock of a history has fewer readings, for its commands never run out.
Clock == [history |-> {t \in Readings : t <= 4}, identity |-> Readings]

MCCommands == HistoryCommands \union IdentityCommands

MCInit == Init /\ StatedInit /\ menu \in DOMAIN Menu \union {"claims"}

Recording ==
  /\ menu # "claims"
  /\ \E cmd \in Menu[menu], k \in Clock[menu] :
       \/ ObserveHolding(cmd, k)
       \/ CorrectFact(cmd, k)
       \/ AcceptHoldingClaim(cmd, k)
       \/ MintIdentity(cmd, k)
       \/ ObserveClaimedHolding(cmd, k)
  /\ UNCHANGED <<menu, stated>>

Stating ==
  /\ menu = "claims"
  /\ \E c \in Statements : NewClaim(c)
  /\ UNCHANGED <<menu, log>>

MCNext == Recording \/ Stating

MCSpec == MCInit /\ [][MCNext]_<<log, menu, stated>>
=============================================================================

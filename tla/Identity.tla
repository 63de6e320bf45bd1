------------------------------ MODULE Identity ------------------------------
(***************************************************************************)
(* Which claims name one thing: libs/kernel/identity.                      *)
(*                                                                         *)
(* A claim is a scheme and a value, verbatim.  A rule of the scheme folds  *)
(* the value, a scheme-blind floor normalises the seed, and the framed     *)
(* seed is hashed into an identifier.  Resolution compares pre-images and  *)
(* never identifiers, so the two paths have to agree.                      *)
(***************************************************************************)
EXTENDS Identifiers, FiniteSets

CONSTANTS
  Ruleset,      \* the deployed canonicalisation rules, a sequence
  Statements,   \* what providers may say: pairs of a scheme and a value
  MaxStated     \* how many claims a behaviour compares

VARIABLE stated   \* the claims stated so far

-----------------------------------------------------------------------------
(* Rules *)

FoldNames == {"strip_whitespace"}

\* What is left of a text without its whitespace, after each of its characters.
Stripped(s) ==
  LET kept[i \in 0..Len(s)] ==
        IF i = 0 THEN <<>>
        ELSE IF s[i] \in Whitespace THEN kept[i - 1] ELSE Append(kept[i - 1], s[i])
  IN  kept

Apply(fold, value) ==
  IF fold = "strip_whitespace" THEN Stripped(value)[Len(value)] ELSE value

\* An unknown fold is taken to alter everything.
AltersRune(fold, c) == fold = "strip_whitespace" => c \in Whitespace

CanonicalAlphabet == (48..57) \union (65..90)

FoldIsSafe(fold) == \A c \in CanonicalAlphabet : ~AltersRune(fold, c)

IsRule(r) ==
  /\ IsScheme(r.scheme)
  /\ ~IsBlank(r.standard)
  /\ r.length > 0
  /\ r.folds # <<>>
  /\ \A i \in DOMAIN r.folds : r.folds[i] \in FoldNames /\ FoldIsSafe(r.folds[i])

\* NewRuleset: no scheme has two rules.
IsRuleset(rules) ==
  /\ \A i \in DOMAIN rules : IsRule(rules[i])
  /\ \A i, j \in DOMAIN rules : rules[i].scheme = rules[j].scheme => i = j

IsCanonical(rule, value) ==
  /\ Len(value) = rule.length
  /\ \A i \in DOMAIN value : value[i] \in CanonicalAlphabet

\* What each of a rule's folds makes of a value, in their order.
Folded(folds, value) ==
  LET folded[i \in 0..Len(folds)] ==
        IF i = 0 THEN value ELSE Apply(folds[i], folded[i - 1])
  IN  folded

RuleFold(rule, value) == Folded(rule.folds, value)[Len(rule.folds)]

RuleFor(scheme) == {r \in {Ruleset[i] : i \in DOMAIN Ruleset} : r.scheme = scheme}

\* Fault of FoldClaim: the rule of one scheme is applied to every claim.
FoldClaimFault(c) ==
  LET folded == RuleFold([folds |-> <<"strip_whitespace">>], c.value)
  IN  IF folded = <<>> THEN c ELSE [c EXCEPT !.value = folded]

\* Ruleset.Fold: a fold that would leave nothing is not applied.
FoldClaim(c) ==
  LET folded == {RuleFold(r, c.value) : r \in RuleFor(c.scheme)} \ {<<>>}
  IN  IF folded = {} THEN c ELSE [c EXCEPT !.value = CHOOSE v \in folded : TRUE]

\* Canonicalisation: isin, cusip, sedol and figi, each with one fold.
Canonicalisation ==
  LET Rule(scheme, length) ==
        [scheme |-> scheme, standard |-> scheme, length |-> length,
         folds |-> <<"strip_whitespace">>]
  IN  <<Rule(<<105, 115, 105, 110>>, 12), Rule(<<99, 117, 115, 105, 112>>, 9),
        Rule(<<115, 101, 100, 111, 108>>, 7), Rule(<<102, 105, 103, 105>>, 12)>>

-----------------------------------------------------------------------------
(* Derivation *)

\* The whitespace that ends a field with another field to come.
EndsField(s, i) ==
  /\ s[i] \in Whitespace
  /\ i > 1 /\ s[i - 1] \notin Whitespace
  /\ \E j \in i..Len(s) : s[j] \notin Whitespace

\* A text as it is normalised, after each of its characters.
Normalised(s) ==
  LET done[i \in 0..Len(s)] ==
        IF i = 0 THEN <<>>
        ELSE IF s[i] \notin Whitespace THEN Append(done[i - 1], Upper(s[i]))
        ELSE IF EndsField(s, i) THEN Append(done[i - 1], 32)
        ELSE done[i - 1]
  IN  done

\* Runs of whitespace become one space, the ends lose theirs, letters are upper.
CanonicaliseSeed(seed) == Normalised(seed)[Len(seed)]

TagEntitySeed == <<101>>
TagClaimSeed == <<99>>

\* Derive: an identifier from a bare seed, or ErrEmptySeed.
CanDeriveSeed(kind, seed) == kind \in DOMAIN KindText /\ CanonicaliseSeed(seed) # <<>>

DeriveSeed(kind, seed) ==
  [kind |-> kind, value |-> UUIDv5(Frame(TagEntitySeed, <<KindText[kind], CanonicaliseSeed(seed)>>))]

\* DeriveFromClaim: an identifier from a claim, scheme and joined form apart.
CanDeriveClaim(kind, c) ==
  /\ kind \in DOMAIN KindText
  /\ c # ZeroClaim
  /\ CanonicaliseSeed(c.scheme) # <<>>
  /\ CanonicaliseSeed(Joined(c)) # <<>>

DeriveClaim(kind, c) ==
  [kind |-> kind,
   value |-> UUIDv5(Frame(TagClaimSeed,
               <<KindText[kind], CanonicaliseSeed(c.scheme), CanonicaliseSeed(Joined(c))>>))]

\* What MintFor records for a claim.
MintedID(kind, c) == DeriveClaim(kind, FoldClaim(c))

\* The legible form, which a derivation records as a parameter.
CanonicalSeed(c) == CanonicaliseSeed(Joined(FoldClaim(c)))

\* Fault of CanonicalPreimage: the legible form is compared.
CanonicalPreimageFault(c) == Frame(TagClaimSeed, <<CanonicalSeed(c)>>)

\* Fault of CanonicalPreimage: the claim is compared as it was stated.
CanonicalPreimageUnfolded(c) ==
  Frame(TagClaimSeed, <<CanonicaliseSeed(c.scheme), CanonicaliseSeed(Joined(c))>>)

\* What resolution compares.
CanonicalPreimage(c) ==
  LET folded == FoldClaim(c)
  IN  Frame(TagClaimSeed, <<CanonicaliseSeed(folded.scheme), CanonicaliseSeed(Joined(folded))>>)

ASSUME RulesetAssumption ==
  /\ Ruleset \in Seq([scheme : Text, standard : Text, length : Int, folds : Seq(STRING)])
  /\ IsRuleset(Ruleset)

ASSUME StatementsAssumption == Statements \subseteq [scheme : Text, value : Text]

-----------------------------------------------------------------------------
(* Providers state claims *)

StatedInit == stated = {}

NewClaim(c) ==
  /\ Cardinality(stated) < MaxStated
  /\ IsClaim(c)
  /\ stated' = stated \union {c}

IdentitySpec == StatedInit /\ [][\E c \in Statements : NewClaim(c)]_stated

-----------------------------------------------------------------------------
(* Properties *)

\* The letters of a text, whatever their case and the space around them.
Letters(s) ==
  LET seen == Stripped(s)[Len(s)]
  IN  [i \in DOMAIN seen |-> Upper(seen[i])]

\* Where a text has space between two letters: the number of letters before it.
\* Space at the end counts for nothing, space at the start does.
Gaps(s) ==
  {Len(Letters(SubSeq(s, 1, i - 1))) : i \in {j \in DOMAIN s : s[j] \in Whitespace}}
    \ {Len(Letters(s))}

\* Resolution agrees with minting: two claims have one pre-image exactly when
\* minting them under a kind derives one identifier, and no kind's identifiers
\* are another's (Ruleset.CanonicalPreimage, DeriveFromClaim).
ResolvedAsMinted ==
  \A c, d \in stated, kind, other \in {"account", "instrument"} :
    MintedID(kind, c) = MintedID(other, d)
      <=> kind = other /\ CanonicalPreimage(c) = CanonicalPreimage(d)

\* Claims are taken for one only when they are spellings of one claim: their
\* schemes agree and their values have the same letters in the same order, so a
\* colon never moves from a scheme to a value and two values in the canonical
\* form of a standard stay two.
MergesAreSpellings ==
  \A c, d \in stated :
    CanonicalPreimage(c) = CanonicalPreimage(d)
      => Letters(c.scheme) = Letters(d.scheme) /\ Letters(c.value) = Letters(d.value)

\* Without a rule of its scheme a value keeps its spaces: "B K" and "BK" are two
\* tickers, and so are " BK" and "BK".  Only how much space there is, and space
\* at the end, counts for nothing.
UnruledKeepSpaces ==
  \A c, d \in stated :
    /\ RuleFor(c.scheme) = {}
    /\ CanonicalPreimage(c) = CanonicalPreimage(d)
    => Gaps(c.value) = Gaps(d.value)
=============================================================================

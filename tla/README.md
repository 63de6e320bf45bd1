# FDOS ledger: a TLA+ model

FDOS is a bitemporal, append-only ledger of financial facts written in Go.
Producers submit what they were told about holdings, naming things by
provider identifiers ("claims"); FDOS records the claims, mints identities for
the things they name as a separate, deliberate act, derives observations from
both, corrects facts by appending corrections, and answers questions *as of* a
pair of coordinates: when something was true (effective time) and when FDOS
knew it (knowledge time).

These modules model the part of it that carries the rules: coordinates, which
claims name one thing, provenance, money and the values that carry how they
were computed, the codecs, the ledger domain, the use cases, the use cases
running concurrently over the in-memory store and, in several processes, over
the SQLite store, how a database file is opened, and the submission service.
TLC checks small instances; TLAPS proves, for every instance, the properties of
the ledger, that the service over each store and the submission service implement
it, and what is promised of answers, database files, identity, confidence,
currencies, amounts, content addresses and codecs.

## The system

| part | source | state it keeps | operations | what makes it correct |
|---|---|---|---|---|
| bitemporal coordinates | `libs/kernel/temporal` | none (values) | `NewInterval`, `Contains`, `Visible`, `NewAsOf`, `Assign` | half-open intervals, the one-instant interval, nothing visible before it was known |
| ledger domain | `libs/ledger/domain` | a stream: facts in append order | `Append`, `Get`, `VisibleAt`, `Corrections`, `Resolve`, `MintFor`, `DeriveHoldingObserved`, `Unresolved`, `ProjectPosition` | deterministic order, references that never move, derivations that replay |
| use cases | `libs/ledger/app` | none of its own: store, clock, ruleset | `ObserveHolding`, `CorrectFact`, `AcceptHoldingClaim`, `MintIdentity`, `ObserveClaimedHolding`; queries `ProjectPosition`, `UnresolvedClaims` | each is atomic: what was decided from a stream still holds when its fact is appended |
| in-memory store | `libs/ledger/adapters/memory` | map of streams under a RWMutex; 256 mutexes shared by hash of the stream name | `Serialise`, `Load`, `Append` | no lost fact, no shared reference, no lasting lock |
| clock adapters | `libs/ledger/adapters/clock` | `Sequence`: its next instant | `Now` | none promised by the wall clock |
| SQLite store | `libs/ledger-sqlite` | one table; `user_version` | `Open`, `Serialise`, `Load`, `Append` | as the in-memory store, across processes and crashes |
| submission service | `apps/submitd` | requests in flight | `POST` to `AcceptHoldingClaim`, shutdown | a truthful answer for what was recorded |
| identity | `libs/kernel/identity`, `internal/framing` | none (values); the shipped rules | `NewClaim`, `NewRule`, `NewRuleset`, `CanonicalPreimage`, `DeriveFromClaim`, `Restore` | two claims resolve together exactly when they mint together; only spellings of one claim merge |
| provenance, explained values | `libs/kernel/provenance`, `explained` | none (values) | `Observed`, `Derived`, `NewDerivation`, `FromObservation`, `FromDerivation`, `Map`, `Combine2`, `Fold` | confidence is that of the weakest input; an address names one computation and decides its value |
| money | `libs/kernel/money` | none (values) | parsing, `Add`, `Sub`, `Mul`, `Neg`, `Div`, `RoundToScale`, rounding contexts | nothing is rounded unasked, currencies and units never mix |
| codecs | `libs/kernel-wire`, `libs/ledger-wire` | none | encode, decode | round trips; a missing field is never taken for a zero |
| analysers, scripts, contracts | `libs/analysis`, `scripts`, `libs/contracts` | none | syntax checks, CI, generated code | |

How they interact. A use case runs entirely inside `Store.Serialise(name, fn)`:
the store takes a lock (a mutex in memory, a `BEGIN IMMEDIATE` transaction in
SQLite) and calls back; inside, the use case loads the stream if it needs one,
decides, reads the clock, builds an envelope and calls `Store.Append` with an
`Expectation` (`Any` or `AtLength(n)`). The store assigns the reference and
checks the expectation and that knowledge time grows. `submitd` calls
`AcceptHoldingClaim`. Everything a query answers is a pure function of the
stream it loaded and the coordinate it was asked at.

Hard behaviours: writers interleave between load, clock and append; the wall
clock repeats and steps back (`clock.System` strips the monotonic reading);
unrelated streams share a mutex; facts arrive with effective times earlier than
facts already recorded, so "the first visible mint" can change; corrections
must cover what they correct; intervals may be open, closed or one instant;
processes sharing a file crash, time out and open it at the same moment; rows
go missing; producers miss answers and send again, and leave out fields no
contract requires; long chains of combinators accumulate digits, confidence and
currency; identity is decided on two paths that must agree.

## Modules

| module | models | uses |
|---|---|---|
| `Temporal` | `temporal.go` | |
| `Domain` | `libs/ledger/domain`, and what it needs of identity and confidence | `Temporal` |
| `Framing` | `internal/framing`, and texts | |
| `Identifiers` | claims and identifiers as values | `Framing` |
| `Identity` | canonicalisation rules, the floor, pre-images, minted identifiers | `Identifiers` |
| `Money` | `libs/kernel/money` over the decimals of apd | `Framing` |
| `Provenance` | `libs/kernel/provenance`: records, derivations, content addresses | `Framing`, `Temporal` |
| `Explained` | `libs/kernel/explained`, computing with all of the above | `Provenance`, `Money` |
| `Wire` | `libs/kernel-wire`, `libs/ledger-wire` | `Provenance`, `Money`, `Identifiers` |
| `Exchange` | a message between a producer and a decoder, for any producer; the values the constructors build | `Wire` |
| `Producers` | what a producer may make of a message | `Wire` |
| `UseCases` | `usecases.go` cut where it touches shared state; `Expectation`; what every store does in `Append` | `Domain` |
| `AtomicLedger` | the promise: one step per accepted use case, and the properties of what is recorded | `UseCases` |
| `MemoryLedger` | the use cases as concurrent calls over the in-memory store; refines `AtomicLedger` | `UseCases`, `INSTANCE AtomicLedger` |
| `SqliteLedger` | the use cases as calls of several processes over one SQLite file; refines `AtomicLedger` | `UseCases`, `INSTANCE AtomicLedger` |
| `SqliteOpen` | `Open` and `assertEncoding`: processes opening one file, statement by statement | |
| `Submission` | `submitd`, its producers and its shutdown, over one-step use cases; refines `AtomicLedger` | `UseCases`, `INSTANCE AtomicLedger` |
| `MCAtomicLedger` (with `Identity`), `MCMemoryLedger`, `MCSqliteLedger`, `MCSqliteOpen`, `MCSubmission`, `MCKernel` (`Explained`, `Exchange` and `Producers`) | the instances TLC checks | |
| `UseCasesProofs` | lemmas about the operators of the domain, the use cases and their drafts | `UseCases` |
| `AtomicLedgerProofs`, `MemoryLedgerProofs`, `SqliteLedgerProofs`, `SubmissionProofs` | theorems | the module each is named for, `UseCasesProofs` |
| `SqliteOpenProofs` | theorems | `SqliteOpen` |
| `IdentityProofs` | theorems, after lemmas about induction, texts, frames and sorting | `Identity`, `Provenance` |
| `KernelProofs` | theorems | `Explained`, `Exchange`, `IdentityProofs` |

Definitions whose name ends in `Fault` are wrong on purpose: each is the
definition it is named after with one plausible bug. Substituting one for its
original shows that a property notices it.

### State and actions

`AtomicLedger` has one variable, `log`, mapping each stream name to its facts;
an absent stream is an empty one (the code creates a stream on its first
append). Its five actions are the five write use cases. `Record` conjoins the
checks of the use case, in the code's order, with the append.

`MemoryLedger` gives each call a program counter:

    new -> enter -> load -> clock -> append -> leave -> done

`Invoke` is the call and the checks made before the region; `Enter` is
`streamLocks.hold`; `Load` is `Store.Load` and everything decided from the
stream; `ReadClock` is `clock.Now()` and the construction of the envelope;
`StoreAppend` is `Store.Append`, atomic in the code under `mu`; `Leave` is the
deferred unlock. `ObserveHolding` and `AcceptHoldingClaim` skip `load`. Any
refusal goes to `leave` with the error as the result. `steady`, chosen in the
initial state, says whether the clock is `clock.Sequence` or the system's.

`SqliteLedger` has the same use cases with other steps around them:

    new -> connect -> begin -> load -> clock -> append -> commit | rollback -> answer -> done

`Connect` takes the process's only connection (`SetMaxOpenConns(1)`), `Begin`
the write lock (`BEGIN IMMEDIATE`) and the rows as they then are; `Busy` is
`busy_timeout` running out; `Load` is `loadFrom`, `StoreAppend` is
`appendWithin`, both on the region's transaction; `Commit` publishes the
transaction's rows, `Rollback` is the deferred one; `Abort` is a statement or a
commit that fails and a cancelled context. `Crash` loses every call of a process
and its transaction, and keeps what was committed: a call that dies between
`Commit` and `Answer` was recorded and its caller does not know. A stream is a
function from the sequences present to facts, so that `LoseRow` can leave a gap,
which `LoadOutcome` and `AppendWithin` detect each in its own way.

`SqliteOpen` has the file (version, type of its columns, rows) and where each
process is in `Open`: closed, version, inspect, count, claim, schema, and then
open, refused or failed. Each step is one statement, because the code runs them
outside a transaction.

`Submission` has the log, the process (up, draining, closed), where each attempt
of each producer is, whether the producer still waits for it, and what its
handler answers. `Refuse`, `Accept` and `StoreFails` are the handler, `Write` the
response; `Signal`, `Shutdown` and `ShutdownTimeout` are `run` in `main.go`;
`Send`, `GiveUp` and `Crash` are the environment.

`Identity` has the claims stated so far; `NewClaim` states one, or refuses it.
A claim's value goes through the folds of its scheme's rule, unless nothing
would be left of it (`FoldClaim`), then through the scheme-blind floor, and the
framed seed is what is hashed. `MCAtomicLedger` takes the pre-images of its ledger from `Identity`, so
that the claims the ledger resolves are claims that go through these rules.

`Explained` has the values built so far. `FromObservation` and `FromDerivation`
lift a report, `Negate` and `RoundToScale` are `Map` with an operation of
`money`, `Total`, `Difference`, `Worth`, `PerUnit` and `CombineQuantities` are
`Combine2`, `Fold` is itself. An operation that returns an error builds nothing.
Four parts of a value exist only in the model: the computation (`how`), the
reports under it (`facts`), its value in unbounded arithmetic since the last
rounding (`exact`), and what the last rounding was asked (`asked`).

`Exchange` has the value sent, the message, how many fields were altered, and
what decoding returned. `Send` encodes, `Receive` decodes, and `Alter` is a
producer that leaves a field out, sends an impossible timestamp or announces
another type.

Abstractions. Instants are natural numbers, 0 the unset one. In the models of
the stores and of the service a claim is a model value and `Preimage` says which
claims have one canonical form; an identity is the pair of its kind and the
pre-image it is derived from (the code hashes them). Where text matters it is a
sequence of ASCII codes; Unicode normalisation and case beyond ASCII are left
out. A hash stands for what it hashes, so collisions of SHA-1 and SHA-256 are
left out; the encoding of a length is one symbol; a digest has `DigestLength`
digits, two where the code has 64. Decimals are a coefficient and an exponent,
as in apd (external, with its rounding modes); the sign of zero is left out. A derivation is kept as the inputs it names and its as-of
coordinate, where the code keeps a hash of them. Sources, interpreters,
reasons and reference bindings decide nothing beyond being present
(`complete`) or well formed (`addressed`).

## Runs

| run | shows |
|---|---|
| `atomic` | over observations and corrections, or claims, mints, retracted mints and derivations: `KnowledgeMonotonic`, `RefsAreStable`, `PastIsFixed`, `RetractionCoversItsFact`, `MintFindsNoMint`, `DerivationReplays`, `DerivedNamesItsClaim`, `AnsweredUntilRetracted`; over pairs of claims: `ResolvedAsMinted`, `MergesAreSpellings`, `UnruledKeepSpaces` |
| `memory` | three concurrent calls implement `AtomicLedger`; `AnswersMatchLog`, `NoStaleReads`; with a steady clock `NoWriterRefusedForAnother`; under fairness `EveryCallReturns` |
| `sqlite_shared` | two processes over one file, any clock, one crash at any step: `ImplementsAtomic`, `AnswersAreDurable`, `RecordedFactsLoad` |
| `sqlite_steady` | with a steady clock, one crash and one lost row: `NoWriterRefusedForAnother`, `EveryCallReturns`, `LoadedAsStored`, `GapIsNotExtended` |
| `sqlite_open` | three processes opening, closing and writing to files of every age: `OldRowsStayShut`, `RowsAreNeverLost` |
| `submission` | resends, lost answers, crashes and shutdown: `ImplementsAtomic`, `AnswersAreTrue`, `DuplicatesAreMissedAnswers`, `ShutdownSettles` |
| `kernel` | over chains of combinators: `AddressNamesComputation`, `AddressDecidesValue`, `WeakestReportDecides`, `NothingLostUnasked`, `CurrenciesStayApart`, `RoundedAsAsked`; over messages, sound and altered: `RoundTrips`, `NothingInvented` |
| `mint_confidence`, `retracted_mint`, `joined_address`, `sqlite_unnamed`, `sqlite_refusal` | five places where the code does not do what a comment or the conformance suite says (below) |

Bounds. Readings and moments are the instants 1..4 to 1..6 for `AtomicLedger`:
enough for a stream of four to six facts, with intervals that begin before, at
and after one another and queries on every bound. The knowledge order bounds the
length of a stream by the number of readings, so the state spaces are finite
without further constraint. `AtomicLedger` stops when the readings are used up,
hence no deadlock check there. The properties of `Identity` compare claims in
pairs, so `MaxStated` is two; every value of up to three characters is stated
under a scheme with a rule, one without and one that holds the separator. In
`kernel` four values are enough to lift two reports, combine them and combine
the result; `MaxPrecision` is three
where the code has 96, so that sums fit and products overflow; messages differ
in up to two fields, for one omission may hide another. Behaviours end when the
bound is met, hence no deadlock check there. Two spellings of one claim and one claim of
another thing tell matching by pre-image from matching by bytes and from
matching anything. Three calls are enough for one to be overtaken by another
while a third waits; with SQLite two of them share a process (and its
connection) and the third runs in another. Requests that differ in nothing are
interchangeable, so symmetry over them is sound; it is not used where a liveness
property is checked, and `memory` checks one. Streams `s1` and `s2` share a mutex in the model because
two names may share a shard. `MaxCrashes` and `MaxLosses` are one each: a second
crash finds the state a first one leaves, since a restarted process keeps
nothing. `HalfRange` stands for 2^63; the readings stay inside it. `MaxRows` is
three: one row of each origin and one more. In `Submission` one producer sends up
to three times and two whose submissions are refused send once; two readings let
two attempts be recorded and a third meet the monotonicity check. The service
ends for good after a shutdown, hence no deadlock check there.

Fairness. `FairSpec` asks weak fairness of each call's own steps after it was
invoked: a runnable goroutine runs. Nothing obliges a caller to call, a wait to
time out or a process to crash. A waiting `Enter`, `Connect` or `Begin` is not
continuously enabled, but each call holds its mutex, connection or lock once, and
there are finitely many calls, so weak fairness is enough. In `Submission`
handlers and `Shutdown` are weakly fair; producers, signals, crashes and the ten
seconds' timeout are not.

### Where comments and code part

Shown by a run:

* `mint_confidence`: `resolve.go` says "Confidence propagates as the weakest
  input"; `DeriveHoldingObserved` names the claim and both mints as inputs and
  takes the claim's confidence, so an observation derived through an inferred
  mint is recorded as well as its claim (`WeakestInputDecides`).
* `retracted_mint`: `identity.go` says resolution goes through recorded assertions
  "so that a wrong match is a fact that can be retracted rather than a computation
  that cannot be undone". Projections leave retracted facts out; `resolveWithTrace`
  reads mints and never corrections, so an observation is derived through a mint
  whose retraction is recorded and known at its coordinate
  (`RetractedMintsAnswerNothing`). `AnsweredUntilRetracted` is what resolution
  promises either way: nothing short of a retraction takes an answer back.
* `joined_address`: `contentAddress` frames its parts so that none runs into the
  next, but first joins a dataset to its version (and a method to its version)
  with "@", which neither may be refused for holding. Two derivations over
  different bindings can share an address (`AddressNamesComputation`).
* `sqlite_unnamed`: `appendWithin` does not look at the stream's name and
  `loadFrom` refuses the empty one, so a fact on the stream "" is committed and
  never loads. `storetest.go` says "Nothing is lost or altered in the round
  trip"; the in-memory store refuses the append.
* `sqlite_refusal`: `assertEncoding` reads the version and counts the rows in
  separate statements. A process that read version zero before another claimed
  the file and wrote to it refuses a sound file with `ErrEncodingVersion`.

Met while modelling, and visible in the definitions named, without a run:

* `MintIdentity`: `claimed.go` says "Exactly one mint per ID". The use case
  resolves only at the instant its own interval begins, so a mint backdated
  before an existing one mints the same identity again. What does hold, and is
  proved, is `MintFindsNoMint`.
* `Resolves`: `canonical.go` says pre-images are compared for claims already
  known to share a kind; the code compares them whatever the kind of the mint, so
  a claim of an instrument can be answered by a mint of a party and an observation
  recorded for it. `DerivedNamesItsClaim` says what holds where the kinds agree:
  the observation names the very identities `DeriveFromClaim` gives its claim.
* `Claim` and `Schema` of `SqliteOpen`: a table the old build created and never
  wrote to is claimed ("Empty, so there is nothing to misorder") and keeps its TEXT
  columns, so that integers are stored as digits.
* `Quantized`: apd's `Quantize` makes an amount of fewer digits than it has to drop
  zero without asking the rounding mode. `RoundToScale` of 0.05 or of -0.05 to whole
  units is 0 under every mode, where up, ceiling or floor ask for a unit
  (`rounding.go` says of up "away from zero"). `RoundedAsAsked` has that case as its stated exception.
* `AppendOutcome`: `ports.go` says one writer satisfies monotonicity by
  construction; a wall clock that repeats or steps back refuses a lone writer.
* `Nanos`: `store.go` says no fact can lie outside the range of int64
  nanoseconds because `temporal.At` goes through `time.Time`; `time.Time` is
  wider. The `effective_from` column wraps; this store never reads it.
* `StatusFor`: a submission without `collected_at` decodes, `provenance.Observed`
  refuses it with an error `statusFor` does not list, and the producer gets a 500.
* `DecodeProvenance`: a `published_at` that is no instant is dropped without an
  error, where every other malformed timestamp is refused.
* `ApdRounder`: `rounding.go` says a rounding context made by struct literal
  "will fail"; `apdContext` falls back to one digit and traps neither rounding
  nor inexactness, so `Div` answers, rounded half up.
* `Fold`: the seed and the function are not in the record, so an address decides
  the value only for callers that name both in the method. `NewDerivation` sorts
  parameters and bindings by name only: two with one name keep their order, and
  the address with it.
* `Joined` (`Claim.String`, and the legible seed): "a:b" with value "c" and "a"
  with value "b:c" read the same. Only the framed pre-image is ever compared.
* `DecodeQuantity`: the use cases accept a zero `Quantity{}`, the codec writes it
  and refuses to read it, and a stream that holds one in SQLite no longer loads.

## Proofs

TLAPS proves the theorems below for every set of streams, claims, commands,
readings, requests, processes, producers, files, reports and rounding contexts,
where the runs check small ones. The assumptions are those of the modules:
commands, submissions and readings have their types (`CommandsAssumption`,
`SubmissionAssumption`, `ReadingsAssumption`, `MomentsAssumption`), the zero
claim is no claim (`DomainAssumption`), a stream has a mutex and "nobody" is no
request (`RequestsAssumption`), the readings fit an int64 of nanoseconds
(`HalfRangeAssumption`), and a file found on disk holds rows only in a table, and
text only when it was not marked as holding integers (`FilesAssumption`), claims are
texts and rules are those `NewRuleset` accepts (`StatementsAssumption`,
`RulesetAssumption`), what is reported, derived and rounded with was built by a
constructor or is the zero context of a Go literal (`ReportsAssumption`,
`ContextsAssumption`, `PrecisionAssumption`), and so was what is sent
(`OutgoingAssumption`). Any other hypothesis is part of the theorem's statement.

| module | theorem | property | says |
|---|---|---|---|
| `AtomicLedgerProofs` | `TypeCorrect` | `TypeOK` | the log holds well-formed facts |
| | `KnowledgeOrder` | `KnowledgeMonotonic` | facts of a stream are known in the order they were appended |
| | `StableReferences` | `RefsAreStable` | a reference names the same fact for ever |
| | `NoLookAhead` | `PastIsFixed` | what was visible at a coordinate already passed never changes |
| | `NoDuplicateMint` | `MintFindsNoMint` | no mint begins while an earlier one for the same thing is in force |
| | `RetractionsAreComplete` | `RetractionCoversItsFact` | a retraction removes its observation from every projection from the moment it is known, and from none before |
| | `DerivationsReplay` | `DerivationReplays` | a derived observation is what its inputs derive today at the coordinate it records |
| | `DerivationsNameTheirClaim` | `DerivedNamesItsClaim` | where the mints behind it are of the claim's kinds, a derived observation is recorded for the identities, kind and pre-image, its claim would have been minted |
| | `AnswersStand` | `AnsweredUntilRetracted` | a claim once answered waits again only if every mint that answered it was retracted |
| `MemoryLedgerProofs` | `TypeCorrect` | `TypeOK` | |
| | `ServiceIsAtomic` | `ImplementsAtomic` | concurrent calls over the in-memory store implement `AtomicLedger` |
| | `ReadsStayFresh` | `NoStaleReads` | no append is refused because the stream moved since it was read |
| | `SteadyWritersAreIndependent` | `NoWriterRefusedForAnother` | with a steady clock no writer is refused for another's sake |
| | `AnswersAreFacts` | `AnswersMatchLog` | answers and facts correspond one to one |
| `SqliteOpenProofs` | `OldFilesStayShut` | `OldRowsStayShut` | a file with text rows is never opened, however processes race |
| | `RowsAreKept` | `RowsAreNeverLost` | opening and writing keep every row |
| `SqliteLedgerProofs` | `LoadsAreFaithful` | `LoadedAsStored` | a load returns the committed rows or an error, whatever was lost |
| | `GapsStay` | `GapIsNotExtended` | nothing is appended to a stream with a missing row |
| | `SteadyWritersAreIndependent` | `NoWriterRefusedForAnother` | if `SteadyClock` |
| | `CommittedFactsLoad` | `RecordedFactsLoad` | if no row is lost (`MaxLosses = 0`) and no stream has the empty name |
| | `ServiceIsAtomic` | `ImplementsAtomic` | processes over one file, crashing at any step, implement `AtomicLedger`; same hypotheses |
| | `AnswersSurvive` | `AnswersAreDurable` | if no row is lost, for finitely many requests |
| `SubmissionProofs` | `ServiceIsAtomic` | `ImplementsAtomic` | the submission service implements `AtomicLedger` |
| | `AnswersAreFacts` | `AnswersAreTrue` | every 201 names a recorded claim and no two the same; for finitely many producers |
| | `DuplicatesHaveACause` | `DuplicatesAreMissedAnswers` | a claim is recorded twice only for an answer that was missed |
| `IdentityProofs` | `ResolutionAgreesWithMinting` | `ResolvedAsMinted` | claims resolve together exactly when they mint together |
| | `SpellingsAlone` | `MergesAreSpellings` | only spellings of one claim merge |
| | `SpacesOfUnruledKept` | `UnruledKeepSpaces` | without a rule a value keeps its spaces; if no rule is for a scheme with whitespace in its name (`RulesSolid`) |
| `KernelProofs` | `ConfidenceIsTheWeakest` | `WeakestReportDecides` | a value is as trustworthy as the weakest report under it |
| | `CurrenciesNeverMix` | `CurrenciesStayApart` | money of one currency never reaches a value in another |
| | `NothingIsLost` | `NothingLostUnasked` | a value is what unbounded arithmetic gives, up to the last rounding asked for |
| | `AddressesDecide` | `AddressDecidesValue` | values of one content address are one value; if a reference names one amount (`OneAmountEach`) |
| | `AddressesName` | `AddressNamesComputation` | values share an address exactly when they were computed alike; if every record is clear (`DerivationsClear`) |
| | `CodecsRoundTrip` | `RoundTrips` | every fact, submission, rounding context and amount decodes from its encoding to itself |
| | `DecodingInventsNothing` | `NothingInvented` | a message that is accepted is the encoding of what it was accepted as; if producers keep the contracts (`ContractKept`) |

The hypotheses are the code's own limits, not the prover's. The two conditions
on SQLite's `ServiceIsAtomic` and `CommittedFactsLoad` are exactly the two ways a
committed fact stops loading: a row lost under the store, and the empty stream
name that `sqlite_unnamed` shows. A finite set of requests is what makes
"as many facts as answers" a statement about numbers. `RulesSolid` holds of the
deployed rules (`DeployedSolid`); a rule for a scheme named with two spaces would
fold claims of that scheme and leave alone those of the scheme with one, which the
floor does not tell apart. `OneAmountEach` says that a reference, which is the
address of a record that never changes, stands for one amount. `DerivationsClear`
says that no list names a parameter or a dataset twice, because `NewDerivation`
sorts by name alone, and that no dataset holds the "@" of `BindingText`, which
`joined_address` shows to be needed. `ContractKept` says that what a producer makes
of a message still has the fields its type has, each of them filled or not, a list
of bindings where there is one, and amounts spelled as `Text('f')` spells them:
`Parse` also accepts leading zeros, which are not written back, and a minus before
zero, whose sign the model leaves out. A payload whose `Any` names a type nobody
knows may have any fields. The instance of `kernel` meets all three.

**`AtomicLedger`.** The inductive invariant is `LedgerInv`: types, every fact
addressed by its position (`Addressed`), and knowledge times increasing. Addresses
are needed because resolution picks the first fact of an order whose last
tiebreaker is the sequence (`FirstOfIsFirst` shows the choice exists, from the
well-ordering of the naturals); types depend on that choice through
`DeriveHoldingObserved`. `RecordAppends` reduces every use case to "append one
well-formed later fact", and the order, stability and look-ahead theorems follow
from that alone. `MintFindsNoMint` is inductive relative to `LedgerInv`: a mint is
appended only when nothing resolved at its coordinate, and because knowledge grows
along the stream every earlier mint is already known there, so the only reason it
did not resolve is that it does not cover the instant where the new one begins.
`RetractionCoversItsFact` needs that every correction is about an earlier fact of its
stream and in force exactly as long as that fact (`CorrectionsCover`). `DerivationReplays` holds because the
coordinate a derivation records is one whose past is fixed: the facts visible at
it are the same in every longer stream, and so is the choice among them.
`DerivedNamesItsClaim` needs that a mint's identity is derived from its own claim
(`MintsNameTheirClaim`): a mint of the claim's pre-image and of the kind asked for
then has the identity the claim itself would have been given. `AnsweredUntilRetracted`
follows from `LedgerInv`: a mint visible at some knowledge is visible at every later
one, and no other mint stands in its way (`AnsweredStays`).

**`MemoryLedger`.** Mutual exclusion. `Control`: a request in its region holds the
mutex of its stream. `Fresh`: so what it loaded is still the stream, and what it
decided still holds. Then `StoreAppend` is a step of `AtomicLedger` and every other
step stutters. `Ahead` adds that a steady clock read inside the region is ahead of
the stream. `AnswersMatchLog` is inductive relative to these: each append adds one
fact and one answer that names it, and a reference to the end of a stream is new.

**`SqliteOpen`.** `Open` decides from a version, a schema and a count read at three
different times. `Shut` makes it safe: text is never written any more, so a file
with old rows already had them when the process first looked, and nobody gets past
the count.

**`SqliteLedger`.** The write lock admits one transaction, so the rows it sees are
the committed ones until it commits (`Fresh`); rows are keyed by the sequence their
fact carries, and a contiguous table is the sequence of its facts, which is the
refinement mapping. While no row is lost no table has a gap (`NoGaps`), a call about to
commit promises the row it will insert and one that rolls back promises none
(`Promised`), an answered reference stays committed, and every row was promised by
one call, answered, answering or lost (`Accounted`).

**`Submission`.** An attempt is handled once and its answer never changes
(`Handled`); an answer names its fact and facts are told once (`Truthful`); an
attempt is sent only after every earlier one failed or was given up (`Ordered`).

**`Identity`.** Everything here is about texts of any length, so it is proved by
induction: over a set of numbers, which the well-ordering of the naturals gives
without a theorem of the library that takes an operator (`Induction`,
`BoundedInduction`), and for recursive functions by showing that one exists
(`Recursion`). A frame is injective (`FrameOnce`): the tag and every component are
led by their length, so they are read back one by one. The floor `CanonicaliseSeed`
keeps the letters of a text and one space where there were some (`Letters`, `Gaps`),
and a rule's fold keeps the letters. With that the pre-image of a claim says the
letters of its scheme and of its value, in two components; it is also all that an
identifier says besides its kind.

**`Explained`.** A step adds one value whose confidence and reports come from the
values it is made of (`ComputeAdds`). Confidence is inductive as `Weighed`;
currencies need that a value that is not money rests on no money (`Pure`), or a
product would bring in the currencies under its quantity. `NothingIsLost` is
inductive as `AllSound`, which is stronger: value and exact value are one decimal,
because what the exact context does not refuse has few enough digits to be left
alone (`FittedExactly`). For the two address theorems every value is `Known`: it was
lifted from a report, or made by one method from values there were, with the rounding
it records. `AddressOnce` reads method, inputs, confidence, parameters and bindings
back from an address; a list whose keys are distinct is sorted into one list whatever
its order (`SortedOnce`); a rounding context has a text of its own
(`ContextTextOnce`). Then two values of one address were made by one method from
inputs of the same addresses, and the invariant for the inputs decides.

**`Exchange`.** `Claims`, `EntityIDs`, `Quantities`, `Provenances`, `Payloads` and
`Facts` are the sets of all values the constructors build; `OutgoingAssumption` says
that what is sent is among them. One lemma for each codec (`ClaimTrip` to `FactTrip`
and `SubmissionTrip`) shows that decoding an encoded value yields the set of that one
value, from the leaves up: enums are numbered both ways alike, text spells a decimal
and nothing but a positive exponent is lost (`DecimalTrip`), an absent field is told
from a zero. `Carried` says that a message nobody altered is the one that was written.
What a producer alters (`Altered`) is arbitrary here.

`DecodingInventsNothing` goes the other way. One lemma for each codec (`ClaimBack` to
`FactBack` and `SubmissionBack`) takes a message with the fields of its contract and
a value among those it decodes to, and shows that the value encodes to that message:
a number names one member of an enum and that member has the number, an absent
timestamp is the only one decoded as `Unset`, a text is parsed into the decimal it
spells. Only a time of publication that is no instant is dropped (`Legible`). `Kept`
says that what is on its way has the fields of what was sent: `OutgoingKeeps` shows it
of what is written, `ContractKept` of what producers make of it.

`UseCasesProofs` holds what the proofs about the ledger share: what the operators of
`Domain` return, that resolution's choice exists, that every draft becomes a
well-formed fact, and what an append does to a stream. A theorem of an instantiated
module cannot be cited in the prover, so that the properties of `AtomicLedger` hold
of the implementations follows from `ServiceIsAtomic` by substitution and is not a
machine-checked step of its own.

Only model-checked:

* `EveryCallReturns` (both stores) and `ShutdownSettles`: liveness under fairness
  is outside the prover.
* `RoundedAsAsked` of `Explained`: where a mode puts a quotient is a statement about
  products of coefficients and powers of ten, which is beyond the provers' linear
  arithmetic; and `Quo` looks for its shift in a range that fits the digits of the
  instance.
* What the five runs that expect a violation refute.

## Plan

1. (done) `Temporal`, `Domain`, `UseCases`, `AtomicLedger`, `MemoryLedger`,
   their runs, the theorems above.
2. (done) `SqliteLedger` and `SqliteOpen`.
3. (done) `Submission`.
4. (done) `Framing`, `Identity`, `Money`, `Provenance`, `Explained`, `Wire`,
   `Exchange`.
5. (done) Theorems: all the safety properties of `AtomicLedger`, `MemoryLedger`,
   `SqliteOpen`, `SqliteLedger` and `Submission`, their three refinements, and
   confidence, currency, exactness and content addresses in `Explained`, all of
   `Identity`, and the codecs in both directions.
6. Worth proving next: where a rounding mode puts a quotient (`RoundedAsAsked`),
   which needs lemmas about products and powers that the provers do not have.

## Not modelled

Static analysers, scripts and generated contracts have no state of the ledger;
the example producer is one caller of the submission service, and `Submission`
and `Exchange` model any. The conformance suite (`storetest`) is a test. In the
models of the stores what is encoded is what is decoded, which `CodecsRoundTrip`
proves for what the constructors build. `Explained` computes with the
operations of `money`; `Map`, `Combine2` and `Fold` take any function, and the
properties hold of those that are total or return an error. Panics inside a region
and the RWMutex between readers are left out: queries are atomic reads of an
immutable stream value. Context cancellation appears in `SqliteLedger` (`Abort`)
and `Submission` (`StoreFails`); the in-memory store ignores the
context. Nested regions are refused by the code and
asked for by no use case. A lost row that was the last of its stream leaves no
gap, and the code, like the model, cannot tell. `ObserveHolding` is given
identities and quantities that are set. `Submission` has no stream with the
empty name; what becomes of that one is `sqlite_unnamed`.

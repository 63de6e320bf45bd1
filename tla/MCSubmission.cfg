SPECIFICATION FairSpec
CONSTANTS
  s1 = s1
  anon = anon
  petr4 = petr4
  vale3 = vale3
  good = good
  bad = bad
  plain = plain
  NoClaim = NoClaim
  Streams = {s1}
  EmptyName = anon
  Claims = {petr4, vale3}
  Preimage <- MCPreimage
  Quantities = {100}
  Producers = {good, bad, plain}
  Submission <- MCSubmission
  MaxAttempts <- MCMaxAttempts
  Readings = {1, 2}
CHECK_DEADLOCK FALSE
INVARIANTS
  AnswersAreTrue
  DuplicatesAreMissedAnswers
PROPERTIES
  ImplementsAtomic
  ShutdownSettles

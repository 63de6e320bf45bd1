SPECIFICATION MCSpec
CONSTANTS
  s1 = s1
  s2 = s2
  anon = anon
  Streams = {s1, s2, anon}
  EmptyName = anon
  NoClaim <- ZeroClaim
  Claims <- MCClaims
  Preimage <- MCPreimage
  Quantities <- MCQuantities
  Ruleset <- MCRuleset
  Statements <- MCStatements
  MaxStated = 2
  Commands <- MCCommands
  Readings = {1, 2, 3, 4, 5, 6}
  Moments = {1, 2, 3, 4, 5}
INVARIANT RetractedMintsAnswerNothing
CHECK_DEADLOCK FALSE

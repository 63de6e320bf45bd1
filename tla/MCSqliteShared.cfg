SPECIFICATION Spec
CONSTANTS
  s1 = s1
  s2 = s2
  anon = anon
  petr4 = petr4
  p1 = p1
  p2 = p2
  r1 = r1
  r2 = r2
  r3 = r3
  Free = Free
  NoClaim = NoClaim
  Streams = {s1, s2}
  EmptyName = anon
  Claims = {petr4}
  Preimage <- MCPreimage
  Quantities = {100}
  Processes = {p1, p2}
  Requests = {r1, r2, r3}
  Host <- MCHost
  Commands <- SharedCommands
  Readings = {1, 2, 3}
  SteadyClock = FALSE
  HalfRange = 100
  MaxCrashes = 1
  MaxLosses = 0
SYMMETRY Symmetry
INVARIANTS
  AnswersAreDurable
  RecordedFactsLoad
PROPERTIES
  ImplementsAtomic

SPECIFICATION Spec
CONSTANTS
  s1 = s1
  s2 = s2
  anon = anon
  petr4 = petr4
  p1 = p1
  p2 = p2
  r1 = r1
  r2 = r2
  r3 = r3
  Free = Free
  NoClaim = NoClaim
  Streams = {s1, anon}
  EmptyName = anon
  Claims = {petr4}
  Preimage <- MCPreimage
  Quantities = {100}
  Processes = {p1, p2}
  Requests = {r1, r2}
  Host <- MCHost
  Commands <- UnnamedCommands
  Readings = {1, 2}
  SteadyClock = FALSE
  HalfRange = 100
  MaxCrashes = 0
  MaxLosses = 0
INVARIANTS
  RecordedFactsLoad

SPECIFICATION FairSpec
CONSTANTS
  s1 = s1
  s2 = s2
  anon = anon
  petr4 = petr4
  PETR4 = PETR4
  m0 = m0
  m1 = m1
  r1 = r1
  r2 = r2
  r3 = r3
  Free = Free
  NoClaim = NoClaim
  Streams = {s1, s2, anon}
  EmptyName = anon
  Claims <- MCClaims
  Preimage <- MCPreimage
  Quantities <- MCQuantities
  Shards = {m0, m1}
  Shard <- MCShard
  Requests = {r1, r2, r3}
  Commands <- MixedCommands
  Readings = {1, 2, 3}
INVARIANTS
  TypeOK
  AnswersMatchLog
  NoStaleReads
  NoWriterRefusedForAnother
PROPERTIES
  ImplementsAtomic
  EveryCallReturns

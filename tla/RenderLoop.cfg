CONSTANTS
  Keys = {k1}
  Lists = {a}
  NoList = NoList
  Workers = {w1}
  Loop = loop
  Threads = {w1, loop}
  TemplateSets = {t1, t2}
  Bases = {b1, b2}
  None = None
SPECIFICATION FairSpec
INVARIANTS
  TypeOK
  FileFollowsInputs
  TimerNeverBlocks
  MemoryMatchesDisk
PROPERTIES
  Converges
  ShutdownEnds

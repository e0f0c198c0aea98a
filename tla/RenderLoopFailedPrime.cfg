CONSTANTS
  Keys = {k1}
  Lists = {a}
  NoList = NoList
  Workers = {w1}
  Loop = loop
  Threads = {w1, loop}
  TemplateSets = {t1}
  Bases = {b1}
  None = None
SPECIFICATION Spec
PROPERTIES
  FailedPrimeWaits

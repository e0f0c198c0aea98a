CONSTANTS
  k1 = k1
  k2 = k2
  w1 = w1
  w2 = w2
  o1 = o1
  o2 = o2
  ns = ns
  near = near
  far = far
  c1 = c1
  c2 = c2
  Keys = {k1}
  Workers = {w1}
  Loop = loop
  Threads = {w1, loop}
  Lists <- DerivedLists
  NoList = NoList
  TemplateSets = {t1}
  Bases = {b1}
  None = None
  Objects = {o1}
  Absent = Absent
  Unmonitored = Unmonitored
  Unread = Unread
  Resources = {ns}
  Backends = {}
  States <- LabelsChange
  Unselected = Unselected
  Missing = Missing
  Unreadable = Unreadable
  Lookups <- LooksUpNamespace
  Follows <- FollowsNamespace
  Owner <- OneKind
  Sweep <- SweepOne
  Idle = Idle
SPECIFICATION OnlyTheRegistryWakes
PROPERTIES
  FileFollowsCluster

CONSTANTS
  Contents = {a, b}
  Nothing = Nothing
  Partial = Partial
  Inodes = {i1, i2, i3, i4}
SPECIFICATION Spec
SYMMETRY Symmetry
INVARIANTS
  TypeOK
  ReaderFindsWholeFile
  ResultTellsTheFile
  LastIsPublished
  NoLeftovers
PROPERTIES
  NoNeedlessReload
  AtomicFileSpec

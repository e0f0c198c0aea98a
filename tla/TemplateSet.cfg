CONSTANTS
  Names = {a, b, c}
  Unknown = {x}
  Parents <- AtMostTwo
  None = None
  Unset = Unset
SPECIFICATION Spec
SYMMETRY Symmetry
INVARIANTS
  TypeOK
  BodiesAreRight
  FailuresAreRight
  StackHasNoRepeats
PROPERTIES
  CallsReturn

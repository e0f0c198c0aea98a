CONSTANTS
  Inputs <- DedupAndLayers
  DefaultScheme = "http"
  NoScheme = NoScheme
  NoURL = NoURL
  NoHost = NoHost
  NoTemplates = NoTemplates
SPECIFICATION Spec
INVARIANTS
  TypeOK
  UnpatchedEndpointsAreDistinct
  NoWarningMeansAllChecked
  ServiceTakesPrecedence
  FieldsFollowPrecedence

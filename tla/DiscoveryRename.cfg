CONSTANTS
  Malformed = Malformed
  Null = Null
  Nil = Nil
  Unparsable = Unparsable
  Blank = Blank
  NoService = NoService
  Objects <- MCObjects
  Trees <- MCTrees
  Height <- MCHeight
  Depth <- MCDepth
  Wildcards = {"*", "{x}"}
  Unrooted = {"ui", "health"}
  Sources <- MCSources
  AnnotationsOf <- MCAnnotationsOf
  RulesOf <- MCRulesOf
  OwnServicesOf <- MCOwnServicesOf
  ListenersOf <- MCListenersOf
  MaxRules = 2
  ServiceRefs <- MCServiceRefs
  ServicesOf <- MCServicesOf
  Unselected = Unselected
  NsGroups = {"", "Ours", Unselected}
  AllFlags <- MCFlags
  Displayed <- Names
SPECIFICATION Spec
PROPERTIES
  AddingAPathNeverRenames

CONSTANTS
  MaxGeneration = 2
  MaxLag = 2
SPECIFICATION FairSpec
INVARIANTS
  TypeOK
  QuietMeansTrue
PROPERTIES
  FeedbackEnds

SPECIFICATION FairSpec
CONSTANTS
  NumSlides = 4
  NoLimit = NoLimit
  UserLimit = 3
  GroupLimit = 2
  SystemLimit = 2
INVARIANTS TypeOK OneAttempt NoneLost FailedIsCounted
PROPERTIES ImplementsMap

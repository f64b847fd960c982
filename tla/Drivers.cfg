CONSTANTS
  KeyOrder <- MCKeyOrder
  KeyFor <- MCKeyFor
  NameOf <- MCNameOf
  AttrsOf <- MCAttrsOf
  RootOf <- MCRootOf
  ParentOf <- MCParentOf
  Segments <- MCSegments
  AttrMap <- MCAttrMap
  PathKeys <- MCPathKeys
  Occurs <- MCOccurs
  Like <- MCLike
  ILike <- MCILike
  Filters <- MCFilters
  JobLimits <- MCLimits
  GroupLimits <- MCLimits
  AttrLimits <- MCLimits
  Retentions <- MCRetentions
  Sinces <- MCSinces
  Nanos = 2
  MaxSpan = 1000
  MaxBuckets = 1
  Bucket = 2
  StaleAfter = 1
  Genesis = 5
  MaxClock = 7
  Budgets <- MCBudgets
SPECIFICATION Spec
INVARIANTS TypeOK DriversAgree DerivedColumns AttemptsFollowJobs NamesLast ListingsAgree ReadsAgree TimelineAccounts
PROPERTIES RoundingSpares IdleBeforePruned
CHECK_DEADLOCK FALSE

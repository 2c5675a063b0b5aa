SPECIFICATION FairSpec
CONSTANTS
  Capacity = 2
  IntLimit = 4
  MaxEntries = 6
  MaxAsked = 4
INVARIANTS
  TypeOK
  WindowInPlace
  CopiesWhatWasAsked
  SkipsOnlyOverwritten
  NullOnlyIfOutrun
PROPERTIES
  ImplementsAnswers
  LogRequestReturns

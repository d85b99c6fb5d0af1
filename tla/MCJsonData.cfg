SPECIFICATION MCSpec
CONSTANTS
  Item = {"null", "x"}
  Key = {"a", "b"}
  MaxSize = 3
  Comment = {"c"}
  SparseArrays = FALSE
  Beyond = 47
  Documents <- MCDocuments
  Values <- MCValues
  Texts <- MCTexts
  maxLargestInt = 32767
  maxInt = 127
  maxDouble = 327670
  maxIntOfValue = 3
  maxInt64OfValue = 15
  Exact = 8
  double <- MCdouble
  Reals <- MCReals
  Characters = {".", "[", "]", "%", "0", "1", "2", "a", "b", "NUL"}
  Paths <- MCPaths
  Parameters <- MCParameters
  Roots <- MCRoots
  ArrayIndexes = 11
INVARIANTS
  LocationsAreRight
  LexesWhatWasWritten
  RoundTrip
  ExactOrReal
  ConvertibleConverts
  MakeIsAllOrNothing
PROPERTY
  IsContainer
CHECK_DEADLOCK FALSE

SPECIFICATION Spec
CONSTANTS
  N = 2
  Cap = 5
  Sizes = {2, 3}
  ReadSizes = {1}
  WrapMod = 2
INVARIANTS RegionsAreExclusive FetchIsCommitted AvailIsSane WarpEndIsNotShared
PROPERTIES RestIsReadable ImplementsQueue

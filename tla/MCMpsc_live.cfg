SPECIFICATION FairSpec
CONSTANTS
  N = 2
  Cap = 5
  Sizes = {2}
  ReadSizes = {2}
  WrapMod = 2
PROPERTIES CallsReturn

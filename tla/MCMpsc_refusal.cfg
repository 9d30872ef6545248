SPECIFICATION Spec
CONSTANTS
  N = 1
  Cap = 6
  Sizes = {4}
  ReadSizes = {4}
  WrapMod = 2
PROPERTIES RefusesOnlyForSpace

SPECIFICATION MCSpec
CONSTANTS
  Byte = {0, 1}
  Cap = 2
  IndexMod = 4
  MaxSize = 2
  Policies = {"OVERWRITE"}
  Serialized = {}
INVARIANTS AvailWithinCap

SPECIFICATION MCSpec
CONSTANTS
  Byte = {0, 1}
  Cap = 2
  IndexMod = 4
  MaxSize = 3
  Policies = {"TRUNCATE", "OVERWRITE", "REJECT"}
  Serialized = {"OVERWRITE"}
INVARIANTS TypeOK CallsAreBacked AvailWithinCap FillsFreeCells FetchesStableCells
PROPERTIES StaleViewIsSafe ImplementsByteFifo

SPECIFICATION FairSpec
CONSTANTS
  Producers = {1, 2}
  Cap = 9
  Header = 2
  Payloads = {1, 2}
  Modes = {"SYNC", "ASYNC"}
  MaxRecords = 3
INVARIANTS HeaderBelongsToPayload
PROPERTIES TransferIsUndisturbed ImplementsJournal EveryRecordArrives

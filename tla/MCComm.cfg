SPECIFICATION Spec
CONSTANTS
  Blocks = {b1, b2}
  NoBlock = NoBlock
  RingLen = 2
  MaxCalls = 4
  Systems = {"linux", "windows"}
  ShmCap = 2
  MaxStarts = 4
  MaxObjects = 2
  MaxRecords = 3
  Chs = {c1, c2}
  Sockets = {s1, s2}
  NoSocket = NoSocket
  Timeouts = {0, 1, 2, 5}
  Word = 8
  Kilo = 2
  Sec = 2
  Exact = 5
  MaxWait = 15
  MaxResps = 2
  Points = 4
  MaxSamples = 12
INVARIANTS RequestsEndOnce OwnCompletionOrLeftover RecordsSurvive SocketsAreOwned GivesUpInTime SpectrumIsOfOneWindow
PROPERTIES EveryRequestIsCalledBack
CHECK_DEADLOCK FALSE

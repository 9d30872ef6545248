SPECIFICATION FairSpec
CONSTANTS
  Threads = {t1, t2}
  Size = 16
  Align = 2
  BlkSize = 1
  Caps = {1, 3, 6}
  NoBlock = NoBlock
INVARIANTS BlocksTileThePool ListIsSorted GrantsFit
PROPERTIES ImplementsPool CallsReturn

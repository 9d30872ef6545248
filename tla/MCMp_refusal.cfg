SPECIFICATION Spec
CONSTANTS
  Threads = {t1}
  Size = 12
  Align = 2
  BlkSize = 1
  Caps = {1, 6}
  NoBlock = NoBlock
PROPERTIES NullMeansExhausted

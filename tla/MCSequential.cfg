SPECIFICATION Spec
CONSTANTS
  Heads = {h1, h2}
  Nodes = {n1, n2, n3, n4}
  Null = Null
  TreeNodes = {1, 2, 3, 4, 5, 6, 7, 8}
  NoNode = NoNode
  Tau = 12
  Step = 4
  Npp = 2
  Hold = 2
  AdcLog = 1
  Raw = 3
  PolarMax = 2
  Lag = 1
  Zeros = {5}
  NoAngle = NoAngle
  Width = 6
  Byte = 2
  Lanes = {1, 2, 4}
  Values = {0, 1, 2}
  MaxLen = 6
SYMMETRY Symmetry
INVARIANTS LinksFollowChains RulesHold WalksInOrder OffsetIsRight PolarityWindowsAreEqual NoCurrentIsLeft AgreesWithMeaning

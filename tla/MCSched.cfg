SPECIFICATION Spec
CONSTANTS
  TaskMax = 3
  Cfgs <- AllCfgs
  TicksPerSecond = 2
  Modes <- Disciplined
  Late = 2
  NoTask = NoTask
INVARIANTS ReadyTasksAreQueued
PROPERTIES StartsTheEarliest EachTaskGetsItsTurn

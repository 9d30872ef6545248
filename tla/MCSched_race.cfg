SPECIFICATION Spec
CONSTANTS
  TaskMax = 2
  Cfgs <- TestCfgs
  TicksPerSecond = 2
  Modes <- Racing
  Late = 1
  NoTask = NoTask
INVARIANTS ReadyTasksAreQueued

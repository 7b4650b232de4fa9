SPECIFICATION FairSpec
CONSTANTS
  Thread = {idle, a, b}
  Idle = idle
  NoThread = NoThread
  PrioMax = 1
  Slice = 1
  TimerMax = 3
  WaitQ = {}
  Defunct = Defunct
  MaxDelay = 2
  MaxNest = 1
  SetPriorityAnyTime = FALSE
PROPERTIES SleeperWakes ReadyRuns DeadAreFreed

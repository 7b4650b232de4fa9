SPECIFICATION Spec
CONSTANTS
  Thread = {idle, a, b, c}
  Idle = idle
  NoThread = NoThread
  PrioMax = 2
  Slice = 1
  TimerMax = 3
  WaitQ = {}
  Defunct = Defunct
  MaxDelay = 2
  MaxNest = 1
  SetPriorityAnyTime = FALSE
SYMMETRY Perms
INVARIANTS TypeOK NodeInOneList ReadyTableExact SwitchTargetIntact TimerLinkedOnce ReadyIsListed ArmedIsAsleep DeadIsDetached ExitIsFinal
PROPERTIES SwitchToHighest LockKeepsProcessor

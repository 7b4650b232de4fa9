SPECIFICATION Spec
CONSTANTS
  Thread = {idle, a, b}
  Idle = idle
  NoThread = NoThread
  PrioMax = 2
  Slice = 1
  TimerMax = 2
  WaitQ = {SemQ, MutexQ, EventQ, PoolQ}
  Defunct = Defunct
  SemQ = SemQ
  MutexQ = MutexQ
  EventQ = EventQ
  PoolQ = PoolQ
  NestWidth = 3
  CondMax = 1
  Bit = {e, f}
  BlkNums = 3
  Waits = {0, 1, 2}
  MaxPermits = 1
  EventOpts <- Opts
SYMMETRY Perms
CHECK_DEADLOCK FALSE
INVARIANTS TypeOK WaitersArmed PermitsConserved BlocksHaveOneHolder
PROPERTIES MutexOwnership ConsumedWakesOne

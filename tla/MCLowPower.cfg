SPECIFICATION Spec
CONSTANTS
  Thread = {idle, a, b}
  Idle = idle
  NoThread = NoThread
  PrioMax = 1
  Slice = 1
  TimerMax = 3
  WaitQ = {SemQ, MutexQ}
  Defunct = Defunct
  SemQ = SemQ
  MutexQ = MutexQ
  NestWidth = 3
  CondMax = 1
  TickMod = 3
  MaxSleep = 2
  Threshold = 1
  RunDefault = 1
  SleepDefaults = {0, 2}
  SleepVotes = {1}
  RunVotes = {2, 3}
  VoteMax = 1
  Device = {d}
  DevList = DevList
  RegisterAnyTime = FALSE
  Delays = {2}
INVARIANTS DevicesAwake BoundedOversleep VoteHonoured
SYMMETRY Perms

SPECIFICATION Spec
CONSTANTS
  Thread = {idle, a, b, c}
  Idle = idle
  NoThread = NoThread
  PrioMax = 1
  Slice = 1
  TimerMax = 2
  WaitQ = {RecvQ, SendQ}
  Defunct = Defunct
  Block = {x, y}
  Msg = {m}
  Null = Null
  RecvQ = RecvQ
  SendQ = SendQ
  Timeouts = {1, 4}
  Peeks = {FALSE}
SYMMETRY Perms
INVARIANTS TypeOK BlocksConserved WaitersSleep

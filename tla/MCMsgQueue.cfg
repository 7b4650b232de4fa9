SPECIFICATION Spec
CONSTANTS
  Thread = {idle, a, b, c}
  Idle = idle
  NoThread = NoThread
  PrioMax = 2
  Slice = 1
  TimerMax = 2
  WaitQ = {RecvQ, SendQ}
  Defunct = Defunct
  Block = {x, y}
  Msg = {m, n}
  Null = Null
  RecvQ = RecvQ
  SendQ = SendQ
  Timeouts = {4}
  Peeks = {TRUE, FALSE}
SYMMETRY Perms
INVARIANTS TailIsLast WaitersByPriority NoLostWakeup
PROPERTIES ImplementsChannel

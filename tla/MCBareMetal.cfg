SPECIFICATION Spec
CONSTANTS
  Limit = 7
  MinRest = 1
  Null = Null
  Sem = Sem
  Event = Event
  ObjectSize = 2
  StaticModule = {sm}
  StaticAdaptr = {sa}
  StaticPeriph = {sp}
  Static = {sm, sa, sp}
  TickMod = 4
  SemMax = 1
  Timeouts = {0, 1, 2, 3}
  Sizes = {1, 2, 3}
  HandleSizes = {0, 1}
  MaxDevices = 4
  MaxHeld = 3
CHECK_DEADLOCK FALSE
INVARIANTS HeapExact BusyMeansMounted DriverServesMounted PollInTime

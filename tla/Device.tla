------------------------------- MODULE Device -------------------------------
(***************************************************************************)
(* The device layer (device.c) as operators on a state s of the registry:  *)
(* s.mem holds the structures MDS_DevModule_t, MDS_DevAdaptr_t and         *)
(* MDS_DevPeriph_t of the static devices and of the created ones that      *)
(* live.  A driver is external: each of its calls is told by an outcome    *)
(* whether it succeeds, and hw is the periph it was last opened for.       *)
(***************************************************************************)
EXTENDS Object, NoSys

CONSTANTS StaticModule, StaticAdaptr, StaticPeriph

ASSUME DeviceAssumption == Static = StaticModule \cup StaticAdaptr \cup StaticPeriph

Blank ==
  [kind |-> "none", driver |-> FALSE, handle |-> Null, owner |-> Null, mount |-> Null,
   open |-> FALSE, mutex |-> [life |-> FALSE, value |-> 0], hw |-> Null]

NoDevices == [h |-> NoHeap, linked |-> <<>>, mem |-> [o \in Static |-> Blank]]

Device(s) == Range(s.linked)
OfKind(s, kind) == {o \in Device(s) : s.mem[o].kind = kind}

\* The device is given up.  The structure of a created one goes with it; of a
\* static one only the owner is read before it is written again.
Gone(s, o) ==
  IF IsCreated(o) THEN [s EXCEPT !.mem = Restrict(@, DOMAIN @ \ {o})]
  ELSE [s EXCEPT !.mem[o] = [Blank EXCEPT !.owner = s.mem[o].owner]]

\* The memory of the created device o is its structure now.
Given(mem, o, struct) ==
  [x \in DOMAIN mem \cup {o} |-> IF x = o THEN struct ELSE mem[x]]

NewMutex == MutexInit(Blank.mutex)

\* MDS_DeviceIsBusy: the device behind it in the registry is mounted on it.
IsBusy(s, o) ==
  \E i \in DOMAIN s.linked :
    /\ s.linked[i] = o /\ i < Len(s.linked)
    /\ s.mem[s.linked[i + 1]].kind = "periph" /\ s.mem[s.linked[i + 1]].mount = o

-----------------------------------------------------------------------------
(* Modules and adaptrs.  ok is the outcome of the call to the driver, for  *)
(* a device without one it is TRUE.                                        *)

\* MDS_DevModuleInit.
ModuleInit(s, o, driver, ok) ==
  IF ~ok THEN s
  ELSE [ObjectInit(s, o) EXCEPT !.mem[o].kind = "module", !.mem[o].open = FALSE,
                                !.mem[o].driver = driver]

ModuleDeInit(s, o, ok) == IF IsBusy(s, o) \/ ~ok THEN s ELSE Gone(ObjectDeInit(s, o), o)

\* MDS_DevAdaptrInit: the mutex comes after the object and before the driver.
\* The owner of an earlier use of the structure stays.
AdaptrInit(s, o, driver, ok) ==
  IF ~ok THEN s
  ELSE [ObjectInit(s, o) EXCEPT !.mem[o].kind = "adaptr", !.mem[o].open = FALSE,
                                !.mem[o].driver = driver, !.mem[o].mutex = NewMutex]

\* MDS_DevAdaptrDeInit: the mutex goes before the object.
AdaptrDeInit(s, o, ok) == IF IsBusy(s, o) \/ ~ok THEN s ELSE Gone(ObjectDeInit(s, o), o)

\* A created device with a driver gets a handle of the size the driver asks
\* for, NULL when there is no memory left for it.
WithHandle(s, o, size) ==
  LET a == SysMemAlloc(s.h, size) IN
  IF size = 0 THEN s ELSE [s EXCEPT !.h = a.h, !.mem[o].handle = a.at]

\* The handle is freed first, then the object.
Discard(s, o) ==
  Gone(ObjectDestroy([s EXCEPT !.h = SysMemFree(@, s.mem[o].handle)], o), o)

\* MDS_DevModuleCreate, MDS_DevAdaptrCreate: what the driver refuses is
\* undone.  An adaptr without a driver is left without its mutex.
Create(s, struct, mutex, driver, size, ok) ==
  LET c == ObjectCreate(s)
      made == [c.s EXCEPT !.mem = Given(@, c.o, [struct EXCEPT !.driver = driver])]
      full == WithHandle(made, c.o, size)
  IN  IF c.o = Null THEN c.s
      ELSE IF ~driver THEN made
      ELSE IF ok THEN [full EXCEPT !.mem[c.o].mutex = mutex]
      ELSE Discard(full, c.o)

ModuleCreate(s, driver, size, ok) ==
  Create(s, [Blank EXCEPT !.kind = "module"], Blank.mutex, driver, size, ok)
AdaptrCreate(s, driver, size, ok) ==
  Create(s, [Blank EXCEPT !.kind = "adaptr"], NewMutex, driver, size, ok)

ModuleDestroy(s, o, ok) == IF IsBusy(s, o) \/ ~ok THEN s ELSE Discard(s, o)

\* MDS_DevAdaptrDestroy takes the node of a mutex that was never initialised
\* from a list it is not on.
DestroysNoMutex(s, o, ok) == ok /\ ~IsBusy(s, o) /\ ~s.mem[o].mutex.life
AdaptrDestroy(s, o, ok) == IF IsBusy(s, o) \/ ~ok THEN s ELSE Discard(s, o)

-----------------------------------------------------------------------------
(* Periphs                                                                 *)

\* A defect: a periph stays where the registry appended it.
MountAtTail(s, p, a) == [s EXCEPT !.mem[p].mount = a]

\* A periph goes right behind its adaptr in the registry.
Mount(s, p, a) ==
  LET rest == Unlink(s.linked, p)
      at == CHOOSE i \in DOMAIN rest : rest[i] = a
  IN  [s EXCEPT !.linked = InsertAt(rest, at + 1, p), !.mem[p].mount = a]

\* MDS_DevPeriphInit, MDS_DevPeriphCreate
PeriphInit(s, p, a) ==
  Mount([ObjectInit(s, p) EXCEPT !.mem[p].kind = "periph", !.mem[p].open = FALSE], p, a)

PeriphCreate(s, a) ==
  LET c == ObjectCreate(s) IN
  IF c.o = Null THEN c.s
  ELSE Mount([c.s EXCEPT !.mem = Given(@, c.o, [Blank EXCEPT !.kind = "periph"])], c.o, a)

\* What MDS_DevPeriphDeInit and MDS_DevPeriphDestroy do once it is closed.
PeriphRetire(s, p) ==
  Gone(IF IsCreated(p) THEN ObjectDestroy(s, p) ELSE ObjectDeInit(s, p), p)

\* The driver of the adaptr a was told what it is open for, Null for a close.
Driven(s, a, hw) == [s EXCEPT !.mem[a].hw = hw]

\* The three assignments that end an open: the owner, and the flag OPEN of the
\* adaptr and of the periph.
Owned(s, p) == [s EXCEPT !.mem[s.mem[p].mount].owner = p]
FlagsSet(s, p) == [s EXCEPT !.mem[s.mem[p].mount].open = TRUE, !.mem[p].open = TRUE]

\* A defect: the adaptr says it is open for a periph that was closed.
ReleasedOpen(s, a) == [s EXCEPT !.mem[a].mutex = MutexRelease(@)]

\* What MDS_DevPeriphClose does after its call to the driver: the flag of the
\* periph goes, then that of the adaptr and the mutex.
FlagCleared(s, o) == [s EXCEPT !.mem[o].open = FALSE]
Released(s, a) == [FlagCleared(s, a) EXCEPT !.mem[a].mutex = MutexRelease(@)]

\* The owner that is driven out is told by its flag, if its memory is a device.
Told(s, p) ==
  LET o == s.mem[s.mem[p].mount].owner IN
  IF o \in DOMAIN s.mem THEN FlagCleared(s, o) ELSE s

\* MDS_DevPeriphOpenForce, whoever holds the mutex: the owner is told, the
\* driver is closed, whatever it answers, and opened.
OpenForce(s, p, closes, opens) ==
  LET a == s.mem[p].mount
      closed == IF closes THEN Driven(Told(s, p), a, Null) ELSE Told(s, p)
  IN  IF ~s.mem[a].driver THEN FlagsSet(Owned(Told(s, p), p), p)
      ELSE IF opens THEN FlagsSet(Owned(Driven(closed, a, p), p), p)
      ELSE closed

\* The owner was destroyed and the memory of its flags may be of other use.
OwnerIsStale(s, p) ==
  LET o == s.mem[s.mem[p].mount].owner IN o # Null /\ o \notin DOMAIN s.mem
=============================================================================

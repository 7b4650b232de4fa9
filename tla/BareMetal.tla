------------------------------ MODULE BareMetal ------------------------------
(***************************************************************************)
(* A program on the build without a scheduler: main code that uses the     *)
(* heap, the devices (device.c) and the polled objects of nosys.c, and     *)
(* interrupts that take it between any two of its critical sections.       *)
(* Interrupts tick, release the semaphore, set the event and open a        *)
(* periph by force; they do not allocate and do not change the registry,   *)
(* so a call of main code that does only that is one step.                 *)
(*                                                                         *)
(* What an interrupt does to a device it does in one step.  Main code may  *)
(* be interrupted between any two accesses to the owner, the flags and the *)
(* driver of an adaptr, so there each of its calls is several steps; the   *)
(* two flags of FlagsSet, the flag and the mutex of Released and the read  *)
(* and clear of Told are one step each, because an open by force that came *)
(* in between would do the same before or after both.                      *)
(*                                                                         *)
(* main.at is where main code is: "idle" between calls, "poll" in the loop *)
(* of an acquisition, "updating" with the owner MDS_DevAdaptrUpdateOpen    *)
(* read, "opening", "opened" and "owned" in MDS_DevPeriphOpen, "closing",  *)
(* "closed" and "flagged" in MDS_DevPeriphClose and "retire" in            *)
(* MDS_DevPeriphDeInit and ...Destroy after it, "forcing" and "reopening"  *)
(* at the driver's close and open in MDS_DevPeriphOpenForce.               *)
(***************************************************************************)
EXTENDS Device

CONSTANTS Sem, Event,   \* the semaphore and the event
          Timeouts,     \* the timeouts of main code, in ticks
          Sizes,        \* the sizes main code allocates
          HandleSizes,  \* the sizes of handles drivers ask for
          MaxDevices,   \* a bound on the registry
          MaxHeld       \* a bound on the pointers main code holds

\* Sizes are of size_t, timeouts of MDS_Tick_t.
ASSUME BareMetalAssumption ==
  Timeouts \subseteq 0..Forever /\ Sizes \subseteq Nat /\ HandleSizes \subseteq Nat

VARIABLES s,       \* heap, registry and devices
          held,    \* the pointers main code allocated
          sem, event,   \* a semaphore and an event of one bit
          now,     \* g_sysClockTickCount
          main,    \* where main code is
          waited,  \* the ticks since its acquisition began
          ticked,  \* a tick came since the last round of its loop
          fault    \* the first use of broken memory

vars == <<s, held, sem, event, now, main, waited, ticked, fault>>

\* The object or the periph main code is at, the adaptr of an update, the call's
\* timeout and start, and whether the periph is given up.
None ==
  [at |-> "idle", on |-> Null, of |-> Null, timeout |-> 0, start |-> 0, retire |-> FALSE]
Bit == {"bit"}

Init ==
  /\ s = NoDevices
  /\ held = {}
  /\ sem = SemaphoreInit([life |-> FALSE, value |-> 0], 0)
  /\ event = EventInit([life |-> FALSE, value |-> {}])
  /\ now = 0
  /\ main = None /\ waited = 0 /\ ticked = FALSE /\ fault = "none"

\* Polling, memory of main code and devices do not meet, so they are explored
\* one after the other: PollsFirst, and then Room for devices only while
\* main code holds no memory.
PollsFirst == ~s.h.up /\ s.linked = <<>>

Runs(where) == fault = "none" /\ main.at = where

\* A call of main code that is one step.
Call == /\ Runs("idle")
        /\ UNCHANGED <<now, main, waited, ticked>>
DeviceCall == Call /\ UNCHANGED <<held, sem, event, fault>>
Room == Len(s.linked) < MaxDevices /\ held = {}

-----------------------------------------------------------------------------
(* The heap and the devices, from main code                                *)

AllocMemory ==
  /\ Call /\ Cardinality(held) < MaxHeld /\ s.linked = <<>>
  /\ \E size \in Sizes : LET a == SysMemAlloc(s.h, size) IN
       /\ s' = [s EXCEPT !.h = a.h]
       /\ held' = held \cup ({a.at} \ {Null})
  /\ UNCHANGED <<sem, event, fault>>

FreeMemory ==
  /\ Call
  /\ \E n \in held : s' = [s EXCEPT !.h = SysMemFree(@, n)] /\ held' = held \ {n}
  /\ UNCHANGED <<sem, event, fault>>

\* A failed call leaves the pointer valid, another size than 0 moves it.
ReallocMemory ==
  /\ Call
  /\ \E n \in held, size \in Sizes \cup {0} : LET a == SysMemRealloc(s.h, n, size) IN
       /\ s' = [s EXCEPT !.h = a.h]
       /\ held' = IF a.at = Null /\ size # 0 THEN held ELSE (held \ {n}) \cup ({a.at} \ {Null})
  /\ UNCHANGED <<sem, event, fault>>

\* A device without a driver has nobody to fail or to ask for a handle.
Outcome(driver, ok) == driver \/ ok

InitDevice ==
  /\ DeviceCall /\ Room
  /\ \E driver, ok \in BOOLEAN : Outcome(driver, ok) /\
       \/ \E o \in StaticModule \ Device(s) : s' = ModuleInit(s, o, driver, ok)
       \/ \E o \in StaticAdaptr \ Device(s) : s' = AdaptrInit(s, o, driver, ok)

DeInitDevice ==
  /\ DeviceCall
  /\ \E ok \in BOOLEAN, o \in Device(s) \cap Static : Outcome(s.mem[o].driver, ok) /\
       \/ s.mem[o].kind = "module" /\ s' = ModuleDeInit(s, o, ok)
       \/ s.mem[o].kind = "adaptr" /\ s' = AdaptrDeInit(s, o, ok)

CreateDevice ==
  /\ DeviceCall /\ Room
  /\ \E driver, ok \in BOOLEAN, size \in HandleSizes : Outcome(driver, ok) /\
       \/ s' = ModuleCreate(s, driver, size, ok)
       \/ s' = AdaptrCreate(s, driver, size, ok)

DestroyDevice ==
  /\ Call
  /\ \E ok \in BOOLEAN, o \in Device(s) \ Static : Outcome(s.mem[o].driver, ok) /\
       \/ s.mem[o].kind = "module" /\ s' = ModuleDestroy(s, o, ok) /\ UNCHANGED fault
       \/ /\ s.mem[o].kind = "adaptr"
          /\ s' = AdaptrDestroy(s, o, ok)
          /\ fault' = IF DestroysNoMutex(s, o, ok) THEN "unlinked_mutex" ELSE fault
  /\ UNCHANGED <<held, sem, event>>

NewPeriph ==
  /\ DeviceCall /\ Room
  /\ \E a \in OfKind(s, "adaptr") :
       \/ \E p \in StaticPeriph \ Device(s) : s' = PeriphInit(s, p, a)
       \/ s' = PeriphCreate(s, a)

-----------------------------------------------------------------------------
(* Acquisitions, which poll                                                *)

\* MDS_SemaphoreAcquire and MDS_EventWait up to the loop, at any tick.
Acquire ==
  /\ Runs("idle") /\ PollsFirst
  /\ \E timeout \in Timeouts, on \in {Sem, Event}, start \in 0..(TickMod - 1) :
       /\ now' = start
       /\ main' = [None EXCEPT !.at = "poll", !.on = on, !.timeout = timeout, !.start = start]
  /\ waited' = 0 /\ ticked' = FALSE
  /\ UNCHANGED <<s, held, sem, event, fault>>

\* One round of the loop.  The tick count is not followed between the calls.
Round(taken) ==
  LET ends == taken \/ GivesUp(now, main.start, main.timeout) IN
  /\ main' = IF ends THEN None ELSE main
  /\ now' = IF ends THEN 0 ELSE now
  /\ waited' = IF ends THEN 0 ELSE waited
  /\ ticked' = FALSE

PollSemaphore ==
  /\ Runs("poll") /\ main.on = Sem
  /\ LET r == SemaphoreTry(sem) IN sem' = r.s /\ Round(r.taken)
  /\ UNCHANGED <<s, held, event, fault>>

PollEvent ==
  /\ Runs("poll") /\ main.on = Event
  /\ \E all, clear \in BOOLEAN : LET r == EventTry(event, Bit, all, clear) IN
       event' = r.e /\ Round(r.taken)
  /\ UNCHANGED <<s, held, sem, fault>>

\* Main code may replace the objects it is not waiting for.
Renew ==
  /\ Call /\ PollsFirst
  /\ \/ sem' = SemaphoreInit(SemaphoreDeInit(sem), 0) /\ UNCHANGED event
     \/ event' = EventInit(EventDeInit(event)) /\ UNCHANGED sem
     \/ event' = EventClr(event, Bit) /\ UNCHANGED sem
  /\ UNCHANGED <<s, held, fault>>

-----------------------------------------------------------------------------
(* The calls of main code an open by force may come into                   *)

Mounted == s.mem[main.on].mount
Step(where) == main' = IF where = "idle" THEN None ELSE [main EXCEPT !.at = where]
Between == UNCHANGED <<held, sem, event, now, waited, ticked, fault>>

\* MDS_DevAdaptrUpdateOpen reads the owner of an adaptr that is open and calls
\* the driver with what it read.
UpdateOpen ==
  /\ Runs("idle")
  /\ \E a \in OfKind(s, "adaptr") :
       /\ s.mem[a].open /\ s.mem[a].driver
       /\ main' = [None EXCEPT !.at = "updating", !.on = s.mem[a].owner, !.of = a]
  /\ UNCHANGED s /\ Between

UpdateDriver ==
  /\ Runs("updating")
  /\ s' \in {s, Driven(s, main.of, main.on)}
  /\ Step("idle") /\ Between

\* MDS_DevPeriphOpen up to its call to the driver.
Open ==
  /\ Runs("idle")
  /\ \E p \in OfKind(s, "periph") :
       /\ s' = [s EXCEPT !.mem[s.mem[p].mount].mutex = MutexAcquire(@)]
       /\ main' = [None EXCEPT !.at = "opening", !.on = p]
  /\ Between

OpenDriver ==
  /\ Runs("opening")
  /\ IF ~s.mem[Mounted].driver THEN Step("opened") /\ UNCHANGED s
     ELSE \/ s' = Driven(s, Mounted, main.on) /\ Step("opened")
          \/ s' = [s EXCEPT !.mem[Mounted].mutex = MutexRelease(@)] /\ Step("idle")
  /\ Between

\* The end of MDS_DevPeriphOpen and of MDS_DevPeriphOpenForce.
OpenOwner ==
  /\ Runs("opened")
  /\ s' = Owned(s, main.on)
  /\ Step("owned") /\ Between

OpenEnd ==
  /\ Runs("owned")
  /\ s' = FlagsSet(s, main.on)
  /\ Step("idle") /\ Between

\* A periph that does not own its adaptr is refused with MDS_EIO.
Close ==
  /\ Runs("idle")
  /\ \E p \in OfKind(s, "periph"), retire \in BOOLEAN :
       /\ s.mem[s.mem[p].mount].owner = p
       /\ main' = [None EXCEPT !.at = "closing", !.on = p, !.retire = retire]
  /\ UNCHANGED s /\ Between

\* Without a driver, or when it fails, the error keeps the periph from being
\* retired, and the rest of the close is done all the same.
CloseDriver ==
  /\ Runs("closing")
  /\ \E ok \in BOOLEAN :
       /\ ok => s.mem[Mounted].driver
       /\ s' = IF ok THEN Driven(s, Mounted, Null) ELSE s
       /\ main' = [main EXCEPT !.at = "closed", !.retire = @ /\ ok]
  /\ Between

CloseFlag ==
  /\ Runs("closed")
  /\ s' = FlagCleared(s, main.on)
  /\ Step("flagged") /\ Between

CloseEnd ==
  /\ Runs("flagged")
  /\ s' = Released(s, Mounted)
  /\ Step(IF main.retire THEN "retire" ELSE "idle") /\ Between

\* MDS_DevPeriphDeInit, MDS_DevPeriphDestroy
Retire ==
  /\ Runs("retire")
  /\ s' = PeriphRetire(s, main.on)
  /\ Step("idle") /\ Between

\* An open by force of p writes to the flags of a stale owner.
MayBeStale(p) ==
  fault' \in {"none"} \cup IF OwnerIsStale(s, p) THEN {"stale_flags"} ELSE {}

\* MDS_DevPeriphOpenForce from main code: the owner, the driver's close, whose
\* result nobody reads, and the driver's open.
ForceOwner ==
  /\ Runs("idle")
  /\ \E p \in OfKind(s, "periph") :
       /\ s' = Told(s, p)
       /\ MayBeStale(p)
       /\ main' = [None EXCEPT !.on = p,
                     !.at = IF s.mem[s.mem[p].mount].driver THEN "forcing" ELSE "opened"]
  /\ UNCHANGED <<held, sem, event, now, waited, ticked>>

ForceClose ==
  /\ Runs("forcing")
  /\ s' \in {s, Driven(s, Mounted, Null)}
  /\ Step("reopening") /\ Between

ForceDriver ==
  /\ Runs("reopening")
  /\ \/ s' = Driven(s, Mounted, main.on) /\ Step("opened")
     \/ UNCHANGED s /\ Step("idle")
  /\ Between

-----------------------------------------------------------------------------
(* Interrupts                                                              *)

\* MDS_SysTickHandler.  The loop of an acquisition is shorter than a tick.
Tick ==
  /\ Runs("poll") /\ ~ticked
  /\ now' = ClockIncTickCount(now, 1)
  /\ waited' = waited + 1 /\ ticked' = TRUE
  /\ UNCHANGED <<s, held, sem, event, main, fault>>

InterruptGives ==
  /\ Runs("poll")
  /\ \/ main.on = Sem /\ sem' = SemaphoreRelease(sem) /\ UNCHANGED event
     \/ main.on = Event /\ event' = EventSet(event, Bit) /\ UNCHANGED sem
  /\ UNCHANGED <<s, held, now, main, waited, ticked, fault>>

\* A periph main code is giving up is not opened by force any more.
OpenByForce ==
  /\ fault = "none"
  /\ \E p \in OfKind(s, "periph"), closes, opens \in BOOLEAN :
       /\ ~(main.retire /\ p = main.on)
       /\ s' = OpenForce(s, p, closes, opens)
       /\ MayBeStale(p)
  /\ UNCHANGED <<held, sem, event, now, main, waited, ticked>>

Next ==
  \/ AllocMemory \/ FreeMemory \/ ReallocMemory
  \/ InitDevice \/ DeInitDevice \/ CreateDevice \/ DestroyDevice \/ NewPeriph
  \/ Acquire \/ PollSemaphore \/ PollEvent \/ Renew
  \/ UpdateOpen \/ UpdateDriver \/ Open \/ OpenDriver \/ OpenOwner \/ OpenEnd
  \/ Close \/ CloseDriver \/ CloseFlag \/ CloseEnd \/ Retire
  \/ ForceOwner \/ ForceClose \/ ForceDriver
  \/ Tick \/ InterruptGives \/ OpenByForce

Spec == Init /\ [][Next]_vars

-----------------------------------------------------------------------------
(* Properties                                                              *)

\* Every used node of the heap belongs to a created device, to the handle of
\* one or to main code, and each of these has its node; the search of an
\* allocation misses no free node and free neighbours are joined
\* (llff.c:66, llff.c:111, llff.c:213, and the undone steps of device.c:124).
HeapExact ==
  /\ WellFormed(s.h)
  /\ UsedNodes(s.h) =
       (held \cup (DOMAIN s.mem \ Static) \cup {s.mem[o].handle : o \in DOMAIN s.mem}) \ {Null}

\* MDS_DeviceIsBusy, which looks at one neighbour in the registry, is true of
\* exactly the devices some periph is mounted on, whatever was initialised
\* and retired in between (device.c:43, device.c:297).
BusyMeansMounted ==
  \A a \in Device(s) :
    IsBusy(s, a) <=> \E p \in OfKind(s, "periph") : s.mem[p].mount = a

\* The driver of an adaptr was opened last for a live periph of the adaptr or
\* closed, and an adaptr that says it is open belongs to a live periph of it, so
\* that neither the driver nor MDS_DevAdaptrUpdateOpen has a periph that is gone,
\* wherever an open by force comes between the steps of an update, an open, a
\* close or another open by force and whichever calls to drivers fail
\* (device.c:276, device.c:353, device.c:425).
IsPeriphOf(p, a) == p \in OfKind(s, "periph") /\ s.mem[p].mount = a
DriverServesMounted ==
  \A a \in OfKind(s, "adaptr") :
    /\ s.mem[a].hw = Null \/ IsPeriphOf(s.mem[a].hw, a)
    /\ s.mem[a].open => IsPeriphOf(s.mem[a].owner, a)

\* No loop of an acquisition outlasts its timeout, wherever the tick count
\* wraps, by more than the tick that may come before its first round
\* (nosys.c:74, nosys.c:270).
PollInTime ==
  main.at = "poll" => waited <= Max({1, main.timeout})
=============================================================================

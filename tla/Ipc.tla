-------------------------------- MODULE Ipc --------------------------------
(***************************************************************************)
(* Threads that share one kernel object (ipc/): a semaphore, a mutex, a    *)
(* condition with its mutex, an event or a memory pool, which is retired   *)
(* and put to use again while they call it.                                *)
(*                                                                         *)
(* A critical section is one step; pc[t] says where thread t stands:       *)
(*   "run"       in application code                                       *)
(*   "check"     before the scheduler check that ends its call             *)
(*   "relock"    in MDS_ConditionWait, before it takes the mutex again     *)
(*   "signal"    in a call that still releases the condition once          *)
(*   "broadcast", "more", "checkmore"   in the loop of                     *)
(*               MDS_ConditionBroadCast: before the acquisition, before    *)
(*               the release, before the scheduler check of the release    *)
(***************************************************************************)
EXTENDS Processor, Condition, Event, MemPool

CONSTANTS Waits,       \* the timeouts of the calls, in ticks
          MaxPermits,  \* the value a semaphore starts with, and its max
          EventOpts    \* the options of the calls of MDS_EventWait

ASSUME IpcAssumption ==
  /\ WaitQ = {SemQ, MutexQ, EventQ, PoolQ} /\ Cardinality(WaitQ) = 4
  /\ Waits \subseteq 0..TimerMax /\ MaxPermits \in Nat \ {0}
  /\ EventOpts \subseteq EventOpt

VARIABLES kind,      \* which kind of object the threads share
          sem, mutex, event, pool,
          granted,   \* the permits of the semaphore each thread was given
          pc

objects == <<sem, mutex, event, pool, granted>>
vars == <<k, isr, kind, sem, mutex, event, pool, granted, pc>>

Kind == {"sem", "mutex", "cond", "event", "pool"}
Pc == {"run", "check", "relock", "signal", "broadcast", "more", "checkmore"}
Mask == SUBSET Bit \ {{}}

Init ==
  /\ ProcessorInit
  /\ kind \in Kind
  /\ sem = NewSemaphore("none", 0, 0) /\ mutex = NewMutex("none")
  /\ event = NewEvent("none") /\ pool = NewPool("none")
  /\ granted = [t \in Thread |-> 0]
  /\ pc = [t \in Thread |-> "run"]

Shares(what) == kind = what
At(t, where) == t \in User /\ Executes(t) /\ pc[t] = where
Goto(t, where) == pc' = [pc EXCEPT ![t] = where]
CheckIf(t, wakes) == Goto(t, IF wakes THEN "check" ELSE "run")

OnlySem == UNCHANGED <<isr, kind, mutex, event, pool>>
OnlyMutex == UNCHANGED <<isr, kind, sem, event, pool, granted>>
OnlyEvent == UNCHANGED <<kind, sem, mutex, pool, granted>>
OnlyPool == UNCHANGED <<isr, kind, sem, mutex, event, granted>>

-----------------------------------------------------------------------------
(* The life of the object                                                  *)

\* The queue of an object that is put to use is empty: the threads a retired
\* object left behind have timed out before.
PutToUse(t) ==
  /\ At(t, "run") /\ \A w \in WaitQ : k.list[w] = <<>>
  /\ \/ /\ Shares("sem") /\ sem.life = "none"
        /\ sem' \in {SemaphoreInit(sem, MaxPermits, MaxPermits),
                     SemaphoreCreate(MaxPermits, MaxPermits)}
        /\ granted' = [u \in Thread |-> 0] /\ UNCHANGED mutex /\ UNCHANGED <<event, pool>>
     \/ /\ Shares("mutex") /\ mutex.life = "none"
        /\ mutex' \in {MutexInit(mutex), MutexCreate}
        /\ UNCHANGED <<sem, event, pool, granted>>
     \/ /\ Shares("cond") /\ sem.life = "none"
        /\ sem' \in {ConditionInit(sem), ConditionCreate}
        /\ mutex' = MutexInit(mutex)
        /\ UNCHANGED <<event, pool, granted>>
     \/ /\ Shares("event") /\ event.life = "none"
        /\ event' \in {EventInit(event), EventCreate(event)}
        /\ UNCHANGED <<sem, mutex, pool, granted>>
     \/ /\ Shares("pool") /\ pool.life = "none"
        /\ pool' \in {MemPoolInit(pool)} \cup {MemPoolCreate(pool, e) : e \in BOOLEAN}
        /\ UNCHANGED <<sem, mutex, event, granted>>
  /\ UNCHANGED <<k, isr, kind, pc>>

\* A created object is destroyed, any other de-initialised, while threads
\* wait for it but none is between two critical sections of a call.
Retire(t) ==
  /\ At(t, "run") /\ \A u \in User : pc[u] \in {"run", "check", "relock"}
  /\ \/ LET r == IF sem.life = "created" THEN SemaphoreDestroy(k, sem) ELSE SemaphoreDeInit(k, sem)
        IN  /\ Shares("sem") /\ sem.life # "none"
            /\ k' = r.k /\ sem' = r.s /\ UNCHANGED granted /\ OnlySem
     \/ LET r == IF mutex.life = "created" THEN MutexDestroy(k, mutex) ELSE MutexDeInit(k, mutex)
        IN  /\ Shares("mutex") /\ mutex.life # "none"
            /\ k' = r.k /\ mutex' = r.m /\ OnlyMutex
     \/ LET r == IF sem.life = "created" THEN ConditionDestroy(k, sem, t)
                 ELSE ConditionDeInit(k, sem, t)
        IN  /\ Shares("cond") /\ sem.life # "none"
            /\ k' = r.k /\ sem' = r.s /\ UNCHANGED granted /\ OnlySem
     \/ LET r == IF event.life = "created" THEN EventDestroy(k, event) ELSE EventDeInit(k, event)
        IN  /\ Shares("event") /\ event.life # "none"
            /\ k' = r.k /\ event' = r.e /\ OnlyEvent /\ UNCHANGED isr
     \/ LET r == IF pool.life = "created" THEN MemPoolDestroy(k, pool) ELSE MemPoolDeInit(k, pool)
        IN  /\ Shares("pool") /\ pool.life # "none"
            /\ k' = r.k /\ pool' = r.p /\ OnlyPool
  /\ UNCHANGED pc

-----------------------------------------------------------------------------
(* Semaphore                                                               *)

Acquire(t, d) ==
  LET r == SemaphoreAcquire(k, sem, t, d) IN
  /\ At(t, "run") /\ Shares("sem") /\ sem.life # "none"
  /\ k' = r.k /\ sem' = r.s
  /\ granted' = [granted EXCEPT ![t] = IF r.err = "EOK" THEN @ + 1 ELSE @]
  /\ UNCHANGED pc /\ OnlySem

\* Only who was given a permit releases one; it may go to the first waiter.
Release(t) ==
  LET r == SemaphoreRelease(k, sem)
      back == [granted EXCEPT ![t] = @ - 1]
      w == WaitQueuePeek(k, SemQ)
  IN  /\ At(t, "run") /\ Shares("sem") /\ sem.life # "none" /\ granted[t] > 0
      /\ k' = r.k /\ sem' = r.s
      /\ granted' = IF w = NoThread THEN back ELSE [back EXCEPT ![w] = @ + 1]
      /\ CheckIf(t, r.check) /\ OnlySem

-----------------------------------------------------------------------------
(* Mutex                                                                   *)

Lock(t, d) ==
  LET r == MutexAcquire(k, mutex, t, d) IN
  /\ At(t, "run") /\ mutex.life # "none"
  /\ Shares("cond") => d = 0
  /\ k' = r.k /\ mutex' = r.m
  /\ UNCHANGED pc /\ OnlyMutex

Unlock(t) ==
  LET r == MutexRelease(k, mutex, t) IN
  /\ At(t, "run") /\ mutex.life # "none"
  /\ k' = r.k /\ mutex' = r.m
  /\ CheckIf(t, r.check) /\ OnlyMutex

-----------------------------------------------------------------------------
(* Condition                                                               *)

Wait(t, d) ==
  LET r == ConditionWait(k, sem, mutex, t, d) IN
  /\ At(t, "run") /\ Shares("cond") /\ sem.life # "none" /\ mutex.owner = t
  /\ k' = r.k /\ sem' = r.s /\ mutex' = r.m
  /\ Goto(t, IF r.waits THEN "relock" ELSE "run")
  /\ UNCHANGED <<isr, kind, event, pool, granted>>

\* MDS_ConditionWait takes the mutex again with MDS_TIMEOUT_FOREVER.
Relock(t) ==
  LET r == MutexAcquire(k, mutex, t, TimerMax) IN
  /\ At(t, "relock")
  /\ k' = r.k /\ mutex' = r.m
  /\ Goto(t, "run") /\ OnlyMutex

\* MDS_ConditionSignal looks for a waiter first.
Signal(t) ==
  /\ At(t, "run") /\ Shares("cond") /\ sem.life # "none"
  /\ WaitQueuePeek(k, SemQ) # NoThread
  /\ Goto(t, "signal")
  /\ UNCHANGED <<k, isr, kind, objects>>

SignalRelease(t) ==
  LET r == SemaphoreRelease(k, sem) IN
  /\ At(t, "signal")
  /\ k' = r.k /\ sem' = r.s
  /\ CheckIf(t, r.check)
  /\ UNCHANGED granted /\ OnlySem

Broadcast(t) ==
  /\ At(t, "run") /\ Shares("cond") /\ sem.life # "none"
  /\ Goto(t, "broadcast")
  /\ UNCHANGED <<k, isr, kind, objects>>

\* A value that was there is put back once; without one the loop goes on.
BroadcastAcquire(t) ==
  LET r == SemaphoreAcquire(k, sem, t, 0) IN
  /\ At(t, "broadcast")
  /\ k' = r.k /\ sem' = r.s
  /\ Goto(t, IF r.err = "EOK" THEN "signal" ELSE "more")
  /\ UNCHANGED granted /\ OnlySem

BroadcastRelease(t) ==
  LET r == SemaphoreRelease(k, sem) IN
  /\ At(t, "more")
  /\ k' = r.k /\ sem' = r.s
  /\ Goto(t, IF r.check THEN "checkmore" ELSE "broadcast")
  /\ UNCHANGED granted /\ OnlySem

-----------------------------------------------------------------------------
(* Event and memory pool                                                   *)

WaitEvent(t, wait, opt, d) ==
  LET r == EventWait(k, event, t, wait, opt, d) IN
  /\ At(t, "run") /\ Shares("event") /\ event.life # "none"
  /\ k' = r.k /\ event' = r.e
  /\ UNCHANGED <<isr, pc>> /\ OnlyEvent

SetEvent(t, set) ==
  LET r == EventSet(k, event, set) IN
  /\ At(t, "run") /\ Shares("event") /\ event.life # "none"
  /\ k' = r.k /\ event' = r.e
  /\ CheckIf(t, r.check)
  /\ UNCHANGED isr /\ OnlyEvent

\* A timer callback sets an event inside the interrupt.
InterruptSet(set) ==
  LET r == EventSet(k, event, set) IN
  /\ isr /\ k.fault = "none" /\ Shares("event") /\ event.life # "none"
  /\ k' = IF r.check THEN SchedulerCheck(r.k) ELSE r.k
  /\ event' = r.e
  /\ UNCHANGED <<isr, pc>> /\ OnlyEvent

ClearEvent(t, clr) ==
  /\ At(t, "run") /\ Shares("event") /\ event.life # "none"
  /\ event' = EventClr(event, clr)
  /\ UNCHANGED <<k, isr, pc>> /\ OnlyEvent

Alloc(t) ==
  LET r == MemPoolAlloc(k, pool) IN
  /\ At(t, "run") /\ Shares("pool") /\ pool.life # "none"
  /\ k' = r.k /\ pool' = r.p
  /\ UNCHANGED pc /\ OnlyPool

\* Whoever has a block gives it back, once.
Free(t, b) ==
  LET r == MemPoolFree(k, pool, b) IN
  /\ At(t, "run") /\ Shares("pool") /\ pool.life # "none" /\ pool.held[b] > 0
  /\ k' = r.k /\ pool' = r.p
  /\ CheckIf(t, r.check) /\ OnlyPool

-----------------------------------------------------------------------------
Check(t) ==
  /\ At(t, "check") \/ At(t, "checkmore")
  /\ k' = SchedulerCheck(k)
  /\ Goto(t, IF pc[t] = "check" THEN "run" ELSE "broadcast")
  /\ UNCHANGED <<isr, kind, objects>>

\* An application whose wait returned an error at once yields.
Yield(t) ==
  /\ At(t, "run") /\ k.st[t] = "SUSPENDED"
  /\ k' = ThreadYield(k, t)
  /\ Goto(t, "check")
  /\ UNCHANGED <<isr, kind, objects>>

\* A running thread starts another one.
Start(t, u) ==
  /\ At(t, "run") /\ k.st[u] = "INACTIVED"
  /\ k' = ThreadStartup(k, u)
  /\ Goto(t, "check")
  /\ UNCHANGED <<isr, kind, objects>>

Boot ==
  /\ \/ \E t \in User : StartBeforeBoot(t)
     \/ (\E t \in User : k.st[t] = "READY") /\ StartScheduler
  /\ UNCHANGED <<kind, objects, pc>>

Interrupt ==
  /\ TickInterrupt \/ TimerInterrupt \/ InterruptReturn
  /\ UNCHANGED <<kind, objects, pc>>

Step(t) ==
  \/ PutToUse(t) \/ Retire(t) \/ Check(t) \/ Yield(t)
  \/ \E u \in User : Start(t, u)
  \/ \E d \in Waits : Acquire(t, d) \/ Lock(t, d) \/ Wait(t, d)
  \/ Release(t) \/ Unlock(t) \/ Relock(t)
  \/ Signal(t) \/ SignalRelease(t)
  \/ Broadcast(t) \/ BroadcastAcquire(t) \/ BroadcastRelease(t)
  \/ \E s \in Mask :
       \/ \E opt \in EventOpts, d \in Waits : WaitEvent(t, s, opt, d)
       \/ SetEvent(t, s) \/ ClearEvent(t, s)
  \/ Alloc(t) \/ \E b \in PoolBlock : Free(t, b)

Next ==
  \/ Boot \/ Interrupt \/ \E s \in Mask : InterruptSet(s)
  \/ \E t \in User : Step(t)

Spec == Init /\ [][Next]_vars

-----------------------------------------------------------------------------
(* What the objects promise                                                *)

\* Everything has its type, and no call breaks the lists of the scheduler and
\* of the timers.
TypeOK ==
  /\ k \in KernelState /\ k.fault \notin {"broken_switch", "relinked_timer"}
  /\ OneHome(k) /\ TableExact(k)
  /\ isr \in BOOLEAN /\ kind \in Kind /\ pc \in [Thread -> Pc]
  /\ sem \in [life : Life, value : Nat, max : Nat] /\ granted \in [Thread -> Nat]
  /\ mutex \in [life : Life, owner : Thread \cup {NoThread}, prio : Level,
                value : {0, 1}, nest : NestMin..NestMax]
  /\ event \in [life : Life, value : SUBSET Bit,
                mask : [Thread -> SUBSET Bit], opt : [Thread -> EventOpt]]
  /\ pool \in [life : Life, lfree : PoolBlock \cup {Pool},
               header : [PoolBlock -> PoolBlock \cup {Pool}], held : [PoolBlock -> Nat]]

\* Whoever is queued for an object, also one that was retired meanwhile or
\* whose call returned an error, is suspended and will be woken by its timer.
WaitersArmed ==
  \A t \in User : \A w \in WaitQ :
    On(k, w, t) => k.st[t] = "SUSPENDED" /\ Armed(k, t) /\ k.left[t] < TimerMax

\* The permits that threads were given, numbered for each thread.
Given(g) == UNION {{t} \X (1..g[t]) : t \in Thread}

\* Every permit of a semaphore in use is in its value or was given to a
\* thread, and nobody waits for a semaphore or a condition that has a value.
PermitsConserved ==
  /\ kind = "sem" /\ sem.life # "none" =>
       sem.value + Cardinality(Given(granted)) = MaxPermits
  /\ k.list[SemQ] # <<>> => sem.value = 0

\* A mutex in use changes hands only when its owner executes, in the release
\* that ends its nesting, and no call leaves a thread with another priority.
MutexOwnership ==
  [][/\ k'.prio = k.prio
     /\ mutex.owner \notin {NoThread, mutex'.owner} /\ mutex.life # "none"
          => Executes(mutex.owner) /\ mutex.nest = 1]_vars

\* When the set of an event in an interrupt takes bits away that were there,
\* it takes a waiter off the queue as well.
ConsumedWakesOne ==
  [][isr /\ ~(event.value \subseteq event'.value)
       => Len(k'.list[EventQ]) = Len(k.list[EventQ]) - 1]_vars

\* A block of a pool, but for the first one, which the free list repeats, has
\* one holder at most, and is not handed out again while it has one.
BlocksHaveOneHolder ==
  \A b \in PoolBlock \ {MemBuff} :
    /\ pool.held[b] <= 1
    /\ pool.held[b] = 1 => b \notin FreeChain(pool)

\* MDS_ERANGE means "Math result not representable": the mutex refuses its
\* owner, or a new owner, when one more nesting cannot be counted.
RangeMeansLimit ==
  \A t \in User : Executes(t) /\ mutex.life # "none" =>
    (MutexAcquire(k, mutex, t, 0).err = "ERANGE" => mutex.nest = NestMax)
=============================================================================

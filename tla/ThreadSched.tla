---------------------------- MODULE ThreadSched ----------------------------
(***************************************************************************)
(* Threads of one processor under the scheduler: thread.c, scheduler.c,    *)
(* kernel.c, idle.c and the tick interrupt of clock.c.                     *)
(*                                                                         *)
(* A critical section (interrupts masked) is one step.  A call that ends   *)
(* with MDS_KernelSchedulerCheck outside its critical section is two       *)
(* steps, and pc[t] says where thread t stands:                            *)
(*   "run"    in application code, about to call the kernel                *)
(*   "check"  before the scheduler check that ends its call                *)
(*   "slept"  in MDS_ThreadDelay before the check, "woken" after it        *)
(*   "exit"   in THREAD_Entry before its check, "panic" after it           *)
(***************************************************************************)
EXTENDS Processor

CONSTANTS MaxDelay,            \* delays of 1..MaxDelay ticks, and forever
          MaxNest,             \* bound on the nesting of the scheduler lock
          SetPriorityAnyTime   \* FALSE: only where it moves the thread

ASSUME SchedAssumption ==
  /\ MaxDelay \in Nat /\ MaxDelay < TimerMax /\ MaxNest \in Nat
  /\ SetPriorityAnyTime \in BOOLEAN

VARIABLES pc,       \* where each thread stands in its call
          reaping   \* the thread the idle thread popped and has not freed

vars == <<k, pc, isr, reaping>>

Pc == {"run", "check", "slept", "woken", "exit", "panic"}

Init ==
  /\ ProcessorInit
  /\ pc = [t \in Thread |-> "run"]
  /\ reaping = NoThread

\* t calls the kernel; after MDS_ThreadClose of itself it can only return
\* from its entry.
Calls(t) == t \in User /\ Executes(t) /\ pc[t] = "run" /\ k.st[t] # "TERMINATED"

Goto(t, where) == pc' = [pc EXCEPT ![t] = where]

-----------------------------------------------------------------------------
BootStartup(t) == StartBeforeBoot(t) /\ UNCHANGED <<pc, reaping>>
Boot == StartScheduler /\ UNCHANGED <<pc, reaping>>

-----------------------------------------------------------------------------
(* Calls of thread t, and on thread u                                      *)

Startup(t, u) ==
  /\ Calls(t) /\ k.st[u] # "FREE"
  /\ k' = ThreadStartup(k, u)
  /\ Goto(t, "check")
  /\ UNCHANGED <<isr, reaping>>

Resume(t, u) ==
  /\ Calls(t) /\ k.st[u] = "SUSPENDED"
  /\ k' = ThreadResume(k, u)
  /\ UNCHANGED <<pc, isr, reaping>>

Suspend(t, u) ==
  /\ Calls(t) /\ ThreadSuspendErr(k, u) = "EOK"
  /\ k' = ThreadSuspend(k, u)
  /\ UNCHANGED <<pc, isr, reaping>>

SetPriority(t, u, p) ==
  /\ Calls(t) /\ k.st[u] # "FREE"
  /\ SetPriorityAnyTime \/ (OnReadyLevel(k, u) => k.st[u] = "READY")
  /\ k' = ThreadSetPriority(k, u, p)
  /\ UNCHANGED <<pc, isr, reaping>>

\* Delay, Exit and Close of the caller itself: the application does not lock
\* the scheduler and then give up the processor.
Close(t, u) ==
  /\ Calls(t) /\ k.st[u] \notin {"FREE", "TERMINATED"}
  /\ u = t => k.nest = 0
  /\ k' = ThreadTerminate(k, u)
  /\ UNCHANGED <<pc, isr, reaping>>

Delay(t, d) ==
  /\ Calls(t) /\ k.nest = 0
  /\ k' = ThreadDelay(k, t, d)
  /\ Goto(t, "slept")
  /\ UNCHANGED <<isr, reaping>>

Yield(t) ==
  /\ Calls(t)
  /\ k' = ThreadYield(k, t)
  /\ Goto(t, "check")
  /\ UNCHANGED <<isr, reaping>>

LockScheduler(t) ==
  /\ Calls(t) /\ k.nest < MaxNest
  /\ k' = LockAcquire(k)
  /\ UNCHANGED <<pc, isr, reaping>>

\* The release that brings the count to zero, and one too many, check the
\* scheduler.
UnlockScheduler(t) ==
  /\ Calls(t)
  /\ k' = LockRelease(k)
  /\ Goto(t, IF k.nest <= 1 THEN "check" ELSE "run")
  /\ UNCHANGED <<isr, reaping>>

\* THREAD_Entry after the thread's entry returned.
Exit(t) ==
  /\ t \in User /\ Executes(t) /\ pc[t] = "run" /\ k.nest = 0
  /\ k' = ThreadTerminate(k, t)
  /\ Goto(t, "exit")
  /\ UNCHANGED <<isr, reaping>>

Check(t) ==
  /\ t \in User /\ Executes(t) /\ pc[t] \in {"check", "slept", "exit"}
  /\ k' = SchedulerCheck(k)
  /\ Goto(t, CASE pc[t] = "check" -> "run"
               [] pc[t] = "slept" -> "woken"
               [] pc[t] = "exit" -> "panic")
  /\ UNCHANGED <<isr, reaping>>

DelayReturn(t) ==
  /\ t \in User /\ Executes(t) /\ pc[t] = "woken"
  /\ k' = [k EXCEPT !.err[t] = IF @ = "ETIMEOUT" THEN "EOK" ELSE @]
  /\ Goto(t, "run")
  /\ UNCHANGED <<isr, reaping>>

-----------------------------------------------------------------------------
(* The idle thread: IDLE_ThreadDefunct                                     *)

IdlePop ==
  /\ Executes(Idle) /\ reaping = NoThread /\ k.list[Defunct] # <<>>
  /\ reaping' = Head(k.list[Defunct])
  /\ k' = Detach(k, Head(k.list[Defunct]))
  /\ UNCHANGED <<pc, isr>>

IdleFree ==
  /\ Executes(Idle) /\ reaping # NoThread
  /\ k' = [k EXCEPT !.st[reaping] = "FREE"]
  /\ reaping' = NoThread
  /\ UNCHANGED <<pc, isr>>

-----------------------------------------------------------------------------
(* The tick interrupt                                                      *)

Tick == TickInterrupt /\ UNCHANGED <<pc, reaping>>
Expire == TimerInterrupt /\ UNCHANGED <<pc, reaping>>
TickReturn == InterruptReturn /\ UNCHANGED <<pc, reaping>>

-----------------------------------------------------------------------------
Call(t) ==
  \/ \E u \in User : \/ Startup(t, u) \/ Resume(t, u) \/ Suspend(t, u) \/ Close(t, u)
                     \/ \E p \in Prio : SetPriority(t, u, p)
  \/ \E d \in 1..MaxDelay \cup {TimerMax} : Delay(t, d)
  \/ Yield(t) \/ LockScheduler(t) \/ UnlockScheduler(t) \/ Exit(t)

Next ==
  \/ \E t \in User : BootStartup(t) \/ Call(t) \/ Check(t) \/ DelayReturn(t)
  \/ Boot \/ IdlePop \/ IdleFree
  \/ Tick \/ Expire \/ TickReturn

Spec == Init /\ [][Next]_vars

\* The hardware goes on ticking and an interrupt returns.  The code a thread
\* is in goes on whenever the thread executes: the processor leaves it time
\* between two ticks, so that a step which ticks only interrupt is taken
\* (strong fairness).  A thread that locked the scheduler unlocks it again.
Fairness ==
  /\ WF_vars(Tick) /\ WF_vars(Expire) /\ WF_vars(TickReturn) /\ WF_vars(Boot)
  /\ SF_vars(IdlePop) /\ SF_vars(IdleFree)
  /\ \A t \in User : /\ SF_vars(Check(t)) /\ SF_vars(DelayReturn(t))
                     /\ SF_vars(UnlockScheduler(t) /\ k.nest > 0)

\* A thread that suspended itself and resumes itself before any scheduler
\* check is put at the head of its level with a fresh claim to the processor;
\* liveness is claimed of applications that do not do that.
FairSpec ==
  Init /\ [][Next /\ ~ \E t \in User : Resume(t, t)]_vars /\ Fairness

-----------------------------------------------------------------------------
(* What the kernel promises                                                *)

\* Every variable has its type; the nesting count of the scheduler lock, for
\* one, never goes below zero whatever releases the application calls.
TypeOK ==
  /\ k \in KernelState
  /\ pc \in [Thread -> Pc]
  /\ isr \in BOOLEAN
  /\ reaping \in Thread \cup {NoThread}

\* A thread is linked in one place: the one node nodeWait serves the ready
\* table, the wait queues and the defunct queue, and the functions that move
\* it must unlink it before they link it.
NodeInOneList == OneHome(k)

\* The bits MDS_SchedulerFFS searches agree with the ready table, which is
\* what makes the head of the chosen level a thread.
ReadyTableExact == TableExact(k)

\* No timer is linked while it is linked: MDS_WorkNodeSubmit does not look,
\* so every wait must find the timer of the last one expired or stopped.
TimerLinkedOnce == k.fault # "relinked_timer"

\* The panic of MDS_KernelSchedulerCheck never fires: the thread it is about
\* to switch to is a thread whose stack it can check.
SwitchTargetIntact == k.fault # "broken_switch"

\* A ready thread is where the scheduler looks for it, no other thread than
\* the current one is RUNNING, and the ready table holds only threads that
\* may run: ready ones, and timed out ones whose state is still SUSPENDED.
ReadyIsListed ==
  \A t \in Thread :
    /\ k.st[t] = "READY" /\ t # Idle => On(k, k.prio[t], t)
    /\ k.st[t] = "RUNNING" => t = k.curr
    /\ OnReadyLevel(k, t) =>
         \/ k.st[t] = "READY"
         \/ k.st[t] = "SUSPENDED" /\ k.err[t] = "ETIMEOUT"
         \/ k.st[t] = "RUNNING" /\ t = k.curr

\* A thread whose timer is armed is asleep: it is suspended, out of the
\* ready table, and no other operation left its timer behind.
ArmedIsAsleep ==
  \A t \in Thread : Armed(k, t) => k.st[t] = "SUSPENDED" /\ ~OnReadyLevel(k, t)

\* A dead thread waits in the defunct queue or is being freed; a freed one
\* is referred to by nothing: not the processor, no list, no timer.
DeadIsDetached ==
  \A t \in Thread :
    /\ k.st[t] = "TERMINATED" =>
         /\ ~OnReadyLevel(k, t) /\ ~Armed(k, t)
         /\ On(k, Defunct, t) # (reaping = t)
    /\ k.st[t] = "FREE" \/ reaping = t =>
         t # k.curr /\ ~Armed(k, t) /\ \A l \in Lists : ~On(k, l, t)

\* The processor is given to a thread of the highest priority that is ready.
SwitchToHighest ==
  [][k'.curr # k.curr =>
       \A p \in Prio : k'.list[p] # <<>> => k'.prio[k'.curr] <= p]_vars

\* While the scheduler is locked the current thread keeps the processor.
LockKeepsProcessor == [][k.nest > 0 => k'.curr = k.curr]_vars

\* The scheduler check that ends THREAD_Entry never returns to the thread.
ExitIsFinal == \A t \in Thread : pc[t] = "panic" => k.curr # t

\* A thread asleep on its timer does not stay suspended for ever.
SleeperWakes ==
  \A t \in User : Armed(k, t) ~> k.st[t] # "SUSPENDED"

\* Of two threads of one priority, a ready one gets the processor, unless
\* the other suspends or closes it: the time slice takes it from the other.
ReadyRuns ==
  \A t \in User :
    k.st[t] = "READY" ~> (k.curr = t \/ k.st[t] \in {"SUSPENDED", "TERMINATED", "FREE"})

\* When all threads are gone the idle thread releases every one of them.
DeadAreFreed ==
  (\A t \in User : k.st[t] \in {"TERMINATED", "FREE"}) ~> \A t \in User : k.st[t] = "FREE"
=============================================================================

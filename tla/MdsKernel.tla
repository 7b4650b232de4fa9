----------------------------- MODULE MdsKernel -----------------------------
(***************************************************************************)
(* The kernel functions every other part of the system calls: the ready    *)
(* table of scheduler.c, the scheduler check and the wait queues of        *)
(* kernel.c, the thread operations of thread.c and the list of thread      *)
(* timers kept by timer.c and workq.c.                                     *)
(*                                                                         *)
(* A kernel state k is a record.  Each C function is an operator from      *)
(* kernel states to kernel states, so that a state machine that EXTENDS    *)
(* this module models a critical section by one composed expression.       *)
(*   k.list    the threads linked, by their single node nodeWait, into     *)
(*             each ready level, wait queue and the defunct queue          *)
(*   k.mask    the ready levels whose bit is set in g_sysThreadPrioMask    *)
(*   k.st, k.yield, k.prio, k.err, k.remain      the fields of a thread    *)
(*   k.curr, k.nest   g_sysCurrThread and g_sysScheduler.lockNest          *)
(*   k.tq, k.left     the thread timers in g_sysTimerQueue, in the order   *)
(*             of the list, and the ticks each still has to wait           *)
(*   k.fault   the first reached use of broken memory, "none" before that  *)
(***************************************************************************)
EXTENDS DList

CONSTANTS Thread,    \* every MDS_Thread_t of the system
          Idle,      \* g_idleThread
          NoThread,  \* a NULL thread pointer
          PrioMax,   \* CONFIG_MDS_KERNEL_THREAD_PRIORITY_MAX
          Slice,     \* initTick, the time slice, of every thread
          TimerMax,  \* MDS_CLOCK_TICK_TIMER_MAX
          WaitQ,     \* the MDS_WaitQueue_t of the objects in use
          Defunct    \* g_sysDefunct.queue

Prio == 0..(PrioMax - 1)
Level == 0..PrioMax
Lists == Prio \cup WaitQ \cup {Defunct}

ASSUME KernelAssumption ==
  /\ Idle \in Thread /\ NoThread \notin Thread
  /\ PrioMax \in Nat \ {0} /\ Slice \in Nat \ {0} /\ TimerMax \in Nat \ {0}
  /\ Defunct \notin Prio \cup WaitQ /\ WaitQ \cap Prio = {}

\* "FREE" is a thread object that is not initialised, or no longer.
State == {"FREE", "INACTIVED", "TERMINATED", "READY", "RUNNING", "SUSPENDED"}
Err == {"EOK", "ETIMEOUT", "EACCES", "EAGAIN", "EINVAL", "ENOENT"}
Fault == {"none", "broken_switch", "relinked_timer", "null_owner", "left_masked", "wild_block"}

\* MDS_KernelInit: every thread object of the system initialised with its
\* priority, the idle thread started, the scheduler not running.
KernelInit(initPrio) ==
  [list |-> [l \in Lists |-> <<>>],
   mask |-> {},
   st |-> [t \in Thread |-> IF t = Idle THEN "READY" ELSE "INACTIVED"],
   yield |-> {},
   prio |-> initPrio,
   curr |-> NoThread,
   nest |-> 0,
   tq |-> <<>>,
   left |-> [t \in Thread |-> 0],
   err |-> [t \in Thread |-> "EOK"],
   remain |-> [t \in Thread |-> Slice],
   fault |-> "none"]

-----------------------------------------------------------------------------
(* scheduler.c                                                             *)

\* MDS_ThreadSetState: entering RUNNING also drops the yield flag.
SetState(k, t, s) ==
  [k EXCEPT !.st[t] = s,
            !.yield = IF s = "RUNNING" THEN @ \ {t} ELSE @]

SetYield(k, t) == [k EXCEPT !.yield = @ \cup {t}]

\* The node of t taken out of whatever list it is on.
Detach(k, t) == [k EXCEPT !.list = [l \in Lists |-> Unlink(@[l], t)]]

\* A defect: the node is linked again without being unlinked first.
InsertThreadStillLinked(k, t) ==
  IF k.prio[t] \in Prio
  THEN [k EXCEPT !.list[k.prio[t]] = PushHead(@, t), !.mask = @ \cup {k.prio[t]}]
  ELSE k

\* MDS_SchedulerInsertThread: a thread that yielded goes to the tail of its
\* level, any other to the head; the level of the idle thread has no list.
InsertThread(k, t) ==
  IF k.prio[t] \in Prio
  THEN [Detach(k, t) EXCEPT
          !.list[k.prio[t]] = IF t \in k.yield THEN PushTail(@, t) ELSE PushHead(@, t),
          !.mask = @ \cup {k.prio[t]}]
  ELSE Detach(k, t)

\* A defect: the bit is cleared whether or not the level became empty.
RemoveThreadAlwaysClear(k, t) ==
  [Detach(k, t) EXCEPT !.mask = @ \ {k.prio[t]}]

\* A defect: the bit stays set when the level became empty.
RemoveThreadKeepBit(k, t) == Detach(k, t)

\* MDS_SchedulerRemoveThread: unlinks the thread wherever it is, and clears
\* the bit of the level of its current priority when that level is empty.
RemoveThread(k, t) ==
  LET d == Detach(k, t) IN
  IF k.prio[t] \in Prio /\ d.list[k.prio[t]] = <<>>
  THEN [d EXCEPT !.mask = @ \ {k.prio[t]}]
  ELSE d

\* MDS_SchedulerFFS: the highest level, that is the lowest number, in use.
TopLevel(k) == CHOOSE p \in k.mask : \A q \in k.mask : p <= q

\* A defect: the last thread of the lowest level instead of the first of the
\* highest.
PeekThreadLowest(k) ==
  IF k.mask = {} THEN Idle
  ELSE LET p == CHOOSE p \in k.mask : \A q \in k.mask : p >= q IN
       IF k.list[p] = <<>> THEN NoThread ELSE Head(k.list[p])

\* MDS_SchedulerPeekThread.  With a bit set on an empty level the header of
\* the level is itself taken for a thread: NoThread stands for that.
PeekThread(k) ==
  IF k.mask = {} THEN Idle
  ELSE IF k.list[TopLevel(k)] = <<>> THEN NoThread
  ELSE Head(k.list[TopLevel(k)])

-----------------------------------------------------------------------------
(* kernel.c                                                                *)

\* The running thread keeps the processor against the candidate to.
StaysRunning(k, to) ==
  /\ k.st[k.curr] = "RUNNING"
  /\ \/ k.prio[k.curr] < k.prio[to]
     \/ k.prio[k.curr] = k.prio[to] /\ k.curr \notin k.yield

\* The running thread goes back to the ready table.
Preempt(k) ==
  IF k.st[k.curr] = "RUNNING"
  THEN SetState(InsertThread(k, k.curr), k.curr, "READY")
  ELSE k

SwitchTo(k, to) ==
  [SetState(RemoveThread(k, to), to, "RUNNING") EXCEPT !.curr = to]

\* A defect: the scheduler lock is not looked at.
SchedulerCheckUnlocked(k) ==
  LET to == PeekThread(k) IN
  IF k.curr = NoThread THEN k
  ELSE IF to = NoThread THEN [k EXCEPT !.fault = "broken_switch"]
  ELSE IF StaysRunning(k, to) THEN SwitchTo(k, k.curr)
  ELSE SwitchTo(Preempt(k), to)

\* MDS_KernelSchedulerCheck.
SchedulerCheck(k) ==
  LET to == PeekThread(k) IN
  IF k.nest # 0 \/ k.curr = NoThread THEN k
  ELSE IF to = NoThread THEN [k EXCEPT !.fault = "broken_switch"]
  ELSE IF StaysRunning(k, to) THEN SwitchTo(k, k.curr)
  ELSE SwitchTo(Preempt(k), to)

\* MDS_KernelStartup: the first thread is not taken out of the ready table.
KernelStartup(k) ==
  LET to == PeekThread(k) IN [SetState(k, to, "RUNNING") EXCEPT !.curr = to]

\* A defect: the count is not kept from going below zero.
LockReleaseUnclamped(k) == [k EXCEPT !.nest = @ - 1]

LockAcquire(k) == [k EXCEPT !.nest = @ + 1]
LockRelease(k) == [k EXCEPT !.nest = IF @ > 0 THEN @ - 1 ELSE 0]

-----------------------------------------------------------------------------
(* The thread timers: timer.c and the list of workq.c                      *)

\* MDS_SysTimerStart of a thread timer: one-shot, d ticks from now, after
\* every timer that is due no later.  A too long duration arms nothing; a
\* timer that is still linked would be linked twice.
TimerStart(k, t, d) ==
  IF d >= TimerMax THEN k
  ELSE IF Contains(k.tq, t)
  THEN [k EXCEPT !.fault = "relinked_timer"]
  ELSE [k EXCEPT !.tq = InsertBefore(@, t, {u \in Thread : k.left[u] > d}),
                 !.left[t] = d]

\* A defect: the node stays linked.
TimerStopNothing(k, t) == k

\* MDS_TimerStop, of a timer that may not be armed.
TimerStop(k, t) == [k EXCEPT !.tq = Unlink(@, t), !.left[t] = 0]

\* The wait of every armed timer shortened by the tick that just passed.
TimersElapse(k) ==
  [k EXCEPT !.left = [t \in Thread |-> IF @[t] > 0 THEN @[t] - 1 ELSE 0]]

TimerDue(k) == k.tq # <<>> /\ k.left[Head(k.tq)] = 0

-----------------------------------------------------------------------------
(* thread.c                                                                *)

\* A defect: the timer of the thread stays armed.
MakeReadyTimerLeft(k, t) ==
  SetState(InsertThread(RemoveThread(k, t), t), t, "READY")

\* What MDS_ThreadStartup and MDS_ThreadResume do to the thread.
MakeReady(k, t) ==
  SetState(InsertThread(RemoveThread(TimerStop(k, t), t), t), t, "READY")

\* MDS_ThreadStartup up to its scheduler check.
ThreadStartup(k, t) == IF k.st[t] = "INACTIVED" THEN MakeReady(k, t) ELSE k

ThreadResume(k, t) == IF k.st[t] = "SUSPENDED" THEN MakeReady(k, t) ELSE k

ThreadSuspendErr(k, t) ==
  IF k.st[t] \in {"READY", "RUNNING"} THEN "EOK" ELSE "EAGAIN"

\* A defect: the thread stays in the ready table.
ThreadSuspendStillListed(k, t) ==
  IF ThreadSuspendErr(k, t) = "EOK" THEN SetState(TimerStop(k, t), t, "SUSPENDED") ELSE k

ThreadSuspend(k, t) ==
  IF ThreadSuspendErr(k, t) = "EOK"
  THEN SetState(RemoveThread(TimerStop(k, t), t), t, "SUSPENDED")
  ELSE k

\* MDS_ThreadSetPriority: the thread changes level only in state READY.
ThreadSetPriority(k, t, p) ==
  IF k.st[t] = "READY"
  THEN InsertThread([RemoveThread(k, t) EXCEPT !.prio[t] = p], t)
  ELSE [k EXCEPT !.prio[t] = p]

\* A defect: the timer of the thread is left armed.
ThreadTerminateTimerLeft(k, t) ==
  IF k.st[t] = "TERMINATED" THEN k
  ELSE SetState([RemoveThread(k, t) EXCEPT !.list[Defunct] = PushTail(@, t)], t, "TERMINATED")

\* A defect: the thread keeps its state.
ThreadTerminateKeepsState(k, t) ==
  IF k.st[t] = "TERMINATED" THEN k
  ELSE [RemoveThread(TimerStop(k, t), t) EXCEPT !.list[Defunct] = PushTail(@, t)]

\* A defect: the thread is not queued for the idle thread.
ThreadTerminateNotPushed(k, t) ==
  SetState(RemoveThread(TimerStop(k, t), t), t, "TERMINATED")

\* THREAD_Terminate with the state its callers set after it.
ThreadTerminate(k, t) ==
  IF k.st[t] = "TERMINATED" THEN k
  ELSE LET r == RemoveThread(TimerStop(k, t), t) IN
       SetState([r EXCEPT !.list[Defunct] = PushTail(@, t)], t, "TERMINATED")

\* A defect: only the error is recorded.
ThreadTimeoutNoInsert(k, t) == [k EXCEPT !.err[t] = "ETIMEOUT"]

\* THREAD_Timeout up to its scheduler check.  The thread is put in the ready
\* table but its state stays SUSPENDED until the scheduler picks it.
ThreadTimeout(k, t) ==
  IF k.st[t] = "SUSPENDED"
  THEN [InsertThread(k, t) EXCEPT !.err[t] = "ETIMEOUT"]
  ELSE [k EXCEPT !.err[t] = "EACCES"]

\* A defect: the slice starts again but the thread does not yield.
RemainTickNoYield(k) ==
  IF k.remain[k.curr] > 1 THEN [k EXCEPT !.remain[k.curr] = @ - 1]
  ELSE SchedulerCheck([k EXCEPT !.remain[k.curr] = Slice])

\* MDS_ThreadRemainTicks(1): at the end of its slice the thread yields.
RemainTick(k) ==
  IF k.remain[k.curr] > 1 THEN [k EXCEPT !.remain[k.curr] = @ - 1]
  ELSE SchedulerCheck(SetYield([k EXCEPT !.remain[k.curr] = Slice], k.curr))

\* The critical sections of MDS_ThreadYield and of MDS_ThreadDelay.
ThreadYield(k, t) == SetYield([k EXCEPT !.remain[t] = Slice], t)
ThreadDelay(k, t, d) == TimerStart(ThreadSuspend(k, t), t, d)

\* MDS_ClockIncTickCount(1) up to MDS_SysTimerCheck.
ClockTick(k) == RemainTick(TimersElapse(k))

\* One round of MDS_WorkQueueCheck: the first timer that is due is unlinked
\* and its callback, THREAD_Timeout with its scheduler check, is called.
TimerExpire(k) ==
  SchedulerCheck(ThreadTimeout([k EXCEPT !.tq = Tail(@)], Head(k.tq)))

-----------------------------------------------------------------------------
(* The wait queues of kernel.c                                             *)

\* A defect: the caller is queued whatever became of its suspension.
WaitQueueSuspendAnyway(k, q, t, d, isPrio) ==
  LET behind == IF isPrio THEN {u \in Thread : k.prio[t] < k.prio[u]} ELSE {} IN
  TimerStart([ThreadSuspend(k, t) EXCEPT !.list[q] = InsertBefore(@, t, behind)], t, d)

\* A defect: the timer of the waiter is not started.
WaitQueueSuspendNoTimer(k, q, t, d, isPrio) ==
  IF ThreadSuspendErr(k, t) # "EOK" THEN k
  ELSE [ThreadSuspend(k, t) EXCEPT !.list[q] = PushTail(@, t)]

\* MDS_KernelWaitQueueSuspend of the caller t.
WaitQueueSuspend(k, q, t, d, isPrio) ==
  LET s == ThreadSuspend(k, t)
      behind == IF isPrio THEN {u \in Thread : k.prio[t] < k.prio[u]} ELSE {}
  IN  IF ThreadSuspendErr(k, t) # "EOK" THEN k
      ELSE TimerStart([s EXCEPT !.list[q] = InsertBefore(@, t, behind)], t, d)

\* What it returns: the queue of the thread timers has no thread to wake, and
\* MDS_WorkNodeSubmit then returns MDS_EACCES although it queued the timer.
WaitQueueSuspendErr(k, t) == IF ThreadSuspendErr(k, t) # "EOK" THEN "EAGAIN" ELSE "EACCES"

\* MDS_KernelWaitQueueResume: the first waiter, which is made ready; a queue
\* without waiters gives NoThread and changes nothing.
WaitQueuePeek(k, q) == IF k.list[q] = <<>> THEN NoThread ELSE Head(k.list[q])

WaitQueueResume(k, q) ==
  IF WaitQueuePeek(k, q) = NoThread THEN k ELSE ThreadResume(k, WaitQueuePeek(k, q))

\* MDS_KernelWaitQueueDrain: its loop runs once, so it wakes one waiter.
WaitQueueDrain(k, q) ==
  IF WaitQueuePeek(k, q) = NoThread THEN k
  ELSE [WaitQueueResume(k, q) EXCEPT !.err[WaitQueuePeek(k, q)] = "ENOENT"]

-----------------------------------------------------------------------------
(* Predicates on kernel states                                             *)

KernelState ==
  [list : [Lists -> Seq(Thread)],
   mask : SUBSET Prio,
   st : [Thread -> State],
   yield : SUBSET Thread,
   prio : [Thread -> Level],
   curr : Thread \cup {NoThread},
   nest : Nat,
   tq : Seq(Thread),
   left : [Thread -> Nat],
   err : [Thread -> Err],
   remain : [Thread -> 1..Slice],
   fault : Fault]

On(k, l, t) == Contains(k.list[l], t)
OnReadyLevel(k, t) == \E p \in Prio : On(k, p, t)
Armed(k, t) == Contains(k.tq, t)

\* The node of a thread is in at most one place of at most one list.
OneHome(k) ==
  /\ \A l \in Lists : Distinct(k.list[l])
  /\ \A l, m \in Lists : \A t \in Thread : On(k, l, t) /\ On(k, m, t) => l = m

\* The bit of a level is set exactly when the level has a thread, and the
\* threads of a level have its priority.
TableExact(k) ==
  /\ k.mask = {p \in Prio : k.list[p] # <<>>}
  /\ \A p \in Prio : \A t \in Thread : On(k, p, t) => k.prio[t] = p
=============================================================================

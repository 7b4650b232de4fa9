----------------------------- MODULE Condition -----------------------------
(***************************************************************************)
(* Condition variables (ipc/condition.c): a semaphore s whose value starts *)
(* at 0, and the mutex m of its waiters.  The calls that take several      *)
(* critical sections are steps of module Ipc.                              *)
(***************************************************************************)
EXTENDS Semaphore, Mutex

CONSTANT CondMax   \* the bound of the value, SIZE_MAX in the code

ASSUME ConditionAssumption == CondMax \in Nat

ConditionInit(s) == SemaphoreInit(s, 0, CondMax)
ConditionCreate == SemaphoreCreate(0, CondMax)

\* A value is taken back before the semaphore is retired; the error of an
\* attempt that finds none stays in the caller t.
TakeBack(k, s, t) == SemaphoreAcquire(k, s, t, 0)

\* MDS_ConditionDeInit, MDS_ConditionDestroy: refused while somebody waits.
ConditionDeInit(k, s, t) ==
  IF WaitQueuePeek(k, SemQ) # NoThread THEN [k |-> k, s |-> s]
  ELSE LET r == TakeBack(k, s, t) IN SemaphoreDeInit(r.k, r.s)
ConditionDestroy(k, s, t) ==
  IF WaitQueuePeek(k, SemQ) # NoThread THEN [k |-> k, s |-> s]
  ELSE LET r == TakeBack(k, s, t) IN SemaphoreDestroy(r.k, r.s)

\* MDS_ConditionWait by the owner t of the mutex, up to where it takes the
\* mutex again.  A call that finds a value, or may not wait, returns with the
\* interrupts masked.  The waiters are queued in the order they come.
ConditionWait(k, s, m, t, d) ==
  IF s.value > 0
  THEN [k |-> [k EXCEPT !.fault = "left_masked"], s |-> [s EXCEPT !.value = @ - 1], m |-> m,
        waits |-> FALSE]
  ELSE IF d = 0
  THEN [k |-> [k EXCEPT !.fault = "left_masked", !.err[t] = "ETIMEOUT"], s |-> s, m |-> m,
        waits |-> FALSE]
  ELSE IF d >= TimerMax THEN [k |-> k, s |-> s, m |-> m, waits |-> FALSE]
  ELSE LET r == MutexRelease(WaitQueueSuspend(k, SemQ, t, d, FALSE), m, t) IN
       [k |-> IF r.check THEN SchedulerCheck(r.k) ELSE r.k, s |-> s, m |-> r.m, waits |-> TRUE]
=============================================================================

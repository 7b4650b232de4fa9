----------------------------- MODULE Semaphore -----------------------------
(***************************************************************************)
(* Semaphores (ipc/semaphore.c) as operators on the kernel state and the   *)
(* semaphore s: its value, its max and how it came to be, "none" when it   *)
(* is not initialised or was destroyed.  A call returns the new kernel     *)
(* state, the new semaphore, its error and, as check, whether a scheduler  *)
(* check follows its critical section.                                     *)
(***************************************************************************)
EXTENDS MdsKernel

CONSTANT SemQ   \* queueWait of the semaphore

Life == {"none", "static", "created"}

NewSemaphore(life, init, max) == [life |-> life, value |-> init, max |-> max]

\* MDS_SemaphoreInit of a semaphore in use is refused with MDS_EAGAIN.
SemaphoreInit(s, init, max) ==
  IF s.life = "none" THEN NewSemaphore("static", init, max) ELSE s

SemaphoreCreate(init, max) == NewSemaphore("created", init, max)

\* MDS_SemaphoreDeInit, MDS_SemaphoreDestroy: the first waiter is told.
SemaphoreDeInit(k, s) ==
  [k |-> WaitQueueDrain(k, SemQ), s |-> [s EXCEPT !.life = "none"]]

SemaphoreDestroy(k, s) ==
  [k |-> WaitQueueDrain(k, SemQ),
   s |-> IF s.life = "created" THEN [s EXCEPT !.life = "none"] ELSE s]

\* MDS_SemaphoreAcquire.  The wait never returns MDS_EOK, so the caller goes
\* on with the error while it is suspended and queued.
SemaphoreAcquire(k, s, t, d) ==
  IF s.value > 0 THEN [k |-> k, s |-> [s EXCEPT !.value = @ - 1], err |-> "EOK"]
  ELSE IF d = 0 THEN [k |-> [k EXCEPT !.err[t] = "ETIMEOUT"], s |-> s, err |-> "ETIMEOUT"]
  ELSE IF d < TimerMax
  THEN [k |-> WaitQueueSuspend(k, SemQ, t, d, TRUE), s |-> s, err |-> WaitQueueSuspendErr(k, t)]
  ELSE [k |-> k, s |-> s, err |-> "EINVAL"]

\* A defect: the value is counted up for a waiter too.
SemaphoreReleaseCounts(k, s) ==
  LET w == WaitQueuePeek(k, SemQ) IN
  [k |-> WaitQueueResume(k, SemQ),
   s |-> IF s.value < s.max THEN [s EXCEPT !.value = @ + 1] ELSE s,
   err |-> "EOK", check |-> w # NoThread]

\* MDS_SemaphoreRelease: the permit goes to the first waiter, or back.
SemaphoreRelease(k, s) ==
  LET w == WaitQueuePeek(k, SemQ)
      full == w = NoThread /\ s.value >= s.max
  IN  [k |-> WaitQueueResume(k, SemQ),
       s |-> IF w = NoThread /\ ~full THEN [s EXCEPT !.value = @ + 1] ELSE s,
       err |-> IF full THEN "ERANGE" ELSE "EOK",
       check |-> w # NoThread]
=============================================================================

------------------------------- MODULE Mutex -------------------------------
(***************************************************************************)
(* Mutexes (ipc/mutex.c) as operators on the kernel state and the mutex m. *)
(* The nesting counter is a signed integer of NestWidth bits that wraps,   *)
(* 16 in the code.  A call returns what it does in module Semaphore.       *)
(***************************************************************************)
EXTENDS MdsKernel

CONSTANTS MutexQ,     \* queueWait of the mutex
          NestWidth   \* the bits of the counter nest

NestMax == 2^(NestWidth - 1) - 1
NestMin == -(2^(NestWidth - 1))

\* The second part follows from the first; no prover knows the powers of 2.
ASSUME MutexAssumption == NestWidth \in Nat \ {0, 1} /\ NestMax > 0

\* nest -= 1
NestDown(n) == IF n = NestMin THEN NestMax ELSE n - 1

\* The nesting grows only below the limit that the code compares it with,
\* -1 cast to the type of the counter.
Nestable(m) == m.nest < -1
Nested(m) == IF Nestable(m) THEN [m EXCEPT !.nest = @ + 1] ELSE m

NewMutex(life) ==
  [life |-> life, owner |-> NoThread, prio |-> PrioMax, value |-> 1, nest |-> 0]

\* MDS_MutexInit of a mutex in use is refused with MDS_EAGAIN.
MutexInit(m) == IF m.life = "none" THEN NewMutex("static") ELSE m

MutexCreate == NewMutex("created")

\* MDS_MutexDeInit, MDS_MutexDestroy: the first waiter is told.
MutexDeInit(k, m) == [k |-> WaitQueueDrain(k, MutexQ), m |-> [m EXCEPT !.life = "none"]]

MutexDestroy(k, m) ==
  [k |-> WaitQueueDrain(k, MutexQ),
   m |-> IF m.life = "created" THEN [m EXCEPT !.life = "none"] ELSE m]

\* A defect: the owner keeps the priority of the waiter that failed.
QueueForNoRestore(k, m, t, d) ==
  LET raised == IF k.prio[t] < k.prio[m.owner]
                THEN ThreadSetPriority(k, m.owner, k.prio[t]) ELSE k
  IN  WaitQueueSuspend(raised, MutexQ, t, d, TRUE)

\* The wait of a thread for the owner: the owner inherits its priority, and
\* gets its own back because the wait returns an error, which it always does.
QueueFor(k, m, t, d) ==
  LET raised == IF k.prio[t] < k.prio[m.owner]
                THEN ThreadSetPriority(k, m.owner, k.prio[t]) ELSE k
  IN  ThreadSetPriority(WaitQueueSuspend(raised, MutexQ, t, d, TRUE), m.owner, k.prio[m.owner])

\* MDS_MutexAcquire.  A mutex without owner whose value is 0 is waited for
\* through a NULL owner.
MutexAcquire(k, m, t, d) ==
  LET grown == IF Nestable(m) THEN "EOK" ELSE "ERANGE" IN
  IF t = m.owner THEN [k |-> k, m |-> Nested(m), err |-> grown]
  ELSE IF m.value > 0
  THEN [k |-> k,
        m |-> [Nested(m) EXCEPT !.value = @ - 1, !.owner = t, !.prio = k.prio[t]],
        err |-> grown]
  ELSE IF d = 0 THEN [k |-> [k EXCEPT !.err[t] = "ETIMEOUT"], m |-> m, err |-> "ETIMEOUT"]
  ELSE IF d >= TimerMax THEN [k |-> k, m |-> m, err |-> "EINVAL"]
  ELSE IF m.owner = NoThread
  THEN [k |-> [k EXCEPT !.fault = "null_owner"], m |-> m, err |-> "EACCES"]
  ELSE [k |-> QueueFor(k, m, t, d), m |-> m, err |-> WaitQueueSuspendErr(k, t)]

\* The last release: the owner gets its priority back and the mutex goes to
\* the first waiter.  Without one it is left without owner, and its value
\* stays 0: it is compared with -1 as well.
HandOver(k, m) ==
  LET own == IF m.prio # k.prio[m.owner] THEN ThreadSetPriority(k, m.owner, m.prio) ELSE k
      w == WaitQueuePeek(own, MutexQ)
  IN  [k |-> WaitQueueResume(own, MutexQ),
       m |-> [Nested(m) EXCEPT !.owner = w, !.prio = IF w = NoThread THEN PrioMax ELSE own.prio[w]],
       err |-> "EOK", check |-> w # NoThread]

\* A defect: the caller is not compared with the owner.
MutexReleaseAnyone(k, m, t) ==
  IF m.owner = NoThread \/ NestDown(m.nest) # 0
  THEN [k |-> k, m |-> [m EXCEPT !.nest = NestDown(@)], err |-> "EOK", check |-> FALSE]
  ELSE HandOver(k, [m EXCEPT !.nest = 0])

\* MDS_MutexRelease
MutexRelease(k, m, t) ==
  IF t # m.owner
  THEN [k |-> [k EXCEPT !.err[t] = "EACCES"], m |-> m, err |-> "EACCES", check |-> FALSE]
  ELSE IF NestDown(m.nest) # 0
  THEN [k |-> k, m |-> [m EXCEPT !.nest = NestDown(@)], err |-> "EOK", check |-> FALSE]
  ELSE HandOver(k, [m EXCEPT !.nest = 0])
=============================================================================

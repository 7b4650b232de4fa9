-------------------------------- MODULE NoSys --------------------------------
(***************************************************************************)
(* The build without a scheduler (nosys.c): main code polls with a tick    *)
(* timeout for what interrupts give.  Each operator is one critical        *)
(* section on the semaphore s, the mutex m or the event e.  The tick count *)
(* is an unsigned integer that wraps at TickMod.                           *)
(***************************************************************************)
EXTENDS Integers

CONSTANTS TickMod,   \* MDS_CLOCK_TICK_FOREVER + 1
          SemMax     \* max of the semaphore

ASSUME NoSysAssumption == TickMod \in Nat \ {0, 1} /\ SemMax \in Nat

Forever == TickMod - 1

\* MDS_SemaphoreInit, MDS_SemaphoreDeInit
SemaphoreInit(s, init) == IF s.life THEN s ELSE [life |-> TRUE, value |-> init]
SemaphoreDeInit(s) == [s EXCEPT !.life = FALSE]

\* One round of the loop of MDS_SemaphoreAcquire.
SemaphoreTry(s) ==
  IF s.value > 0 THEN [s |-> [s EXCEPT !.value = @ - 1], taken |-> TRUE]
  ELSE [s |-> s, taken |-> FALSE]

SemaphoreRelease(s) == IF s.value < SemMax THEN [s EXCEPT !.value = @ + 1] ELSE s

\* MDS_MutexInit
MutexInit(m) == IF m.life THEN m ELSE [life |-> TRUE, value |-> 1]

\* MDS_MutexAcquire.  It returns MDS_EOK after a timeout too, and interrupts
\* release no mutex: main code goes on, at once or when the time is over.
MutexAcquire(m) == [m EXCEPT !.value = 0]

\* MDS_MutexRelease, by whoever calls it.
MutexRelease(m) == [m EXCEPT !.value = 1]

\* MDS_EventInit, MDS_EventDeInit
EventInit(e) == IF e.life THEN e ELSE [life |-> TRUE, value |-> {}]
EventDeInit(e) == [e EXCEPT !.life = FALSE]

\* One round of the loop of MDS_EventWait.
EventTry(e, bits, all, clear) ==
  LET taken == IF all THEN bits \subseteq e.value ELSE bits \cap e.value # {} IN
  [e |-> IF taken /\ clear THEN [e EXCEPT !.value = @ \ bits] ELSE e, taken |-> taken]

EventSet(e, bits) == [e EXCEPT !.value = @ \cup bits]
EventClr(e, bits) == [e EXCEPT !.value = @ \ bits]

-----------------------------------------------------------------------------

\* A defect: the end of the wait is computed instead of the time waited.
GivesUpAfterEnd(now, start, timeout) == now >= start + timeout

\* The end of each loop: the time waited, across the wrap, reaches timeout.
GivesUp(now, start, timeout) == (now - start) % TickMod >= timeout

ClockIncTickCount(now, ticks) == (now + ticks) % TickMod
=============================================================================

----------------------------- MODULE Processor -----------------------------
(***************************************************************************)
(* The processor the threads share: how it is started and how the tick     *)
(* interrupt takes it from thread code between any two critical sections.  *)
(* The interrupt is a step for the tick itself and one for every timer     *)
(* that expires in it; no thread code runs before it returns.              *)
(***************************************************************************)
EXTENDS MdsKernel

VARIABLES k,     \* the kernel state
          isr    \* the tick interrupt is in MDS_SysTimerCheck

User == Thread \ {Idle}

ProcessorInit ==
  /\ \E p \in [User -> Prio] :
       k = KernelInit([t \in Thread |-> IF t = Idle THEN PrioMax ELSE p[t]])
  /\ isr = FALSE

\* t is the thread whose code the processor executes.
Executes(t) == k.curr = t /\ ~isr /\ k.fault = "none"

\* Board initialisation starts threads before the scheduler runs.
StartBeforeBoot(t) ==
  /\ k.curr = NoThread
  /\ k.st[t] = "INACTIVED"
  /\ k' = ThreadStartup(k, t)
  /\ UNCHANGED isr

StartScheduler ==
  /\ k.curr = NoThread
  /\ k' = KernelStartup(k)
  /\ UNCHANGED isr

\* MDS_SysTickHandler up to its first look at the timers.
TickInterrupt ==
  /\ k.curr # NoThread /\ ~isr /\ k.fault = "none"
  /\ k' = ClockTick(k)
  /\ isr' = TRUE

TimerInterrupt ==
  /\ isr /\ k.fault = "none" /\ TimerDue(k)
  /\ k' = TimerExpire(k)
  /\ UNCHANGED isr

InterruptReturn ==
  /\ isr /\ ~TimerDue(k)
  /\ isr' = FALSE
  /\ UNCHANGED k
=============================================================================

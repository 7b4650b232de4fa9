------------------------------- MODULE Event -------------------------------
(***************************************************************************)
(* Event flags (ipc/event.c) as operators on the kernel state and the      *)
(* event e.  A mask is a set of bits; e.mask and e.opt are eventMask and   *)
(* eventOpt of the threads.  An option is all (AND, else OR) and keep      *)
(* (NOCLR).  What a wait stores through recv is not kept: no call reads it.*)
(***************************************************************************)
EXTENDS MdsKernel

CONSTANTS EventQ,   \* queueWait of the event
          Bit       \* the bits of a mask

EventOpt == [all : BOOLEAN, keep : BOOLEAN]

\* The condition of a wait for the bits wait.
Holds(value, wait, opt) == IF opt.all THEN wait \subseteq value ELSE wait \cap value # {}

NewEvent(life) ==
  [life |-> life, value |-> {},
   mask |-> [t \in Thread |-> {}],
   opt |-> [t \in Thread |-> [all |-> FALSE, keep |-> FALSE]]]

\* MDS_EventInit of an event in use is refused; eventMask and eventOpt are
\* fields of the threads and stay.
EventInit(e) == IF e.life = "none" THEN [e EXCEPT !.life = "static", !.value = {}] ELSE e

EventCreate(e) == [e EXCEPT !.life = "created", !.value = {}]

\* MDS_EventDeInit, MDS_EventDestroy: the first waiter is told.
EventDeInit(k, e) == [k |-> WaitQueueDrain(k, EventQ), e |-> [e EXCEPT !.life = "none"]]

EventDestroy(k, e) ==
  [k |-> WaitQueueDrain(k, EventQ),
   e |-> IF e.life = "created" THEN [e EXCEPT !.life = "none"] ELSE e]

\* MDS_EventWait for the non-empty set wait.
EventWait(k, e, t, wait, opt, d) ==
  IF Holds(e.value, wait, opt)
  THEN [k |-> k,
        e |-> [e EXCEPT !.mask[t] = e.value \cap wait, !.opt[t] = opt,
                        !.value = IF opt.keep THEN @ ELSE @ \ wait],
        err |-> "EOK"]
  ELSE IF d = 0 THEN [k |-> [k EXCEPT !.err[t] = "ETIMEOUT"], e |-> e, err |-> "ETIMEOUT"]
  ELSE IF d < TimerMax
  THEN [k |-> WaitQueueSuspend(k, EventQ, t, d, TRUE),
        e |-> [e EXCEPT !.mask[t] = wait, !.opt[t] = opt],
        err |-> WaitQueueSuspendErr(k, t)]
  ELSE [k |-> k, e |-> e, err |-> "EINVAL"]

\* The first waiter whose condition the value satisfies, if any.
FirstSatisfied(k, e, value) ==
  LET q == k.list[EventQ] IN
  {q[i] : i \in {j \in DOMAIN q :
                   /\ Holds(value, e.mask[q[j]], e.opt[q[j]])
                   /\ \A h \in 1..(j - 1) : ~Holds(value, e.mask[q[h]], e.opt[q[h]])}}

\* A defect: the bits of the first waiter are taken before its condition is
\* looked at.
EventSetTakesFirst(k, e, set) ==
  LET value == e.value \cup set
      w == WaitQueuePeek(k, EventQ)
  IN  IF w = NoThread THEN [k |-> k, e |-> [e EXCEPT !.value = value], check |-> FALSE]
      ELSE IF Holds(value, e.mask[w], e.opt[w])
      THEN [k |-> WaitQueueResume(k, EventQ), e |-> [e EXCEPT !.value = value \ e.mask[w]],
            check |-> TRUE]
      ELSE [k |-> k, e |-> [e EXCEPT !.value = value \ e.mask[w]], check |-> FALSE]

\* MDS_EventSet: one waiter w is found and its bits are taken, and the head
\* of the queue, whoever that is, is resumed.
EventSet(k, e, set) ==
  LET value == e.value \cup set
      got(w) == IF e.opt[w].all THEN e.mask[w] ELSE e.mask[w] \cap value
      found == FirstSatisfied(k, e, value)
  IN  IF found = {} THEN [k |-> k, e |-> [e EXCEPT !.value = value], check |-> FALSE]
      ELSE LET w == CHOOSE u \in found : TRUE IN
           [k |-> WaitQueueResume(k, EventQ),
            e |-> [e EXCEPT !.mask[w] = got(w),
                            !.value = IF e.opt[w].keep THEN value ELSE value \ got(w)],
            check |-> TRUE]

\* MDS_EventClr
EventClr(e, clr) == [e EXCEPT !.value = @ \ clr]
=============================================================================

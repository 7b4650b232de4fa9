----------------------------- MODULE WorkQueue -----------------------------
(***************************************************************************)
(* A work queue (workq.c), its thread, the applications that submit and    *)
(* cancel work nodes and stop and start the queue, and the tick counter,   *)
(* which wraps.                                                            *)
(*                                                                         *)
(* The skip list is the sequence of its lowest level, that all the others  *)
(* only make faster to search.  A critical section is one step.  Of the    *)
(* scheduler only the state of the thread of the queue is kept: when it is *)
(* READY it may run at any time between the steps of the others.           *)
(* MDS_WorkNodeCancle, which takes no lock, is one step too.               *)
(*                                                                         *)
(*   pc = "check"   the thread is about to lock the queue                  *)
(*   pc = "call"    it runs the callback of run, the queue is unlocked     *)
(*   pc = "delay"   it has computed nap and not yet called MDS_ThreadDelay *)
(***************************************************************************)
EXTENDS DList, FiniteSets

CONSTANTS Node,          \* the work nodes
          NoNode,        \* a NULL node
          Width,         \* the bits of MDS_Tick_t
          Durations,     \* the delays applications submit with
          Periods,       \* the periods they submit with, 0 for none
          Late,          \* ticks a due node waits for a thread that is READY
          AvoidForever   \* no node is due at the tick MDS_CLOCK_TICK_FOREVER

Wrap == 2^Width
Forever == Wrap - 1
TimerMax == Forever \div 2

MaxWait == CHOOSE d \in Durations \cup Periods : \A e \in Durations \cup Periods : e <= d

\* The most a node is late: it was submitted when the thread had just computed
\* how long to sleep, and waits for it to run, and a tick for every period (see Blocked).
MaxLate == MaxWait + Late + Cardinality(Periods \ {0})

\* There is a longest wait, what is submitted is not refused with MDS_EINVAL, and
\* the oldest due tick and the newest one are closer than half the range of the
\* counter.
ASSUME WorkQueueAssumption ==
  /\ NoNode \notin Node /\ Width \in Nat \ {0} /\ Late \in Nat \ {0}
  /\ Durations \subseteq Nat /\ Periods \subseteq Nat /\ 0 \in Periods
  /\ \E d \in Durations \cup Periods : \A e \in Durations \cup Periods : e <= d
  /\ MaxWait + MaxLate < TimerMax
  /\ AvoidForever \in BOOLEAN

VARIABLES tick,      \* g_sysTick.tickcount
          s,         \* the queue, a record:
                     \*   list     the submitted nodes
                     \*   run      the node on runList
                     \*   drain    the node on stopList
                     \*   out, period, queued    tickout, tperiod, queue # NULL
                     \*   left     the ticks until a listed node is really due
          pc, nap,   \* nextTick, computed before the call of MDS_ThreadDelay
          state,     \* of the thread of the queue
          timer,     \* what its timer still has to wait, 0 when not armed
          stopping   \* MDS_WorkQueueStop runs a stop callback

vars == <<tick, s, pc, nap, state, timer, stopping>>
thread == <<pc, nap, state, timer>>

Listed(n) == Contains(s.list, n)

-----------------------------------------------------------------------------
(* The sorted list                                                         *)

\* A defect: the difference is not bounded, as if ticks were never behind.
ComesLaterUnbounded(q, l, n) == (q.out[l] - q.out[n]) % Wrap > 0

\* WORKQ_SkipListCompare
ComesLater(q, l, n) ==
  LET diff == (q.out[l] - q.out[n]) % Wrap IN 0 < diff /\ diff < TimerMax

\* WORKQ_SkipListInsert
Insert(q, n, d) ==
  LET r == [q EXCEPT !.out[n] = (tick + d) % Wrap, !.left[n] = d] IN
  [r EXCEPT !.list = InsertBefore(@, n, {l \in Node : ComesLater(r, l, n)})]

\* WORKQ_SkipListRemove.  The due tick of a node that is not listed is never
\* read before it is set again.
TakeOut(q, n) == [q EXCEPT !.list = Unlink(@, n), !.out[n] = 0, !.left[n] = 0]

\* A defect: the tick counts are compared as they are.
IsDueUnwrapped(q) == q.list # <<>> /\ q.out[Head(q.list)] <= tick

\* MDS_WorkQueueCheck: the first node is due.
IsDue(q) == q.list # <<>> /\ (tick - q.out[Head(q.list)]) % Wrap < TimerMax

\* A defect: a node with a period is not put back.
AfterCallDropped(q) == [q EXCEPT !.run = NoNode]

\* The end of a round of MDS_WorkQueueCheck.  The callback of run may have
\* cancelled it, and submitted it again.
AfterCall(q) ==
  LET n == q.run
      r == [q EXCEPT !.run = NoNode]
  IN  IF n # NoNode /\ q.period[n] > 0 THEN Insert(r, n, q.period[n]) ELSE r

-----------------------------------------------------------------------------
Init ==
  /\ tick \in 0..Forever
  /\ s = [list |-> <<>>, run |-> NoNode, drain |-> NoNode,
          out |-> [n \in Node |-> 0], period |-> [n \in Node |-> 0],
          queued |-> [n \in Node |-> FALSE], left |-> [n \in Node |-> 0]]
  /\ pc = "check" /\ nap = 0
  /\ state = "INACTIVED" /\ timer = 0
  /\ stopping = FALSE

Avoids(d) == AvoidForever => (tick + d) % Wrap # Forever

\* A defect: the thread is not woken for a node that is the only one.
WakeForMore == state = "SUSPENDED" /\ Len(s.list) > 0

\* MDS_WorkNodeSubmit resumes the thread of the queue.
Wake == state = "SUSPENDED"

\* An application starts the queue before it uses it, and cancels a node that
\* is linked before it submits it again, in its own callback too.
Submit(n, d, p) ==
  /\ state # "INACTIVED"
  /\ ~Listed(n) /\ s.run # n /\ s.drain # n
  /\ Avoids(d)
  /\ s' = [Insert(s, n, d) EXCEPT !.period[n] = p, !.queued[n] = TRUE]
  /\ state' = IF Wake THEN "READY" ELSE state
  /\ timer' = IF Wake THEN 0 ELSE timer
  /\ UNCHANGED <<tick, pc, nap, stopping>>

\* MDS_WorkNodeCancle: the node is unlinked from whatever list it is on.
Cancel(n) ==
  /\ s.queued[n]
  /\ s' = [TakeOut(s, n) EXCEPT !.queued[n] = FALSE,
                               !.run = IF @ = n THEN NoNode ELSE @,
                               !.drain = IF @ = n THEN NoNode ELSE @]
  /\ UNCHANGED <<tick, thread, stopping>>

-----------------------------------------------------------------------------
(* WorkQueueThreadEntry                                                    *)

\* A defect: the next tick is taken for the time to it.
SleepAbsolute(q) ==
  IF q.list = <<>> \/ q.out[Head(q.list)] = Forever
  THEN state' = "SUSPENDED" /\ pc' = "check" /\ UNCHANGED nap
  ELSE nap' = q.out[Head(q.list)] /\ pc' = "delay" /\ UNCHANGED state

\* Nothing is due: the thread suspends itself when the next tick is
\* MDS_CLOCK_TICK_FOREVER, which it also takes for "no node".
Sleep(q) ==
  LET next == IF q.list = <<>> THEN Forever ELSE q.out[Head(q.list)]
      rest == (next - tick) % Wrap
  IN  IF next = Forever
      THEN state' = "SUSPENDED" /\ pc' = "check" /\ UNCHANGED nap
      ELSE /\ nap' = IF rest < TimerMax THEN rest ELSE next
           /\ pc' = "delay" /\ UNCHANGED state

\* The rest of the critical section: the next due node is called, or none.
Proceed(q) ==
  \/ /\ IsDue(q)
     /\ s' = [TakeOut(q, Head(q.list)) EXCEPT !.run = Head(q.list)]
     /\ pc' = "call" /\ UNCHANGED <<nap, state>>
  \/ ~IsDue(q) /\ s' = q /\ Sleep(q)

\* A callback that is over at the tick to avoid is over a tick later.
Blocked ==
  pc = "call" /\ s.run # NoNode /\ s.period[s.run] > 0 /\ ~Avoids(s.period[s.run])

Check ==
  /\ state = "READY" /\ pc = "check"
  /\ Proceed(s)
  /\ UNCHANGED <<tick, timer, stopping>>

CallReturn ==
  /\ state = "READY" /\ pc = "call"
  /\ ~Blocked
  /\ Proceed(AfterCall(s))
  /\ UNCHANGED <<tick, timer, stopping>>

\* MDS_ThreadDelay.  A delay that is too long arms no timer.
Delay ==
  /\ state = "READY" /\ pc = "delay"
  /\ state' = IF nap > 0 THEN "SUSPENDED" ELSE state
  /\ timer' = IF nap < TimerMax THEN nap ELSE 0
  /\ pc' = "check" /\ nap' = 0
  /\ UNCHANGED <<tick, s, stopping>>

-----------------------------------------------------------------------------
(* MDS_WorkQueueStart, MDS_WorkQueueStop                                   *)

Start ==
  /\ state \in {"INACTIVED", "SUSPENDED"}
  /\ state' = "READY" /\ timer' = 0
  /\ UNCHANGED <<tick, s, pc, nap, stopping>>

\* A round of WORKQ_SkipListDrain, up to the stop callback.
Drain(q) ==
  /\ stopping' = (q.list # <<>>)
  /\ s' = IF q.list = <<>> THEN q
          ELSE [TakeOut(q, Head(q.list)) EXCEPT !.drain = Head(q.list)]

\* The thread is suspended only while it is READY: to stop a queue whose
\* thread sleeps is refused with MDS_EAGAIN.
Stop ==
  /\ state = "READY" /\ ~stopping
  /\ state' = "SUSPENDED"
  /\ Drain(s)
  /\ UNCHANGED <<tick, pc, nap, timer>>

StopReturn ==
  /\ stopping
  /\ Drain([s EXCEPT !.drain = NoNode])
  /\ UNCHANGED <<tick, thread>>

-----------------------------------------------------------------------------
\* A defect: the counter does not wrap.
NextTickUnbounded == tick + 1

NextTick == (tick + 1) % Wrap

\* Whoever is to take a node off the list gets the processor before it has
\* waited for Late ticks.
Overdue == (state = "READY" \/ stopping) /\ \E n \in Node : Listed(n) /\ s.left[n] <= -Late

Tick ==
  /\ ~Overdue \/ Blocked
  /\ tick' = NextTick
  /\ s' = [s EXCEPT !.left = [n \in Node |-> IF Listed(n) THEN @[n] - 1 ELSE 0]]
  /\ timer' = IF timer > 0 THEN timer - 1 ELSE 0
  /\ state' = IF timer = 1 THEN "READY" ELSE state
  /\ UNCHANGED <<pc, nap, stopping>>

Next ==
  \/ \E n \in Node, d \in Durations, p \in Periods : Submit(n, d, p)
  \/ \E n \in Node : Cancel(n)
  \/ Check \/ CallReturn \/ Delay
  \/ Start \/ Stop \/ StopReturn
  \/ Tick

Spec == Init /\ [][Next]_vars

-----------------------------------------------------------------------------
(* What the queue promises                                                 *)

\* Every variable has its type, and no node is listed twice.
TypeOK ==
  /\ tick \in 0..Forever /\ pc \in {"check", "call", "delay"} /\ nap \in 0..Forever
  /\ s.list \in Seq(Node) /\ Distinct(s.list)
  /\ s.run \in Node \cup {NoNode} /\ s.drain \in Node \cup {NoNode}
  /\ s.out \in [Node -> 0..Forever] /\ s.period \in [Node -> Periods]
  /\ s.queued \in [Node -> BOOLEAN] /\ s.left \in [Node -> Int]
  /\ state \in {"INACTIVED", "READY", "SUSPENDED"}
  /\ timer \in 0..(TimerMax - 1) /\ stopping \in BOOLEAN

\* The list is in the order in which the nodes are due, across a wrap of the
\* tick counter: MDS_WorkQueueCheck looks at the first node only.
DueOrder ==
  \A i, j \in DOMAIN s.list : i < j => s.left[s.list[i]] <= s.left[s.list[j]]

\* The thread of a queue with work does not wait for a submission: it runs,
\* or its timer will wake it.
ParkedOnlyWhenEmpty ==
  state = "SUSPENDED" /\ timer = 0 /\ ~stopping => s.list = <<>>

\* A node waits no longer past its time than the thread takes to run and a
\* sleep that was computed before the node was submitted: nextTick is used
\* after the queue is unlocked.
BoundedLateness == \A n \in Node : Listed(n) => s.left[n] >= -MaxLate

\* No callback is called before its time.
NeverEarly ==
  [][\A n \in Node : Listed(n) /\ s.run # n /\ s'.run = n => s.left[n] <= 0]_vars

\* A node leaves the list only to be called, drained or cancelled, and one
\* with a period comes back after its callback unless it was cancelled.
NodesKept ==
  [][\A n \in Node :
       /\ Listed(n) /\ ~Contains(s'.list, n) => n \in {s'.run, s'.drain} \/ ~s'.queued[n]
       /\ s.run = n /\ s'.run # n /\ s.period[n] > 0
            => Contains(s'.list, n) \/ ~s'.queued[n]]_vars
=============================================================================

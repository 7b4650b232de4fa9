------------------------------ MODULE MsgQueue ------------------------------
(***************************************************************************)
(* A message queue (ipc/msgqueue.c) and the threads that send to it and    *)
(* receive from it, with the waits of MDS_KernelWaitQueueUntil.            *)
(*                                                                         *)
(* A critical section is one step; pc[t] says where thread t stands:       *)
(*   "run"       in application code                                       *)
(*   "recvwait", "sendwait"   suspended in MDS_KernelWaitQueueUntil,       *)
(*               before its scheduler check                                *)
(*   "recvback", "sendback"   after it, before the lock is taken again     *)
(*   "copy", "ucopy"   a sender with a block of its own, copying, in       *)
(*               MDS_MsgQueueSendMsg and in MDS_MsgQueueUrgentMsg          *)
(*   "check"     before the scheduler check that ends its call             *)
(* MDS_MsgQueueRecvCopy is MDS_MsgQueueRecvAcquire followed by             *)
(* MDS_MsgQueueRecvRelease.  A call with MDS_TIMEOUT_NO_WAIT that finds    *)
(* nothing changes nothing and is no step.                                 *)
(***************************************************************************)
EXTENDS Processor

CONSTANTS Block,     \* the blocks of queBuff
          Msg,       \* what can be sent
          Null,      \* a NULL block pointer
          RecvQ,     \* queueRecv
          SendQ,     \* queueSend
          Timeouts,  \* the timeouts of calls that wait, in ticks
          Peeks      \* whether receivers use MDS_MsgQueueRecvPeek

ASSUME MsgQueueAssumption ==
  /\ Null \notin Block /\ Block # {} /\ Msg # {}
  /\ IsFiniteSet(Block) /\ IsFiniteSet(Thread)
  /\ RecvQ # SendQ /\ {RecvQ, SendQ} \subseteq WaitQ
  /\ Timeouts \subseteq Nat \ {0} /\ Peeks \subseteq BOOLEAN

VARIABLES q,       \* the pointers of the queue: lfree, lhead, ltail, next, content
          pc,
          blk,     \* msg, the block a sender has taken and not queued
          held,    \* the block a receiver got and has not released
          peeked,  \* the blocks taken by MDS_MsgQueueRecvPeek
          tmo,     \* timeout of the wait in progress
          waited   \* deltaTick: ticks since the wait started, up to TimerMax

local == <<blk, held, peeked, tmo, waited>>
vars == <<k, isr, q, pc, blk, held, peeked, tmo, waited>>

Pc == {"run", "recvwait", "sendwait", "recvback", "sendback", "copy", "ucopy", "check"}
Pointer == Block \cup {Null}

-----------------------------------------------------------------------------
(* The linked blocks                                                       *)

\* The blocks reached from b by next, up to NULL.
Chain(p, b) ==
  LET N == Cardinality(Block)
      at[i \in 0..N] ==
        IF i = 0 THEN b ELSE IF at[i - 1] = Null THEN Null ELSE p.next[at[i - 1]]
  IN  [i \in 1..Cardinality({j \in 0..N : at[j] # Null}) |-> at[i - 1]]

\* MDS_MsgQueueListInit: the blocks in the order s, the last one in front.
ListInit(s) ==
  LET N == Cardinality(Block) IN
  [lfree |-> s[N], lhead |-> Null, ltail |-> Null,
   next |-> [b \in Block |->
               LET i == CHOOSE j \in 1..N : s[j] = b IN IF i = 1 THEN Null ELSE s[i - 1]],
   content |-> [b \in Block |-> CHOOSE m \in Msg : TRUE]]

\* The first free block is taken off the free list.
TakeFree(p) == [p EXCEPT !.lfree = p.next[p.lfree]]

\* A defect: the tail stays when the last message is taken.
TakeHeadKeepTail(p) == [p EXCEPT !.lhead = p.next[p.lhead]]

TakeHead(p) ==
  [p EXCEPT !.lhead = p.next[p.lhead],
            !.ltail = IF p.next[p.lhead] = Null THEN Null ELSE @]

\* A defect: the block is not linked behind the tail.
PutTailUnlinked(p, b) ==
  [p EXCEPT !.ltail = b, !.lhead = IF @ = Null THEN b ELSE @]

\* Behind the tail; next of b is NULL since it was taken.
PutTail(p, b) ==
  [p EXCEPT !.next = IF p.ltail = Null THEN @ ELSE [@ EXCEPT ![p.ltail] = b],
            !.ltail = b,
            !.lhead = IF @ = Null THEN b ELSE @]

\* A defect: an urgent message goes behind the others.
PutHeadLast(p, b) == PutTail([p EXCEPT !.next[b] = Null], b)

\* In front of the head.
PutHead(p, b) ==
  [p EXCEPT !.next[b] = p.lhead,
            !.lhead = b,
            !.ltail = IF @ = Null THEN b ELSE @]

\* Back to the free list.
PutFree(p, b) == [p EXCEPT !.next[b] = p.lfree, !.lfree = b]

-----------------------------------------------------------------------------
Init ==
  /\ ProcessorInit
  /\ \E s \in [1..Cardinality(Block) -> Block] :
       /\ \A i, j \in DOMAIN s : s[i] = s[j] => i = j
       /\ q = ListInit(s)
  /\ pc = [t \in Thread |-> "run"]
  /\ blk = [t \in Thread |-> Null] /\ held = [t \in Thread |-> Null]
  /\ peeked = {}
  /\ tmo = [t \in Thread |-> 0] /\ waited = [t \in Thread |-> 0]

At(t, where) == t \in User /\ Executes(t) /\ pc[t] = where
Goto(t, where) == pc' = [pc EXCEPT ![t] = where]

\* A defect: what is left of the time is taken for the timeout.
WaitRest(t, w, d, where) ==
  /\ k' = WaitQueueSuspend(k, w, t, d - waited[t], TRUE)
  /\ tmo' = [tmo EXCEPT ![t] = d - waited[t]] /\ waited' = [waited EXCEPT ![t] = 0]
  /\ Goto(t, where)
  /\ UNCHANGED <<isr, q, blk, held, peeked>>

\* A defect: the waiters are queued in the order they come.
WaitInOrder(t, w, d, where) ==
  /\ k' = WaitQueueSuspend(k, w, t, d, FALSE)
  /\ tmo' = [tmo EXCEPT ![t] = d] /\ waited' = [waited EXCEPT ![t] = 0]
  /\ Goto(t, where)
  /\ UNCHANGED <<isr, q, blk, held, peeked>>

\* MDS_KernelWaitQueueUntil up to its scheduler check.
Wait(t, w, d, where) ==
  /\ k' = WaitQueueSuspend(k, w, t, d, TRUE)
  /\ tmo' = [tmo EXCEPT ![t] = d] /\ waited' = [waited EXCEPT ![t] = 0]
  /\ Goto(t, where)
  /\ UNCHANGED <<isr, q, blk, held, peeked>>

\* MDS_KernelWaitQueueUntil returns an error: an error of the thread, or the
\* timeout, which it compares with the time passed.
Expired(t) == k.err[t] # "EOK" \/ tmo[t] <= waited[t]

\* The end of a wait.
Awake(t, where) ==
  /\ Goto(t, where)
  /\ tmo' = [tmo EXCEPT ![t] = 0] /\ waited' = [waited EXCEPT ![t] = 0]

GiveUp(t) == Awake(t, "run") /\ UNCHANGED <<k, isr, q, blk, held, peeked>>

\* A defect: receivers are woken only by the first message.
AndResumeFirst(t, w) ==
  LET wakes == w = SendQ \/ q.lhead = Null IN
  /\ k' = IF wakes THEN WaitQueueResume(k, w) ELSE k
  /\ Goto(t, IF wakes /\ WaitQueuePeek(k, w) # NoThread THEN "check" ELSE "run")
  /\ UNCHANGED <<isr, peeked, tmo, waited>>

\* The critical section that ends by waking the first waiter of w.
AndResume(t, w) ==
  /\ k' = WaitQueueResume(k, w)
  /\ Goto(t, IF WaitQueuePeek(k, w) = NoThread THEN "run" ELSE "check")
  /\ UNCHANGED <<isr, peeked, tmo, waited>>

-----------------------------------------------------------------------------
(* Receiving: MDS_MsgQueueRecvAcquire, MDS_MsgQueueRecvPeek                *)

Receive(t) ==
  /\ q.lhead # Null
  /\ q' = TakeHead(q)
  /\ \/ held' = [held EXCEPT ![t] = q.lhead] /\ UNCHANGED peeked
     \/ TRUE \in Peeks /\ peeked' = peeked \cup {q.lhead} /\ UNCHANGED held
  /\ Awake(t, "run")
  /\ UNCHANGED <<k, isr, blk>>

\* An application keeps one received block at a time.
Recv(t) ==
  /\ At(t, "run") /\ held[t] = Null
  /\ \/ Receive(t)
     \/ q.lhead = Null /\ \E d \in Timeouts : Wait(t, RecvQ, d, "recvwait")

RecvBack(t) ==
  /\ At(t, "recvback")
  /\ \/ Expired(t) /\ GiveUp(t)
     \/ ~Expired(t) /\ Receive(t)
     \/ ~Expired(t) /\ q.lhead = Null /\ Wait(t, RecvQ, tmo[t], "recvwait")

\* MDS_MsgQueueRecvRelease
RecvRelease(t) ==
  /\ At(t, "run") /\ held[t] # Null
  /\ q' = PutFree(q, held[t])
  /\ held' = [held EXCEPT ![t] = Null]
  /\ AndResume(t, SendQ)
  /\ UNCHANGED blk

-----------------------------------------------------------------------------
(* Sending: MDS_MsgQueueSendMsg, MDS_MsgQueueUrgentMsg                     *)

Reserve(t) ==
  /\ q.lfree # Null
  /\ q' = [TakeFree(q) EXCEPT !.next[q.lfree] = Null]
  /\ blk' = [blk EXCEPT ![t] = q.lfree]
  /\ Awake(t, "copy")
  /\ UNCHANGED <<k, isr, held, peeked>>

Send(t) ==
  /\ At(t, "run")
  /\ \/ Reserve(t)
     \/ q.lfree = Null /\ \E d \in Timeouts : Wait(t, SendQ, d, "sendwait")

SendBack(t) ==
  /\ At(t, "sendback")
  /\ \/ Expired(t) /\ GiveUp(t)
     \/ ~Expired(t) /\ Reserve(t)
     \/ ~Expired(t) /\ q.lfree = Null /\ Wait(t, SendQ, tmo[t], "sendwait")

UrgentReserve(t) ==
  /\ At(t, "run") /\ q.lfree # Null
  /\ q' = TakeFree(q)
  /\ blk' = [blk EXCEPT ![t] = q.lfree]
  /\ Goto(t, "ucopy")
  /\ UNCHANGED <<k, isr, held, peeked, tmo, waited>>

Filled(t, m) == [q EXCEPT !.content[blk[t]] = m]

Deliver(t, m) ==
  /\ \/ At(t, "copy") /\ q' = PutTail(Filled(t, m), blk[t])
     \/ At(t, "ucopy") /\ q' = PutHead(Filled(t, m), blk[t])
  /\ blk' = [blk EXCEPT ![t] = Null]
  /\ AndResume(t, RecvQ)
  /\ UNCHANGED held

-----------------------------------------------------------------------------
Check(t) ==
  /\ \E where \in {"recvwait", "sendwait", "check"} : At(t, where)
  /\ k' = SchedulerCheck(k)
  /\ Goto(t, CASE pc[t] = "recvwait" -> "recvback"
               [] pc[t] = "sendwait" -> "sendback"
               [] pc[t] = "check" -> "run")
  /\ UNCHANGED <<isr, q, local>>

Waiting == {t \in User : pc[t] \in {"recvwait", "sendwait", "recvback", "sendback"}}

Tick ==
  /\ TickInterrupt
  /\ waited' = [t \in Thread |->
                  IF t \in Waiting /\ waited[t] < TimerMax THEN waited[t] + 1 ELSE waited[t]]
  /\ UNCHANGED <<q, pc, blk, held, peeked, tmo>>

\* Every thread is started before the scheduler is.
Boot ==
  \/ \E t \in User : StartBeforeBoot(t) /\ UNCHANGED <<q, pc, local>>
  \/ /\ \A t \in User : k.st[t] = "READY"
     /\ StartScheduler /\ UNCHANGED <<q, pc, local>>

Interrupted == (TimerInterrupt \/ InterruptReturn) /\ UNCHANGED <<q, pc, local>>

Step(t) ==
  \/ Recv(t) \/ RecvBack(t) \/ RecvRelease(t)
  \/ Send(t) \/ SendBack(t) \/ UrgentReserve(t) \/ \E m \in Msg : Deliver(t, m)
  \/ Check(t)

Next == Boot \/ Tick \/ Interrupted \/ \E t \in User : Step(t)

Spec == Init /\ [][Next]_vars

-----------------------------------------------------------------------------
(* What the queue promises                                                 *)

InChain(p, b) == {Chain(p, b)[i] : i \in DOMAIN Chain(p, b)}
HeldBlocks == {held[t] : t \in Thread} \ {Null}
CopiedBlocks == {blk[t] : t \in Thread} \ {Null}

\* Every variable has its type, every pointer is a block or NULL.
TypeOK ==
  /\ k \in KernelState /\ isr \in BOOLEAN
  /\ q \in [lfree : Pointer, lhead : Pointer, ltail : Pointer,
            next : [Block -> Pointer], content : [Block -> Msg]]
  /\ pc \in [Thread -> Pc]
  /\ blk \in [Thread -> Pointer] /\ held \in [Thread -> Pointer] /\ peeked \subseteq Block
  /\ tmo \in [Thread -> Timeouts \cup {0}] /\ waited \in [Thread -> 0..TimerMax]

\* Every block is in exactly one place: free, queued, with a sender that
\* copies into it, with one receiver, or lost to a peek.
BlocksConserved ==
  LET places == <<InChain(q, q.lfree), InChain(q, q.lhead), CopiedBlocks, HeldBlocks, peeked>>
  IN  /\ Block = UNION {places[i] : i \in DOMAIN places}
      /\ \A i, j \in DOMAIN places : i # j => places[i] \cap places[j] = {}
      /\ \A t, u \in Thread : t # u => /\ blk[t] = blk[u] => blk[t] = Null
                                       /\ held[t] = held[u] => held[t] = Null

\* The tail is the last queued block, so that the next message is linked
\* behind it and not lost.
TailIsLast ==
  LET c == Chain(q, q.lhead) IN
  q.ltail = IF c = <<>> THEN Null ELSE c[Len(c)]

\* A thread in a wait queue sleeps, in a wait, with its timer armed when the
\* wait is limited; and a thread that sleeps in a wait is in its queue.
WaitersSleep ==
  \A t \in User :
    /\ \A w \in {RecvQ, SendQ} :
         On(k, w, t) =>
           /\ k.st[t] = "SUSPENDED" /\ ~OnReadyLevel(k, t)
           /\ pc[t] \in IF w = RecvQ THEN {"recvwait", "recvback"} ELSE {"sendwait", "sendback"}
           /\ Armed(k, t) <=> tmo[t] < TimerMax
    /\ Armed(k, t) => On(k, RecvQ, t) \/ On(k, SendQ, t)

\* Whoever is woken first is the one of the highest priority.
WaitersByPriority ==
  \A w \in {RecvQ, SendQ} : \A i, j \in DOMAIN k.list[w] :
    i < j => k.prio[k.list[w][i]] <= k.prio[k.list[w][j]]

\* No wake-up is lost: while threads wait to receive, each queued message has
\* a woken receiver on its way to it; the same for senders and free blocks.
NoLostWakeup ==
  LET Coming(w, where) == {t \in User : pc[t] \in where /\ ~On(k, w, t)} IN
  /\ k.list[RecvQ] # <<>> =>
       Len(Chain(q, q.lhead)) <= Cardinality(Coming(RecvQ, {"recvwait", "recvback"}))
  /\ k.list[SendQ] # <<>> =>
       Len(Chain(q, q.lfree)) <= Cardinality(Coming(SendQ, {"sendwait", "sendback"}))

\* MDS_ETIMEOUT means "Timer expired": a wait is given up only when the time
\* it was given has passed.
TimeoutMeansExpired ==
  [][\A t \in User :
       pc[t] \in {"recvback", "sendback"} /\ pc'[t] = "run" /\ q' = q
         => waited[t] >= tmo[t]]_vars

\* The queue implements the bounded channel.
Abstract ==
  INSTANCE Channel WITH
    Room <- Cardinality(Block),
    queue <- [i \in DOMAIN Chain(q, q.lhead) |-> q.content[Chain(q, q.lhead)[i]]],
    room <- Len(Chain(q, q.lfree)),
    sending <- Cardinality({t \in User : pc[t] = "copy"}),
    pushing <- Cardinality({t \in User : pc[t] = "ucopy"}),
    inHand <- Cardinality({t \in User : held[t] # Null}) + Cardinality(peeked)

ImplementsChannel == Abstract!Spec
=============================================================================

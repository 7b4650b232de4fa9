------------------------------ MODULE Channel ------------------------------
(***************************************************************************)
(* What a message queue promises to the threads that share it: a bounded   *)
(* channel.  A sender takes room before it delivers, a receiver gets the   *)
(* oldest message, urgent ones before all others, and gives the room back  *)
(* when it is done with it, or never (MDS_MsgQueueRecvPeek).               *)
(***************************************************************************)
EXTENDS Naturals, Sequences

CONSTANTS Msg,   \* what can be sent
          Room   \* how many messages the channel holds, queued or in hand

VARIABLES queue,    \* the messages delivered and not received
          room,     \* free room
          sending,  \* senders that have room and have not delivered
          pushing,  \* the same of urgent senders
          inHand    \* messages whose room their receivers have not given back

channel == <<queue, room, sending, pushing, inHand>>

Init == queue = <<>> /\ room = Room /\ sending = 0 /\ pushing = 0 /\ inHand = 0

Reserve ==
  /\ room > 0
  /\ room' = room - 1
  /\ \/ sending' = sending + 1 /\ UNCHANGED pushing
     \/ pushing' = pushing + 1 /\ UNCHANGED sending
  /\ UNCHANGED <<queue, inHand>>

Deliver(m) ==
  /\ sending > 0
  /\ sending' = sending - 1
  /\ queue' = Append(queue, m)
  /\ UNCHANGED <<room, pushing, inHand>>

\* An urgent message overtakes all that are queued.
Push(m) ==
  /\ pushing > 0
  /\ pushing' = pushing - 1
  /\ queue' = <<m>> \o queue
  /\ UNCHANGED <<room, sending, inHand>>

Receive ==
  /\ queue # <<>>
  /\ queue' = Tail(queue) /\ inHand' = inHand + 1
  /\ UNCHANGED <<room, sending, pushing>>

GiveBack ==
  /\ inHand > 0
  /\ inHand' = inHand - 1 /\ room' = room + 1
  /\ UNCHANGED <<queue, sending, pushing>>

Next ==
  \/ Reserve \/ Receive \/ GiveBack
  \/ \E m \in Msg : Deliver(m) \/ Push(m)

Spec == Init /\ [][Next]_channel

TypeOK ==
  /\ queue \in Seq(Msg)
  /\ room \in Nat /\ sending \in Nat /\ pushing \in Nat /\ inHand \in Nat

\* Room is neither made nor lost, whatever senders and receivers do.
RoomConserved == room + sending + pushing + Len(queue) + inHand = Room
=============================================================================

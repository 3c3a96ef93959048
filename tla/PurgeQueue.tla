------------------------------ MODULE PurgeQueue ------------------------------
(***************************************************************************)
(* What the subscription manager expects of its bufferPriorityQueue: a set *)
(* of event buffers, each with the time of its last event, from which it   *)
(* can drop all those whose time is at or before a threshold.  The store   *)
(* of SubscriptionManager is written in these terms.  PriorityQueue is the *)
(* binary heap that implements them.                                       *)
(***************************************************************************)
EXTENDS Integers, GoMap

CONSTANTS Buffers,       \* the expiringBuffers, one per category
          Times          \* the values a priority may take

VARIABLES
  priorities,            \* the priority of each buffer in the queue
  call                   \* the last operation, with its arguments

vars == <<priorities, call>>

Init == priorities = EmptyMap /\ call = <<"none">>

BufferCreated(buf, time) ==
  /\ call' = <<"created", buf, time>>
  /\ buf \notin DOMAIN priorities
  /\ priorities' = Put(priorities, buf, time)

NewEvent(buf, time) ==
  /\ call' = <<"event", buf, time>>
  /\ buf \in DOMAIN priorities
  /\ priorities' = Put(priorities, buf, time)

DeletedBuffer(buf) ==
  /\ call' = <<"deleted", buf>>
  /\ buf \in DOMAIN priorities
  /\ priorities' = Delete(priorities, {buf})

PurgeStale(threshold) ==
  /\ call' = <<"purge", threshold>>
  /\ priorities' = Delete(priorities,
                     {buf \in DOMAIN priorities : priorities[buf] <= threshold})

Next ==
  \/ \E buf \in Buffers, time \in Times :
       BufferCreated(buf, time) \/ NewEvent(buf, time)
  \/ \E buf \in Buffers : DeletedBuffer(buf)
  \/ \E threshold \in Times : PurgeStale(threshold)

Spec == Init /\ [][Next]_vars
=============================================================================

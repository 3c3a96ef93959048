---------------------------- MODULE PriorityQueue ----------------------------
(***************************************************************************)
(* The binary heap of golongpoll (priority_queue.go with Go's              *)
(* container/heap): pq is the slice of expiringBuffers, in which every     *)
(* buffer also records its own index, used to remove it or to fix the heap *)
(* when its priority changes.                                              *)
(*                                                                         *)
(* A call of the manager is one step and each turn of container/heap's     *)
(* loops is another; the next call comes when they are done.  The slice is *)
(* indexed from 0 in the code and from 1 here; what says "index", or is    *)
(* one, keeps the code's value.                                            *)
(***************************************************************************)
EXTENDS Integers, Sequences, GoMap

CONSTANTS
  Buffers,               \* the expiringBuffers, one per category
  Times                  \* the values a priority may take

ASSUME QueueAssumption == Times \subseteq Int

VARIABLES
  pq,                    \* the slice
  index, priority,       \* the buffers' fields
  at,                    \* which loop is running
  hole,                  \* i of down, j of up: where the moved buffer is
  i0,                    \* where down began
  call                   \* the last operation, with its arguments

vars == <<pq, index, priority, at, hole, i0, call>>

At(i) == pq[i + 1]

InHeap(buf) == \E i \in DOMAIN pq : pq[i] = buf

Less(i, j) == priority[At(i)] < priority[At(j)]

(* Variant for the mutation runs: the indexes do not follow the swap.      *)
Swap_SliceOnly(i, j) ==
  /\ pq' = [pq EXCEPT ![i + 1] = At(j), ![j + 1] = At(i)]
  /\ UNCHANGED index

Swap(i, j) ==
  /\ pq' = [pq EXCEPT ![i + 1] = At(j), ![j + 1] = At(i)]
  /\ index' = [index EXCEPT ![At(j)] = i, ![At(i)] = j]

(* Pop of heap.Interface.  A buffer that is not in the heap has no         *)
(* meaningful priority.                                                    *)
PopBack ==
  LET last == Len(pq)
  IN  /\ pq' = SubSeq(pq, 1, last - 1)
      /\ index' = [index EXCEPT ![pq[last]] = -1]
      /\ priority' = [priority EXCEPT ![pq[last]] = -1]

-----------------------------------------------------------------------------
(* container/heap: up, down among the first n, and what follows them.      *)

Parent(j) == (j - 1) \div 2

Removing == call[1] \in {"deleted", "purge"}

n == IF Removing THEN Len(pq) - 1 ELSE Len(pq)

CanRise == hole # 0 /\ Less(hole, Parent(hole))

SmallerChild ==
  LET left  == 2 * hole + 1
      right == left + 1
  IN  IF right < n /\ Less(right, left) THEN right ELSE left

CanSink == 2 * hole + 1 < n /\ Less(SmallerChild, hole)

up ==
  /\ at = "up" /\ CanRise
  /\ Swap(Parent(hole), hole)
  /\ hole' = Parent(hole)
  /\ UNCHANGED <<priority, at, i0, call>>

down ==
  /\ at = "down" /\ CanSink
  /\ Swap(hole, SmallerChild)
  /\ hole' = SmallerChild
  /\ UNCHANGED <<priority, at, i0, call>>

Sink(i) == at' = "down" /\ hole' = i /\ i0' = i

(* heap.Remove and heap.Pop take out what they have moved to the end; the  *)
(* purge looks at the top again.                                           *)
Return ==
  /\ IF Removing THEN PopBack ELSE UNCHANGED <<pq, index, priority>>
  /\ at' = IF call[1] = "purge" THEN "purge" ELSE "idle"
  /\ hole' = 0 /\ i0' = 0
  /\ UNCHANGED call

UpEnds == at = "up" /\ ~CanRise /\ Return

(* Variant for the mutation runs: what fills the hole only sinks.          *)
DownEnds_NeverUp == at = "down" /\ ~CanSink /\ Return

(* if !down(h, i, n) { up(h, i) }, but in heap.Pop.                        *)
DownEnds ==
  /\ at = "down" /\ ~CanSink
  /\ IF hole = i0 /\ call[1] # "purge"
     THEN at' = "up" /\ UNCHANGED <<pq, index, priority, hole, i0, call>>
     ELSE Return

-----------------------------------------------------------------------------
Init ==
  /\ pq = <<>>
  /\ index = [b \in Buffers |-> -1]
  /\ priority = [b \in Buffers |-> -1]
  /\ at = "idle" /\ hole = 0 /\ i0 = 0
  /\ call = <<"none">>

(* priorityQueueUpdateBufferCreated: heap.Push                             *)
BufferCreated(buf, time) ==
  /\ at = "idle" /\ ~InHeap(buf)
  /\ call' = <<"created", buf, time>>
  /\ pq' = Append(pq, buf)
  /\ index' = [index EXCEPT ![buf] = Len(pq)]
  /\ priority' = [priority EXCEPT ![buf] = time]
  /\ at' = "up" /\ hole' = Len(pq)
  /\ UNCHANGED i0

(* priorityQueueUpdateNewEvent: updatePriority, which calls heap.Fix       *)
NewEvent(buf, time) ==
  /\ at = "idle" /\ InHeap(buf)
  /\ call' = <<"event", buf, time>>
  /\ priority' = [priority EXCEPT ![buf] = time]
  /\ Sink(index[buf])
  /\ UNCHANGED <<pq, index>>

(* priorityQueueUpdateDeletedBuffer: heap.Remove                           *)
DeletedBuffer(buf) ==
  /\ at = "idle" /\ InHeap(buf)
  /\ call' = <<"deleted", buf>>
  /\ IF index[buf] = Len(pq) - 1
     THEN PopBack /\ UNCHANGED <<at, hole, i0>>
     ELSE /\ Swap(index[buf], Len(pq) - 1)
          /\ Sink(index[buf])
          /\ UNCHANGED priority

(* purgeStaleCategories                                                    *)
PurgeStale(threshold) ==
  /\ at = "idle"
  /\ call' = <<"purge", threshold>>
  /\ at' = "purge"
  /\ UNCHANGED <<pq, index, priority, hole, i0>>

(* Variant for the mutation runs: a buffer exactly at the threshold stays. *)
TopIsStale_Before == pq # <<>> /\ priority[At(0)] < call[2]

(* peekTopPriority and the test of it.                                     *)
TopIsStale == pq # <<>> /\ priority[At(0)] <= call[2]

(* heap.Pop                                                                *)
PopTop ==
  /\ at = "purge" /\ TopIsStale
  /\ Swap(0, Len(pq) - 1)
  /\ Sink(0)
  /\ UNCHANGED <<priority, call>>

PurgeEnds ==
  /\ at = "purge" /\ ~TopIsStale
  /\ at' = "idle"
  /\ UNCHANGED <<pq, index, priority, hole, i0, call>>

Next ==
  \/ \E buf \in Buffers, time \in Times : BufferCreated(buf, time) \/ NewEvent(buf, time)
  \/ \E buf \in Buffers : DeletedBuffer(buf)
  \/ \E threshold \in Times : PurgeStale(threshold)
  \/ up \/ down \/ UpEnds \/ DownEnds
  \/ PopTop \/ PurgeEnds

Spec == Init /\ [][Next]_vars

-----------------------------------------------------------------------------
(* Every buffer knows where it is in the slice: heap.Remove and heap.Fix   *)
(* are given that index, and a stale one would take out or move another    *)
(* category's buffer.                                                      *)
IndexesPointBack ==
  \A buf \in Buffers :
    IF InHeap(buf) THEN At(index[buf]) = buf ELSE index[buf] = -1

(* No buffer is older than its parent, after any mix of operations: the    *)
(* purge looks at the top only and stops there.                            *)
HeapOrdered ==
  at \in {"idle", "purge"} =>
    \A i \in 1 .. Len(pq) - 1 : ~Less(i, Parent(i))

(* What the call under way is going to take out.                           *)
Doomed(buf) ==
  /\ at # "idle"
  /\ \/ call[1] = "deleted" /\ buf = call[2]
     \/ call[1] = "purge" /\ priority[buf] <= call[2]

(* The heap implements the queue the manager expects: each call, made with *)
(* the same arguments, takes out and keeps the same buffers.               *)
PQ == INSTANCE PurgeQueue WITH
        priorities <- [b \in {x \in Buffers : InHeap(x) /\ ~Doomed(x)} |-> priority[b]]

ImplementsPurgeQueue == PQ!Spec
=============================================================================

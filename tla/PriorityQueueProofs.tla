------------------------- MODULE PriorityQueueProofs -------------------------
(***************************************************************************)
(* The heap is right for any number of buffers: after any mix of           *)
(* operations it is ordered and every buffer knows its index, and it       *)
(* implements the queue that the subscription manager is written for.      *)
(***************************************************************************)
EXTENDS PriorityQueue, SequenceTheorems, WellFoundedInduction, TLAPS

Key(i) == priority[At(i)]

-----------------------------------------------------------------------------
(* The tree.                                                               *)

LEMMA ParentProperties ==
  ASSUME NEW i \in Nat \ {0}
  PROVE  /\ Parent(i) \in Nat /\ Parent(i) < i
         /\ \A h \in Nat : Parent(i) = h <=> (i = 2 * h + 1 \/ i = 2 * h + 2)
BY DEF Parent

LEMMA LeastElement ==
  ASSUME NEW S \in SUBSET Nat, S # {}
  PROVE  \E m \in S : \A x \in S : m <= x
<1> DEFINE R == OpToRel(<, Nat)
<1>1. PICK m \in S : \A y \in S : ~(<<y, m>> \in R)
  BY WFMin, NatLessThanWellFounded
<1>2. \A x, y \in Nat : x < y => <<x, y>> \in R
  BY Zenon DEF OpToRel
<1>3. \A y \in S : ~(y < m)
  BY <1>1, <1>2, Zenon
<1> QED
  BY <1>3

-----------------------------------------------------------------------------
(* The invariant: only around the hole may the order be disturbed.         *)

Types ==
  /\ pq \in Seq(Buffers)
  /\ index \in [Buffers -> Int] /\ priority \in [Buffers -> Int]
  /\ at \in {"idle", "up", "down", "purge"}
  /\ hole \in Nat /\ i0 \in Nat

Indexes ==
  /\ \A i \in 0 .. Len(pq) - 1 : index[At(i)] = i
  /\ \A b \in Buffers : ~InHeap(b) => index[b] = -1

Places ==
  /\ at = "purge" => call[1] = "purge"
  /\ call[1] = "purge" => call[2] \in Int
  /\ at = "up" => call[1] # "purge" /\ hole \in 0 .. n - 1
  /\ at = "down" => /\ i0 \in 0 .. hole
                    /\ IF call[1] = "purge" THEN i0 = 0 /\ (hole \in 0 .. n - 1 \/ hole = 0)
                       ELSE hole \in 0 .. n - 1
  /\ at \in {"up", "down"} /\ call[1] = "deleted" => Len(pq) > 0 /\ At(Len(pq) - 1) = call[2]
  /\ at = "down" /\ call[1] = "purge" => Len(pq) > 0 /\ Key(Len(pq) - 1) <= call[2]

Ordered(i) == Key(Parent(i)) <= Key(i)

(* The hole's children are no older than its parent.                       *)
Bridged == hole > 0 => \A i \in 1 .. n - 1 : Parent(i) = hole => Key(Parent(hole)) <= Key(i)

Orders ==
  /\ at \in {"idle", "purge"} => \A i \in 1 .. Len(pq) - 1 : Ordered(i)
  /\ at = "up" => Bridged /\ \A i \in 1 .. n - 1 : i # hole => Ordered(i)
  /\ at = "down" => /\ Bridged
                    /\ \A i \in 1 .. n - 1 : i # hole /\ Parent(i) # hole => Ordered(i)
                    /\ hole # i0 => Ordered(hole)

IInv == Types /\ Indexes /\ Places /\ Orders

LEMMA Elements ==
  ASSUME Types
  PROVE  /\ Len(pq) \in Nat /\ DOMAIN pq = 1 .. Len(pq)
         /\ \A i \in 0 .. Len(pq) - 1 : /\ i + 1 \in DOMAIN pq
                                        /\ At(i) \in Buffers /\ InHeap(At(i)) /\ Key(i) \in Int
         /\ \A b : InHeap(b) => \E i \in 0 .. Len(pq) - 1 : At(i) = b
         /\ n \in Int /\ n <= Len(pq) /\ (n = Len(pq) \/ n = Len(pq) - 1)
<1>1. Len(pq) \in Nat /\ DOMAIN pq = 1 .. Len(pq)
  BY LenProperties DEF Types
<1>2. ASSUME NEW i \in 0 .. Len(pq) - 1
      PROVE  /\ i + 1 \in DOMAIN pq
             /\ At(i) \in Buffers /\ InHeap(At(i)) /\ Key(i) \in Int
  <2>1. i + 1 \in 1 .. Len(pq)
    BY <1>1
  <2>2. At(i) \in Buffers
    BY <2>1, ElementOfSeq DEF Types, At
  <2> QED
    BY <1>1, <2>1, <2>2 DEF Types, At, InHeap, Key
<1>3. ASSUME NEW b, InHeap(b) PROVE \E i \in 0 .. Len(pq) - 1 : At(i) = b
  <2>1. PICK k \in 1 .. Len(pq) : pq[k] = b
    BY <1>1, <1>3 DEF InHeap
  <2>2. k - 1 \in 0 .. Len(pq) - 1 /\ (k - 1) + 1 = k
    BY <1>1
  <2> QED
    BY <2>1, <2>2 DEF At
<1> QED
  BY <1>1, <1>2, <1>3 DEF n

(* Two places hold two buffers.                                            *)
LEMMA Distinct ==
  ASSUME Indexes, NEW i \in 0 .. Len(pq) - 1, NEW j \in 0 .. Len(pq) - 1, At(i) = At(j)
  PROVE  i = j
BY DEF Indexes

LEMMA SwapProperties ==
  ASSUME Types, Indexes, NEW i \in 0 .. Len(pq) - 1, NEW j \in 0 .. Len(pq) - 1, Swap(i, j),
         priority' = priority
  PROVE  /\ pq' \in Seq(Buffers) /\ Len(pq') = Len(pq)
         /\ index' \in [Buffers -> Int] /\ Indexes'
         /\ Key(i)' = Key(j) /\ Key(j)' = Key(i) /\ At(i)' = At(j) /\ At(j)' = At(i)
         /\ \A k \in 0 .. Len(pq) - 1 : k # i /\ k # j => At(k)' = At(k) /\ Key(k)' = Key(k)
         /\ \A b : InHeap(b)' <=> InHeap(b)
<1>1. /\ pq' = [pq EXCEPT ![i + 1] = At(j), ![j + 1] = At(i)]
      /\ index' = [index EXCEPT ![At(j)] = i, ![At(i)] = j]
  BY DEF Swap
<1>2. /\ Len(pq) \in Nat /\ DOMAIN pq = 1 .. Len(pq)
      /\ \A k \in 0 .. Len(pq) - 1 : k + 1 \in DOMAIN pq /\ At(k) \in Buffers
      /\ pq \in Seq(Buffers) /\ pq \in [1 .. Len(pq) -> Buffers]
  BY Elements, LenProperties DEF Types
<1>3. pq' \in [1 .. Len(pq) -> Buffers]
  BY <1>1, <1>2
<1>4. pq' \in Seq(Buffers) /\ Len(pq') = Len(pq)
  BY <1>2, <1>3, IsASeq, LenProperties
<1>5. index' \in [Buffers -> Int]
  BY <1>1, <1>2 DEF Types
<1>6. At(i)' = At(j) /\ At(j)' = At(i)
  BY <1>1, <1>2 DEF At
<1>7. \A k \in 0 .. Len(pq) - 1 : k # i /\ k # j => At(k)' = At(k)
  BY <1>1, <1>2 DEF At
<1>8. \A b : InHeap(b)' <=> InHeap(b)
  <2>1. Types'  => TRUE
    OBVIOUS
  <2>2. DOMAIN pq' = DOMAIN pq
    BY <1>2, <1>3
  <2>3. i + 1 \in DOMAIN pq /\ j + 1 \in DOMAIN pq
    BY <1>2
  <2>4. /\ pq'[j + 1] = pq[i + 1] /\ pq'[i + 1] = pq[j + 1]
        /\ \A k \in DOMAIN pq : k # i + 1 /\ k # j + 1 => pq'[k] = pq[k]
    BY <1>1, <1>6, <2>3 DEF At
  <2> QED
    BY <2>2, <2>3, <2>4 DEF InHeap
<1>9. Indexes'
  <2>1. ASSUME NEW k \in 0 .. Len(pq) - 1 PROVE index'[At(k)'] = k
    <3>1. CASE k = i
      BY <1>1, <1>2, <1>6, <3>1, Distinct DEF Types
    <3>2. CASE k = j
      BY <1>1, <1>2, <1>6, <3>2, Distinct DEF Types
    <3>3. CASE k # i /\ k # j
      <4>1. At(k) # At(i) /\ At(k) # At(j)
        BY <3>3, Distinct
      <4> QED
        BY <1>1, <1>2, <1>7, <3>3, <4>1 DEF Types, Indexes
    <3> QED
      BY <3>1, <3>2, <3>3
  <2>2. ASSUME NEW b \in Buffers, ~InHeap(b) PROVE index'[b] = -1
    <3>1. b # At(i) /\ b # At(j)
      BY <2>2, Elements
    <3> QED
      BY <1>1, <2>2, <3>1 DEF Types, Indexes
  <2> QED
    BY <1>4, <1>8, <2>1, <2>2 DEF Indexes
<1> QED
  BY <1>4, <1>5, <1>6, <1>7, <1>8, <1>9 DEF Key

LEMMA PopBackProperties ==
  ASSUME Types, Indexes, Len(pq) > 0, PopBack
  PROVE  /\ pq' \in Seq(Buffers) /\ Len(pq') = Len(pq) - 1
         /\ index' \in [Buffers -> Int] /\ priority' \in [Buffers -> Int] /\ Indexes'
         /\ \A k \in 0 .. Len(pq) - 2 : At(k)' = At(k) /\ Key(k)' = Key(k)
         /\ \A b : InHeap(b)' <=> InHeap(b) /\ b # At(Len(pq) - 1)
         /\ \A b \in Buffers : b # At(Len(pq) - 1) => priority'[b] = priority[b]
<1> DEFINE l == Len(pq)
           last == At(l - 1)
<1>1. l \in Nat /\ l >= 1 /\ DOMAIN pq = 1 .. l /\ last \in Buffers /\ last = pq[l]
  BY Elements DEF At
<1>2. /\ pq' = SubSeq(pq, 1, l - 1)
      /\ index' = [index EXCEPT ![last] = -1]
      /\ priority' = [priority EXCEPT ![last] = -1]
  BY <1>1 DEF PopBack
<1> HIDE DEF l, last
<1>3. /\ pq' \in Seq(Buffers) /\ Len(pq') = l - 1
      /\ \A k \in 1 .. l - 1 : pq'[k] = pq[k]
  <2>1. \A k \in 1 .. l - 1 : pq[k] \in Buffers
    BY <1>1, ElementOfSeq DEF Types, l
  <2> QED
    BY <1>1, <1>2, <2>1, SubSeqProperties
<1>4. index' \in [Buffers -> Int] /\ priority' \in [Buffers -> Int]
  BY <1>1, <1>2 DEF Types
<1>5. \A k \in 0 .. l - 2 : At(k)' = At(k) /\ At(k) # last /\ At(k) \in Buffers
  <2>1. ASSUME NEW k \in 0 .. l - 2 PROVE At(k)' = At(k) /\ At(k) # last /\ At(k) \in Buffers
    <3>1. k + 1 \in 1 .. l - 1 /\ k \in 0 .. l - 1 /\ l - 1 \in 0 .. l - 1 /\ k # l - 1
      BY <1>1
    <3>2. At(k) # last /\ At(k) \in Buffers
      BY <3>1, Distinct, Elements DEF l, last
    <3> QED
      BY <1>3, <3>1, <3>2 DEF At
  <2> QED
    BY <2>1
<1>6. \A k \in 0 .. l - 2 : Key(k)' = Key(k)
  BY <1>2, <1>5 DEF Key, Types
<1>7. ASSUME NEW b PROVE InHeap(b)' <=> InHeap(b) /\ b # last
  <2>1. DOMAIN pq' = 1 .. l - 1
    BY <1>1, <1>3, LenProperties
  <2>2. ASSUME InHeap(b)' PROVE InHeap(b) /\ b # last
    <3>1. PICK k \in 1 .. l - 1 : pq'[k] = b
      BY <2>1, <2>2 DEF InHeap
    <3>2. k \in DOMAIN pq /\ k - 1 \in 0 .. l - 2 /\ (k - 1) + 1 = k
      BY <1>1
    <3>3. pq[k] = b /\ pq[k] # last
      BY <1>3, <1>5, <3>1, <3>2 DEF At
    <3> QED
      BY <3>2, <3>3 DEF InHeap
  <2>3. ASSUME InHeap(b), b # last PROVE InHeap(b)'
    <3>1. PICK k \in 1 .. l : pq[k] = b
      BY <1>1, <2>3 DEF InHeap
    <3>2. k \in 1 .. l - 1
      BY <1>1, <2>3, <3>1
    <3> QED
      BY <1>3, <2>1, <3>1, <3>2 DEF InHeap
  <2> QED
    BY <2>2, <2>3
<1>8. Indexes'
  <2>1. ASSUME NEW k \in 0 .. l - 2 PROVE index'[At(k)'] = k
    <3>1. k \in 0 .. l - 1
      BY <1>1
    <3> QED
      BY <1>2, <1>5, <3>1 DEF Indexes, Types, l
  <2>2. ASSUME NEW b \in Buffers, ~InHeap(b)' PROVE index'[b] = -1
    BY <1>2, <1>7, <2>2 DEF Indexes, Types
  <2>3. \A k \in 0 .. Len(pq') - 1 : k \in 0 .. l - 2
    BY <1>1, <1>3
  <2> QED
    BY <2>1, <2>2, <2>3 DEF Indexes
<1>9. \A b \in Buffers : b # last => priority'[b] = priority[b]
  BY <1>2 DEF Types
<1> QED
  BY <1>3, <1>4, <1>5, <1>6, <1>7, <1>8, <1>9 DEF l, last

-----------------------------------------------------------------------------
(* The calls that begin a loop, and the turns of the loops.                *)

(* What a call that goes by a buffer's own index reaches.                  *)
LEMMA IndexOf ==
  ASSUME Types, Indexes, NEW buf, InHeap(buf)
  PROVE  index[buf] \in 0 .. Len(pq) - 1 /\ At(index[buf]) = buf /\ buf \in Buffers
<1>1. PICK i \in 0 .. Len(pq) - 1 : At(i) = buf
  BY Elements
<1> QED
  BY <1>1, Elements DEF Indexes

LEMMA CreatedStep ==
  ASSUME IInv, NEW buf \in Buffers, NEW time \in Times, BufferCreated(buf, time)
  PROVE  IInv' /\ \A b : InHeap(b)' <=> InHeap(b) \/ b = buf
<1>0. PICK l : l = Len(pq)
  OBVIOUS
<1>1. /\ ~InHeap(buf) /\ at = "idle" /\ call' = <<"created", buf, time>>
      /\ pq' = Append(pq, buf) /\ index' = [index EXCEPT ![buf] = l]
      /\ priority' = [priority EXCEPT ![buf] = time]
      /\ at' = "up" /\ hole' = l /\ i0' = i0
  BY <1>0 DEF BufferCreated
<1>2. /\ l \in Nat /\ DOMAIN pq = 1 .. l /\ pq \in Seq(Buffers) /\ time \in Int
      /\ \A k \in 0 .. l - 1 : At(k) \in Buffers /\ At(k) # buf /\ Key(k) \in Int
  BY <1>0, <1>1, Elements, QueueAssumption DEF IInv, Types
<1>3. /\ pq' \in Seq(Buffers) /\ Len(pq') = l + 1 /\ pq'[l + 1] = buf
      /\ \A k \in 1 .. l : pq'[k] = pq[k]
  BY <1>0, <1>1, <1>2, AppendProperties
<1>4. Types'
  BY <1>1, <1>2, <1>3 DEF IInv, Types
<1>5. /\ At(l)' = buf
      /\ \A k \in 0 .. l - 1 : At(k)' = At(k)
  <2>1. ASSUME NEW k \in 0 .. l - 1 PROVE At(k)' = At(k)
    <3>1. k + 1 \in 1 .. l
      BY <1>2
    <3> QED
      BY <1>3, <3>1 DEF At
  <2> QED
    BY <1>3, <2>1 DEF At
<1>6. \A k \in 0 .. l - 1 : Key(k)' = Key(k)
  BY <1>1, <1>2, <1>5 DEF Key, IInv, Types
<1>7. ASSUME NEW b PROVE InHeap(b)' <=> InHeap(b) \/ b = buf
  <2>1. DOMAIN pq' = 1 .. l + 1 /\ l + 1 \in 1 .. l + 1
    BY <1>2, <1>3, LenProperties
  <2>2. \A k \in 1 .. l + 1 : k = l + 1 \/ k \in 1 .. l
    BY <1>2
  <2>3. \A k \in 1 .. l : k \in 1 .. l + 1
    BY <1>2
  <2> QED
    BY <1>2, <1>3, <2>1, <2>2, <2>3 DEF InHeap
<1>8. Indexes'
  <2>1. ASSUME NEW k \in 0 .. Len(pq') - 1 PROVE index'[At(k)'] = k
    <3>1. CASE k = l
      BY <1>1, <1>5, <3>1 DEF IInv, Types
    <3>2. CASE k # l
      <4>1. k \in 0 .. l - 1
        BY <1>2, <1>3, <3>2
      <4> QED
        BY <1>0, <1>1, <1>2, <1>5, <4>1 DEF IInv, Types, Indexes
    <3> QED
      BY <3>1, <3>2
  <2>2. ASSUME NEW b \in Buffers, ~InHeap(b)' PROVE index'[b] = -1
    BY <1>1, <1>7, <2>2 DEF IInv, Types, Indexes
  <2> QED
    BY <2>1, <2>2 DEF Indexes
<1>9. n' = l + 1 /\ n' - 1 = l
  BY <1>1, <1>2, <1>3 DEF n, Removing
<1>10. Places'
  BY <1>1, <1>2, <1>9 DEF Places
<1>11. Orders'
  <2>1. ASSUME NEW i \in 1 .. l PROVE Parent(i) # l
    BY <1>2, ParentProperties
  <2>2. Bridged'
    BY <1>1, <1>9, <2>1 DEF Bridged
  <2>3. ASSUME NEW i \in 1 .. l, i # l PROVE Ordered(i)'
    <3>1. i \in Nat \ {0} /\ i \in 1 .. l - 1 /\ i \in 0 .. l - 1 /\ Parent(i) \in 0 .. l - 1
      BY <1>2, <2>3, ParentProperties
    <3>2. Ordered(i)
      BY <1>0, <1>1, <3>1 DEF IInv, Orders
    <3> QED
      BY <1>6, <3>1, <3>2 DEF Ordered
  <2> QED
    BY <1>1, <1>9, <2>2, <2>3 DEF Orders
<1> QED
  BY <1>4, <1>7, <1>8, <1>10, <1>11 DEF IInv


(* What holds of the order while nothing is being moved.                   *)
LEMMA KeysOfIdle ==
  ASSUME IInv, at \in {"idle", "purge"}, NEW i \in 1 .. Len(pq) - 1
  PROVE  /\ i \in 0 .. Len(pq) - 1 /\ Parent(i) \in 0 .. Len(pq) - 1 /\ Parent(i) < i
         /\ Key(Parent(i)) <= Key(i) /\ Key(i) \in Int /\ Key(Parent(i)) \in Int
<1>1. Len(pq) \in Nat /\ i \in Nat \ {0} /\ i \in 0 .. Len(pq) - 1
  BY Elements DEF IInv
<1>2. Parent(i) \in 0 .. Len(pq) - 1 /\ Parent(i) < i
  BY <1>1, ParentProperties
<1> QED
  BY <1>1, <1>2, Elements DEF IInv, Orders, Ordered

LEMMA NewEventStep ==
  ASSUME IInv, NEW buf \in Buffers, NEW time \in Times, NewEvent(buf, time)
  PROVE  IInv' /\ \A b : InHeap(b)' <=> InHeap(b)
<1>0. PICK l, h : l = Len(pq) /\ h = index[buf]
  OBVIOUS
<1>1. /\ at = "idle" /\ InHeap(buf) /\ call' = <<"event", buf, time>>
      /\ priority' = [priority EXCEPT ![buf] = time]
      /\ at' = "down" /\ hole' = h /\ i0' = h
      /\ pq' = pq /\ index' = index
  BY <1>0 DEF NewEvent, Sink
<1>2. /\ l \in Nat /\ h \in 0 .. l - 1 /\ h \in Nat /\ At(h) = buf /\ time \in Int
      /\ \A k \in 0 .. l - 1 : At(k) \in Buffers /\ Key(k) \in Int
  BY <1>0, <1>1, IndexOf, Elements, QueueAssumption DEF IInv
<1>3. Types'
  BY <1>1, <1>2 DEF IInv, Types
<1>4. \A b : InHeap(b)' <=> InHeap(b)
  BY <1>1 DEF InHeap
<1>5. Indexes'
  BY <1>1, <1>4 DEF IInv, Indexes, At
<1>6. \A k \in 0 .. l - 1 : k # h => Key(k)' = Key(k)
  <2>1. ASSUME NEW k \in 0 .. l - 1, k # h PROVE Key(k)' = Key(k)
    <3>1. At(k) # buf
      BY <1>0, <1>2, <2>1, Distinct DEF IInv
    <3> QED
      BY <1>1, <1>2, <3>1 DEF IInv, Types, Key, At
  <2> QED
    BY <2>1
<1>7. n' = l
  BY <1>0, <1>1 DEF n, Removing
<1>8. Places'
  BY <1>1, <1>2, <1>7 DEF Places
<1>9. Orders'
  <2>1. ASSUME NEW i \in 1 .. l - 1
        PROVE  /\ i \in 0 .. l - 1 /\ Parent(i) \in 0 .. l - 1 /\ Parent(i) < i
               /\ Key(Parent(i)) <= Key(i)
    BY <1>0, <1>1, KeysOfIdle
  <2>2. ASSUME h > 0, NEW i \in 1 .. l - 1, Parent(i) = h
        PROVE  Key(Parent(h))' <= Key(i)'
    <3>1. /\ h \in 1 .. l - 1 /\ Parent(h) \in 0 .. l - 1 /\ Parent(h) # h
          /\ Key(Parent(h)) <= Key(h) /\ Key(h) <= Key(i) /\ i # h /\ i \in 0 .. l - 1
      BY <1>2, <2>1, <2>2
    <3>2. Key(Parent(h))' = Key(Parent(h)) /\ Key(i)' = Key(i)
      BY <1>6, <3>1
    <3>3. Key(Parent(h)) \in Int /\ Key(h) \in Int /\ Key(i) \in Int
      BY <1>2, <3>1
    <3> QED
      BY <3>1, <3>2, <3>3
  <2>3. Bridged'
    BY <1>1, <1>7, <2>2 DEF Bridged
  <2>4. ASSUME NEW i \in 1 .. l - 1, i # h, Parent(i) # h PROVE Ordered(i)'
    BY <1>6, <2>1, <2>4 DEF Ordered
  <2> QED
    BY <1>1, <1>7, <2>3, <2>4 DEF Orders
<1> QED
  BY <1>3, <1>4, <1>5, <1>8, <1>9 DEF IInv

(* heap.Remove and heap.Pop put the last buffer in the place of the one    *)
(* they take out and begin to sink it.                                     *)
LEMMA RemovalBegins ==
  ASSUME IInv, at \in {"idle", "purge"}, NEW h \in 0 .. Len(pq) - 1,
         Swap(h, Len(pq) - 1), Sink(h), priority' = priority, Removing',
         h # Len(pq) - 1 \/ h = 0
  PROVE  /\ Types' /\ Indexes' /\ Orders' /\ Len(pq') = Len(pq) /\ Len(pq) > 0
         /\ n' = Len(pq) - 1 /\ At(Len(pq) - 1)' = At(h)
         /\ \A b : InHeap(b)' <=> InHeap(b)
<1>0. PICK l, z : l = Len(pq) /\ z = Len(pq) - 1
  OBVIOUS
<1>1. l \in Nat /\ l > 0 /\ z = l - 1 /\ z \in 0 .. l - 1 /\ h \in Nat
  BY <1>0, Elements DEF IInv
<1>2. Swap(h, z) /\ at' = "down" /\ hole' = h /\ i0' = h
  BY <1>0 DEF Sink
<1>3. /\ pq' \in Seq(Buffers) /\ Len(pq') = l
      /\ index' \in [Buffers -> Int] /\ Indexes'
      /\ At(z)' = At(h)
      /\ \A k \in 0 .. l - 1 : k # h /\ k # z => Key(k)' = Key(k)
      /\ \A b : InHeap(b)' <=> InHeap(b)
  BY <1>0, <1>1, <1>2, SwapProperties DEF IInv
<1>4. Types'
  BY <1>1, <1>2, <1>3 DEF IInv, Types
<1>5. n' = l - 1 /\ n' - 1 = l - 2
  BY <1>1, <1>3 DEF n
<1>6. ASSUME NEW i \in 1 .. l - 2
      PROVE  /\ i \in 0 .. l - 1 /\ i # z /\ Parent(i) \in 0 .. l - 1 /\ Parent(i) < i /\ Parent(i) # z
             /\ Key(Parent(i)) <= Key(i) /\ Key(i) \in Int /\ Key(Parent(i)) \in Int
  <2>1. i \in 1 .. l - 1 /\ i # z
    BY <1>1
  <2>2. /\ i \in 0 .. l - 1 /\ Parent(i) \in 0 .. l - 1 /\ Parent(i) < i
        /\ Key(Parent(i)) <= Key(i) /\ Key(i) \in Int /\ Key(Parent(i)) \in Int
    BY <1>0, <2>1, KeysOfIdle
  <2> QED
    BY <1>1, <2>1, <2>2
<1>7. ASSUME h > 0, NEW i \in 1 .. l - 2, Parent(i) = h
      PROVE  Key(Parent(h))' <= Key(i)'
  <2>1. h \in 1 .. l - 2 /\ i # h
    BY <1>0, <1>1, <1>6, <1>7
  <2>2. /\ Key(Parent(h))' = Key(Parent(h)) /\ Key(i)' = Key(i)
    BY <1>3, <1>6, <1>7, <2>1
  <2>3. Key(Parent(h)) <= Key(h) /\ Key(h) <= Key(i)
    BY <1>6, <1>7, <2>1
  <2>4. Key(Parent(h)) \in Int /\ Key(h) \in Int /\ Key(i) \in Int
    BY <1>6, <1>7, <2>1
  <2> QED
    BY <2>2, <2>3, <2>4
<1>8. Bridged'
  BY <1>2, <1>5, <1>7 DEF Bridged
<1>9. ASSUME NEW i \in 1 .. l - 2, i # h, Parent(i) # h PROVE Ordered(i)'
  BY <1>3, <1>6, <1>9 DEF Ordered
<1>10. Orders'
  BY <1>2, <1>5, <1>8, <1>9 DEF Orders
<1>11. At(Len(pq) - 1)' = At(h)
  BY <1>1, <1>3 DEF At
<1> QED
  BY <1>0, <1>1, <1>3, <1>4, <1>5, <1>10, <1>11


LEMMA DeletedStep ==
  ASSUME IInv, NEW buf \in Buffers, DeletedBuffer(buf)
  PROVE  /\ IInv'
         /\ \A b \in Buffers : b # buf => priority'[b] = priority[b]
         /\ \/ at' = "idle" /\ \A b : InHeap(b)' <=> InHeap(b) /\ b # buf
            \/ at' = "down" /\ \A b : InHeap(b)' <=> InHeap(b)
<1>0. PICK l, h : l = Len(pq) /\ h = index[buf]
  OBVIOUS
<1>1. /\ at = "idle" /\ InHeap(buf) /\ call' = <<"deleted", buf>> /\ Removing'
      /\ IF h = l - 1
         THEN PopBack /\ at' = at /\ hole' = hole /\ i0' = i0
         ELSE Swap(h, l - 1) /\ Sink(h) /\ priority' = priority
  BY <1>0 DEF DeletedBuffer, Removing
<1>2. l \in Nat /\ h \in 0 .. l - 1 /\ At(h) = buf
  BY <1>0, <1>1, IndexOf, Elements DEF IInv
<1>3. CASE h = l - 1
  <2>1. l > 0 /\ at' = "idle" /\ PopBack /\ hole' = hole /\ i0' = i0
    BY <1>1, <1>2, <1>3
  <2>2. /\ pq' \in Seq(Buffers) /\ Len(pq') = l - 1
        /\ index' \in [Buffers -> Int] /\ priority' \in [Buffers -> Int] /\ Indexes'
        /\ \A k \in 0 .. l - 2 : At(k)' = At(k) /\ Key(k)' = Key(k)
        /\ \A b : InHeap(b)' <=> InHeap(b) /\ b # At(l - 1)
        /\ \A b \in Buffers : b # At(l - 1) => priority'[b] = priority[b]
    BY <1>0, <2>1, PopBackProperties DEF IInv
  <2>3. Types'
    BY <2>1, <2>2 DEF IInv, Types
  <2>4. Places'
    BY <1>1, <2>1 DEF Places
  <2>5. ASSUME NEW i \in 1 .. l - 2 PROVE Ordered(i)'
    <3>1. i \in 1 .. l - 1
      BY <1>2
    <3>2. /\ i \in 0 .. l - 1 /\ Parent(i) \in 0 .. l - 1 /\ Parent(i) < i
          /\ Key(Parent(i)) <= Key(i)
      BY <1>0, <1>1, <3>1, KeysOfIdle
    <3> QED
      BY <1>2, <2>2, <3>2 DEF Ordered
  <2>6. Orders'
    <3>1. Len(pq') - 1 = l - 2
      BY <1>2, <2>2
    <3> QED
      BY <2>1, <2>5, <3>1 DEF Orders
  <2> QED
    BY <1>2, <1>3, <2>1, <2>2, <2>3, <2>4, <2>6 DEF IInv
<1>4. CASE h # l - 1
  <2>1. Swap(h, l - 1) /\ Sink(h) /\ priority' = priority /\ at' = "down" /\ hole' = h /\ i0' = h
    BY <1>1, <1>4 DEF Sink
  <2>2. /\ Types' /\ Indexes' /\ Orders' /\ Len(pq') = l /\ l > 0
        /\ n' = l - 1 /\ At(Len(pq) - 1)' = At(h)
        /\ \A b : InHeap(b)' <=> InHeap(b)
    BY <1>0, <1>1, <1>2, <1>4, <2>1, RemovalBegins
  <2>3. Places'
    BY <1>1, <1>2, <1>4, <2>1, <2>2 DEF Places
  <2> QED
    BY <2>1, <2>2, <2>3 DEF IInv
<1> QED
  BY <1>3, <1>4

LEMMA PurgeStaleStep ==
  ASSUME IInv, NEW threshold \in Times, PurgeStale(threshold)
  PROVE  IInv' /\ \A b : InHeap(b)' <=> InHeap(b)
<1>1. /\ at = "idle" /\ at' = "purge" /\ call' = <<"purge", threshold>> /\ threshold \in Int
      /\ pq' = pq /\ index' = index /\ priority' = priority /\ hole' = hole /\ i0' = i0
  BY QueueAssumption DEF PurgeStale
<1>2. Types'
  BY <1>1 DEF IInv, Types
<1>3. Indexes' /\ \A b : InHeap(b)' <=> InHeap(b)
  BY <1>1 DEF IInv, Indexes, At, InHeap
<1>4. Places'
  BY <1>1 DEF Places
<1>5. Orders'
  BY <1>1 DEF IInv, Orders, Ordered, Key, At
<1> QED
  BY <1>2, <1>3, <1>4, <1>5 DEF IInv

LEMMA PopTopStep ==
  ASSUME IInv, PopTop
  PROVE  IInv' /\ \A b : InHeap(b)' <=> InHeap(b)
<1>1. /\ at = "purge" /\ call' = call /\ priority' = priority
      /\ pq # <<>> /\ Key(0) <= call[2]
      /\ Swap(0, Len(pq) - 1) /\ Sink(0) /\ at' = "down" /\ hole' = 0 /\ i0' = 0
  BY DEF PopTop, TopIsStale, Key, Sink
<1>2. Len(pq) \in Nat /\ Len(pq) > 0
  BY <1>1, EmptySeq DEF IInv, Types
<1>3. call[1] = "purge" /\ call[2] \in Int /\ Removing'
  BY <1>1 DEF IInv, Places, Removing
<1>4. /\ Types' /\ Indexes' /\ Orders' /\ Len(pq') = Len(pq)
      /\ n' = Len(pq) - 1 /\ At(Len(pq) - 1)' = At(0)
      /\ \A b : InHeap(b)' <=> InHeap(b)
  BY <1>1, <1>2, <1>3, RemovalBegins
<1>5. Key(Len(pq) - 1)' <= call[2]
  BY <1>1, <1>4 DEF Key
<1>6. Places'
  BY <1>1, <1>2, <1>3, <1>4, <1>5 DEF Places
<1> QED
  BY <1>4, <1>6 DEF IInv

(* The top is the least of all: by the least place of a smaller key, whose *)
(* parent would be another.                                                *)
LEMMA TopIsLeast ==
  ASSUME IInv, at \in {"idle", "purge"}, NEW i \in 0 .. Len(pq) - 1
  PROVE  Key(0) <= Key(i)
<1> DEFINE S == {k \in 0 .. Len(pq) - 1 : Key(k) < Key(0)}
<1>1. Len(pq) \in Nat /\ S \in SUBSET Nat /\ \A k \in 0 .. Len(pq) - 1 : Key(k) \in Int
  BY Elements DEF IInv
<1>2. ASSUME S # {} PROVE FALSE
  <2>1. PICK m \in S : \A x \in S : m <= x
    BY <1>1, <1>2, LeastElement
  <2>2. m \in 1 .. Len(pq) - 1 /\ Key(m) < Key(0)
    BY <1>1, <2>1
  <2>3. /\ Parent(m) \in 0 .. Len(pq) - 1 /\ Parent(m) < m
        /\ Key(Parent(m)) <= Key(m) /\ Key(m) \in Int /\ Key(Parent(m)) \in Int
    BY <2>2, KeysOfIdle
  <2>4. Key(Parent(m)) < Key(0) /\ Parent(m) \in S
    BY <1>1, <2>2, <2>3
  <2> QED
    BY <1>1, <2>1, <2>2, <2>3, <2>4
<1> QED
  BY <1>1, <1>2

LEMMA PurgeEndsStep ==
  ASSUME IInv, PurgeEnds
  PROVE  /\ IInv' /\ at = "purge" /\ at' = "idle"
         /\ \A b : InHeap(b) => priority[b] > call[2]
<1>1. /\ at = "purge" /\ at' = "idle" /\ ~TopIsStale
      /\ pq' = pq /\ index' = index /\ priority' = priority /\ hole' = hole /\ i0' = i0 /\ call' = call
  BY DEF PurgeEnds
<1>2. call[2] \in Int
  BY <1>1 DEF IInv, Places
<1>3. ASSUME NEW b, InHeap(b) PROVE priority[b] > call[2]
  <2>1. PICK i \in 0 .. Len(pq) - 1 : At(i) = b
    BY <1>3, Elements DEF IInv
  <2>2. Len(pq) \in Nat /\ 0 \in 0 .. Len(pq) - 1 /\ pq # <<>>
    BY <2>1, Elements, EmptySeq DEF IInv
  <2>3. Key(0) <= Key(i) /\ Key(0) \in Int /\ Key(i) \in Int
    BY <1>1, <2>1, <2>2, TopIsLeast, Elements DEF IInv
  <2>4. ~(Key(0) <= call[2])
    BY <1>1, <2>2 DEF TopIsStale, Key
  <2>5. Key(i) > call[2]
    BY <1>2, <2>3, <2>4
  <2> QED
    BY <2>1, <2>5 DEF Key
<1>4. Types' /\ Indexes'
  BY <1>1 DEF IInv, Types, Indexes, At, InHeap
<1>5. Places'
  BY <1>1, <1>2 DEF Places
<1>6. Orders'
  BY <1>1 DEF IInv, Orders, Ordered, Key, At
<1> QED
  BY <1>1, <1>3, <1>4, <1>5, <1>6 DEF IInv


-----------------------------------------------------------------------------
(* The loops.                                                              *)

(* What the smaller child is.                                              *)
LEMMA ChildProperties ==
  ASSUME IInv, at = "down", 2 * hole + 1 < n
  PROVE  /\ SmallerChild \in 1 .. n - 1 /\ Parent(SmallerChild) = hole /\ SmallerChild > hole
         /\ \A i \in 1 .. n - 1 : Parent(i) = hole => Key(SmallerChild) <= Key(i)
<1> DEFINE left  == 2 * hole + 1
           right == left + 1
<1>1. /\ hole \in Nat /\ n \in Int /\ n <= Len(pq) /\ Len(pq) \in Nat
      /\ \A k \in 0 .. Len(pq) - 1 : Key(k) \in Int
  BY Elements DEF IInv, Types
<1>2. /\ left \in 1 .. n - 1 /\ left > hole /\ left \in Nat \ {0}
      /\ right \in Nat \ {0} /\ right > hole
      /\ (right < n => right \in 1 .. n - 1)
      /\ \A k \in 1 .. n - 1 : k \in Nat \ {0} /\ k \in 0 .. Len(pq) - 1
  BY <1>1
<1>3. \A i \in 1 .. n - 1 : Parent(i) = hole <=> i = left \/ i = right
  <2>1. right = 2 * hole + 2
    BY <1>1
  <2> QED
    BY <1>1, <1>2, <2>1, ParentProperties
<1>4. SmallerChild = IF right < n /\ Less(right, left) THEN right ELSE left
  BY DEF SmallerChild
<1>5. right < n => (Less(right, left) <=> Key(right) < Key(left))
  BY DEF Less, Key
<1> HIDE DEF left, right
<1>6. SmallerChild \in 1 .. n - 1 /\ Parent(SmallerChild) = hole /\ SmallerChild > hole
  BY <1>2, <1>3, <1>4
<1>7. ASSUME NEW i \in 1 .. n - 1, Parent(i) = hole PROVE Key(SmallerChild) <= Key(i)
  <2>1. Key(i) \in Int /\ Key(left) \in Int /\ (i = left \/ i = right)
    BY <1>1, <1>2, <1>3, <1>7
  <2>2. i = right => right < n
    BY <1>1
  <2>3. right < n => Key(right) \in Int
    BY <1>1, <1>2
  <2>4. CASE right < n /\ Less(right, left)
    <3>1. SmallerChild = right /\ Key(right) < Key(left)
      BY <1>4, <1>5, <2>4
    <3> QED
      BY <2>1, <2>3, <2>4, <3>1
  <2>5. CASE ~(right < n /\ Less(right, left))
    <3>1. SmallerChild = left /\ (right < n => ~(Key(right) < Key(left)))
      BY <1>4, <1>5, <2>5
    <3> QED
      BY <2>1, <2>2, <2>3, <3>1
  <2> QED
    BY <2>4, <2>5
<1> QED
  BY <1>6, <1>7

LEMMA DownStep ==
  ASSUME IInv, down
  PROVE  IInv' /\ \A b : InHeap(b)' <=> InHeap(b)
<1>0. PICK l, h, c, m : l = Len(pq) /\ h = hole /\ c = SmallerChild /\ m = n
  OBVIOUS
<1>1. /\ at = "down" /\ 2 * h + 1 < m /\ Less(c, h)
      /\ Swap(h, c) /\ hole' = c
      /\ priority' = priority /\ at' = at /\ i0' = i0 /\ call' = call
  BY <1>0 DEF down, CanSink
<1>2. /\ l \in Nat /\ m \in Int /\ m <= l /\ h \in Nat
      /\ \A k \in 0 .. l - 1 : Key(k) \in Int
  BY <1>0, Elements DEF IInv, Types
<1>3. /\ c \in 1 .. m - 1 /\ Parent(c) = h /\ c > h
      /\ \A i \in 1 .. m - 1 : Parent(i) = h => Key(c) <= Key(i)
  BY <1>0, <1>1, ChildProperties
<1>4. h \in 0 .. l - 1 /\ c \in 0 .. l - 1 /\ h # c /\ h \in 0 .. m - 1
  BY <1>2, <1>3
<1>5. /\ pq' \in Seq(Buffers) /\ Len(pq') = l
      /\ index' \in [Buffers -> Int] /\ Indexes'
      /\ Key(h)' = Key(c) /\ Key(c)' = Key(h)
      /\ \A k \in 0 .. l - 1 : k # h /\ k # c => At(k)' = At(k) /\ Key(k)' = Key(k)
      /\ \A b : InHeap(b)' <=> InHeap(b)
  BY <1>0, <1>1, <1>4, SwapProperties DEF IInv
<1>6. Key(c) < Key(h) /\ Key(c) \in Int /\ Key(h) \in Int
  BY <1>1, <1>2, <1>4 DEF Less, Key
<1>7. n' = m
  BY <1>0, <1>1, <1>5 DEF n, Removing
<1>8. Types'
  BY <1>1, <1>2, <1>3, <1>5 DEF IInv, Types
<1>9. ASSUME NEW i \in 1 .. m - 1
      PROVE  i \in 0 .. l - 1 /\ Parent(i) \in 0 .. l - 1 /\ Parent(i) < i /\ Parent(i) \in 0 .. m - 1
  <2>1. i \in Nat \ {0} /\ i \in 0 .. l - 1
    BY <1>2
  <2> QED
    BY <1>2, <2>1, ParentProperties
<1>10. Places'
  <2>1. call[1] = "purge" => m = l - 1
    BY <1>0 DEF n, Removing
  <2>2. i0 \in 0 .. c
    BY <1>0, <1>1, <1>3, <1>4 DEF IInv, Places, Types
  <2>3. c \in 0 .. m - 1
    BY <1>3
  <2>4. Removing => l - 1 # h /\ l - 1 # c /\ (l > 0 => l - 1 \in 0 .. l - 1)
    BY <1>0, <1>2, <1>3, <1>4 DEF n
  <2>5. Removing /\ l > 0 => At(l - 1)' = At(l - 1) /\ Key(l - 1)' = Key(l - 1)
    BY <1>5, <2>4
  <2>6. l > 0
    BY <1>2, <1>4
  <2>7. call[1] = "deleted" => At(l - 1)' = call[2]
    BY <1>0, <1>1, <2>5, <2>6 DEF IInv, Places, Removing
  <2>8. call[1] = "purge" => i0 = 0 /\ Key(l - 1)' <= call[2] /\ call[2] \in Int
    BY <1>0, <1>1, <2>5, <2>6 DEF IInv, Places, Removing
  <2>9. At(Len(pq) - 1)' = At(l - 1)' /\ Key(Len(pq) - 1)' = Key(l - 1)'
    BY <1>5 DEF At, Key
  <2> QED
    BY <1>1, <1>5, <1>7, <2>2, <2>3, <2>6, <2>7, <2>8, <2>9 DEF Places
<1>11. Orders'
  <2>1. /\ h > 0 => \A i \in 1 .. m - 1 : Parent(i) = h => Key(Parent(h)) <= Key(i)
        /\ \A i \in 1 .. m - 1 : i # h /\ Parent(i) # h => Key(Parent(i)) <= Key(i)
    BY <1>0, <1>1 DEF IInv, Orders, Bridged, Ordered
  <2>2. ASSUME NEW i \in 1 .. m - 1, Parent(i) = c PROVE Key(Parent(c))' <= Key(i)'
    <3>1. i # h /\ i # c /\ Parent(i) # h
      BY <1>3, <1>4, <1>9, <2>2
    <3>2. Key(c) <= Key(i) /\ Key(i)' = Key(i) /\ Key(Parent(c))' = Key(c)
      BY <1>3, <1>5, <1>9, <2>1, <2>2, <3>1
    <3> QED
      BY <3>2
  <2>3. Bridged'
    BY <1>1, <1>7, <2>2 DEF Bridged
  <2>4. ASSUME NEW i \in 1 .. m - 1, i # c, Parent(i) # c PROVE Ordered(i)'
    <3>1. CASE i = h
      <4>1. h > 0 /\ Parent(h) # h /\ Parent(h) # c /\ Key(Parent(h)) <= Key(c) /\ Parent(h) \in 0 .. l - 1
        BY <1>3, <1>9, <2>1, <2>4, <3>1
      <4>2. Key(Parent(h))' = Key(Parent(h)) /\ Key(h)' = Key(c)
        BY <1>5, <4>1
      <4> QED
        BY <3>1, <4>1, <4>2 DEF Ordered
    <3>2. CASE Parent(i) = h
      <4>1. Key(i)' = Key(i) /\ Key(h)' = Key(c) /\ Key(c) <= Key(i)
        BY <1>3, <1>5, <1>9, <2>4, <3>2
      <4> QED
        BY <3>2, <4>1 DEF Ordered
    <3>3. CASE i # h /\ Parent(i) # h
      BY <1>5, <1>9, <2>1, <2>4, <3>3 DEF Ordered
    <3> QED
      BY <3>1, <3>2, <3>3
  <2>5. Key(Parent(c))' <= Key(c)'
    BY <1>3, <1>5, <1>6
  <2>6. Ordered(hole)'
    BY <1>1, <2>5 DEF Ordered
  <2> QED
    BY <1>1, <1>7, <2>3, <2>4, <2>6 DEF Orders
<1> QED
  BY <1>5, <1>8, <1>10, <1>11 DEF IInv

LEMMA UpStep ==
  ASSUME IInv, up
  PROVE  IInv' /\ \A b : InHeap(b)' <=> InHeap(b)
<1>0. PICK l, h, p, m : l = Len(pq) /\ h = hole /\ p = Parent(hole) /\ m = n
  OBVIOUS
<1>1. /\ at = "up" /\ h # 0 /\ Less(h, p) /\ p = Parent(h)
      /\ Swap(p, h) /\ hole' = p
      /\ priority' = priority /\ at' = at /\ i0' = i0 /\ call' = call
  BY <1>0 DEF up, CanRise
<1>2. /\ l \in Nat /\ m \in Int /\ m <= l /\ h \in 1 .. m - 1 /\ call[1] # "purge"
      /\ \A k \in 0 .. l - 1 : Key(k) \in Int
  <2>1. l \in Nat /\ m \in Int /\ m <= l /\ h \in Nat /\ \A k \in 0 .. l - 1 : Key(k) \in Int
    BY <1>0, Elements DEF IInv, Types
  <2>2. h \in 0 .. m - 1 /\ call[1] # "purge"
    BY <1>0, <1>1 DEF IInv, Places
  <2> QED
    BY <1>1, <2>1, <2>2
<1>3. ASSUME NEW i \in 1 .. m - 1
      PROVE  /\ i \in 0 .. l - 1 /\ Parent(i) \in 0 .. l - 1 /\ Parent(i) < i /\ Parent(i) \in 0 .. m - 1
             /\ Parent(i) \in Nat
  <2>1. i \in Nat \ {0} /\ i \in 0 .. l - 1
    BY <1>2
  <2> QED
    BY <1>2, <2>1, ParentProperties
<1>4. h \in 0 .. l - 1 /\ p \in 0 .. l - 1 /\ p < h /\ p \in 0 .. m - 1 /\ p \in Nat
  BY <1>1, <1>2, <1>3
<1>5. /\ pq' \in Seq(Buffers) /\ Len(pq') = l
      /\ index' \in [Buffers -> Int] /\ Indexes'
      /\ Key(h)' = Key(p) /\ Key(p)' = Key(h)
      /\ \A k \in 0 .. l - 1 : k # h /\ k # p => At(k)' = At(k) /\ Key(k)' = Key(k)
      /\ \A b : InHeap(b)' <=> InHeap(b)
  BY <1>0, <1>1, <1>4, SwapProperties DEF IInv
<1>6. Key(h) < Key(p) /\ Key(p) \in Int /\ Key(h) \in Int
  BY <1>1, <1>2, <1>4 DEF Less, Key
<1>7. n' = m
  BY <1>0, <1>1, <1>5 DEF n, Removing
<1>8. Types'
  BY <1>1, <1>4, <1>5 DEF IInv, Types
<1>9. Places'
  <2>1. call[1] = "deleted" => /\ l > 0 /\ At(l - 1) = call[2] /\ m = l - 1
    BY <1>0, <1>1 DEF IInv, Places, n, Removing
  <2>2. call[1] = "deleted" => At(l - 1)' = call[2]
    <3> SUFFICES ASSUME call[1] = "deleted" PROVE At(l - 1)' = call[2]
      OBVIOUS
    <3>1. l - 1 # h /\ l - 1 # p /\ l - 1 \in 0 .. l - 1
      BY <1>2, <1>4, <2>1
    <3> QED
      BY <1>5, <2>1, <3>1
  <2>3. At(Len(pq) - 1)' = At(l - 1)'
    BY <1>5 DEF At
  <2> QED
    BY <1>1, <1>2, <1>4, <1>5, <1>7, <2>1, <2>2, <2>3 DEF Places
<1>10. Orders'
  <2>1. /\ \A i \in 1 .. m - 1 : Parent(i) = h => Key(p) <= Key(i)
        /\ \A i \in 1 .. m - 1 : i # h => Key(Parent(i)) <= Key(i)
    BY <1>0, <1>1, <1>2 DEF IInv, Orders, Bridged, Ordered
  <2>2. ASSUME p > 0, NEW i \in 1 .. m - 1, Parent(i) = p PROVE Key(Parent(p))' <= Key(i)'
    <3>1. p \in 1 .. m - 1
      BY <1>4, <2>2
    <3>2. /\ Parent(p) < p /\ Parent(p) \in 0 .. l - 1 /\ Key(Parent(p)) <= Key(p)
      BY <1>3, <1>4, <2>1, <3>1
    <3>3. Key(Parent(p))' = Key(Parent(p)) /\ Key(Parent(p)) \in Int
      BY <1>2, <1>4, <1>5, <3>2
    <3>4. CASE i = h
      BY <1>5, <3>2, <3>3, <3>4
    <3>5. CASE i # h
      <4>1. Key(i)' = Key(i) /\ Key(p) <= Key(i) /\ Key(i) \in Int
        BY <1>2, <1>3, <1>5, <2>1, <2>2, <3>5
      <4> QED
        BY <1>6, <3>2, <3>3, <4>1
    <3> QED
      BY <3>4, <3>5
  <2>3. Bridged'
    BY <1>1, <1>7, <2>2 DEF Bridged
  <2>4. ASSUME NEW i \in 1 .. m - 1, i # p PROVE Ordered(i)'
    <3>1. CASE i = h
      BY <1>1, <1>5, <1>6, <3>1 DEF Ordered
    <3>2. CASE i # h /\ Parent(i) = p
      <4>1. Key(i)' = Key(i) /\ Key(p)' = Key(h) /\ Key(p) <= Key(i) /\ Key(i) \in Int
        BY <1>2, <1>3, <1>5, <2>1, <2>4, <3>2
      <4>2. Key(p)' <= Key(i)'
        BY <1>6, <4>1
      <4> QED
        BY <3>2, <4>2 DEF Ordered
    <3>3. CASE i # h /\ Parent(i) = h
      BY <1>3, <1>5, <2>1, <2>4, <3>3 DEF Ordered
    <3>4. CASE i # h /\ Parent(i) # p /\ Parent(i) # h
      BY <1>3, <1>5, <2>1, <2>4, <3>4 DEF Ordered
    <3> QED
      BY <3>1, <3>2, <3>3, <3>4
  <2> QED
    BY <1>1, <1>7, <2>3, <2>4 DEF Orders
<1> QED
  BY <1>5, <1>8, <1>9, <1>10 DEF IInv


(* What the last buffer is when a loop that removes it ends.               *)
LEMMA ReturnStep ==
  ASSUME IInv, at \in {"up", "down"}, Return, \A i \in 1 .. n - 1 : Ordered(i)
  PROVE  /\ IInv' /\ call' = call
         /\ ~Removing => at' = "idle" /\ priority' = priority /\ \A b : InHeap(b)' <=> InHeap(b)
         /\ Removing => \E last \in Buffers :
              /\ InHeap(last)
              /\ IF call[1] = "deleted" THEN at' = "idle" /\ last = call[2]
                 ELSE at' = "purge" /\ priority[last] <= call[2]
              /\ \A b : InHeap(b)' <=> InHeap(b) /\ b # last
              /\ \A b \in Buffers : b # last => priority'[b] = priority[b]
<1>0. PICK l, z : l = Len(pq) /\ z = Len(pq) - 1
  OBVIOUS
<1>1. /\ hole' = 0 /\ i0' = 0 /\ call' = call
      /\ at' = IF call[1] = "purge" THEN "purge" ELSE "idle"
      /\ Removing => PopBack
      /\ ~Removing => pq' = pq /\ index' = index /\ priority' = priority
  BY DEF Return
<1>2. /\ l \in Nat /\ z = l - 1
      /\ \A k \in 0 .. l - 1 : Key(k) \in Int
  BY <1>0, Elements DEF IInv
<1>3. Places'
  BY <1>1 DEF IInv, Places
<1>4. ASSUME NEW i \in 1 .. n - 1
      PROVE  i \in 0 .. n - 1 /\ Parent(i) \in 0 .. n - 1 /\ Key(Parent(i)) <= Key(i)
  <2>1. i \in Nat \ {0} /\ n \in Int
    BY Elements DEF IInv
  <2> QED
    BY <2>1, ParentProperties DEF Ordered
<1>5. CASE ~Removing
  <2>1. pq' = pq /\ index' = index /\ priority' = priority /\ at' = "idle" /\ n = Len(pq)
    BY <1>1, <1>5 DEF Removing, n
  <2>2. Types' /\ Indexes' /\ \A b : InHeap(b)' <=> InHeap(b)
    BY <1>1, <2>1 DEF IInv, Types, Indexes, InHeap, At
  <2>3. \A i \in 1 .. Len(pq') - 1 : Ordered(i)'
    BY <1>4, <2>1 DEF Ordered, Key, At
  <2>4. Orders'
    BY <2>1, <2>3 DEF Orders
  <2> QED
    BY <1>1, <1>3, <1>5, <2>1, <2>2, <2>4 DEF IInv
<1>6. CASE Removing
  <2>1. /\ PopBack /\ n = l - 1 /\ l > 0 /\ at' \in {"idle", "purge"}
        /\ IF call[1] = "deleted" THEN at' = "idle" /\ At(z) = call[2]
           ELSE at' = "purge" /\ Key(z) <= call[2]
    BY <1>0, <1>1, <1>6 DEF IInv, Places, Removing, n
  <2>2. /\ pq' \in Seq(Buffers) /\ Len(pq') = l - 1
        /\ index' \in [Buffers -> Int] /\ priority' \in [Buffers -> Int] /\ Indexes'
        /\ \A k \in 0 .. l - 2 : At(k)' = At(k) /\ Key(k)' = Key(k)
        /\ \A b : InHeap(b)' <=> InHeap(b) /\ b # At(z)
        /\ \A b \in Buffers : b # At(z) => priority'[b] = priority[b]
    BY <1>0, <2>1, PopBackProperties DEF IInv
  <2>3. Types'
    BY <1>1, <2>1, <2>2 DEF IInv, Types
  <2>4. n - 1 = l - 2 /\ Len(pq') - 1 = l - 2
    BY <1>2, <2>1, <2>2
  <2>5. ASSUME NEW i \in 1 .. l - 2 PROVE Ordered(i)'
    BY <1>4, <2>2, <2>4 DEF Ordered
  <2>6. Orders'
    BY <2>1, <2>4, <2>5 DEF Orders
  <2>7. At(z) \in Buffers /\ InHeap(At(z))
    BY <1>0, <1>2, <2>1, Elements DEF IInv
  <2> QED
    BY <1>1, <1>3, <1>6, <2>1, <2>2, <2>3, <2>6, <2>7 DEF IInv, Key
<1> QED
  BY <1>5, <1>6

(* A loop ends where the order is whole.                                   *)
LEMMA UpEndsOrdered ==
  ASSUME IInv, UpEnds
  PROVE  \A i \in 1 .. n - 1 : Ordered(i)
<1>1. at = "up" /\ ~CanRise
  BY DEF UpEnds
<1>2. ASSUME NEW i \in 1 .. n - 1 PROVE Ordered(i)
  <2>1. CASE i # hole
    BY <1>1, <2>1 DEF IInv, Orders
  <2>2. CASE i = hole
    <3>1. n \in Int /\ n <= Len(pq) /\ Len(pq) \in Nat
      BY Elements DEF IInv
    <3>2. i # 0 /\ i \in Nat \ {0} /\ i \in 0 .. Len(pq) - 1
      BY <3>1
    <3>3. Parent(i) \in 0 .. Len(pq) - 1
      BY <3>1, <3>2, ParentProperties
    <3>4. Key(i) \in Int /\ Key(Parent(i)) \in Int
      BY <3>2, <3>3, Elements DEF IInv
    <3>5. ~(Key(i) < Key(Parent(i)))
      BY <1>1, <2>2, <3>2 DEF CanRise, Less, Key
    <3> QED
      BY <3>4, <3>5 DEF Ordered
  <2> QED
    BY <2>1, <2>2
<1> QED
  BY <1>2

LEMMA SunkFits ==
  ASSUME IInv, at = "down", ~CanSink
  PROVE  \A i \in 1 .. n - 1 : i # hole => Ordered(i)
<1>1. /\ n \in Int /\ n <= Len(pq) /\ Len(pq) \in Nat /\ hole \in Nat
      /\ \A k \in 0 .. Len(pq) - 1 : Key(k) \in Int
  BY Elements DEF IInv, Types
<1>2. ASSUME NEW i \in 1 .. n - 1, i # hole PROVE Ordered(i)
  <2>1. CASE Parent(i) # hole
    BY <1>2, <2>1 DEF IInv, Orders
  <2>2. CASE Parent(i) = hole
    <3>1. i \in Nat \ {0} /\ i \in 0 .. Len(pq) - 1
      BY <1>1
    <3>2. i = 2 * hole + 1 \/ i = 2 * hole + 2
      BY <1>1, <2>2, <3>1, ParentProperties
    <3>3. 2 * hole + 1 < n
      BY <1>1, <3>2
    <3>4. SmallerChild \in 1 .. n - 1 /\ SmallerChild > hole /\ Key(SmallerChild) <= Key(i)
      BY <2>2, <3>3, ChildProperties
    <3>5. SmallerChild \in 0 .. Len(pq) - 1 /\ hole \in 0 .. Len(pq) - 1
      BY <1>1, <3>4
    <3>6. ~(Key(SmallerChild) < Key(hole))
      BY <3>3 DEF CanSink, Less, Key
    <3>7. Key(SmallerChild) \in Int /\ Key(hole) \in Int /\ Key(i) \in Int
      BY <1>1, <3>1, <3>5
    <3>8. Key(hole) <= Key(i)
      BY <3>4, <3>6, <3>7
    <3> QED
      BY <2>2, <3>8 DEF Ordered
  <2> QED
    BY <2>1, <2>2
<1> QED
  BY <1>2

LEMMA DownEndsOrdered ==
  ASSUME IInv, DownEnds
  PROVE  \/ IInv' /\ at = "down" /\ at' = "up" /\ UNCHANGED <<pq, index, priority, hole, i0, call>>
         \/ at = "down" /\ Return /\ \A i \in 1 .. n - 1 : Ordered(i)
<1>1. at = "down" /\ ~CanSink
  BY DEF DownEnds
<1>2. \A i \in 1 .. n - 1 : i # hole => Ordered(i)
  BY <1>1, SunkFits
<1>3. CASE hole = i0 /\ call[1] # "purge"
  <2>1. /\ at' = "up"
        /\ pq' = pq /\ index' = index /\ priority' = priority /\ hole' = hole /\ i0' = i0 /\ call' = call
    BY <1>3 DEF DownEnds
  <2>2. Types' /\ Indexes'
    BY <2>1 DEF IInv, Types, Indexes, At, InHeap
  <2>3. Places'
    BY <1>1, <1>3, <2>1 DEF IInv, Places, n, Removing, At
  <2>4. Orders'
    <3>1. Bridged
      BY <1>1 DEF IInv, Orders
    <3> QED
      BY <1>2, <2>1, <3>1 DEF Orders, Bridged, Ordered, Key, At, n, Removing
  <2> QED
    BY <1>1, <2>1, <2>2, <2>3, <2>4 DEF IInv
<1>4. CASE ~(hole = i0 /\ call[1] # "purge")
  <2>1. Return
    BY <1>4 DEF DownEnds
  <2>2. hole > 0 => Ordered(hole)
    BY <1>1, <1>4 DEF IInv, Places, Orders, Types
  <2>3. ASSUME NEW i \in 1 .. n - 1 PROVE Ordered(i)
    <3>1. i > 0
      BY Elements DEF IInv
    <3> QED
      BY <1>2, <2>2, <3>1
  <2> QED
    BY <1>1, <2>1, <2>3
<1> QED
  BY <1>3, <1>4


-----------------------------------------------------------------------------
(* The invariant holds always.                                             *)

LEMMA InitHolds == Init => IInv
<1> SUFFICES ASSUME Init PROVE IInv
  OBVIOUS
<1>1. /\ pq = <<>> /\ index = [b \in Buffers |-> -1] /\ priority = [b \in Buffers |-> -1]
      /\ at = "idle" /\ hole = 0 /\ i0 = 0 /\ call = <<"none">>
  BY DEF Init
<1>2. Len(pq) = 0 /\ pq \in Seq(Buffers) /\ ~(\E b : InHeap(b))
  BY <1>1 DEF InHeap
<1>3. Types /\ Places
  BY <1>1, <1>2 DEF Types, Places
<1>4. Indexes
  BY <1>1, <1>2 DEF Indexes
<1>5. Orders
  BY <1>1, <1>2 DEF Orders
<1> QED
  BY <1>3, <1>4, <1>5 DEF IInv

LEMMA StepHolds ==
  ASSUME IInv, [Next]_vars
  PROVE  IInv'
<1>1. ASSUME NEW buf \in Buffers, NEW time \in Times, BufferCreated(buf, time)
      PROVE  IInv'
  BY <1>1, CreatedStep
<1>2. ASSUME NEW buf \in Buffers, NEW time \in Times, NewEvent(buf, time)
      PROVE  IInv'
  BY <1>2, NewEventStep
<1>3. ASSUME NEW buf \in Buffers, DeletedBuffer(buf) PROVE IInv'
  BY <1>3, DeletedStep
<1>4. ASSUME NEW threshold \in Times, PurgeStale(threshold) PROVE IInv'
  BY <1>4, PurgeStaleStep
<1>5. CASE up
  BY <1>5, UpStep
<1>6. CASE down
  BY <1>6, DownStep
<1>7. CASE UpEnds
  <2>1. at \in {"up", "down"} /\ Return
    BY <1>7 DEF UpEnds
  <2> QED
    BY <1>7, <2>1, UpEndsOrdered, ReturnStep
<1>8. CASE DownEnds
  <2>1. \/ IInv'
        \/ at = "down" /\ Return /\ \A i \in 1 .. n - 1 : Ordered(i)
    BY <1>8, DownEndsOrdered
  <2>2. ASSUME at = "down", Return, \A i \in 1 .. n - 1 : Ordered(i) PROVE IInv'
    BY <2>2, ReturnStep
  <2> QED
    BY <2>1, <2>2
<1>9. CASE PopTop
  BY <1>9, PopTopStep
<1>10. CASE PurgeEnds
  BY <1>10, PurgeEndsStep
<1>11. CASE UNCHANGED vars
  BY <1>11 DEF vars, IInv, Types, Indexes, Places, Orders, Bridged, Ordered, Key, At, InHeap, n, Removing
<1> QED
  BY <1>1, <1>2, <1>3, <1>4, <1>5, <1>6, <1>7, <1>8, <1>9, <1>10, <1>11 DEF Next

LEMMA Always == Spec => []IInv
<1>1. IInv /\ [Next]_vars => IInv'
  BY StepHolds
<1> QED
  BY InitHolds, <1>1, PTL DEF Spec

(* However the buffers were moved, heap.Remove and heap.Fix are given the  *)
(* index of the buffer that was meant, and one that is not in the heap has *)
(* index -1.                                                               *)
THEOREM IndexesCorrect == Spec => []IndexesPointBack
<1>1. IInv => IndexesPointBack
  BY IndexOf DEF IInv, Indexes, IndexesPointBack
<1> QED
  BY <1>1, Always, PTL

(* Between two calls, and each time the purge looks at the top, no buffer  *)
(* is older than its parent.                                               *)
THEOREM HeapIsOrdered == Spec => []HeapOrdered
<1>1. ASSUME IInv PROVE HeapOrdered
  <2> SUFFICES ASSUME at \in {"idle", "purge"}, NEW i \in 1 .. Len(pq) - 1
               PROVE  ~Less(i, Parent(i))
    BY DEF HeapOrdered
  <2> QED
    BY <1>1, KeysOfIdle DEF Less, Key
<1> QED
  BY <1>1, Always, PTL

-----------------------------------------------------------------------------
(* The queue that the heap implements.                                     *)

Kept == {b \in Buffers : InHeap(b) /\ ~Doomed(b)}

LEMMA PutPriority ==
  ASSUME NEW f, NEW D, NEW k, NEW v, NEW g, NEW E,
         E = D \cup {k}, g[k] = v, \A b \in D : b # k => g[b] = f[b]
  PROVE  [b \in E |-> g[b]] = PQ!Put([b \in D |-> f[b]], k, v)
BY DEF PQ!Put

LEMMA DeletePriorities ==
  ASSUME NEW f, NEW D, NEW g, NEW E, NEW S,
         E = D \ S, \A b \in E : g[b] = f[b]
  PROVE  [b \in E |-> g[b]] = PQ!Delete([b \in D |-> f[b]], S)
BY DEF PQ!Delete, PQ!Restrict

(* The loops take out what the call has said it would, and nothing else.   *)
LEMMA StutterStep ==
  ASSUME call' = call, Kept' = Kept, \A b \in Kept : priority'[b] = priority[b]
  PROVE  UNCHANGED PQ!vars
<1>1. [b \in Kept |-> priority[b]]' = [b \in Kept |-> priority[b]]
  OBVIOUS
<1> QED
  BY <1>1 DEF PQ!vars, Kept


LEMMA InitMaps == Init => PQ!Init
<1> SUFFICES ASSUME Init PROVE PQ!Init
  OBVIOUS
<1>1. call = <<"none">> /\ pq = <<>>
  BY DEF Init
<1>2. Kept = {}
  BY <1>1 DEF Kept, InHeap
<1>3. [b \in Kept |-> priority[b]] = PQ!EmptyMap
  BY <1>2 DEF PQ!EmptyMap
<1> QED
  BY <1>1, <1>3 DEF PQ!Init, Kept

LEMMA ReturnMaps ==
  ASSUME IInv, at \in {"up", "down"}, Return, \A i \in 1 .. n - 1 : Ordered(i)
  PROVE  UNCHANGED PQ!vars
<1>1. CASE ~Removing
  <2>1. /\ call' = call /\ at' = "idle" /\ priority' = priority
        /\ \A b : InHeap(b)' <=> InHeap(b)
    BY <1>1, ReturnStep
  <2>2. Kept' = Kept
    BY <1>1, <2>1 DEF Kept, Doomed, Removing
  <2> QED
    BY <2>1, <2>2, StutterStep
<1>2. CASE Removing
  <2>1. PICK last \in Buffers :
              /\ InHeap(last)
              /\ IF call[1] = "deleted" THEN at' = "idle" /\ last = call[2]
                 ELSE at' = "purge" /\ priority[last] <= call[2]
              /\ \A b : InHeap(b)' <=> InHeap(b) /\ b # last
              /\ \A b \in Buffers : b # last => priority'[b] = priority[b]
    BY <1>2, ReturnStep
  <2>2. call' = call
    BY ReturnStep
  <2>3. ASSUME NEW b \in Buffers
        PROVE  (InHeap(b) /\ ~Doomed(b))' <=> (InHeap(b) /\ ~Doomed(b))
    <3>1. CASE call[1] = "deleted"
      BY <2>1, <2>2, <3>1 DEF Doomed
    <3>2. CASE call[1] = "purge"
      <4>1. Doomed(last) /\ at' = "purge"
        BY <2>1, <3>2 DEF Doomed
      <4>2. CASE b = last
        BY <2>1, <4>1, <4>2
      <4>3. CASE b # last
        BY <2>1, <2>2, <3>2, <4>1, <4>3 DEF Doomed
      <4> QED
        BY <4>2, <4>3
    <3> QED
      BY <1>2, <3>1, <3>2 DEF Removing
  <2>4. Kept' = Kept
    BY <2>3 DEF Kept
  <2>5. \A b \in Kept : b # last /\ b \in Buffers
    <3>1. Doomed(last)
      BY <1>2, <2>1 DEF Doomed, Removing
    <3> QED
      BY <3>1 DEF Kept
  <2> QED
    BY <2>1, <2>2, <2>4, <2>5, StutterStep
<1> QED
  BY <1>1, <1>2

LEMMA CreatedMaps ==
  ASSUME IInv, NEW buf \in Buffers, NEW time \in Times, BufferCreated(buf, time)
  PROVE  PQ!BufferCreated(buf, time)
<1>1. /\ at = "idle" /\ ~InHeap(buf) /\ call' = <<"created", buf, time>>
      /\ priority' = [priority EXCEPT ![buf] = time] /\ at' = "up"
  BY DEF BufferCreated
<1>2. \A b : InHeap(b)' <=> InHeap(b) \/ b = buf
  BY CreatedStep
<1>3. Kept' = Kept \cup {buf} /\ buf \notin Kept
  BY <1>1, <1>2 DEF Kept, Doomed
<1>4. priority'[buf] = time /\ \A b \in Kept : b # buf => priority'[b] = priority[b]
  BY <1>1 DEF IInv, Types, Kept
<1>5. [b \in Kept |-> priority[b]]' = PQ!Put([b \in Kept |-> priority[b]], buf, time)
  BY <1>3, <1>4, PutPriority
<1> QED
  BY <1>1, <1>3, <1>5 DEF PQ!BufferCreated, Kept

LEMMA NewEventMaps ==
  ASSUME IInv, NEW buf \in Buffers, NEW time \in Times, NewEvent(buf, time)
  PROVE  PQ!NewEvent(buf, time)
<1>1. /\ at = "idle" /\ InHeap(buf) /\ call' = <<"event", buf, time>>
      /\ priority' = [priority EXCEPT ![buf] = time] /\ at' = "down"
  BY DEF NewEvent, Sink
<1>2. \A b : InHeap(b)' <=> InHeap(b)
  BY NewEventStep
<1>3. Kept' = Kept \cup {buf} /\ buf \in Kept
  BY <1>1, <1>2 DEF Kept, Doomed
<1>4. priority'[buf] = time /\ \A b \in Kept : b # buf => priority'[b] = priority[b]
  BY <1>1 DEF IInv, Types, Kept
<1>5. [b \in Kept |-> priority[b]]' = PQ!Put([b \in Kept |-> priority[b]], buf, time)
  BY <1>3, <1>4, PutPriority
<1> QED
  BY <1>1, <1>3, <1>5 DEF PQ!NewEvent, Kept

LEMMA DeletedMaps ==
  ASSUME IInv, NEW buf \in Buffers, DeletedBuffer(buf)
  PROVE  PQ!DeletedBuffer(buf)
<1>1. at = "idle" /\ InHeap(buf) /\ call' = <<"deleted", buf>>
  BY DEF DeletedBuffer
<1>2. /\ \A b \in Buffers : b # buf => priority'[b] = priority[b]
      /\ \/ at' = "idle" /\ \A b : InHeap(b)' <=> InHeap(b) /\ b # buf
         \/ at' = "down" /\ \A b : InHeap(b)' <=> InHeap(b)
  BY DeletedStep
<1>3. Kept' = Kept \ {buf} /\ buf \in Kept
  BY <1>1, <1>2 DEF Kept, Doomed
<1>4. \A b \in Kept' : priority'[b] = priority[b]
  BY <1>2, <1>3 DEF Kept
<1>5. [b \in Kept |-> priority[b]]' = PQ!Delete([b \in Kept |-> priority[b]], {buf})
  BY <1>3, <1>4, DeletePriorities
<1> QED
  BY <1>1, <1>3, <1>5 DEF PQ!DeletedBuffer, Kept

LEMMA PurgeStaleMaps ==
  ASSUME IInv, NEW threshold \in Times, PurgeStale(threshold)
  PROVE  PQ!PurgeStale(threshold)
<1> DEFINE f == [b \in Kept |-> priority[b]]
           S == {b \in DOMAIN f : f[b] <= threshold}
<1>1. at = "idle" /\ at' = "purge" /\ call' = <<"purge", threshold>> /\ priority' = priority
  BY DEF PurgeStale
<1>2. \A b : InHeap(b)' <=> InHeap(b)
  BY PurgeStaleStep
<1>3. S = {b \in Kept : priority[b] <= threshold}
  OBVIOUS
<1> HIDE DEF S
<1>4. Kept' = Kept \ S
  BY <1>1, <1>2, <1>3 DEF Kept, Doomed
<1>5. f' = PQ!Delete(f, S)
  BY <1>1, <1>4, DeletePriorities
<1> QED
  BY <1>1, <1>5 DEF PQ!PurgeStale, Kept, S

LEMMA LoopMaps ==
  ASSUME IInv, up \/ down \/ PopTop
  PROVE  UNCHANGED PQ!vars
<1>1. at # "idle" /\ at' # "idle" /\ call' = call /\ priority' = priority
  BY DEF up, down, PopTop, Sink
<1>2. \A b : InHeap(b)' <=> InHeap(b)
  BY UpStep, DownStep, PopTopStep
<1>3. Kept' = Kept
  BY <1>1, <1>2 DEF Kept, Doomed
<1> QED
  BY <1>1, <1>3, StutterStep

LEMMA PurgeEndsMaps ==
  ASSUME IInv, PurgeEnds
  PROVE  UNCHANGED PQ!vars
<1>1. at = "purge" /\ at' = "idle" /\ call' = call /\ priority' = priority /\ pq' = pq
  BY DEF PurgeEnds
<1>2. call[1] = "purge" /\ call[2] \in Int /\ \A b : InHeap(b) => priority[b] > call[2]
  BY <1>1, PurgeEndsStep DEF IInv, Places
<1>3. \A b \in Buffers : priority[b] \in Int
  BY DEF IInv, Types
<1>4. \A b \in Buffers : InHeap(b) => ~Doomed(b)
  BY <1>2, <1>3 DEF Doomed
<1>5. Kept' = Kept
  BY <1>1, <1>4 DEF Kept, Doomed, InHeap
<1> QED
  BY <1>1, <1>5, StutterStep

LEMMA StepMaps ==
  ASSUME IInv, [Next]_vars
  PROVE  [PQ!Next]_PQ!vars
<1>1. ASSUME NEW buf \in Buffers, NEW time \in Times, BufferCreated(buf, time)
      PROVE  PQ!Next
  BY <1>1, CreatedMaps DEF PQ!Next
<1>2. ASSUME NEW buf \in Buffers, NEW time \in Times, NewEvent(buf, time)
      PROVE  PQ!Next
  BY <1>2, NewEventMaps DEF PQ!Next
<1>3. ASSUME NEW buf \in Buffers, DeletedBuffer(buf) PROVE PQ!Next
  BY <1>3, DeletedMaps DEF PQ!Next
<1>4. ASSUME NEW threshold \in Times, PurgeStale(threshold) PROVE PQ!Next
  BY <1>4, PurgeStaleMaps DEF PQ!Next
<1>5. CASE up \/ down \/ PopTop
  BY <1>5, LoopMaps
<1>6. CASE UpEnds
  <2>1. at \in {"up", "down"} /\ Return
    BY <1>6 DEF UpEnds
  <2> QED
    BY <1>6, <2>1, UpEndsOrdered, ReturnMaps
<1>7. CASE DownEnds
  <2>1. ASSUME at = "down", at' = "up", UNCHANGED <<pq, index, priority, hole, i0, call>>
        PROVE  UNCHANGED PQ!vars
    <3>1. call' = call /\ priority' = priority /\ pq' = pq
      BY <2>1
    <3>2. Kept' = Kept
      BY <2>1, <3>1 DEF Kept, Doomed, InHeap
    <3> QED
      BY <3>1, <3>2, StutterStep
  <2>2. ASSUME at = "down", Return, \A i \in 1 .. n - 1 : Ordered(i)
        PROVE  UNCHANGED PQ!vars
    BY <2>2, ReturnMaps
  <2> QED
    BY <1>7, <2>1, <2>2, DownEndsOrdered
<1>8. CASE PurgeEnds
  BY <1>8, PurgeEndsMaps
<1>9. CASE UNCHANGED vars
  <2>1. Kept' = Kept /\ call' = call /\ priority' = priority
    BY <1>9 DEF vars, Kept, Doomed, InHeap
  <2> QED
    BY <2>1, StutterStep
<1> QED
  BY <1>1, <1>2, <1>3, <1>4, <1>5, <1>6, <1>7, <1>8, <1>9 DEF Next

(* The heap implements the queue that the manager's store is written for:  *)
(* every creation, event, deletion and purge takes out and keeps the same  *)
(* buffers, whatever container/heap has to move for it.                    *)
THEOREM HeapImplementsQueue == Spec => ImplementsPurgeQueue
<1>1. IInv /\ [Next]_vars => [PQ!Next]_PQ!vars
  BY StepMaps
<1> QED
  BY InitMaps, Always, <1>1, PTL DEF Spec, ImplementsPurgeQueue, PQ!Spec

=============================================================================

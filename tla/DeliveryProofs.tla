---------------------------- MODULE DeliveryProofs ----------------------------
(***************************************************************************)
(* What happens to an event on its way through the manager: in which order *)
(* events are buffered and answered, when an event leaves its buffer, and  *)
(* that a poll which waits has been given all there is.  For every buffer  *)
(* size, TTL, retrieval mode, number of clients, categories and events.    *)
(***************************************************************************)
EXTENDS SubscriptionManagerProofs

-----------------------------------------------------------------------------
(* The list of a category: what each handler does to the store is said of  *)
(* the lists, whether or not the category has a buffer.                    *)

ListOf(st, cat) == IF cat \in DOMAIN st.SubEventBuffer
                   THEN st.SubEventBuffer[cat].List ELSE <<>>

Holds(list, e) == \E i \in 1 .. Len(list) : list[i] = e

NoRepeats(list) == \A i, j \in 1 .. Len(list) : list[i] = list[j] => i = j

(* new is what is left of old when events are taken off its two ends.      *)
IsWindow(new, old) ==
  \E k \in Nat : \A i \in 1 .. Len(new) :
    k + i \in 1 .. Len(old) /\ new[i] = old[k + i]

(* new is what is left of old when the expired events at its back are      *)
(* taken off.                                                              *)
IsTrimmed(new, old) ==
  /\ Len(new) <= Len(old)
  /\ \A i \in 1 .. Len(new) : new[i] = old[i]
  /\ \A i \in Len(new) + 1 .. Len(old) : Expired(old[i])

(* new is old with event in front, and without its last if it was full.    *)
IsPushed(new, old, event) ==
  /\ Len(new) = IF Len(old) = MaxEventBufferSize THEN Len(old) ELSE Len(old) + 1
  /\ Len(new) >= 1
  /\ new[1] = event
  /\ \A i \in 2 .. Len(new) : i - 1 \in 1 .. Len(old) /\ new[i] = old[i - 1]

LEMMA ListOfType ==
  ASSUME NEW st, IsStore(st), NEW cat
  PROVE  ListOf(st, cat) \in Seq(Event) /\ Len(ListOf(st, cat)) \in Nat
BY BufferType, EmptySeq DEF ListOf

LEMMA ElementsAreEvents ==
  ASSUME NEW list \in Seq(Event), NEW i \in 1 .. Len(list)
  PROVE  /\ list[i] \in Event
         /\ list[i].Timestamp \in Nat
         /\ list[i].Category \in Categories
<1>1. list[i] \in Event
  BY ElementOfSeq
<1> QED
  BY <1>1 DEF Event

LEMMA WindowOfItself ==
  ASSUME NEW list \in Seq(Event)
  PROVE  IsWindow(list, list)
<1>1. Len(list) \in Nat
  BY LenProperties
<1>2. \A i \in 1 .. Len(list) : 0 + i \in 1 .. Len(list) /\ list[i] = list[0 + i]
  BY <1>1
<1> QED
  BY <1>2 DEF IsWindow

LEMMA WindowOfWindow ==
  ASSUME NEW a \in Seq(Event), NEW b \in Seq(Event), NEW c \in Seq(Event),
         IsWindow(a, b), IsWindow(b, c)
  PROVE  IsWindow(a, c)
<1>1. PICK k \in Nat : \A i \in 1 .. Len(a) : k + i \in 1 .. Len(b) /\ a[i] = b[k + i]
  BY DEF IsWindow
<1>2. PICK n \in Nat : \A i \in 1 .. Len(b) : n + i \in 1 .. Len(c) /\ b[i] = c[n + i]
  BY DEF IsWindow
<1> DEFINE m == n + k
<1>3. ASSUME NEW i \in 1 .. Len(a)
      PROVE  m + i \in 1 .. Len(c) /\ a[i] = c[m + i]
  <2>1. k + i \in 1 .. Len(b) /\ a[i] = b[k + i]
    BY <1>1
  <2>2. n + (k + i) \in 1 .. Len(c) /\ b[k + i] = c[n + (k + i)]
    BY <1>2, <2>1
  <2>3. n + (k + i) = m + i
    BY LenProperties
  <2> QED
    BY <2>1, <2>2, <2>3
<1>4. m \in Nat
  OBVIOUS
<1> HIDE DEF m
<1> QED
  BY <1>3, <1>4 DEF IsWindow

LEMMA TrimmedIsWindow ==
  ASSUME NEW new \in Seq(Event), NEW old \in Seq(Event), IsTrimmed(new, old)
  PROVE  IsWindow(new, old)
<1>1. Len(new) \in Nat /\ Len(old) \in Nat
  BY LenProperties
<1>2. \A i \in 1 .. Len(new) : 0 + i \in 1 .. Len(old) /\ new[i] = old[0 + i]
  BY <1>1 DEF IsTrimmed
<1> QED
  BY <1>2 DEF IsWindow

(* A window is in order, without repetitions, and holds no more, if what   *)
(* it is a window of is and does.                                          *)
LEMMA WindowProperties ==
  ASSUME NEW new \in Seq(Event), NEW old \in Seq(Event), IsWindow(new, old)
  PROVE  /\ TimeOrdered(old) => TimeOrdered(new)
         /\ NoRepeats(old) => NoRepeats(new)
         /\ \A e : Holds(new, e) => Holds(old, e)
<1>1. PICK k \in Nat : \A i \in 1 .. Len(new) : k + i \in 1 .. Len(old) /\ new[i] = old[k + i]
  BY DEF IsWindow
<1>2. Len(new) \in Nat /\ Len(old) \in Nat
  BY LenProperties
<1>3. TimeOrdered(old) => TimeOrdered(new)
  <2>1. SUFFICES ASSUME TimeOrdered(old), NEW i \in 1 .. Len(new),
                        NEW j \in 1 .. Len(new), i < j
                 PROVE  new[i].Timestamp >= new[j].Timestamp
    BY DEF TimeOrdered
  <2>2. k + i < k + j
    BY <1>2, <2>1
  <2> QED
    BY <1>1, <2>1, <2>2 DEF TimeOrdered
<1>4. NoRepeats(old) => NoRepeats(new)
  <2>1. SUFFICES ASSUME NoRepeats(old), NEW i \in 1 .. Len(new),
                        NEW j \in 1 .. Len(new), new[i] = new[j]
                 PROVE  i = j
    BY DEF NoRepeats
  <2>2. k + i = k + j
    BY <1>1, <2>1 DEF NoRepeats
  <2> QED
    BY <1>2, <2>2
<1>5. \A e : Holds(new, e) => Holds(old, e)
  BY <1>1 DEF Holds
<1> QED
  BY <1>3, <1>4, <1>5

(* A list with a new event in front.                                       *)
LEMMA PushedProperties ==
  ASSUME NEW new \in Seq(Event), NEW old \in Seq(Event), NEW event \in Event,
         IsPushed(new, old, event)
  PROVE  /\ TimeOrdered(old)
            /\ (\A i \in 1 .. Len(old) : old[i].Timestamp <= event.Timestamp)
              => TimeOrdered(new)
         /\ NoRepeats(old) /\ ~Holds(old, event) => NoRepeats(new)
         /\ \A e : Holds(new, e) => e = event \/ Holds(old, e)
         /\ \A e : Holds(old, e) =>
              \/ Holds(new, e)
              \/ Len(old) = MaxEventBufferSize /\ Len(old) >= 1 /\ e = Last(old)
<1> USE DEF IsPushed
<1>1. Len(new) \in Nat /\ Len(old) \in Nat
  BY LenProperties
<1>2. \A i \in 1 .. Len(new) : i = 1 \/ i \in 2 .. Len(new)
  BY <1>1
<1>3. ASSUME TimeOrdered(old),
             \A i \in 1 .. Len(old) : old[i].Timestamp <= event.Timestamp
      PROVE  TimeOrdered(new)
  <2>1. SUFFICES ASSUME NEW i \in 1 .. Len(new), NEW j \in 1 .. Len(new), i < j
                 PROVE  new[i].Timestamp >= new[j].Timestamp
    BY DEF TimeOrdered
  <2>2. j - 1 \in 1 .. Len(old) /\ new[j] = old[j - 1]
    BY <1>1, <2>1
  <2>3. CASE i = 1
    <3>1. old[j - 1].Timestamp <= event.Timestamp
      BY <1>3, <2>2
    <3>2. old[j - 1].Timestamp \in Nat /\ event.Timestamp \in Nat
      BY <2>2, ElementsAreEvents DEF Event
    <3> QED
      BY <2>2, <2>3, <3>1, <3>2
  <2>4. CASE i # 1
    <3>1. i - 1 \in 1 .. Len(old) /\ new[i] = old[i - 1] /\ i - 1 < j - 1
      BY <1>1, <1>2, <2>1, <2>4
    <3> QED
      BY <1>3, <2>2, <3>1 DEF TimeOrdered
  <2> QED
    BY <2>3, <2>4
<1>4. ASSUME NoRepeats(old), ~Holds(old, event)
      PROVE  NoRepeats(new)
  <2>1. SUFFICES ASSUME NEW i \in 1 .. Len(new), NEW j \in 1 .. Len(new),
                        new[i] = new[j]
                 PROVE  i = j
    BY DEF NoRepeats
  <2>2. \A n \in 1 .. Len(new) : n # 1 =>
          n - 1 \in 1 .. Len(old) /\ new[n] = old[n - 1] /\ new[n] # event
    BY <1>2, <1>4 DEF Holds
  <2>3. CASE i = 1 \/ j = 1
    BY <1>1, <2>1, <2>2, <2>3
  <2>4. CASE i # 1 /\ j # 1
    <3>1. i - 1 = j - 1
      BY <1>4, <2>1, <2>2, <2>4 DEF NoRepeats
    <3> QED
      BY <1>1, <3>1
  <2> QED
    BY <2>3, <2>4
<1>5. \A e : Holds(new, e) => e = event \/ Holds(old, e)
  BY <1>2 DEF Holds
<1>6. ASSUME NEW e, Holds(old, e)
      PROVE  \/ Holds(new, e)
             \/ Len(old) = MaxEventBufferSize /\ Len(old) >= 1 /\ e = Last(old)
  <2>1. PICK i \in 1 .. Len(old) : old[i] = e
    BY <1>6 DEF Holds
  <2>2. CASE i + 1 \in 1 .. Len(new)
    <3>1. i + 1 \in 2 .. Len(new) /\ (i + 1) - 1 = i
      BY <1>1, <2>2
    <3>2. new[i + 1] = old[i]
      BY <3>1
    <3> QED
      BY <2>1, <2>2, <3>2 DEF Holds
  <2>3. CASE i + 1 \notin 1 .. Len(new)
    <3>1. Len(old) = MaxEventBufferSize /\ i = Len(old) /\ Len(old) >= 1
      BY <1>1, <2>3
    <3> QED
      BY <2>1, <3>1 DEF Last
  <2> QED
    BY <2>2, <2>3
<1> QED
  BY <1>3, <1>4, <1>5, <1>6

-----------------------------------------------------------------------------
(* The parts of a handler, list by list.                                   *)

(* Heap priorities are only ever removed, unless an event is queued.       *)
HeapShrinks(new, old) ==
  \A c \in DOMAIN new.bufferPriorityQueue :
    /\ c \in DOMAIN old.bufferPriorityQueue
    /\ new.bufferPriorityQueue[c] = old.bufferPriorityQueue[c]

LEMMA CheckExpiredEventsTrims ==
  ASSUME now \in Nat, NEW st, GoodStore(st), NEW cat \in DOMAIN st.SubEventBuffer
  PROVE  LET new == CheckExpiredEvents(st, cat, now)
         IN  /\ HeapShrinks(new, st)
             /\ DOMAIN new.SubEventBuffer = DOMAIN st.SubEventBuffer
             /\ \A c : c # cat => ListOf(new, c) = ListOf(st, c)
             /\ IsTrimmed(ListOf(new, cat), ListOf(st, cat))
             /\ ListOf(new, cat) # <<>> =>
                  ~Expired(ListOf(new, cat)[Len(ListOf(new, cat))])
<1> DEFINE t   == Expiration(now)
           eb  == st.SubEventBuffer[cat]
           d   == DeleteEventsOlderThan(eb, t)
           map == [st.SubEventBuffer EXCEPT ![cat] = d]
           new == CheckExpiredEvents(st, cat, now)
<1>1. /\ IsStore(st)
      /\ WellFormedBuffer(eb, cat)
      /\ ListOf(st, cat) = eb.List
  BY DEF GoodStore, StoreOK, ListOf
<1>2. eb \in eventBuffer /\ eb.List \in Seq(Event) /\ Len(eb.List) \in Nat
  BY <1>1, BufferType
<1>3. CASE NoTTL
  <2>1. new = st
    BY <1>3 DEF CheckExpiredEvents
  <2>2. IsTrimmed(eb.List, eb.List)
    BY <1>2 DEF IsTrimmed
  <2> HIDE DEF new
  <2> QED
    BY <1>1, <1>3, <2>1, <2>2 DEF HeapShrinks, Expired, new
<1>4. CASE ~NoTTL
  <2>1. t \in Int
    BY ThresholdIsInt
  <2>2. /\ d \in eventBuffer
        /\ Len(d.List) <= Len(eb.List)
        /\ \A i \in 1 .. Len(d.List) : d.List[i] = eb.List[i]
        /\ d.List # <<>> => /\ d.oldestEventTime = Last(d.List).Timestamp
                            /\ d.oldestEventTime > t
        /\ \A i \in Len(d.List) + 1 .. Len(eb.List) :
             eb.List[i].Timestamp <= t
    BY <1>1, <1>2, <2>1, DeleteEventsOlderThanProperties DEF WellFormedBuffer
  <2>3. new = [SubEventBuffer |-> map,
               bufferPriorityQueue |-> st.bufferPriorityQueue]
    <3>1. new = [st EXCEPT !.SubEventBuffer = map]
      BY <1>4, Zenon DEF CheckExpiredEvents
    <3> HIDE DEF map, new
    <3> QED
      BY <1>1, <3>1 DEF IsStore
  <2> HIDE DEF d, t
  <2>4. /\ DOMAIN map = DOMAIN st.SubEventBuffer
        /\ map[cat] = d
        /\ \A c \in DOMAIN map \ {cat} : map[c] = st.SubEventBuffer[c]
    BY <1>1, StoreMaps DEF IsMap
  <2> HIDE DEF map, new
  <2>5. /\ ListOf(new, cat) = d.List
        /\ DOMAIN new.SubEventBuffer = DOMAIN st.SubEventBuffer
        /\ \A c : c # cat => ListOf(new, c) = ListOf(st, c)
    BY <2>3, <2>4 DEF ListOf
  <2>6. IsTrimmed(d.List, eb.List)
    BY <1>4, <2>2 DEF IsTrimmed, Expired, t
  <2>7. d.List # <<>> => ~Expired(d.List[Len(d.List)])
    <3>1. ASSUME d.List # <<>> PROVE ~(d.List[Len(d.List)].Timestamp <= t)
      <4>1. d.oldestEventTime > t /\ d.oldestEventTime \in Int
        BY <2>2, <3>1 DEF eventBuffer
      <4>2. d.oldestEventTime = d.List[Len(d.List)].Timestamp
        BY <2>2, <3>1 DEF Last
      <4> QED
        BY <2>1, <4>1, <4>2
    <3> QED
      BY <3>1 DEF Expired, t
  <2>8. HeapShrinks(new, st)
    BY <2>3 DEF HeapShrinks
  <2> QED
    BY <1>1, <2>5, <2>6, <2>7, <2>8 DEF new
<1> QED
  BY <1>3, <1>4

LEMMA DeleteBufferIfEmptyKeepsLists ==
  ASSUME NEW st, NEW cat, InHandler(st, cat)
  PROVE  LET new == DeleteBufferIfEmpty(st, cat)
         IN  /\ HeapShrinks(new, st)
             /\ \A c : ListOf(new, c) = ListOf(st, c)
<1> DEFINE new == DeleteBufferIfEmpty(st, cat)
           map == Delete(st.SubEventBuffer, {cat})
           pq  == IF NoTTL THEN st.bufferPriorityQueue
                  ELSE Delete(st.bufferPriorityQueue, {cat})
<1>1. CASE st.SubEventBuffer[cat].List # <<>>
  BY <1>1 DEF DeleteBufferIfEmpty, HeapShrinks
<1>2. CASE st.SubEventBuffer[cat].List = <<>>
  <2>1. new = [SubEventBuffer |-> map, bufferPriorityQueue |-> pq]
    BY <1>2 DEF DeleteBufferIfEmpty
  <2>2. /\ DOMAIN map = DOMAIN st.SubEventBuffer \ {cat}
        /\ \A c \in DOMAIN map : map[c] = st.SubEventBuffer[c]
    BY DEF Delete, Restrict
  <2>3. \A c \in DOMAIN pq : /\ c \in DOMAIN st.bufferPriorityQueue
                             /\ pq[c] = st.bufferPriorityQueue[c]
    BY DEF Delete, Restrict
  <2> HIDE DEF map, pq, new
  <2>4. HeapShrinks(new, st)
    BY <2>1, <2>3 DEF HeapShrinks
  <2>5. \A c : ListOf(new, c) = ListOf(st, c)
    BY <1>2, <2>1, <2>2 DEF ListOf
  <2> QED
    BY <2>4, <2>5 DEF new
<1> QED
  BY <1>1, <1>2

(* The purge empties whole lists, those whose priority is expired.         *)
IsPurged(new, old) ==
  /\ HeapShrinks(new, old)
  /\ \A c : \/ ListOf(new, c) = ListOf(old, c)
            \/ /\ ListOf(new, c) = <<>>
               /\ ~NoTTL
               /\ c \in DOMAIN old.bufferPriorityQueue
               /\ old.bufferPriorityQueue[c] <= Expiration(now)

LEMMA PurgeStaleCategoriesEmpties ==
  ASSUME NEW st, GoodStore(st)
  PROVE  LET new == PurgeStaleCategories(st, now)
         IN  /\ IsPurged(new, st)
             /\ ~NoTTL => \A c \in DOMAIN new.bufferPriorityQueue :
                            ~(new.bufferPriorityQueue[c] <= Expiration(now))
<1> DEFINE stale == {c \in DOMAIN st.bufferPriorityQueue :
                       st.bufferPriorityQueue[c] <= Expiration(now)}
           new == PurgeStaleCategories(st, now)
           map == Delete(st.SubEventBuffer, stale)
           pq  == Delete(st.bufferPriorityQueue, stale)
<1>1. CASE NoTTL
  BY <1>1 DEF PurgeStaleCategories, HeapShrinks, IsPurged
<1>2. CASE ~NoTTL
  <2>1. new = [SubEventBuffer |-> map, bufferPriorityQueue |-> pq]
    BY <1>2 DEF PurgeStaleCategories
  <2>2. /\ DOMAIN map = DOMAIN st.SubEventBuffer \ stale
        /\ \A c \in DOMAIN map : map[c] = st.SubEventBuffer[c]
    BY DEF Delete, Restrict
  <2>3. /\ DOMAIN pq = DOMAIN st.bufferPriorityQueue \ stale
        /\ \A c \in DOMAIN pq : pq[c] = st.bufferPriorityQueue[c]
    BY DEF Delete, Restrict
  <2> HIDE DEF map, pq, new
  <2>4. HeapShrinks(new, st)
    BY <2>1, <2>3 DEF HeapShrinks
  <2>5. \A c \in DOMAIN new.bufferPriorityQueue :
          ~(new.bufferPriorityQueue[c] <= Expiration(now))
    BY <2>1, <2>3
  <2>6. ASSUME NEW c PROVE ListOf(new, c) = ListOf(st, c)
                           \/ (c \in stale /\ ListOf(new, c) = <<>>)
    <3> HIDE DEF stale
    <3> QED
      BY <2>1, <2>2 DEF ListOf
  <2> QED
    BY <1>2, <2>4, <2>5, <2>6 DEF new, IsPurged
<1> QED
  BY <1>1, <1>2

LEMMA QueueInBufferPushes ==
  ASSUME NEW st, NEW event \in Event, InHandler(st, event.Category)
  PROVE  LET new == QueueInBuffer(st, event)
             cat == event.Category
         IN  /\ IsPushed(ListOf(new, cat), ListOf(st, cat), event)
             /\ DOMAIN new.SubEventBuffer = DOMAIN st.SubEventBuffer
             /\ \A c : c # cat => ListOf(new, c) = ListOf(st, c)
             /\ \A c \in DOMAIN new.bufferPriorityQueue :
                  /\ c \in DOMAIN st.bufferPriorityQueue
                  /\ new.bufferPriorityQueue[c] =
                       IF c = cat THEN event.Timestamp
                                  ELSE st.bufferPriorityQueue[c]
<1> DEFINE cat == event.Category
           eb  == st.SubEventBuffer[cat]
           q   == QueueEvent(eb, event)
           new == QueueInBuffer(st, event)
           map == [st.SubEventBuffer EXCEPT ![cat] = q]
           pq  == IF NoTTL THEN st.bufferPriorityQueue
                  ELSE [st.bufferPriorityQueue EXCEPT ![cat] = event.Timestamp]
<1>1. /\ IsStore(st) /\ HeapIndexesBuffers(st)
      /\ cat \in DOMAIN st.SubEventBuffer
      /\ ListOf(st, cat) = eb.List
  BY DEF InHandler, ListOf
<1>2. eb \in eventBuffer /\ eb.List \in Seq(Event) /\ Len(eb.List) \in Nat
  BY <1>1, BufferType
<1>3. Len(eb.List) <= MaxEventBufferSize
  <2>1. CASE eb.List = <<>>
    BY <1>2, <2>1, EmptySeq, EventBufferAssumption
  <2>2. CASE WellFormedBuffer(eb, cat)
    BY <2>2 DEF WellFormedBuffer
  <2> QED
    BY <1>1, <2>1, <2>2 DEF InHandler, BufferOK
<1>4. IsPushed(q.List, eb.List, event)
  <2>1. /\ Len(q.List) \in 1 .. MaxEventBufferSize
        /\ Len(q.List) = IF Len(eb.List) = MaxEventBufferSize
                         THEN Len(eb.List) ELSE Len(eb.List) + 1
        /\ q.List[1] = event
        /\ \A i \in 2 .. Len(q.List) :
             i - 1 \in 1 .. Len(eb.List) /\ q.List[i] = eb.List[i - 1]
    BY <1>2, <1>3, QueueEventProperties
  <2> HIDE DEF q
  <2>2. Len(q.List) >= 1
    BY <2>1, EventBufferAssumption
  <2> QED
    BY <2>1, <2>2 DEF IsPushed
<1>5. new = [SubEventBuffer |-> map, bufferPriorityQueue |-> pq]
  BY DEF QueueInBuffer
<1> HIDE DEF q
<1>6. /\ DOMAIN map = DOMAIN st.SubEventBuffer
      /\ map[cat] = q
      /\ \A c \in DOMAIN map \ {cat} : map[c] = st.SubEventBuffer[c]
  BY <1>1, StoreMaps DEF IsMap
<1>7. \A c \in DOMAIN pq :
        /\ c \in DOMAIN st.bufferPriorityQueue
        /\ pq[c] = IF c = cat THEN event.Timestamp ELSE st.bufferPriorityQueue[c]
  BY <1>1, StoreMaps DEF IsMap, HeapIndexesBuffers
<1> HIDE DEF map, pq, new
<1>8. /\ ListOf(new, cat) = q.List
      /\ DOMAIN new.SubEventBuffer = DOMAIN st.SubEventBuffer
      /\ \A c : c # cat => ListOf(new, c) = ListOf(st, c)
  BY <1>1, <1>5, <1>6 DEF ListOf
<1> QED
  BY <1>1, <1>4, <1>5, <1>7, <1>8 DEF new

LEMMA CreateBufferKeepsLists ==
  ASSUME NEW st, NEW cat \in Categories \ DOMAIN st.SubEventBuffer
  PROVE  LET new == CreateBuffer(st, cat, now)
         IN  /\ \A c : ListOf(new, c) = ListOf(st, c)
             /\ \A c \in DOMAIN new.bufferPriorityQueue : c # cat =>
                  /\ c \in DOMAIN st.bufferPriorityQueue
                  /\ new.bufferPriorityQueue[c] = st.bufferPriorityQueue[c]
<1> DEFINE eb  == [List |-> <<>>, oldestEventTime |-> now]
           new == CreateBuffer(st, cat, now)
           map == Put(st.SubEventBuffer, cat, eb)
           pq  == IF NoTTL THEN st.bufferPriorityQueue
                  ELSE Put(st.bufferPriorityQueue, cat, now)
<1>1. new = [SubEventBuffer |-> map, bufferPriorityQueue |-> pq]
  BY DEF CreateBuffer
<1>2. /\ DOMAIN map = DOMAIN st.SubEventBuffer \cup {cat}
      /\ map[cat].List = <<>>
      /\ \A c \in DOMAIN st.SubEventBuffer : map[c] = st.SubEventBuffer[c]
  BY DEF Put
<1>3. \A c \in DOMAIN pq : c # cat => /\ c \in DOMAIN st.bufferPriorityQueue
                                      /\ pq[c] = st.bufferPriorityQueue[c]
  BY DEF Put
<1> HIDE DEF map, pq, new
<1>4. \A c : ListOf(new, c) = ListOf(st, c)
  BY <1>1, <1>2 DEF ListOf
<1> QED
  BY <1>1, <1>3, <1>4 DEF new

-----------------------------------------------------------------------------
(* Whole handlers.                                                         *)

(* handleNewEvent: the event is in front of its category's list if it is   *)
(* to be buffered, and then what has expired is taken off the back.        *)
Receives(new, old, event, buffer) ==
  LET cat == event.Category
  IN  /\ \A c : c # cat => ListOf(new, c) = ListOf(old, c)
      /\ \E mid \in Seq(Event) :
           /\ IF buffer THEN IsPushed(mid, ListOf(old, cat), event)
                        ELSE mid = ListOf(old, cat)
           /\ IsTrimmed(ListOf(new, cat), mid)
      /\ \A c \in DOMAIN new.bufferPriorityQueue :
           \/ /\ c = cat /\ buffer
              /\ new.bufferPriorityQueue[c] = event.Timestamp
           \/ /\ ~(c = cat /\ buffer)
              /\ c \in DOMAIN old.bufferPriorityQueue
              /\ new.bufferPriorityQueue[c] = old.bufferPriorityQueue[c]

LEMMA StoreNewEventReceives ==
  ASSUME now \in Nat, NEW st, GoodStore(st), NEW event \in Event,
         NEW buffer \in BOOLEAN
  PROVE  Receives(StoreNewEvent(st, event, buffer, now), st, event, buffer)
<1> DEFINE cat      == event.Category
           found    == cat \in DOMAIN st.SubEventBuffer
           room     == IF found THEN st ELSE CreateBuffer(st, cat, now)
           buffered == IF ~buffer THEN st ELSE QueueInBuffer(room, event)
           checked  == CheckExpiredEvents(buffered, cat, now)
           new      == StoreNewEvent(st, event, buffer, now)
<1>1. cat \in Categories /\ IsStore(st)
  BY DEF Event, GoodStore
<1>2. /\ InHandler(room, cat)
      /\ \A c : ListOf(room, c) = ListOf(st, c)
      /\ \A c \in DOMAIN room.bufferPriorityQueue : c # cat =>
           /\ c \in DOMAIN st.bufferPriorityQueue
           /\ room.bufferPriorityQueue[c] = st.bufferPriorityQueue[c]
  <2>1. CASE found
    BY <2>1, GoodStoreByBuffers DEF InHandler
  <2>2. CASE ~found
    BY <1>1, <2>2, CreateBufferKeeps, CreateBufferKeepsLists
  <2> QED
    BY <2>1, <2>2
<1> HIDE DEF room
<1>3. /\ GoodStore(buffered)
      /\ \A c : c # cat => ListOf(buffered, c) = ListOf(st, c)
      /\ IF buffer THEN IsPushed(ListOf(buffered, cat), ListOf(st, cat), event)
                   ELSE ListOf(buffered, cat) = ListOf(st, cat)
      /\ \A c \in DOMAIN buffered.bufferPriorityQueue :
           \/ c = cat /\ buffer
              /\ buffered.bufferPriorityQueue[c] = event.Timestamp
           \/ ~(c = cat /\ buffer)
              /\ c \in DOMAIN st.bufferPriorityQueue
              /\ buffered.bufferPriorityQueue[c] = st.bufferPriorityQueue[c]
  <2>1. CASE buffer
    <3> DEFINE queued == QueueInBuffer(room, event)
    <3>1. GoodStore(queued)
      BY <1>2, QueueInBufferRestores
    <3>2. /\ IsPushed(ListOf(queued, cat), ListOf(room, cat), event)
          /\ \A c : c # cat => ListOf(queued, c) = ListOf(room, c)
          /\ \A c \in DOMAIN queued.bufferPriorityQueue :
               /\ c \in DOMAIN room.bufferPriorityQueue
               /\ queued.bufferPriorityQueue[c] =
                    IF c = cat THEN event.Timestamp
                               ELSE room.bufferPriorityQueue[c]
      BY <1>2, QueueInBufferPushes
    <3> HIDE DEF queued
    <3>3. buffered = queued
      BY <2>1 DEF queued
    <3> HIDE DEF buffered
    <3> QED
      BY <1>2, <2>1, <3>1, <3>2, <3>3
  <2>2. CASE ~buffer
    BY <2>2
  <2> QED
    BY <2>1, <2>2
<1>4. found => cat \in DOMAIN buffered.SubEventBuffer
  BY DEF QueueInBuffer, room
<1>5. new = IF found THEN DeleteBufferIfEmpty(checked, cat) ELSE buffered
  BY DEF StoreNewEvent, room
<1>6. ListOf(buffered, cat) \in Seq(Event)
  BY <1>3, ListOfType DEF GoodStore
<1> HIDE DEF buffered
<1>7. /\ \A c : c # cat => ListOf(new, c) = ListOf(buffered, c)
      /\ IsTrimmed(ListOf(new, cat), ListOf(buffered, cat))
      /\ HeapShrinks(new, buffered)
  <2>1. CASE found
    <3>1. InHandler(checked, cat)
      BY <1>3, <1>4, <2>1, CheckExpiredEventsKeeps
    <3>2. /\ HeapShrinks(checked, buffered)
          /\ \A c : c # cat => ListOf(checked, c) = ListOf(buffered, c)
          /\ IsTrimmed(ListOf(checked, cat), ListOf(buffered, cat))
      BY <1>3, <1>4, <2>1, CheckExpiredEventsTrims
    <3> HIDE DEF checked, new
    <3>3. new = DeleteBufferIfEmpty(checked, cat)
      BY <1>5, <2>1
    <3>4. /\ HeapShrinks(new, checked)
          /\ \A c : ListOf(new, c) = ListOf(checked, c)
      BY <3>1, <3>3, DeleteBufferIfEmptyKeepsLists
    <3> QED
      BY <3>2, <3>4 DEF HeapShrinks
  <2>2. CASE ~found
    <3>1. new = buffered
      BY <1>5, <2>2
    <3>2. Len(ListOf(buffered, cat)) \in Nat
      BY <1>6, LenProperties
    <3> HIDE DEF new
    <3> QED
      BY <3>1, <3>2 DEF HeapShrinks, IsTrimmed
  <2> QED
    BY <2>1, <2>2
<1> HIDE DEF new
<1>8. \A c : c # cat => ListOf(new, c) = ListOf(st, c)
  BY <1>3, <1>7
<1>9. \E mid \in Seq(Event) :
        /\ IF buffer THEN IsPushed(mid, ListOf(st, cat), event)
                     ELSE mid = ListOf(st, cat)
        /\ IsTrimmed(ListOf(new, cat), mid)
  BY <1>3, <1>6, <1>7
<1>10. \A c \in DOMAIN new.bufferPriorityQueue :
         \/ c = cat /\ buffer
            /\ new.bufferPriorityQueue[c] = event.Timestamp
         \/ ~(c = cat /\ buffer)
            /\ c \in DOMAIN st.bufferPriorityQueue
            /\ new.bufferPriorityQueue[c] = st.bufferPriorityQueue[c]
  BY <1>3, <1>7 DEF HeapShrinks
<1> QED
  BY <1>8, <1>9, <1>10 DEF new, Receives

(* How a poll is answered from a list: with the events in front that are   *)
(* past its cursor, oldest first; and what is left of the list.            *)
IsServed(left, answer, list, sub) ==
  /\ Len(answer) \in 0 .. Len(list)
  /\ \A i \in 1 .. Len(answer) :
       /\ answer[i] = list[Len(answer) - i + 1]
       /\ IsAfter(list[i], sub.LastEventTime, sub.LastEventID)
  /\ Len(answer) < Len(list) =>
       ~IsAfter(list[Len(answer) + 1], sub.LastEventTime, sub.LastEventID)
  /\ IF DeleteEventAfterFirstRetrieval
     THEN /\ Len(left) = Len(list) - Len(answer)
          /\ \A i \in 1 .. Len(left) : left[i] = list[Len(answer) + i]
     ELSE left = list

(* handleNewClient looks at what has not expired of the list.              *)
Serves(new, old, answer, sub) ==
  LET cat == sub.SubscriptionCategory
  IN  /\ HeapShrinks(new, old)
      /\ \A c : c # cat => ListOf(new, c) = ListOf(old, c)
      /\ \E mid \in Seq(Event) :
           /\ IsTrimmed(mid, ListOf(old, cat))
           /\ mid # <<>> => ~Expired(mid[Len(mid)])
           /\ IsServed(ListOf(new, cat), answer, mid, sub)

LEMMA StoreAfterAnswerServes ==
  ASSUME now \in Nat, NEW st, GoodStore(st), NEW sub
  PROVE  Serves(StoreAfterAnswer(st, sub, now), st, Answer(st, sub, now), sub)
<1> DEFINE cat     == sub.SubscriptionCategory
           since   == sub.LastEventTime
           id      == sub.LastEventID
           checked == CheckExpiredEvents(st, cat, now)
           eb      == checked.SubEventBuffer[cat]
           w       == WithoutFetched(eb, since, id)
           map     == [checked.SubEventBuffer EXCEPT ![cat] = w]
           fetched == IF ~DeleteEventAfterFirstRetrieval THEN checked
                      ELSE [checked EXCEPT !.SubEventBuffer[cat] = w]
           new     == StoreAfterAnswer(st, sub, now)
           answer  == Answer(st, sub, now)
<1>1. CASE cat \notin DOMAIN st.SubEventBuffer
  <2>1. new = st /\ answer = <<>> /\ ListOf(st, cat) = <<>>
    BY <1>1 DEF StoreAfterAnswer, Answer, ListOf
  <2> HIDE DEF new, answer
  <2>2. <<>> \in Seq(Event) /\ Len(<<>>) = 0
    BY EmptySeq
  <2>3. IsTrimmed(<<>>, ListOf(st, cat)) /\ IsServed(ListOf(new, cat), answer, <<>>, sub)
    BY <2>1, <2>2 DEF IsTrimmed, IsServed
  <2>4. HeapShrinks(new, st)
    BY <2>1 DEF HeapShrinks
  <2>5. \E mid \in Seq(Event) :
          /\ IsTrimmed(mid, ListOf(st, cat))
          /\ mid # <<>> => ~Expired(mid[Len(mid)])
          /\ IsServed(ListOf(new, cat), answer, mid, sub)
    BY <2>2, <2>3
  <2> QED
    BY <2>1, <2>4, <2>5 DEF new, answer, Serves
<1>2. CASE cat \in DOMAIN st.SubEventBuffer
  <2>1. /\ new = DeleteBufferIfEmpty(fetched, cat)
        /\ answer = GetEventsSince(eb, since, id)
    BY <1>2 DEF StoreAfterAnswer, Answer
  <2>2. InHandler(checked, cat)
    BY <1>2, CheckExpiredEventsKeeps
  <2>3. /\ HeapShrinks(checked, st)
        /\ \A c : c # cat => ListOf(checked, c) = ListOf(st, c)
        /\ IsTrimmed(ListOf(checked, cat), ListOf(st, cat))
        /\ ListOf(checked, cat) # <<>> =>
             ~Expired(ListOf(checked, cat)[Len(ListOf(checked, cat))])
    BY <1>2, CheckExpiredEventsTrims
  <2> HIDE DEF checked
  <2>4. /\ IsStore(checked) /\ HeapIndexesBuffers(checked)
        /\ cat \in DOMAIN checked.SubEventBuffer
        /\ ListOf(checked, cat) = eb.List
    BY <2>2 DEF InHandler, ListOf
  <2>5. eb \in eventBuffer /\ eb.List \in Seq(Event) /\ Len(eb.List) \in Nat
    BY <2>4, BufferType
  <2> DEFINE k == AfterLen(eb.List, since, id)
  <2>6. /\ k \in 0 .. Len(eb.List)
        /\ \A i \in 1 .. k : IsAfter(eb.List[i], since, id)
        /\ k < Len(eb.List) => ~IsAfter(eb.List[k + 1], since, id)
    BY <2>5, AfterLenProperties
  <2>7. /\ answer \in Seq(Event) /\ Len(answer) = k
        /\ \A i \in 1 .. k : answer[i] = eb.List[k - i + 1]
    BY <2>1, <2>5, GetEventsSinceProperties
  <2>8. /\ w.List \in Seq(Event)
        /\ Len(w.List) = Len(eb.List) - k
        /\ \A i \in 1 .. Len(w.List) : w.List[i] = eb.List[k + i]
    BY <2>5, WithoutFetchedProperties DEF eventBuffer
  <2>9. /\ HeapShrinks(new, fetched)
        /\ \A c : ListOf(new, c) = ListOf(fetched, c)
    <3>1. InHandler(fetched, cat)
      BY <1>2, FetchedInHandler DEF checked
    <3> HIDE DEF fetched, new
    <3> QED
      BY <2>1, <3>1, DeleteBufferIfEmptyKeepsLists
  <2>10. /\ HeapShrinks(fetched, checked)
         /\ \A c : c # cat => ListOf(fetched, c) = ListOf(checked, c)
         /\ ListOf(fetched, cat) = IF DeleteEventAfterFirstRetrieval THEN w.List
                                                                     ELSE eb.List
    <3>1. CASE ~DeleteEventAfterFirstRetrieval
      BY <2>4, <3>1 DEF HeapShrinks
    <3>2. CASE DeleteEventAfterFirstRetrieval
      <4>1. fetched = [SubEventBuffer |-> map,
                       bufferPriorityQueue |-> checked.bufferPriorityQueue]
        BY <2>4, <3>2 DEF IsStore
      <4> HIDE DEF w
      <4>2. /\ DOMAIN map = DOMAIN checked.SubEventBuffer
            /\ map[cat] = w
            /\ \A c \in DOMAIN map \ {cat} : map[c] = checked.SubEventBuffer[c]
        BY <2>4, StoreMaps DEF IsMap
      <4> HIDE DEF map, fetched
      <4>3. HeapShrinks(fetched, checked)
        BY <4>1 DEF HeapShrinks
      <4>4. /\ \A c : c # cat => ListOf(fetched, c) = ListOf(checked, c)
            /\ ListOf(fetched, cat) = w.List
        BY <2>4, <4>1, <4>2 DEF ListOf
      <4> QED
        BY <3>2, <4>3, <4>4
    <3> QED
      BY <3>1, <3>2
  <2> HIDE DEF fetched, new, answer, w, k, eb
  <2>11. IsServed(ListOf(new, cat), answer, eb.List, sub)
    <3>1. ListOf(new, cat) = IF DeleteEventAfterFirstRetrieval THEN w.List ELSE eb.List
      BY <2>9, <2>10
    <3>2. \A i \in 1 .. Len(answer) : /\ answer[i] = eb.List[Len(answer) - i + 1]
                                     /\ IsAfter(eb.List[i], since, id)
      BY <2>6, <2>7
    <3>3. DeleteEventAfterFirstRetrieval =>
            /\ Len(w.List) = Len(eb.List) - Len(answer)
            /\ \A i \in 1 .. Len(w.List) : w.List[i] = eb.List[Len(answer) + i]
      BY <2>7, <2>8
    <3>4. /\ Len(answer) \in 0 .. Len(eb.List)
          /\ Len(answer) < Len(eb.List) =>
               ~IsAfter(eb.List[Len(answer) + 1], since, id)
      BY <2>6, <2>7
    <3>5. IF DeleteEventAfterFirstRetrieval
          THEN /\ Len(ListOf(new, cat)) = Len(eb.List) - Len(answer)
               /\ \A i \in 1 .. Len(ListOf(new, cat)) :
                    ListOf(new, cat)[i] = eb.List[Len(answer) + i]
          ELSE ListOf(new, cat) = eb.List
      <4>1. CASE DeleteEventAfterFirstRetrieval
        <5>1. ListOf(new, cat) = w.List
          BY <3>1, <4>1
        <5> QED
          BY <3>3, <4>1, <5>1
      <4>2. CASE ~DeleteEventAfterFirstRetrieval
        BY <3>1, <4>2
      <4> QED
        BY <4>1, <4>2
    <3> QED
      BY <3>2, <3>4, <3>5, Zenon DEF IsServed
  <2>12. HeapShrinks(new, st)
    BY <2>3, <2>9, <2>10 DEF HeapShrinks
  <2>13. \A c : c # cat => ListOf(new, c) = ListOf(st, c)
    BY <2>3, <2>9, <2>10
  <2> QED
    BY <2>3, <2>4, <2>5, <2>11, <2>12, <2>13 DEF new, answer, Serves
<1> QED
  BY <1>1, <1>2

-----------------------------------------------------------------------------
(* What the handlers do to the order of a store, and what they lose.       *)

NoneAfter(list, t) == \A i \in 1 .. Len(list) : list[i].Timestamp <= t

InTimeOrder(st) ==
  /\ \A c \in Categories : TimeOrdered(ListOf(st, c))
  /\ \A c \in DOMAIN st.bufferPriorityQueue :
       NoneAfter(ListOf(st, c), st.bufferPriorityQueue[c])

Shrinks(new, old) ==
  /\ HeapShrinks(new, old)
  /\ \A c : IsWindow(ListOf(new, c), ListOf(old, c))

LEMMA WindowNoneAfter ==
  ASSUME NEW new, NEW old, IsWindow(new, old), NEW t, NoneAfter(old, t)
  PROVE  NoneAfter(new, t)
BY DEF IsWindow, NoneAfter

LEMMA PurgedShrinks ==
  ASSUME NEW new, NEW old, IsStore(old), IsPurged(new, old)
  PROVE  Shrinks(new, old)
<1>1. SUFFICES ASSUME NEW c PROVE IsWindow(ListOf(new, c), ListOf(old, c))
  BY DEF Shrinks, IsPurged
<1>2. CASE ListOf(new, c) = ListOf(old, c)
  BY <1>2, ListOfType, WindowOfItself
<1>3. CASE ListOf(new, c) = <<>>
  <2>1. Len(ListOf(new, c)) = 0
    BY <1>3, EmptySeq
  <2> QED
    BY <2>1 DEF IsWindow
<1> QED
  BY <1>2, <1>3 DEF IsPurged

LEMMA ShrinksTwice ==
  ASSUME NEW a, NEW b, NEW c, IsStore(a), IsStore(b), IsStore(c),
         Shrinks(a, b), Shrinks(b, c)
  PROVE  Shrinks(a, c)
<1>1. \A cat : IsWindow(ListOf(a, cat), ListOf(c, cat))
  BY ListOfType, WindowOfWindow DEF Shrinks
<1> QED
  BY <1>1 DEF Shrinks, HeapShrinks

(* What is answered to a poll and what is left of the list.                *)
LEMMA ServedProperties ==
  ASSUME NEW left \in Seq(Event), NEW answer \in Seq(Event), NEW list \in Seq(Event),
         NEW sub, sub.LastEventTime \in Nat, IsServed(left, answer, list, sub)
  PROVE  /\ IsWindow(left, list)
         /\ \A e : Holds(answer, e) => Holds(list, e)
         /\ \A e : Holds(list, e) =>
              Holds(left, e) \/ (DeleteEventAfterFirstRetrieval /\ Holds(answer, e))
         /\ DeleteEventAfterFirstRetrieval /\ NoRepeats(list) =>
              \A e : ~(Holds(left, e) /\ Holds(answer, e))
         /\ TimeOrdered(list) =>
              \A i, j \in 1 .. Len(answer) :
                i < j => answer[i].Timestamp <= answer[j].Timestamp
         /\ \A i \in 1 .. Len(answer) : answer[i].Timestamp >= sub.LastEventTime
         /\ TimeOrdered(list) /\ answer = <<>> => NoneAfter(list, sub.LastEventTime)
<1> DEFINE n == Len(answer)
<1>1. Len(left) \in Nat /\ n \in Nat /\ Len(list) \in Nat /\ n <= Len(list)
  BY LenProperties DEF IsServed
<1>2. \A i \in 1 .. n : /\ n - i + 1 \in 1 .. n
                        /\ n - i + 1 \in 1 .. Len(list)
                        /\ answer[i] = list[n - i + 1]
                        /\ IsAfter(list[i], sub.LastEventTime, sub.LastEventID)
  BY <1>1 DEF IsServed
<1>3. DeleteEventAfterFirstRetrieval =>
        /\ Len(left) = Len(list) - n
        /\ \A i \in 1 .. Len(left) : n + i \in 1 .. Len(list) /\ left[i] = list[n + i]
  BY <1>1 DEF IsServed
<1>4. ~DeleteEventAfterFirstRetrieval => left = list
  BY DEF IsServed
<1>5. n < Len(list) => ~IsAfter(list[n + 1], sub.LastEventTime, sub.LastEventID)
  BY DEF IsServed
<1> HIDE DEF n
<1>6. IsWindow(left, list)
  <2>1. CASE DeleteEventAfterFirstRetrieval
    BY <1>1, <1>3, <2>1 DEF IsWindow
  <2>2. CASE ~DeleteEventAfterFirstRetrieval
    BY <1>4, <2>2, WindowOfItself
  <2> QED
    BY <2>1, <2>2
<1>7. \A e : Holds(answer, e) => Holds(list, e)
  BY <1>2 DEF Holds, n
<1>8. ASSUME NEW e, Holds(list, e)
      PROVE  Holds(left, e) \/ (DeleteEventAfterFirstRetrieval /\ Holds(answer, e))
  <2>1. CASE ~DeleteEventAfterFirstRetrieval
    BY <1>4, <1>8, <2>1
  <2>2. CASE DeleteEventAfterFirstRetrieval
    <3>1. PICK i \in 1 .. Len(list) : list[i] = e
      BY <1>8 DEF Holds
    <3>2. CASE i <= n
      <4> DEFINE j == n - i + 1
      <4>1. j \in 1 .. n /\ n - j + 1 = i
        BY <1>1, <3>1, <3>2
      <4> HIDE DEF j
      <4>2. answer[j] = e
        BY <1>2, <3>1, <4>1
      <4> QED
        BY <2>2, <4>1, <4>2 DEF Holds, n
    <3>3. CASE i > n
      <4> DEFINE j == i - n
      <4>1. j \in 1 .. Len(left) /\ n + j = i
        BY <1>1, <1>3, <2>2, <3>1, <3>3
      <4> HIDE DEF j
      <4> QED
        BY <1>3, <2>2, <3>1, <4>1 DEF Holds
    <3> QED
      BY <1>1, <3>1, <3>2, <3>3
  <2> QED
    BY <2>1, <2>2
<1>9. ASSUME DeleteEventAfterFirstRetrieval, NoRepeats(list), NEW e,
             Holds(left, e), Holds(answer, e)
      PROVE  FALSE
  <2>1. PICK i \in 1 .. Len(left) : left[i] = e
    BY <1>9 DEF Holds
  <2>2. PICK j \in 1 .. n : answer[j] = e
    BY <1>9 DEF Holds, n
  <2>3. n + i \in 1 .. Len(list) /\ list[n + i] = e
    BY <1>3, <1>9, <2>1
  <2>4. n - j + 1 \in 1 .. Len(list) /\ list[n - j + 1] = e
    BY <1>2, <2>2
  <2>5. n + i = n - j + 1
    BY <1>9, <2>3, <2>4 DEF NoRepeats
  <2> QED
    BY <1>1, <2>1, <2>2, <2>5
<1>10. ASSUME TimeOrdered(list), NEW i \in 1 .. n, NEW j \in 1 .. n, i < j
       PROVE  answer[i].Timestamp <= answer[j].Timestamp
  <2>1. n - j + 1 < n - i + 1
    BY <1>1, <1>10
  <2>2. list[n - j + 1].Timestamp >= list[n - i + 1].Timestamp
    BY <1>2, <1>10, <2>1 DEF TimeOrdered
  <2>3. list[n - j + 1].Timestamp \in Nat /\ list[n - i + 1].Timestamp \in Nat
    BY <1>2, ElementsAreEvents
  <2>4. answer[i] = list[n - i + 1] /\ answer[j] = list[n - j + 1]
    BY <1>2
  <2> QED
    BY <2>2, <2>3, <2>4
<1>11. ASSUME NEW i \in 1 .. n PROVE answer[i].Timestamp >= sub.LastEventTime
  <2> DEFINE j == n - i + 1
  <2>1. /\ j \in 1 .. Len(list) /\ answer[i] = list[j]
        /\ IsAfter(list[j], sub.LastEventTime, sub.LastEventID)
    BY <1>2
  <2> HIDE DEF j
  <2>2. list[j].Timestamp \in Nat
    BY <2>1, ElementsAreEvents
  <2> QED
    BY <2>1, <2>2 DEF IsAfter
<1>12. ASSUME TimeOrdered(list), answer = <<>>
       PROVE  NoneAfter(list, sub.LastEventTime)
  <2>1. n = 0
    BY <1>12, EmptySeq DEF n
  <2>2. SUFFICES ASSUME NEW i \in 1 .. Len(list)
                 PROVE  list[i].Timestamp <= sub.LastEventTime
    BY DEF NoneAfter
  <2>3. 1 \in 1 .. Len(list) /\ ~IsAfter(list[1], sub.LastEventTime, sub.LastEventID)
    BY <1>1, <1>5, <2>1, <2>2
  <2>4. list[1].Timestamp \in Nat /\ list[i].Timestamp \in Nat
    BY <2>2, <2>3, ElementsAreEvents
  <2>5. list[1].Timestamp <= sub.LastEventTime
    BY <2>3, <2>4 DEF IsAfter
  <2>6. i = 1 \/ list[1].Timestamp >= list[i].Timestamp
    BY <1>1, <1>12, <2>2, <2>3 DEF TimeOrdered
  <2> QED
    BY <2>4, <2>5, <2>6
<1> QED
  BY <1>6, <1>7, <1>8, <1>9, <1>10, <1>11, <1>12 DEF n

LEMMA ServesShrinks ==
  ASSUME NEW new, NEW old, IsStore(new), IsStore(old), NEW answer \in Seq(Event),
         NEW sub, sub.LastEventTime \in Nat, Serves(new, old, answer, sub)
  PROVE  Shrinks(new, old)
<1> DEFINE cat == sub.SubscriptionCategory
<1>1. /\ HeapShrinks(new, old)
      /\ \A c : c # cat => ListOf(new, c) = ListOf(old, c)
  BY DEF Serves
<1>2. PICK mid \in Seq(Event) : /\ IsTrimmed(mid, ListOf(old, cat))
                                /\ IsServed(ListOf(new, cat), answer, mid, sub)
  BY DEF Serves
<1>3. IsWindow(ListOf(new, cat), mid)
  BY <1>2, ListOfType, ServedProperties
<1>4. IsWindow(ListOf(new, cat), ListOf(old, cat))
  BY <1>2, <1>3, ListOfType, TrimmedIsWindow, WindowOfWindow
<1>5. \A c : c # cat => IsWindow(ListOf(new, c), ListOf(old, c))
  BY <1>1, ListOfType, WindowOfItself
<1> QED
  BY <1>1, <1>4, <1>5 DEF Shrinks

LEMMA ShrinksKeepsOrder ==
  ASSUME NEW new, NEW old, IsStore(new), IsStore(old),
         Shrinks(new, old), InTimeOrder(old)
  PROVE  InTimeOrder(new)
<1>1. \A c \in Categories : TimeOrdered(ListOf(new, c))
  BY ListOfType, WindowProperties DEF Shrinks, InTimeOrder
<1>2. \A c \in DOMAIN new.bufferPriorityQueue :
        NoneAfter(ListOf(new, c), new.bufferPriorityQueue[c])
  BY WindowNoneAfter DEF Shrinks, HeapShrinks, InTimeOrder
<1> QED
  BY <1>1, <1>2 DEF InTimeOrder

LEMMA PushedNoneAfter ==
  ASSUME NEW new \in Seq(Event), NEW old \in Seq(Event), NEW event \in Event,
         IsPushed(new, old, event), NEW t, NoneAfter(old, t), event.Timestamp <= t
  PROVE  NoneAfter(new, t)
<1>1. \A i \in 1 .. Len(new) : i = 1 \/ i \in 2 .. Len(new)
  BY LenProperties
<1> QED
  BY <1>1 DEF IsPushed, NoneAfter

(* A new event keeps a store in order if nothing buffered is newer.        *)
LEMMA ReceivesKeepsOrder ==
  ASSUME NEW new, NEW old, IsStore(new), IsStore(old), NEW event \in Event,
         NEW buffer \in BOOLEAN, Receives(new, old, event, buffer),
         InTimeOrder(old),
         NoneAfter(ListOf(old, event.Category), event.Timestamp)
  PROVE  /\ InTimeOrder(new)
         /\ \A c \in Categories : \A t :
              NoneAfter(ListOf(old, c), t) /\ event.Timestamp <= t =>
                NoneAfter(ListOf(new, c), t)
<1> DEFINE cat == event.Category
<1>1. cat \in Categories /\ event.Timestamp \in Nat /\ event.Timestamp <= event.Timestamp
  BY DEF Event
<1>2. PICK mid \in Seq(Event) :
        /\ IF buffer THEN IsPushed(mid, ListOf(old, cat), event)
                     ELSE mid = ListOf(old, cat)
        /\ IsTrimmed(ListOf(new, cat), mid)
  BY DEF Receives
<1>3. IsWindow(ListOf(new, cat), mid)
  BY <1>2, ListOfType, TrimmedIsWindow
<1>4. TimeOrdered(mid)
  BY <1>1, <1>2, ListOfType, PushedProperties DEF InTimeOrder, NoneAfter
<1>5. \A t : NoneAfter(ListOf(old, cat), t) /\ event.Timestamp <= t =>
               NoneAfter(ListOf(new, cat), t)
  BY <1>2, <1>3, ListOfType, PushedNoneAfter, WindowNoneAfter
<1>6. \A c : c # cat => ListOf(new, c) = ListOf(old, c)
  BY DEF Receives
<1>7. TimeOrdered(ListOf(new, cat))
  BY <1>2, <1>3, <1>4, ListOfType, WindowProperties
<1>8. ASSUME NEW c \in DOMAIN new.bufferPriorityQueue
      PROVE  NoneAfter(ListOf(new, c), new.bufferPriorityQueue[c])
  <2>1. CASE c = cat /\ buffer
    <3>1. new.bufferPriorityQueue[c] = event.Timestamp
      BY <1>8, <2>1 DEF Receives
    <3> QED
      BY <1>1, <1>5, <2>1, <3>1
  <2>2. CASE ~(c = cat /\ buffer)
    <3>1. /\ c \in DOMAIN old.bufferPriorityQueue
          /\ new.bufferPriorityQueue[c] = old.bufferPriorityQueue[c]
      BY <1>8, <2>2 DEF Receives
    <3>2. IsWindow(ListOf(new, c), ListOf(old, c))
      BY <1>2, <1>3, <1>6, <2>2, ListOfType, WindowOfItself
    <3> QED
      BY <3>1, <3>2, WindowNoneAfter DEF InTimeOrder
  <2> QED
    BY <2>1, <2>2
<1>9. \A c \in Categories : TimeOrdered(ListOf(new, c))
  BY <1>6, <1>7 DEF InTimeOrder
<1> QED
  BY <1>5, <1>6, <1>8, <1>9 DEF InTimeOrder

LEMMA TrimmedLoses ==
  ASSUME NEW new \in Seq(Event), NEW old \in Seq(Event), IsTrimmed(new, old),
         NEW e, Holds(old, e)
  PROVE  Holds(new, e) \/ Expired(e)
<1>1. PICK i \in 1 .. Len(old) : old[i] = e
  BY DEF Holds
<1>2. i \in 1 .. Len(new) \/ i \in Len(new) + 1 .. Len(old)
  BY LenProperties
<1> QED
  BY <1>1, <1>2 DEF IsTrimmed, Holds

(* The purge goes by the heap's priorities: where they bound the events of *)
(* their buffers it loses no live one.                                     *)
LEMMA PurgedLoses ==
  ASSUME now \in Nat, NEW new, NEW old, IsStore(old), IsPurged(new, old),
         InTimeOrder(old), NEW c, NEW e, Holds(ListOf(old, c), e)
  PROVE  Holds(ListOf(new, c), e) \/ Expired(e)
<1>1. CASE ListOf(new, c) = ListOf(old, c)
  BY <1>1
<1>2. CASE /\ ~NoTTL
           /\ c \in DOMAIN old.bufferPriorityQueue
           /\ old.bufferPriorityQueue[c] <= Expiration(now)
  <2>1. PICK i \in 1 .. Len(ListOf(old, c)) : ListOf(old, c)[i] = e
    BY DEF Holds
  <2>2. e.Timestamp <= old.bufferPriorityQueue[c]
    BY <1>2, <2>1 DEF InTimeOrder, NoneAfter
  <2>3. e.Timestamp \in Nat
    BY <2>1, ListOfType, ElementsAreEvents
  <2>4. old.bufferPriorityQueue[c] \in Int /\ Expiration(now) \in Int
    BY <1>2, ThresholdIsInt, StoreMaps DEF IsMap
  <2> QED
    BY <1>2, <2>2, <2>3, <2>4 DEF Expired
<1> QED
  BY <1>1, <1>2 DEF IsPurged

-----------------------------------------------------------------------------
(* The steps of the system by what they do to the events: the manager      *)
(* loads one, purges, answers a poll or forwards one; a handler subscribes *)
(* or takes its batch; a publisher sends one.                              *)

Loading == run \in {"loading", "panicked"}

Loads ==
  LET event == Head(startup.startChan)
  IN  /\ run = "loading"
      /\ startup.startChan # <<>>
      /\ event \in Event
      /\ UNCHANGED <<now, Events, clientSubscriptions, ClientSubChannels,
                     subEvents, published, request>>
      /\ \/ run' = "panicked" /\ UNCHANGED <<startup, store>>
         \/ /\ run' = "loading"
            /\ event.Timestamp >= startup.currentEventTime
            /\ startup'.startChan = Tail(startup.startChan)
            /\ startup'.currentEventTime = event.Timestamp
            /\ startup'.cutoffTime = startup.cutoffTime
            /\ \/ event.Timestamp <= startup.cutoffTime /\ UNCHANGED store
               \/ Receives(store', store, event, TRUE)

Purges ==
  /\ IsPurged(store', store)
  /\ ~Loading'
  /\ \A c \in Clients, cat \in Categories : IsParked(c, cat)' => IsParked(c, cat)
  /\ UNCHANGED <<now, startup, Events, clientSubscriptions, subEvents,
                 published, request>>

Answers ==
  LET sub   == Head(clientSubscriptions)
      cat   == sub.SubscriptionCategory
      batch == Answer(store, sub, now)
  IN  /\ ~Loading /\ ~Loading'
      /\ clientSubscriptions # <<>>
      /\ sub \in Subscription
      /\ batch \in Seq(Event)
      /\ clientSubscriptions' = Tail(clientSubscriptions)
      /\ \E st : /\ GoodStore(st)
                 /\ Serves(st, store, batch, sub)
                 /\ IsPurged(store', st)
      /\ \/ /\ batch # <<>>
            /\ SendBatch({sub.ClientUUID}, batch)
            /\ UNCHANGED ClientSubChannels
         \/ /\ batch = <<>>
            /\ ClientSubChannels' =
                 Put(ClientSubChannels, cat, Parked(cat) \cup {sub.ClientUUID})
            /\ UNCHANGED subEvents
      /\ UNCHANGED <<now, startup, Events, published, request>>

Forwards ==
  LET event == Head(Events)
  IN  /\ ~Loading /\ ~Loading'
      /\ Events # <<>>
      /\ event \in Event
      /\ Events' = Tail(Events)
      /\ ForwardToParked(event)
      /\ \E st : /\ GoodStore(st)
                 /\ Receives(st, store, event, DoBufferEvents(event))
                 /\ IsPurged(store', st)
      /\ UNCHANGED <<now, startup, clientSubscriptions, published, request>>

Quiet ==
  /\ UNCHANGED <<startup, Events, clientSubscriptions, ClientSubChannels, store,
                 subEvents, published>>
  /\ run' = "loading" <=> run = "loading"
  /\ Loading' <=> Loading
  /\ now \in Nat /\ now' \in Nat /\ now <= now'
  /\ \A c \in DOMAIN request' : c \in DOMAIN request /\ request'[c] = request[c]

Step ==
  \/ Loads \/ Purges \/ Answers \/ Forwards \/ Quiet
  \/ \E sub \in Subscription : SendSubscription(sub)
  \/ \E c \in Clients : ReceiveEvents(c)
  \/ \E event \in Event : /\ ChronologicalPublish => InOrder(event)
                          /\ SendEvent(event)

LEMMA PurgeIfTimeToPurges ==
  ASSUME NEW st, GoodStore(st), SeeIfTimeToPurgeStaleCategories(st)
  PROVE  IsPurged(store', st)
<1>1. IsPurged(st, st)
  BY DEF IsPurged, HeapShrinks
<1>2. IsPurged(PurgeStaleCategories(st, now), st)
  BY PurgeStaleCategoriesEmpties
<1> QED
  BY <1>1, <1>2 DEF SeeIfTimeToPurgeStaleCategories

LEMMA LoadEventLoads == IInv /\ LoadEvent => Loads
<1> SUFFICES ASSUME IInv, LoadEvent PROVE Loads
  OBVIOUS
<1> DEFINE event == Head(startup.startChan)
           next  == [startup EXCEPT !.startChan = Tail(@),
                                    !.currentEventTime = event.Timestamp]
<1>1. /\ startup.startChan \in Seq(Event) /\ startup.startChan # <<>>
      /\ startup \in [startChan : Seq(Event), currentEventTime : Nat, cutoffTime : Int]
      /\ GoodStore(store) /\ now \in Nat
      /\ run = "loading"
  BY DEF IInv, TypeOK, StoreConsistent, GoodStore, LoadEvent
<1>2. event \in Event /\ event.Timestamp \in Nat
  <2>1. event \in Event
    BY <1>1, HeadTailProperties
  <2> QED
    BY <2>1 DEF Event
<1>3. UNCHANGED <<now, Events, clientSubscriptions, ClientSubChannels, subEvents,
                  published, request>>
  BY DEF LoadEvent, channelVars, environmentVars
<1>4. Receives(StoreNewEvent(store, event, TRUE, now), store, event, TRUE)
  BY <1>1, <1>2, StoreNewEventReceives
<1>5. \/ run' = "panicked" /\ UNCHANGED <<startup, store>>
      \/ /\ run' = run
         /\ event.Timestamp >= startup.currentEventTime
         /\ startup' = next
         /\ store' = IF event.Timestamp > startup.cutoffTime
                     THEN StoreNewEvent(store, event, TRUE, now)
                     ELSE store
  BY DEF LoadEvent
<1>6. /\ next.startChan = Tail(startup.startChan)
      /\ next.currentEventTime = event.Timestamp
      /\ next.cutoffTime = startup.cutoffTime
  BY <1>1
<1>7. event.Timestamp > startup.cutoffTime \/ event.Timestamp <= startup.cutoffTime
  BY <1>1, <1>2
<1> HIDE DEF event, next
<1>8. \/ run' = "panicked" /\ UNCHANGED <<startup, store>>
      \/ /\ run' = "loading"
         /\ event.Timestamp >= startup.currentEventTime
         /\ startup'.startChan = Tail(startup.startChan)
         /\ startup'.currentEventTime = event.Timestamp
         /\ startup'.cutoffTime = startup.cutoffTime
         /\ \/ event.Timestamp <= startup.cutoffTime /\ UNCHANGED store
            \/ Receives(store', store, event, TRUE)
  BY <1>1, <1>4, <1>5, <1>6, <1>7
<1> QED
  BY <1>1, <1>2, <1>3, <1>8 DEF Loads, event

LEMMA ManagerSteps == IInv /\ Manager => Step
<1> SUFFICES ASSUME IInv, Manager PROVE Step
  OBVIOUS
<1>1. GoodStore(store) /\ now \in Nat
  BY DEF IInv, TypeOK, StoreConsistent, GoodStore
<1>2. CASE LoadEvent
  BY <1>2, LoadEventLoads DEF Step
<1>3. ASSUME FinishLoading PROVE Purges
  BY <1>1, <1>3, PurgeStaleCategoriesEmpties
     DEF FinishLoading, Purges, Loading, IsParked, channelVars, environmentVars
<1>4. ASSUME RunTimer PROVE Purges
  BY <1>1, <1>4, PurgeIfTimeToPurges
     DEF RunTimer, Purges, Loading, IsParked, channelVars, environmentVars
<1>5. ASSUME RunClientTimeout PROVE Purges
  <2> DEFINE pair == Head(ClientTimeouts)
             here == pair.SubscriptionCategory
             left == Parked(here) \ {pair.ClientUUID}
  <2>1. ClientSubChannels' =
          IF here \notin DOMAIN ClientSubChannels THEN ClientSubChannels
          ELSE IF left = {} THEN Delete(ClientSubChannels, {here})
          ELSE Put(ClientSubChannels, here, left)
    BY <1>5 DEF RunClientTimeout
  <2>2. left \subseteq Parked(here)
    OBVIOUS
  <2> HIDE DEF here, left
  <2>3. \A c \in Clients, cat \in Categories : IsParked(c, cat)' => IsParked(c, cat)
    BY <2>1, <2>2 DEF IsParked, Parked, Put, Delete, Restrict
  <2>4. IsPurged(store', store)
    BY <1>1, <1>5, PurgeIfTimeToPurges DEF RunClientTimeout
  <2> QED
    BY <1>5, <2>3, <2>4 DEF RunClientTimeout, Purges, Loading, environmentVars
<1>6. ASSUME RunNewClient PROVE Answers
  <2> DEFINE sub   == Head(clientSubscriptions)
             batch == Answer(store, sub, now)
             st    == StoreAfterAnswer(store, sub, now)
  <2>1. clientSubscriptions \in Seq(Subscription) /\ clientSubscriptions # <<>>
    BY <1>6 DEF RunNewClient, IInv, TypeOK
  <2>2. sub \in Subscription
    BY <2>1, HeadTailProperties
  <2>3. batch \in Seq(Event)
    BY <1>1, AnswerType
  <2>4. GoodStore(st) /\ Serves(st, store, batch, sub)
    BY <1>1, StoreAfterAnswerKeeps, StoreAfterAnswerServes
  <2>5. SeeIfTimeToPurgeStaleCategories(st)
    BY <1>6 DEF RunNewClient
  <2> HIDE DEF st
  <2>6. \E x : GoodStore(x) /\ Serves(x, store, batch, sub) /\ IsPurged(store', x)
    BY <2>4, <2>5, PurgeIfTimeToPurges
  <2> QED
    BY <1>6, <2>2, <2>3, <2>6
       DEF RunNewClient, Answers, Loading, environmentVars
<1>7. ASSUME RunEvent \/ DrainEvent PROVE Forwards
  <2> DEFINE event == Head(Events)
             st    == StoreNewEvent(store, event, DoBufferEvents(event), now)
  <2>1. Events \in Seq(Event) /\ Events # <<>>
    BY <1>7 DEF RunEvent, DrainEvent, IInv, TypeOK
  <2>2. event \in Event
    BY <2>1, HeadTailProperties
  <2>3. GoodStore(st) /\ Receives(st, store, event, DoBufferEvents(event))
    BY <1>1, <2>2, DoBufferEventsType, StoreNewEventKeeps, StoreNewEventReceives
  <2>4. SeeIfTimeToPurgeStaleCategories(st) \/ store' = st
    BY <1>7 DEF RunEvent, DrainEvent
  <2> HIDE DEF st
  <2>5. IsPurged(store', st)
    BY <2>3, <2>4, PurgeIfTimeToPurges DEF IsPurged, HeapShrinks
  <2>6. \E x : /\ GoodStore(x)
               /\ Receives(x, store, event, DoBufferEvents(event))
               /\ IsPurged(store', x)
    BY <2>3, <2>5
  <2>7. /\ ForwardToParked(event) /\ Events' = Tail(Events)
        /\ UNCHANGED <<now, startup, clientSubscriptions, published, request>>
        /\ ~Loading /\ ~Loading'
    BY <1>7 DEF RunEvent, DrainEvent, environmentVars, Loading
  <2> HIDE DEF event
  <2> QED
    BY <2>1, <2>2, <2>6, <2>7 DEF Forwards, event
<1>8. ASSUME RunQuit \/ DrainNothing \/ CloseShutdownDone PROVE Quiet
  BY <1>1, <1>8 DEF RunQuit, DrainNothing, CloseShutdownDone, Quiet, Loading,
                    channelVars, environmentVars
<1> QED
  BY <1>2, <1>3, <1>4, <1>5, <1>6, <1>7, <1>8 DEF Manager, Step

LEMMA EnvironmentSteps == IInv /\ Environment => Step
<1> SUFFICES ASSUME IInv, Environment PROVE Step
  OBVIOUS
<1>1. TypeOK /\ published \subseteq Event /\ now \in Nat
  BY DEF IInv, TypeOK
<1>2. PollTimes \subseteq Nat /\ KnownIDs \subseteq EventIDs \cup {NoID}
  BY <1>1, ManagerAssumption DEF PollTimes, KnownIDs, Event
<1>3. ASSUME NEW c \in Clients, NEW cat \in Categories,
             NEW since \in PollTimes, NEW id \in KnownIDs,
             SendSubscription([ClientUUID |-> c, SubscriptionCategory |-> cat,
                               LastEventTime |-> since, LastEventID |-> id])
      PROVE  Step
  <2>1. [ClientUUID |-> c, SubscriptionCategory |-> cat,
         LastEventTime |-> since, LastEventID |-> id] \in Subscription
    BY <1>2 DEF Subscription
  <2> QED
    BY <1>3, <2>1 DEF Step
<1>4. ASSUME NEW c \in Clients, LeaveSelect(c) PROVE Quiet
  BY <1>1, <1>4 DEF LeaveSelect, Quiet, Loading, managerVars, channelVars
<1>5. ASSUME NEW c \in Clients, SendTimeout(c) PROVE Quiet
  <2>1. \A d \in DOMAIN request' : d \in DOMAIN request /\ request'[d] = request[d]
    BY <1>5 DEF SendTimeout, Delete, Restrict
  <2>2. UNCHANGED <<now, run, startup, Events, clientSubscriptions,
                    ClientSubChannels, store, subEvents, published>>
    BY <1>5 DEF SendTimeout, managerVars
  <2> QED
    BY <1>1, <2>1, <2>2 DEF Quiet, Loading
<1>6. ASSUME CloseQuit \/ Tick PROVE Quiet
  BY <1>1, <1>6 DEF CloseQuit, Tick, Quiet, Loading, managerVars, channelVars
<1>7. ASSUME NEW ts \in StartTime .. now, NEW cat \in Categories, NEW id \in EventIDs,
             NEW event, event = [Timestamp |-> ts, Category |-> cat, ID |-> id],
             ChronologicalPublish => InOrder(event), SendEvent(event)
      PROVE  Step
  <2>1. event \in Event
    BY <1>1, <1>7, ManagerAssumption DEF Event
  <2> QED
    BY <1>7, <2>1 DEF Step
<1> QED
  BY <1>3, <1>4, <1>5, <1>6, <1>7 DEF Environment, Step

LEMMA NextSteps == IInv /\ [Next]_vars => Step
<1>1. IInv /\ UNCHANGED vars => Quiet
  BY DEF IInv, TypeOK, Quiet, Loading, vars, managerVars, channelVars, environmentVars
<1> QED
  BY <1>1, ManagerSteps, EnvironmentSteps DEF Next, Step

-----------------------------------------------------------------------------
(* The lists after a step.                                                 *)

Among(list, S) == \A i \in 1 .. Len(list) : list[i] \in S

LEMMA QueueFront ==
  ASSUME NEW S, NEW q \in Seq(S), q # <<>>
  PROVE  /\ 1 \in 1 .. Len(q) /\ Head(q) = q[1] /\ Head(q) \in S
         /\ Tail(q) \in Seq(S) /\ Len(Tail(q)) = Len(q) - 1
         /\ \A i \in 1 .. Len(Tail(q)) :
              i + 1 \in 1 .. Len(q) /\ Tail(q)[i] = q[i + 1]
<1>1. Len(q) \in Nat /\ Len(q) # 0
  BY LenProperties, EmptySeq
<1>2. Tail(q) \in Seq(S) /\ Len(Tail(q)) = Len(q) - 1
  BY HeadTailProperties
<1>3. ASSUME NEW i \in 1 .. Len(Tail(q))
      PROVE  i + 1 \in 1 .. Len(q) /\ Tail(q)[i] = q[i + 1]
  BY <1>1, <1>2, HeadTailProperties
<1> QED
  BY <1>1, <1>2, <1>3, HeadTailProperties

LEMMA StoresAreGood ==
  IInv => IsStore(store) /\ GoodStore(store) /\ now \in Nat
BY DEF IInv, TypeOK, StoreConsistent, GoodStore

LEMMA HeapListsNonempty ==
  ASSUME NEW st, GoodStore(st), NEW c \in DOMAIN st.bufferPriorityQueue
  PROVE  /\ c \in Categories
         /\ c \in DOMAIN st.SubEventBuffer
         /\ 1 \in 1 .. Len(ListOf(st, c))
<1>1. c \in Categories /\ IsStore(st)
  BY StoreMaps DEF GoodStore, IsMap
<1>2. c \in DOMAIN st.SubEventBuffer
  BY DEF GoodStore, StoreOK, HeapIndexesBuffers
<1>3. ListOf(st, c) # <<>>
  BY <1>2 DEF GoodStore, StoreOK, WellFormedBuffer, ListOf
<1> QED
  BY <1>1, <1>2, <1>3, ListOfType, QueueFront

LEMMA ReceivesHolds ==
  ASSUME NEW new, NEW old, IsStore(new), IsStore(old), NEW event \in Event,
         NEW buffer \in BOOLEAN, Receives(new, old, event, buffer)
  PROVE  \A c, e : Holds(ListOf(new, c), e) =>
           \/ Holds(ListOf(old, c), e)
           \/ e = event /\ buffer /\ c = event.Category
<1> DEFINE cat == event.Category
<1>1. PICK mid \in Seq(Event) :
        /\ IF buffer THEN IsPushed(mid, ListOf(old, cat), event)
                     ELSE mid = ListOf(old, cat)
        /\ IsTrimmed(ListOf(new, cat), mid)
  BY DEF Receives
<1>2. \A e : Holds(ListOf(new, cat), e) => Holds(mid, e)
  BY <1>1, ListOfType, TrimmedIsWindow, WindowProperties
<1>3. \A e : Holds(mid, e) => Holds(ListOf(old, cat), e) \/ (e = event /\ buffer)
  BY <1>1, ListOfType, PushedProperties
<1> QED
  BY <1>2, <1>3 DEF Receives

LEMMA ShrinksHolds ==
  ASSUME NEW new, NEW old, IsStore(new), IsStore(old), Shrinks(new, old)
  PROVE  \A c, e : Holds(ListOf(new, c), e) => Holds(ListOf(old, c), e)
BY ListOfType, WindowProperties DEF Shrinks

LEMMA AnswersShrinks ==
  ASSUME IInv, IInv', Answers
  PROVE  Shrinks(store', store)
<1>1. /\ IsStore(store) /\ IsStore(store')
      /\ Head(clientSubscriptions).LastEventTime \in Nat
      /\ Answer(store, Head(clientSubscriptions), now) \in Seq(Event)
  BY StoresAreGood DEF IInv, TypeOK, Answers, Subscription
<1>2. PICK st : /\ GoodStore(st)
                /\ Serves(st, store, Answer(store, Head(clientSubscriptions), now),
                          Head(clientSubscriptions))
                /\ IsPurged(store', st)
  BY DEF Answers
<1>3. IsStore(st)
  BY <1>2 DEF GoodStore
<1>4. Shrinks(st, store)
  BY <1>1, <1>2, <1>3, ServesShrinks
<1>5. Shrinks(store', st)
  BY <1>2, <1>3, PurgedShrinks
<1> QED
  BY <1>1, <1>3, <1>4, <1>5, ShrinksTwice

LEMMA ForwardsReceives ==
  ASSUME IInv, IInv', Forwards
  PROVE  \E st : /\ GoodStore(st) /\ IsStore(st)
                 /\ Receives(st, store, Head(Events), DoBufferEvents(Head(Events)))
                 /\ IsPurged(store', st) /\ Shrinks(store', st)
<1>1. PICK st : /\ GoodStore(st)
                /\ Receives(st, store, Head(Events), DoBufferEvents(Head(Events)))
                /\ IsPurged(store', st)
  BY DEF Forwards
<1> QED
  BY <1>1, PurgedShrinks DEF GoodStore

-----------------------------------------------------------------------------
(* Before the manager runs nobody has asked or published anything, and the *)
(* store holds the add-on's events in time order.                          *)
NothingYet ==
  Loading =>
    /\ Events = <<>> /\ clientSubscriptions = <<>>
    /\ \A c \in Clients : /\ subEvents[c] = <<>>
                          /\ \A cat \in Categories : ~IsParked(c, cat)
    /\ InTimeOrder(store)
    /\ \A cat \in Categories :
         NoneAfter(ListOf(store, cat), startup.currentEventTime)
    /\ \A cat \in DOMAIN store.bufferPriorityQueue :
         store.bufferPriorityQueue[cat] = ListOf(store, cat)[1].Timestamp

LEMMA InitNothingYet == Init => NothingYet
<1> SUFFICES ASSUME Init PROVE NothingYet
  OBVIOUS
<1>1. \A c : ListOf(store, c) = <<>> /\ Len(ListOf(store, c)) = 0
  BY EmptySeq DEF Init, ListOf, EmptyMap
<1>2. DOMAIN store.bufferPriorityQueue = {}
  BY DEF Init, EmptyMap
<1> QED
  BY <1>1, <1>2 DEF Init, NothingYet, InTimeOrder, TimeOrdered, NoneAfter, IsParked,
                    EmptyMap

LEMMA LoadsNothingYet ==
  ASSUME IInv, IInv', NothingYet, Loads
  PROVE  NothingYet'
<1> DEFINE event == Head(startup.startChan)
<1>1. Loading
  BY DEF Loads, Loading
<1>2. /\ Events' = <<>> /\ clientSubscriptions' = <<>>
      /\ \A c \in Clients : /\ subEvents'[c] = <<>>
                            /\ \A cat \in Categories : ~IsParked(c, cat)'
  BY <1>1 DEF NothingYet, Loads, IsParked
<1>3. ASSUME UNCHANGED <<startup, store>> PROVE NothingYet'
  BY <1>1, <1>2, <1>3 DEF NothingYet
<1>4. ASSUME event.Timestamp >= startup.currentEventTime,
             startup'.currentEventTime = event.Timestamp,
             event \in Event
      PROVE  \A cat \in Categories : NoneAfter(ListOf(store, cat), event.Timestamp)
  <2>1. SUFFICES ASSUME NEW cat \in Categories,
                        NEW i \in 1 .. Len(ListOf(store, cat))
                 PROVE  ListOf(store, cat)[i].Timestamp <= event.Timestamp
    BY DEF NoneAfter
  <2>2. ListOf(store, cat)[i].Timestamp <= startup.currentEventTime
    BY <1>1, <2>1 DEF NothingYet, NoneAfter
  <2>3. ListOf(store, cat)[i].Timestamp \in Nat
    BY <2>1, StoresAreGood, ListOfType, ElementsAreEvents
  <2>4. event.Timestamp \in Nat /\ startup.currentEventTime \in Nat
    BY <1>4 DEF Event, IInv, TypeOK
  <2> QED
    BY <1>4, <2>2, <2>3, <2>4
<1>5. ASSUME event.Timestamp >= startup.currentEventTime,
             startup'.currentEventTime = event.Timestamp,
             event \in Event, UNCHANGED store
      PROVE  NothingYet'
  BY <1>1, <1>2, <1>4, <1>5 DEF NothingYet
<1>6. ASSUME event.Timestamp >= startup.currentEventTime,
             startup'.currentEventTime = event.Timestamp,
             event \in Event, Receives(store', store, event, TRUE)
      PROVE  NothingYet'
  <2>1. IsStore(store) /\ IsStore(store') /\ GoodStore(store')
    BY StoresAreGood DEF IInv, TypeOK, StoreConsistent, GoodStore
  <2>2. event.Category \in Categories /\ event.Timestamp <= event.Timestamp
    BY <1>6 DEF Event
  <2>3. /\ InTimeOrder(store')
        /\ \A cat \in Categories : NoneAfter(ListOf(store', cat), event.Timestamp)
    BY <1>1, <1>4, <1>6, <2>1, <2>2, ReceivesKeepsOrder DEF NothingYet
  <2>4. ASSUME NEW cat \in DOMAIN store'.bufferPriorityQueue
        PROVE  store'.bufferPriorityQueue[cat] = ListOf(store', cat)[1].Timestamp
    <3>1. CASE cat = event.Category
      <4>1. store'.bufferPriorityQueue[cat] = event.Timestamp
        BY <1>6, <2>4, <3>1 DEF Receives
      <4>2. PICK mid \in Seq(Event) :
              /\ IsPushed(mid, ListOf(store, cat), event)
              /\ IsTrimmed(ListOf(store', cat), mid)
        BY <1>6, <3>1 DEF Receives
      <4>3. 1 \in 1 .. Len(ListOf(store', cat))
        BY <2>1, <2>4, HeapListsNonempty
      <4>4. ListOf(store', cat)[1] = event
        BY <4>2, <4>3 DEF IsPushed, IsTrimmed
      <4> QED
        BY <4>1, <4>4
    <3>2. CASE cat # event.Category
      BY <1>1, <1>6, <2>4, <3>2 DEF Receives, NothingYet
    <3> QED
      BY <3>1, <3>2
  <2> QED
    BY <1>2, <1>6, <2>3, <2>4 DEF NothingYet
<1> QED
  BY <1>3, <1>5, <1>6 DEF Loads

LEMMA NothingYetKept == IInv /\ IInv' /\ NothingYet /\ Step => NothingYet'
<1> SUFFICES ASSUME IInv, IInv', NothingYet, Step, Loading' PROVE NothingYet'
  BY DEF NothingYet
<1>1. CASE Loads
  BY <1>1, LoadsNothingYet
<1>2. CASE Quiet
  BY <1>2 DEF Quiet, NothingYet, IsParked
<1>3. ASSUME NEW c \in Clients, ReceiveEvents(c) PROVE FALSE
  <2>1. Loading
    BY <1>3 DEF ReceiveEvents, managerVars, Loading
  <2> QED
    BY <1>3, <2>1 DEF NothingYet, ReceiveEvents
<1>4. ASSUME \/ \E sub \in Subscription : SendSubscription(sub)
             \/ \E event \in Event : SendEvent(event)
      PROVE  FALSE
  BY <1>4 DEF SendSubscription, SendEvent, Started, Loading, managerVars
<1>5. ~(Purges \/ Answers \/ Forwards)
  BY DEF Purges, Answers, Forwards
<1> QED
  BY <1>1, <1>2, <1>3, <1>4, <1>5 DEF Step

-----------------------------------------------------------------------------
(* Every event in the system has been published.                           *)
Known ==
  /\ Among(startup.startChan, published)
  /\ Among(Events, published)
  /\ \A cat \in Categories : Among(ListOf(store, cat), published)
  /\ \A c \in Clients : \A i \in 1 .. Len(subEvents[c]) :
       Among(subEvents[c][i], published)

LEMMA AmongHolds ==
  ASSUME NEW list, NEW S
  PROVE  Among(list, S) <=> \A e : Holds(list, e) => e \in S
BY DEF Among, Holds

LEMMA InitKnown == Init => Known
<1> SUFFICES ASSUME Init PROVE Known
  OBVIOUS
<1>1. PICK events \in InitialEvents : /\ startup.startChan = events
                                      /\ published = ToSet(events)
  BY DEF Init
<1>2. events \in Seq(Event) /\ DOMAIN events = 1 .. Len(events)
  BY ManagerAssumption, LenProperties
<1>3. Among(startup.startChan, published)
  BY <1>1, <1>2 DEF Among, ToSet
<1>4. \A c : Len(ListOf(store, c)) = 0
  BY EmptySeq DEF Init, ListOf, EmptyMap
<1>5. Len(Events) = 0 /\ \A c \in Clients : Len(subEvents[c]) = 0
  BY EmptySeq DEF Init
<1> QED
  BY <1>3, <1>4, <1>5 DEF Known, Among

LEMMA KnownKept == IInv /\ IInv' /\ Known /\ Step => Known'
<1> SUFFICES ASSUME IInv, IInv', Known, Step PROVE Known'
  OBVIOUS
<1> DEFINE Lists    == \A cat \in Categories : Among(ListOf(store, cat), published)
           Batches  == \A c \in Clients : \A i \in 1 .. Len(subEvents[c]) :
                         Among(subEvents[c][i], published)
<1>1. IsStore(store) /\ IsStore(store')
  BY DEF IInv, TypeOK
<1>2. ASSUME Shrinks(store', store), UNCHANGED published PROVE Lists'
  BY <1>1, <1>2, ShrinksHolds, AmongHolds DEF Known
<1>3. CASE Loads
  <2>1. UNCHANGED <<Events, subEvents, published>>
    BY <1>3 DEF Loads
  <2>2. /\ startup.startChan \in Seq(Event) /\ startup.startChan # <<>>
        /\ startup'.startChan = startup.startChan
             \/ startup'.startChan = Tail(startup.startChan)
    BY <1>3 DEF Loads, IInv, TypeOK
  <2>3. Among(startup'.startChan, published)
    <3>1. Among(Tail(startup.startChan), published)
      BY <2>2, QueueFront DEF Known, Among
    <3> QED
      BY <2>2, <3>1 DEF Known
  <2>4. Lists'
    <3> DEFINE event == Head(startup.startChan)
    <3>1. CASE UNCHANGED store
      BY <2>1, <3>1 DEF Known
    <3>2. CASE Receives(store', store, event, TRUE)
      <4>1. event \in published
        BY <2>2, QueueFront DEF Known, Among
      <4>2. event \in Event
        BY <2>2, QueueFront
      <4> HIDE DEF event
      <4>3. \A c, e : Holds(ListOf(store', c), e) =>
              Holds(ListOf(store, c), e) \/ e = event
        BY <1>1, <3>2, <4>2, ReceivesHolds
      <4> QED
        BY <2>1, <4>1, <4>3, AmongHolds DEF Known
    <3> QED
      BY <1>3, <3>1, <3>2 DEF Loads
  <2> QED
    BY <2>1, <2>3, <2>4 DEF Known
<1>4. CASE Purges
  <2>1. Lists'
    BY <1>1, <1>2, <1>4, PurgedShrinks DEF Purges
  <2> QED
    BY <1>4, <2>1 DEF Purges, Known
<1>5. CASE Answers
  <2> DEFINE sub   == Head(clientSubscriptions)
             cat   == sub.SubscriptionCategory
             batch == Answer(store, sub, now)
  <2>1. /\ UNCHANGED <<startup, Events, published>>
        /\ sub \in Subscription /\ batch \in Seq(Event)
        /\ UNCHANGED subEvents \/ SendBatch({sub.ClientUUID}, batch)
    BY <1>5 DEF Answers
  <2>2. Lists'
    BY <1>2, <1>5, <2>1, AnswersShrinks
  <2>3. Among(batch, published)
    <3>1. cat \in Categories /\ sub.LastEventTime \in Nat
      BY <2>1 DEF Subscription
    <3>2. PICK st : GoodStore(st) /\ Serves(st, store, batch, sub)
      BY <1>5 DEF Answers
    <3>3. PICK mid \in Seq(Event) : /\ IsTrimmed(mid, ListOf(store, cat))
                                    /\ IsServed(ListOf(st, cat), batch, mid, sub)
      BY <3>2 DEF Serves
    <3>4. ListOf(st, cat) \in Seq(Event) /\ ListOf(store, cat) \in Seq(Event)
      BY <1>1, <3>2, ListOfType DEF GoodStore
    <3> HIDE DEF sub, batch, cat
    <3>5. \A e : Holds(batch, e) => Holds(mid, e)
      BY <2>1, <3>1, <3>3, <3>4, ServedProperties
    <3>6. \A e : Holds(mid, e) => Holds(ListOf(store, cat), e)
      BY <3>3, <3>4, TrimmedIsWindow, WindowProperties
    <3> QED
      BY <3>1, <3>5, <3>6, AmongHolds DEF Known
  <2>4. Batches'
    <3> HIDE DEF sub, batch
    <3>1. \A c \in Clients : subEvents'[c] = subEvents[c] \/ subEvents'[c] = <<batch>>
      BY <2>1 DEF SendBatch
    <3> QED
      BY <2>1, <2>3, <3>1 DEF Known
  <2> QED
    BY <2>1, <2>2, <2>4 DEF Known
<1>6. CASE Forwards
  <2> DEFINE event == Head(Events)
  <2>1. /\ UNCHANGED <<startup, published>>
        /\ Events \in Seq(Event) /\ Events # <<>>
        /\ Events' = Tail(Events)
        /\ SendBatch(Parked(event.Category), <<event>>)
    BY <1>6 DEF Forwards, ForwardToParked, IInv, TypeOK
  <2>2. event \in Event /\ event \in published /\ Among(Events', published)
    BY <2>1, QueueFront DEF Known, Among
  <2> HIDE DEF event
  <2>3. Lists'
    <3>1. PICK st : /\ IsStore(st)
                    /\ Receives(st, store, event, DoBufferEvents(event))
                    /\ Shrinks(store', st)
      BY <1>6, ForwardsReceives DEF event
    <3>2. \A c, e : Holds(ListOf(st, c), e) => Holds(ListOf(store, c), e) \/ e = event
      BY <1>1, <2>2, <3>1, ReceivesHolds, DoBufferEventsType
    <3>3. \A c, e : Holds(ListOf(store', c), e) => Holds(ListOf(store, c), e) \/ e = event
      BY <1>1, <3>1, <3>2, ShrinksHolds
    <3> QED
      BY <2>1, <2>2, <3>3, AmongHolds DEF Known
  <2>4. Batches'
    <3>1. \A c \in Clients : subEvents'[c] = subEvents[c] \/ subEvents'[c] = <<<<event>>>>
      BY <2>1 DEF SendBatch
    <3>2. Among(<<event>>, published)
      BY <2>2 DEF Among
    <3> QED
      BY <2>1, <3>1, <3>2 DEF Known
  <2> QED
    BY <2>1, <2>2, <2>3, <2>4 DEF Known
<1>7. CASE Quiet
  BY <1>7 DEF Quiet, Known
<1>8. ASSUME NEW sub \in Subscription, SendSubscription(sub) PROVE Known'
  BY <1>8 DEF SendSubscription, managerVars, Known
<1>9. ASSUME NEW c \in Clients, ReceiveEvents(c) PROVE Known'
  <2>1. UNCHANGED <<startup, store, Events, published>>
    BY <1>9 DEF ReceiveEvents, managerVars
  <2>2. Batches'
    <3>1. /\ subEvents' = [subEvents EXCEPT ![c] = Tail(@)]
          /\ subEvents[c] # <<>> /\ subEvents \in [Clients -> Seq(Seq(Event))]
      BY <1>9 DEF ReceiveEvents, IInv, TypeOK
    <3>2. ASSUME NEW d \in Clients, NEW i \in 1 .. Len(subEvents'[d])
          PROVE  Among(subEvents'[d][i], published)
      <4>1. CASE d # c
        BY <3>1, <3>2, <4>1 DEF Known
      <4>2. CASE d = c
        <5>1. subEvents'[d] = Tail(subEvents[c]) /\ subEvents[c] \in Seq(Seq(Event))
          BY <3>1, <4>2
        <5>2. \A j \in 1 .. Len(Tail(subEvents[c])) :
                /\ j + 1 \in 1 .. Len(subEvents[c])
                /\ Tail(subEvents[c])[j] = subEvents[c][j + 1]
          BY <3>1, <5>1, QueueFront
        <5>3. i + 1 \in 1 .. Len(subEvents[c]) /\ subEvents'[d][i] = subEvents[c][i + 1]
          BY <3>2, <5>1, <5>2
        <5> QED
          BY <5>3 DEF Known
      <4> QED
        BY <4>1, <4>2
    <3> QED
      BY <2>1, <3>2
  <2> QED
    BY <2>1, <2>2 DEF Known
<1>10. ASSUME NEW event \in Event, SendEvent(event) PROVE Known'
  <2>1. /\ UNCHANGED <<startup, store, subEvents>>
        /\ published' = published \cup {event}
        /\ Events' = Append(Events, event) /\ Events \in Seq(Event)
    BY <1>10 DEF SendEvent, managerVars, IInv, TypeOK
  <2>2. Among(Events', published')
    BY <2>1, AppendProperties DEF Known, Among
  <2> QED
    BY <2>1, <2>2 DEF Known, Among
<1> QED
  BY <1>3, <1>4, <1>5, <1>6, <1>7, <1>8, <1>9, <1>10 DEF Step

-----------------------------------------------------------------------------
(* When events reach the channel in time order, what is buffered is in     *)
(* time order and older than what waits to be.                             *)
Chronological ==
  ChronologicalPublish =>
    /\ InTimeOrder(store)
    /\ \A i, j \in 1 .. Len(Events) :
         i < j => Events[i].Timestamp <= Events[j].Timestamp
    /\ \A i \in 1 .. Len(Events), cat \in Categories :
         NoneAfter(ListOf(store, cat), Events[i].Timestamp)

LEMMA InitChronological == Init => Chronological
<1>1. Init => Events = <<>> /\ Len(Events) = 0 /\ Loading
  BY EmptySeq DEF Init, Loading
<1> QED
  BY <1>1, InitNothingYet DEF Chronological, NothingYet

LEMMA ForwardsChronological ==
  ASSUME IInv, IInv', Chronological, ChronologicalPublish, Forwards
  PROVE  /\ \E st : /\ GoodStore(st) /\ IsStore(st) /\ InTimeOrder(st)
                    /\ Receives(st, store, Head(Events), DoBufferEvents(Head(Events)))
                    /\ IsPurged(store', st)
         /\ Chronological'
<1> DEFINE event == Head(Events)
<1>1. /\ IsStore(store) /\ IsStore(store')
      /\ Events \in Seq(Event) /\ Events # <<>> /\ Events' = Tail(Events)
  BY DEF IInv, TypeOK, Forwards
<1>2. /\ 1 \in 1 .. Len(Events) /\ event = Events[1] /\ event \in Event
      /\ \A i \in 1 .. Len(Events') :
           i + 1 \in 1 .. Len(Events) /\ Events'[i] = Events[i + 1]
  BY <1>1, QueueFront
<1> HIDE DEF event
<1>3. PICK st : /\ GoodStore(st) /\ IsStore(st)
                /\ Receives(st, store, event, DoBufferEvents(event))
                /\ IsPurged(store', st) /\ Shrinks(store', st)
  BY ForwardsReceives DEF event
<1>4. event.Category \in Categories
  BY <1>2 DEF Event
<1>5. /\ InTimeOrder(store)
      /\ NoneAfter(ListOf(store, event.Category), event.Timestamp)
  BY <1>2, <1>4 DEF Chronological
<1>6. /\ InTimeOrder(st)
      /\ \A c \in Categories : \A t :
           NoneAfter(ListOf(store, c), t) /\ event.Timestamp <= t =>
             NoneAfter(ListOf(st, c), t)
  BY <1>1, <1>2, <1>3, <1>5, ReceivesKeepsOrder, DoBufferEventsType
<1>7. InTimeOrder(store')
  BY <1>1, <1>3, <1>6, ShrinksKeepsOrder
<1>8. ASSUME NEW i \in 1 .. Len(Events'), NEW j \in 1 .. Len(Events'), i < j
      PROVE  Events'[i].Timestamp <= Events'[j].Timestamp
  <2>1. i + 1 < j + 1
    BY <1>1, <1>8, LenProperties
  <2> QED
    BY <1>2, <1>8, <2>1 DEF Chronological
<1>9. ASSUME NEW i \in 1 .. Len(Events'), NEW cat \in Categories
      PROVE  NoneAfter(ListOf(store', cat), Events'[i].Timestamp)
  <2>1. i + 1 \in 1 .. Len(Events) /\ Events'[i] = Events[i + 1]
    BY <1>2
  <2>2. 1 < i + 1
    BY <1>9
  <2>3. event.Timestamp <= Events'[i].Timestamp
    BY <1>2, <2>1, <2>2 DEF Chronological
  <2>4. NoneAfter(ListOf(store, cat), Events'[i].Timestamp)
    BY <2>1 DEF Chronological
  <2>5. NoneAfter(ListOf(st, cat), Events'[i].Timestamp)
    BY <1>6, <2>3, <2>4
  <2> QED
    BY <1>3, <2>5, WindowNoneAfter DEF Shrinks
<1> QED
  BY <1>3, <1>6, <1>7, <1>8, <1>9 DEF Chronological, event

LEMMA ChronologicalKept ==
  IInv /\ IInv' /\ NothingYet /\ NothingYet' /\ Known /\ Chronological /\ Step
    => Chronological'
<1> SUFFICES ASSUME IInv, IInv', NothingYet, NothingYet', Known, Chronological, Step,
                    ChronologicalPublish
             PROVE  Chronological'
  BY DEF Chronological
<1>1. IsStore(store) /\ IsStore(store') /\ Events \in Seq(Event)
  BY DEF IInv, TypeOK
<1>2. ASSUME Shrinks(store', store), UNCHANGED Events PROVE Chronological'
  <2>1. InTimeOrder(store')
    BY <1>1, <1>2, ShrinksKeepsOrder DEF Chronological
  <2>2. \A cat \in Categories : \A t :
          NoneAfter(ListOf(store, cat), t) => NoneAfter(ListOf(store', cat), t)
    BY <1>2, WindowNoneAfter DEF Shrinks
  <2> QED
    BY <1>2, <2>1, <2>2 DEF Chronological
<1>3. CASE Loads
  <2>1. InTimeOrder(store') /\ Events' = <<>>
    BY <1>3 DEF Loads, Loading, NothingYet
  <2>2. Len(Events') = 0
    BY <2>1, EmptySeq
  <2> QED
    BY <2>1, <2>2 DEF Chronological
<1>4. CASE Purges
  BY <1>1, <1>2, <1>4, PurgedShrinks DEF Purges
<1>5. CASE Answers
  BY <1>2, <1>5, AnswersShrinks DEF Answers
<1>6. CASE Forwards
  BY <1>6, ForwardsChronological
<1>7. ASSUME UNCHANGED <<store, Events>> PROVE Chronological'
  BY <1>7 DEF Chronological
<1>8. ASSUME NEW sub \in Subscription, SendSubscription(sub) PROVE Chronological'
  BY <1>7, <1>8 DEF SendSubscription, managerVars
<1>9. ASSUME NEW c \in Clients, ReceiveEvents(c) PROVE Chronological'
  BY <1>7, <1>9 DEF ReceiveEvents, managerVars
<1>10. ASSUME NEW event \in Event, InOrder(event), SendEvent(event)
       PROVE  Chronological'
  <2>1. UNCHANGED store /\ Events' = Append(Events, event)
    BY <1>10 DEF SendEvent, managerVars
  <2> DEFINE n == Len(Events)
  <2>2. n \in Nat
    BY <1>1, LenProperties
  <2>3. /\ Len(Events') = n + 1
        /\ \A i \in 1 .. n : Events'[i] = Events[i]
        /\ Events'[n + 1] = event
    BY <1>1, <2>1, AppendProperties
  <2> HIDE DEF n
  <2>4. \A i \in 1 .. n : Events[i].Timestamp <= event.Timestamp
    BY <1>10 DEF Known, Among, InOrder, n
  <2>5. \A cat \in Categories : NoneAfter(ListOf(store, cat), event.Timestamp)
    BY <1>10 DEF Known, Among, InOrder, NoneAfter
  <2>6. \A i \in 1 .. Len(Events') : i \in 1 .. n \/ i = n + 1
    BY <2>2, <2>3
  <2>7. ASSUME NEW i \in 1 .. Len(Events'), NEW j \in 1 .. Len(Events'), i < j
        PROVE  Events'[i].Timestamp <= Events'[j].Timestamp
    <3>1. i \in 1 .. n
      BY <2>2, <2>3, <2>7
    <3> QED
      BY <2>3, <2>4, <2>6, <2>7, <3>1 DEF Chronological, n
  <2>8. \A i \in 1 .. Len(Events'), cat \in Categories :
          NoneAfter(ListOf(store, cat), Events'[i].Timestamp)
    BY <2>3, <2>5, <2>6 DEF Chronological, n
  <2>9. InTimeOrder(store)
    BY DEF Chronological
  <2> QED
    BY <2>1, <2>7, <2>8, <2>9 DEF Chronological
<1>11. CASE Quiet
  BY <1>7, <1>11 DEF Quiet
<1> QED
  BY <1>3, <1>4, <1>5, <1>6, <1>8, <1>9, <1>10, <1>11 DEF Step

-----------------------------------------------------------------------------
(* A poll that waits has been given all there is.                          *)
Waiting ==
  ChronologicalPublish =>
    \A c \in Clients, cat \in Categories :
      IsParked(c, cat) /\ c \in DOMAIN request =>
        NoneAfter(ListOf(store, cat), request[c].LastEventTime)

LEMMA AnswersParksNoneAfter ==
  ASSUME IInv, IInv', Chronological, ChronologicalPublish, Answers,
         Answer(store, Head(clientSubscriptions), now) = <<>>
  PROVE  LET sub == Head(clientSubscriptions)
         IN  NoneAfter(ListOf(store', sub.SubscriptionCategory), sub.LastEventTime)
<1> DEFINE sub   == Head(clientSubscriptions)
           cat   == sub.SubscriptionCategory
           batch == Answer(store, sub, now)
<1>1. /\ IsStore(store) /\ IsStore(store')
      /\ cat \in Categories /\ sub.LastEventTime \in Nat
      /\ batch = <<>> /\ batch \in Seq(Event)
  BY DEF IInv, TypeOK, Answers, Subscription
<1>2. PICK st : /\ GoodStore(st) /\ IsStore(st)
                /\ Serves(st, store, batch, sub)
                /\ IsPurged(store', st)
  BY DEF Answers, GoodStore
<1>3. PICK mid \in Seq(Event) : /\ IsTrimmed(mid, ListOf(store, cat))
                                /\ IsServed(ListOf(st, cat), batch, mid, sub)
  BY <1>2 DEF Serves
<1> HIDE DEF sub, cat, batch
<1>4. /\ ListOf(st, cat) \in Seq(Event) /\ ListOf(store, cat) \in Seq(Event)
  BY <1>1, <1>2, ListOfType
<1>5. TimeOrdered(mid)
  BY <1>1, <1>3, <1>4, TrimmedIsWindow, WindowProperties DEF Chronological, InTimeOrder
<1>6. NoneAfter(mid, sub.LastEventTime) /\ IsWindow(ListOf(st, cat), mid)
  BY <1>1, <1>3, <1>4, <1>5, ServedProperties
<1>7. NoneAfter(ListOf(st, cat), sub.LastEventTime)
  BY <1>6, WindowNoneAfter
<1>8. IsWindow(ListOf(store', cat), ListOf(st, cat))
  BY <1>2, PurgedShrinks DEF Shrinks
<1>9. NoneAfter(ListOf(store', cat), sub.LastEventTime)
  BY <1>7, <1>8, WindowNoneAfter
<1> QED
  BY <1>9 DEF sub, cat

LEMMA WaitingKept ==
  IInv /\ IInv' /\ OnePlace /\ NothingYet /\ Chronological /\ Waiting /\ Step => Waiting'
<1> SUFFICES ASSUME IInv, IInv', OnePlace, NothingYet, Chronological, Waiting, Step,
                    ChronologicalPublish
             PROVE  Waiting'
  BY DEF Waiting
<1>1. IsStore(store) /\ IsStore(store')
  BY DEF IInv, TypeOK
<1>2. ASSUME \A cat \in Categories : IsWindow(ListOf(store', cat), ListOf(store, cat)),
             \A c \in Clients, cat \in Categories : IsParked(c, cat)' => IsParked(c, cat),
             \A c \in DOMAIN request' : c \in DOMAIN request /\ request'[c] = request[c]
      PROVE  Waiting'
  BY <1>2, WindowNoneAfter DEF Waiting
<1>3. \A cat \in Categories : IsWindow(ListOf(store, cat), ListOf(store, cat))
  BY <1>1, ListOfType, WindowOfItself
<1>4. CASE Loads
  BY <1>4 DEF Loads, Waiting, NothingYet, Loading, IsParked
<1>5. CASE Purges
  BY <1>1, <1>2, <1>5, PurgedShrinks DEF Purges, Shrinks
<1>6. CASE Quiet
  BY <1>2, <1>3, <1>6 DEF Quiet, IsParked
<1>7. CASE Answers
  <2> DEFINE sub   == Head(clientSubscriptions)
             me    == sub.ClientUUID
             here  == sub.SubscriptionCategory
             batch == Answer(store, sub, now)
  <2>1. Shrinks(store', store) /\ UNCHANGED request
    BY <1>7, AnswersShrinks DEF Answers
  <2>2. CASE UNCHANGED ClientSubChannels
    BY <1>2, <2>1, <2>2 DEF Shrinks, IsParked
  <2>3. CASE /\ batch = <<>>
             /\ ClientSubChannels' = Put(ClientSubChannels, here, Parked(here) \cup {me})
    <3>1. NoneAfter(ListOf(store', here), sub.LastEventTime)
      BY <1>7, <2>3, AnswersParksNoneAfter
    <3>2. me \in DOMAIN request => request[me] = sub
      <4>1. /\ clientSubscriptions \in Seq(Subscription)
            /\ clientSubscriptions # <<>>
        BY <1>7 DEF Answers, IInv, TypeOK
      <4>2. 1 \in 1 .. Len(clientSubscriptions) /\ sub = clientSubscriptions[1]
        BY <4>1, QueueFront
      <4> QED
        BY <4>2 DEF OnePlace, QueuedOnly
    <3> HIDE DEF sub, me, here, batch
    <3>3. \A c \in Clients, cat \in Categories :
            IsParked(c, cat)' <=> IsParked(c, cat) \/ (c = me /\ cat = here)
      BY <2>3 DEF IsParked, Put, Parked
    <3>4. ASSUME NEW c \in Clients, NEW cat \in Categories, IsParked(c, cat)',
                 c \in DOMAIN request
          PROVE  NoneAfter(ListOf(store', cat), request[c].LastEventTime)
      <4>1. CASE c = me /\ cat = here
        BY <3>1, <3>2, <3>4, <4>1
      <4>2. CASE IsParked(c, cat)
        BY <2>1, <3>4, <4>2, WindowNoneAfter DEF Waiting, Shrinks
      <4> QED
        BY <3>3, <3>4, <4>1, <4>2
    <3> QED
      BY <2>1, <3>4 DEF Waiting
  <2> QED
    BY <1>7, <2>2, <2>3 DEF Answers
<1>8. CASE Forwards
  <2> DEFINE event == Head(Events)
             here  == event.Category
  <2>1. /\ ForwardToParked(event) /\ UNCHANGED request
        /\ event \in Event
    BY <1>8 DEF Forwards
  <2>2. PICK st : /\ IsStore(st)
                  /\ Receives(st, store, event, DoBufferEvents(event))
                  /\ Shrinks(store', st)
    BY <1>8, ForwardsReceives
  <2> HIDE DEF event
  <2>3. \A c \in Clients, cat \in Categories :
          IsParked(c, cat)' => IsParked(c, cat) /\ cat # here
    <3>1. CASE Parked(here) = {}
      BY <2>1, <3>1 DEF ForwardToParked, IsParked, Parked
    <3>2. CASE Parked(here) # {}
      BY <2>1, <3>2 DEF ForwardToParked, IsParked, Delete, Restrict
    <3> QED
      BY <3>1, <3>2
  <2>4. \A cat : cat # here => IsWindow(ListOf(store', cat), ListOf(store, cat))
    BY <2>2 DEF Receives, Shrinks
  <2> QED
    BY <2>1, <2>3, <2>4, WindowNoneAfter DEF Waiting
<1>9. ASSUME NEW sub \in Subscription, SendSubscription(sub) PROVE Waiting'
  <2> DEFINE me == sub.ClientUUID
  <2>1. /\ UNCHANGED <<ClientSubChannels, store>>
        /\ request' = Put(request, me, sub)
        /\ handler[me] = "idle" /\ me \in Clients
    BY <1>9 DEF SendSubscription, managerVars, Subscription
  <2>2. \A cat \in Categories : ~IsParked(me, cat)
    BY <2>1 DEF OnePlace, ParkedOnly
  <2>3. \A c \in DOMAIN request' : c # me => c \in DOMAIN request /\ request'[c] = request[c]
    BY <2>1 DEF Put
  <2> QED
    BY <2>1, <2>2, <2>3 DEF Waiting, IsParked
<1>10. ASSUME NEW c \in Clients, ReceiveEvents(c) PROVE Waiting'
  <2>1. /\ UNCHANGED <<ClientSubChannels, store>>
        /\ \A d \in DOMAIN request' : d \in DOMAIN request /\ request'[d] = request[d]
    BY <1>10 DEF ReceiveEvents, managerVars, Delete, Restrict
  <2> QED
    BY <1>2, <1>3, <2>1 DEF IsParked
<1>11. ASSUME NEW event \in Event, SendEvent(event) PROVE Waiting'
  BY <1>2, <1>3, <1>11 DEF SendEvent, managerVars, IsParked
<1> QED
  BY <1>4, <1>5, <1>6, <1>7, <1>8, <1>9, <1>10, <1>11 DEF Step

-----------------------------------------------------------------------------
(* The poll that is answered from a buffer.                                *)

LEMMA AnswerIsFresh ==
  ASSUME IInv, InTimeOrder(store), Answers,
         NEW sub, sub = Head(clientSubscriptions),
         NEW batch, batch = Answer(store, sub, now)
  PROVE  /\ \A i \in 1 .. Len(batch) :
              /\ ~Expired(batch[i])
              /\ batch[i].Category = sub.SubscriptionCategory
              /\ batch[i].Timestamp >= sub.LastEventTime
         /\ \A i, j \in 1 .. Len(batch) :
              i < j => batch[i].Timestamp <= batch[j].Timestamp
<1> DEFINE cat == sub.SubscriptionCategory
<1>1. /\ IsStore(store) /\ GoodStore(store) /\ now \in Nat
      /\ cat \in Categories /\ sub.LastEventTime \in Nat
      /\ batch \in Seq(Event)
  BY StoresAreGood DEF Answers, Subscription
<1>2. PICK st : GoodStore(st) /\ Serves(st, store, batch, sub)
  BY DEF Answers
<1>3. PICK mid \in Seq(Event) : /\ IsTrimmed(mid, ListOf(store, cat))
                                /\ mid # <<>> => ~Expired(mid[Len(mid)])
                                /\ IsServed(ListOf(st, cat), batch, mid, sub)
  BY <1>2 DEF Serves
<1>4. ListOf(st, cat) \in Seq(Event) /\ ListOf(store, cat) \in Seq(Event)
  BY <1>1, <1>2, ListOfType DEF GoodStore
<1>5. TimeOrdered(mid) /\ \A e : Holds(mid, e) => Holds(ListOf(store, cat), e)
  BY <1>1, <1>3, <1>4, TrimmedIsWindow, WindowProperties DEF InTimeOrder
<1>6. /\ \A e : Holds(batch, e) => Holds(mid, e)
      /\ \A i, j \in 1 .. Len(batch) :
           i < j => batch[i].Timestamp <= batch[j].Timestamp
      /\ \A i \in 1 .. Len(batch) : batch[i].Timestamp >= sub.LastEventTime
  BY <1>1, <1>3, <1>4, <1>5, ServedProperties
<1>7. ASSUME NEW e, Holds(mid, e) PROVE ~Expired(e)
  <2>1. PICK i \in 1 .. Len(mid) : mid[i] = e
    BY <1>7 DEF Holds
  <2>2. /\ Len(mid) \in 1 .. Len(mid) /\ mid # <<>>
        /\ i = Len(mid) \/ i < Len(mid)
    BY <2>1, LenProperties, EmptySeq
  <2>3. mid[i].Timestamp \in Nat /\ mid[Len(mid)].Timestamp \in Nat
    BY <2>1, <2>2, ElementsAreEvents
  <2>4. mid[i].Timestamp >= mid[Len(mid)].Timestamp
    BY <1>5, <2>2, <2>3 DEF TimeOrdered
  <2>5. ~Expired(mid[Len(mid)])
    BY <1>3, <2>2
  <2>6. Expiration(now) \in Int
    BY <1>1, ThresholdIsInt
  <2> QED
    BY <2>1, <2>3, <2>4, <2>5, <2>6 DEF Expired
<1>8. ASSUME NEW e, Holds(ListOf(store, cat), e) PROVE e.Category = cat
  <2>1. PICK i \in 1 .. Len(ListOf(store, cat)) : ListOf(store, cat)[i] = e
    BY <1>8 DEF Holds
  <2>2. cat \in DOMAIN store.SubEventBuffer
    BY <2>1, EmptySeq DEF ListOf
  <2>3. ListOf(store, cat) = store.SubEventBuffer[cat].List
    BY <2>2 DEF ListOf
  <2>4. DOMAIN store.SubEventBuffer[cat].List = 1 .. Len(store.SubEventBuffer[cat].List)
    BY <1>4, <2>3, LenProperties
  <2> QED
    BY <1>1, <2>1, <2>2, <2>3, <2>4 DEF GoodStore, StoreOK, WellFormedBuffer
<1>9. ASSUME NEW i \in 1 .. Len(batch)
      PROVE  ~Expired(batch[i]) /\ batch[i].Category = cat
  <2>1. Holds(batch, batch[i])
    BY DEF Holds
  <2> QED
    BY <1>5, <1>6, <1>7, <1>8, <2>1
<1> QED
  BY <1>6, <1>9

-----------------------------------------------------------------------------
(* The invariants hold together.                                           *)

DeliveryInv == OnePlace /\ NothingYet /\ Known /\ Chronological /\ Waiting

LEMMA DeliveryInvariance == Spec => []DeliveryInv
<1>1. Init => NothingYet /\ Known /\ Chronological /\ Waiting
  <2>1. Init => Waiting
    BY DEF Init, Waiting, IsParked, EmptyMap
  <2> QED
    BY <2>1, InitNothingYet, InitKnown, InitChronological
<1>2. /\ IInv /\ IInv' /\ OnePlace /\ NothingYet /\ Known /\ Chronological /\ Waiting
      /\ [Next]_vars
      => NothingYet' /\ Known' /\ Chronological' /\ Waiting'
  BY NextSteps, NothingYetKept, KnownKept, ChronologicalKept, WaitingKept
<1> QED
  BY <1>1, <1>2, Invariance, OnePlaceInvariance, PTL DEF Spec, DeliveryInv

(* A poll that waits has been given all there is: when publishers take     *)
(* their stamps in the order they publish, nothing in the buffer of a      *)
(* parked client's category is newer than the time its poll asked for.     *)
THEOREM NoDataMissed ==
  ASSUME ChronologicalPublish
  PROVE  Spec => []NoParkedClientMissesData
<1>1. IInv /\ DeliveryInv => NoParkedClientMissesData
  <2> SUFFICES ASSUME IInv, DeliveryInv,
                      NEW c \in DOMAIN request, NEW cat \in ParkedIn(c),
                      cat \in DOMAIN store.SubEventBuffer,
                      NEW e \in ToSet(store.SubEventBuffer[cat].List)
               PROVE  e.Timestamp <= request[c].LastEventTime
    BY DEF NoParkedClientMissesData
  <2>1. c \in Clients /\ cat \in Categories /\ IsParked(c, cat)
    BY DEF IInv, TypeOK, IsMap, ParkedIn, IsParked
  <2>2. ListOf(store, cat) = store.SubEventBuffer[cat].List
    BY DEF ListOf
  <2>3. NoneAfter(ListOf(store, cat), request[c].LastEventTime)
    BY <2>1 DEF DeliveryInv, Waiting
  <2>4. PICK i \in 1 .. Len(ListOf(store, cat)) : ListOf(store, cat)[i] = e
    BY <2>2, StoresAreGood, ListOfType, LenProperties DEF ToSet
  <2> QED
    BY <2>3, <2>4 DEF NoneAfter
<1> QED
  BY <1>1, Invariance, DeliveryInvariance, PTL

(* What a poll is answered with is past the time it asked for, of its      *)
(* category, oldest first, and not expired, though events expire while     *)
(* they wait in the buffer and only the answering handler looks.           *)
THEOREM FreshAnswers ==
  ASSUME ChronologicalPublish
  PROVE  Spec => AnswersAreFresh
<1> DEFINE Fresh == \A sub \in ToSet(clientSubscriptions) :
       LET batch == Head(subEvents'[sub.ClientUUID])
       IN  subEvents'[sub.ClientUUID] # subEvents[sub.ClientUUID] =>
             /\ \A i \in DOMAIN batch :
                  /\ ~Expired(batch[i])
                  /\ batch[i].Category = sub.SubscriptionCategory
                  /\ batch[i].Timestamp >= sub.LastEventTime
             /\ \A i, j \in DOMAIN batch :
                  i < j => batch[i].Timestamp <= batch[j].Timestamp
<1>1. IInv /\ DeliveryInv /\ [Next]_vars => [Fresh]_vars
  <2> SUFFICES ASSUME IInv, DeliveryInv, Step,
                      NEW sub \in ToSet(clientSubscriptions),
                      NEW me, me = sub.ClientUUID,
                      NEW batch, batch = Head(subEvents'[me]),
                      subEvents'[me] # subEvents[me]
               PROVE  /\ \A i \in DOMAIN batch :
                           /\ ~Expired(batch[i])
                           /\ batch[i].Category = sub.SubscriptionCategory
                           /\ batch[i].Timestamp >= sub.LastEventTime
                      /\ \A i, j \in DOMAIN batch :
                           i < j => batch[i].Timestamp <= batch[j].Timestamp
    BY NextSteps DEF Fresh
  <2>1. clientSubscriptions \in Seq(Subscription)
    BY DEF IInv, TypeOK
  <2>2. PICK n \in 1 .. Len(clientSubscriptions) : clientSubscriptions[n] = sub
    BY <2>1, LenProperties DEF ToSet
  <2>3. /\ me \in Clients /\ subEvents[me] = <<>>
        /\ \A cat \in Categories : ~IsParked(me, cat)
    BY <2>2, QueuedTypes DEF IInv, DeliveryInv, OnePlace, QueuedOnly
  <2>4. ~(Loads \/ Purges \/ Quiet)
    BY DEF Loads, Purges, Quiet
  <2>5. ~\E s \in Subscription : SendSubscription(s)
    BY DEF SendSubscription
  <2>6. ~\E event \in Event : SendEvent(event)
    BY DEF SendEvent
  <2>7. ~\E c \in Clients : ReceiveEvents(c)
    <3> SUFFICES ASSUME NEW c \in Clients, ReceiveEvents(c) PROVE FALSE
      OBVIOUS
    <3> QED
      BY <2>3 DEF ReceiveEvents, IInv, TypeOK
  <2>8. ~Forwards
    <3> SUFFICES ASSUME Forwards PROVE FALSE
      OBVIOUS
    <3>1. Head(Events).Category \in Categories /\ ForwardToParked(Head(Events))
      BY DEF Forwards, Event
    <3>2. me \notin Parked(Head(Events).Category)
      BY <2>3, <3>1 DEF Parked, IsParked
    <3> QED
      BY <2>3, <3>1, <3>2 DEF ForwardToParked, SendBatch
  <2>9. Answers
    BY <2>4, <2>5, <2>6, <2>7, <2>8 DEF Step
  <2> DEFINE first == Head(clientSubscriptions)
             b     == Answer(store, first, now)
  <2>10. clientSubscriptions # <<>> /\ SendBatch({first.ClientUUID}, b) /\ b \in Seq(Event)
    BY <2>9 DEF Answers
  <2>11. 1 \in 1 .. Len(clientSubscriptions) /\ first = clientSubscriptions[1]
    BY <2>1, <2>10, QueueFront
  <2>12. first.ClientUUID = me /\ subEvents'[me] = <<b>>
    BY <2>3, <2>10 DEF SendBatch
  <2>13. first = sub
    BY <2>2, <2>11, <2>12 DEF DeliveryInv, OnePlace, QueuedOnce
  <2>14. batch = b /\ DOMAIN batch = 1 .. Len(batch)
    BY <2>10, <2>12, LenProperties
  <2>15. InTimeOrder(store)
    BY DEF DeliveryInv, Chronological
  <2> QED
    BY <2>9, <2>13, <2>14, <2>15, AnswerIsFresh
<1> QED
  BY <1>1, Invariance, DeliveryInvariance, PTL DEF Spec, AnswersAreFresh

-----------------------------------------------------------------------------
(* An event leaves its buffer for one of three reasons.                    *)

LEMMA BufferedInLists ==
  ASSUME NEW st, GoodStore(st)
  PROVE  \A e : e \in Buffered(st) <=> \E c \in Categories : Holds(ListOf(st, c), e)
<1> SUFFICES ASSUME NEW e
             PROVE  e \in Buffered(st) <=> \E c \in Categories : Holds(ListOf(st, c), e)
  OBVIOUS
<1>1. IsStore(st)
  BY DEF GoodStore
<1>2. \A c \in DOMAIN st.SubEventBuffer :
        /\ c \in Categories
        /\ ListOf(st, c) = st.SubEventBuffer[c].List
        /\ e \in ToSet(st.SubEventBuffer[c].List) <=> Holds(ListOf(st, c), e)
  <2> SUFFICES ASSUME NEW c \in DOMAIN st.SubEventBuffer
               PROVE  /\ c \in Categories
                      /\ ListOf(st, c) = st.SubEventBuffer[c].List
                      /\ e \in ToSet(st.SubEventBuffer[c].List)
                           <=> Holds(ListOf(st, c), e)
    OBVIOUS
  <2>1. /\ c \in Categories /\ ListOf(st, c) = st.SubEventBuffer[c].List
        /\ st.SubEventBuffer[c].List \in Seq(Event)
    BY <1>1, BufferType DEF ListOf
  <2>2. DOMAIN st.SubEventBuffer[c].List = 1 .. Len(st.SubEventBuffer[c].List)
    BY <2>1, LenProperties
  <2> QED
    BY <2>1, <2>2 DEF ToSet, Holds
<1>3. \A c : Holds(ListOf(st, c), e) => c \in DOMAIN st.SubEventBuffer
  BY EmptySeq DEF ListOf, Holds
<1>4. e \in Buffered(st) <=> \E c \in DOMAIN st.SubEventBuffer :
                               e \in ToSet(st.SubEventBuffer[c].List)
  BY DEF Buffered
<1> QED
  BY <1>2, <1>3, <1>4

LEMMA HeldByItsCategory ==
  ASSUME NEW st, GoodStore(st), NEW c, NEW e, Holds(ListOf(st, c), e)
  PROVE  /\ e \in Event /\ e.Category = c /\ c \in Categories
         /\ c \in DOMAIN st.SubEventBuffer
<1>1. c \in DOMAIN st.SubEventBuffer /\ ListOf(st, c) = st.SubEventBuffer[c].List
  BY EmptySeq DEF ListOf, Holds
<1>2. /\ c \in Categories /\ ListOf(st, c) \in Seq(Event)
      /\ DOMAIN ListOf(st, c) = 1 .. Len(ListOf(st, c))
  BY <1>1, BufferType, LenProperties DEF GoodStore
<1>3. PICK i \in 1 .. Len(ListOf(st, c)) : ListOf(st, c)[i] = e
  BY DEF Holds
<1>4. e \in Event
  BY <1>2, <1>3, ElementsAreEvents
<1> QED
  BY <1>1, <1>2, <1>3, <1>4 DEF GoodStore, StoreOK, WellFormedBuffer

LEMMA ReceivesLoses ==
  ASSUME NEW new, NEW old, IsStore(new), IsStore(old), NEW event \in Event,
         NEW buffer \in BOOLEAN, Receives(new, old, event, buffer),
         NEW c, NEW e, Holds(ListOf(old, c), e), ~Holds(ListOf(new, c), e)
  PROVE  \/ Expired(e)
         \/ /\ c = event.Category
            /\ Len(ListOf(old, c)) = MaxEventBufferSize
            /\ e = Last(ListOf(old, c))
<1>1. c = event.Category
  BY DEF Receives
<1>2. PICK mid \in Seq(Event) :
        /\ IF buffer THEN IsPushed(mid, ListOf(old, c), event)
                     ELSE mid = ListOf(old, c)
        /\ IsTrimmed(ListOf(new, c), mid)
  BY <1>1 DEF Receives
<1>3. CASE Holds(mid, e)
  BY <1>2, <1>3, ListOfType, TrimmedLoses
<1>4. CASE ~Holds(mid, e)
  BY <1>1, <1>2, <1>4, ListOfType, PushedProperties
<1> QED
  BY <1>3, <1>4

LEMMA ServesLoses ==
  ASSUME NEW new, NEW old, IsStore(new), IsStore(old), NEW batch \in Seq(Event),
         NEW sub, sub.LastEventTime \in Nat, Serves(new, old, batch, sub),
         NEW c, NEW e, Holds(ListOf(old, c), e), ~Holds(ListOf(new, c), e)
  PROVE  \/ Expired(e)
         \/ DeleteEventAfterFirstRetrieval /\ Holds(batch, e)
<1>1. c = sub.SubscriptionCategory
  BY DEF Serves
<1>2. PICK mid \in Seq(Event) : /\ IsTrimmed(mid, ListOf(old, c))
                                /\ IsServed(ListOf(new, c), batch, mid, sub)
  BY <1>1 DEF Serves
<1>3. CASE ~Holds(mid, e)
  BY <1>2, <1>3, ListOfType, TrimmedLoses
<1>4. CASE Holds(mid, e)
  BY <1>2, <1>4, ListOfType, ServedProperties
<1> QED
  BY <1>3, <1>4

LEMMA ForwardsLosesForAReason ==
  ASSUME IInv, IInv', Chronological, ChronologicalPublish, Forwards,
         NEW c, NEW e, Holds(ListOf(store, c), e), ~Holds(ListOf(store', c), e)
  PROVE  LeavesForAReason(e)
<1> DEFINE event == Head(Events)
<1>1. /\ Events \in Seq(Event) /\ Events # <<>> /\ Events' = Tail(Events)
      /\ IsStore(store) /\ GoodStore(store) /\ now \in Nat
      /\ event \in Event /\ DoBufferEvents(event) \in BOOLEAN
  BY StoresAreGood, DoBufferEventsType DEF IInv, TypeOK, Forwards
<1>2. PICK st : /\ GoodStore(st) /\ IsStore(st) /\ InTimeOrder(st)
                /\ Receives(st, store, event, DoBufferEvents(event))
                /\ IsPurged(store', st)
  BY ForwardsChronological
<1>3. CASE Holds(ListOf(st, c), e)
  BY <1>1, <1>2, <1>3, PurgedLoses DEF LeavesForAReason
<1>4. CASE ~Holds(ListOf(st, c), e)
  <2> HIDE DEF event
  <2>1. \/ Expired(e)
        \/ /\ c = event.Category
           /\ Len(ListOf(store, c)) = MaxEventBufferSize
           /\ e = Last(ListOf(store, c))
    BY <1>1, <1>2, <1>4, ReceivesLoses
  <2>2. e.Category = c /\ c \in DOMAIN store.SubEventBuffer
    BY <1>1, HeldByItsCategory
  <2>3. ListOf(store, c) = store.SubEventBuffer[c].List
    BY <2>2 DEF ListOf
  <2>4. Events' # Events
    <3>1. Len(Tail(Events)) = Len(Events) - 1 /\ Len(Events) \in Nat
      BY <1>1, QueueFront, LenProperties
    <3>2. Len(Tail(Events)) # Len(Events)
      BY <3>1
    <3> QED
      BY <1>1, <3>2
  <2> QED
    BY <2>1, <2>2, <2>3, <2>4 DEF LeavesForAReason, event
<1> QED
  BY <1>3, <1>4

LEMMA AnswersLosesForAReason ==
  ASSUME IInv, IInv', InTimeOrder(store), Answers,
         NEW c, NEW e, Holds(ListOf(store, c), e), ~Holds(ListOf(store', c), e)
  PROVE  LeavesForAReason(e)
<1> DEFINE sub   == Head(clientSubscriptions)
           batch == Answer(store, sub, now)
           me    == sub.ClientUUID
<1>1. /\ IsStore(store) /\ now \in Nat
      /\ sub.LastEventTime \in Nat /\ batch \in Seq(Event) /\ me \in Clients
  BY StoresAreGood DEF Answers, Subscription
<1>2. PICK st : /\ GoodStore(st) /\ IsStore(st)
                /\ Serves(st, store, batch, sub)
                /\ IsPurged(store', st)
  BY DEF Answers, GoodStore
<1>3. InTimeOrder(st)
  BY <1>1, <1>2, ServesShrinks, ShrinksKeepsOrder
<1>4. CASE Holds(ListOf(st, c), e)
  BY <1>1, <1>2, <1>3, <1>4, PurgedLoses DEF LeavesForAReason
<1>5. CASE ~Holds(ListOf(st, c), e)
  <2>1. CASE Expired(e)
    BY <2>1 DEF LeavesForAReason
  <2>2. CASE DeleteEventAfterFirstRetrieval /\ Holds(batch, e)
    <3>1. batch # <<>> /\ e \in ToSet(batch)
      BY <1>1, <2>2, EmptySeq, LenProperties DEF Holds, ToSet
    <3>2. subEvents'[me] = <<batch>>
      <4>1. SendBatch({me}, batch)
        BY <3>1 DEF Answers
      <4> HIDE DEF batch, me
      <4> QED
        BY <1>1, <4>1 DEF SendBatch
    <3>3. batch \in ToSet(subEvents'[me])
      BY <3>2 DEF ToSet
    <3> HIDE DEF batch, me
    <3> QED
      BY <1>1, <2>2, <3>1, <3>3 DEF LeavesForAReason
  <2> QED
    BY <1>1, <1>2, <1>5, <2>1, <2>2, ServesLoses
<1> QED
  BY <1>4, <1>5

(* No live event is dropped: an event leaves its buffer only when its time *)
(* to live is over, as the oldest of a full buffer that receives another   *)
(* one, or served with delete-on-retrieval.  The purge goes by the heap's  *)
(* priorities, which are the time of one event, never of the others.       *)
THEOREM NoLiveEventLost ==
  ASSUME ChronologicalPublish
  PROVE  Spec => NoLiveEventDropped
<1> DEFINE Reasons == run # "loading" =>
             \A e \in Buffered(store) \ Buffered(store)' : LeavesForAReason(e)
<1>1. IInv /\ IInv' /\ DeliveryInv /\ [Next]_vars => [Reasons]_vars
  <2> SUFFICES ASSUME IInv, IInv', DeliveryInv, Step, run # "loading",
                      NEW e \in Buffered(store) \ Buffered(store)'
               PROVE  LeavesForAReason(e)
    BY NextSteps DEF Reasons
  <2>1. GoodStore(store) /\ GoodStore(store') /\ now \in Nat /\ IsStore(store)
    BY StoresAreGood DEF IInv, TypeOK, StoreConsistent, GoodStore
  <2>2. PICK c \in Categories : Holds(ListOf(store, c), e)
    BY <2>1, BufferedInLists
  <2>3. ~Holds(ListOf(store', c), e)
    <3>1. Buffered(store)' = Buffered(store')
      BY DEF Buffered
    <3>2. e \notin Buffered(store')
      BY <3>1
    <3> QED
      BY <2>1, <3>2, BufferedInLists
  <2>4. Chronological /\ InTimeOrder(store)
    BY DEF DeliveryInv, Chronological
  <2>5. CASE Purges
    BY <2>1, <2>2, <2>3, <2>4, <2>5, PurgedLoses DEF Purges, LeavesForAReason
  <2>6. CASE Answers
    BY <2>2, <2>3, <2>4, <2>6, AnswersLosesForAReason
  <2>7. CASE Forwards
    BY <2>2, <2>3, <2>4, <2>7, ForwardsLosesForAReason
  <2>8. store' # store
    BY <2>2, <2>3
  <2>9. ~Quiet /\ ~Loads
    BY <2>8 DEF Quiet, Loads
  <2>10. ~\E sub \in Subscription : SendSubscription(sub)
    BY <2>8 DEF SendSubscription, managerVars
  <2>11. ~\E cl \in Clients : ReceiveEvents(cl)
    BY <2>8 DEF ReceiveEvents, managerVars
  <2>12. ~\E event \in Event : SendEvent(event)
    BY <2>8 DEF SendEvent, managerVars
  <2> QED
    BY <2>5, <2>6, <2>7, <2>9, <2>10, <2>11, <2>12 DEF Step
<1> QED
  BY <1>1, Invariance, DeliveryInvariance, PTL DEF Spec, NoLiveEventDropped

-----------------------------------------------------------------------------
(* An event is in one place: to be loaded, in the channel, or in a buffer. *)

Apart(a, b) == \A i \in 1 .. Len(a) : ~Holds(b, a[i])

LEMMA ApartHolds ==
  ASSUME NEW a, NEW b
  PROVE  Apart(a, b) <=> \A e : ~(Holds(a, e) /\ Holds(b, e))
BY DEF Apart, Holds

LEMMA TailApart ==
  ASSUME NEW S, NEW q \in Seq(S), q # <<>>, NoRepeats(q)
  PROVE  /\ NoRepeats(Tail(q))
         /\ ~Holds(Tail(q), Head(q))
         /\ \A e : Holds(Tail(q), e) => Holds(q, e)
         /\ Holds(q, Head(q))
<1>1. /\ 1 \in 1 .. Len(q) /\ Head(q) = q[1] /\ Len(q) \in Nat
      /\ Len(Tail(q)) = Len(q) - 1
      /\ \A i \in 1 .. Len(Tail(q)) :
           i + 1 \in 1 .. Len(q) /\ Tail(q)[i] = q[i + 1]
  BY QueueFront, LenProperties
<1>2. ASSUME NEW i \in 1 .. Len(Tail(q)), NEW j \in 1 .. Len(Tail(q)),
             Tail(q)[i] = Tail(q)[j]
      PROVE  i = j
  <2>1. i + 1 = j + 1
    BY <1>1, <1>2 DEF NoRepeats
  <2> QED
    BY <1>1, <2>1
<1>3. ASSUME NEW i \in 1 .. Len(Tail(q)), Tail(q)[i] = Head(q) PROVE FALSE
  <2>1. i + 1 = 1
    BY <1>1, <1>3 DEF NoRepeats
  <2> QED
    BY <1>1, <2>1
<1> QED
  BY <1>1, <1>2, <1>3 DEF NoRepeats, Holds

OnceLoaded ==
  /\ NoRepeats(startup.startChan)
  /\ Loading => \A cat \in Categories : Apart(startup.startChan, ListOf(store, cat))

OnceBuffered ==
  /\ NoRepeats(Events)
  /\ \A cat \in Categories : /\ NoRepeats(ListOf(store, cat))
                             /\ Apart(Events, ListOf(store, cat))

OnceServed ==
  DeleteEventAfterFirstRetrieval =>
    \A c \in Clients : \A i \in 1 .. Len(subEvents[c]) :
      /\ Apart(subEvents[c][i], Events)
      /\ \A cat \in Categories : Apart(subEvents[c][i], ListOf(store, cat))

Once == OnceLoaded /\ OnceBuffered /\ OnceServed

LEMMA InitOnce ==
  ASSUME \A events \in InitialEvents : NoRepeats(events)
  PROVE  Init => Once
<1> SUFFICES ASSUME Init PROVE Once
  OBVIOUS
<1>1. NoRepeats(startup.startChan)
  BY DEF Init
<1>2. \A c : Len(ListOf(store, c)) = 0
  BY EmptySeq DEF Init, ListOf, EmptyMap
<1>3. Len(Events) = 0 /\ \A c \in Clients : Len(subEvents[c]) = 0
  BY EmptySeq DEF Init
<1> QED
  BY <1>1, <1>2, <1>3
     DEF Once, OnceLoaded, OnceBuffered, OnceServed, NoRepeats, Apart, Holds

LEMMA ShrinksOnce ==
  ASSUME NEW new, NEW old, IsStore(new), IsStore(old), Shrinks(new, old),
         NEW cat \in Categories
  PROVE  /\ NoRepeats(ListOf(old, cat)) => NoRepeats(ListOf(new, cat))
         /\ \A list : Apart(list, ListOf(old, cat)) => Apart(list, ListOf(new, cat))
<1>1. NoRepeats(ListOf(old, cat)) => NoRepeats(ListOf(new, cat))
  BY ListOfType, WindowProperties DEF Shrinks
<1>2. \A list : Apart(list, ListOf(old, cat)) => Apart(list, ListOf(new, cat))
  BY ShrinksHolds DEF Apart
<1> QED
  BY <1>1, <1>2

LEMMA ReceivesOnce ==
  ASSUME NEW new, NEW old, IsStore(new), IsStore(old), NEW event \in Event,
         NEW buffer \in BOOLEAN, Receives(new, old, event, buffer),
         \A cat \in Categories : /\ NoRepeats(ListOf(old, cat))
                                 /\ ~Holds(ListOf(old, cat), event)
  PROVE  \A cat \in Categories :
           /\ NoRepeats(ListOf(new, cat))
           /\ \A list : Apart(list, ListOf(old, cat)) /\ ~(Holds(list, event) /\ buffer)
                          => Apart(list, ListOf(new, cat))
<1> SUFFICES ASSUME NEW cat \in Categories
             PROVE  /\ NoRepeats(ListOf(new, cat))
                    /\ \A list : Apart(list, ListOf(old, cat))
                                 /\ ~(Holds(list, event) /\ buffer)
                          => Apart(list, ListOf(new, cat))
  OBVIOUS
<1>1. NoRepeats(ListOf(new, cat))
  <2>1. CASE cat # event.Category
    BY <2>1 DEF Receives
  <2>2. CASE cat = event.Category
    <3>1. PICK mid \in Seq(Event) :
            /\ IF buffer THEN IsPushed(mid, ListOf(old, cat), event)
                         ELSE mid = ListOf(old, cat)
            /\ IsTrimmed(ListOf(new, cat), mid)
      BY <2>2 DEF Receives
    <3>2. NoRepeats(mid)
      BY <3>1, ListOfType, PushedProperties
    <3> QED
      BY <3>1, <3>2, ListOfType, TrimmedIsWindow, WindowProperties
  <2> QED
    BY <2>1, <2>2
<1>2. \A list : Apart(list, ListOf(old, cat)) /\ ~(Holds(list, event) /\ buffer)
                  => Apart(list, ListOf(new, cat))
  <2>1. \A e : Holds(ListOf(new, cat), e) =>
                 Holds(ListOf(old, cat), e) \/ (e = event /\ buffer)
    BY ReceivesHolds
  <2> QED
    BY <2>1, ApartHolds
<1> QED
  BY <1>1, <1>2

LEMMA LoadsOnce ==
  ASSUME IInv, IInv', NothingYet, Once, Loads
  PROVE  Once'
<1> DEFINE event == Head(startup.startChan)
<1>1. /\ Loading /\ UNCHANGED <<Events, subEvents>>
      /\ startup.startChan \in Seq(Event) /\ startup.startChan # <<>>
      /\ IsStore(store) /\ IsStore(store') /\ event \in Event
  BY DEF Loads, Loading, IInv, TypeOK
<1>2. Len(Events') = 0 /\ \A c \in Clients : Len(subEvents'[c]) = 0
  BY <1>1, EmptySeq DEF NothingYet
<1>3. OnceServed'
  BY <1>2 DEF OnceServed
<1>4. NoRepeats(Events') /\ \A cat : Apart(Events', ListOf(store', cat))
  BY <1>2 DEF NoRepeats, Apart
<1>5. /\ NoRepeats(Tail(startup.startChan))
      /\ ~Holds(Tail(startup.startChan), event)
      /\ \A e : Holds(Tail(startup.startChan), e) => Holds(startup.startChan, e)
      /\ Holds(startup.startChan, event)
  BY <1>1, TailApart DEF Once, OnceLoaded
<1>6. NoRepeats(startup'.startChan)
  BY <1>5 DEF Loads, Once, OnceLoaded
<1>7. \A cat \in Categories :
        /\ NoRepeats(ListOf(store, cat))
        /\ Apart(startup.startChan, ListOf(store, cat))
        /\ ~Holds(ListOf(store, cat), event)
        /\ Apart(Tail(startup.startChan), ListOf(store, cat))
  <2>1. \A cat \in Categories : /\ NoRepeats(ListOf(store, cat))
                                /\ Apart(startup.startChan, ListOf(store, cat))
    BY <1>1 DEF Once, OnceLoaded, OnceBuffered
  <2> HIDE DEF event
  <2> QED
    BY <1>5, <2>1, ApartHolds
<1> HIDE DEF event
<1>8. \A cat \in Categories : /\ NoRepeats(ListOf(store', cat))
                              /\ Apart(startup'.startChan, ListOf(store', cat))
  <2>1. CASE UNCHANGED store
    BY <1>7, <2>1 DEF Loads
  <2>2. CASE Receives(store', store, event, TRUE) /\ startup'.startChan = Tail(startup.startChan)
    BY <1>1, <1>5, <1>7, <2>2, ReceivesOnce
  <2> QED
    BY <2>1, <2>2 DEF Loads, event
<1> QED
  BY <1>3, <1>4, <1>6, <1>8 DEF Once, OnceLoaded, OnceBuffered

LEMMA AnswersOnce ==
  ASSUME IInv, IInv', Once, Answers
  PROVE  Once'
<1> DEFINE sub   == Head(clientSubscriptions)
           here  == sub.SubscriptionCategory
           me    == sub.ClientUUID
           batch == Answer(store, sub, now)
<1>1. /\ IsStore(store) /\ IsStore(store') /\ GoodStore(store) /\ GoodStore(store')
      /\ UNCHANGED <<startup, Events>> /\ ~Loading'
      /\ here \in Categories /\ sub.LastEventTime \in Nat
      /\ batch \in Seq(Event)
  BY StoresAreGood DEF Answers, Subscription, IInv, TypeOK, StoreConsistent, GoodStore
<1>2. /\ batch # <<>> /\ SendBatch({me}, batch)
      \/ UNCHANGED subEvents
  BY DEF Answers
<1>3. Shrinks(store', store)
  BY AnswersShrinks
<1>4. PICK st : /\ GoodStore(st) /\ IsStore(st)
                /\ Serves(st, store, batch, sub)
                /\ Shrinks(store', st)
  BY PurgedShrinks DEF Answers, GoodStore
<1>5. PICK mid \in Seq(Event) : /\ IsTrimmed(mid, ListOf(store, here))
                                /\ IsServed(ListOf(st, here), batch, mid, sub)
  BY <1>4 DEF Serves
<1> HIDE DEF sub, here, me, batch
<1>6. OnceLoaded' /\ OnceBuffered'
  BY <1>1, <1>3, ShrinksOnce DEF Once, OnceLoaded, OnceBuffered
<1>7. /\ ListOf(store, here) \in Seq(Event) /\ ListOf(st, here) \in Seq(Event)
      /\ NoRepeats(mid)
      /\ \A e : Holds(mid, e) => Holds(ListOf(store, here), e)
  BY <1>1, <1>4, <1>5, ListOfType, TrimmedIsWindow, WindowProperties
     DEF Once, OnceBuffered
<1>8. ASSUME DeleteEventAfterFirstRetrieval, NEW e, Holds(batch, e)
      PROVE  ~Holds(Events, e) /\ \A cat \in Categories : ~Holds(ListOf(store', cat), e)
  <2>1. Holds(ListOf(store, here), e) /\ ~Holds(ListOf(st, here), e)
    BY <1>1, <1>5, <1>7, <1>8, ServedProperties
  <2>2. ~Holds(Events, e)
    BY <1>1, <2>1, ApartHolds DEF Once, OnceBuffered
  <2>3. ~Holds(ListOf(store', here), e)
    BY <1>1, <1>4, <2>1, ShrinksHolds
  <2>4. ASSUME NEW cat \in Categories, Holds(ListOf(store', cat), e) PROVE cat = here
    BY <1>1, <2>1, <2>4, HeldByItsCategory
  <2> QED
    BY <2>2, <2>3, <2>4
<1>9. OnceServed'
  <2>1. SUFFICES ASSUME DeleteEventAfterFirstRetrieval, NEW c \in Clients,
                        NEW i \in 1 .. Len(subEvents'[c])
                 PROVE  /\ Apart(subEvents'[c][i], Events)
                        /\ \A cat \in Categories :
                             Apart(subEvents'[c][i], ListOf(store', cat))
    BY <1>1 DEF OnceServed
  <2>2. CASE subEvents'[c] = subEvents[c]
    BY <1>1, <1>3, <2>1, <2>2, ShrinksOnce DEF Once, OnceServed
  <2>3. CASE subEvents'[c] = <<batch>>
    <3>1. subEvents'[c][i] = batch
      BY <2>1, <2>3
    <3> QED
      BY <1>8, <2>1, <3>1, ApartHolds
  <2> QED
    BY <1>2, <2>2, <2>3 DEF SendBatch
<1> QED
  BY <1>6, <1>9 DEF Once

LEMMA ForwardsOnce ==
  ASSUME IInv, IInv', Once, Forwards
  PROVE  Once'
<1> DEFINE event  == Head(Events)
           buffer == DoBufferEvents(event)
<1>1. /\ IsStore(store) /\ IsStore(store')
      /\ Events \in Seq(Event) /\ Events # <<>> /\ Events' = Tail(Events)
      /\ event \in Event /\ buffer \in BOOLEAN
      /\ UNCHANGED startup /\ ~Loading'
      /\ SendBatch(Parked(event.Category), <<event>>)
  BY DoBufferEventsType DEF Forwards, ForwardToParked, IInv, TypeOK
<1>2. PICK st : /\ IsStore(st)
                /\ Receives(st, store, event, buffer)
                /\ Shrinks(store', st)
  BY ForwardsReceives
<1>3. /\ NoRepeats(Events') /\ ~Holds(Events', event) /\ Holds(Events, event)
      /\ \A e : Holds(Events', e) => Holds(Events, e)
  BY <1>1, TailApart DEF Once, OnceBuffered
<1> HIDE DEF event
<1>4. \A cat \in Categories : /\ NoRepeats(ListOf(store, cat))
                              /\ ~Holds(ListOf(store, cat), event)
                              /\ Apart(Events', ListOf(store, cat))
  BY <1>3, ApartHolds DEF Once, OnceBuffered
<1> HIDE DEF buffer
<1>5. ASSUME NEW cat \in Categories
      PROVE  /\ NoRepeats(ListOf(store', cat))
             /\ \A list : Apart(list, ListOf(store, cat)) /\ ~(Holds(list, event) /\ buffer)
                            => Apart(list, ListOf(store', cat))
  <2>1. /\ NoRepeats(ListOf(st, cat))
        /\ \A list : Apart(list, ListOf(store, cat)) /\ ~(Holds(list, event) /\ buffer)
                       => Apart(list, ListOf(st, cat))
    BY <1>1, <1>2, <1>4, ReceivesOnce
  <2> QED
    BY <1>1, <1>2, <2>1, ShrinksOnce
<1>6. OnceLoaded' /\ OnceBuffered'
  BY <1>1, <1>3, <1>4, <1>5 DEF Once, OnceLoaded, OnceBuffered
<1>7. OnceServed'
  <2>1. SUFFICES ASSUME DeleteEventAfterFirstRetrieval, NEW c \in Clients,
                        NEW i \in 1 .. Len(subEvents'[c])
                 PROVE  /\ Apart(subEvents'[c][i], Events')
                        /\ \A cat \in Categories :
                             Apart(subEvents'[c][i], ListOf(store', cat))
    BY DEF OnceServed
  <2>2. CASE subEvents'[c] = subEvents[c]
    <3>1. /\ Apart(subEvents[c][i], Events)
          /\ \A cat \in Categories : Apart(subEvents[c][i], ListOf(store, cat))
      BY <2>1, <2>2 DEF Once, OnceServed
    <3>2. ~Holds(subEvents[c][i], event) /\ Apart(subEvents[c][i], Events')
      BY <1>3, <3>1, ApartHolds
    <3> QED
      BY <1>5, <2>2, <3>1, <3>2
  <2>3. CASE c \in Parked(event.Category)
    <3>1. subEvents'[c] = <<<<event>>>>
      BY <1>1, <2>3 DEF SendBatch
    <3>2. subEvents'[c][i] = <<event>>
      BY <2>1, <3>1
    <3>3. ~buffer
      BY <2>1, <2>3 DEF buffer, DoBufferEvents
    <3>4. \A e : Holds(<<event>>, e) => e = event
      BY DEF Holds
    <3>5. /\ Apart(<<event>>, Events')
          /\ \A cat \in Categories : Apart(<<event>>, ListOf(store, cat))
      BY <1>3, <1>4, <3>4, ApartHolds
    <3> QED
      BY <1>5, <3>2, <3>3, <3>5
  <2> QED
    BY <1>1, <2>2, <2>3 DEF SendBatch
<1> QED
  BY <1>6, <1>7 DEF Once

LEMMA SendEventOnce ==
  ASSUME IInv, Known, Once, NEW event \in Event, SendEvent(event)
  PROVE  Once'
<1>1. /\ UNCHANGED <<run, startup, store, subEvents>>
      /\ Events' = Append(Events, event) /\ Events \in Seq(Event)
      /\ event \notin published
  BY DEF SendEvent, managerVars, IInv, TypeOK
<1> DEFINE n == Len(Events)
<1>2. /\ n \in Nat /\ Len(Events') = n + 1
      /\ \A i \in 1 .. n : Events'[i] = Events[i]
      /\ Events'[n + 1] = event
  BY <1>1, LenProperties, AppendProperties
<1> HIDE DEF n
<1>3. \A i \in 1 .. Len(Events') : i \in 1 .. n \/ i = n + 1
  BY <1>2
<1>4. \A i \in 1 .. n : Events[i] # event
  BY <1>1 DEF Known, Among, n
<1>5. \A e : Holds(Events', e) => Holds(Events, e) \/ e = event
  BY <1>2, <1>3 DEF Holds, n
<1>6. NoRepeats(Events')
  <2>1. SUFFICES ASSUME NEW i \in 1 .. Len(Events'), NEW j \in 1 .. Len(Events'),
                        Events'[i] = Events'[j]
                 PROVE  i = j
    BY DEF NoRepeats
  <2> QED
    BY <1>2, <1>3, <1>4, <2>1 DEF Once, OnceBuffered, NoRepeats, n
<1>7. \A cat \in Categories : ~Holds(ListOf(store, cat), event)
  BY <1>1, AmongHolds DEF Known
<1>8. OnceBuffered'
  <2>1. \A cat \in Categories : Apart(Events', ListOf(store, cat))
    BY <1>5, <1>7, ApartHolds DEF Once, OnceBuffered
  <2> QED
    BY <1>1, <1>6, <2>1 DEF Once, OnceBuffered
<1>9. OnceServed'
  <2>1. \A c \in Clients : \A i \in 1 .. Len(subEvents[c]) : ~Holds(subEvents[c][i], event)
    BY <1>1, AmongHolds DEF Known
  <2>2. DeleteEventAfterFirstRetrieval =>
          \A c \in Clients : \A i \in 1 .. Len(subEvents[c]) : Apart(subEvents[c][i], Events')
    BY <1>5, <2>1, ApartHolds DEF Once, OnceServed
  <2> QED
    BY <1>1, <2>2 DEF Once, OnceServed
<1> QED
  BY <1>1, <1>8, <1>9 DEF Once, OnceLoaded, Loading

LEMMA OnceKept == IInv /\ IInv' /\ NothingYet /\ Known /\ Once /\ Step => Once'
<1> SUFFICES ASSUME IInv, IInv', NothingYet, Known, Once, Step PROVE Once'
  OBVIOUS
<1>1. IsStore(store) /\ IsStore(store')
  BY DEF IInv, TypeOK
<1>2. ASSUME UNCHANGED <<startup, store, Events, subEvents>>, Loading' <=> Loading
      PROVE  Once'
  BY <1>2 DEF Once, OnceLoaded, OnceBuffered, OnceServed
<1>3. CASE Purges
  <2>1. /\ Shrinks(store', store) /\ ~Loading'
        /\ UNCHANGED <<startup, Events, subEvents>>
    BY <1>1, <1>3, PurgedShrinks DEF Purges
  <2> QED
    BY <1>1, <2>1, ShrinksOnce DEF Once, OnceLoaded, OnceBuffered, OnceServed
<1>4. CASE Quiet
  BY <1>2, <1>4 DEF Quiet
<1>5. ASSUME NEW sub \in Subscription, SendSubscription(sub) PROVE Once'
  BY <1>2, <1>5 DEF SendSubscription, managerVars, Loading
<1>6. ASSUME NEW c \in Clients, ReceiveEvents(c) PROVE Once'
  <2>1. /\ UNCHANGED <<run, startup, store, Events>>
        /\ subEvents' = [subEvents EXCEPT ![c] = Tail(@)]
        /\ subEvents[c] # <<>> /\ subEvents \in [Clients -> Seq(Seq(Event))]
    BY <1>6 DEF ReceiveEvents, managerVars, IInv, TypeOK
  <2>2. ASSUME NEW d \in Clients, NEW i \in 1 .. Len(subEvents'[d])
        PROVE  \E j \in 1 .. Len(subEvents[d]) : subEvents'[d][i] = subEvents[d][j]
    <3>1. CASE d # c
      BY <2>1, <2>2, <3>1
    <3>2. CASE d = c
      <4>1. subEvents'[d] = Tail(subEvents[c]) /\ subEvents[c] \in Seq(Seq(Event))
        BY <2>1, <3>2
      <4>2. \A j \in 1 .. Len(Tail(subEvents[c])) :
              /\ j + 1 \in 1 .. Len(subEvents[c])
              /\ Tail(subEvents[c])[j] = subEvents[c][j + 1]
        BY <2>1, <4>1, QueueFront
      <4> QED
        BY <2>2, <3>2, <4>1, <4>2
    <3> QED
      BY <3>1, <3>2
  <2>3. OnceServed'
    BY <2>1, <2>2 DEF Once, OnceServed
  <2> QED
    BY <2>1, <2>3 DEF Once, OnceLoaded, OnceBuffered, Loading
<1> QED
  BY <1>3, <1>4, <1>5, <1>6, LoadsOnce, AnswersOnce, ForwardsOnce, SendEventOnce
     DEF Step

(* With delete-on-retrieval an event that was handed to a client is gone   *)
(* from the channel and from every buffer, whether it was forwarded or     *)
(* answered from a buffer, provided the add-on delivers no event twice.    *)
THEOREM ServedOnce ==
  ASSUME \A events \in InitialEvents : NoRepeats(events)
  PROVE  Spec => []ServedEventsAreGone
<1>1. Init => Once
  BY InitOnce
<1>2. IInv /\ IInv' /\ DeliveryInv /\ Once /\ [Next]_vars => Once'
  BY NextSteps, OnceKept DEF DeliveryInv
<1>3. IInv /\ Once => ServedEventsAreGone
  <2> SUFFICES ASSUME IInv, Once, DeleteEventAfterFirstRetrieval,
                      NEW c \in Clients, NEW batch \in ToSet(subEvents[c]),
                      NEW e \in ToSet(batch)
               PROVE  /\ e \notin ToSet(Events)
                      /\ \A cat \in DOMAIN store.SubEventBuffer :
                           e \notin ToSet(store.SubEventBuffer[cat].List)
    BY DEF ServedEventsAreGone
  <2>1. subEvents[c] \in Seq(Seq(Event)) /\ Events \in Seq(Event) /\ IsStore(store)
    BY DEF IInv, TypeOK
  <2>2. PICK i \in 1 .. Len(subEvents[c]) : batch = subEvents[c][i]
    BY <2>1, LenProperties DEF ToSet
  <2>3. \A S, q : q \in Seq(S) => (e \in ToSet(q) <=> Holds(q, e))
    BY LenProperties DEF ToSet, Holds
  <2>4. batch \in Seq(Event)
    BY <2>1, <2>2, ElementOfSeq
  <2>5. Holds(batch, e)
    BY <2>3, <2>4
  <2>6. ~Holds(Events, e) /\ \A cat \in Categories : ~Holds(ListOf(store, cat), e)
    BY <2>2, <2>5, ApartHolds DEF Once, OnceServed
  <2>7. ASSUME NEW cat \in DOMAIN store.SubEventBuffer
        PROVE  e \notin ToSet(store.SubEventBuffer[cat].List)
    <3>1. /\ cat \in Categories /\ store.SubEventBuffer[cat].List \in Seq(Event)
          /\ ListOf(store, cat) = store.SubEventBuffer[cat].List
      BY <2>1, <2>7, BufferType DEF ListOf
    <3> QED
      BY <2>3, <2>6, <3>1
  <2> QED
    BY <2>1, <2>3, <2>6, <2>7
<1> QED
  BY <1>1, <1>2, <1>3, Invariance, DeliveryInvariance, PTL DEF Spec

-----------------------------------------------------------------------------
(* Pre-population: where an event of the add-on can be while it is loaded. *)

FullAfter(list, e) ==
  /\ Len(list) = MaxEventBufferSize
  /\ \A i \in 1 .. Len(list) : list[i].Timestamp >= e.Timestamp

(* Still to be read, skipped as too old, expired since, buffered, or       *)
(* pushed out of a buffer that is full of newer ones.                      *)
AccountedFor(e) ==
  \/ Holds(startup.startChan, e)
  \/ e.Timestamp <= startup.cutoffTime
  \/ Expired(e)
  \/ Holds(ListOf(store, e.Category), e)
  \/ FullAfter(ListOf(store, e.Category), e)

Accounted == run = "loading" => \A e \in published : AccountedFor(e)

LEMMA InitAccounted == Init => Accounted
<1> SUFFICES ASSUME Init, NEW e \in published PROVE AccountedFor(e)
  BY DEF Accounted
<1>1. PICK events \in InitialEvents :
        startup.startChan = events /\ published = ToSet(events)
  BY DEF Init
<1>2. DOMAIN events = 1 .. Len(events)
  BY ManagerAssumption, LenProperties
<1> QED
  BY <1>1, <1>2 DEF AccountedFor, Holds, ToSet

(* A full list of newer events stays one when a newer event is pushed,     *)
(* unless the event they are newer than has expired meanwhile.             *)
LEMMA FullAfterKept ==
  ASSUME now \in Nat, NEW new \in Seq(Event), NEW mid \in Seq(Event),
         NEW old \in Seq(Event), NEW event \in Event, NEW e \in Event,
         IsPushed(mid, old, event), IsTrimmed(new, mid),
         NoneAfter(old, event.Timestamp), FullAfter(old, e)
  PROVE  FullAfter(new, e) \/ Expired(e)
<1>1. /\ Len(new) \in Nat /\ Len(mid) \in Nat /\ Len(old) \in Nat
      /\ MaxEventBufferSize \in Nat \ {0}
      /\ event.Timestamp \in Nat /\ e.Timestamp \in Nat
  BY LenProperties, EventBufferAssumption DEF Event
<1>2. Len(mid) = MaxEventBufferSize /\ Len(old) = MaxEventBufferSize
  BY DEF IsPushed, FullAfter
<1>3. event.Timestamp >= e.Timestamp
  <2>1. 1 \in 1 .. Len(old)
    BY <1>1, <1>2
  <2>2. old[1].Timestamp \in Nat
    BY <2>1, ElementsAreEvents
  <2>3. old[1].Timestamp <= event.Timestamp /\ old[1].Timestamp >= e.Timestamp
    BY <2>1 DEF NoneAfter, FullAfter
  <2> QED
    BY <1>1, <2>2, <2>3
<1>4. ASSUME NEW i \in 1 .. Len(mid) PROVE mid[i].Timestamp >= e.Timestamp
  <2>1. CASE i = 1
    BY <1>3, <2>1 DEF IsPushed
  <2>2. CASE i # 1
    <3>1. i \in 2 .. Len(mid)
      BY <1>1, <2>2
    <3> QED
      BY <3>1 DEF IsPushed, FullAfter
  <2> QED
    BY <2>1, <2>2
<1>5. CASE Len(new) = Len(mid)
  BY <1>2, <1>4, <1>5 DEF FullAfter, IsTrimmed
<1>6. CASE Len(new) # Len(mid)
  <2>1. Len(mid) \in Len(new) + 1 .. Len(mid) /\ Len(mid) \in 1 .. Len(mid)
    BY <1>1, <1>6 DEF IsTrimmed
  <2>2. Expired(mid[Len(mid)]) /\ mid[Len(mid)].Timestamp >= e.Timestamp
    BY <1>4, <2>1 DEF IsTrimmed
  <2>3. mid[Len(mid)].Timestamp \in Nat /\ (~NoTTL => Expiration(now) \in Int)
    BY <2>1, ElementsAreEvents, ThresholdIsInt
  <2> QED
    BY <1>1, <2>2, <2>3 DEF Expired
<1> QED
  BY <1>5, <1>6

LEMMA LastIsOldest ==
  ASSUME NEW list \in Seq(Event), TimeOrdered(list), Len(list) = MaxEventBufferSize,
         NEW e, Holds(list, e), e = Last(list)
  PROVE  FullAfter(list, e)
<1>1. Len(list) \in Nat /\ Len(list) \in 1 .. Len(list) /\ e = list[Len(list)]
  BY LenProperties DEF Holds, Last
<1>2. ASSUME NEW i \in 1 .. Len(list) PROVE list[i].Timestamp >= e.Timestamp
  <2>1. CASE i = Len(list)
    <3>1. e.Timestamp \in Nat
      BY <1>1, ElementsAreEvents
    <3> QED
      BY <1>1, <2>1, <3>1
  <2>2. CASE i # Len(list)
    <3>1. i < Len(list)
      BY <1>1, <2>2
    <3> QED
      BY <1>1, <3>1 DEF TimeOrdered
  <2> QED
    BY <2>1, <2>2
<1> QED
  BY <1>2 DEF FullAfter

LEMMA LoadsAccounted ==
  ASSUME IInv, IInv', NothingYet, Accounted, Loads, run' = "loading",
         NEW e \in published
  PROVE  AccountedFor(e)'
<1> DEFINE event == Head(startup.startChan)
           cat   == e.Category
<1>1. /\ IsStore(store) /\ IsStore(store') /\ now \in Nat /\ now' = now
      /\ startup.startChan \in Seq(Event) /\ startup.startChan # <<>>
      /\ event \in Event /\ e \in Event /\ cat \in Categories
      /\ event.Timestamp \in Nat /\ startup.currentEventTime \in Nat
  BY StoresAreGood DEF IInv, TypeOK, Loads, Event
<1>2. /\ event.Timestamp >= startup.currentEventTime
      /\ startup'.startChan = Tail(startup.startChan)
      /\ startup'.cutoffTime = startup.cutoffTime
      /\ \/ event.Timestamp <= startup.cutoffTime /\ UNCHANGED store
         \/ Receives(store', store, event, TRUE)
  BY DEF Loads
<1>3. AccountedFor(e) /\ InTimeOrder(store)
      /\ NoneAfter(ListOf(store, cat), startup.currentEventTime)
  BY <1>1 DEF Accounted, NothingYet, Loads, Loading
<1>4. NoneAfter(ListOf(store, cat), event.Timestamp)
  <2>1. SUFFICES ASSUME NEW i \in 1 .. Len(ListOf(store, cat))
                 PROVE  ListOf(store, cat)[i].Timestamp <= event.Timestamp
    BY DEF NoneAfter
  <2>2. ListOf(store, cat)[i].Timestamp <= startup.currentEventTime
    BY <1>3, <2>1 DEF NoneAfter
  <2>3. ListOf(store, cat)[i].Timestamp \in Nat
    BY <1>1, <2>1, ListOfType, ElementsAreEvents
  <2> QED
    BY <1>1, <1>2, <2>2, <2>3
<1>5. Expired(e)' <=> Expired(e)
  BY <1>1 DEF Expired, Expiration
<1>6. CASE e.Timestamp <= startup.cutoffTime \/ Expired(e)
  BY <1>2, <1>5, <1>6 DEF AccountedFor
<1>7. CASE Holds(startup.startChan, e) /\ ~(e.Timestamp <= startup.cutoffTime)
  <2>1. PICK i \in 1 .. Len(startup.startChan) : startup.startChan[i] = e
    BY <1>7 DEF Holds
  <2>2. CASE i # 1
    <3>1. /\ i - 1 \in 1 .. Len(Tail(startup.startChan))
          /\ Tail(startup.startChan)[i - 1] = e
      <4>1. /\ Len(startup.startChan) \in Nat
            /\ Len(Tail(startup.startChan)) = Len(startup.startChan) - 1
        BY <1>1, QueueFront, LenProperties
      <4>2. i - 1 \in 1 .. Len(Tail(startup.startChan)) /\ (i - 1) + 1 = i
        BY <2>1, <2>2, <4>1
      <4> QED
        BY <1>1, <2>1, <4>2, QueueFront
    <3> QED
      BY <1>2, <3>1 DEF AccountedFor, Holds
  <2>3. CASE i = 1
    <3>1. e = event
      BY <1>1, <2>1, <2>3, QueueFront
    <3>2. Receives(store', store, event, TRUE)
      BY <1>2, <1>7, <3>1
    <3>3. PICK mid \in Seq(Event) :
            /\ IsPushed(mid, ListOf(store, cat), event)
            /\ IsTrimmed(ListOf(store', cat), mid)
      BY <3>1, <3>2 DEF Receives
    <3>4. Holds(mid, e)
      BY <3>1, <3>3, LenProperties DEF IsPushed, Holds
    <3>5. Holds(ListOf(store', cat), e) \/ Expired(e)
      BY <1>1, <3>3, <3>4, ListOfType, TrimmedLoses
    <3> QED
      BY <1>5, <3>5 DEF AccountedFor
  <2> QED
    BY <2>2, <2>3
<1>8. CASE \/ Holds(ListOf(store, cat), e)
           \/ FullAfter(ListOf(store, cat), e)
  <2>1. CASE UNCHANGED store
    BY <1>8, <2>1 DEF AccountedFor
  <2>2. CASE Receives(store', store, event, TRUE) /\ cat # event.Category
    <3>1. ListOf(store', cat) = ListOf(store, cat)
      BY <2>2 DEF Receives
    <3> QED
      BY <1>8, <3>1 DEF AccountedFor
  <2>3. CASE Receives(store', store, event, TRUE) /\ cat = event.Category
    <3>1. \/ Holds(ListOf(store', cat), e) \/ Expired(e)
          \/ FullAfter(ListOf(store, cat), e)
      <4>1. SUFFICES ASSUME Holds(ListOf(store, cat), e), ~Holds(ListOf(store', cat), e),
                            ~Expired(e)
                     PROVE  FullAfter(ListOf(store, cat), e)
        BY <1>8
      <4> HIDE DEF event, cat
      <4>2. Len(ListOf(store, cat)) = MaxEventBufferSize /\ e = Last(ListOf(store, cat))
        BY <1>1, <2>3, <4>1, ReceivesLoses
      <4>3. TimeOrdered(ListOf(store, cat)) /\ ListOf(store, cat) \in Seq(Event)
        BY <1>1, <1>3, ListOfType DEF InTimeOrder
      <4> QED
        BY <4>1, <4>2, <4>3, LastIsOldest
    <3>2. ASSUME FullAfter(ListOf(store, cat), e)
          PROVE  FullAfter(ListOf(store', cat), e) \/ Expired(e)
      <4>1. PICK mid \in Seq(Event) :
              /\ IsPushed(mid, ListOf(store, cat), event)
              /\ IsTrimmed(ListOf(store', cat), mid)
        BY <2>3 DEF Receives
      <4> HIDE DEF event, cat
      <4> QED
        BY <1>1, <1>4, <3>2, <4>1, ListOfType, FullAfterKept
    <3> QED
      BY <1>5, <3>1, <3>2 DEF AccountedFor
  <2> QED
    BY <1>2, <2>1, <2>2, <2>3
<1> QED
  BY <1>3, <1>6, <1>7, <1>8 DEF AccountedFor

LEMMA AccountedKept == IInv /\ IInv' /\ NothingYet /\ Accounted /\ Step => Accounted'
<1> SUFFICES ASSUME IInv, IInv', NothingYet, Accounted, Step, run' = "loading",
                    NEW e \in published'
             PROVE  AccountedFor(e)'
  BY DEF Accounted
<1>1. CASE Loads
  BY <1>1, LoadsAccounted DEF Loads
<1>2. CASE Quiet
  <2>1. /\ AccountedFor(e) /\ e.Timestamp \in Nat
        /\ UNCHANGED <<startup, store>> /\ now \in Nat /\ now' \in Nat /\ now <= now'
    BY <1>2 DEF Quiet, Accounted, IInv, TypeOK, Event
  <2>2. ~NoTTL => EventTimeToLive \in Nat
    BY ManagerAssumption DEF NoTTL
  <2>3. Expired(e) => Expired(e)'
    BY <2>1, <2>2 DEF Expired, Expiration, NoTTL
  <2> QED
    BY <2>1, <2>3 DEF AccountedFor
<1>3. ~(Purges \/ Answers \/ Forwards)
  BY DEF Purges, Answers, Forwards, Loading
<1>4. ASSUME NEW c \in Clients, ReceiveEvents(c) PROVE FALSE
  <2>1. Loading
    BY <1>4 DEF ReceiveEvents, managerVars, Loading
  <2> QED
    BY <1>4, <2>1 DEF NothingYet, ReceiveEvents
<1>5. ASSUME \/ \E sub \in Subscription : SendSubscription(sub)
             \/ \E event \in Event : SendEvent(event)
      PROVE  FALSE
  BY <1>5 DEF SendSubscription, SendEvent, Started, Loading, managerVars
<1> QED
  BY <1>1, <1>2, <1>3, <1>4, <1>5 DEF Step

LEMMA OnlyFinishLoadingStarts ==
  Next /\ run = "loading" /\ run' = "select" => FinishLoading
BY DEF Next, Manager, Environment, LoadEvent, RunNewClient, RunClientTimeout, RunEvent,
       RunTimer, RunQuit, DrainEvent, DrainNothing, CloseShutdownDone, SendSubscription,
       LeaveSelect, SendTimeout, ReceiveEvents, SendEvent, CloseQuit, Tick, managerVars

(* When StartLongpoll is done, no category holds only expired events, and  *)
(* every event of the add-on that is alive is buffered, or its category is *)
(* full of events at least as new: whatever the add-on sends, and however  *)
(* long loading takes.                                                     *)
THEOREM StartupKeepsNewest == Spec => StartupKeepsNewestLive
<1> DEFINE Alive == \A cat \in DOMAIN store'.SubEventBuffer :
                      \E e \in ToSet(store'.SubEventBuffer[cat].List) : ~Expired(e)
           Kept  == \A e \in published :
             e.Timestamp > startup.cutoffTime /\ ~Expired(e) =>
               \/ e \in Buffered(store')
               \/ /\ Len(store'.SubEventBuffer[e.Category].List) = MaxEventBufferSize
                  /\ \A f \in ToSet(store'.SubEventBuffer[e.Category].List) :
                       f.Timestamp >= e.Timestamp
           Starts == run = "loading" /\ run' = "select" => /\ Alive
                                                           /\ Kept
<1>1. IInv /\ IInv' /\ NothingYet /\ FinishLoading =>
        /\ GoodStore(store) /\ GoodStore(store') /\ IsStore(store) /\ IsStore(store')
        /\ now \in Nat /\ store' = PurgeStaleCategories(store, now)
        /\ IsPurged(store', store)
        /\ ~NoTTL => \A c \in DOMAIN store'.bufferPriorityQueue :
                       ~(store'.bufferPriorityQueue[c] <= Expiration(now))
        /\ InTimeOrder(store)
        /\ \A c \in DOMAIN store.bufferPriorityQueue :
             store.bufferPriorityQueue[c] = ListOf(store, c)[1].Timestamp
  BY StoresAreGood, PurgeStaleCategoriesEmpties
     DEF FinishLoading, NothingYet, Loading, IInv, TypeOK, StoreConsistent, GoodStore
<1>2. IInv /\ IInv' /\ NothingYet /\ FinishLoading => Alive
  <2> SUFFICES ASSUME IInv, IInv', NothingYet, FinishLoading,
                      NEW cat \in DOMAIN store'.SubEventBuffer
               PROVE  \E e \in ToSet(store'.SubEventBuffer[cat].List) : ~Expired(e)
    OBVIOUS
  <2> DEFINE list == store'.SubEventBuffer[cat].List
  <2>1. list \in Seq(Event) /\ list # <<>> /\ list = ListOf(store', cat)
    BY <1>1, BufferType DEF GoodStore, StoreOK, WellFormedBuffer, ListOf
  <2> HIDE DEF list
  <2>2. 1 \in 1 .. Len(list) /\ list[1] \in ToSet(list)
    BY <2>1, QueueFront, LenProperties DEF ToSet
  <2>3. ~Expired(list[1])
    <3>1. SUFFICES ASSUME ~NoTTL PROVE ~(list[1].Timestamp <= Expiration(now))
      BY DEF Expired
    <3>2. cat \in DOMAIN store'.bufferPriorityQueue
      BY <1>1, <3>1 DEF GoodStore, StoreOK, HeapIndexesBuffers
    <3>3. /\ cat \in DOMAIN store.bufferPriorityQueue
          /\ store'.bufferPriorityQueue[cat] = store.bufferPriorityQueue[cat]
      BY <1>1, <3>2 DEF IsPurged, HeapShrinks
    <3>4. list = ListOf(store, cat)
      BY <1>1, <2>1 DEF IsPurged
    <3>5. store'.bufferPriorityQueue[cat] = list[1].Timestamp
      BY <1>1, <3>3, <3>4
    <3> QED
      BY <1>1, <3>1, <3>2, <3>5
  <2> QED
    BY <2>2, <2>3 DEF list
<1>3. IInv /\ IInv' /\ NothingYet /\ Accounted /\ FinishLoading => Kept
  <2> SUFFICES ASSUME IInv, IInv', NothingYet, Accounted, FinishLoading,
                      NEW e \in published, e.Timestamp > startup.cutoffTime, ~Expired(e)
               PROVE  \/ e \in Buffered(store')
                      \/ /\ Len(store'.SubEventBuffer[e.Category].List)
                               = MaxEventBufferSize
                         /\ \A f \in ToSet(store'.SubEventBuffer[e.Category].List) :
                              f.Timestamp >= e.Timestamp
    OBVIOUS
  <2> DEFINE cat == e.Category
             list == ListOf(store', cat)
  <2>1. /\ AccountedFor(e) /\ startup.startChan = <<>>
        /\ e \in Event /\ cat \in Categories /\ e.Timestamp \in Nat
        /\ startup.cutoffTime \in Int
    BY DEF Accounted, FinishLoading, IInv, TypeOK, Event
  <2>2. ~Holds(startup.startChan, e)
    BY <2>1, EmptySeq DEF Holds
  <2>3. \/ Holds(ListOf(store, cat), e)
        \/ FullAfter(ListOf(store, cat), e)
    BY <2>1, <2>2 DEF AccountedFor
  <2>4. CASE Holds(ListOf(store, cat), e)
    BY <1>1, <2>1, <2>4, PurgedLoses, BufferedInLists
  <2>5. CASE FullAfter(ListOf(store, cat), e)
    <3>1. list = ListOf(store, cat)
      <4>1. SUFFICES ASSUME ~NoTTL, cat \in DOMAIN store.bufferPriorityQueue,
                            store.bufferPriorityQueue[cat] <= Expiration(now)
                     PROVE  FALSE
        BY <1>1 DEF IsPurged
      <4>2. 1 \in 1 .. Len(ListOf(store, cat))
        BY <1>1, <4>1, HeapListsNonempty
      <4>3. store.bufferPriorityQueue[cat] >= e.Timestamp
        BY <1>1, <2>5, <4>1, <4>2 DEF FullAfter
      <4>4. store.bufferPriorityQueue[cat] \in Int /\ Expiration(now) \in Int
        BY <1>1, <4>1, ThresholdIsInt, StoreMaps DEF IsMap
      <4> QED
        BY <2>1, <4>1, <4>3, <4>4 DEF Expired
    <3>2. list \in Seq(Event) /\ Len(list) = MaxEventBufferSize
          /\ MaxEventBufferSize \in Nat \ {0}
      BY <1>1, <2>5, <3>1, ListOfType, EventBufferAssumption DEF FullAfter
    <3>3. list # <<>>
      BY <3>2, EmptySeq
    <3>4. list = store'.SubEventBuffer[cat].List
      BY <3>3 DEF ListOf
    <3>5. \A f \in ToSet(list) : f.Timestamp >= e.Timestamp
      BY <2>5, <3>1, <3>2, LenProperties DEF ToSet, FullAfter
    <3> QED
      BY <3>2, <3>4, <3>5
  <2> QED
    BY <2>3, <2>4, <2>5
<1> HIDE DEF Alive, Kept
<1>4. IInv /\ IInv' /\ NothingYet /\ Accounted /\ [Next]_vars =>
        [Starts]_vars
  BY <1>2, <1>3, OnlyFinishLoadingStarts DEF Starts
<1>5. IInv /\ IInv' /\ NothingYet /\ Accounted /\ [Next]_vars => Accounted'
  BY NextSteps, AccountedKept
<1> HIDE DEF Starts
<1>6. DeliveryInv => NothingYet
  BY DEF DeliveryInv
<1>7. Spec => [][Starts]_vars
  BY <1>4, <1>5, <1>6, InitAccounted, Invariance, DeliveryInvariance, PTL DEF Spec
<1> QED
  BY <1>7 DEF Starts, Alive, Kept, StartupKeepsNewestLive

-----------------------------------------------------------------------------
(* A poll that names the event it saw last: what is in front of that event *)
(* in its buffer is found again, since no two events share an ID.          *)

UniqueIDs == \A e, f \in published : e.ID = f.ID => e = f

DistinctEvents == \A events \in InitialEvents : DistinctIDs(events)

LEMMA DistinctNoRepeats ==
  ASSUME DistinctEvents
  PROVE  \A events \in InitialEvents : NoRepeats(events)
BY DEF DistinctEvents, DistinctIDs, NoRepeats

LEMMA InitUnique ==
  ASSUME DistinctEvents
  PROVE  Init => UniqueIDs
<1> SUFFICES ASSUME Init PROVE UniqueIDs
  OBVIOUS
<1>1. PICK events \in InitialEvents : published = ToSet(events)
  BY DEF Init
<1>2. events \in Seq(Event) /\ DOMAIN events = 1 .. Len(events)
  BY ManagerAssumption, LenProperties
<1>3. \A e \in published : \E i \in 1 .. Len(events) : events[i] = e
  BY <1>1, <1>2 DEF ToSet
<1>4. DistinctIDs(events)
  BY DEF DistinctEvents
<1> QED
  BY <1>3, <1>4 DEF UniqueIDs, DistinctIDs

(* Events are given new IDs when they are published, and nothing else      *)
(* adds to what is published.                                              *)
LEMMA UniqueKept == UniqueIDs /\ Step => UniqueIDs'
<1> SUFFICES ASSUME UniqueIDs, Step PROVE UniqueIDs'
  OBVIOUS
<1>1. CASE published' = published
  BY <1>1 DEF UniqueIDs
<1>2. ASSUME NEW event \in Event, SendEvent(event) PROVE UniqueIDs'
  <2>1. /\ published' = published \cup {event}
        /\ \A e \in published : e.ID # event.ID
    BY <1>2 DEF SendEvent
  <2> QED
    BY <2>1 DEF UniqueIDs
<1>3. Loads \/ Purges \/ Answers \/ Forwards \/ Quiet => published' = published
  BY DEF Loads, Purges, Answers, Forwards, Quiet
<1>4. ASSUME NEW sub \in Subscription, SendSubscription(sub)
      PROVE  published' = published
  BY <1>4 DEF SendSubscription
<1>5. ASSUME NEW c \in Clients, ReceiveEvents(c) PROVE published' = published
  BY <1>5 DEF ReceiveEvents
<1> QED
  BY <1>1, <1>2, <1>3, <1>4, <1>5 DEF Step

LEMMA ListsHaveDistinctIDs ==
  ASSUME UniqueIDs, Known, Once, NEW cat \in Categories
  PROVE  DistinctIDs(ListOf(store, cat))
<1> DEFINE list == ListOf(store, cat)
<1>1. Among(list, published) /\ NoRepeats(list)
  BY DEF Known, Once, OnceBuffered
<1> HIDE DEF list
<1> QED
  BY <1>1 DEF UniqueIDs, Among, NoRepeats, DistinctIDs, list

(* A cursor that names its event covers that event and no other as new.    *)
LEMMA NamedCursor ==
  ASSUME NEW event, NEW since \in Nat, NEW id, event.Timestamp \in Nat
  PROVE  /\ event.Timestamp >= since /\ id # NoID /\ event.ID # id
              => IsAfter(event, since, id)
         /\ event.Timestamp = since /\ event.ID = id => ~IsAfter(event, since, id)
BY DEF IsAfter

(* The list a cursor is looked up in, what the poll names on it, and how it *)
(* is answered.                                                            *)
Names(sub, list, i) ==
  /\ i \in 1 .. Len(list) /\ ~Expired(list[i])
  /\ list[i].ID = sub.LastEventID /\ list[i].Timestamp = sub.LastEventTime

Cursorable(list) == list \in Seq(Event) /\ TimeOrdered(list) /\ DistinctIDs(list)

ServedFrom(answer, list, sub) ==
  /\ answer \in Seq(Event)
  /\ \E left : \E mid \in Seq(Event) : /\ IsTrimmed(mid, list)
                                        /\ IsServed(left, answer, mid, sub)

(* How many events such a poll is answered with, and which.                *)
LEMMA ServedUpToTheNamed ==
  ASSUME NEW answer, NEW list, NEW sub, NEW i,
         Cursorable(list), ServedFrom(answer, list, sub), Names(sub, list, i)
  PROVE  answer = Reverse(SubSeq(list, 1, i - 1))
<1>0. SUFFICES ASSUME NEW left, NEW mid \in Seq(Event), answer \in Seq(Event),
                      IsTrimmed(mid, list), IsServed(left, answer, mid, sub),
                      list \in Seq(Event), TimeOrdered(list), DistinctIDs(list),
                      i \in 1 .. Len(list), ~Expired(list[i]),
                      list[i].ID = sub.LastEventID, list[i].Timestamp = sub.LastEventTime
               PROVE  answer = Reverse(SubSeq(list, 1, i - 1))
  BY DEF Cursorable, ServedFrom, Names
<1> DEFINE n == Len(answer)
<1>1. /\ Len(list) \in Nat /\ Len(mid) \in Nat /\ n \in 0 .. Len(mid)
      /\ Len(mid) <= Len(list)
      /\ \A j \in 1 .. Len(mid) : mid[j] = list[j]
  BY <1>0, LenProperties DEF IsTrimmed, IsServed
<1>2. i \in 1 .. Len(mid)
  BY <1>0, <1>1 DEF IsTrimmed
<1>3. /\ \A j \in 1 .. n : /\ answer[j] = mid[n - j + 1]
                           /\ IsAfter(mid[j], sub.LastEventTime, sub.LastEventID)
      /\ n < Len(mid) => ~IsAfter(mid[n + 1], sub.LastEventTime, sub.LastEventID)
  BY <1>0 DEF IsServed
<1> HIDE DEF n
<1>4. /\ \A j \in 1 .. Len(list) : list[j].Timestamp \in Nat
      /\ sub.LastEventID # NoID
  <2>1. list[i] \in Event
    BY <1>0, ElementsAreEvents
  <2> QED
    BY <1>0, <2>1, ElementsAreEvents, EventBufferAssumption DEF Event
<1>5. ~IsAfter(mid[i], sub.LastEventTime, sub.LastEventID)
  <2>1. mid[i] = list[i] /\ list[i].Timestamp \in Nat
    BY <1>1, <1>2, <1>4
  <2>2. sub.LastEventTime \in Nat /\ mid[i].Timestamp = sub.LastEventTime
        /\ mid[i].ID = sub.LastEventID /\ mid[i].Timestamp \in Nat
    BY <1>0, <2>1
  <2> QED
    BY <2>2, NamedCursor
<1>6. ASSUME NEW j \in 1 .. i - 1
      PROVE  IsAfter(mid[j], sub.LastEventTime, sub.LastEventID)
  <2>1. j \in 1 .. Len(list) /\ j < i /\ mid[j] = list[j]
    BY <1>1, <1>2
  <2>2. list[j].Timestamp >= list[i].Timestamp /\ list[j].ID # list[i].ID
    BY <1>0, <2>1 DEF TimeOrdered, DistinctIDs
  <2>3. mid[j].Timestamp \in Nat /\ sub.LastEventTime \in Nat
    BY <1>0, <1>4, <2>1
  <2>4. mid[j].Timestamp >= sub.LastEventTime /\ mid[j].ID # sub.LastEventID
    BY <1>0, <2>1, <2>2
  <2> QED
    BY <1>4, <2>3, <2>4, NamedCursor
<1>7. ~(n >= i)
  BY <1>1, <1>2, <1>3, <1>5
<1>8. ~(n < i - 1)
  <2> SUFFICES ASSUME n < i - 1 PROVE FALSE
    OBVIOUS
  <2>1. n + 1 \in 1 .. i - 1 /\ n < Len(mid)
    BY <1>1, <1>2
  <2> QED
    BY <1>3, <1>6, <2>1
<1>9. n = i - 1 /\ n \in Nat /\ n <= Len(list)
  BY <1>1, <1>2, <1>7, <1>8
<1> DEFINE front == SubSeq(list, 1, i - 1)
           back  == Reverse(front)
<1>10. \A j \in 1 .. n : list[j] \in Event
  BY <1>1, <1>9, ElementsAreEvents
<1>11. /\ front \in Seq(Event) /\ Len(front) = n
       /\ \A j \in 1 .. n : front[j] = list[j]
  BY <1>1, <1>9, <1>10, SubSeqProperties
<1> HIDE DEF front
<1> DEFINE b == [j \in 1 .. n |-> front[n - j + 1]]
<1>12. b = back
  BY <1>11 DEF Reverse
<1>13. \A j \in 1 .. n : n - j + 1 \in 1 .. n /\ front[n - j + 1] = list[n - j + 1]
  <2>1. \A j \in 1 .. n : n - j + 1 \in 1 .. n
    BY <1>9
  <2> QED
    BY <2>1, <1>11
<1>14. b \in [1 .. n -> Event]
  BY <1>10, <1>13
<1>15. \A j \in 1 .. n : b[j] = list[n - j + 1]
  BY <1>13
<1> HIDE DEF b
<1>16. b \in Seq(Event) /\ Len(b) = n
  BY <1>9, <1>14
<1>17. \A j \in 1 .. n : answer[j] = list[n - j + 1]
  BY <1>0, <1>1, <1>3, <1>9, <1>13
<1> HIDE DEF back
<1>18. answer = b
  BY <1>0, <1>15, <1>16, <1>17, SeqEqual DEF n
<1> QED
  BY <1>12, <1>18 DEF back, front

LEMMA FrontLength ==
  ASSUME NEW list \in Seq(Event), NEW i \in 1 .. Len(list)
  PROVE  Len(Reverse(SubSeq(list, 1, i - 1))) = i - 1
<1>1. Len(list) \in Nat /\ i - 1 \in 0 .. Len(list)
  BY LenProperties
<1>2. \A j \in 1 .. i - 1 : list[j] \in Event
  BY <1>1, ElementsAreEvents
<1>3. SubSeq(list, 1, i - 1) \in Seq(Event) /\ Len(SubSeq(list, 1, i - 1)) = i - 1
  BY <1>1, <1>2, SubSeqProperties
<1> QED
  BY <1>1, <1>3 DEF Reverse

(* A poll that names an event still in the buffer is given exactly what    *)
(* was queued after it, when publishers take their stamps in the order     *)
(* they publish and the add-on's events have distinct IDs.                 *)
THEOREM ResumesExactly ==
  ASSUME ChronologicalPublish, DistinctEvents
  PROVE  Spec => ResumesExactlyAfterLastID
<1> DEFINE Resumes ==
      run = "select" /\ clientSubscriptions' # clientSubscriptions
       /\ clientSubscriptions # <<>>
       /\ Len(clientSubscriptions') < Len(clientSubscriptions) =>
       LET sub == Head(clientSubscriptions)
           cat == sub.SubscriptionCategory
       IN  cat \in DOMAIN store.SubEventBuffer =>
             ResumesAfter(sub, store.SubEventBuffer[cat].List)
<1>1. Init => Once /\ UniqueIDs
  BY InitOnce, InitUnique, DistinctNoRepeats
<1>2. IInv /\ IInv' /\ DeliveryInv /\ Once /\ UniqueIDs /\ [Next]_vars
        => Once' /\ UniqueIDs'
  BY NextSteps, OnceKept, UniqueKept DEF DeliveryInv
<1>3. IInv /\ DeliveryInv /\ Once /\ UniqueIDs /\ [Next]_vars => [Resumes]_vars
  <2> SUFFICES ASSUME IInv, DeliveryInv, Once, UniqueIDs, Step,
                      clientSubscriptions # <<>>,
                      Len(clientSubscriptions') < Len(clientSubscriptions),
                      NEW sub, sub = Head(clientSubscriptions),
                      NEW cat, cat = sub.SubscriptionCategory,
                      cat \in DOMAIN store.SubEventBuffer
               PROVE  ResumesAfter(sub, store.SubEventBuffer[cat].List)
    BY NextSteps DEF Resumes
  <2>1. clientSubscriptions \in Seq(Subscription) /\ Len(clientSubscriptions) \in Nat
    BY LenProperties DEF IInv, TypeOK
  <2>2. ~(UNCHANGED clientSubscriptions)
    BY <2>1
  <2>3. ~(Loads \/ Purges \/ Forwards \/ Quiet)
    BY <2>2 DEF Loads, Purges, Forwards, Quiet
  <2>4. ~\E s \in Subscription : SendSubscription(s)
    <3> SUFFICES ASSUME NEW s \in Subscription, SendSubscription(s) PROVE FALSE
      OBVIOUS
    <3>1. clientSubscriptions' = Append(clientSubscriptions, s)
      BY DEF SendSubscription
    <3>2. Len(clientSubscriptions') = Len(clientSubscriptions) + 1
      BY <2>1, <3>1, AppendProperties
    <3> QED
      BY <2>1, <3>2
  <2>5. ~\E event \in Event : SendEvent(event)
    BY <2>2 DEF SendEvent
  <2>6. ~\E c \in Clients : ReceiveEvents(c)
    BY <2>2 DEF ReceiveEvents
  <2>7. Answers
    BY <2>3, <2>4, <2>5, <2>6 DEF Step
  <2> DEFINE me     == sub.ClientUUID
             answer == Answer(store, sub, now)
             list   == ListOf(store, cat)
  <2>8. /\ sub \in Subscription /\ me \in Clients /\ cat \in Categories
        /\ answer \in Seq(Event)
    BY <2>7 DEF Answers, Subscription
  <2>9. \/ answer # <<>> /\ subEvents'[me] = <<answer>>
        \/ answer = <<>> /\ UNCHANGED subEvents
    BY <2>7, <2>8 DEF Answers, SendBatch
  <2>10. subEvents[me] = <<>>
    <3>1. 1 \in 1 .. Len(clientSubscriptions) /\ sub = clientSubscriptions[1]
      BY <2>1, QueueFront
    <3> QED
      BY <3>1 DEF DeliveryInv, OnePlace, QueuedOnly
  <2>11. /\ list \in Seq(Event) /\ TimeOrdered(list) /\ DistinctIDs(list)
         /\ list = store.SubEventBuffer[cat].List
         /\ DOMAIN list = 1 .. Len(list)
    <3>1. list \in Seq(Event)
      BY StoresAreGood, ListOfType
    <3>2. TimeOrdered(list)
      BY <2>8 DEF DeliveryInv, Chronological, InTimeOrder
    <3>3. DistinctIDs(list)
      BY <2>8, ListsHaveDistinctIDs DEF DeliveryInv
    <3>4. list = store.SubEventBuffer[cat].List
      BY DEF ListOf
    <3> QED
      BY <3>1, <3>2, <3>3, <3>4, LenProperties
  <2>12. PICK st : Serves(st, store, answer, sub)
    BY <2>7 DEF Answers
  <2>13. PICK mid \in Seq(Event) : /\ IsTrimmed(mid, list)
                                   /\ IsServed(ListOf(st, cat), answer, mid, sub)
    BY <2>12 DEF Serves
  <2> HIDE DEF me, answer, list
  <2> SUFFICES ASSUME NEW i \in 1 .. Len(list), list[i].ID = sub.LastEventID,
                      list[i].Timestamp = sub.LastEventTime, ~Expired(list[i])
               PROVE  subEvents'[me] =
                        IF i = 1 THEN <<>> ELSE <<Reverse(SubSeq(list, 1, i - 1))>>
    BY <2>11, Zenon DEF ResumesAfter, me
  <2>14. answer = Reverse(SubSeq(list, 1, i - 1))
    <3>1. Cursorable(list)
      BY <2>11 DEF Cursorable
    <3>2. ServedFrom(answer, list, sub)
      BY <2>8, <2>13 DEF ServedFrom
    <3>3. Names(sub, list, i)
      BY DEF Names
    <3> QED
      BY <3>1, <3>2, <3>3, ServedUpToTheNamed
  <2>15. Len(answer) = i - 1
    BY <2>11, <2>14, FrontLength
  <2>16. answer = <<>> <=> i = 1
    BY <2>8, <2>15, EmptySeq
  <2> QED
    BY <2>9, <2>10, <2>14, <2>16
<1> HIDE DEF Resumes
<1>4. Spec => [][Resumes]_vars
  BY <1>1, <1>2, <1>3, Invariance, DeliveryInvariance, PTL DEF Spec
<1> QED
  BY <1>4 DEF Resumes, ResumesExactlyAfterLastID

=============================================================================

---------------------- MODULE SubscriptionManagerProofs ----------------------
(***************************************************************************)
(* Every handler of the manager keeps the types of its variables, and the  *)
(* category map and the expiration heap consistent; a subscription is in   *)
(* one place at a time, and the manager never blocks on a client.  For     *)
(* every value of the constants.                                           *)
(***************************************************************************)
EXTENDS SubscriptionManager, EventBufferProofs, FiniteSetTheorems

-----------------------------------------------------------------------------
(* Go maps.                                                                *)

LEMMA PutProperties ==
  ASSUME NEW Keys, NEW Values, NEW map, IsMap(map, Keys, Values),
         NEW key \in Keys, NEW value \in Values
  PROVE  LET m == Put(map, key, value)
         IN  /\ IsMap(m, Keys, Values)
             /\ DOMAIN m = DOMAIN map \cup {key}
             /\ m[key] = value
             /\ \A k \in DOMAIN map \ {key} : m[k] = map[k]
BY DEF IsMap, Put

LEMMA DeleteProperties ==
  ASSUME NEW Keys, NEW Values, NEW map, IsMap(map, Keys, Values), NEW gone
  PROVE  LET m == Delete(map, gone)
         IN  /\ IsMap(m, Keys, Values)
             /\ DOMAIN m = DOMAIN map \ gone
             /\ \A k \in DOMAIN map \ gone : m[k] = map[k]
BY DEF IsMap, Delete, Restrict

LEMMA UpdateProperties ==
  ASSUME NEW Keys, NEW Values, NEW map, IsMap(map, Keys, Values),
         NEW key \in DOMAIN map, NEW value \in Values
  PROVE  LET m == [map EXCEPT ![key] = value]
         IN  /\ IsMap(m, Keys, Values)
             /\ DOMAIN m = DOMAIN map
             /\ m[key] = value
             /\ \A k \in DOMAIN map \ {key} : m[k] = map[k]
BY DEF IsMap
-----------------------------------------------------------------------------
(* The store between two steps of the manager, and in the middle of a      *)
(* handler, where the buffer of the category at hand may be empty.         *)

GoodStore(st) == IsStore(st) /\ StoreOK(st)

BufferOK(st, c) ==
  /\ WellFormedBuffer(st.SubEventBuffer[c], c)
  /\ \/ DeleteEventAfterFirstRetrieval
     \/ NoTTL
     \/ st.bufferPriorityQueue[c] = Head(st.SubEventBuffer[c].List).Timestamp

InHandler(st, cat) ==
  /\ IsStore(st)
  /\ HeapIndexesBuffers(st)
  /\ cat \in DOMAIN st.SubEventBuffer
  /\ \A c \in DOMAIN st.SubEventBuffer :
       BufferOK(st, c) \/ (c = cat /\ st.SubEventBuffer[c].List = <<>>)

LEMMA GoodStoreByBuffers ==
  ASSUME NEW st
  PROVE  GoodStore(st) <=> /\ IsStore(st)
                           /\ HeapIndexesBuffers(st)
                           /\ \A c \in DOMAIN st.SubEventBuffer : BufferOK(st, c)
BY DEF GoodStore, StoreOK, HeapIndexesBuffers, PriorityIsNewest, BufferOK

LEMMA BufferType ==
  ASSUME NEW st, IsStore(st), NEW c \in DOMAIN st.SubEventBuffer
  PROVE  /\ c \in Categories
         /\ st.SubEventBuffer[c] \in eventBuffer
         /\ st.SubEventBuffer[c].List \in Seq(Event)
         /\ Len(st.SubEventBuffer[c].List) \in Nat
BY LenProperties DEF IsStore, IsMap, eventBuffer

LEMMA StoreMaps ==
  ASSUME NEW st, IsStore(st)
  PROVE  /\ IsMap(st.SubEventBuffer, Categories, eventBuffer)
         /\ IsMap(st.bufferPriorityQueue, Categories, Int)
BY DEF IsStore

LEMMA ThresholdIsInt ==
  ASSUME NEW nowMs \in Nat
  PROVE  Expiration(nowMs) \in Int
BY ManagerAssumption DEF Expiration, forever

(* checkExpiredEvents may leave the buffer it checks empty, no other.      *)
LEMMA CheckExpiredEventsKeeps ==
  ASSUME NEW st, GoodStore(st), NEW cat \in DOMAIN st.SubEventBuffer,
         NEW nowMs \in Nat
  PROVE  InHandler(CheckExpiredEvents(st, cat, nowMs), cat)
<1> DEFINE t   == Expiration(nowMs)
           eb  == st.SubEventBuffer[cat]
           d   == DeleteEventsOlderThan(eb, t)
           map == [st.SubEventBuffer EXCEPT ![cat] = d]
           new == CheckExpiredEvents(st, cat, nowMs)
<1>1. /\ IsStore(st) /\ HeapIndexesBuffers(st)
      /\ \A c \in DOMAIN st.SubEventBuffer : BufferOK(st, c)
  BY GoodStoreByBuffers
<1>2. CASE NoTTL
  BY <1>1, <1>2 DEF CheckExpiredEvents, InHandler
<1>3. CASE ~NoTTL
  <2>1. eb \in eventBuffer /\ eb.List \in Seq(Event) /\ Len(eb.List) \in Nat
    BY <1>1, BufferType
  <2>2. WellFormedBuffer(eb, cat)
    BY <1>1 DEF BufferOK
  <2>3. /\ d \in eventBuffer
        /\ Len(d.List) <= Len(eb.List)
        /\ \A i \in 1 .. Len(d.List) : d.List[i] = eb.List[i]
        /\ d.List # <<>> => d.oldestEventTime = Last(d.List).Timestamp
    BY <2>1, <2>2, ThresholdIsInt, DeleteEventsOlderThanProperties
       DEF WellFormedBuffer
  <2>4. d.List \in Seq(Event) /\ Len(d.List) \in Nat
    BY <2>3, LenProperties DEF eventBuffer
  <2> HIDE DEF d
  <2>5. /\ IsMap(map, Categories, eventBuffer)
        /\ DOMAIN map = DOMAIN st.SubEventBuffer
        /\ map[cat] = d
        /\ \A c \in DOMAIN st.SubEventBuffer \ {cat} :
             map[c] = st.SubEventBuffer[c]
    BY <1>1, StoreMaps, <2>3, UpdateProperties
  <2>6. new = [SubEventBuffer |-> map,
               bufferPriorityQueue |-> st.bufferPriorityQueue]
    <3>1. new = [st EXCEPT !.SubEventBuffer = map]
      BY <1>3, Zenon DEF CheckExpiredEvents, d
    <3> HIDE DEF map, new
    <3> QED
      BY <1>1, <3>1 DEF IsStore
  <2> HIDE DEF map, new
  <2>7. IsStore(new) /\ HeapIndexesBuffers(new)
    BY <1>1, <2>5, <2>6 DEF IsStore, HeapIndexesBuffers
  <2>8. ASSUME NEW c \in DOMAIN map, c # cat
        PROVE  BufferOK(new, c)
    BY <1>1, <2>5, <2>6, <2>8 DEF BufferOK
  <2>9. ASSUME d.List # <<>>
        PROVE  BufferOK(new, cat)
    <3>1. Len(d.List) > 0 /\ Len(d.List) <= MaxEventBufferSize
      BY <2>1, <2>2, <2>3, <2>4, <2>9, EmptySeq, EventBufferAssumption
         DEF WellFormedBuffer
    <3>2. Head(d.List) = Head(eb.List)
      BY <2>1, <2>3, <2>4, <3>1
    <3>3. \A i \in DOMAIN d.List : d.List[i].Category = cat
      BY <2>1, <2>2, <2>3, <2>4, LenProperties DEF WellFormedBuffer
    <3>4. WellFormedBuffer(d, cat)
      BY <2>3, <2>9, <3>1, <3>3 DEF WellFormedBuffer
    <3>5. BufferOK(st, cat)
      BY <1>1
    <3> QED
      BY <2>5, <2>6, <3>2, <3>4, <3>5 DEF BufferOK
  <2> QED
    BY <2>5, <2>6, <2>7, <2>8, <2>9 DEF InHandler, new
<1> QED
  BY <1>2, <1>3

(* deleteBufferIfEmpty ends the exception: an empty buffer leaves the map  *)
(* and the heap together.                                                  *)
LEMMA DeleteBufferIfEmptyRestores ==
  ASSUME NEW st, NEW cat, InHandler(st, cat)
  PROVE  GoodStore(DeleteBufferIfEmpty(st, cat))
<1> DEFINE new == DeleteBufferIfEmpty(st, cat)
           map == Delete(st.SubEventBuffer, {cat})
           pq  == IF NoTTL THEN st.bufferPriorityQueue
                  ELSE Delete(st.bufferPriorityQueue, {cat})
<1>1. CASE st.SubEventBuffer[cat].List # <<>>
  BY <1>1, GoodStoreByBuffers DEF DeleteBufferIfEmpty, InHandler
<1>2. CASE st.SubEventBuffer[cat].List = <<>>
  <2>1. new = [SubEventBuffer |-> map, bufferPriorityQueue |-> pq]
    BY <1>2 DEF DeleteBufferIfEmpty
  <2>2. /\ IsMap(map, Categories, eventBuffer)
        /\ DOMAIN map = DOMAIN st.SubEventBuffer \ {cat}
        /\ \A c \in DOMAIN map : map[c] = st.SubEventBuffer[c]
    BY StoreMaps DEF InHandler, IsMap, Delete, Restrict
  <2>3. /\ IsMap(pq, Categories, Int)
        /\ DOMAIN pq = IF NoTTL THEN DOMAIN st.bufferPriorityQueue
                       ELSE DOMAIN st.bufferPriorityQueue \ {cat}
        /\ \A c \in DOMAIN pq : pq[c] = st.bufferPriorityQueue[c]
    BY StoreMaps DEF InHandler, IsMap, Delete, Restrict
  <2> HIDE DEF map, pq, new
  <2>4. IsStore(new) /\ HeapIndexesBuffers(new)
    BY <2>1, <2>2, <2>3 DEF IsStore, HeapIndexesBuffers, InHandler
  <2>5. ASSUME NEW c \in DOMAIN new.SubEventBuffer PROVE BufferOK(new, c)
    <3>1. BufferOK(st, c) /\ new.SubEventBuffer[c] = st.SubEventBuffer[c]
      BY <2>1, <2>2 DEF InHandler
    <3>2. NoTTL \/ new.bufferPriorityQueue[c] = st.bufferPriorityQueue[c]
      BY <2>1, <2>2, <2>3 DEF InHandler, HeapIndexesBuffers
    <3> QED
      BY <3>1, <3>2 DEF BufferOK
  <2> QED
    BY <2>4, <2>5, GoodStoreByBuffers DEF new
<1> QED
  BY <1>1, <1>2

(* The purge takes the same categories out of the map and the heap.        *)
LEMMA PurgeStaleCategoriesKeeps ==
  ASSUME NEW st, GoodStore(st), NEW nowMs \in Nat
  PROVE  GoodStore(PurgeStaleCategories(st, nowMs))
<1> DEFINE stale == {c \in DOMAIN st.bufferPriorityQueue :
                       st.bufferPriorityQueue[c] <= Expiration(nowMs)}
           new == PurgeStaleCategories(st, nowMs)
           map == Delete(st.SubEventBuffer, stale)
           pq  == Delete(st.bufferPriorityQueue, stale)
<1>1. /\ IsStore(st) /\ HeapIndexesBuffers(st)
      /\ \A c \in DOMAIN st.SubEventBuffer : BufferOK(st, c)
  BY GoodStoreByBuffers
<1>2. CASE NoTTL
  BY <1>2 DEF PurgeStaleCategories
<1>3. CASE ~NoTTL
  <2>1. new = [SubEventBuffer |-> map, bufferPriorityQueue |-> pq]
    BY <1>3 DEF PurgeStaleCategories
  <2> HIDE DEF stale
  <2>2. /\ IsMap(map, Categories, eventBuffer)
        /\ DOMAIN map = DOMAIN st.SubEventBuffer \ stale
        /\ \A c \in DOMAIN map : map[c] = st.SubEventBuffer[c]
    BY <1>1, StoreMaps DEF IsMap, Delete, Restrict
  <2>3. /\ IsMap(pq, Categories, Int)
        /\ DOMAIN pq = DOMAIN st.bufferPriorityQueue \ stale
        /\ \A c \in DOMAIN pq : pq[c] = st.bufferPriorityQueue[c]
    BY <1>1, StoreMaps DEF IsMap, Delete, Restrict
  <2> HIDE DEF map, pq, new
  <2>4. IsStore(new) /\ HeapIndexesBuffers(new)
    BY <1>1, <1>3, <2>1, <2>2, <2>3 DEF IsStore, HeapIndexesBuffers
  <2>5. ASSUME NEW c \in DOMAIN new.SubEventBuffer PROVE BufferOK(new, c)
    <3>1. BufferOK(st, c) /\ new.SubEventBuffer[c] = st.SubEventBuffer[c]
      BY <1>1, <2>1, <2>2
    <3>2. new.bufferPriorityQueue[c] = st.bufferPriorityQueue[c]
      BY <1>1, <1>3, <2>1, <2>2, <2>3 DEF HeapIndexesBuffers
    <3> QED
      BY <3>1, <3>2 DEF BufferOK
  <2> QED
    BY <2>4, <2>5, GoodStoreByBuffers DEF new
<1> QED
  BY <1>2, <1>3

(* A new buffer is empty until its first event is queued.                  *)
LEMMA CreateBufferKeeps ==
  ASSUME NEW st, GoodStore(st), NEW cat \in Categories \ DOMAIN st.SubEventBuffer,
         NEW nowMs \in Nat
  PROVE  InHandler(CreateBuffer(st, cat, nowMs), cat)
<1> DEFINE eb  == [List |-> <<>>, oldestEventTime |-> nowMs]
           new == CreateBuffer(st, cat, nowMs)
           map == Put(st.SubEventBuffer, cat, eb)
           pq  == IF NoTTL THEN st.bufferPriorityQueue
                  ELSE Put(st.bufferPriorityQueue, cat, nowMs)
<1>1. /\ IsStore(st) /\ HeapIndexesBuffers(st)
      /\ \A c \in DOMAIN st.SubEventBuffer : BufferOK(st, c)
  BY GoodStoreByBuffers
<1>2. eb \in eventBuffer
  BY EmptySeq DEF eventBuffer
<1>3. new = [SubEventBuffer |-> map, bufferPriorityQueue |-> pq]
  BY DEF CreateBuffer
<1>4. /\ IsMap(map, Categories, eventBuffer)
      /\ DOMAIN map = DOMAIN st.SubEventBuffer \cup {cat}
      /\ map[cat] = eb
      /\ \A c \in DOMAIN st.SubEventBuffer \ {cat} :
           map[c] = st.SubEventBuffer[c]
  BY <1>1, <1>2, StoreMaps DEF IsMap, Put
<1>5. /\ IsMap(pq, Categories, Int)
      /\ DOMAIN pq = IF NoTTL THEN DOMAIN st.bufferPriorityQueue
                     ELSE DOMAIN st.bufferPriorityQueue \cup {cat}
      /\ \A c \in DOMAIN st.bufferPriorityQueue \ {cat} :
           pq[c] = st.bufferPriorityQueue[c]
  BY <1>1, StoreMaps DEF IsMap, Put
<1> HIDE DEF map, pq, new
<1>6. IsStore(new) /\ HeapIndexesBuffers(new)
  BY <1>1, <1>3, <1>4, <1>5 DEF IsStore, HeapIndexesBuffers
<1>7. ASSUME NEW c \in DOMAIN new.SubEventBuffer, c # cat PROVE BufferOK(new, c)
  <2>1. BufferOK(st, c) /\ new.SubEventBuffer[c] = st.SubEventBuffer[c]
    BY <1>1, <1>3, <1>4, <1>7
  <2>2. NoTTL \/ new.bufferPriorityQueue[c] = st.bufferPriorityQueue[c]
    BY <1>1, <1>3, <1>4, <1>5, <1>7 DEF HeapIndexesBuffers
  <2> QED
    BY <2>1, <2>2 DEF BufferOK
<1> QED
  BY <1>3, <1>4, <1>6, <1>7 DEF InHandler, new

(* Queueing an event fills the buffer at hand and makes the event's time   *)
(* its priority.                                                           *)
LEMMA QueueInBufferRestores ==
  ASSUME NEW st, NEW event \in Event, InHandler(st, event.Category)
  PROVE  GoodStore(QueueInBuffer(st, event))
<1> DEFINE cat == event.Category
           eb  == st.SubEventBuffer[cat]
           q   == QueueEvent(eb, event)
           new == QueueInBuffer(st, event)
           map == [st.SubEventBuffer EXCEPT ![cat] = q]
           pq  == IF NoTTL THEN st.bufferPriorityQueue
                  ELSE [st.bufferPriorityQueue EXCEPT ![cat] = event.Timestamp]
<1>1. /\ IsStore(st) /\ HeapIndexesBuffers(st)
      /\ cat \in DOMAIN st.SubEventBuffer
      /\ event.Timestamp \in Int
  BY DEF InHandler, Event
<1>2. eb \in eventBuffer /\ eb.List \in Seq(Event) /\ Len(eb.List) \in Nat
  BY <1>1, BufferType
<1>3. /\ Len(eb.List) <= MaxEventBufferSize
      /\ \A i \in 1 .. Len(eb.List) : eb.List[i].Category = cat
  <2>1. CASE eb.List = <<>>
    BY <1>2, <2>1, EmptySeq, EventBufferAssumption
  <2>2. CASE WellFormedBuffer(eb, cat)
    BY <1>2, <2>2, LenProperties DEF WellFormedBuffer
  <2> QED
    BY <1>1, <2>1, <2>2 DEF InHandler, BufferOK
<1>4. /\ q \in eventBuffer
      /\ Len(q.List) \in 1 .. MaxEventBufferSize
      /\ q.oldestEventTime = Last(q.List).Timestamp
      /\ q.List[1] = event
      /\ \A i \in 2 .. Len(q.List) :
           i - 1 \in 1 .. Len(eb.List) /\ q.List[i] = eb.List[i - 1]
  BY <1>2, <1>3, QueueEventProperties
<1> HIDE DEF q
<1>5. q.List \in Seq(Event) /\ DOMAIN q.List = 1 .. Len(q.List)
  BY <1>4, LenProperties DEF eventBuffer
<1>6. WellFormedBuffer(q, cat) /\ Head(q.List) = event
  <2>1. ASSUME NEW i \in 1 .. Len(q.List) PROVE q.List[i].Category = cat
    <3>1. CASE i = 1
      BY <1>4, <3>1
    <3>2. CASE i # 1
      <4>1. i \in 2 .. Len(q.List)
        BY <1>4, <3>2, EventBufferAssumption
      <4>2. i - 1 \in 1 .. Len(eb.List) /\ q.List[i] = eb.List[i - 1]
        BY <1>4, <4>1
      <4> HIDE DEF eb
      <4> QED
        BY <1>3, <4>2
    <3> QED
      BY <3>1, <3>2
  <2>2. q.List # <<>> /\ Len(q.List) <= MaxEventBufferSize
    BY <1>4, EmptySeq, EventBufferAssumption
  <2>3. Head(q.List) = event
    BY <1>4, <1>5, <2>2
  <2> QED
    BY <1>4, <1>5, <2>1, <2>2, <2>3 DEF WellFormedBuffer
<1>7. new = [SubEventBuffer |-> map, bufferPriorityQueue |-> pq]
  BY DEF QueueInBuffer, q
<1>8. /\ IsMap(map, Categories, eventBuffer)
      /\ DOMAIN map = DOMAIN st.SubEventBuffer
      /\ map[cat] = q
      /\ \A c \in DOMAIN map \ {cat} : map[c] = st.SubEventBuffer[c]
  BY <1>1, <1>4, StoreMaps DEF IsMap
<1>9. /\ IsMap(pq, Categories, Int)
      /\ DOMAIN pq = DOMAIN st.bufferPriorityQueue
      /\ NoTTL \/ pq[cat] = event.Timestamp
      /\ \A c \in DOMAIN pq \ {cat} : pq[c] = st.bufferPriorityQueue[c]
  BY <1>1, StoreMaps DEF IsMap, HeapIndexesBuffers
<1> HIDE DEF map, pq, new
<1>10. IsStore(new) /\ HeapIndexesBuffers(new)
  BY <1>1, <1>7, <1>8, <1>9 DEF IsStore, HeapIndexesBuffers
<1>11. ASSUME NEW c \in DOMAIN new.SubEventBuffer PROVE BufferOK(new, c)
  <2>1. CASE c = cat
    BY <1>6, <1>7, <1>8, <1>9, <2>1 DEF BufferOK
  <2>2. CASE c # cat
    <3>1. BufferOK(st, c) /\ new.SubEventBuffer[c] = st.SubEventBuffer[c]
      BY <1>7, <1>8, <2>2 DEF InHandler
    <3>2. NoTTL \/ new.bufferPriorityQueue[c] = st.bufferPriorityQueue[c]
      BY <1>1, <1>7, <1>8, <1>9, <2>2 DEF HeapIndexesBuffers
    <3> QED
      BY <3>1, <3>2 DEF BufferOK
  <2> QED
    BY <2>1, <2>2
<1> QED
  BY <1>10, <1>11, GoodStoreByBuffers DEF new

(* handleNewEvent keeps the store consistent.                              *)
LEMMA StoreNewEventKeeps ==
  ASSUME NEW st, GoodStore(st), NEW event \in Event, NEW buffer \in BOOLEAN,
         NEW nowMs \in Nat
  PROVE  GoodStore(StoreNewEvent(st, event, buffer, nowMs))
<1> DEFINE cat      == event.Category
           found    == cat \in DOMAIN st.SubEventBuffer
           room     == IF found THEN st ELSE CreateBuffer(st, cat, nowMs)
           buffered == IF ~buffer THEN st ELSE QueueInBuffer(room, event)
<1>1. cat \in Categories
  BY DEF Event
<1>2. InHandler(room, cat)
  <2>1. CASE found
    BY <2>1, GoodStoreByBuffers DEF InHandler
  <2>2. CASE ~found
    BY <1>1, <2>2, CreateBufferKeeps
  <2> QED
    BY <2>1, <2>2
<1>3. GoodStore(buffered)
  <2>1. GoodStore(QueueInBuffer(room, event))
    <3> HIDE DEF room
    <3> QED
      BY <1>2, QueueInBufferRestores
  <2> QED
    BY <2>1
<1>4. found => cat \in DOMAIN buffered.SubEventBuffer
  BY DEF QueueInBuffer
<1>5. StoreNewEvent(st, event, buffer, nowMs) =
        IF found
        THEN DeleteBufferIfEmpty(CheckExpiredEvents(buffered, cat, nowMs), cat)
        ELSE buffered
  BY DEF StoreNewEvent
<1> HIDE DEF buffered
<1>6. CASE found
  <2>1. InHandler(CheckExpiredEvents(buffered, cat, nowMs), cat)
    BY <1>3, <1>4, <1>6, CheckExpiredEventsKeeps
  <2> QED
    BY <1>5, <1>6, <2>1, DeleteBufferIfEmptyRestores
<1>7. CASE ~found
  BY <1>3, <1>5, <1>7
<1> QED
  BY <1>6, <1>7

(* Taking out of the buffer what a poll is answered with, in a buffer that *)
(* has just been rid of what expired.                                      *)
LEMMA FetchedInHandler ==
  ASSUME NEW st, GoodStore(st), NEW sub, NEW nowMs \in Nat,
         sub.SubscriptionCategory \in DOMAIN st.SubEventBuffer
  PROVE  LET cat     == sub.SubscriptionCategory
             checked == CheckExpiredEvents(st, cat, nowMs)
         IN  InHandler(IF ~DeleteEventAfterFirstRetrieval THEN checked
                       ELSE [checked EXCEPT !.SubEventBuffer[cat] =
                               WithoutFetched(@, sub.LastEventTime,
                                              sub.LastEventID)], cat)
<1> DEFINE cat     == sub.SubscriptionCategory
           since   == sub.LastEventTime
           id      == sub.LastEventID
           checked == CheckExpiredEvents(st, cat, nowMs)
           eb      == checked.SubEventBuffer[cat]
           w       == WithoutFetched(eb, since, id)
           fetched == IF ~DeleteEventAfterFirstRetrieval THEN checked
                      ELSE [checked EXCEPT !.SubEventBuffer[cat] = w]
<1>1. InHandler(checked, cat)
  BY CheckExpiredEventsKeeps
<1> SUFFICES InHandler(fetched, cat)
  OBVIOUS
<1> HIDE DEF checked
<1>2. CASE ~DeleteEventAfterFirstRetrieval
  BY <1>1, <1>2
<1>3. CASE DeleteEventAfterFirstRetrieval
  <2> DEFINE map == [checked.SubEventBuffer EXCEPT ![cat] = w]
  <2>1. /\ IsStore(checked) /\ HeapIndexesBuffers(checked)
        /\ cat \in DOMAIN checked.SubEventBuffer
    BY <1>1 DEF InHandler
  <2>2. eb \in eventBuffer /\ eb.List \in Seq(Event) /\ Len(eb.List) \in Nat
    BY <2>1, BufferType
  <2>3. /\ w \in eventBuffer
        /\ w.oldestEventTime = eb.oldestEventTime
        /\ Len(w.List) <= Len(eb.List)
        /\ Len(w.List) > 0 => Last(w.List) = Last(eb.List)
        /\ \A i \in 1 .. Len(w.List) :
             \E j \in 1 .. Len(eb.List) : w.List[i] = eb.List[j]
    <3> DEFINE k == AfterLen(eb.List, since, id)
    <3>1. k \in 0 .. Len(eb.List)
      BY <2>2, AfterLenProperties
    <3>2. /\ w \in eventBuffer
          /\ w.oldestEventTime = eb.oldestEventTime
          /\ Len(w.List) = Len(eb.List) - k
          /\ Len(w.List) > 0 => Last(w.List) = Last(eb.List)
          /\ \A i \in 1 .. Len(w.List) : w.List[i] = eb.List[k + i]
      BY <2>2, WithoutFetchedProperties
    <3> HIDE DEF k, w, eb
    <3>3. \A i \in 1 .. Len(w.List) : k + i \in 1 .. Len(eb.List)
      BY <2>2, <3>1, <3>2
    <3>4. Len(w.List) <= Len(eb.List)
      BY <2>2, <3>1, <3>2
    <3> QED
      BY <3>2, <3>3, <3>4
  <2>4. w.List \in Seq(Event) /\ Len(w.List) \in Nat
    BY <2>3, LenProperties DEF eventBuffer
  <2> HIDE DEF w
  <2>5. fetched = [SubEventBuffer |-> map,
                   bufferPriorityQueue |-> checked.bufferPriorityQueue]
    BY <1>3, <2>1 DEF IsStore
  <2>6. /\ IsMap(map, Categories, eventBuffer)
        /\ DOMAIN map = DOMAIN checked.SubEventBuffer
        /\ map[cat] = w
        /\ \A c \in DOMAIN map \ {cat} : map[c] = checked.SubEventBuffer[c]
    BY <2>1, <2>3, StoreMaps DEF IsMap
  <2> HIDE DEF map, fetched
  <2>7. IsStore(fetched) /\ HeapIndexesBuffers(fetched)
    BY <2>1, <2>5, <2>6 DEF IsStore, HeapIndexesBuffers
  <2>8. ASSUME NEW c \in DOMAIN map, c # cat PROVE BufferOK(fetched, c)
    BY <1>1, <1>3, <2>5, <2>6, <2>8 DEF InHandler, BufferOK
  <2>9. ASSUME w.List # <<>> PROVE BufferOK(fetched, cat)
    <3>1. Len(w.List) > 0 /\ Len(eb.List) > 0
      BY <2>2, <2>3, <2>4, <2>9, EmptySeq
    <3>2. WellFormedBuffer(eb, cat)
      BY <1>1, <3>1, EmptySeq DEF InHandler, BufferOK
    <3>3. \A i \in DOMAIN w.List : w.List[i].Category = cat
      BY <2>2, <2>3, <2>4, <3>2, LenProperties DEF WellFormedBuffer
    <3>4. Len(w.List) <= MaxEventBufferSize
      BY <2>2, <2>3, <2>4, <3>2, EventBufferAssumption DEF WellFormedBuffer
    <3>5. WellFormedBuffer(w, cat)
      BY <2>3, <2>9, <3>1, <3>2, <3>3, <3>4 DEF WellFormedBuffer
    <3> QED
      BY <1>3, <2>5, <2>6, <3>5 DEF BufferOK
  <2> QED
    BY <2>1, <2>5, <2>6, <2>7, <2>8, <2>9 DEF InHandler
<1> QED
  BY <1>2, <1>3

(* Answering a poll keeps the store consistent, also when it takes the     *)
(* events it answers with out of the buffer.                               *)
LEMMA StoreAfterAnswerKeeps ==
  ASSUME NEW st, GoodStore(st), NEW sub, NEW nowMs \in Nat
  PROVE  GoodStore(StoreAfterAnswer(st, sub, nowMs))
<1> DEFINE cat     == sub.SubscriptionCategory
           checked == CheckExpiredEvents(st, cat, nowMs)
           fetched == IF ~DeleteEventAfterFirstRetrieval THEN checked
                      ELSE [checked EXCEPT !.SubEventBuffer[cat] =
                              WithoutFetched(@, sub.LastEventTime,
                                             sub.LastEventID)]
<1>1. CASE cat \notin DOMAIN st.SubEventBuffer
  BY <1>1 DEF StoreAfterAnswer
<1>2. CASE cat \in DOMAIN st.SubEventBuffer
  <2>1. StoreAfterAnswer(st, sub, nowMs) = DeleteBufferIfEmpty(fetched, cat)
    BY <1>2 DEF StoreAfterAnswer
  <2>2. InHandler(fetched, cat)
    BY <1>2, FetchedInHandler
  <2> HIDE DEF fetched
  <2> QED
    BY <2>1, <2>2, DeleteBufferIfEmptyRestores
<1> QED
  BY <1>1, <1>2

(* A poll is answered with a sequence of events.                           *)
LEMMA AnswerType ==
  ASSUME NEW st, GoodStore(st), NEW sub, NEW nowMs \in Nat
  PROVE  Answer(st, sub, nowMs) \in Seq(Event)
<1> DEFINE cat     == sub.SubscriptionCategory
           checked == CheckExpiredEvents(st, cat, nowMs)
           eb      == checked.SubEventBuffer[cat]
<1>1. CASE cat \notin DOMAIN st.SubEventBuffer
  BY <1>1, EmptySeq DEF Answer
<1>2. CASE cat \in DOMAIN st.SubEventBuffer
  <2>1. InHandler(checked, cat)
    BY <1>2, CheckExpiredEventsKeeps
  <2>2. Answer(st, sub, nowMs) =
          GetEventsSince(eb, sub.LastEventTime, sub.LastEventID)
    BY <1>2 DEF Answer
  <2> HIDE DEF checked
  <2>3. eb \in eventBuffer
    BY <2>1, BufferType DEF InHandler
  <2> QED
    BY <2>2, <2>3, GetEventsSinceProperties
<1> QED
  BY <1>1, <1>2

-----------------------------------------------------------------------------
(* The part of the type invariant that is the manager's and its channels'. *)
(* What the goroutines around the manager do does not bear on it, so the   *)
(* proofs about the manager's steps serve module Longpoll as well.         *)
ManagerTypeOK ==
  /\ now \in Nat
  /\ run \in RunStates
  /\ startup \in [startChan : Seq(Event), currentEventTime : Nat,
                  cutoffTime : Int]
  /\ quit \in BOOLEAN
  /\ clientSubscriptions \in Seq(Subscription)
  /\ ClientTimeouts \in Seq(clientCategoryPair)
  /\ Events \in Seq(Event)
  /\ IsMap(ClientSubChannels, Categories, (SUBSET Clients) \ {{}})
  /\ IsStore(store)
  /\ lastStaleCategoryPurgeTime \in Nat
  /\ subEvents \in [Clients -> Seq(Seq(Event))]
  /\ published \subseteq Event

MInv == ManagerTypeOK /\ StoreConsistent

(* The parts of a handler.                                                 *)

LEMMA PurgeStepKeeps ==
  ASSUME ManagerTypeOK, NEW st, GoodStore(st), SeeIfTimeToPurgeStaleCategories(st)
  PROVE  GoodStore(store') /\ lastStaleCategoryPurgeTime' \in Nat
BY PurgeStaleCategoriesKeeps DEF SeeIfTimeToPurgeStaleCategories, ManagerTypeOK

LEMMA SendBatchKeeps ==
  ASSUME ManagerTypeOK, NEW recipients, NEW batch \in Seq(Event),
         SendBatch(recipients, batch)
  PROVE  subEvents' \in [Clients -> Seq(Seq(Event))]
<1>1. <<batch>> \in Seq(Seq(Event))
  OBVIOUS
<1> QED
  BY <1>1 DEF SendBatch, ManagerTypeOK

LEMMA ParkedType ==
  ASSUME ManagerTypeOK, NEW cat
  PROVE  Parked(cat) \subseteq Clients
BY DEF ManagerTypeOK, IsMap, Parked

LEMMA ForwardToParkedKeeps ==
  ASSUME ManagerTypeOK, NEW event \in Event, ForwardToParked(event)
  PROVE  /\ IsMap(ClientSubChannels, Categories, (SUBSET Clients) \ {{}})'
         /\ subEvents' \in [Clients -> Seq(Seq(Event))]
<1>1. <<event>> \in Seq(Event)
  OBVIOUS
<1>2. subEvents' \in [Clients -> Seq(Seq(Event))]
  BY <1>1, SendBatchKeeps DEF ForwardToParked
<1>3. IsMap(ClientSubChannels, Categories, (SUBSET Clients) \ {{}})'
  <2>1. CASE Parked(event.Category) = {}
    BY <2>1 DEF ForwardToParked, ManagerTypeOK
  <2>2. CASE Parked(event.Category) # {}
    BY <2>2, DeleteProperties DEF ForwardToParked, ManagerTypeOK
  <2> QED
    BY <2>1, <2>2
<1> QED
  BY <1>2, <1>3

LEMMA DoBufferEventsType ==
  ASSUME NEW event
  PROVE  DoBufferEvents(event) \in BOOLEAN
BY DEF DoBufferEvents

-----------------------------------------------------------------------------
LEMMA InitEstablishesMInv == Init => MInv
<1> SUFFICES ASSUME Init PROVE MInv
  OBVIOUS
<1> USE ManagerAssumption
<1>1. PICK events \in InitialEvents :
        /\ startup = [startChan |-> events, currentEventTime |-> 0,
                      cutoffTime |-> IF NoTTL THEN 0 ELSE Expiration(StartTime)]
        /\ published = ToSet(events)
  BY DEF Init
<1>2. events \in Seq(Event)
  OBVIOUS
<1>3. published \subseteq Event
  BY <1>1, <1>2, LenProperties, ElementOfSeq DEF ToSet
<1>4. startup \in [startChan : Seq(Event), currentEventTime : Nat, cutoffTime : Int]
  BY <1>1, <1>2, ThresholdIsInt
<1>5. GoodStore(store)
  BY DEF Init, GoodStore, IsStore, StoreOK, HeapIndexesBuffers, PriorityIsNewest,
         IsMap, EmptyMap
<1>6. ManagerTypeOK
  <2>1. IsMap(EmptyMap, Categories, (SUBSET Clients) \ {{}})
    BY DEF IsMap, EmptyMap
  <2>2. run \in RunStates
    BY DEF Init, RunStates
  <2>3. subEvents \in [Clients -> Seq(Seq(Event))]
    BY EmptySeq DEF Init
  <2> QED
    BY <1>3, <1>4, <1>5, <2>1, <2>2, <2>3, EmptySeq
       DEF Init, ManagerTypeOK, GoodStore
<1> QED
  BY <1>5, <1>6 DEF MInv, GoodStore, StoreConsistent

-----------------------------------------------------------------------------
(* No step of the manager breaks the invariant.                            *)

LEMMA LoadEventKeeps == MInv /\ LoadEvent => MInv'
<1> SUFFICES ASSUME MInv, LoadEvent PROVE MInv'
  OBVIOUS
<1> USE DEF MInv
<1> DEFINE event == Head(startup.startChan)
<1>1. /\ event \in Event /\ event.Timestamp \in Nat
      /\ Tail(startup.startChan) \in Seq(Event)
  <2>1. startup.startChan \in Seq(Event) /\ startup.startChan # <<>>
    BY DEF LoadEvent, ManagerTypeOK
  <2>2. event \in Event /\ Tail(startup.startChan) \in Seq(Event)
    BY <2>1, HeadTailProperties
  <2> QED
    BY <2>2 DEF Event
<1> HIDE DEF event
<1>2. startup' \in [startChan : Seq(Event), currentEventTime : Nat, cutoffTime : Int]
  BY <1>1 DEF LoadEvent, ManagerTypeOK, event
<1>3. GoodStore(store)'
  <2>1. GoodStore(store) /\ now \in Nat
    BY DEF ManagerTypeOK, StoreConsistent, GoodStore
  <2>2. GoodStore(StoreNewEvent(store, event, TRUE, now))
    BY <1>1, <2>1, StoreNewEventKeeps
  <2>3. store' = store \/ store' = StoreNewEvent(store, event, TRUE, now)
    BY DEF LoadEvent, event
  <2> QED
    BY <2>1, <2>2, <2>3
<1>4. run' \in RunStates
  BY DEF LoadEvent, RunStates, ManagerTypeOK
<1>5. ManagerTypeOK'
  BY <1>2, <1>3, <1>4
     DEF LoadEvent, ManagerTypeOK, GoodStore, channelVars, environmentVars
<1> QED
  BY <1>3, <1>5 DEF GoodStore, StoreConsistent

LEMMA FinishLoadingKeeps == MInv /\ FinishLoading => MInv'
<1> SUFFICES ASSUME MInv, FinishLoading PROVE MInv'
  OBVIOUS
<1> USE DEF MInv
<1>1. GoodStore(store)'
  <2>1. GoodStore(store) /\ now \in Nat
    BY DEF ManagerTypeOK, StoreConsistent, GoodStore
  <2>2. GoodStore(PurgeStaleCategories(store, now))
    BY <2>1, PurgeStaleCategoriesKeeps
  <2> QED
    BY <2>2 DEF FinishLoading
<1>2. ManagerTypeOK'
  BY <1>1 DEF FinishLoading, ManagerTypeOK, GoodStore, channelVars, environmentVars,
              RunStates
<1> QED
  BY <1>1, <1>2 DEF GoodStore, StoreConsistent

LEMMA RunNewClientKeeps == MInv /\ RunNewClient => MInv'
<1> SUFFICES ASSUME MInv, RunNewClient PROVE MInv'
  OBVIOUS
<1> USE DEF MInv
<1> DEFINE sub    == Head(clientSubscriptions)
           cat    == sub.SubscriptionCategory
           events == Answer(store, sub, now)
<1>1. /\ sub \in Subscription
      /\ Tail(clientSubscriptions) \in Seq(Subscription)
  BY HeadTailProperties DEF RunNewClient, ManagerTypeOK
<1>2. cat \in Categories /\ sub.ClientUUID \in Clients
  BY <1>1 DEF Subscription
<1>3. GoodStore(store) /\ now \in Nat
  BY DEF ManagerTypeOK, StoreConsistent, GoodStore
<1>4. GoodStore(StoreAfterAnswer(store, sub, now)) /\ events \in Seq(Event)
  BY <1>3, StoreAfterAnswerKeeps, AnswerType
<1>5. /\ SeeIfTimeToPurgeStaleCategories(StoreAfterAnswer(store, sub, now))
      /\ \/ /\ SendBatch({sub.ClientUUID}, events)
            /\ UNCHANGED ClientSubChannels
         \/ /\ ClientSubChannels' =
                 Put(ClientSubChannels, cat, Parked(cat) \cup {sub.ClientUUID})
            /\ UNCHANGED subEvents
  BY DEF RunNewClient
<1> HIDE DEF sub, cat, events
<1>6. GoodStore(store)' /\ lastStaleCategoryPurgeTime' \in Nat
  BY <1>4, <1>5, PurgeStepKeeps
<1>7. subEvents' \in [Clients -> Seq(Seq(Event))]
  BY <1>4, <1>5, SendBatchKeeps DEF ManagerTypeOK
<1>8. IsMap(ClientSubChannels, Categories, (SUBSET Clients) \ {{}})'
  <2>1. Parked(cat) \cup {sub.ClientUUID} \in (SUBSET Clients) \ {{}}
    BY <1>2, ParkedType
  <2>2. IsMap(Put(ClientSubChannels, cat, Parked(cat) \cup {sub.ClientUUID}),
              Categories, (SUBSET Clients) \ {{}})
    BY <1>2, <2>1, PutProperties DEF ManagerTypeOK
  <2> QED
    BY <1>5, <2>2 DEF ManagerTypeOK
<1>9. clientSubscriptions' \in Seq(Subscription)
  BY <1>1 DEF RunNewClient
<1>10. ManagerTypeOK'
  BY <1>6, <1>7, <1>8, <1>9 DEF RunNewClient, ManagerTypeOK, GoodStore, environmentVars
<1> QED
  BY <1>6, <1>10 DEF GoodStore, StoreConsistent

LEMMA RunClientTimeoutKeeps == MInv /\ RunClientTimeout => MInv'
<1> SUFFICES ASSUME MInv, RunClientTimeout PROVE MInv'
  OBVIOUS
<1> USE DEF MInv
<1> DEFINE pair == Head(ClientTimeouts)
           cat  == pair.SubscriptionCategory
           left == Parked(cat) \ {pair.ClientUUID}
<1>1. /\ pair \in clientCategoryPair
      /\ Tail(ClientTimeouts) \in Seq(clientCategoryPair)
  BY HeadTailProperties DEF RunClientTimeout, ManagerTypeOK
<1>2. cat \in Categories /\ left \subseteq Clients
  BY <1>1, ParkedType DEF clientCategoryPair
<1>3. /\ ClientSubChannels' =
           IF cat \notin DOMAIN ClientSubChannels THEN ClientSubChannels
           ELSE IF left = {} THEN Delete(ClientSubChannels, {cat})
           ELSE Put(ClientSubChannels, cat, left)
      /\ SeeIfTimeToPurgeStaleCategories(store)
  BY DEF RunClientTimeout
<1> HIDE DEF cat, left
<1>4. IsMap(ClientSubChannels, Categories, (SUBSET Clients) \ {{}})'
  <2>1. IsMap(Delete(ClientSubChannels, {cat}), Categories, (SUBSET Clients) \ {{}})
    BY DeleteProperties DEF ManagerTypeOK
  <2>2. ASSUME left # {}
        PROVE  IsMap(Put(ClientSubChannels, cat, left),
                     Categories, (SUBSET Clients) \ {{}})
    BY <1>2, <2>2, PutProperties DEF ManagerTypeOK
  <2> QED
    BY <1>3, <2>1, <2>2 DEF ManagerTypeOK
<1>5. GoodStore(store)' /\ lastStaleCategoryPurgeTime' \in Nat
  BY <1>3, PurgeStepKeeps DEF StoreConsistent, GoodStore, ManagerTypeOK
<1>6. ManagerTypeOK'
  BY <1>1, <1>4, <1>5 DEF RunClientTimeout, ManagerTypeOK, GoodStore, environmentVars
<1> QED
  BY <1>5, <1>6 DEF GoodStore, StoreConsistent

LEMMA RunEventKeeps == MInv /\ RunEvent => MInv'
<1> SUFFICES ASSUME MInv, RunEvent PROVE MInv'
  OBVIOUS
<1> USE DEF MInv
<1> DEFINE event == Head(Events)
           new   == StoreNewEvent(store, event, DoBufferEvents(event), now)
<1>1. event \in Event /\ Tail(Events) \in Seq(Event)
  BY HeadTailProperties DEF RunEvent, ManagerTypeOK
<1>2. GoodStore(new)
  BY <1>1, StoreNewEventKeeps, DoBufferEventsType
     DEF ManagerTypeOK, StoreConsistent, GoodStore
<1>3. ForwardToParked(event) /\ SeeIfTimeToPurgeStaleCategories(new)
  BY DEF RunEvent
<1> HIDE DEF event, new
<1>4. GoodStore(store)' /\ lastStaleCategoryPurgeTime' \in Nat
  BY <1>2, <1>3, PurgeStepKeeps
<1>5. /\ IsMap(ClientSubChannels, Categories, (SUBSET Clients) \ {{}})'
      /\ subEvents' \in [Clients -> Seq(Seq(Event))]
  BY <1>1, <1>3, ForwardToParkedKeeps
<1>6. ManagerTypeOK'
  BY <1>1, <1>4, <1>5 DEF RunEvent, ManagerTypeOK, GoodStore, environmentVars
<1> QED
  BY <1>4, <1>6 DEF GoodStore, StoreConsistent

LEMMA DrainEventKeeps == MInv /\ DrainEvent => MInv'
<1> SUFFICES ASSUME MInv, DrainEvent PROVE MInv'
  OBVIOUS
<1> USE DEF MInv
<1> DEFINE event == Head(Events)
           new   == StoreNewEvent(store, event, DoBufferEvents(event), now)
<1>1. event \in Event /\ Tail(Events) \in Seq(Event)
  BY HeadTailProperties DEF DrainEvent, ManagerTypeOK
<1>2. GoodStore(new)
  BY <1>1, StoreNewEventKeeps, DoBufferEventsType
     DEF ManagerTypeOK, StoreConsistent, GoodStore
<1>3. ForwardToParked(event) /\ store' = new
  BY DEF DrainEvent
<1> HIDE DEF event, new
<1>4. GoodStore(store)'
  BY <1>2, <1>3
<1>5. /\ IsMap(ClientSubChannels, Categories, (SUBSET Clients) \ {{}})'
      /\ subEvents' \in [Clients -> Seq(Seq(Event))]
  BY <1>1, <1>3, ForwardToParkedKeeps
<1>6. ManagerTypeOK'
  BY <1>1, <1>4, <1>5
     DEF DrainEvent, ManagerTypeOK, GoodStore, environmentVars, RunStates
<1> QED
  BY <1>4, <1>6 DEF GoodStore, StoreConsistent

(* The timer's purge, and the steps of the shutdown path that touch        *)
(* nothing but the control state.                                          *)
LEMMA RunTimerKeeps == MInv /\ RunTimer => MInv'
<1> SUFFICES ASSUME MInv, RunTimer PROVE MInv'
  OBVIOUS
<1> USE DEF MInv
<1>1. GoodStore(store)' /\ lastStaleCategoryPurgeTime' \in Nat
  BY PurgeStepKeeps DEF RunTimer, StoreConsistent, GoodStore, ManagerTypeOK
<1>2. ManagerTypeOK'
  BY <1>1 DEF RunTimer, ManagerTypeOK, GoodStore, channelVars, environmentVars
<1> QED
  BY <1>1, <1>2 DEF GoodStore, StoreConsistent

LEMMA ControlStepsKeep ==
  MInv /\ (RunQuit \/ DrainNothing \/ CloseShutdownDone) => MInv'
<1> SUFFICES ASSUME MInv, RunQuit \/ DrainNothing \/ CloseShutdownDone PROVE MInv'
  OBVIOUS
<1> USE DEF MInv
<1>1. /\ run' \in RunStates
      /\ UNCHANGED <<startup, ClientSubChannels, store,
                     lastStaleCategoryPurgeTime, channelVars, environmentVars>>
  BY DEF RunQuit, DrainNothing, CloseShutdownDone, RunStates
<1>2. ManagerTypeOK'
  BY <1>1 DEF ManagerTypeOK, channelVars, environmentVars
<1>3. StoreConsistent'
  BY <1>1 DEF StoreConsistent
<1> QED
  BY <1>2, <1>3

LEMMA ManagerKeeps == MInv /\ Manager => MInv'
BY LoadEventKeeps, FinishLoadingKeeps, RunNewClientKeeps, RunClientTimeoutKeeps,
   RunEventKeeps, RunTimerKeeps, DrainEventKeeps, ControlStepsKeep DEF Manager

LEMMA ManagerLeavesEnvironment == Manager => UNCHANGED environmentVars
BY DEF Manager, LoadEvent, FinishLoading, RunNewClient, RunClientTimeout, RunEvent,
       RunTimer, RunQuit, DrainEvent, DrainNothing, CloseShutdownDone

-----------------------------------------------------------------------------
(* Exactly the handlers that wait or are leaving have a request under way: *)
(* SendTimeout's pair is that of the handler's own request.                *)
HandlersHaveRequests ==
  \A c \in Clients : c \in DOMAIN request <=> handler[c] \in {"select", "leaving"}

IInv == TypeOK /\ StoreConsistent /\ HandlersHaveRequests

LEMMA InitEstablishesIInv == Init => IInv
<1>1. Init => /\ handler \in [Clients -> HandlerStates]
              /\ IsMap(request, Clients, Subscription)
              /\ HandlersHaveRequests
  BY DEF Init, HandlerStates, IsMap, EmptyMap, HandlersHaveRequests
<1> QED
  BY <1>1, InitEstablishesMInv DEF IInv, MInv, TypeOK, ManagerTypeOK

LEMMA ManagerKeepsIInv == IInv /\ Manager => IInv'
<1>1. HandlersHaveRequests /\ UNCHANGED environmentVars => HandlersHaveRequests'
  BY DEF HandlersHaveRequests, environmentVars
<1>2. /\ handler \in [Clients -> HandlerStates]
      /\ IsMap(request, Clients, Subscription)
      /\ UNCHANGED environmentVars
      => (handler \in [Clients -> HandlerStates])' /\ IsMap(request, Clients, Subscription)'
  BY DEF environmentVars
<1> QED
  BY <1>1, <1>2, ManagerKeeps, ManagerLeavesEnvironment
     DEF IInv, MInv, TypeOK, ManagerTypeOK

-----------------------------------------------------------------------------
(* Nor does a step of the environment.                                     *)

LEMMA SendSubscriptionKeeps ==
  ASSUME IInv, NEW sub \in Subscription, SendSubscription(sub)
  PROVE  IInv'
<1> USE DEF IInv
<1>1. sub.ClientUUID \in Clients
  BY DEF Subscription
<1>2. clientSubscriptions' \in Seq(Subscription)
  BY AppendProperties DEF SendSubscription, TypeOK
<1>3. handler' \in [Clients -> HandlerStates]
  BY <1>1 DEF SendSubscription, TypeOK, HandlerStates
<1>4. /\ IsMap(request, Clients, Subscription)'
      /\ DOMAIN request' = DOMAIN request \cup {sub.ClientUUID}
  <2>1. /\ IsMap(request, Clients, Subscription)
        /\ request' = Put(request, sub.ClientUUID, sub)
    BY DEF SendSubscription, TypeOK
  <2> QED
    BY <1>1, <2>1 DEF IsMap, Put
<1>5. TypeOK'
  BY <1>2, <1>3, <1>4 DEF SendSubscription, TypeOK, managerVars
<1>6. StoreConsistent'
  BY DEF SendSubscription, StoreConsistent, managerVars
<1>7. HandlersHaveRequests'
  BY <1>1, <1>4 DEF SendSubscription, HandlersHaveRequests, TypeOK
<1> QED
  BY <1>5, <1>6, <1>7

LEMMA LeaveSelectKeeps ==
  ASSUME IInv, NEW c \in Clients, LeaveSelect(c)
  PROVE  IInv'
<1> USE DEF IInv
<1>1. handler' \in [Clients -> HandlerStates]
  BY DEF LeaveSelect, TypeOK, HandlerStates
<1>2. TypeOK'
  BY <1>1 DEF LeaveSelect, TypeOK, managerVars, channelVars
<1>3. StoreConsistent'
  BY DEF LeaveSelect, StoreConsistent, managerVars
<1>4. HandlersHaveRequests'
  BY DEF LeaveSelect, HandlersHaveRequests, TypeOK
<1> QED
  BY <1>2, <1>3, <1>4

LEMMA SendTimeoutKeeps ==
  ASSUME IInv, NEW c \in Clients, SendTimeout(c)
  PROVE  IInv'
<1> USE DEF IInv
<1>1. request[c] \in Subscription
  BY DEF SendTimeout, HandlersHaveRequests, TypeOK, IsMap
<1>2. ToPair(request[c]) \in clientCategoryPair
  BY <1>1 DEF ToPair, Subscription, clientCategoryPair
<1>3. ClientTimeouts' \in Seq(clientCategoryPair)
  BY <1>2, AppendProperties DEF SendTimeout, TypeOK
<1>4. handler' \in [Clients -> HandlerStates]
  BY DEF SendTimeout, TypeOK, HandlerStates
<1>5. /\ IsMap(request, Clients, Subscription)'
      /\ DOMAIN request' = DOMAIN request \ {c}
  <2>1. IsMap(request, Clients, Subscription) /\ request' = Delete(request, {c})
    BY DEF SendTimeout, TypeOK
  <2> QED
    BY <2>1 DEF IsMap, Delete, Restrict
<1>6. TypeOK'
  BY <1>3, <1>4, <1>5 DEF SendTimeout, TypeOK, managerVars
<1>7. StoreConsistent'
  BY DEF SendTimeout, StoreConsistent, managerVars
<1>8. HandlersHaveRequests'
  BY <1>5 DEF SendTimeout, HandlersHaveRequests, TypeOK
<1> QED
  BY <1>6, <1>7, <1>8

LEMMA ReceiveEventsKeeps ==
  ASSUME IInv, NEW c \in Clients, ReceiveEvents(c)
  PROVE  IInv'
<1> USE DEF IInv
<1>1. Tail(subEvents[c]) \in Seq(Seq(Event))
  <2>1. subEvents[c] \in Seq(Seq(Event)) /\ subEvents[c] # <<>>
    BY DEF ReceiveEvents, TypeOK
  <2> QED
    BY <2>1, HeadTailProperties
<1>2. subEvents' \in [Clients -> Seq(Seq(Event))]
  BY <1>1 DEF ReceiveEvents, TypeOK
<1>3. handler' \in [Clients -> HandlerStates]
  BY DEF ReceiveEvents, TypeOK, HandlerStates
<1>4. /\ IsMap(request, Clients, Subscription)'
      /\ DOMAIN request' = DOMAIN request \ {c}
  <2>1. IsMap(request, Clients, Subscription) /\ request' = Delete(request, {c})
    BY DEF ReceiveEvents, TypeOK
  <2> QED
    BY <2>1 DEF IsMap, Delete, Restrict
<1>5. TypeOK'
  BY <1>2, <1>3, <1>4 DEF ReceiveEvents, TypeOK, managerVars
<1>6. StoreConsistent'
  BY DEF ReceiveEvents, StoreConsistent, managerVars
<1>7. HandlersHaveRequests'
  BY <1>4 DEF ReceiveEvents, HandlersHaveRequests, TypeOK
<1> QED
  BY <1>5, <1>6, <1>7

LEMMA SendEventKeeps ==
  ASSUME IInv, NEW event \in Event, SendEvent(event)
  PROVE  IInv'
<1> USE DEF IInv
<1>1. Events' \in Seq(Event)
  BY AppendProperties DEF SendEvent, TypeOK
<1>2. TypeOK'
  BY <1>1 DEF SendEvent, TypeOK, managerVars
<1>3. StoreConsistent' /\ HandlersHaveRequests'
  BY DEF SendEvent, StoreConsistent, HandlersHaveRequests, managerVars
<1> QED
  BY <1>2, <1>3

LEMMA CloseQuitOrTickKeeps == IInv /\ (CloseQuit \/ Tick) => IInv'
<1> SUFFICES ASSUME IInv, CloseQuit \/ Tick PROVE IInv'
  OBVIOUS
<1> USE DEF IInv
<1>1. TypeOK'
  <2>1. quit' \in BOOLEAN
    BY Zenon DEF CloseQuit, Tick, TypeOK
  <2>2. now' \in Nat
    BY DEF CloseQuit, Tick, TypeOK
  <2> QED
    BY <2>1, <2>2 DEF CloseQuit, Tick, TypeOK, managerVars, channelVars
<1>2. StoreConsistent' /\ HandlersHaveRequests'
  BY DEF CloseQuit, Tick, StoreConsistent, HandlersHaveRequests, managerVars
<1> QED
  BY <1>1, <1>2

LEMMA EnvironmentKeeps == IInv /\ Environment => IInv'
<1> SUFFICES ASSUME IInv, Environment PROVE IInv'
  OBVIOUS
<1>1. published \subseteq Event /\ now \in Nat
  BY DEF IInv, TypeOK
<1>2. PollTimes \subseteq Nat /\ KnownIDs \subseteq EventIDs \cup {NoID}
  BY <1>1, ManagerAssumption DEF PollTimes, KnownIDs, Event
<1>3. ASSUME NEW c \in Clients, NEW cat \in Categories,
             NEW since \in PollTimes, NEW id \in KnownIDs,
             SendSubscription([ClientUUID |-> c, SubscriptionCategory |-> cat,
                               LastEventTime |-> since, LastEventID |-> id])
      PROVE  IInv'
  <2>1. [ClientUUID |-> c, SubscriptionCategory |-> cat,
         LastEventTime |-> since, LastEventID |-> id] \in Subscription
    BY <1>2 DEF Subscription
  <2> QED
    BY <1>3, <2>1, SendSubscriptionKeeps
<1>4. ASSUME NEW c \in Clients,
             LeaveSelect(c) \/ SendTimeout(c) \/ ReceiveEvents(c)
      PROVE  IInv'
  BY <1>4, LeaveSelectKeeps, SendTimeoutKeeps, ReceiveEventsKeeps
<1>5. ASSUME NEW ts \in StartTime .. now, NEW cat \in Categories, NEW id \in EventIDs,
             SendEvent([Timestamp |-> ts, Category |-> cat, ID |-> id])
      PROVE  IInv'
  <2>1. [Timestamp |-> ts, Category |-> cat, ID |-> id] \in Event
    BY <1>1, ManagerAssumption DEF Event
  <2> QED
    BY <1>5, <2>1, SendEventKeeps
<1> QED
  BY <1>3, <1>4, <1>5, CloseQuitOrTickKeeps DEF Environment

LEMMA NextKeeps == IInv /\ [Next]_vars => IInv'
<1>1. IInv /\ UNCHANGED vars => IInv'
  BY DEF IInv, TypeOK, StoreConsistent, HandlersHaveRequests, vars,
         managerVars, channelVars, environmentVars
<1> QED
  BY <1>1, ManagerKeepsIInv, EnvironmentKeeps DEF Next

-----------------------------------------------------------------------------
LEMMA Invariance == Spec => []IInv
BY InitEstablishesIInv, NextKeeps, PTL DEF Spec

(* Every variable of the manager, its channels and the handlers keeps its  *)
(* type, whatever the options, the clients and the add-on's events.        *)
THEOREM TypeCorrect == Spec => []TypeOK
<1>1. IInv => TypeOK
  BY DEF IInv
<1> QED
  BY <1>1, Invariance, PTL

(* Between two steps of the manager the category map and the expiration    *)
(* heap hold the same, well-formed buffers, for every TTL, buffer size and *)
(* retrieval mode: expiry, purge, deletion on retrieval and eviction never *)
(* leave a buffer in one of them only, or with a wrong priority or oldest  *)
(* time.                                                                   *)
THEOREM StoreIsConsistent == Spec => []StoreConsistent
<1>1. IInv => StoreConsistent
  BY DEF IInv
<1> QED
  BY <1>1, Invariance, PTL

-----------------------------------------------------------------------------
(* One place at a time.                                                    *)

(* The parts of the invariant say for each place a client can be in that   *)
(* it is in no other, and agrees with its request.                         *)

IsParked(c, cat) ==
  cat \in DOMAIN ClientSubChannels /\ c \in ClientSubChannels[cat]

QueuedOnce ==
  \A i, j \in 1 .. Len(clientSubscriptions) :
    clientSubscriptions[i].ClientUUID = clientSubscriptions[j].ClientUUID => i = j

QueuedOnly ==
  \A i \in 1 .. Len(clientSubscriptions) :
    LET c == clientSubscriptions[i].ClientUUID
    IN  /\ \A cat \in Categories : ~IsParked(c, cat)
        /\ subEvents[c] = <<>>
        /\ handler[c] # "idle"
        /\ c \in DOMAIN request => request[c] = clientSubscriptions[i]

ParkedOnly ==
  \A c \in Clients, cat \in Categories : IsParked(c, cat) =>
    /\ subEvents[c] = <<>>
    /\ handler[c] # "idle"
    /\ c \in DOMAIN request => request[c].SubscriptionCategory = cat
    /\ \A other \in Categories : IsParked(c, other) => other = cat

AnsweredOnce ==
  \A c \in Clients : /\ Len(subEvents[c]) <= 1
                     /\ handler[c] = "idle" => subEvents[c] = <<>>

OnePlace == QueuedOnce /\ QueuedOnly /\ ParkedOnly /\ AnsweredOnce

-----------------------------------------------------------------------------
LEMMA QueuedTypes ==
  ASSUME TypeOK, NEW i \in 1 .. Len(clientSubscriptions)
  PROVE  /\ clientSubscriptions[i] \in Subscription
         /\ clientSubscriptions[i].ClientUUID \in Clients
         /\ clientSubscriptions[i].SubscriptionCategory \in Categories
<1>1. clientSubscriptions[i] \in Subscription
  BY ElementOfSeq DEF TypeOK
<1> QED
  BY <1>1 DEF Subscription

LEMMA OnePlaceSuffices ==
  ASSUME TypeOK, OnePlace
  PROVE  OneShotChannels
<1> SUFFICES ASSUME NEW c \in Clients
             PROVE  /\ Len(subEvents[c]) <= 1
                    /\ Cardinality(Queued(c)) + Cardinality(ParkedIn(c))
                         + Len(subEvents[c]) <= 1
                    /\ handler[c] = "idle" =>
                         Queued(c) = {} /\ ParkedIn(c) = {} /\ subEvents[c] = <<>>
                    /\ c \in DOMAIN request =>
                         ParkedIn(c) \subseteq {request[c].SubscriptionCategory}
  BY DEF OneShotChannels
<1> USE DEF OnePlace
<1>1. DOMAIN clientSubscriptions = 1 .. Len(clientSubscriptions)
  BY LenProperties DEF TypeOK
<1>2. Len(subEvents[c]) \in {0, 1} /\ (subEvents[c] = <<>> => Len(subEvents[c]) = 0)
  <2>1. subEvents[c] \in Seq(Seq(Event))
    BY DEF TypeOK
  <2> QED
    <3>1. Len(subEvents[c]) \in Nat
      BY <2>1, LenProperties
    <3>2. Len(subEvents[c]) <= 1
      BY DEF AnsweredOnce
    <3>3. subEvents[c] = <<>> => Len(subEvents[c]) = 0
      BY EmptySeq
    <3> DEFINE n == Len(subEvents[c])
    <3>4. n \in Nat /\ n <= 1 => n \in {0, 1}
      <4> HIDE DEF n
      <4> QED
        OBVIOUS
    <3> QED
      BY <3>1, <3>2, <3>3, <3>4
<1>3. DOMAIN ClientSubChannels \subseteq Categories
  BY DEF TypeOK, IsMap
<1>4. CASE Queued(c) # {}
  <2>1. PICK i \in 1 .. Len(clientSubscriptions) :
          clientSubscriptions[i].ClientUUID = c
    BY <1>1, <1>4 DEF Queued
  <2>2. Queued(c) = {i}
    BY <1>1, <2>1 DEF Queued, QueuedOnce
  <2>3. ParkedIn(c) = {} /\ subEvents[c] = <<>> /\ handler[c] # "idle"
    BY <1>3, <2>1 DEF QueuedOnly, IsParked, ParkedIn
  <2>4. Cardinality(Queued(c)) = 1 /\ Cardinality(ParkedIn(c)) = 0
    BY <2>2, <2>3, FS_Singleton, FS_EmptySet
  <2> QED
    BY <1>2, <2>3, <2>4
<1>5. CASE Queued(c) = {} /\ ParkedIn(c) # {}
  <2>1. PICK cat \in Categories : IsParked(c, cat)
    BY <1>5, <1>3 DEF ParkedIn, IsParked
  <2>2. ParkedIn(c) = {cat}
    BY <1>3, <2>1 DEF ParkedIn, IsParked, ParkedOnly
  <2>3. /\ subEvents[c] = <<>> /\ handler[c] # "idle"
        /\ c \in DOMAIN request => request[c].SubscriptionCategory = cat
    BY <2>1 DEF ParkedOnly
  <2>4. Cardinality(Queued(c)) = 0 /\ Cardinality(ParkedIn(c)) = 1
    BY <1>5, <2>2, FS_Singleton, FS_EmptySet
  <2> QED
    BY <1>2, <2>2, <2>3, <2>4
<1>6. CASE Queued(c) = {} /\ ParkedIn(c) = {}
  <2>1. Cardinality(Queued(c)) = 0 /\ Cardinality(ParkedIn(c)) = 0
    BY <1>6, FS_EmptySet
  <2> QED
    BY <1>2, <1>6, <2>1 DEF AnsweredOnce
<1> QED
  BY <1>4, <1>5, <1>6

LEMMA InitEstablishesOnePlace == Init => OnePlace
<1> SUFFICES ASSUME Init PROVE OnePlace
  OBVIOUS
<1>1. Len(clientSubscriptions) = 0
  BY EmptySeq DEF Init
<1>2. QueuedOnce /\ QueuedOnly
  BY <1>1 DEF QueuedOnce, QueuedOnly
<1>3. ParkedOnly
  BY DEF Init, ParkedOnly, IsParked, EmptyMap
<1>4. AnsweredOnce
  BY EmptySeq DEF Init, AnsweredOnce
<1> QED
  BY <1>2, <1>3, <1>4 DEF OnePlace

-----------------------------------------------------------------------------
(* A step that forgets parked clients, and answers only such clients.      *)
LEMMA ForgettingKeeps ==
  ASSUME TypeOK, OnePlace,
         UNCHANGED <<clientSubscriptions, handler, request>>,
         \A c \in Clients, cat \in Categories :
           IsParked(c, cat)' => IsParked(c, cat),
         \A c \in Clients :
           \/ subEvents'[c] = subEvents[c]
           \/ /\ Len(subEvents'[c]) <= 1
              /\ \E cat \in Categories : IsParked(c, cat)
              /\ \A cat \in Categories : ~IsParked(c, cat)'
  PROVE  OnePlace'
<1> USE DEF OnePlace
<1>1. \A i \in 1 .. Len(clientSubscriptions) :
        clientSubscriptions[i].ClientUUID \in Clients
  BY QueuedTypes
<1>2. QueuedOnce'
  BY DEF QueuedOnce
<1>3. QueuedOnly'
  <2>1. SUFFICES ASSUME NEW i \in 1 .. Len(clientSubscriptions),
                        NEW c, c = clientSubscriptions[i].ClientUUID
                 PROVE  /\ \A cat \in Categories : ~IsParked(c, cat)'
                        /\ subEvents'[c] = <<>>
                        /\ handler[c] # "idle"
                        /\ c \in DOMAIN request => request[c] = clientSubscriptions[i]
    BY DEF QueuedOnly
  <2>2. /\ c \in Clients
        /\ \A cat \in Categories : ~IsParked(c, cat)
        /\ subEvents[c] = <<>>
        /\ handler[c] # "idle"
        /\ c \in DOMAIN request => request[c] = clientSubscriptions[i]
    BY <1>1, <2>1 DEF QueuedOnly
  <2> QED
    BY <2>2
<1>4. ParkedOnly'
  <2>1. SUFFICES ASSUME NEW c \in Clients, NEW cat \in Categories,
                        IsParked(c, cat)'
                 PROVE  /\ subEvents'[c] = <<>>
                        /\ handler[c] # "idle"
                        /\ c \in DOMAIN request => request[c].SubscriptionCategory = cat
                        /\ \A other \in Categories :
                             IsParked(c, other)' => other = cat
    BY DEF ParkedOnly
  <2>2. IsParked(c, cat)
    BY <2>1
  <2> QED
    BY <2>1, <2>2 DEF ParkedOnly
<1>5. AnsweredOnce'
  <2>1. SUFFICES ASSUME NEW c \in Clients
                 PROVE  /\ Len(subEvents'[c]) <= 1
                        /\ handler[c] = "idle" => subEvents'[c] = <<>>
    BY DEF AnsweredOnce
  <2> QED
    BY DEF AnsweredOnce, ParkedOnly
<1> QED
  BY <1>2, <1>3, <1>4, <1>5

(* Forwarding an event answers the clients of its category and forgets     *)
(* them.                                                                   *)
LEMMA ForwardToParkedForgets ==
  ASSUME TypeOK, OnePlace, NEW event \in Event, ForwardToParked(event),
         UNCHANGED <<clientSubscriptions, handler, request>>
  PROVE  OnePlace'
<1> DEFINE here == event.Category
<1>1. here \in Categories
  BY DEF Event
<1>2. \A c \in Clients : c \in Parked(here) <=> IsParked(c, here)
  BY DEF Parked, IsParked
<1>3. \A c \in Clients : subEvents'[c] = IF c \in Parked(here) THEN <<<<event>>>>
                                         ELSE subEvents[c]
  BY DEF ForwardToParked, SendBatch
<1>4. Len(<<<<event>>>>) <= 1
  OBVIOUS
<1>5. \A c \in Clients, cat \in Categories :
        IsParked(c, cat)' <=> IsParked(c, cat) /\ cat # here
  <2>1. CASE Parked(here) = {}
    BY <1>2, <2>1 DEF ForwardToParked, IsParked
  <2>2. CASE Parked(here) # {}
    BY <2>2 DEF ForwardToParked, IsParked, Delete, Restrict
  <2> QED
    BY <2>1, <2>2
<1>6. \A c \in Clients :
        \/ subEvents'[c] = subEvents[c]
        \/ /\ Len(subEvents'[c]) <= 1
           /\ \E cat \in Categories : IsParked(c, cat)
           /\ \A cat \in Categories : ~IsParked(c, cat)'
  <2>1. ASSUME NEW c \in Clients, c \in Parked(here)
        PROVE  /\ IsParked(c, here)
               /\ \A cat \in Categories : ~IsParked(c, cat)'
    BY <1>1, <1>2, <1>5, <2>1 DEF OnePlace, ParkedOnly
  <2> QED
    BY <1>1, <1>3, <1>4, <2>1
<1> QED
  BY <1>5, <1>6, ForgettingKeeps

(* A queued client is taken off the queue and is then answered or parked.  *)
LEMMA RunNewClientMoves ==
  ASSUME TypeOK, OnePlace, RunNewClient
  PROVE  OnePlace'
<1> USE DEF OnePlace
<1> DEFINE sub    == Head(clientSubscriptions)
           me     == sub.ClientUUID
           here   == sub.SubscriptionCategory
           batch  == Answer(store, sub, now)
<1>1. /\ clientSubscriptions \in Seq(Subscription) /\ clientSubscriptions # <<>>
      /\ Len(clientSubscriptions) \in Nat /\ Len(clientSubscriptions) >= 1
  <2>1. clientSubscriptions \in Seq(Subscription) /\ clientSubscriptions # <<>>
    BY DEF RunNewClient, TypeOK
  <2> QED
    BY <2>1, EmptySeq
<1>2. sub = clientSubscriptions[1]
  BY <1>1
<1>3. /\ me \in Clients /\ here \in Categories
      /\ \A cat \in Categories : ~IsParked(me, cat)
      /\ subEvents[me] = <<>>
      /\ handler[me] # "idle"
      /\ me \in DOMAIN request => request[me].SubscriptionCategory = here
  <2>1. 1 \in 1 .. Len(clientSubscriptions)
    BY <1>1
  <2> QED
    BY <1>2, <2>1, QueuedTypes DEF QueuedOnly
<1>4. /\ Len(clientSubscriptions') = Len(clientSubscriptions) - 1
      /\ \A i \in 1 .. Len(clientSubscriptions') :
           /\ i + 1 \in 1 .. Len(clientSubscriptions)
           /\ clientSubscriptions'[i] = clientSubscriptions[i + 1]
           /\ clientSubscriptions'[i].ClientUUID \in Clients \ {me}
  <2>1. clientSubscriptions' = Tail(clientSubscriptions)
    BY DEF RunNewClient
  <2>2. /\ Len(clientSubscriptions') = Len(clientSubscriptions) - 1
        /\ \A i \in 1 .. Len(clientSubscriptions') :
             clientSubscriptions'[i] = clientSubscriptions[i + 1]
    BY <1>1, <2>1, HeadTailProperties
  <2>3. ASSUME NEW i \in 1 .. Len(clientSubscriptions')
        PROVE  /\ i + 1 \in 1 .. Len(clientSubscriptions)
               /\ clientSubscriptions[i + 1].ClientUUID \in Clients \ {me}
    <3>1. i + 1 \in 1 .. Len(clientSubscriptions) /\ i + 1 # 1
      BY <1>1, <2>2
    <3> QED
      BY <1>1, <1>2, <3>1, QueuedTypes DEF QueuedOnce
  <2> QED
    BY <2>2, <2>3
<1>5. UNCHANGED <<handler, request>>
  BY DEF RunNewClient, environmentVars
<1>6. \/ /\ SendBatch({me}, batch)
         /\ UNCHANGED ClientSubChannels
      \/ /\ ClientSubChannels' = Put(ClientSubChannels, here, Parked(here) \cup {me})
         /\ UNCHANGED subEvents
  BY DEF RunNewClient
<1> HIDE DEF sub, me, here, batch
<1>7. /\ \A c \in Clients : c # me => subEvents'[c] = subEvents[c]
      /\ Len(subEvents'[me]) <= 1
      /\ \A c \in Clients, cat \in Categories :
           \/ IsParked(c, cat)' <=> IsParked(c, cat)
           \/ c = me /\ cat = here /\ subEvents'[me] = <<>>
  <2>1. CASE SendBatch({me}, batch) /\ UNCHANGED ClientSubChannels
    <3>1. subEvents'[me] = <<batch>>
      BY <1>3, <2>1 DEF SendBatch
    <3>2. Len(<<batch>>) <= 1
      OBVIOUS
    <3>3. \A c \in Clients : c # me => subEvents'[c] = subEvents[c]
      BY <2>1 DEF SendBatch
    <3>4. \A c \in Clients, cat \in Categories : IsParked(c, cat)' <=> IsParked(c, cat)
      BY <2>1 DEF IsParked
    <3> QED
      BY <3>1, <3>2, <3>3, <3>4
  <2>2. CASE /\ ClientSubChannels' = Put(ClientSubChannels, here, Parked(here) \cup {me})
             /\ UNCHANGED subEvents
    <3>1. subEvents'[me] = <<>> /\ Len(subEvents'[me]) <= 1
      BY <1>3, <2>2, EmptySeq
    <3>2. \A c \in Clients, cat \in Categories :
            IsParked(c, cat)' <=> IsParked(c, cat) \/ (c = me /\ cat = here)
      BY <2>2 DEF IsParked, Put, Parked
    <3> QED
      BY <2>2, <3>1, <3>2
  <2> QED
    BY <1>6, <2>1, <2>2
<1>8. QueuedOnce'
  <2>1. SUFFICES ASSUME NEW i \in 1 .. Len(clientSubscriptions'),
                        NEW j \in 1 .. Len(clientSubscriptions'),
                        clientSubscriptions'[i].ClientUUID =
                          clientSubscriptions'[j].ClientUUID
                 PROVE  i = j
    BY DEF QueuedOnce
  <2>2. i + 1 = j + 1
    BY <1>4, <2>1 DEF QueuedOnce
  <2> QED
    BY <1>1, <1>4, <2>2
<1>9. QueuedOnly'
  <2>1. SUFFICES ASSUME NEW i \in 1 .. Len(clientSubscriptions'),
                        NEW c, c = clientSubscriptions'[i].ClientUUID
                 PROVE  /\ \A cat \in Categories : ~IsParked(c, cat)'
                        /\ subEvents'[c] = <<>>
                        /\ handler'[c] # "idle"
                        /\ c \in DOMAIN request' =>
                             request'[c] = clientSubscriptions'[i]
    BY DEF QueuedOnly
  <2>2. /\ c \in Clients \ {me}
        /\ i + 1 \in 1 .. Len(clientSubscriptions)
        /\ clientSubscriptions'[i] = clientSubscriptions[i + 1]
        /\ c = clientSubscriptions[i + 1].ClientUUID
    BY <1>4, <2>1
  <2>3. /\ \A cat \in Categories : ~IsParked(c, cat)
        /\ subEvents[c] = <<>>
        /\ handler[c] # "idle"
        /\ c \in DOMAIN request => request[c] = clientSubscriptions[i + 1]
    BY <2>2 DEF QueuedOnly
  <2> QED
    BY <1>5, <1>7, <2>2, <2>3
<1>10. ParkedOnly'
  <2>1. SUFFICES ASSUME NEW c \in Clients, NEW cat \in Categories,
                        IsParked(c, cat)'
                 PROVE  /\ subEvents'[c] = <<>>
                        /\ handler'[c] # "idle"
                        /\ c \in DOMAIN request' =>
                             request'[c].SubscriptionCategory = cat
                        /\ \A other \in Categories :
                             IsParked(c, other)' => other = cat
    BY DEF ParkedOnly
  <2>2. CASE c = me
    BY <1>3, <1>5, <1>7, <2>1, <2>2
  <2>3. CASE c # me
    BY <1>5, <1>7, <2>1, <2>3 DEF ParkedOnly
  <2> QED
    BY <2>2, <2>3
<1>11. AnsweredOnce'
  BY <1>3, <1>5, <1>7 DEF AnsweredOnce
<1> QED
  BY <1>8, <1>9, <1>10, <1>11

-----------------------------------------------------------------------------
(* What a handler does on its way out moves nobody into a place.           *)
LEMMA HandlerStepKeeps ==
  ASSUME TypeOK, OnePlace, NEW me \in Clients,
         UNCHANGED <<clientSubscriptions, ClientSubChannels>>,
         handler[me] # "idle",
         handler'[me] # "idle",
         \A c \in Clients \ {me} : /\ handler'[c] = handler[c]
                                   /\ subEvents'[c] = subEvents[c],
         \/ subEvents'[me] = subEvents[me]
         \/ subEvents[me] # <<>> /\ Len(subEvents'[me]) <= 1,
         \A c \in DOMAIN request' : c \in DOMAIN request /\ request'[c] = request[c]
  PROVE  OnePlace'
<1> USE DEF OnePlace
<1>1. QueuedOnce'
  BY DEF QueuedOnce
<1>2. \A c \in Clients, cat \in Categories : IsParked(c, cat)' <=> IsParked(c, cat)
  BY DEF IsParked
<1>3. QueuedOnly'
  <2>1. SUFFICES ASSUME NEW i \in 1 .. Len(clientSubscriptions),
                        NEW c, c = clientSubscriptions[i].ClientUUID
                 PROVE  /\ \A cat \in Categories : ~IsParked(c, cat)'
                        /\ subEvents'[c] = <<>>
                        /\ handler'[c] # "idle"
                        /\ c \in DOMAIN request' => request'[c] = clientSubscriptions[i]
    BY DEF QueuedOnly
  <2>2. /\ c \in Clients
        /\ \A cat \in Categories : ~IsParked(c, cat)
        /\ subEvents[c] = <<>>
        /\ handler[c] # "idle"
        /\ c \in DOMAIN request => request[c] = clientSubscriptions[i]
    BY <2>1, QueuedTypes DEF QueuedOnly
  <2>3. subEvents'[c] = <<>> /\ handler'[c] # "idle"
    BY <2>2
  <2> QED
    BY <1>2, <2>2, <2>3
<1>4. ParkedOnly'
  <2>1. SUFFICES ASSUME NEW c \in Clients, NEW cat \in Categories,
                        IsParked(c, cat)'
                 PROVE  /\ subEvents'[c] = <<>>
                        /\ handler'[c] # "idle"
                        /\ c \in DOMAIN request' =>
                             request'[c].SubscriptionCategory = cat
                        /\ \A other \in Categories :
                             IsParked(c, other)' => other = cat
    BY DEF ParkedOnly
  <2>2. /\ subEvents[c] = <<>>
        /\ handler[c] # "idle"
        /\ c \in DOMAIN request => request[c].SubscriptionCategory = cat
        /\ \A other \in Categories : IsParked(c, other) => other = cat
    BY <1>2, <2>1 DEF ParkedOnly
  <2>3. subEvents'[c] = <<>> /\ handler'[c] # "idle"
    BY <2>2
  <2> QED
    BY <1>2, <2>2, <2>3
<1>5. AnsweredOnce'
  BY DEF AnsweredOnce
<1> QED
  BY <1>1, <1>3, <1>4, <1>5

(* A new subscription is that of an idle client, which is in no place yet. *)
LEMMA SendSubscriptionQueues ==
  ASSUME TypeOK, OnePlace, NEW sub \in Subscription, SendSubscription(sub)
  PROVE  OnePlace'
<1> USE DEF OnePlace
<1> DEFINE me == sub.ClientUUID
           n  == Len(clientSubscriptions)
<1>1. me \in Clients /\ n \in Nat
  BY LenProperties DEF Subscription, TypeOK
<1>2. /\ Len(clientSubscriptions') = n + 1
      /\ \A i \in 1 .. n : clientSubscriptions'[i] = clientSubscriptions[i]
      /\ clientSubscriptions'[n + 1] = sub
  BY AppendProperties DEF SendSubscription, TypeOK
<1>3. /\ handler[me] = "idle" /\ handler'[me] = "select"
      /\ \A c \in Clients \ {me} : handler'[c] = handler[c]
  BY <1>1 DEF SendSubscription, TypeOK
<1>4. /\ request'[me] = sub
      /\ \A c \in DOMAIN request' : c # me =>
           c \in DOMAIN request /\ request'[c] = request[c]
  <2>1. request' = Put(request, me, sub)
    BY DEF SendSubscription
  <2> QED
    BY <2>1 DEF Put
<1>5. UNCHANGED <<ClientSubChannels, subEvents>>
  BY DEF SendSubscription, managerVars
<1>6. \A c \in Clients, cat \in Categories : IsParked(c, cat)' <=> IsParked(c, cat)
  BY <1>5 DEF IsParked
<1>7. /\ \A i \in 1 .. n : clientSubscriptions[i].ClientUUID \in Clients \ {me}
      /\ \A cat \in Categories : ~IsParked(me, cat)
      /\ subEvents[me] = <<>>
  BY <1>1, <1>3, QueuedTypes DEF QueuedOnly, ParkedOnly, AnsweredOnce
<1> HIDE DEF me, n
<1>8. \A i \in 1 .. n + 1 : i \in 1 .. n \/ i = n + 1
  BY <1>1
<1>9. QueuedOnce'
  <2>1. SUFFICES ASSUME NEW i \in 1 .. n + 1, NEW j \in 1 .. n + 1,
                        clientSubscriptions'[i].ClientUUID =
                          clientSubscriptions'[j].ClientUUID
                 PROVE  i = j
    BY <1>2 DEF QueuedOnce
  <2>2. CASE i \in 1 .. n /\ j \in 1 .. n
    BY <1>2, <2>1, <2>2 DEF QueuedOnce, n
  <2>3. CASE i = n + 1 \/ j = n + 1
    BY <1>2, <1>7, <1>8, <2>1, <2>3 DEF me
  <2> QED
    BY <1>8, <2>2, <2>3
<1>10. QueuedOnly'
  <2>1. SUFFICES ASSUME NEW i \in 1 .. n + 1,
                        NEW c, c = clientSubscriptions'[i].ClientUUID
                 PROVE  /\ \A cat \in Categories : ~IsParked(c, cat)'
                        /\ subEvents'[c] = <<>>
                        /\ handler'[c] # "idle"
                        /\ c \in DOMAIN request' =>
                             request'[c] = clientSubscriptions'[i]
    BY <1>2 DEF QueuedOnly
  <2>2. CASE i \in 1 .. n
    <3>1. /\ c \in Clients \ {me}
          /\ clientSubscriptions'[i] = clientSubscriptions[i]
          /\ c = clientSubscriptions[i].ClientUUID
      BY <1>2, <1>7, <2>1, <2>2
    <3>2. /\ \A cat \in Categories : ~IsParked(c, cat)
          /\ subEvents[c] = <<>>
          /\ handler[c] # "idle"
          /\ c \in DOMAIN request => request[c] = clientSubscriptions[i]
      BY <2>2, <3>1 DEF QueuedOnly, n
    <3> QED
      BY <1>3, <1>4, <1>5, <1>6, <3>1, <3>2
  <2>3. CASE i = n + 1
    <3>1. c = me /\ clientSubscriptions'[i] = sub
      BY <1>2, <2>1, <2>3 DEF me
    <3> QED
      BY <1>1, <1>3, <1>4, <1>5, <1>6, <1>7, <3>1
  <2> QED
    BY <1>8, <2>2, <2>3
<1>11. ParkedOnly'
  <2>1. SUFFICES ASSUME NEW c \in Clients, NEW cat \in Categories,
                        IsParked(c, cat)'
                 PROVE  /\ subEvents'[c] = <<>>
                        /\ handler'[c] # "idle"
                        /\ c \in DOMAIN request' =>
                             request'[c].SubscriptionCategory = cat
                        /\ \A other \in Categories :
                             IsParked(c, other)' => other = cat
    BY DEF ParkedOnly
  <2>2. IsParked(c, cat) /\ c # me
    BY <1>6, <1>7, <2>1
  <2> QED
    BY <1>3, <1>4, <1>5, <1>6, <2>2 DEF ParkedOnly
<1>12. AnsweredOnce'
  BY <1>3, <1>5, <1>7 DEF AnsweredOnce
<1> QED
  BY <1>9, <1>10, <1>11, <1>12

-----------------------------------------------------------------------------
LEMMA ManagerKeepsOnePlace == TypeOK /\ OnePlace /\ Manager => OnePlace'
<1> SUFFICES ASSUME TypeOK, OnePlace, Manager PROVE OnePlace'
  OBVIOUS
<1>1. ASSUME UNCHANGED <<clientSubscriptions, ClientSubChannels, subEvents,
                         handler, request>>
      PROVE  OnePlace'
  BY <1>1 DEF OnePlace, QueuedOnce, QueuedOnly, ParkedOnly, AnsweredOnce, IsParked
<1>2. ASSUME \/ LoadEvent \/ FinishLoading \/ RunTimer
             \/ RunQuit \/ DrainNothing \/ CloseShutdownDone
      PROVE  OnePlace'
  BY <1>1, <1>2 DEF LoadEvent, FinishLoading, RunTimer, RunQuit, DrainNothing,
                    CloseShutdownDone, channelVars, environmentVars
<1>3. ASSUME RunClientTimeout PROVE OnePlace'
  <2> DEFINE pair == Head(ClientTimeouts)
             here == pair.SubscriptionCategory
             left == Parked(here) \ {pair.ClientUUID}
  <2>1. ClientSubChannels' =
          IF here \notin DOMAIN ClientSubChannels THEN ClientSubChannels
          ELSE IF left = {} THEN Delete(ClientSubChannels, {here})
          ELSE Put(ClientSubChannels, here, left)
    BY <1>3 DEF RunClientTimeout
  <2>2. UNCHANGED <<clientSubscriptions, subEvents, handler, request>>
    BY <1>3 DEF RunClientTimeout, environmentVars
  <2>3. left \subseteq Parked(here)
    OBVIOUS
  <2> HIDE DEF here, left
  <2>4. \A c \in Clients, cat \in Categories : IsParked(c, cat)' => IsParked(c, cat)
    BY <2>1, <2>3 DEF IsParked, Parked, Put, Delete, Restrict
  <2> QED
    BY <2>2, <2>4, ForgettingKeeps
<1>4. ASSUME RunEvent \/ DrainEvent PROVE OnePlace'
  <2>1. Head(Events) \in Event
    BY <1>4, HeadTailProperties DEF RunEvent, DrainEvent, TypeOK
  <2>2. /\ ForwardToParked(Head(Events))
        /\ UNCHANGED <<clientSubscriptions, handler, request>>
    BY <1>4 DEF RunEvent, DrainEvent, environmentVars
  <2> QED
    BY <2>1, <2>2, ForwardToParkedForgets
<1> QED
  BY <1>2, <1>3, <1>4, RunNewClientMoves DEF Manager

LEMMA EnvironmentKeepsOnePlace == IInv /\ OnePlace /\ Environment => OnePlace'
<1> SUFFICES ASSUME IInv, OnePlace, Environment PROVE OnePlace'
  OBVIOUS
<1>1. TypeOK /\ published \subseteq Event /\ now \in Nat
  BY DEF IInv, TypeOK
<1>2. PollTimes \subseteq Nat /\ KnownIDs \subseteq EventIDs \cup {NoID}
  BY <1>1, ManagerAssumption DEF PollTimes, KnownIDs, Event
<1>3. ASSUME NEW c \in Clients, NEW cat \in Categories,
             NEW since \in PollTimes, NEW id \in KnownIDs,
             SendSubscription([ClientUUID |-> c, SubscriptionCategory |-> cat,
                               LastEventTime |-> since, LastEventID |-> id])
      PROVE  OnePlace'
  <2>1. [ClientUUID |-> c, SubscriptionCategory |-> cat,
         LastEventTime |-> since, LastEventID |-> id] \in Subscription
    BY <1>2 DEF Subscription
  <2> QED
    BY <1>1, <1>3, <2>1, SendSubscriptionQueues
<1>4. ASSUME NEW c \in Clients, LeaveSelect(c) PROVE OnePlace'
  BY <1>1, <1>4, HandlerStepKeeps
     DEF LeaveSelect, TypeOK, managerVars, channelVars
<1>5. ASSUME NEW c \in Clients, SendTimeout(c) PROVE OnePlace'
  <2>1. \A d \in DOMAIN request' : d \in DOMAIN request /\ request'[d] = request[d]
    BY <1>5 DEF SendTimeout, Delete, Restrict
  <2> QED
    BY <1>1, <1>5, <2>1, HandlerStepKeeps DEF SendTimeout, TypeOK, managerVars
<1>6. ASSUME NEW c \in Clients, ReceiveEvents(c) PROVE OnePlace'
  <2>1. \A d \in DOMAIN request' : d \in DOMAIN request /\ request'[d] = request[d]
    BY <1>6 DEF ReceiveEvents, Delete, Restrict
  <2>2. subEvents[c] # <<>> /\ Len(subEvents'[c]) <= 1
    <3>1. /\ subEvents[c] \in Seq(Seq(Event)) /\ subEvents[c] # <<>>
          /\ subEvents'[c] = Tail(subEvents[c])
      BY <1>1, <1>6 DEF ReceiveEvents, TypeOK
    <3>2. Len(subEvents'[c]) = Len(subEvents[c]) - 1 /\ Len(subEvents[c]) \in Nat
      BY <3>1, HeadTailProperties, LenProperties
    <3>3. Len(subEvents[c]) <= 1
      BY DEF OnePlace, AnsweredOnce
    <3> QED
      BY <3>1, <3>2, <3>3
  <2> QED
    BY <1>1, <1>6, <2>1, <2>2, HandlerStepKeeps
       DEF ReceiveEvents, TypeOK, managerVars
<1>7. ASSUME UNCHANGED <<clientSubscriptions, ClientSubChannels, subEvents,
                         handler, request>>
      PROVE  OnePlace'
  BY <1>7 DEF OnePlace, QueuedOnce, QueuedOnly, ParkedOnly, AnsweredOnce, IsParked
<1>8. ASSUME (\E event \in Event : SendEvent(event)) \/ CloseQuit \/ Tick
      PROVE  OnePlace'
  BY <1>7, <1>8 DEF SendEvent, CloseQuit, Tick, managerVars, channelVars
<1>9. ASSUME NEW ts \in StartTime .. now, NEW cat \in Categories, NEW id \in EventIDs,
             SendEvent([Timestamp |-> ts, Category |-> cat, ID |-> id])
      PROVE  OnePlace'
  <2>1. [Timestamp |-> ts, Category |-> cat, ID |-> id] \in Event
    BY <1>1, ManagerAssumption DEF Event
  <2> QED
    BY <1>8, <1>9, <2>1
<1> QED
  BY <1>3, <1>4, <1>5, <1>6, <1>8, <1>9 DEF Environment

LEMMA OnePlaceInvariance == Spec => []OnePlace
<1>1. Init => OnePlace
  BY InitEstablishesOnePlace
<1>2. IInv /\ IInv' /\ OnePlace /\ [Next]_vars => OnePlace'
  <2>1. IInv /\ OnePlace /\ UNCHANGED vars => OnePlace'
    BY DEF OnePlace, QueuedOnce, QueuedOnly, ParkedOnly, AnsweredOnce, IsParked,
           vars, managerVars, channelVars, environmentVars
  <2> QED
    BY <2>1, ManagerKeepsOnePlace, EnvironmentKeepsOnePlace DEF Next, IInv
<1> QED
  BY <1>1, <1>2, Invariance, PTL DEF Spec

(* A subscription is queued, parked or answered, never two of these, and a *)
(* channel to a client is empty when the manager sends on it: the          *)
(* goroutine that serves everybody never blocks on somebody, gone or not.  *)
THEOREM OneShot == Spec => []OneShotChannels
<1>1. IInv /\ OnePlace => OneShotChannels
  BY OnePlaceSuffices DEF IInv
<1> QED
  BY <1>1, Invariance, OnePlaceInvariance, PTL

=============================================================================

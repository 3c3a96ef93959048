-------------------------- MODULE EventBufferProofs --------------------------
(***************************************************************************)
(* What the operations of an event buffer return and preserve, for every   *)
(* buffer.                                                                 *)
(***************************************************************************)
EXTENDS EventBuffer, SequenceTheorems, WellFoundedInduction, TLAPS

(* A non-empty set of naturals up to n has a greatest element, and Max is  *)
(* that element.  (By well-founded minimality of the distances from n.)    *)
LEMMA MaxOfInterval ==
  ASSUME NEW n \in Nat, NEW S \in SUBSET (0 .. n), S # {}
  PROVE  Max(S) \in S /\ \A x \in S : x <= Max(S)
<1> DEFINE T == {d \in Nat : n - d \in S}
<1>1. T \subseteq Nat /\ T # {}
  <2>1. PICK x \in S : TRUE
    OBVIOUS
  <2>2. x \in 0 .. n /\ n - x \in Nat /\ n - (n - x) = x
    BY <2>1
  <2> QED
    BY <2>1, <2>2
<1> DEFINE R == OpToRel(<, Nat)
<1>2. PICK d \in T : \A y \in T : ~(<<y, d>> \in R)
  <2> HIDE DEF T
  <2> QED
    BY <1>1, WFMin, NatLessThanWellFounded
<1>3. \A y \in T : d <= y
  <2>1. \A x, y \in Nat : x < y => <<x, y>> \in R
    BY Zenon DEF OpToRel
  <2>2. \A y \in T : ~(y < d)
    BY <2>1, <1>2, Zenon
  <2> QED
    BY <2>2
<1>4. n - d \in S /\ \A x \in S : x <= n - d
  <2>1. ASSUME NEW x \in S PROVE x <= n - d
    <3>1. n - x \in T
      BY <2>1
    <3> QED
      BY <3>1, <1>3
  <2> QED
    BY <2>1
<1>5. \E m \in S : \A x \in S : m >= x
  <2>1. \A x \in S : n - d >= x
    BY <1>4
  <2> QED
    BY <2>1, <1>4
<1> DEFINE m == CHOOSE x \in S : \A y \in S : x >= y
<1>6. m \in S /\ \A y \in S : m >= y
  BY <1>5
<1>7. Max(S) = m
  BY DEF Max
<1>8. \A y \in S : y <= m
  BY <1>6
<1> QED
  BY <1>6, <1>7, <1>8

-----------------------------------------------------------------------------
(* QueueEvent returns a buffer within capacity whose first element is the  *)
(* event, whose other elements were there before, and whose cached time is *)
(* that of its last element.  One element makes room if the list was full. *)
LEMMA QueueEventProperties ==
  ASSUME NEW eb \in eventBuffer, NEW event \in Event,
         Len(eb.List) <= MaxEventBufferSize
  PROVE  LET q == QueueEvent(eb, event)
         IN  /\ q \in eventBuffer
             /\ Len(q.List) \in 1 .. MaxEventBufferSize
             /\ Len(q.List) = IF Len(eb.List) = MaxEventBufferSize
                              THEN Len(eb.List) ELSE Len(eb.List) + 1
             /\ q.oldestEventTime = Last(q.List).Timestamp
             /\ q.List[1] = event
             /\ \A i \in 2 .. Len(q.List) :
                  i - 1 \in 1 .. Len(eb.List) /\ q.List[i] = eb.List[i - 1]
<1> DEFINE L == eb.List
           kept == IF Len(L) >= MaxEventBufferSize THEN Front(L) ELSE L
           list == Cons(event, kept)
<1>1. L \in Seq(Event) /\ Len(L) \in Nat /\ Len(L) <= MaxEventBufferSize
  BY LenProperties DEF eventBuffer
<1>2. MaxEventBufferSize \in Nat /\ MaxEventBufferSize >= 1
  BY EventBufferAssumption
<1>3. /\ kept \in Seq(Event) /\ Len(kept) \in 0 .. MaxEventBufferSize - 1
      /\ Len(kept) = IF Len(L) = MaxEventBufferSize THEN Len(L) - 1 ELSE Len(L)
      /\ \A i \in 1 .. Len(kept) : kept[i] = L[i]
  <2>1. CASE Len(L) >= MaxEventBufferSize
    <3>1. \A i \in 1 .. Len(L) - 1 : L[i] \in Event
      BY <1>1, ElementOfSeq
    <3>2. /\ Front(L) \in Seq(Event) /\ Len(Front(L)) = Len(L) - 1
          /\ \A i \in 1 .. Len(L) - 1 : Front(L)[i] = L[i]
      BY <1>1, <1>2, <2>1, <3>1, SubSeqProperties DEF Front
    <3> QED
      BY <1>1, <1>2, <2>1, <3>2
  <2>2. CASE Len(L) < MaxEventBufferSize
    BY <1>1, <1>2, <2>2
  <2> QED
    BY <1>1, <1>2, <2>1, <2>2
<1> HIDE DEF kept
<1>4. /\ list \in Seq(Event) /\ Len(list) = Len(kept) + 1
      /\ list[1] = event
      /\ \A i \in 2 .. Len(list) : list[i] = kept[i - 1]
  <2>1. <<event>> \in Seq(Event) /\ Len(<<event>>) = 1 /\ <<event>>[1] = event
    OBVIOUS
  <2>2. /\ <<event>> \o kept \in Seq(Event)
        /\ Len(<<event>> \o kept) = 1 + Len(kept)
        /\ \A i \in 1 .. 1 + Len(kept) : (<<event>> \o kept)[i] =
              IF i <= 1 THEN <<event>>[i] ELSE kept[i - 1]
    BY <1>3, <2>1, ConcatProperties
  <2> QED
    BY <1>3, <2>1, <2>2 DEF Cons
<1>5. QueueEvent(eb, event) = [List |-> list, oldestEventTime |-> Last(list).Timestamp]
  BY DEF QueueEvent, kept
<1> HIDE DEF list
<1>6. Last(list) \in Event
  BY <1>3, <1>4, ElementOfSeq DEF Last
<1>7. Last(list).Timestamp \in Int
  BY <1>6 DEF Event
<1> QED
  BY <1>1, <1>2, <1>3, <1>4, <1>5, <1>7 DEF eventBuffer

-----------------------------------------------------------------------------
(* AfterLen is the length of the longest prefix whose elements all pass    *)
(* the test.                                                               *)
LEMMA AfterLenProperties ==
  ASSUME NEW list \in Seq(Event), NEW since, NEW id
  PROVE  LET k == AfterLen(list, since, id)
         IN  /\ k \in 0 .. Len(list)
             /\ \A i \in 1 .. k : IsAfter(list[i], since, id)
             /\ k < Len(list) => ~IsAfter(list[k + 1], since, id)
<1> DEFINE S == {0} \cup {n \in DOMAIN list :
                           \A i \in 1 .. n : IsAfter(list[i], since, id)}
           k == AfterLen(list, since, id)
<1>1. Len(list) \in Nat /\ DOMAIN list = 1 .. Len(list)
  BY LenProperties
<1>2. S \in SUBSET (0 .. Len(list)) /\ S # {}
  BY <1>1
<1>3. k = Max(S)
  BY DEF AfterLen
<1>4. k \in S /\ \A x \in S : x <= k
  <2> HIDE DEF S, k
  <2> QED
    BY <1>1, <1>2, <1>3, MaxOfInterval
<1> HIDE DEF k
<1>5. k \in 0 .. Len(list)
  BY <1>2, <1>4
<1>6. \A i \in 1 .. k : IsAfter(list[i], since, id)
  BY <1>4, <1>5
<1>7. ASSUME k < Len(list), IsAfter(list[k + 1], since, id) PROVE FALSE
  <2>1. k + 1 \in DOMAIN list
    BY <1>1, <1>5, <1>7
  <2>2. \A i \in 1 .. k + 1 : IsAfter(list[i], since, id)
    BY <1>5, <1>6, <1>7
  <2>3. k + 1 \in S
    BY <2>1, <2>2
  <2> QED
    BY <1>4, <1>5, <2>3
<1> QED
  BY <1>5, <1>6, <1>7 DEF k

(* LiveLen is the position of the last element newer than t.               *)
LEMMA LiveLenProperties ==
  ASSUME NEW list \in Seq(Event), NEW t \in Int
  PROVE  LET k == LiveLen(list, t)
         IN  /\ k \in 0 .. Len(list)
             /\ k > 0 => list[k].Timestamp > t
             /\ \A i \in k + 1 .. Len(list) : list[i].Timestamp <= t
<1> DEFINE S == {0} \cup {i \in DOMAIN list : list[i].Timestamp > t}
           k == LiveLen(list, t)
<1>1. Len(list) \in Nat /\ DOMAIN list = 1 .. Len(list)
  BY LenProperties
<1>2. S \in SUBSET (0 .. Len(list)) /\ S # {}
  BY <1>1
<1>3. k = Max(S)
  BY DEF LiveLen
<1>4. k \in S /\ \A x \in S : x <= k
  <2> HIDE DEF S, k
  <2> QED
    BY <1>1, <1>2, <1>3, MaxOfInterval
<1> HIDE DEF k
<1>5. k \in 0 .. Len(list)
  BY <1>2, <1>4
<1>6. k > 0 => list[k].Timestamp > t
  BY <1>4, <1>5
<1>7. ASSUME NEW i \in k + 1 .. Len(list) PROVE list[i].Timestamp <= t
  <2>1. i \in DOMAIN list /\ i > k
    BY <1>1, <1>5
  <2>2. ~(list[i].Timestamp > t)
    BY <1>4, <1>5, <2>1
  <2>3. list[i] \in Event
    BY <1>1, <2>1, ElementOfSeq
  <2>4. list[i].Timestamp \in Int
    BY <2>3 DEF Event
  <2> QED
    BY <2>2, <2>4
<1> QED
  BY <1>5, <1>6, <1>7 DEF k

-----------------------------------------------------------------------------
(* The answer to a poll is the front of the list up to where the search    *)
(* stops, turned around.                                                   *)
LEMMA GetEventsSinceProperties ==
  ASSUME NEW eb \in eventBuffer, NEW since, NEW id
  PROVE  LET a == GetEventsSince(eb, since, id)
             k == AfterLen(eb.List, since, id)
         IN  /\ a \in Seq(Event)
             /\ Len(a) = k
             /\ \A i \in 1 .. k : a[i] = eb.List[k - i + 1]
<1> DEFINE L == eb.List
           k == AfterLen(L, since, id)
           s == SubSeq(L, 1, k)
<1>1. L \in Seq(Event) /\ Len(L) \in Nat
  BY LenProperties DEF eventBuffer
<1>2. k \in 0 .. Len(L)
  BY <1>1, AfterLenProperties
<1>3. GetEventsSince(eb, since, id) = Reverse(s)
  BY DEF GetEventsSince
<1> HIDE DEF L, k
<1>4. \A i \in 1 .. k : L[i] \in Event
  BY <1>1, <1>2, ElementOfSeq
<1>5. s \in Seq(Event) /\ Len(s) = k /\ \A i \in 1 .. k : s[i] = L[i]
  BY <1>1, <1>2, <1>4, SubSeqProperties
<1> HIDE DEF s
<1>6. \A i \in 1 .. k : k - i + 1 \in 1 .. k /\ s[k - i + 1] \in Event
  BY <1>1, <1>2, <1>4, <1>5
<1> DEFINE a == [i \in 1 .. k |-> s[k - i + 1]]
<1>7. a = Reverse(s)
  BY <1>5 DEF Reverse
<1>8. a \in [1 .. k -> Event]
  BY <1>6
<1>9. a \in Seq(Event) /\ Len(a) = k
  BY <1>1, <1>2, <1>8
<1>10. \A i \in 1 .. k : a[i] = L[k - i + 1]
  BY <1>5, <1>6
<1> HIDE DEF a
<1> QED
  BY <1>3, <1>7, <1>9, <1>10 DEF L, k

(* What deleteFetchedEvents leaves is the back of the list, without what   *)
(* was fetched: if any element remains, the last one is still the last.    *)
LEMMA WithoutFetchedProperties ==
  ASSUME NEW eb \in eventBuffer, NEW since, NEW id
  PROVE  LET w == WithoutFetched(eb, since, id)
         IN  /\ w \in eventBuffer
             /\ w.oldestEventTime = eb.oldestEventTime
             /\ Len(w.List) = Len(eb.List) - AfterLen(eb.List, since, id)
             /\ Len(w.List) > 0 => Last(w.List) = Last(eb.List)
             /\ \A i \in 1 .. Len(w.List) :
                  w.List[i] = eb.List[AfterLen(eb.List, since, id) + i]
<1> DEFINE L == eb.List
           k == AfterLen(L, since, id)
           s == SubSeq(L, k + 1, Len(L))
<1>1. L \in Seq(Event) /\ Len(L) \in Nat /\ eb.oldestEventTime \in Int
  BY LenProperties DEF eventBuffer
<1>2. k \in 0 .. Len(L)
  BY <1>1, AfterLenProperties
<1>3. WithoutFetched(eb, since, id) =
        [List |-> s, oldestEventTime |-> eb.oldestEventTime]
  <2> DEFINE w == [eb EXCEPT !.List = s]
  <2>1. w = WithoutFetched(eb, since, id)
    BY DEF WithoutFetched
  <2> HIDE DEF s
  <2>2. w = [List |-> s, oldestEventTime |-> eb.oldestEventTime]
    BY DEF eventBuffer
  <2> QED
    BY <2>1, <2>2
<1> HIDE DEF L, k
<1>4. \A i \in k + 1 .. Len(L) : L[i] \in Event
  BY <1>1, <1>2, ElementOfSeq
<1>5. /\ s \in Seq(Event) /\ Len(s) = Len(L) - k
      /\ \A i \in 1 .. Len(L) - k : s[i] = L[k + i]
  BY <1>1, <1>2, <1>4, SubSeqProperties
<1> HIDE DEF s
<1>6. Len(s) > 0 => s[Len(s)] = L[Len(L)]
  BY <1>1, <1>2, <1>5
<1> DEFINE w == WithoutFetched(eb, since, id)
<1>7. w \in eventBuffer /\ w.List = s /\ w.oldestEventTime = eb.oldestEventTime
  BY <1>1, <1>3, <1>5 DEF eventBuffer
<1> HIDE DEF w
<1> QED
  BY <1>1, <1>2, <1>5, <1>6, <1>7 DEF Last, L, k, w

(* If the cached time is right, removing what is not newer than t leaves   *)
(* the front of the list with the right cached time, and nothing that is   *)
(* not newer than t remains at the back.                                   *)
LEMMA DeleteEventsOlderThanProperties ==
  ASSUME NEW eb \in eventBuffer, NEW t \in Int,
         eb.List # <<>> => eb.oldestEventTime = Last(eb.List).Timestamp
  PROVE  LET d == DeleteEventsOlderThan(eb, t)
         IN  /\ d \in eventBuffer
             /\ Len(d.List) <= Len(eb.List)
             /\ \A i \in 1 .. Len(d.List) : d.List[i] = eb.List[i]
             /\ d.List # <<>> => /\ d.oldestEventTime = Last(d.List).Timestamp
                                 /\ d.oldestEventTime > t
             /\ \A i \in Len(d.List) + 1 .. Len(eb.List) :
                  eb.List[i].Timestamp <= t
<1> DEFINE L    == eb.List
           live == LiveLen(L, t)
           s    == SubSeq(L, 1, live)
           d    == DeleteEventsOlderThan(eb, t)
<1>1. L \in Seq(Event) /\ Len(L) \in Nat /\ eb.oldestEventTime \in Int
  BY LenProperties DEF eventBuffer
<1>2. CASE L = <<>> \/ eb.oldestEventTime > t
  <2>1. d = eb
    BY <1>2 DEF DeleteEventsOlderThan
  <2> QED
    BY <1>1, <1>2, <2>1
<1>3. CASE ~(L = <<>> \/ eb.oldestEventTime > t)
  <2>1. Len(L) > 0 /\ \A i \in 1 .. Len(L) : L[i] \in Event
    BY <1>1, <1>3, EmptySeq, ElementOfSeq
  <2>2. /\ live \in 0 .. Len(L)
        /\ live > 0 => L[live].Timestamp > t
        /\ \A i \in live + 1 .. Len(L) : L[i].Timestamp <= t
    BY <1>1, LiveLenProperties
  <2>3. d = [List |-> s,
             oldestEventTime |-> L[IF live = 0 THEN 1 ELSE live].Timestamp]
    BY <1>3 DEF DeleteEventsOlderThan
  <2> HIDE DEF live, L
  <2>4. /\ s \in Seq(Event) /\ Len(s) = live
        /\ \A i \in 1 .. live : s[i] = L[i]
    BY <2>1, <2>2, SubSeqProperties
  <2> HIDE DEF s
  <2>5. L[IF live = 0 THEN 1 ELSE live].Timestamp \in Int
    BY <2>1, <2>2 DEF Event
  <2>6. s # <<>> => live > 0 /\ Last(s) = L[live]
    BY <2>2, <2>4, EmptySeq DEF Last
  <2> HIDE DEF d
  <2>7. /\ d \in eventBuffer /\ d.List = s
        /\ d.oldestEventTime = L[IF live = 0 THEN 1 ELSE live].Timestamp
    BY <2>3, <2>4, <2>5 DEF eventBuffer
  <2> QED
    BY <1>1, <2>2, <2>4, <2>6, <2>7 DEF d, L
<1> QED
  BY <1>2, <1>3

-----------------------------------------------------------------------------
TimeOrdered(list) ==
  \A i, j \in 1 .. Len(list) : i < j => list[i].Timestamp >= list[j].Timestamp

DistinctIDs(list) ==
  \A i, j \in 1 .. Len(list) : list[i].ID = list[j].ID => i = j

(* A poll without last_id gets exactly the events newer than since_time:   *)
(* in a buffer in time order the search that stops early misses none.      *)
THEOREM SinceTimeIsExact ==
  ASSUME NEW list \in Seq(Event), TimeOrdered(list), NEW since \in Int,
         NEW i \in 1 .. Len(list)
  PROVE  i <= AfterLen(list, since, NoID) <=> list[i].Timestamp > since
<1> DEFINE k == AfterLen(list, since, NoID)
<1>1. /\ k \in 0 .. Len(list)
      /\ \A j \in 1 .. k : IsAfter(list[j], since, NoID)
      /\ k < Len(list) => ~IsAfter(list[k + 1], since, NoID)
  BY AfterLenProperties
<1>2. Len(list) \in Nat /\ \A j \in 1 .. Len(list) : list[j].Timestamp \in Int
  <2>1. \A j \in 1 .. Len(list) : list[j] \in Event
    BY ElementOfSeq
  <2> QED
    BY <2>1, LenProperties DEF Event
<1> HIDE DEF k
<1>3. ASSUME i <= k PROVE list[i].Timestamp > since
  BY <1>1, <1>2, <1>3 DEF IsAfter
<1>4. ASSUME i > k PROVE ~(list[i].Timestamp > since)
  <2>1. k + 1 \in 1 .. Len(list) /\ ~(list[k + 1].Timestamp > since)
    BY <1>1, <1>2, <1>4 DEF IsAfter
  <2>2. list[k + 1].Timestamp >= list[i].Timestamp
    BY <1>1, <1>2, <1>4, <2>1 DEF TimeOrdered
  <2> QED
    BY <1>2, <2>1, <2>2
<1> QED
  BY <1>1, <1>2, <1>3, <1>4 DEF k

(* A poll that names the event it saw last, with that event's time, gets   *)
(* exactly the events in front of it, however many share its millisecond:  *)
(* none is skipped, none repeated.                                         *)
THEOREM LastIDIsExact ==
  ASSUME NEW list \in Seq(Event), TimeOrdered(list), DistinctIDs(list),
         NEW k \in 1 .. Len(list)
  PROVE  AfterLen(list, list[k].Timestamp, list[k].ID) = k - 1
<1> DEFINE since == list[k].Timestamp
           id    == list[k].ID
           n     == AfterLen(list, since, id)
<1>1. /\ n \in 0 .. Len(list)
      /\ \A j \in 1 .. n : IsAfter(list[j], since, id)
      /\ n < Len(list) => ~IsAfter(list[n + 1], since, id)
  BY AfterLenProperties
<1>2. /\ Len(list) \in Nat
      /\ \A j \in 1 .. Len(list) : list[j].Timestamp \in Int
      /\ id # NoID
  <2>1. \A j \in 1 .. Len(list) : list[j] \in Event
    BY ElementOfSeq
  <2>2. id \in EventIDs
    BY <2>1 DEF Event
  <2> QED
    BY <2>1, <2>2, LenProperties, EventBufferAssumption DEF Event
<1>3. ~IsAfter(list[k], since, id)
  BY <1>2 DEF IsAfter
<1>4. \A j \in 1 .. k - 1 : IsAfter(list[j], since, id)
  <2>1. TAKE j \in 1 .. k - 1
  <2>2. j \in 1 .. Len(list) /\ j < k
    BY <1>2
  <2>3. list[j].Timestamp >= since /\ list[j].ID # id
    BY <2>2 DEF TimeOrdered, DistinctIDs
  <2> QED
    BY <1>2, <2>2, <2>3 DEF IsAfter
<1> HIDE DEF n
<1>5. ~(n >= k)
  BY <1>1, <1>2, <1>3
<1>6. ~(n < k - 1)
  <2>1. ASSUME n < k - 1 PROVE FALSE
    <3>1. n + 1 \in 1 .. k - 1 /\ n < Len(list)
      BY <1>1, <1>2, <2>1
    <3> QED
      BY <1>1, <1>4, <3>1
  <2> QED
    BY <2>1
<1> QED
  BY <1>1, <1>2, <1>5, <1>6 DEF n
=============================================================================

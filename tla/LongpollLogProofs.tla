-------------------------- MODULE LongpollLogProofs --------------------------
(***************************************************************************)
(* The running server keeps EventLog's promise to those who poll it, for   *)
(* any number of clients, categories and events: ImplementsEventLog, where *)
(* one publisher alone publishes, nothing expires or is deleted, and the   *)
(* buffers are large enough for all events.                                *)
(***************************************************************************)
EXTENDS LongpollLog, LongpollProofs

(* Where EventLog speaks of the server.                                    *)
LogAssumption ==
  /\ EventTimeToLive = forever
  /\ ~DeleteEventAfterFirstRetrieval
  /\ LonePublisher
  /\ NoFutureEvents
  /\ \A events \in InitialEvents : \A i, j \in 1 .. Len(events) :
       events[i].ID = events[j].ID => i = j
  /\ IsFiniteSet(EventIDs) /\ Cardinality(EventIDs) <= MaxEventBufferSize

-----------------------------------------------------------------------------
(* The invariant.                                                          *)

(* The events still to be buffered, in the order in which they will be.    *)
Incoming == IF Started THEN Events ELSE startup.startChan

(* No event comes twice, and what comes is no older than what is buffered. *)
IncomingOK ==
  /\ Started => startup.startChan = <<>>
  /\ ~Started => Events = <<>>
  /\ \A i \in 1 .. Len(Incoming) : Incoming[i] \in published
  /\ \A i, j \in 1 .. Len(Incoming) : Incoming[i].ID = Incoming[j].ID => i = j
  /\ Started => \A i, j \in 1 .. Len(Incoming) :
                  i < j => Incoming[i].Timestamp <= Incoming[j].Timestamp

LogOK ==
  \A cat \in Categories : \A i \in 1 .. Len(BufferedIn(cat)) :
    LET e == BufferedIn(cat)[i]
    IN  /\ e \in published
        /\ \A j \in 1 .. Len(BufferedIn(cat)) : BufferedIn(cat)[j].ID = e.ID => j = i
        /\ \A j \in 1 .. Len(Incoming) : Incoming[j].ID # e.ID
        /\ IF Started
           THEN \A j \in 1 .. Len(Incoming) : e.Timestamp <= Incoming[j].Timestamp
           ELSE e.Timestamp <= startup.currentEventTime

(* What a poll gets that is looked at when the log has n of the events l:  *)
(* Log!Batch, for any log.                                                 *)
BatchOf(l, since, id, n) ==
  LET behind == Log!Behind(since, id, SubSeq(l, 1, n))
  IN  IF behind = <<>> /\ n < Len(l) THEN <<l[n + 1]>> ELSE behind

ParkedAt(c, cat) ==
  cat \in DOMAIN ClientSubChannels /\ c \in ClientSubChannels[cat]

(* A request that the manager has not been told of is nowhere in it.       *)
Untold(c) ==
  /\ \A i \in 1 .. Len(clientSubscriptions) : clientSubscriptions[i].ClientUUID # c
  /\ \A cat \in Categories : ~ParkedAt(c, cat)
  /\ subEvents[c] = <<>>

(* A request q of client c is queued as it was made; it is parked only in  *)
(* its category and only if nothing in the log is behind its cursor; and   *)
(* what is sent to it is what it gets at some moment since it was made.    *)
Fares(c, q, list) ==
  /\ asked[c] <= Len(list)
  /\ \A i \in 1 .. Len(clientSubscriptions) :
       clientSubscriptions[i].ClientUUID = c => clientSubscriptions[i] = q
  /\ \A cat \in Categories : ParkedAt(c, cat) =>
       /\ cat = q.SubscriptionCategory
       /\ AfterLen(list, q.LastEventTime, q.LastEventID) = 0
  /\ subEvents[c] # <<>> =>
       \E n \in asked[c] .. Len(list) :
         /\ Head(subEvents[c]) # <<>>
         /\ Head(subEvents[c]) =
              BatchOf(Reverse(list), q.LastEventTime, q.LastEventID, n)

UnderWay(c) == Fares(c, request[c], BufferedIn(request[c].SubscriptionCategory))

PollOK(c) ==
  /\ handler[c] # "done" => response[c] = [status |-> "none"]
  /\ handler[c] \in {"idle", "subscribe"} => Untold(c)
  /\ c \in DOMAIN request => Started /\ UnderWay(c)

PollsOK == \A c \in Clients : PollOK(c)

LogInv == IncomingOK /\ LogOK /\ PollsOK

-----------------------------------------------------------------------------
(* Lists, newest event first, and logs, oldest first.                      *)

LEMMA ReverseProperties ==
  ASSUME NEW S, NEW s \in Seq(S), NEW n \in Nat, n = Len(s)
  PROVE  /\ Reverse(s) \in Seq(S)
         /\ Len(Reverse(s)) = n
         /\ \A i \in 1 .. n : n - i + 1 \in 1 .. n /\ Reverse(s)[i] = s[n - i + 1]
<1>1. \A i \in 1 .. n : n - i + 1 \in 1 .. n /\ s[n - i + 1] \in S
  <2>1. \A i \in 1 .. n : n - i + 1 \in 1 .. n
    OBVIOUS
  <2> QED
    BY <2>1, ElementOfSeq
<1> DEFINE a == [i \in 1 .. n |-> s[n - i + 1]]
<1>2. a = Reverse(s)
  BY DEF Reverse
<1>3. a \in [1 .. n -> S] /\ \A i \in 1 .. n : a[i] = s[n - i + 1]
  BY <1>1
<1> HIDE DEF a
<1>4. a \in Seq(S) /\ Len(a) = n
  BY <1>3
<1> QED
  BY <1>1, <1>2, <1>3, <1>4

LEMMA ReversePush ==
  ASSUME NEW S, NEW old \in Seq(S), NEW new \in Seq(S), NEW e \in S,
         Len(new) = Len(old) + 1, new[1] = e,
         \A i \in 2 .. Len(new) : new[i] = old[i - 1]
  PROVE  Reverse(new) = Append(Reverse(old), e)
<1>1. PICK n \in Nat : n = Len(old)
  BY LenProperties
<1>2. /\ Reverse(old) \in Seq(S) /\ Len(Reverse(old)) = n
      /\ \A i \in 1 .. n : n - i + 1 \in 1 .. n /\ Reverse(old)[i] = old[n - i + 1]
  BY <1>1, ReverseProperties
<1>3. /\ Reverse(new) \in Seq(S) /\ Len(Reverse(new)) = n + 1
      /\ \A i \in 1 .. n + 1 : Reverse(new)[i] = new[(n + 1) - i + 1]
  <2>1. n + 1 \in Nat /\ n + 1 = Len(new)
    BY <1>1
  <2> QED
    BY <2>1, ReverseProperties
<1>4. /\ Append(Reverse(old), e) \in Seq(S) /\ Len(Append(Reverse(old), e)) = n + 1
      /\ \A i \in 1 .. n : Append(Reverse(old), e)[i] = Reverse(old)[i]
      /\ Append(Reverse(old), e)[n + 1] = e
  BY <1>2, AppendProperties
<1>5. ASSUME NEW i \in 1 .. n + 1
      PROVE  Reverse(new)[i] = Append(Reverse(old), e)[i]
  <2>1. CASE i = n + 1
    BY <1>1, <1>3, <1>4, <2>1
  <2>2. CASE i # n + 1
    <3>1. i \in 1 .. n /\ n + 1 - i + 1 \in 2 .. n + 1 /\ (n + 1 - i + 1) - 1 = n - i + 1
      BY <2>2
    <3>2. new[n + 1 - i + 1] = old[n - i + 1]
      BY <1>1, <3>1
    <3> QED
      BY <1>2, <1>3, <1>4, <3>1, <3>2
  <2> QED
    BY <2>1, <2>2
<1> QED
  BY <1>3, <1>4, <1>5, SeqEqual

LEMMA PrefixProperties ==
  ASSUME NEW S, NEW s \in Seq(S), NEW n \in 0 .. Len(s)
  PROVE  /\ SubSeq(s, 1, n) \in Seq(S)
         /\ Len(SubSeq(s, 1, n)) = n
         /\ \A i \in 1 .. n : SubSeq(s, 1, n)[i] = s[i]
<1>1. \A i \in 1 .. n : s[i] \in S
  <2>1. Len(s) \in Nat
    BY LenProperties
  <2>2. \A i \in 1 .. n : i \in 1 .. Len(s)
    BY <2>1
  <2> QED
    BY <2>2, ElementOfSeq
<1>2. 1 \in Int /\ n \in Int /\ n >= 0 /\ n - 1 + 1 = n /\ \A i \in 1 .. n : 1 + i - 1 = i
  BY LenProperties
<1> QED
  BY <1>1, <1>2, SubSeqProperties

LEMMA PrefixOfAppend ==
  ASSUME NEW S, NEW s \in Seq(S), NEW e \in S, NEW n \in 0 .. Len(s)
  PROVE  SubSeq(Append(s, e), 1, n) = SubSeq(s, 1, n)
<1>1. PICK m \in Nat : m = Len(s)
  BY LenProperties
<1>2. /\ Append(s, e) \in Seq(S) /\ Len(Append(s, e)) = m + 1
      /\ \A i \in 1 .. m : Append(s, e)[i] = s[i]
  BY <1>1, AppendProperties
<1>3. n \in 0 .. m /\ n \in 0 .. m + 1
  BY <1>1
<1>4. /\ SubSeq(Append(s, e), 1, n) \in Seq(S) /\ Len(SubSeq(Append(s, e), 1, n)) = n
      /\ \A i \in 1 .. n : SubSeq(Append(s, e), 1, n)[i] = Append(s, e)[i]
  BY <1>2, <1>3, PrefixProperties
<1>5. /\ SubSeq(s, 1, n) \in Seq(S) /\ Len(SubSeq(s, 1, n)) = n
      /\ \A i \in 1 .. n : SubSeq(s, 1, n)[i] = s[i]
  BY <1>1, <1>3, PrefixProperties
<1>6. \A i \in 1 .. n : i \in 1 .. m
  BY <1>3
<1> QED
  BY <1>2, <1>4, <1>5, <1>6, SeqEqual

(* The search of the buffer from its front and the place in the log that a *)
(* cursor names give a poll the same events, in whatever order they are.   *)
LEMMA BehindIsAfter ==
  ASSUME NEW list \in Seq(Event), NEW since \in Nat, NEW id
  PROVE  Log!Behind(since, id, Reverse(list)) =
           Reverse(SubSeq(list, 1, AfterLen(list, since, id)))
<1>1. PICK n \in Nat : n = Len(list)
  BY LenProperties
<1>2. PICK k \in 0 .. n :
        /\ k = AfterLen(list, since, id)
        /\ \A i \in 1 .. k : IsAfter(list[i], since, id)
        /\ k < n => ~IsAfter(list[k + 1], since, id)
  BY <1>1, AfterLenProperties
<1>3. /\ Reverse(list) \in Seq(Event) /\ Len(Reverse(list)) = n
      /\ \A i \in 1 .. n : n - i + 1 \in 1 .. n /\ Reverse(list)[i] = list[n - i + 1]
  BY <1>1, ReverseProperties
<1>4. DOMAIN Reverse(list) = 1 .. n
  BY <1>3, LenProperties
<1>5. \A i \in 1 .. n : Log!Covers(since, id, list[i]) <=> ~IsAfter(list[i], since, id)
  <2>1. ASSUME NEW i \in 1 .. n
        PROVE  Log!Covers(since, id, list[i]) <=> ~IsAfter(list[i], since, id)
    <3>1. list[i] \in Event
      BY <1>1, ElementOfSeq
    <3>2. list[i].Timestamp \in Nat /\ list[i].ID # NoID
      BY <3>1, EventBufferAssumption DEF Event
    <3> QED
      BY <3>2 DEF Log!Covers, IsAfter
  <2> QED
    BY <2>1
<1> DEFINE l       == Reverse(list)
           covered == {i \in DOMAIN l : Log!Covers(since, id, l[i])}
<1>6. \A i \in 1 .. n : i \in covered <=> ~IsAfter(list[n - i + 1], since, id)
  BY <1>3, <1>4, <1>5
<1>7. covered \subseteq 1 .. n
  BY <1>4
<1>8. Log!Behind(since, id, l) = SubSeq(l, 1 + (n - k), n)
  <2>1. \A j \in covered : j <= n - k
    <3>1. ASSUME NEW j \in covered, ~(j <= n - k) PROVE FALSE
      <4>1. j \in 1 .. n /\ n - j + 1 \in 1 .. k
        BY <1>7, <3>1
      <4> QED
        BY <1>2, <1>6, <4>1
    <3> QED
      BY <3>1
  <2>2. CASE k = n
    <3>1. covered = {}
      <4>1. \A j \in 1 .. n : ~(j <= n - k)
        BY <2>2
      <4> QED
        BY <1>7, <2>1, <4>1
    <3>2. Log!Behind(since, id, l) = l
      BY <3>1 DEF Log!Behind
    <3>3. SubSeq(l, 1 + (n - k), n) = l
      <4>1. 1 + (n - k) = 1
        BY <2>2
      <4> QED
        BY <1>3, <4>1, SubSeqFull
    <3> QED
      BY <3>2, <3>3
  <2>3. CASE k # n
    <3>1. n - k \in 1 .. n /\ n - (n - k) + 1 = k + 1 /\ k < n
      BY <2>3
    <3>2. n - k \in covered
      BY <1>2, <1>6, <3>1
    <3> DEFINE m == CHOOSE i \in covered : \A j \in covered : j <= i
    <3>3. m = n - k
      <4>1. m \in covered /\ \A j \in covered : j <= m
        BY <2>1, <3>2
      <4>2. m \in Int /\ n - k <= m /\ m <= n - k
        BY <1>7, <2>1, <3>2, <4>1
      <4> HIDE DEF m
      <4> QED
        BY <4>2
    <3>4. Log!Behind(since, id, l) = SubSeq(l, 1 + m, Len(l))
      BY <3>2 DEF Log!Behind
    <3> QED
      BY <1>3, <3>3, <3>4
  <2> QED
    BY <2>2, <2>3
<1> HIDE DEF covered
<1>9. /\ SubSeq(list, 1, k) \in Seq(Event) /\ Len(SubSeq(list, 1, k)) = k
      /\ \A i \in 1 .. k : SubSeq(list, 1, k)[i] = list[i]
  BY <1>1, <1>2, PrefixProperties
<1>10. /\ Reverse(SubSeq(list, 1, k)) \in Seq(Event) /\ Len(Reverse(SubSeq(list, 1, k))) = k
       /\ \A i \in 1 .. k : /\ k - i + 1 \in 1 .. k
                            /\ Reverse(SubSeq(list, 1, k))[i] = SubSeq(list, 1, k)[k - i + 1]
  <2>1. k \in Nat
    BY <1>2
  <2> QED
    BY <1>9, <2>1, ReverseProperties
<1>11. /\ SubSeq(l, 1 + (n - k), n) \in Seq(Event) /\ Len(SubSeq(l, 1 + (n - k), n)) = k
       /\ \A i \in 1 .. k : SubSeq(l, 1 + (n - k), n)[i] = l[(n - k) + i]
  <2>1. \A i \in 1 + (n - k) .. n : l[i] \in Event
    <3>1. \A i \in 1 + (n - k) .. n : i \in 1 .. n
      BY <1>2
    <3> QED
      BY <1>3, <3>1, ElementOfSeq
  <2>2. /\ 1 + (n - k) \in Int /\ n - (1 + (n - k)) + 1 = k
        /\ \A i \in 1 .. k : 1 + (n - k) + i - 1 = (n - k) + i
        /\ ~(1 + (n - k) <= n) => k = 0
    OBVIOUS
  <2> QED
    BY <2>1, <2>2, SubSeqProperties
<1>12. ASSUME NEW i \in 1 .. k
       PROVE  SubSeq(l, 1 + (n - k), n)[i] = Reverse(SubSeq(list, 1, k))[i]
  <2>1. (n - k) + i \in 1 .. n /\ n - ((n - k) + i) + 1 = k - i + 1
    BY <1>2
  <2>2. l[(n - k) + i] = list[k - i + 1]
    BY <1>3, <2>1
  <2> QED
    BY <1>9, <1>10, <1>11, <2>2
<1>13. SubSeq(l, 1 + (n - k), n) = Reverse(SubSeq(list, 1, k))
  <2> HIDE DEF l
  <2> QED
    BY <1>10, <1>11, <1>12, SeqEqual
<1> QED
  BY <1>2, <1>8, <1>13

(* What a poll gets as of now, and as of just before the next event; and   *)
(* that an event more makes no difference to what it gets as of then.      *)
LEMMA BatchProperties ==
  ASSUME NEW list \in Seq(Event), NEW since \in Nat, NEW id,
         NEW e \in Event, NEW k, k = AfterLen(list, since, id),
         NEW l, l = Reverse(list), NEW n \in Nat, n = Len(list)
  PROVE  /\ BatchOf(l, since, id, n) = Reverse(SubSeq(list, 1, k))
         /\ k = 0 => BatchOf(Append(l, e), since, id, n) = <<e>>
         /\ \A m \in 0 .. n :
              BatchOf(l, since, id, m) # <<>> =>
                BatchOf(Append(l, e), since, id, m) = BatchOf(l, since, id, m)
<1>1. l \in Seq(Event) /\ Len(l) = n
  BY ReverseProperties
<1>2. SubSeq(l, 1, n) = l
  BY <1>1, SubSeqFull
<1>3. Log!Behind(since, id, l) = Reverse(SubSeq(list, 1, k))
  BY BehindIsAfter
<1>4. /\ Append(l, e) \in Seq(Event) /\ Len(Append(l, e)) = n + 1
      /\ \A i \in 1 .. n : Append(l, e)[i] = l[i]
      /\ Append(l, e)[n + 1] = e
  BY <1>1, AppendProperties
<1>5. \A m \in 0 .. n : SubSeq(Append(l, e), 1, m) = SubSeq(l, 1, m)
  BY <1>1, PrefixOfAppend
<1>6. BatchOf(l, since, id, n) = Reverse(SubSeq(list, 1, k))
  <2>1. ~(n < Len(l))
    BY <1>1
  <2> QED
    BY <1>2, <1>3, <2>1 DEF BatchOf
<1>7. ASSUME k = 0 PROVE BatchOf(Append(l, e), since, id, n) = <<e>>
  <2>1. SubSeq(list, 1, k) = <<>>
    BY <1>7, SubSeqEmpty
  <2>2. Reverse(SubSeq(list, 1, k)) = <<>>
    <3>1. <<>> \in Seq(Event) /\ 0 = Len(<<>>)
      BY EmptySeq
    <3>2. Reverse(<<>>) \in Seq(Event) /\ Len(Reverse(<<>>)) = 0
      BY <3>1, ReverseProperties
    <3> QED
      BY <2>1, <3>2, EmptySeq
  <2>3. SubSeq(Append(l, e), 1, n) = l
    <3>1. n \in 0 .. n
      OBVIOUS
    <3> QED
      BY <1>2, <1>5, <3>1
  <2>4. Log!Behind(since, id, SubSeq(Append(l, e), 1, n)) = <<>>
    BY <1>3, <2>2, <2>3
  <2>5. n < n + 1
    OBVIOUS
  <2> QED
    BY <1>4, <2>4, <2>5 DEF BatchOf
<1>8. ASSUME NEW m \in 0 .. n, BatchOf(l, since, id, m) # <<>>
      PROVE  BatchOf(Append(l, e), since, id, m) = BatchOf(l, since, id, m)
  <2> DEFINE behind == Log!Behind(since, id, SubSeq(l, 1, m))
  <2>1. BatchOf(l, since, id, m) = IF behind = <<>> /\ m < n THEN <<l[m + 1]>> ELSE behind
    BY <1>1 DEF BatchOf
  <2>2. BatchOf(Append(l, e), since, id, m) =
          IF behind = <<>> /\ m < n + 1 THEN <<Append(l, e)[m + 1]>> ELSE behind
    BY <1>4, <1>5 DEF BatchOf
  <2> HIDE DEF behind
  <2>3. CASE behind # <<>>
    BY <2>1, <2>2, <2>3
  <2>4. CASE behind = <<>>
    <3>1. m < n
      BY <1>8, <2>1, <2>4
    <3>2. m < n + 1 /\ m + 1 \in 1 .. n
      BY <3>1
    <3> QED
      BY <1>4, <2>1, <2>2, <2>4, <3>1, <3>2
  <2> QED
    BY <2>3, <2>4
<1> QED
  BY <1>6, <1>7, <1>8

-----------------------------------------------------------------------------
(* The manager's store, where nothing expires or is deleted.               *)

LEMMA ListFacts ==
  ASSUME MInv, NEW cat
  PROVE  /\ BufferedIn(cat) \in Seq(Event)
         /\ Len(BufferedIn(cat)) \in Nat
         /\ cat \in DOMAIN store.SubEventBuffer => BufferedIn(cat) # <<>>
<1>1. IsStore(store)
  BY DEF MInv, ManagerTypeOK
<1>2. BufferedIn(cat) \in Seq(Event)
  BY <1>1, BufferType, EmptySeq DEF BufferedIn
<1>3. cat \in DOMAIN store.SubEventBuffer => BufferedIn(cat) # <<>>
  BY DEF MInv, StoreConsistent, StoreOK, WellFormedBuffer, BufferedIn
<1> QED
  BY <1>2, <1>3, LenProperties

LEMMA PurgeTakesNothing ==
  ASSUME LogAssumption
  PROVE  /\ \A st, n : PurgeStaleCategories(st, n) = st
         /\ \A st : SeeIfTimeToPurgeStaleCategories(st) => store' = st
BY DEF LogAssumption, PurgeStaleCategories, NoTTL, SeeIfTimeToPurgeStaleCategories

LEMMA AnswerIsBehind ==
  ASSUME MInv, LogAssumption, NEW sub
  PROVE  LET list == BufferedIn(sub.SubscriptionCategory)
         IN  /\ Answer(store, sub, now) =
                  Reverse(SubSeq(list, 1, AfterLen(list, sub.LastEventTime, sub.LastEventID)))
             /\ StoreAfterAnswer(store, sub, now) = store
<1> DEFINE cat  == sub.SubscriptionCategory
           list == BufferedIn(cat)
           k    == AfterLen(list, sub.LastEventTime, sub.LastEventID)
<1>1. list \in Seq(Event) /\ (cat \in DOMAIN store.SubEventBuffer => list # <<>>)
  BY ListFacts
<1>2. NoTTL /\ ~DeleteEventAfterFirstRetrieval
  BY DEF LogAssumption, NoTTL
<1>3. CASE cat \in DOMAIN store.SubEventBuffer
  <2>1. list = store.SubEventBuffer[cat].List
    BY <1>3 DEF BufferedIn
  <2>2. CheckExpiredEvents(store, cat, now) = store
    BY <1>2 DEF CheckExpiredEvents
  <2>3. Answer(store, sub, now) = Reverse(SubSeq(list, 1, k))
    BY <1>3, <2>1, <2>2 DEF Answer, GetEventsSince
  <2>4. StoreAfterAnswer(store, sub, now) = store
    BY <1>1, <1>2, <1>3, <2>1, <2>2 DEF StoreAfterAnswer, DeleteBufferIfEmpty
  <2> QED
    BY <2>3, <2>4
<1>4. CASE cat \notin DOMAIN store.SubEventBuffer
  <2>1. Answer(store, sub, now) = <<>> /\ StoreAfterAnswer(store, sub, now) = store
    BY <1>4 DEF Answer, StoreAfterAnswer
  <2>2. list = <<>> /\ Len(list) = 0
    BY <1>4, EmptySeq DEF BufferedIn
  <2>3. k = 0
    <3>1. k \in 0 .. Len(list)
      BY <1>1, AfterLenProperties
    <3> QED
      BY <2>2, <3>1
  <2>4. SubSeq(list, 1, k) = <<>>
    BY <2>3, SubSeqEmpty
  <2>5. Reverse(<<>>) = <<>>
    <3>1. <<>> \in Seq(Event) /\ 0 = Len(<<>>)
      BY EmptySeq
    <3>2. Reverse(<<>>) \in Seq(Event) /\ Len(Reverse(<<>>)) = 0
      BY <3>1, ReverseProperties
    <3> QED
      BY <3>2, EmptySeq
  <2> QED
    BY <2>1, <2>4, <2>5
<1> QED
  BY <1>3, <1>4

(* event is put in front of its category's list.                           *)
Pushed(event) ==
  LET cat == event.Category
  IN  /\ Len(BufferedIn(cat)') = Len(BufferedIn(cat)) + 1
      /\ BufferedIn(cat)'[1] = event
      /\ \A i \in 2 .. Len(BufferedIn(cat)') : BufferedIn(cat)'[i] = BufferedIn(cat)[i - 1]
      /\ \A other \in Categories \ {cat} : BufferedIn(other)' = BufferedIn(other)

LEMMA NewEventPushed ==
  ASSUME MInv, LogAssumption, NEW event \in Event,
         Len(BufferedIn(event.Category)) < MaxEventBufferSize,
         store' = StoreNewEvent(store, event, TRUE, now)
  PROVE  Pushed(event)
<1> DEFINE cat   == event.Category
           found == cat \in DOMAIN store.SubEventBuffer
           room  == IF found THEN store ELSE CreateBuffer(store, cat, now)
           eb    == IF found THEN store.SubEventBuffer[cat]
                    ELSE [List |-> <<>>, oldestEventTime |-> now]
           q     == QueueEvent(eb, event)
<1>1. /\ NoTTL /\ IsStore(store) /\ now \in Nat /\ cat \in Categories
  BY DEF LogAssumption, NoTTL, MInv, ManagerTypeOK, Event
<1>2. /\ eb \in eventBuffer /\ eb.List = BufferedIn(cat)
  BY <1>1, BufferType, EmptySeq DEF BufferedIn, eventBuffer
<1>3. /\ cat \in DOMAIN room.SubEventBuffer
      /\ room.SubEventBuffer[cat] = eb
      /\ DOMAIN room.SubEventBuffer = DOMAIN store.SubEventBuffer \cup {cat}
      /\ \A other \in DOMAIN store.SubEventBuffer \ {cat} :
           room.SubEventBuffer[other] = store.SubEventBuffer[other]
  BY DEF CreateBuffer, Put
<1>4. /\ Len(eb.List) \in Nat
      /\ Len(q.List) \in 1 .. MaxEventBufferSize
      /\ Len(q.List) = IF Len(eb.List) = MaxEventBufferSize
                       THEN Len(eb.List) ELSE Len(eb.List) + 1
      /\ q.List[1] = event
      /\ \A i \in 2 .. Len(q.List) : q.List[i] = eb.List[i - 1]
  <2>1. Len(eb.List) \in Nat /\ Len(eb.List) <= MaxEventBufferSize
    <3>1. Len(BufferedIn(cat)) \in Nat
      BY ListFacts
    <3> QED
      BY <1>2, <3>1, EventBufferAssumption
  <2> HIDE DEF eb
  <2> QED
    BY <1>2, <2>1, QueueEventProperties
<1>5. store'.SubEventBuffer = [room.SubEventBuffer EXCEPT ![cat] = q]
  <2> DEFINE buffered == QueueInBuffer(room, event)
  <2>1. buffered.SubEventBuffer = [room.SubEventBuffer EXCEPT ![cat] = q]
    BY <1>3 DEF QueueInBuffer
  <2>2. CheckExpiredEvents(buffered, cat, now) = buffered
    BY <1>1 DEF CheckExpiredEvents
  <2>3. DeleteBufferIfEmpty(buffered, cat) = buffered
    <3>1. buffered.SubEventBuffer[cat] = q
      BY <1>3, <2>1
    <3>2. q.List # <<>>
      <4>1. Len(q.List) >= 1
        BY <1>4, EventBufferAssumption
      <4> HIDE DEF q
      <4> QED
        BY <4>1, EmptySeq
    <3> HIDE DEF buffered, q
    <3> QED
      BY <3>1, <3>2 DEF DeleteBufferIfEmpty
  <2>4. store' = IF found
                 THEN DeleteBufferIfEmpty(CheckExpiredEvents(buffered, cat, now), cat)
                 ELSE buffered
    BY DEF StoreNewEvent
  <2> HIDE DEF buffered
  <2> QED
    BY <2>1, <2>2, <2>3, <2>4
<1> HIDE DEF room, eb, q
<1>6. BufferedIn(cat)' = q.List
  BY <1>3, <1>5 DEF BufferedIn
<1>7. \A other \in Categories \ {cat} : BufferedIn(other)' = BufferedIn(other)
  BY <1>3, <1>5 DEF BufferedIn
<1>8. Len(q.List) = Len(BufferedIn(cat)) + 1
  <2>1. Len(BufferedIn(cat)) # MaxEventBufferSize
    BY <1>2, <1>4
  <2> QED
    BY <1>2, <1>4, <2>1
<1> QED
  BY <1>2, <1>4, <1>6, <1>7, <1>8 DEF Pushed

(* Events that differ from the last one to come leave room for it.         *)
LEMMA RoomForOneMore ==
  ASSUME LogAssumption, NEW list \in Seq(Event), NEW e \in Event,
         \A i, j \in 1 .. Len(list) : list[i].ID = list[j].ID => i = j,
         \A i \in 1 .. Len(list) : list[i].ID # e.ID
  PROVE  Len(list) < MaxEventBufferSize
<1>1. PICK n \in Nat : n = Len(list)
  BY LenProperties
<1> DEFINE rest == EventIDs \ {e.ID}
           f    == [i \in 1 .. n |-> list[i].ID]
<1>2. \A i \in 1 .. n : list[i].ID \in rest
  <2>1. \A i \in 1 .. n : list[i] \in Event
    BY <1>1, ElementOfSeq
  <2> QED
    BY <1>1, <2>1 DEF Event
<1>3. f \in Injection(1 .. n, rest)
  <2>1. f \in [1 .. n -> rest] /\ \A i \in 1 .. n : f[i] = list[i].ID
    BY <1>2
  <2>2. \A i, j \in 1 .. n : f[i] = f[j] => i = j
    BY <1>1, <2>1
  <2> HIDE DEF f, rest
  <2> QED
    BY <2>1, <2>2 DEF Injection, IsInjective
<1>4. /\ IsFiniteSet(EventIDs) /\ e.ID \in EventIDs
      /\ Cardinality(EventIDs) <= MaxEventBufferSize
  BY DEF LogAssumption, Event
<1>5. IsFiniteSet(rest) /\ Cardinality(rest) = Cardinality(EventIDs) - 1
  BY <1>4, FS_RemoveElement
<1>6. Cardinality(1 .. n) <= Cardinality(rest)
  <2> HIDE DEF f, rest
  <2> QED
    BY <1>3, <1>5, FS_Injection
<1>7. Cardinality(1 .. n) = n
  <2>1. 1 \in Int /\ n \in Int
    OBVIOUS
  <2>2. Cardinality(1 .. n) = IF 1 > n THEN 0 ELSE n - 1 + 1
    BY <2>1, FS_Interval
  <2> QED
    BY <2>2
<1>8. Cardinality(EventIDs) \in Nat /\ MaxEventBufferSize \in Nat
  BY <1>4, FS_CardinalityType, EventBufferAssumption
<1> HIDE DEF rest
<1> QED
  BY <1>1, <1>4, <1>5, <1>6, <1>7, <1>8

-----------------------------------------------------------------------------
(* Events come in, and go into the buffers, once and in order.             *)

LEMMA IncomingType ==
  ASSUME MInv
  PROVE  Incoming \in Seq(Event) /\ Len(Incoming) \in Nat
<1>1. Incoming \in Seq(Event)
  BY DEF MInv, ManagerTypeOK, Incoming
<1> QED
  BY <1>1, LenProperties

LEMMA TakenProperties ==
  ASSUME MInv, Incoming # <<>>, Incoming' = Tail(Incoming)
  PROVE  /\ Head(Incoming) \in Event /\ Head(Incoming) = Incoming[1]
         /\ 1 \in 1 .. Len(Incoming)
         /\ Len(Incoming') = Len(Incoming) - 1 /\ Len(Incoming') \in Nat
         /\ \A i \in 1 .. Len(Incoming') : /\ i + 1 \in 1 .. Len(Incoming)
                                           /\ Incoming'[i] = Incoming[i + 1]
<1>1. Incoming \in Seq(Event) /\ Len(Incoming) \in Nat \ {0}
  BY IncomingType, EmptySeq
<1>2. /\ Head(Incoming) \in Event
      /\ Len(Tail(Incoming)) = Len(Incoming) - 1
      /\ \A i \in 1 .. Len(Tail(Incoming)) : Tail(Incoming)[i] = Incoming[i + 1]
  BY <1>1, HeadTailProperties
<1>3. Head(Incoming) = Incoming[1]
  BY <1>1
<1>4. \A i \in 1 .. Len(Incoming) - 1 : i + 1 \in 1 .. Len(Incoming)
  BY <1>1
<1> QED
  BY <1>1, <1>2, <1>3, <1>4

LEMMA TakingKeepsIncoming ==
  ASSUME MInv, IncomingOK, Incoming # <<>>, Incoming' = Tail(Incoming),
         Started' <=> Started, published' = published,
         (Started => startup.startChan = <<>>)', (~Started => Events = <<>>)'
  PROVE  IncomingOK'
<1>1. PICK n, m \in Nat :
        /\ n = Len(Incoming) /\ m = Len(Incoming')
        /\ \A i \in 1 .. m : i + 1 \in 1 .. n /\ Incoming'[i] = Incoming[i + 1]
  BY IncomingType, TakenProperties
<1>2. /\ \A i \in 1 .. n : Incoming[i] \in published
      /\ \A i, j \in 1 .. n : Incoming[i].ID = Incoming[j].ID => i = j
      /\ Started => \A i, j \in 1 .. n : i < j => Incoming[i].Timestamp <= Incoming[j].Timestamp
  BY <1>1 DEF IncomingOK
<1>3. \A i \in 1 .. m : Incoming'[i] \in published
  BY <1>1, <1>2
<1>4. \A i, j \in 1 .. m : Incoming'[i].ID = Incoming'[j].ID => i = j
  <2>1. SUFFICES ASSUME NEW i \in 1 .. m, NEW j \in 1 .. m, Incoming'[i].ID = Incoming'[j].ID
                 PROVE  i = j
    OBVIOUS
  <2>2. i + 1 = j + 1
    BY <1>1, <1>2, <2>1
  <2> QED
    BY <2>2
<1>5. Started => \A i, j \in 1 .. m :
                   i < j => Incoming'[i].Timestamp <= Incoming'[j].Timestamp
  <2>1. SUFFICES ASSUME Started, NEW i \in 1 .. m, NEW j \in 1 .. m, i < j
                 PROVE  Incoming'[i].Timestamp <= Incoming'[j].Timestamp
    OBVIOUS
  <2>2. i + 1 < j + 1
    BY <2>1
  <2> QED
    BY <1>1, <1>2, <2>1, <2>2
<1> QED
  BY <1>1, <1>3, <1>4, <1>5 DEF IncomingOK

(* LogOK, for one event of a list.                                         *)
PlacedIn(list, i) ==
  LET e == list[i]
  IN  /\ e \in published
      /\ \A j \in 1 .. Len(list) : list[j].ID = e.ID => j = i
      /\ \A j \in 1 .. Len(Incoming) : Incoming[j].ID # e.ID
      /\ IF Started
         THEN \A j \in 1 .. Len(Incoming) : e.Timestamp <= Incoming[j].Timestamp
         ELSE e.Timestamp <= startup.currentEventTime

(* The event that is taken becomes the newest of its category.             *)
LEMMA TakingKeepsLog ==
  ASSUME MInv, IncomingOK, LogOK, Incoming # <<>>, Incoming' = Tail(Incoming),
         Started' <=> Started, published' = published,
         NEW event \in Event, event = Head(Incoming), Pushed(event),
         startup.currentEventTime \in Nat, startup'.currentEventTime \in Nat,
         ~Started => /\ event.Timestamp = startup'.currentEventTime
                     /\ startup.currentEventTime <= startup'.currentEventTime
  PROVE  LogOK'
<1> DEFINE Bounded(e) == IF Started
                         THEN \A j \in 1 .. Len(Incoming') : e.Timestamp <= Incoming'[j].Timestamp
                         ELSE e.Timestamp <= startup'.currentEventTime
<1>1. PICK n, m \in Nat :
        /\ n = Len(Incoming) /\ m = Len(Incoming') /\ 1 \in 1 .. n
        /\ \A i \in 1 .. m : i + 1 \in 1 .. n /\ Incoming'[i] = Incoming[i + 1]
  BY IncomingType, TakenProperties
<1>2. event = Incoming[1] /\ event.Category \in Categories
      /\ event.Timestamp \in Nat
  BY TakenProperties DEF Event
<1>3. /\ \A i \in 1 .. n : Incoming[i] \in published
      /\ \A i, j \in 1 .. n : Incoming[i].ID = Incoming[j].ID => i = j
      /\ Started => \A i, j \in 1 .. n : i < j => Incoming[i].Timestamp <= Incoming[j].Timestamp
  BY <1>1 DEF IncomingOK
<1>4. \A i \in 1 .. m : Incoming'[i].ID # event.ID
  <2>1. ASSUME NEW i \in 1 .. m, Incoming'[i].ID = event.ID PROVE FALSE
    <3>1. i + 1 = 1
      BY <1>1, <1>2, <1>3, <2>1
    <3> QED
      BY <3>1
  <2> QED
    BY <2>1
<1>5. Bounded(event)
  <2>1. ASSUME Started, NEW i \in 1 .. m PROVE event.Timestamp <= Incoming'[i].Timestamp
    <3>1. 1 < i + 1
      OBVIOUS
    <3> QED
      BY <1>1, <1>2, <1>3, <2>1, <3>1
  <2>2. ~Started => event.Timestamp <= startup'.currentEventTime
    BY <1>2
  <2> QED
    BY <1>1, <2>1, <2>2
(* What was buffered before.                                               *)
<1>6. ASSUME NEW cat \in Categories, NEW i \in 1 .. Len(BufferedIn(cat)),
             NEW e, e = BufferedIn(cat)[i]
      PROVE  /\ e \in published /\ e.ID # event.ID
             /\ \A j \in 1 .. Len(BufferedIn(cat)) : BufferedIn(cat)[j].ID = e.ID => j = i
             /\ \A j \in 1 .. m : Incoming'[j].ID # e.ID
             /\ Bounded(e)
  <2>1. /\ e \in published
        /\ \A j \in 1 .. Len(BufferedIn(cat)) : BufferedIn(cat)[j].ID = e.ID => j = i
        /\ \A j \in 1 .. n : Incoming[j].ID # e.ID
        /\ Started => \A j \in 1 .. n : e.Timestamp <= Incoming[j].Timestamp
        /\ ~Started => e.Timestamp <= startup.currentEventTime
    BY <1>1, <1>6 DEF LogOK
  <2>2. e.Timestamp \in Nat
    <3>1. published \subseteq Event
      BY DEF MInv, ManagerTypeOK
    <3> QED
      BY <2>1, <3>1 DEF Event
  <2>3. e.ID # event.ID /\ \A j \in 1 .. m : Incoming'[j].ID # e.ID
    BY <1>1, <1>2, <2>1
  <2>4. Started => \A j \in 1 .. m : e.Timestamp <= Incoming'[j].Timestamp
    BY <1>1, <2>1
  <2>5. ~Started => e.Timestamp <= startup'.currentEventTime
    BY <2>1, <2>2
  <2> QED
    BY <1>1, <2>1, <2>3, <2>4, <2>5
<1>7. SUFFICES ASSUME NEW cat \in Categories, NEW i \in 1 .. Len(BufferedIn(cat)')
               PROVE  PlacedIn(BufferedIn(cat), i)'
  BY DEF LogOK, PlacedIn
<1> DEFINE e == BufferedIn(cat)'[i]
<1> SUFFICES
      /\ e \in published
      /\ \A j \in 1 .. Len(BufferedIn(cat)') : BufferedIn(cat)'[j].ID = e.ID => j = i
      /\ \A j \in 1 .. m : Incoming'[j].ID # e.ID
      /\ Bounded(e)
  BY <1>1 DEF PlacedIn
<1> HIDE DEF Bounded
<1>8. CASE cat # event.Category
  <2>1. BufferedIn(cat)' = BufferedIn(cat)
    BY <1>8 DEF Pushed
  <2>2. i \in 1 .. Len(BufferedIn(cat)) /\ e = BufferedIn(cat)[i]
    BY <1>7, <2>1
  <2> HIDE DEF e
  <2>3. /\ e \in published
        /\ \A j \in 1 .. Len(BufferedIn(cat)) : BufferedIn(cat)[j].ID = e.ID => j = i
        /\ \A j \in 1 .. m : Incoming'[j].ID # e.ID
        /\ Bounded(e)
    BY <1>6, <2>2
  <2> QED
    BY <2>1, <2>3
<1>9. CASE cat = event.Category
  <2>1. PICK k \in Nat :
          /\ k = Len(BufferedIn(cat)) /\ Len(BufferedIn(cat)') = k + 1
          /\ BufferedIn(cat)'[1] = event
          /\ \A j \in 2 .. k + 1 : BufferedIn(cat)'[j] = BufferedIn(cat)[j - 1]
    <3>1. /\ Len(BufferedIn(cat)') = Len(BufferedIn(cat)) + 1
          /\ BufferedIn(cat)'[1] = event
          /\ \A j \in 2 .. Len(BufferedIn(cat)') : BufferedIn(cat)'[j] = BufferedIn(cat)[j - 1]
      BY <1>9 DEF Pushed
    <3>2. Len(BufferedIn(cat)) \in Nat
      BY ListFacts
    <3> QED
      BY <3>1, <3>2
  <2>2. \A j \in 2 .. k + 1 : j - 1 \in 1 .. k
    OBVIOUS
  <2>3. CASE i = 1
    <3>1. e = event
      BY <2>1, <2>3
    <3>2. \A j \in 1 .. k + 1 : BufferedIn(cat)'[j].ID = event.ID => j = 1
      <4>1. ASSUME NEW j \in 2 .. k + 1 PROVE BufferedIn(cat)'[j].ID # event.ID
        BY <1>6, <2>1, <2>2
      <4> QED
        BY <4>1
    <3>3. event \in published
      BY <1>1, <1>2, <1>3
    <3> QED
      BY <1>4, <1>5, <2>1, <2>3, <3>1, <3>2, <3>3
  <2>4. CASE i # 1
    <3>1. i \in 2 .. k + 1 /\ i - 1 \in 1 .. k
      BY <1>7, <2>1, <2>4
    <3>2. e = BufferedIn(cat)[i - 1]
      BY <2>1, <3>1
    <3> HIDE DEF e
    <3>3. /\ e \in published /\ e.ID # event.ID
          /\ \A j \in 1 .. k : BufferedIn(cat)[j].ID = e.ID => j = i - 1
          /\ \A j \in 1 .. m : Incoming'[j].ID # e.ID
          /\ Bounded(e)
      BY <1>6, <2>1, <3>1, <3>2
    <3>4. ASSUME NEW j \in 1 .. k + 1, BufferedIn(cat)'[j].ID = e.ID PROVE j = i
      <4>1. j # 1
        BY <2>1, <3>3, <3>4
      <4>2. j \in 2 .. k + 1
        BY <4>1
      <4>3. j - 1 = i - 1
        BY <2>1, <2>2, <3>3, <3>4, <4>2
      <4> QED
        BY <3>1, <4>2, <4>3
    <3> QED
      BY <2>1, <3>3, <3>4
  <2> QED
    BY <2>3, <2>4
<1> QED
  BY <1>8, <1>9

LEMMA SameLogKept ==
  ASSUME IncomingOK, LogOK, Incoming' = Incoming, UNCHANGED store,
         Started' <=> Started, published' = published,
         UNCHANGED <<startup, Events>>
  PROVE  IncomingOK' /\ LogOK'
<1>1. \A cat : BufferedIn(cat)' = BufferedIn(cat)
  BY DEF BufferedIn
<1>2. LogOK'
  BY <1>1 DEF LogOK
<1>3. IncomingOK'
  BY DEF IncomingOK
<1> QED
  BY <1>2, <1>3

(* An event that is published is like none before and no older.            *)
LEMMA PublishSendKeepsLog ==
  ASSUME LInv, InTime, LonePublisher, IncomingOK, LogOK,
         NEW p \in Publishers, PublishSend(p)
  PROVE  IncomingOK' /\ LogOK'
<1>1. PICK event \in Event :
        /\ event = publishing[p]
        /\ event.Timestamp \in Nat
        /\ \A e \in published : e.ID # event.ID /\ e.Timestamp <= event.Timestamp
  <2>1. Pending(p)
    BY DEF PublishSend, Pending
  <2>2. /\ publishing[p] \in Event
        /\ \A e \in published : e.ID # publishing[p].ID
    BY <2>1 DEF LInv, Publishings, Pending
  <2>3. \A e \in published : e.Timestamp <= publishing[p].Timestamp
    BY <2>1 DEF InTime
  <2> QED
    BY <2>2, <2>3 DEF Event
<1>2. /\ Started /\ Started'
      /\ UNCHANGED <<startup, store>>
      /\ published' = published \cup {event}
      /\ Incoming = Events /\ Incoming' = Append(Incoming, event)
  BY <1>1 DEF PublishSend, managerVars, Started, Incoming, LInv, Publishings, Pending
<1>3. PICK n \in Nat : n = Len(Incoming)
  BY IncomingType DEF LInv
<1>4. /\ Len(Incoming') = n + 1
      /\ \A i \in 1 .. n : Incoming'[i] = Incoming[i]
      /\ Incoming'[n + 1] = event
  <2>1. Incoming \in Seq(Event)
    BY IncomingType DEF LInv
  <2> QED
    BY <1>2, <1>3, <2>1, AppendProperties
<1>5. /\ \A i \in 1 .. n : Incoming[i] \in published
      /\ \A i, j \in 1 .. n : Incoming[i].ID = Incoming[j].ID => i = j
      /\ \A i, j \in 1 .. n : i < j => Incoming[i].Timestamp <= Incoming[j].Timestamp
      /\ startup.startChan = <<>>
  BY <1>2, <1>3 DEF IncomingOK
<1>6. \A i \in 1 .. n + 1 : i \in 1 .. n \/ i = n + 1
  OBVIOUS
<1>7. IncomingOK'
  <2>1. \A i \in 1 .. n + 1 : Incoming'[i] \in published'
    BY <1>2, <1>4, <1>5, <1>6
  <2>2. ASSUME NEW i \in 1 .. n + 1, NEW j \in 1 .. n + 1, Incoming'[i].ID = Incoming'[j].ID
        PROVE  i = j
    BY <1>1, <1>4, <1>5, <1>6, <2>2
  <2>3. ASSUME NEW i \in 1 .. n + 1, NEW j \in 1 .. n + 1, i < j
        PROVE  Incoming'[i].Timestamp <= Incoming'[j].Timestamp
    <3>1. i \in 1 .. n
      BY <2>3
    <3> QED
      BY <1>1, <1>4, <1>5, <1>6, <2>3, <3>1
  <2> QED
    BY <1>2, <1>4, <1>5, <2>1, <2>2, <2>3 DEF IncomingOK
<1>8. LogOK'
  <2>1. SUFFICES ASSUME NEW cat \in Categories, NEW i \in 1 .. Len(BufferedIn(cat)'),
                        NEW e, e = BufferedIn(cat)'[i]
                 PROVE  /\ e \in published'
                        /\ \A j \in 1 .. Len(BufferedIn(cat)') :
                             BufferedIn(cat)'[j].ID = e.ID => j = i
                        /\ \A j \in 1 .. n + 1 : Incoming'[j].ID # e.ID
                        /\ \A j \in 1 .. n + 1 : e.Timestamp <= Incoming'[j].Timestamp
    BY <1>2, <1>4 DEF LogOK
  <2>2. BufferedIn(cat)' = BufferedIn(cat)
    BY <1>2 DEF BufferedIn
  <2>3. /\ e \in published
        /\ \A j \in 1 .. Len(BufferedIn(cat)) : BufferedIn(cat)[j].ID = e.ID => j = i
        /\ \A j \in 1 .. n : Incoming[j].ID # e.ID
        /\ \A j \in 1 .. n : e.Timestamp <= Incoming[j].Timestamp
    BY <1>2, <1>3, <2>1, <2>2 DEF LogOK
  <2>4. e.ID # event.ID /\ e.Timestamp <= event.Timestamp
    BY <1>1, <2>3
  <2> QED
    BY <1>2, <1>4, <1>6, <2>2, <2>3, <2>4
<1> QED
  BY <1>7, <1>8

(* The event that comes next differs from those before it in its category, *)
(* is no older than they are, and finds room.                              *)
Follows(event) ==
  LET list == BufferedIn(event.Category)
  IN  \A i \in 1 .. Len(list) :
        list[i].Timestamp <= event.Timestamp /\ list[i].ID # event.ID

LEMMA NextFollows ==
  ASSUME MInv, LogAssumption, IncomingOK, LogOK, Incoming # <<>>,
         NEW event \in Event, event = Head(Incoming),
         ~Started => startup.currentEventTime <= event.Timestamp
  PROVE  /\ event \in published /\ Follows(event)
         /\ Len(BufferedIn(event.Category)) < MaxEventBufferSize
<1>1. PICK list \in Seq(Event), n \in Nat : list = BufferedIn(event.Category) /\ n = Len(list)
  BY ListFacts, LenProperties
<1>2. /\ event = Incoming[1] /\ 1 \in 1 .. Len(Incoming)
      /\ Incoming \in Seq(Event) /\ Len(Incoming) \in Nat \ {0}
  BY IncomingType, EmptySeq
<1>3. event \in published
  BY <1>2 DEF IncomingOK
<1>4. event.Category \in Categories /\ event.Timestamp \in Nat
  BY DEF Event
<1>5. startup.currentEventTime \in Nat
  BY DEF MInv, ManagerTypeOK
<1>6. ASSUME NEW i \in 1 .. n
      PROVE  /\ list[i].Timestamp <= event.Timestamp /\ list[i].ID # event.ID
             /\ \A j \in 1 .. n : list[j].ID = list[i].ID => j = i
  <2>1. list[i].Timestamp \in Nat
    <3>1. list[i] \in Event
      BY <1>1, ElementOfSeq
    <3> QED
      BY <3>1 DEF Event
  <2>2. /\ \A j \in 1 .. n : list[j].ID = list[i].ID => j = i
        /\ event.ID # list[i].ID
        /\ IF Started THEN list[i].Timestamp <= event.Timestamp
           ELSE list[i].Timestamp <= startup.currentEventTime
    BY <1>1, <1>2, <1>4, <1>6 DEF LogOK
  <2> QED
    BY <1>4, <1>5, <2>1, <2>2
<1>7. n < MaxEventBufferSize
  BY <1>1, <1>6, RoomForOneMore
<1> QED
  BY <1>1, <1>3, <1>6, <1>7 DEF Follows

(* An event of the add-on that is skipped goes by.                         *)
LEMMA SkippingKeepsLog ==
  ASSUME MInv, IncomingOK, LogOK, Incoming # <<>>, Incoming' = Tail(Incoming),
         ~Started, ~Started', published' = published, store' = store,
         startup'.currentEventTime \in Nat,
         startup.currentEventTime <= startup'.currentEventTime
  PROVE  LogOK'
<1>1. PICK n, m \in Nat :
        /\ n = Len(Incoming) /\ m = Len(Incoming')
        /\ \A i \in 1 .. m : i + 1 \in 1 .. n /\ Incoming'[i] = Incoming[i + 1]
  <2>1. /\ Len(Incoming) \in Nat /\ Len(Incoming') \in Nat
        /\ \A i \in 1 .. Len(Incoming') :
             i + 1 \in 1 .. Len(Incoming) /\ Incoming'[i] = Incoming[i + 1]
    BY IncomingType, TakenProperties
  <2> QED
    BY <2>1
<1>2. \A cat : BufferedIn(cat)' = BufferedIn(cat)
  BY DEF BufferedIn
<1>3. SUFFICES ASSUME NEW cat \in Categories, NEW i \in 1 .. Len(BufferedIn(cat)),
                      NEW e, e = BufferedIn(cat)[i]
               PROVE  /\ e \in published
                      /\ \A j \in 1 .. Len(BufferedIn(cat)) : BufferedIn(cat)[j].ID = e.ID => j = i
                      /\ \A j \in 1 .. m : Incoming'[j].ID # e.ID
                      /\ e.Timestamp <= startup'.currentEventTime
  BY <1>1, <1>2 DEF LogOK
<1>4. /\ e \in published
      /\ \A j \in 1 .. Len(BufferedIn(cat)) : BufferedIn(cat)[j].ID = e.ID => j = i
      /\ \A j \in 1 .. n : Incoming[j].ID # e.ID
      /\ e.Timestamp <= startup.currentEventTime
  BY <1>1, <1>3 DEF LogOK
<1>5. e.Timestamp \in Nat /\ startup.currentEventTime \in Nat
  <2>1. e \in Event
    BY <1>4 DEF MInv, ManagerTypeOK
  <2> QED
    BY <2>1 DEF Event, MInv, ManagerTypeOK
<1> QED
  BY <1>1, <1>4, <1>5

SameLog == \A cat \in Categories : BufferedIn(cat)' = BufferedIn(cat)

(* What a step of the manager does to the logs.                            *)
LogKept == IncomingOK' /\ LogOK' /\ SameLog
LogGrows(event) == /\ IncomingOK' /\ LogOK'
                   /\ event \in published /\ Follows(event) /\ Pushed(event)

LEMMA LoadEventLogs ==
  ASSUME MInv, LogAssumption, IncomingOK, LogOK, LoadEvent
  PROVE  LogKept \/ \E event \in Event : LogGrows(event)
<1>1. PICK event \in Event : event = Head(startup.startChan)
  <2>1. startup.startChan \in Seq(Event) /\ startup.startChan # <<>>
    BY DEF MInv, ManagerTypeOK, LoadEvent
  <2> QED
    BY <2>1, HeadTailProperties
<1>2. /\ run = "loading" /\ ~Started /\ ~Started'
      /\ startup.startChan # <<>>
      /\ published' = published /\ Events' = Events
      /\ startup.currentEventTime \in Nat /\ event.Timestamp \in Nat
      /\ startup \in [startChan : Seq(Event), currentEventTime : Nat, cutoffTime : Int]
  BY DEF LoadEvent, Started, channelVars, environmentVars, MInv, ManagerTypeOK, Event
<1>3. CASE UNCHANGED <<startup, store>>
  <2>1. Incoming' = Incoming
    BY <1>2, <1>3 DEF Incoming
  <2>2. IncomingOK' /\ LogOK'
    BY <1>2, <1>3, <2>1, SameLogKept
  <2>3. SameLog
    BY <1>3 DEF SameLog, BufferedIn
  <2> QED
    BY <2>2, <2>3 DEF LogKept
<1>4. CASE ~UNCHANGED <<startup, store>>
  <2>1. /\ event.Timestamp >= startup.currentEventTime
        /\ startup' = [startup EXCEPT !.startChan = Tail(@), !.currentEventTime = event.Timestamp]
        /\ store' = IF event.Timestamp > startup.cutoffTime
                    THEN StoreNewEvent(store, event, TRUE, now) ELSE store
    BY <1>1, <1>4 DEF LoadEvent
  <2>2. /\ Incoming = startup.startChan /\ Incoming' = Tail(Incoming)
        /\ startup'.currentEventTime = event.Timestamp
        /\ startup.currentEventTime <= startup'.currentEventTime
        /\ startup'.currentEventTime \in Nat
    BY <1>2, <2>1 DEF Incoming
  <2>3. IncomingOK'
    <3>1. (~Started => Events = <<>>)'
      BY <1>2 DEF IncomingOK
    <3>2. (Started => startup.startChan = <<>>)'
      BY <1>2
    <3> QED
      BY <1>2, <2>2, <3>1, <3>2, TakingKeepsIncoming
  <2>4. CASE event.Timestamp > startup.cutoffTime
    <3>1. event \in published /\ Follows(event) /\ Len(BufferedIn(event.Category)) < MaxEventBufferSize
      BY <1>1, <1>2, <2>1, <2>2, NextFollows
    <3>2. Pushed(event)
      BY <2>1, <2>4, <3>1, NewEventPushed
    <3>3. LogOK'
      BY <1>1, <1>2, <2>2, <3>2, TakingKeepsLog
    <3> QED
      BY <2>3, <3>1, <3>2, <3>3 DEF LogGrows
  <2>5. CASE ~(event.Timestamp > startup.cutoffTime)
    <3>1. store' = store
      BY <2>1, <2>5
    <3>2. LogOK' /\ SameLog
      BY <1>2, <2>2, <3>1, SkippingKeepsLog DEF SameLog, BufferedIn
    <3> QED
      BY <2>3, <3>2 DEF LogKept
  <2> QED
    BY <2>4, <2>5
<1> QED
  BY <1>3, <1>4

LEMMA FinishLoadingLogs ==
  ASSUME MInv, LogAssumption, IncomingOK, LogOK, FinishLoading
  PROVE  LogKept
<1>1. /\ ~Started /\ Started'
      /\ UNCHANGED <<startup, Events, published, store>>
      /\ startup.startChan = <<>> /\ Events = <<>>
  BY PurgeTakesNothing DEF FinishLoading, Started, channelVars, environmentVars, IncomingOK
<1>2. Incoming = <<>> /\ Incoming' = <<>> /\ Len(<<>>) = 0
  BY <1>1, EmptySeq DEF Incoming
<1>3. \A cat : BufferedIn(cat)' = BufferedIn(cat)
  BY <1>1 DEF BufferedIn
<1>4. \A i \in 1 .. 0 : FALSE
  OBVIOUS
<1>5. IncomingOK'
  BY <1>1, <1>2, <1>4 DEF IncomingOK
<1>6. LogOK'
  BY <1>1, <1>2, <1>3, <1>4 DEF LogOK
<1> QED
  BY <1>3, <1>5, <1>6 DEF LogKept, SameLog

(* run and DrainEvent take the next event.                                 *)
LEMMA TakingEventLogs ==
  ASSUME MInv, LogAssumption, IncomingOK, LogOK, Started, Started',
         Events # <<>>, Events' = Tail(Events), UNCHANGED <<startup, published>>,
         NEW event \in Event, event = Head(Events),
         store' = StoreNewEvent(store, event, TRUE, now)
  PROVE  LogGrows(event)
<1>1. /\ Incoming = Events /\ Incoming' = Tail(Incoming)
      /\ startup.currentEventTime \in Nat /\ startup'.currentEventTime \in Nat
  BY DEF Incoming, MInv, ManagerTypeOK
<1>2. event \in published /\ Follows(event) /\ Len(BufferedIn(event.Category)) < MaxEventBufferSize
  BY <1>1, NextFollows
<1>3. Pushed(event)
  BY <1>2, NewEventPushed
<1>4. LogOK'
  BY <1>1, <1>3, TakingKeepsLog
<1>5. IncomingOK'
  BY <1>1, TakingKeepsIncoming DEF IncomingOK
<1> QED
  BY <1>2, <1>3, <1>4, <1>5 DEF LogGrows

-----------------------------------------------------------------------------
(* The polls.                                                              *)

LEMMA SubscriptionType ==
  ASSUME NEW q \in Subscription
  PROVE  /\ q.ClientUUID \in Clients /\ q.SubscriptionCategory \in Categories
         /\ q.LastEventTime \in Nat /\ q.LastEventID \in EventIDs \cup {NoID}
BY DEF Subscription

LEMMA UnderWayNext ==
  ASSUME NEW c, NEW q, q = request'[c], NEW cat, cat = q.SubscriptionCategory,
         NEW list, list = BufferedIn(cat)', Fares(c, q, list)'
  PROVE  UnderWay(c)'
BY DEF UnderWay, Fares, ParkedAt, BufferedIn

(* A step that does not touch the client's poll.                           *)
Untouched(c) ==
  /\ handler'[c] = handler[c] /\ response'[c] = response[c]
  /\ asked'[c] = asked[c] /\ subEvents'[c] = subEvents[c]
  /\ c \in DOMAIN request' <=> c \in DOMAIN request
  /\ c \in DOMAIN request => request'[c] = request[c]
  /\ \A i \in 1 .. Len(clientSubscriptions') : clientSubscriptions'[i].ClientUUID = c =>
       \E j \in 1 .. Len(clientSubscriptions) : clientSubscriptions[j] = clientSubscriptions'[i]
  /\ \A cat \in Categories : ParkedAt(c, cat)' => ParkedAt(c, cat)
  /\ Started => Started'

LEMMA UntouchedPoll ==
  ASSUME LInv, NEW c \in Clients, PollOK(c), Untouched(c), SameLog
  PROVE  PollOK(c)'
<1>1. Untold(c) => Untold(c)'
  BY DEF Untold, Untouched
<1>2. ASSUME c \in DOMAIN request PROVE UnderWay(c)'
  <2>1. PICK q \in Subscription, cat \in Categories :
          q = request[c] /\ cat = q.SubscriptionCategory
    BY <1>2, RequestTypes, SubscriptionType
  <2>2. PICK list : list = BufferedIn(cat)
    OBVIOUS
  <2>3. Fares(c, q, list)
    BY <1>2, <2>1, <2>2 DEF PollOK, UnderWay
  <2>4. q = request'[c] /\ list = BufferedIn(cat)'
    BY <1>2, <2>1, <2>2 DEF Untouched, SameLog
  <2>5. Fares(c, q, list)'
    BY <2>3 DEF Fares, Untouched
  <2> QED
    BY <2>1, <2>4, <2>5, UnderWayNext
<1> QED
  BY <1>1, <1>2 DEF PollOK, Untouched

(* While the add-on's events are loaded nobody polls.                      *)
LEMMA LoadingKeepsPolls ==
  ASSUME PollsOK, ~Started,
         UNCHANGED <<clientSubscriptions, subEvents, ClientSubChannels,
                     handler, request, response>>
  PROVE  PollsOK'
<1>1. SUFFICES ASSUME NEW c \in Clients PROVE PollOK(c)'
  BY DEF PollsOK
<1>2. c \notin DOMAIN request /\ PollOK(c)
  BY DEF PollsOK, PollOK
<1>3. Untold(c) => Untold(c)'
  BY DEF Untold, ParkedAt
<1> QED
  BY <1>2, <1>3 DEF PollOK

LEMMA QuietKeepsPolls ==
  ASSUME LInv, PollsOK, SameLog, Started => Started',
         UNCHANGED <<clientSubscriptions, subEvents, handler, request, response, asked>>,
         \A c \in Clients, cat \in Categories : ParkedAt(c, cat)' => ParkedAt(c, cat)
  PROVE  PollsOK'
<1>1. SUFFICES ASSUME NEW c \in Clients PROVE PollOK(c)'
  BY DEF PollsOK
<1>2. Untouched(c)
  BY DEF Untouched
<1> QED
  BY <1>2, UntouchedPoll DEF PollsOK

(* A request that the manager takes up: it is sent what is behind its      *)
(* cursor or, if that is nothing, parked.                                  *)
LEMMA RunNewClientKeepsPolls ==
  ASSUME LInv, LogAssumption, PollsOK, SameLog, RunNewClient,
         UNCHANGED <<handler, request, response, asked>>
  PROVE  PollsOK'
<1>1. PICK sub \in Subscription, n \in Nat :
        /\ sub = Head(clientSubscriptions) /\ sub = clientSubscriptions[1]
        /\ 1 \in 1 .. Len(clientSubscriptions)
        /\ n = Len(clientSubscriptions')
        /\ \A i \in 1 .. n : /\ i + 1 \in 1 .. Len(clientSubscriptions)
                             /\ clientSubscriptions'[i] = clientSubscriptions[i + 1]
  <2>1. /\ clientSubscriptions \in Seq(Subscription) /\ clientSubscriptions # <<>>
        /\ clientSubscriptions' = Tail(clientSubscriptions)
    BY DEF LInv, MInv, ManagerTypeOK, RunNewClient
  <2>2. PICK m \in Nat \ {0} : m = Len(clientSubscriptions)
    BY <2>1, LenProperties, EmptySeq
  <2>3. /\ Head(clientSubscriptions) \in Subscription
        /\ Head(clientSubscriptions) = clientSubscriptions[1]
        /\ Len(clientSubscriptions') = m - 1
        /\ \A i \in 1 .. m - 1 : clientSubscriptions'[i] = clientSubscriptions[i + 1]
    BY <2>1, <2>2, HeadTailProperties
  <2>4. m - 1 \in Nat /\ 1 \in 1 .. m /\ \A i \in 1 .. m - 1 : i + 1 \in 1 .. m
    BY <2>2
  <2> QED
    BY <2>2, <2>3, <2>4
<1>2. PICK s \in Clients, cat \in Categories, list \in Seq(Event) :
        /\ s = sub.ClientUUID /\ cat = sub.SubscriptionCategory
        /\ list = BufferedIn(cat)
  BY SubscriptionType, ListFacts DEF LInv
<1> PICK k, batch : /\ k = AfterLen(list, sub.LastEventTime, sub.LastEventID)
                    /\ batch = Answer(store, sub, now)
  OBVIOUS
<1>3. k \in 0 .. Len(list) /\ batch = Reverse(SubSeq(list, 1, k))
  BY <1>2, AnswerIsBehind, AfterLenProperties, SubscriptionType DEF LInv
<1>4. \/ /\ batch # <<>>
         /\ subEvents' = [c \in Clients |-> IF c = s THEN <<batch>> ELSE subEvents[c]]
         /\ UNCHANGED ClientSubChannels
      \/ /\ batch = <<>>
         /\ ClientSubChannels' = Put(ClientSubChannels, cat, Parked(cat) \cup {s})
         /\ UNCHANGED subEvents
  BY <1>1, <1>2 DEF RunNewClient, SendBatch
<1>5. ASSUME NEW c \in Clients, c # s PROVE PollOK(c)'
  <2>1. subEvents'[c] = subEvents[c]
    BY <1>4, <1>5
  <2>2. ASSUME NEW other \in Categories, ParkedAt(c, other)' PROVE ParkedAt(c, other)
    <3>1. CASE UNCHANGED ClientSubChannels
      BY <2>2, <3>1 DEF ParkedAt
    <3>2. CASE ClientSubChannels' = Put(ClientSubChannels, cat, Parked(cat) \cup {s})
      BY <1>5, <2>2, <3>2 DEF ParkedAt, Put, Parked
    <3> QED
      BY <1>4, <3>1, <3>2
  <2>3. Started => Started'
    BY DEF RunNewClient, Started
  <2>4. Untouched(c)
    BY <1>1, <2>1, <2>2, <2>3 DEF Untouched
  <2> QED
    BY <2>4, UntouchedPoll DEF PollsOK
<1>6. PollOK(s)'
  <2>1. PollOK(s) /\ ~Untold(s)
    BY <1>1, <1>2 DEF PollsOK, Untold
  <2>2. /\ handler'[s] = handler[s] /\ response'[s] = response[s]
        /\ handler[s] \notin {"idle", "subscribe"} /\ (Started => Started')
    BY <2>1 DEF PollOK, RunNewClient, Started
  <2>3. ASSUME s \in DOMAIN request PROVE UnderWay(s)'
    <3>1. Fares(s, sub, list)
      <4>1. PICK q \in Subscription, its \in Categories, l \in Seq(Event) :
              q = request[s] /\ its = q.SubscriptionCategory /\ l = BufferedIn(its)
        BY <2>3, RequestTypes, SubscriptionType, ListFacts DEF LInv
      <4>2. Fares(s, q, l)
        BY <2>1, <2>3, <4>1 DEF PollOK, UnderWay
      <4>3. sub = q
        BY <1>1, <1>2, <4>2 DEF Fares
      <4> QED
        BY <1>2, <4>1, <4>2, <4>3
    <3>2. sub = request[s] /\ sub = request'[s] /\ list = BufferedIn(cat)'
      <4>1. sub = request[s]
        BY <1>1, <1>2, <2>1, <2>3 DEF PollOK, UnderWay, Fares
      <4> QED
        BY <1>2, <4>1 DEF SameLog
    <3>3. /\ asked'[s] = asked[s] /\ asked[s] \in Nat /\ asked[s] <= Len(list)
          /\ Len(list) \in Nat
      BY <3>1, LenProperties DEF Fares, LInv, Requests
    <3>4. \A i \in 1 .. n : clientSubscriptions'[i].ClientUUID = s =>
                              clientSubscriptions'[i] = sub
      BY <1>1, <3>1 DEF Fares
    <3>5. CASE batch # <<>>
      <4>1. subEvents'[s] = <<batch>> /\ UNCHANGED ClientSubChannels
        BY <1>4, <3>5
      <4>2. Head(subEvents'[s]) = batch
        BY <4>1
      <4>3. BatchOf(Reverse(list), sub.LastEventTime, sub.LastEventID, Len(list)) = batch
        <5>1. PICK e \in Event : e = list[1]
          <6>1. Len(list) # 0
            <7>1. Len(SubSeq(list, 1, k)) = k /\ SubSeq(list, 1, k) \in Seq(Event) /\ k \in Nat
              BY <1>3, <3>3, PrefixProperties
            <7> PICK prefix : prefix = SubSeq(list, 1, k)
              OBVIOUS
            <7>2. Len(Reverse(prefix)) = k /\ Reverse(prefix) \in Seq(Event)
              BY <7>1, ReverseProperties
            <7> QED
              BY <1>3, <3>5, <7>2, EmptySeq
          <6> QED
            BY <3>3, <6>1, ElementOfSeq
        <5> QED
          BY <1>2, <1>3, <3>3, <5>1, BatchProperties, SubscriptionType
      <4>4. \A other \in Categories : ParkedAt(s, other)' <=> ParkedAt(s, other)
        BY <4>1 DEF ParkedAt
      <4>5. Len(list) \in asked[s] .. Len(list)
        BY <3>3
      <4>6. Fares(s, sub, list)'
        BY <1>1, <3>1, <3>3, <3>4, <3>5, <4>2, <4>3, <4>4, <4>5 DEF Fares
      <4> QED
        BY <1>2, <3>2, <4>6, UnderWayNext
    <3>6. CASE batch = <<>>
      <4>1. k = 0
        <5>1. Len(SubSeq(list, 1, k)) = k /\ SubSeq(list, 1, k) \in Seq(Event) /\ k \in Nat
          BY <1>3, <3>3, PrefixProperties
        <5> PICK prefix : prefix = SubSeq(list, 1, k)
          OBVIOUS
        <5>2. Len(Reverse(prefix)) = k
          BY <5>1, ReverseProperties
        <5> QED
          BY <1>3, <3>6, <5>2, EmptySeq
      <4>2. /\ ClientSubChannels' = Put(ClientSubChannels, cat, Parked(cat) \cup {s})
            /\ subEvents'[s] = subEvents[s]
        BY <1>4, <3>6
      <4>3. ASSUME NEW other \in Categories, ParkedAt(s, other)'
            PROVE  other = cat
        <5>1. ASSUME other # cat PROVE ParkedAt(s, other)
          BY <4>2, <4>3, <5>1 DEF ParkedAt, Put
        <5> QED
          BY <1>2, <3>1, <5>1 DEF Fares
      <4>4. Fares(s, sub, list)'
        BY <1>1, <1>2, <3>1, <3>3, <3>4, <4>1, <4>2, <4>3 DEF Fares
      <4> QED
        BY <1>2, <3>2, <4>4, UnderWayNext
    <3> QED
      BY <3>5, <3>6
  <2> QED
    BY <2>1, <2>2, <2>3 DEF PollOK
<1> QED
  BY <1>5, <1>6 DEF PollsOK

(* An event reaches those who wait for it: to all other polls of its       *)
(* category it is one that comes later.                                    *)
LEMMA ForwardingKeepsPolls ==
  ASSUME LInv, MInv', PollsOK, Started, Started', NEW event \in Event,
         ForwardToParked(event), Pushed(event),
         UNCHANGED <<clientSubscriptions, handler, request, response, asked>>
  PROVE  PollsOK'
<1>1. SUFFICES ASSUME NEW c \in Clients PROVE PollOK(c)'
  BY DEF PollsOK
<1>2. PollOK(c) /\ event.Category \in Categories
  BY DEF PollsOK, Event
<1>3. /\ ParkedAt(c, event.Category) => subEvents[c] = <<>> /\ subEvents'[c] = <<<<event>>>>
      /\ ~ParkedAt(c, event.Category) => subEvents'[c] = subEvents[c]
      /\ ~ParkedAt(c, event.Category)'
      /\ \A cat \in Categories : ParkedAt(c, cat)' => ParkedAt(c, cat)
  <2> DEFINE parked == Parked(event.Category)
  <2>1. c \in parked <=> ParkedAt(c, event.Category)
    BY DEF Parked, ParkedAt
  <2>2. /\ c \in parked => subEvents[c] = <<>>
        /\ subEvents'[c] = IF c \in parked THEN <<<<event>>>> ELSE subEvents[c]
        /\ ClientSubChannels' = IF parked = {} THEN ClientSubChannels
                                ELSE Delete(ClientSubChannels, {event.Category})
    BY DEF ForwardToParked, SendBatch
  <2> HIDE DEF parked
  <2>3. CASE parked = {}
    BY <2>1, <2>2, <2>3 DEF ParkedAt
  <2>4. CASE parked # {}
    BY <2>1, <2>2, <2>4 DEF ParkedAt, Delete, Restrict
  <2> QED
    BY <2>3, <2>4
<1>4. Untold(c) => Untold(c)'
  BY <1>2, <1>3 DEF Untold
<1>5. ASSUME c \in DOMAIN request PROVE UnderWay(c)'
  <2>1. PICK q \in Subscription, cat \in Categories :
          q = request[c] /\ cat = q.SubscriptionCategory
    BY <1>5, RequestTypes, SubscriptionType
  <2>2. PICK list \in Seq(Event), n \in Nat : list = BufferedIn(cat) /\ n = Len(list)
    BY ListFacts DEF LInv
  <2>3. PICK new \in Seq(Event) : new = BufferedIn(cat)'
    <3>1. BufferedIn(cat)' \in Seq(Event)
      BY BufferType, EmptySeq DEF MInv, ManagerTypeOK, BufferedIn
    <3> QED
      BY <3>1
  <2>4. Fares(c, q, list)
    BY <1>2, <1>5, <2>1, <2>2 DEF PollOK, UnderWay
  <2>5. PICK a \in Nat : a = asked[c] /\ a = asked'[c] /\ a <= n
    BY <2>2, <2>4 DEF Fares, LInv, Requests
  <2> SUFFICES Fares(c, q, new)'
    BY <2>1, <2>3, UnderWayNext
  <2>6. CASE cat # event.Category
    <3>1. new = list
      BY <2>2, <2>3, <2>6 DEF Pushed
    <3>2. subEvents'[c] = subEvents[c]
      BY <1>2, <1>3, <2>1, <2>4, <2>6 DEF Fares
    <3> QED
      BY <1>3, <2>4, <3>1, <3>2 DEF Fares
  <2>7. CASE cat = event.Category
    <3>1. Reverse(new) = Append(Reverse(list), event) /\ Len(new) = n + 1
      <4>1. /\ Len(new) = Len(list) + 1 /\ new[1] = event
            /\ \A i \in 2 .. Len(new) : new[i] = list[i - 1]
        BY <2>2, <2>3, <2>7 DEF Pushed
      <4> QED
        BY <2>2, <4>1, ReversePush
    <3> PICK k, l :
          k = AfterLen(list, q.LastEventTime, q.LastEventID) /\ l = Reverse(list)
      OBVIOUS
    <3>2. /\ k = 0 => BatchOf(Append(l, event), q.LastEventTime, q.LastEventID, n) = <<event>>
          /\ \A m \in 0 .. n :
               BatchOf(l, q.LastEventTime, q.LastEventID, m) # <<>> =>
                 BatchOf(Append(l, event), q.LastEventTime, q.LastEventID, m) =
                   BatchOf(l, q.LastEventTime, q.LastEventID, m)
      BY <2>2, SubscriptionType, BatchProperties
    <3>3. a <= n + 1 /\ n \in a .. n + 1 /\ \A m \in a .. n : m \in 0 .. n /\ m \in a .. n + 1
      BY <2>5
    <3>4. ASSUME subEvents'[c] # <<>>
          PROVE  \E m \in a .. n + 1 :
                   /\ Head(subEvents'[c]) # <<>>
                   /\ Head(subEvents'[c]) =
                        BatchOf(Reverse(new), q.LastEventTime, q.LastEventID, m)
      <4>1. CASE ParkedAt(c, event.Category)
        <5>1. k = 0
          BY <1>2, <2>4, <3>2, <4>1 DEF Fares
        <5>2. Head(subEvents'[c]) = <<event>>
          BY <1>3, <4>1
        <5>3. <<event>> # <<>>
          OBVIOUS
        <5> QED
          BY <3>1, <3>2, <3>3, <5>1, <5>2, <5>3
      <4>2. CASE ~ParkedAt(c, event.Category)
        <5>1. subEvents'[c] = subEvents[c]
          BY <1>3, <4>2
        <5>2. PICK m \in a .. n :
                /\ Head(subEvents[c]) # <<>>
                /\ Head(subEvents[c]) = BatchOf(l, q.LastEventTime, q.LastEventID, m)
          BY <2>2, <2>4, <2>5, <3>2, <3>4, <5>1 DEF Fares
        <5> QED
          BY <3>1, <3>2, <3>3, <5>1, <5>2
      <4> QED
        BY <4>1, <4>2
    <3>5. \A other \in Categories : ~ParkedAt(c, other)'
      BY <1>3, <2>1, <2>4, <2>7 DEF Fares
    <3> QED
      BY <2>4, <2>5, <3>1, <3>3, <3>4, <3>5 DEF Fares
  <2> QED
    BY <2>6, <2>7
<1> QED
  BY <1>2, <1>4, <1>5 DEF PollOK

(* The handlers.                                                           *)

LEMMA HandlerTouchesOne ==
  ASSUME LInv, NEW c \in Clients, Handler(c), NEW d \in Clients, d # c
  PROVE  Untouched(d)
<1>1. /\ UNCHANGED <<managerVars>>
      /\ handler'[d] = handler[d] /\ response'[d] = response[d]
      /\ asked'[d] = asked[d] /\ subEvents'[d] = subEvents[d]
  BY DEF Handler, Reject, NewClientSubscription, Subscribe, Timeout, Disconnect, Leave,
         Respond, Responded, channelVars, callerVars, managerVars, LInv, Requests, MInv, ManagerTypeOK
<1>2. /\ (Started => Started')
      /\ \A cat \in Categories : ParkedAt(d, cat)' => ParkedAt(d, cat)
  BY <1>1 DEF managerVars, Started, ParkedAt
<1>3. /\ d \in DOMAIN request' <=> d \in DOMAIN request
      /\ d \in DOMAIN request => request'[d] = request[d]
  <2>1. CASE request' = request
    BY <2>1
  <2>2. CASE NewClientSubscription(c)
    <3>1. PICK sub : request' = Put(request, c, sub)
      BY <2>2 DEF NewClientSubscription
    <3> QED
      BY <3>1 DEF Put
  <2>3. CASE request' = Delete(request, {c})
    BY <2>3 DEF Delete, Restrict
  <2> QED
    BY <2>1, <2>2, <2>3 DEF Handler, Reject, Subscribe, Timeout, Disconnect, Leave, Respond,
                            callerVars
<1>4. \A i \in 1 .. Len(clientSubscriptions') : clientSubscriptions'[i].ClientUUID = d =>
        \E j \in 1 .. Len(clientSubscriptions) : clientSubscriptions[j] = clientSubscriptions'[i]
  <2>1. CASE clientSubscriptions' = clientSubscriptions
    BY <2>1
  <2>2. CASE Subscribe(c)
    <3>1. PICK n \in Nat : n = Len(clientSubscriptions)
      BY LenProperties DEF LInv, MInv, ManagerTypeOK
    <3>2. /\ request[c] \in Subscription /\ request[c].ClientUUID = c
          /\ clientSubscriptions \in Seq(Subscription)
          /\ clientSubscriptions' = Append(clientSubscriptions, request[c])
      BY <2>2, RequestTypes DEF Subscribe, LInv, Requests, MInv, ManagerTypeOK
    <3>3. /\ Len(clientSubscriptions') = n + 1
          /\ \A i \in 1 .. n : clientSubscriptions'[i] = clientSubscriptions[i]
          /\ clientSubscriptions'[n + 1] = request[c]
      BY <3>1, <3>2, AppendProperties
    <3>4. \A i \in 1 .. n + 1 : i \in 1 .. n \/ i = n + 1
      OBVIOUS
    <3> QED
      BY <3>1, <3>2, <3>3, <3>4
  <2> QED
    BY <2>1, <2>2 DEF Handler, Reject, NewClientSubscription, Timeout, Disconnect, Leave,
                      Respond, channelVars
<1> QED
  BY <1>1, <1>2, <1>3, <1>4 DEF Untouched

LEMMA HandlerKeepsLog ==
  ASSUME LInv, IncomingOK, LogOK, NEW c \in Clients, Handler(c)
  PROVE  LogKept
<1>1. UNCHANGED <<managerVars, Events, published>>
  BY DEF Handler, Reject, NewClientSubscription, Subscribe, Timeout, Disconnect, Leave,
         Respond, channelVars
<1>2. UNCHANGED <<startup, store, Events, published, Incoming>> /\ (Started' <=> Started)
  BY <1>1 DEF managerVars, Incoming, Started
<1>3. SameLog
  BY <1>2 DEF SameLog, BufferedIn
<1> QED
  BY <1>2, <1>3, SameLogKept DEF LogKept

(* A new request is nowhere yet.                                           *)
LEMMA NewClientSubscriptionKeepsPoll ==
  ASSUME LInv, NEW c \in Clients, PollOK(c), NewClientSubscription(c), SameLog
  PROVE  PollOK(c)'
<1>1. /\ handler[c] = "idle" /\ handler'[c] = "subscribe" /\ Untold(c) /\ Started
      /\ UNCHANGED <<managerVars, channelVars, response>>
  BY DEF NewClientSubscription, PollOK, LInv, Requests
<1>2. Untold(c)' /\ Started' /\ response'[c] = [status |-> "none"]
  BY <1>1 DEF Untold, ParkedAt, managerVars, channelVars, Started, PollOK
<1> PICK q : q = request'[c]
  OBVIOUS
<1>3. PICK cat \in Categories :
        /\ q = request'[c] /\ cat = q.SubscriptionCategory
        /\ asked'[c] = Len(BufferedIn(cat))
  BY DEF NewClientSubscription, Put, LInv, Requests
<1>4. PICK list \in Seq(Event) :
        /\ list = BufferedIn(cat) /\ list = BufferedIn(cat)'
        /\ asked'[c] = Len(list) /\ Len(list) \in Nat
  BY <1>3, ListFacts DEF LInv, SameLog
<1>5. asked'[c] <= Len(list)
  BY <1>4
<1>6. Fares(c, q, list)'
  BY <1>2, <1>5 DEF Fares, Untold
<1>7. UnderWay(c)'
  BY <1>3, <1>4, <1>6, UnderWayNext
<1> QED
  BY <1>2, <1>7 DEF PollOK

(* It is queued as it is.                                                  *)
LEMMA SubscribeKeepsPoll ==
  ASSUME LInv, NEW c \in Clients, PollOK(c), Subscribe(c), SameLog
  PROVE  PollOK(c)'
<1>1. /\ handler[c] = "subscribe" /\ handler'[c] = "select" /\ Untold(c) /\ Started
      /\ c \in DOMAIN request /\ response[c] = [status |-> "none"]
      /\ UNCHANGED <<managerVars, subEvents, request, response, asked>>
  BY DEF Subscribe, PollOK, callerVars, LInv, Requests
<1>2. PICK q \in Subscription, cat \in Categories, n \in Nat :
        /\ q = request[c] /\ q = request'[c] /\ cat = q.SubscriptionCategory
        /\ n = Len(clientSubscriptions)
  <2>1. request[c] \in Subscription /\ request'[c] = request[c]
    BY <1>1, RequestTypes
  <2>2. Len(clientSubscriptions) \in Nat
    BY LenProperties DEF LInv, MInv, ManagerTypeOK
  <2> QED
    BY <2>1, <2>2, SubscriptionType
<1> PICK list : list = BufferedIn(cat)
  OBVIOUS
<1> list = BufferedIn(cat)'
  BY DEF SameLog
<1>3. /\ Len(clientSubscriptions') = n + 1
      /\ \A i \in 1 .. n : clientSubscriptions'[i] = clientSubscriptions[i]
      /\ clientSubscriptions'[n + 1] = q
  BY <1>2, AppendProperties DEF Subscribe, LInv, MInv, ManagerTypeOK
<1>4. \A i \in 1 .. n + 1 : i \in 1 .. n \/ i = n + 1
  OBVIOUS
<1>5. Fares(c, q, list)
  BY <1>1, <1>2 DEF PollOK, UnderWay
<1>6. \A cat1 \in Categories : ~ParkedAt(c, cat1)'
  BY <1>1 DEF Untold, ParkedAt, managerVars
<1>7. subEvents'[c] = <<>> /\ asked'[c] = asked[c]
  BY <1>1 DEF Untold
<1>8. \A i \in 1 .. n + 1 : clientSubscriptions'[i].ClientUUID = c => clientSubscriptions'[i] = q
  BY <1>1, <1>2, <1>3, <1>4 DEF Untold
<1>9. Fares(c, q, list)'
  BY <1>3, <1>5, <1>6, <1>7, <1>8 DEF Fares
<1>10. UnderWay(c)'
  BY <1>2, <1>9, UnderWayNext
<1>11. Started'
  BY <1>1 DEF Started, managerVars
<1> QED
  BY <1>1, <1>10, <1>11 DEF PollOK

(* Nothing but the handler's own place changes.                            *)
LEMMA LeavingSelectKeepsPoll ==
  ASSUME LInv, NEW c \in Clients, PollOK(c), Timeout(c) \/ Disconnect(c), SameLog
  PROVE  PollOK(c)'
<1>1. /\ handler[c] = "select" /\ handler'[c] \in {"timeout", "disconnect"}
      /\ c \in DOMAIN request /\ UnderWay(c) /\ Started
      /\ UNCHANGED <<managerVars, channelVars, request, response, asked>>
  BY DEF Timeout, Disconnect, PollOK, callerVars, LInv, Requests
<1>2. PICK q, cat, list :
        /\ q = request[c] /\ q = request'[c] /\ cat = q.SubscriptionCategory
        /\ list = BufferedIn(cat)
  BY <1>1
<1>3. list = BufferedIn(cat)'
  BY <1>1, <1>2 DEF BufferedIn, managerVars
<1>4. Fares(c, q, list)
  BY <1>1, <1>2 DEF UnderWay
<1>5. Fares(c, q, list)'
  BY <1>1, <1>4 DEF Fares, ParkedAt, managerVars, channelVars
<1>6. UnderWay(c)'
  BY <1>2, <1>3, <1>5, UnderWayNext
<1>7. Started'
  BY <1>1 DEF Started, managerVars
<1> QED
  BY <1>1, <1>6, <1>7 DEF PollOK

LEMMA AnsweringKeepsPoll ==
  ASSUME LInv, NEW c \in Clients, PollOK(c), Reject(c) \/ Leave(c) \/ Respond(c)
  PROVE  PollOK(c)'
<1>1. handler'[c] = "done" /\ c \notin DOMAIN request'
  <2>1. handler'[c] = "done"
    BY DEF Reject, Leave, Respond, LInv, Requests
  <2>2. c \notin DOMAIN request'
    BY DEF Reject, Leave, Respond, LInv, Requests, Delete, Restrict
  <2> QED
    BY <2>1, <2>2
<1> QED
  BY <1>1 DEF PollOK

LEMMA HandlerKeepsPolls ==
  ASSUME LInv, PollsOK, NEW c \in Clients, Handler(c), SameLog
  PROVE  PollsOK'
<1>1. SUFFICES ASSUME NEW d \in Clients PROVE PollOK(d)'
  BY DEF PollsOK
<1>2. PollOK(d)
  BY DEF PollsOK
<1>3. CASE d # c
  BY <1>2, <1>3, HandlerTouchesOne, UntouchedPoll
<1>4. CASE d = c
  BY <1>2, <1>4, NewClientSubscriptionKeepsPoll, SubscribeKeepsPoll, LeavingSelectKeepsPoll,
     AnsweringKeepsPoll DEF Handler
<1> QED
  BY <1>3, <1>4

-----------------------------------------------------------------------------
(* Every step.                                                             *)

LEMMA ManagerStepLogs ==
  ASSUME LInv, LogAssumption, LogInv, ManagerStep
  PROVE  PollsOK' /\ (LogKept \/ \E event \in Event : LogGrows(event))
<1> USE DEF LInv, LogInv
<1>1. /\ MInv' /\ (Started => Started')
      /\ UNCHANGED <<published, handler, request, response, asked>>
  BY ManagerKeeps, ManagerStaysStarted, ManagerLeavesEnvironment
     DEF ManagerStep, environmentVars, callerVars
<1>2. CASE LoadEvent
  <2>1. PollsOK'
    BY <1>1, <1>2, LoadingKeepsPolls DEF LoadEvent, Started, channelVars
  <2> QED
    BY <1>2, <2>1, LoadEventLogs
<1>3. CASE FinishLoading
  <2>1. PollsOK'
    BY <1>1, <1>3, LoadingKeepsPolls DEF FinishLoading, Started, channelVars
  <2> QED
    BY <1>3, <2>1, FinishLoadingLogs
(* The steps that leave the buffers alone.                                 *)
<1>4. ASSUME UNCHANGED <<startup, store, Events>>, Started' <=> Started PROVE LogKept
  <2>1. SameLog
    BY <1>4 DEF SameLog, BufferedIn
  <2>2. Incoming' = Incoming
    BY <1>4 DEF Incoming
  <2> QED
    BY <1>1, <1>4, <2>1, <2>2, SameLogKept DEF LogKept
<1>5. CASE RunNewClient
  <2>1. SeeIfTimeToPurgeStaleCategories(StoreAfterAnswer(store, Head(clientSubscriptions), now))
    BY <1>5 DEF RunNewClient
  <2>2. PICK sub : sub = Head(clientSubscriptions)
    OBVIOUS
  <2>3. StoreAfterAnswer(store, sub, now) = store
    BY AnswerIsBehind
  <2>4. store' = store
    BY <2>1, <2>2, <2>3, PurgeTakesNothing
  <2>5. UNCHANGED <<startup, Events, run>>
    BY <1>5 DEF RunNewClient
  <2>6. LogKept
    BY <1>4, <2>4, <2>5 DEF Started
  <2>7. PollsOK'
    BY <1>1, <1>5, <2>6, RunNewClientKeepsPolls DEF LogKept
  <2> QED
    BY <2>6, <2>7
<1>6. CASE RunClientTimeout
  <2>1. LogKept
    BY <1>4, <1>6, PurgeTakesNothing DEF RunClientTimeout, Started
  <2>2. ASSUME NEW c \in Clients, NEW cat \in Categories, ParkedAt(c, cat)'
        PROVE  ParkedAt(c, cat)
    <3>1. PICK pair, left :
            /\ left = Parked(pair.SubscriptionCategory) \ {pair.ClientUUID}
            /\ ClientSubChannels' =
                 IF pair.SubscriptionCategory \notin DOMAIN ClientSubChannels
                 THEN ClientSubChannels
                 ELSE IF left = {} THEN Delete(ClientSubChannels, {pair.SubscriptionCategory})
                 ELSE Put(ClientSubChannels, pair.SubscriptionCategory, left)
      BY <1>6 DEF RunClientTimeout
    <3> QED
      BY <2>2, <3>1 DEF ParkedAt, Put, Delete, Restrict, Parked
  <2>3. PollsOK'
    BY <1>1, <1>6, <2>1, <2>2, QuietKeepsPolls DEF RunClientTimeout, LogKept
  <2> QED
    BY <2>1, <2>3
<1>7. CASE RunTimer \/ RunQuit \/ DrainNothing \/ CloseShutdownDone
  <2>1. UNCHANGED <<startup, store, ClientSubChannels, channelVars>> /\ (Started' <=> Started)
    BY <1>7, PurgeTakesNothing
       DEF RunTimer, RunQuit, DrainNothing, CloseShutdownDone, Started
  <2>2. LogKept
    BY <1>4, <2>1 DEF channelVars
  <2>3. PollsOK'
    BY <1>1, <2>1, <2>2, QuietKeepsPolls DEF LogKept, ParkedAt, channelVars
  <2> QED
    BY <2>2, <2>3
<1>8. CASE RunEvent \/ DrainEvent
  <2>1. PICK event \in Event : event = Head(Events)
    <3>1. Events \in Seq(Event) /\ Events # <<>>
      BY <1>8 DEF MInv, ManagerTypeOK, RunEvent, DrainEvent
    <3> QED
      BY <3>1, HeadTailProperties
  <2>2. DoBufferEvents(event) = TRUE
    BY DEF DoBufferEvents, LogAssumption
  <2>3. /\ Started /\ Started' /\ Events # <<>> /\ Events' = Tail(Events)
        /\ UNCHANGED <<startup, clientSubscriptions>> /\ ForwardToParked(event)
        /\ store' = StoreNewEvent(store, event, TRUE, now)
    BY <1>8, <2>1, <2>2, PurgeTakesNothing DEF RunEvent, DrainEvent, Started
  <2>4. LogGrows(event)
    BY <1>1, <2>1, <2>3, TakingEventLogs
  <2>5. PollsOK'
    BY <1>1, <2>3, <2>4, ForwardingKeepsPolls DEF LogGrows
  <2> QED
    BY <2>4, <2>5
<1> QED
  BY <1>2, <1>3, <1>5, <1>6, <1>7, <1>8 DEF ManagerStep, Manager

(* The callers of Publish and of Shutdown, and the clock, leave the polls  *)
(* alone, and of the logs only PublishSend changes what comes next.        *)
LEMMA CallerStepKeeps ==
  ASSUME LInv, LogAssumption, LogInv,
         UNCHANGED <<managerVars, channelVars, handler, request, published, response, asked>>
  PROVE  LogKept /\ PollsOK'
<1> USE DEF LInv, LogInv
<1>1. UNCHANGED <<startup, store, Events, ClientSubChannels, clientSubscriptions, subEvents, Incoming>>
      /\ (Started' <=> Started)
  BY DEF managerVars, channelVars, Started, Incoming
<1>2. SameLog
  BY <1>1 DEF SameLog, BufferedIn
<1>3. PollsOK'
  BY <1>1, <1>2, QuietKeepsPolls DEF ParkedAt
<1> QED
  BY <1>1, <1>2, <1>3, SameLogKept DEF LogKept

LEMMA PublishSendKeepsLogInv ==
  ASSUME LInv, InTime, LogAssumption, LogInv, NEW p \in Publishers, PublishSend(p)
  PROVE  LogKept /\ PollsOK'
<1> USE DEF LInv, LogInv
<1>1. /\ UNCHANGED <<store, ClientSubChannels, clientSubscriptions, subEvents, handler, request,
                     response, asked>>
      /\ (Started' <=> Started)
  BY DEF PublishSend, managerVars, Started
<1>2. SameLog
  BY <1>1 DEF SameLog, BufferedIn
<1>3. PollsOK'
  BY <1>1, <1>2, QuietKeepsPolls DEF ParkedAt
<1>4. IncomingOK' /\ LogOK'
  BY PublishSendKeepsLog DEF LogAssumption
<1> QED
  BY <1>2, <1>3, <1>4 DEF LogKept

LEMMA InitEstablishesLogInv ==
  ASSUME LogAssumption, LongpollInit
  PROVE  LogInv
<1>1. PICK events \in InitialEvents :
        /\ startup = [startChan |-> events, currentEventTime |-> 0,
                      cutoffTime |-> IF NoTTL THEN 0 ELSE Expiration(StartTime)]
        /\ published = ToSet(events)
  BY DEF LongpollInit, Init
<1>2. /\ ~Started /\ Events = <<>> /\ Incoming = events
      /\ store.SubEventBuffer = EmptyMap /\ ClientSubChannels = EmptyMap
      /\ clientSubscriptions = <<>> /\ request = EmptyMap
      /\ subEvents = [c \in Clients |-> <<>>] /\ handler = [c \in Clients |-> "idle"]
      /\ response = [c \in Clients |-> [status |-> "none"]]
  BY <1>1 DEF LongpollInit, Init, Started, Incoming
<1>3. IncomingOK
  <2>1. DOMAIN events = 1 .. Len(events)
    BY ManagerAssumption, LenProperties
  <2>2. \A i \in 1 .. Len(events) : events[i] \in published
    BY <1>1, <2>1 DEF ToSet
  <2> QED
    BY <1>2, <2>2 DEF IncomingOK, LogAssumption
<1>4. LogOK
  <2>1. \A cat : BufferedIn(cat) = <<>>
    BY <1>2 DEF BufferedIn, EmptyMap
  <2>2. Len(<<>>) = 0 /\ \A i \in 1 .. 0 : FALSE
    BY EmptySeq
  <2> QED
    BY <2>1, <2>2 DEF LogOK
<1>5. PollsOK
  <2>1. Len(<<>>) = 0 /\ \A i \in 1 .. 0 : FALSE
    BY EmptySeq
  <2> QED
    BY <1>2, <2>1 DEF PollsOK, PollOK, Untold, ParkedAt, EmptyMap
<1> QED
  BY <1>3, <1>4, <1>5 DEF LogInv

-----------------------------------------------------------------------------
(* What each step is to the log and its polls.                             *)

LEMMA AbstractValues ==
  ASSUME LInv
  PROVE  /\ \A cat \in Categories : AbstractLog[cat] = Reverse(BufferedIn(cat))
         /\ \A c \in Clients : c \notin DOMAIN request => AbstractPoll[c] = Log!NoPoll
         /\ \A c \in Clients : c \in DOMAIN request => AbstractPoll[c] # Log!NoPoll
<1>1. \A cat \in Categories : AbstractLog[cat] = Reverse(BufferedIn(cat))
  BY DEF AbstractLog
<1>2. \A c \in Clients : c \notin DOMAIN request => AbstractPoll[c] = Log!NoPoll
  BY DEF AbstractPoll, Log!NoPoll
<1>3. ASSUME NEW c \in Clients, c \in DOMAIN request PROVE AbstractPoll[c] # Log!NoPoll
  <2>1. AbstractPoll[c].from = asked[c]
    BY <1>3 DEF AbstractPoll
  <2>2. asked[c] \in Nat
    BY DEF LInv, Requests
  <2>3. Log!NoPoll.from = -1
    BY DEF Log!NoPoll
  <2> QED
    BY <2>1, <2>2, <2>3
<1> QED
  BY <1>1, <1>2, <1>3

LEMMA SameAbstractLog == SameLog => AbstractLog' = AbstractLog
BY DEF SameLog, AbstractLog

LEMMA SamePolls == UNCHANGED <<request, asked>> => AbstractPoll' = AbstractPoll
BY DEF AbstractPoll

LEMMA LogStutters ==
  ASSUME SameLog, UNCHANGED <<now, request, asked, response>>
  PROVE  UNCHANGED Log!logVars
BY SameAbstractLog, SamePolls DEF Log!logVars

(* A handler's step moves one poll.                                        *)
LEMMA PollMoves ==
  ASSUME LInv, NEW c \in Clients, Handler(c), NEW p, p = AbstractPoll'[c]
  PROVE  AbstractPoll' = [AbstractPoll EXCEPT ![c] = p]
<1>1. AbstractPoll' = [d \in Clients |-> AbstractPoll'[d]]
  BY DEF AbstractPoll
<1>2. ASSUME NEW d \in Clients, d # c PROVE AbstractPoll'[d] = AbstractPoll[d]
  BY <1>2, HandlerTouchesOne DEF Untouched, AbstractPoll
<1>3. AbstractPoll = [d \in Clients |-> AbstractPoll[d]]
  BY DEF AbstractPoll
<1> HIDE DEF AbstractPoll
<1> QED
  BY <1>1, <1>2, <1>3

LEMMA EndedPoll ==
  ASSUME LInv, NEW c \in Clients, Reject(c) \/ Leave(c) \/ Respond(c)
  PROVE  AbstractPoll' = [AbstractPoll EXCEPT ![c] = Log!NoPoll]
<1>1. c \notin DOMAIN request'
  BY DEF Reject, Leave, Respond, LInv, Requests, Delete, Restrict
<1>2. AbstractPoll'[c] = Log!NoPoll
  BY <1>1 DEF AbstractPoll, Log!NoPoll
<1>3. PICK p : p = Log!NoPoll
  OBVIOUS
<1> QED
  BY <1>2, <1>3, PollMoves DEF Handler

LEMMA PublishingRefines ==
  ASSUME LInv, MInv', InTime, LogAssumption, NEW event \in Event, LogGrows(event),
         UNCHANGED <<now, request, asked, response>>
  PROVE  Log!Publishing
<1> DEFINE cat == event.Category
<1>1. PICK list \in Seq(Event) : list = BufferedIn(cat)
  BY ListFacts DEF LInv
<1> PICK n \in Nat : n = Len(list)
  BY LenProperties
<1>2. /\ cat \in Categories /\ event.ID \in EventIDs /\ event.Timestamp \in Nat
      /\ event = [Timestamp |-> event.Timestamp, Category |-> cat, ID |-> event.ID]
  BY DEF Event
<1>3. event.Timestamp <= now /\ now \in Nat
  BY DEF InTime, LogAssumption, LogGrows, LInv, MInv, ManagerTypeOK
<1> PICK l : l = Reverse(list)
  OBVIOUS
<1>4. /\ l \in Seq(Event) /\ Len(l) = n
      /\ \A i \in 1 .. n : n - i + 1 \in 1 .. n /\ l[i] = list[n - i + 1]
  BY ReverseProperties
<1>5. AbstractLog[cat] = l
  BY <1>1, <1>2, <1>4, AbstractValues
<1>6. Reverse(BufferedIn(cat)') = Append(l, event)
  <2>1. PICK new : new = BufferedIn(cat)'
    OBVIOUS
  <2>2. /\ Len(new) = Len(list) + 1 /\ new[1] = event
        /\ \A i \in 2 .. Len(new) : new[i] = list[i - 1]
    BY <1>1, <2>1 DEF LogGrows, Pushed
  <2>3. new \in Seq(Event)
    BY <2>1, BufferType, EmptySeq DEF MInv, ManagerTypeOK, BufferedIn
  <2>4. Reverse(new) = Append(Reverse(list), event)
    BY <2>2, <2>3, ReversePush
  <2> QED
    BY <2>1, <2>4
<1>7. AbstractLog' = [AbstractLog EXCEPT ![cat] = Append(l, event)]
  <2>1. \A other \in Categories : other # cat => BufferedIn(other)' = BufferedIn(other)
    BY DEF LogGrows, Pushed
  <2>2. \A other \in Categories :
          Reverse(BufferedIn(other)') = IF other = cat THEN Append(l, event)
                                        ELSE Reverse(BufferedIn(other))
    BY <1>6, <2>1
  <2>3. AbstractLog' = [other \in Categories |-> Reverse(BufferedIn(other)')]
    BY DEF AbstractLog
  <2>4. AbstractLog = [other \in Categories |-> Reverse(BufferedIn(other))]
    BY DEF AbstractLog
  <2> QED
    BY <1>2, <2>2, <2>3, <2>4
<1>8. AbstractLog' # AbstractLog
  <2>1. AbstractLog'[cat] = Append(l, event)
    BY <1>2, <1>7 DEF AbstractLog
  <2>2. Len(Append(l, event)) = n + 1
    BY <1>4, AppendProperties
  <2>3. n + 1 # n
    OBVIOUS
  <2> QED
    BY <1>4, <1>5, <2>1, <2>2, <2>3
<1>9. \A i \in DOMAIN l : l[i].Timestamp <= event.Timestamp /\ l[i].ID # event.ID
  <2>1. DOMAIN l = 1 .. n
    BY <1>4, LenProperties
  <2>2. \A i \in 1 .. n : list[i].Timestamp <= event.Timestamp /\ list[i].ID # event.ID
    BY <1>1 DEF LogGrows, Follows
  <2> QED
    BY <1>4, <2>1, <2>2
<1>10. AbstractPoll' = AbstractPoll
  BY SamePolls
<1> PICK other, ts, id : other = cat /\ ts = event.Timestamp /\ id = event.ID
  OBVIOUS
<1> HIDE DEF cat, AbstractLog, AbstractPoll
<1>11. Log!AppendEvent(other, [Timestamp |-> ts, Category |-> other, ID |-> id])
  BY <1>2, <1>3, <1>5, <1>7, <1>9, <1>10 DEF Log!AppendEvent
<1>12. ts \in 0 .. now /\ id \in EventIDs /\ other \in Categories
  BY <1>2, <1>3
<1> QED
  BY <1>8, <1>10, <1>11, <1>12 DEF Log!Publishing

LEMMA AskingRefines ==
  ASSUME LInv, LogInv, NEW c \in Clients, NewClientSubscription(c), SameLog
  PROVE  Log!Asking(c)
<1>1. PICK cat \in Categories,
           cursor \in {<<now, NoID>>} \cup (SinceTimes \X KnownIDs) :
        /\ request' = Put(request, c,
                         [ClientUUID |-> c, SubscriptionCategory |-> cat,
                          LastEventTime |-> cursor[1], LastEventID |-> cursor[2]])
        /\ asked' = [asked EXCEPT ![c] = Len(BufferedIn(cat))]
  BY DEF NewClientSubscription
<1>2. /\ handler[c] = "idle" /\ UNCHANGED <<now, response>>
      /\ now \in Nat /\ published \subseteq Event
      /\ asked \in [Clients -> Nat] /\ c \notin DOMAIN request
  BY DEF NewClientSubscription, LInv, MInv, ManagerTypeOK, Requests
<1>3. PICK since, id : since = cursor[1] /\ id = cursor[2]
  OBVIOUS
<1>4. since \in SinceTimes \cup 0 .. now /\ id \in EventIDs \cup {NoID}
  <2>1. KnownIDs \subseteq EventIDs \cup {NoID}
    BY <1>2 DEF KnownIDs, Event
  <2>2. CASE cursor = <<now, NoID>>
    BY <1>2, <1>3, <2>2
  <2>3. CASE cursor \in SinceTimes \X KnownIDs
    BY <1>3, <2>1, <2>3
  <2> QED
    BY <2>2, <2>3
<1>5. PICK n \in Nat : n = Len(BufferedIn(cat)) /\ n = Len(AbstractLog[cat])
  <2>1. PICK list \in Seq(Event) : list = BufferedIn(cat) /\ Len(list) \in Nat
    BY ListFacts DEF LInv
  <2>2. Len(Reverse(list)) = Len(list)
    BY <2>1, ReverseProperties
  <2> QED
    BY <2>1, <2>2, AbstractValues
<1> DEFINE p == [Category |-> cat, since |-> since, id |-> id, from |-> n]
<1>6. AbstractPoll'[c] = p
  <2>1. c \in DOMAIN request' /\ asked'[c] = n
    BY <1>1, <1>2, <1>5 DEF Put
  <2>2. request'[c] = [ClientUUID |-> c, SubscriptionCategory |-> cat,
                       LastEventTime |-> since, LastEventID |-> id]
    BY <1>1, <1>3 DEF Put
  <2> QED
    BY <2>1, <2>2 DEF AbstractPoll
<1>7. AbstractPoll' = [AbstractPoll EXCEPT ![c] = p]
  <2> HIDE DEF p
  <2> QED
    BY <1>6, PollMoves DEF Handler
<1>8. AbstractPoll[c] = Log!NoPoll /\ AbstractPoll'[c] # Log!NoPoll
  <2>1. p.from \in Nat /\ Log!NoPoll.from = -1
    BY DEF Log!NoPoll
  <2>2. p # Log!NoPoll
    <3> HIDE DEF p
    <3> QED
      BY <2>1
  <2> QED
    BY <1>2, <1>6, <2>2, AbstractValues
<1>9. response' = [response EXCEPT ![c] = [status |-> "none"]]
  <2>1. response[c] = [status |-> "none"]
    BY <1>2 DEF LogInv, PollsOK, PollOK
  <2> QED
    BY <1>2, <2>1 DEF LInv, Requests
<1>10. AbstractLog' = AbstractLog
  BY SameAbstractLog
<1> HIDE DEF AbstractPoll, AbstractLog
<1>11. Log!Ask(c, cat, since, id)
  BY <1>2, <1>5, <1>7, <1>8, <1>9, <1>10 DEF Log!Ask
<1> QED
  BY <1>4, <1>8, <1>11 DEF Log!Asking

LEMMA FailRefines ==
  ASSUME LInv, NEW c \in Clients, SameLog,
         Reject(c) \/ (Leave(c) /\ handler[c] # "timeout")
  PROVE  Log!Fail(c)
<1>1. PICK status \in {"error", "gone"} : response' = [response EXCEPT ![c] = [status |-> status]]
  <2>1. CASE Reject(c)
    BY <2>1 DEF Reject, Responded
  <2>2. CASE Leave(c) /\ handler[c] # "timeout"
    BY <2>2 DEF Leave, Responded
  <2> QED
    BY <2>1, <2>2
<1>2. UNCHANGED <<now, AbstractLog>>
  BY SameAbstractLog DEF Reject, Leave
<1>3. AbstractPoll' = [AbstractPoll EXCEPT ![c] = Log!NoPoll]
  BY EndedPoll
<1> HIDE DEF AbstractPoll, AbstractLog
<1> QED
  BY <1>1, <1>2, <1>3 DEF Log!Fail, Log!Reply

LEMMA TimeoutRefines ==
  ASSUME LInv, NEW c \in Clients, SameLog, Leave(c), handler[c] = "timeout"
  PROVE  Log!AnswerTimeout(c)
<1>1. /\ response' = [response EXCEPT ![c] = [status |-> "timeout", timestamp |-> now]]
      /\ now' = now /\ c \in DOMAIN request
  BY DEF Leave, Responded, LInv, Requests
<1>2. /\ AbstractLog' = AbstractLog /\ AbstractPoll[c] # Log!NoPoll
      /\ AbstractPoll' = [AbstractPoll EXCEPT ![c] = Log!NoPoll]
  BY <1>1, SameAbstractLog, AbstractValues, EndedPoll
<1> HIDE DEF AbstractPoll, AbstractLog
<1> QED
  BY <1>1, <1>2 DEF Log!AnswerTimeout, Log!Reply

LEMMA RespondRefines ==
  ASSUME LInv, LogInv, NEW c \in Clients, SameLog, Respond(c)
  PROVE  Log!AnswerEvents(c)
<1>1. /\ response' = [response EXCEPT ![c] = [status |-> "events", events |-> Head(subEvents[c])]]
      /\ now' = now /\ c \in DOMAIN request /\ subEvents[c] # <<>>
  BY DEF Respond, Responded, LInv, Requests
<1>2. PICK q \in Subscription, cat \in Categories :
        q = request[c] /\ cat = q.SubscriptionCategory
  BY <1>1, RequestTypes, SubscriptionType
<1>3. PICK list \in Seq(Event) :
        list = BufferedIn(cat) /\ Len(Reverse(list)) = Len(list)
  <2>1. PICK list \in Seq(Event), n \in Nat : list = BufferedIn(cat) /\ n = Len(list)
    BY ListFacts DEF LInv
  <2>2. Len(Reverse(list)) = Len(list)
    BY <2>1, ReverseProperties
  <2> QED
    BY <2>1, <2>2
<1> PICK l, b : l = Reverse(list) /\ b = Head(subEvents[c])
  OBVIOUS
<1>4. Fares(c, q, list)
  BY <1>1, <1>2, <1>3 DEF LogInv, PollsOK, PollOK, UnderWay
<1>5. PICK n \in asked[c] .. Len(list) :
        /\ b # <<>>
        /\ b = BatchOf(l, q.LastEventTime, q.LastEventID, n)
  BY <1>1, <1>3, <1>4 DEF Fares
<1>6. PICK p : /\ p = AbstractPoll[c]
               /\ p = [Category |-> cat, since |-> q.LastEventTime,
                       id |-> q.LastEventID, from |-> asked[c]]
  BY <1>1, <1>2 DEF AbstractPoll
<1>7. AbstractLog[cat] = l
  BY <1>3, AbstractValues
<1>8. /\ AbstractLog' = AbstractLog /\ p # Log!NoPoll
      /\ AbstractPoll' = [AbstractPoll EXCEPT ![c] = Log!NoPoll]
  BY <1>1, <1>6, SameAbstractLog, AbstractValues, EndedPoll
<1> HIDE DEF AbstractPoll, AbstractLog
<1>9. Log!Batch(p, n) = b
  BY <1>5, <1>6, <1>7 DEF Log!Batch, BatchOf
<1>10. n \in p.from .. Len(AbstractLog[p.Category])
  BY <1>3, <1>6, <1>7
<1>11. Log!Reply(c, [status |-> "events", events |-> Log!Batch(p, n)])
  BY <1>1, <1>5, <1>8, <1>9 DEF Log!Reply
<1>12. \E m \in p.from .. Len(AbstractLog[p.Category]) :
         /\ Log!Batch(p, m) # <<>>
         /\ Log!Reply(c, [status |-> "events", events |-> Log!Batch(p, m)])
  BY <1>5, <1>9, <1>10, <1>11
<1> QED
  BY <1>6, <1>8, <1>12 DEF Log!AnswerEvents

LEMMA HandlerStepRefines ==
  ASSUME LInv, LogInv, NEW c \in Clients, Handler(c), SameLog
  PROVE  [Log!Next]_(Log!logVars)
<1>1. CASE Reject(c) \/ (Leave(c) /\ handler[c] # "timeout")
  BY <1>1, FailRefines DEF Log!Next
<1>2. CASE NewClientSubscription(c)
  BY <1>2, AskingRefines DEF Log!Next
<1>3. CASE Subscribe(c) \/ Timeout(c) \/ Disconnect(c)
  BY <1>3, LogStutters DEF Subscribe, Timeout, Disconnect, callerVars
<1>4. CASE Leave(c) /\ handler[c] = "timeout"
  BY <1>4, TimeoutRefines DEF Log!Next
<1>5. CASE Respond(c)
  BY <1>5, RespondRefines DEF Log!Next
<1> QED
  BY <1>1, <1>2, <1>3, <1>4, <1>5 DEF Handler

-----------------------------------------------------------------------------
(* The refinement.                                                         *)

LEMMA InitRefinesLog ==
  ASSUME LogAssumption, LongpollInit
  PROVE  Log!Init
<1>1. /\ now \in Nat /\ request = EmptyMap
      /\ store.SubEventBuffer = EmptyMap
      /\ response = [c \in Clients |-> [status |-> "none"]]
  BY ManagerAssumption DEF LongpollInit, Init
<1>2. Reverse(<<>>) = <<>>
  <2>1. <<>> \in Seq(Event) /\ 0 = Len(<<>>)
    BY EmptySeq
  <2>2. Reverse(<<>>) \in Seq(Event) /\ Len(Reverse(<<>>)) = 0
    BY <2>1, ReverseProperties
  <2> QED
    BY <2>2, EmptySeq
<1>3. AbstractLog = [cat \in Categories |-> <<>>]
  BY <1>1, <1>2 DEF AbstractLog, BufferedIn, EmptyMap
<1>4. AbstractPoll = [c \in Clients |-> Log!NoPoll]
  BY <1>1 DEF AbstractPoll, Log!NoPoll, EmptyMap
<1> HIDE DEF AbstractLog, AbstractPoll
<1> QED
  BY <1>1, <1>3, <1>4 DEF Log!Init

(* Each step keeps the invariant and is a step of EventLog or nothing to   *)
(* it.                                                                     *)
LEMMA StepRefinesLog ==
  ASSUME LogAssumption, LInv, InTime, LogInv, [LongpollNext]_longpollVars
  PROVE  LogInv' /\ [Log!Next]_(Log!logVars)
<1>1. CASE ManagerStep
  <2>1. UNCHANGED <<now, request, asked, response>>
    BY <1>1, ManagerLeavesEnvironment DEF ManagerStep, environmentVars, callerVars
  <2>2. MInv'
    BY <1>1, ManagerKeeps DEF ManagerStep, LInv
  <2>3. PollsOK' /\ (LogKept \/ \E event \in Event : LogGrows(event))
    BY <1>1, ManagerStepLogs
  <2>4. CASE LogKept
    BY <2>1, <2>3, <2>4, LogStutters DEF LogKept, LogInv
  <2>5. CASE \E event \in Event : LogGrows(event)
    <3>1. PICK event \in Event : LogGrows(event)
      BY <2>5
    <3>2. Log!Publishing
      BY <2>1, <2>2, <3>1, PublishingRefines
    <3> QED
      BY <2>3, <3>1, <3>2 DEF LogGrows, LogInv, Log!Next
  <2> QED
    BY <2>3, <2>4, <2>5
<1>2. ASSUME NEW c \in Clients, Handler(c) PROVE LogInv' /\ [Log!Next]_(Log!logVars)
  <2>1. LogKept
    BY <1>2, HandlerKeepsLog DEF LogInv
  <2> QED
    BY <1>2, <2>1, HandlerKeepsPolls, HandlerStepRefines DEF LogKept, LogInv
<1>3. CASE UNCHANGED <<managerVars, channelVars, handler, request, published, response, asked>>
           /\ now' \in {now, now + 1}
  <2>1. LogKept /\ LogInv'
    BY <1>3, CallerStepKeeps DEF LogKept, LogInv
  <2>2. CASE now' = now
    BY <1>3, <2>1, <2>2, LogStutters DEF LogKept
  <2>3. CASE now' = now + 1
    BY <1>3, <2>1, <2>3, SameAbstractLog, SamePolls DEF LogKept, Log!Tick, Log!Next
  <2> QED
    BY <1>3, <2>1, <2>2, <2>3
<1>4. ASSUME NEW p \in Publishers, PublishSend(p)
      PROVE  LogInv' /\ [Log!Next]_(Log!logVars)
  <2>1. LogKept /\ PollsOK'
    BY <1>4, PublishSendKeepsLogInv
  <2> QED
    BY <1>4, <2>1, LogStutters DEF LogKept, LogInv, PublishSend
<1>5. \/ \E p \in Publishers : Publish(p)
      \/ Shutdown \/ CloseStopSignal \/ ShutdownReturns \/ ShutdownTimesOut
      \/ Clock \/ UNCHANGED longpollVars
      => /\ UNCHANGED <<managerVars, channelVars, handler, request, published, response, asked>>
         /\ now' \in {now, now + 1}
  BY DEF Publish, Shutdown, CloseStopSignal, ShutdownReturns, ShutdownTimesOut, Clock, Tick,
         callerVars, longpollVars, vars, environmentVars
<1> QED
  BY <1>1, <1>2, <1>3, <1>4, <1>5 DEF LongpollNext

(* The running server, with all its goroutines, channels and buffers, is   *)
(* to its clients a log for each category: every poll is answered with the *)
(* interval of the log that its cursor asks for, as of one moment between  *)
(* the poll and its answer, in whatever order requests, events, timeouts,  *)
(* disconnects and the shutdown come.  LogAssumption says when: nothing    *)
(* expires, is evicted or deleted on retrieval, and one publisher at a     *)
(* time stamps events.                                                     *)
THEOREM LongpollImplementsLog ==
  ASSUME LogAssumption
  PROVE  LongpollSpec => ImplementsEventLog
<1>1. LonePublisher => NoFutureEvents
  BY DEF LogAssumption
<1>2. LongpollInit => InTime
  BY <1>1, InitInTime
<1>3. LongpollSpec => [](LInv /\ InTime)
  BY <1>2, LongpollInvariance, InTimeKept, PTL DEF LongpollSpec
<1>4. LongpollInit => LogInv /\ Log!Init
  BY InitEstablishesLogInv, InitRefinesLog
<1>5. LInv /\ InTime /\ LogInv /\ [LongpollNext]_longpollVars
        => LogInv' /\ [Log!Next]_(Log!logVars)
  BY StepRefinesLog
<1> QED
  BY <1>3, <1>4, <1>5, PTL DEF LongpollSpec, ImplementsEventLog, Log!Spec

=============================================================================

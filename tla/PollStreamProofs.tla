--------------------------- MODULE PollStreamProofs ---------------------------
(***************************************************************************)
(* What a program gets from the Go and the JavaScript client, for every    *)
(* log of events, every channel capacity, every number of polls and every  *)
(* way in which they fail, time out or are answered late.                  *)
(***************************************************************************)
EXTENDS PollStream, SequenceTheorems, WellFoundedInduction, TLAPS

LogEvent == [Timestamp : Nat, Category : Categories, ID : EventIDs]

-----------------------------------------------------------------------------
(* The conversions of utils.go are exact in the range that int64           *)
(* nanoseconds cover.                                                      *)

LEMMA DivMod ==
  ASSUME NEW a \in Int, NEW n \in Nat \ {0}
  PROVE  /\ a \div n \in Int
         /\ a = n * (a \div n) + (a % n)
         /\ a % n \in 0 .. n - 1
  OBVIOUS

LEMMA DivOfMultiple ==
  ASSUME NEW q \in Int, NEW n \in Nat \ {0}
  PROVE  (q * n) \div n = q
  OBVIOUS

LEMMA MultipleMonotone ==
  ASSUME NEW a \in Int, NEW b \in Int, a <= b, NEW n \in Nat \ {0}
  PROVE  a * n <= b * n
  OBVIOUS

(* Within the range, no milliseconds overflow.                             *)
LEMMA InRange ==
  ASSUME NEW ms \in Int, -MaxMs <= ms, ms <= MaxMs
  PROVE  /\ ms * NsPerMs \in Int
         /\ -HalfRange <= ms * NsPerMs
         /\ ms * NsPerMs < HalfRange
<1> DEFINE top == HalfRange - 1
<1>1. NsPerMs \in Nat \ {0} /\ HalfRange \in Nat \ {0}
  BY TimeConvAssumption
<1>2. top \in Int /\ MaxMs = top \div NsPerMs
  BY <1>1 DEF MaxMs
<1> HIDE DEF top
<1>3. /\ MaxMs \in Int
      /\ top = NsPerMs * MaxMs + (top % NsPerMs)
      /\ top % NsPerMs \in 0 .. NsPerMs - 1
  BY <1>1, <1>2, DivMod
<1>4. MaxMs * NsPerMs <= top
  BY <1>1, <1>2, <1>3
<1>5. ms * NsPerMs <= MaxMs * NsPerMs
  BY <1>1, <1>3, MultipleMonotone
<1>6. (-MaxMs) * NsPerMs <= ms * NsPerMs
  BY <1>1, <1>3, MultipleMonotone
<1>7. (-MaxMs) * NsPerMs = -(MaxMs * NsPerMs)
  BY <1>1, <1>3
<1> QED
  BY <1>1, <1>3, <1>4, <1>5, <1>6, <1>7 DEF top

LEMMA WrapIsExact ==
  ASSUME NEW n \in Int, -HalfRange <= n, n < HalfRange
  PROVE  Wrap(n) = n
<1>1. HalfRange \in Nat \ {0}
  BY TimeConvAssumption
<1>2. (n + HalfRange) % (2 * HalfRange) = n + HalfRange
  BY <1>1
<1> QED
  BY <1>1, <1>2 DEF Wrap

LEMMA WrapIsInt64 ==
  ASSUME NEW n \in Int
  PROVE  Wrap(n) \in -HalfRange .. HalfRange - 1
<1>1. HalfRange \in Nat \ {0} /\ 2 * HalfRange \in Nat \ {0} /\ n + HalfRange \in Int
  BY TimeConvAssumption
<1>2. (n + HalfRange) % (2 * HalfRange) \in 0 .. 2 * HalfRange - 1
  BY <1>1, DivMod
<1> QED
  BY <1>1, <1>2 DEF Wrap

LEMMA DivMonotone ==
  ASSUME NEW a \in Int, NEW b \in Int, a <= b, NEW n \in Nat \ {0}
  PROVE  a \div n <= b \div n
<1>1. /\ a \div n \in Int /\ b \div n \in Int
      /\ a = n * (a \div n) + (a % n) /\ b = n * (b \div n) + (b % n)
      /\ a % n \in 0 .. n - 1 /\ b % n \in 0 .. n - 1
  BY DivMod
<1> DEFINE p == a \div n
           q == b \div n
<1>2. ASSUME q + 1 <= p PROVE FALSE
  <2>1. (q + 1) * n <= p * n
    BY <1>1, <1>2, MultipleMonotone
  <2>2. (q + 1) * n = q * n + n /\ p * n = n * p /\ q * n = n * q
    BY <1>1
  <2> QED
    BY <1>1, <2>1, <2>2
<1> QED
  BY <1>1, <1>2

(* Whatever overflows, what is left of it is a time before MaxMs.          *)
LEMMA NeverPastMaxMs ==
  ASSUME NEW ms \in Int
  PROVE  /\ timeToEpochMilliseconds(millisecondStringToTime(ms)) \in Int
         /\ timeToEpochMilliseconds(millisecondStringToTime(ms)) <= MaxMs
         /\ MaxMs \in Nat
<1> DEFINE t == millisecondStringToTime(ms)
<1>1. NsPerMs \in Nat \ {0} /\ HalfRange \in Nat \ {0}
  BY TimeConvAssumption
<1>2. t \in -HalfRange .. HalfRange - 1
  <2>1. ms * NsPerMs \in Int
    BY <1>1
  <2> QED
    BY <2>1, WrapIsInt64 DEF millisecondStringToTime
<1> HIDE DEF t
<1>3. MaxMs \in Nat
  <2>1. 0 \div NsPerMs = 0
    BY <1>1, DivOfMultiple
  <2> QED
    BY <1>1, <2>1, DivMonotone, DivMod DEF MaxMs
<1>4. ASSUME t >= 0
      PROVE  timeToEpochMilliseconds(t) \in Int /\ timeToEpochMilliseconds(t) <= MaxMs
  <2>1. t \in Int /\ HalfRange - 1 \in Int /\ t <= HalfRange - 1
    BY <1>1, <1>2
  <2>2. t \div NsPerMs \in Int /\ t \div NsPerMs <= (HalfRange - 1) \div NsPerMs
    BY <1>1, <2>1, DivMonotone, DivMod
  <2> QED
    BY <1>4, <2>2 DEF timeToEpochMilliseconds, Quotient, MaxMs
<1>5. ASSUME ~(t >= 0)
      PROVE  timeToEpochMilliseconds(t) \in Int /\ timeToEpochMilliseconds(t) <= MaxMs
  <2>1. (-t) \div NsPerMs \in Int /\ (-t) \div NsPerMs >= 0
    <3>1. 0 \div NsPerMs = 0
      BY <1>1, DivOfMultiple
    <3> QED
      BY <1>1, <1>2, <1>5, <3>1, DivMonotone, DivMod
  <2>2. timeToEpochMilliseconds(t) = -((-t) \div NsPerMs)
    BY <1>5 DEF timeToEpochMilliseconds, Quotient
  <2> QED
    BY <1>3, <2>1, <2>2
<1> QED
  BY <1>3, <1>4, <1>5 DEF t

(* millisecondStringToTime and timeToEpochMilliseconds cancel out on every *)
(* number of milliseconds that int64 nanoseconds can express: the          *)
(* since_time a client sends is the one its events are compared with.      *)
THEOREM RoundTrip ==
  ASSUME NEW ms \in Int, -MaxMs <= ms, ms <= MaxMs
  PROVE  timeToEpochMilliseconds(millisecondStringToTime(ms)) = ms
<1> DEFINE t == ms * NsPerMs
<1>1. NsPerMs \in Nat \ {0}
  BY TimeConvAssumption
<1>2. t \in Int /\ -HalfRange <= t /\ t < HalfRange
  BY InRange
<1>3. millisecondStringToTime(ms) = t
  BY <1>2, WrapIsExact DEF millisecondStringToTime
<1>4. CASE ms >= 0
  <2>1. t >= 0
    BY <1>1, <1>4, MultipleMonotone
  <2>2. t \div NsPerMs = ms
    BY <1>1, DivOfMultiple
  <2> QED
    BY <1>3, <2>1, <2>2 DEF timeToEpochMilliseconds, Quotient
<1>5. CASE ms < 0
  <2>1. ~(t >= 0)
    BY <1>1, <1>5
  <2>2. -t = (-ms) * NsPerMs
    BY <1>1
  <2>3. (-t) \div NsPerMs = -ms
    BY <1>1, <2>2, DivOfMultiple
  <2>4. Quotient(t, NsPerMs) = -((-t) \div NsPerMs)
    BY <2>1 DEF Quotient
  <2> QED
    BY <1>3, <2>3, <2>4 DEF timeToEpochMilliseconds
<1> QED
  BY <1>4, <1>5

-----------------------------------------------------------------------------
(* The answer to a poll.                                                   *)

(* A non-empty set of naturals up to n has a greatest element.  (By        *)
(* well-founded minimality of the distances from n.)                       *)
LEMMA GreatestElement ==
  ASSUME NEW n \in Nat, NEW S \in SUBSET (1 .. n), S # {}
  PROVE  \E m \in S : \A x \in S : x <= m
<1> DEFINE T == {d \in Nat : n - d \in S}
           R == OpToRel(<, Nat)
<1>1. T \subseteq Nat /\ T # {}
  <2>1. PICK x \in S : x \in 1 .. n
    OBVIOUS
  <2>2. n - x \in Nat /\ n - (n - x) = x
    BY <2>1
  <2> QED
    BY <2>1, <2>2
<1>2. PICK d \in T : \A y \in T : ~(<<y, d>> \in R)
  <2> HIDE DEF T
  <2> QED
    BY <1>1, WFMin, NatLessThanWellFounded
<1>3. \A y \in T : d <= y
  <2>1. \A x, y \in Nat : x < y => <<x, y>> \in R
    BY Zenon DEF OpToRel
  <2>2. \A y \in T : ~(y < d)
    BY <2>1, <1>2, Zenon
  <2> QED
    BY <2>2
<1>4. \A x \in S : x <= n - d
  <2>1. ASSUME NEW x \in S PROVE x <= n - d
    <3>1. x \in 1 .. n
      OBVIOUS
    <3>2. n - x \in Nat /\ n - (n - x) = x
      BY <3>1
    <3>3. d <= n - x
      BY <1>3, <3>2
    <3>4. d \in Nat
      BY <1>1
    <3> QED
      BY <3>1, <3>3, <3>4
  <2> QED
    BY <2>1
<1> QED
  BY <1>4

LEMMA SuffixProperties ==
  ASSUME NEW S, NEW l \in Seq(S), NEW n \in Nat, n = Len(l), NEW m \in 0 .. n
  PROVE  /\ SubSeq(l, 1 + m, n) \in Seq(S)
         /\ Len(SubSeq(l, 1 + m, n)) = n - m
         /\ \A i \in 1 .. n - m : SubSeq(l, 1 + m, n)[i] = l[m + i]
<1>1. \A i \in 1 + m .. n : l[i] \in S
  <2>1. \A i \in 1 + m .. n : i \in 1 .. n
    OBVIOUS
  <2> QED
    BY <2>1, ElementOfSeq
<1>2. /\ 1 + m \in Int /\ n - (1 + m) + 1 = n - m
      /\ \A i \in 1 .. n - m : 1 + m + i - 1 = m + i
      /\ ~(1 + m <= n) => n - m = 0
  OBVIOUS
<1> QED
  BY <1>1, <1>2, SubSeqProperties

(* Behind returns what follows the last element that the cursor covers.    *)
LEMMA BehindProperties ==
  ASSUME NEW l \in Seq(LogEvent), NEW n \in Nat, n = Len(l), NEW s, NEW id
  PROVE  \E a \in 0 .. n :
           /\ Behind(s, id, l) \in Seq(LogEvent)
           /\ Len(Behind(s, id, l)) = n - a
           /\ \A i \in 1 .. n - a : Behind(s, id, l)[i] = l[a + i]
           /\ a > 0 => Covers(s, id, l[a])
           /\ \A i \in a + 1 .. n : ~Covers(s, id, l[i])
<1> DEFINE covered == {i \in DOMAIN l : Covers(s, id, l[i])}
           IsPlace(a) == /\ a \in 0 .. n
                         /\ Behind(s, id, l) = SubSeq(l, 1 + a, n)
                         /\ a > 0 => Covers(s, id, l[a])
                         /\ \A i \in a + 1 .. n : ~Covers(s, id, l[i])
<1>1. DOMAIN l = 1 .. n
  BY LenProperties
<1>2. ASSUME covered = {} PROVE IsPlace(0)
  <2>1. Behind(s, id, l) = l
    BY <1>2 DEF Behind
  <2>2. l = SubSeq(l, 1 + 0, n)
    BY SubSeqFull
  <2>3. \A i \in 0 + 1 .. n : i \in DOMAIN l
    BY <1>1
  <2>4. \A i \in 0 + 1 .. n : ~Covers(s, id, l[i])
    BY <1>2, <2>3
  <2> QED
    BY <2>1, <2>2, <2>4
<1>3. ASSUME covered # {} PROVE \E m \in covered : IsPlace(m)
  <2> DEFINE m == CHOOSE i \in covered : \A j \in covered : j <= i
  <2>1. m \in covered /\ \A j \in covered : j <= m
    <3>1. covered \in SUBSET (1 .. n)
      BY <1>1
    <3>2. \E i \in covered : \A j \in covered : j <= i
      <4> HIDE DEF covered
      <4> QED
        BY <1>3, <3>1, GreatestElement
    <3> QED
      BY <3>2
  <2>2. Behind(s, id, l) = SubSeq(l, 1 + m, n)
    BY <1>3 DEF Behind
  <2> HIDE DEF m
  <2>3. m \in 1 .. n /\ Covers(s, id, l[m])
    BY <1>1, <2>1
  <2>4. ASSUME NEW i \in m + 1 .. n, Covers(s, id, l[i]) PROVE FALSE
    <3>1. i \in 1 .. n /\ ~(i <= m)
      BY <2>3
    <3> QED
      BY <1>1, <2>1, <2>4, <3>1
  <2>5. m \in 0 .. n
    BY <2>3
  <2> QED
    BY <2>1, <2>2, <2>3, <2>4, <2>5
<1>4. PICK a : IsPlace(a)
  BY <1>2, <1>3
<1> HIDE DEF covered
<1>5. /\ SubSeq(l, 1 + a, n) \in Seq(LogEvent)
      /\ Len(SubSeq(l, 1 + a, n)) = n - a
      /\ \A i \in 1 .. n - a : SubSeq(l, 1 + a, n)[i] = l[a + i]
  BY <1>4, SuffixProperties
<1> QED
  BY <1>4, <1>5

(* A poll that is answered when the log has n events gets an interval of   *)
(* the log: all its cursor does not cover or, if that is nothing, the next *)
(* event.                                                                  *)
IsAnswer(batch, l, s, id, n, a, b) ==
  /\ a \in 0 .. n /\ b \in a + 1 .. Len(l) /\ (b = n \/ a = n)
  /\ batch \in Seq(LogEvent) /\ Len(batch) = b - a
  /\ \A i \in 1 .. b - a : batch[i] = l[a + i]
  /\ a > 0 => Covers(s, id, l[a])
  /\ \A i \in a + 1 .. n : ~Covers(s, id, l[i])

LEMMA BatchProperties ==
  ASSUME NEW q, log[q.Category] \in Seq(LogEvent),
         NEW n \in 0 .. Len(log[q.Category]), Batch(q, n) # <<>>
  PROVE  \E a, b \in Nat : IsAnswer(Batch(q, n), log[q.Category], q.since, q.id, n, a, b)
<1> DEFINE l == log[q.Category]
           front == SubSeq(l, 1, n)
           behind == Behind(q.since, q.id, front)
<1>1. Len(l) \in Nat /\ n \in Nat
  BY LenProperties
<1>2. /\ front \in Seq(LogEvent) /\ Len(front) = n
      /\ \A i \in 1 .. n : front[i] = l[i]
  <2>1. \A i \in 1 .. n : l[i] \in LogEvent
    BY <1>1, ElementOfSeq
  <2> QED
    BY <1>1, <2>1, SubSeqProperties
<1> HIDE DEF front
<1>3. PICK a \in 0 .. n :
        /\ behind \in Seq(LogEvent) /\ Len(behind) = n - a
        /\ \A i \in 1 .. n - a : behind[i] = front[a + i]
        /\ a > 0 => Covers(q.since, q.id, front[a])
        /\ \A i \in a + 1 .. n : ~Covers(q.since, q.id, front[i])
  BY <1>1, <1>2, BehindProperties
<1>4. /\ \A i \in 1 .. n - a : behind[i] = l[a + i]
      /\ a > 0 => Covers(q.since, q.id, l[a])
      /\ \A i \in a + 1 .. n : ~Covers(q.since, q.id, l[i])
  BY <1>1, <1>2, <1>3
<1>5. Batch(q, n) = IF behind = <<>> /\ n < Len(l) THEN <<l[n + 1]>> ELSE behind
  BY DEF Batch, front
<1> HIDE DEF behind
<1>6. CASE behind = <<>> /\ n < Len(l)
  <2>1. n = a
    BY <1>1, <1>3, <1>6
  <2>2. l[n + 1] \in LogEvent
    BY <1>1, <1>6, ElementOfSeq
  <2>3. /\ Batch(q, n) \in Seq(LogEvent) /\ Len(Batch(q, n)) = 1
        /\ Batch(q, n)[1] = l[a + 1]
    BY <1>5, <1>6, <2>1, <2>2
  <2>4. IsAnswer(Batch(q, n), l, q.since, q.id, n, a, n + 1)
    BY <1>1, <1>4, <1>6, <2>1, <2>3 DEF IsAnswer
  <2> QED
    BY <1>1, <1>3, <2>4
<1>7. CASE ~(behind = <<>> /\ n < Len(l))
  <2>1. Batch(q, n) = behind
    BY <1>5, <1>7
  <2>2. n - a > 0
    BY <1>1, <1>3, <2>1, EmptySeq
  <2>3. IsAnswer(Batch(q, n), l, q.since, q.id, n, a, n)
    BY <1>1, <1>3, <1>4, <2>1, <2>2 DEF IsAnswer
  <2> QED
    BY <1>1, <1>3, <2>3
<1> QED
  BY <1>6, <1>7

-----------------------------------------------------------------------------
(* What has been handed over, or is about to be, and the log.              *)

IsLog(l, t) ==
  /\ l \in Seq(LogEvent)
  /\ \A i \in 1 .. Len(l) : l[i].ID = i /\ l[i].Timestamp <= t
  /\ \A i, j \in 1 .. Len(l) : i <= j => l[i].Timestamp <= l[j].Timestamp

(* The events of seq are events of the log in its order, and none is left  *)
(* out but those not newer than the time the program asked to start from   *)
(* or than a timeout that moved the cursor.                                *)
IsFlow(seq, l, from, moved) ==
  /\ seq \in Seq(LogEvent)
  /\ \A i \in 1 .. Len(seq) : seq[i].ID \in 1 .. Len(l) /\ seq[i] = l[seq[i].ID]
  /\ \A i, j \in 1 .. Len(seq) : i < j => seq[i].ID < seq[j].ID
  /\ \A n \in 1 .. Len(seq) : \A p \in 1 .. seq[n].ID :
       \/ l[p].Timestamp <= from \/ l[p].Timestamp <= moved
       \/ \E j \in 1 .. n : seq[j].ID = p

(* Those among the first at events are newer than floor.                   *)
IsSince(seq, floor, at) ==
  \A i \in 1 .. Len(seq) : seq[i].Timestamp > floor \/ seq[i].ID > at

LastPosition(seq) == IF seq = <<>> THEN 0 ELSE seq[Len(seq)].ID

(* A cursor is where the program asked to start, or at the last event, or  *)
(* moved past either by a timeout.                                         *)
IsCursor(s, id, seq, from, moved) ==
  IF seq = <<>>
  THEN id = NoID /\ (s <= from \/ s <= moved)
  ELSE LET last == seq[Len(seq)]
       IN  /\ id = last.ID
           /\ s = last.Timestamp \/ (last.Timestamp < s /\ s <= moved)

LEMMA LogProperties ==
  ASSUME NEW l, NEW t \in Int, IsLog(l, t)
  PROVE  /\ Len(l) \in Nat
         /\ \A i \in 1 .. Len(l) :
              /\ l[i] \in LogEvent /\ l[i].ID = i
              /\ l[i].Timestamp \in Nat /\ l[i].Timestamp <= t
         /\ \A i, j \in 1 .. Len(l) : i <= j => l[i].Timestamp <= l[j].Timestamp
<1>1. Len(l) \in Nat /\ \A i \in 1 .. Len(l) : l[i] \in LogEvent
  BY LenProperties, ElementOfSeq DEF IsLog
<1> QED
  BY <1>1 DEF IsLog, LogEvent

(* Where a poll is answered from: behind the last event handed over, past  *)
(* none that a client may not miss.                                        *)
LEMMA AnswerFollows ==
  ASSUME NEW l, NEW t \in Int, IsLog(l, t), NEW seq, NEW from \in Int, NEW moved \in Int,
         IsFlow(seq, l, from, moved), NEW s \in Int, NEW id,
         IsCursor(s, id, seq, from, moved), NEW batch, NEW n \in 0 .. Len(l),
         NEW a \in Nat, NEW b \in Nat, IsAnswer(batch, l, s, id, n, a, b),
         LastPosition(seq) <= n
  PROVE  /\ LastPosition(seq) \in 0 .. a
         /\ \A p \in LastPosition(seq) + 1 .. a :
              l[p].Timestamp <= from \/ l[p].Timestamp <= moved
<1> DEFINE k == LastPosition(seq)
<1>1. /\ Len(l) \in Nat
      /\ \A i \in 1 .. Len(l) :
              /\ l[i] \in LogEvent /\ l[i].ID = i
              /\ l[i].Timestamp \in Nat /\ l[i].Timestamp <= t
      /\ \A i, j \in 1 .. Len(l) : i <= j => l[i].Timestamp <= l[j].Timestamp
  BY LogProperties
<1>2. a \in 0 .. n /\ a \in 0 .. Len(l)
  BY <1>1 DEF IsAnswer
<1>3. ASSUME a > 0
      PROVE  l[a].Timestamp < s \/ (l[a].Timestamp = s /\ id \in {NoID, a})
  BY <1>1, <1>2, <1>3 DEF IsAnswer, Covers
<1>4. CASE seq = <<>>
  <2>1. k = 0 /\ (s <= from \/ s <= moved)
    BY <1>4 DEF LastPosition, IsCursor
  <2>2. ASSUME NEW p \in 1 .. a PROVE l[p].Timestamp <= s
    <3>1. a > 0 /\ p \in 1 .. Len(l) /\ a \in 1 .. Len(l) /\ p <= a
      BY <1>1, <1>2
    <3> QED
      BY <1>1, <1>3, <3>1
  <2>3. ASSUME NEW p \in 1 .. a PROVE l[p].Timestamp <= from \/ l[p].Timestamp <= moved
    <3>1. p \in 1 .. Len(l) /\ l[p].Timestamp \in Nat
      BY <1>1, <1>2
    <3> QED
      BY <2>1, <2>2, <3>1
  <2> QED
    BY <1>2, <2>1, <2>3
<1>5. CASE seq # <<>>
  <2> DEFINE m == Len(seq)
  <2>1. m \in Nat /\ m \in 1 .. m
    BY <1>5, EmptySeq DEF IsFlow
  <2>2. /\ k = seq[m].ID /\ k \in 1 .. Len(l) /\ seq[m] = l[k] /\ l[k].ID = k
        /\ id = k /\ (s = l[k].Timestamp \/ (l[k].Timestamp < s /\ s <= moved))
    BY <1>1, <1>5, <2>1 DEF LastPosition, IsFlow, IsCursor
  <2>3. k # NoID
    BY <1>1, <2>2, StreamAssumption DEF LogEvent
  <2>4. Covers(s, id, l[k])
    BY <1>1, <2>2 DEF Covers
  <2>5. k \in 0 .. a
    <3>1. ~(k \in a + 1 .. n)
      BY <2>4 DEF IsAnswer
    <3> QED
      BY <1>2, <2>2, <3>1
  <2>6. ASSUME NEW p \in k + 1 .. a
        PROVE  l[p].Timestamp <= from \/ l[p].Timestamp <= moved
    <3>1. /\ a > 0 /\ p \in 1 .. Len(l) /\ a \in 1 .. Len(l) /\ p <= a /\ k <= a /\ a # k
          /\ k \in 1 .. Len(l)
      BY <1>1, <1>2, <2>2, <2>5
    <3>2. l[k].Timestamp <= l[a].Timestamp /\ l[p].Timestamp <= l[a].Timestamp
      BY <1>1, <3>1
    <3>3. /\ l[k].Timestamp \in Nat /\ l[a].Timestamp \in Nat /\ l[p].Timestamp \in Nat
      BY <1>1, <3>1
    <3>4. id \notin {NoID, a}
      BY <2>2, <2>3, <3>1
    <3>5. l[a].Timestamp < s
      BY <1>3, <3>1, <3>4
    <3>6. s = l[k].Timestamp \/ s <= moved
      BY <2>2
    <3> HIDE DEF k, m
    <3> QED
      BY <3>2, <3>3, <3>5, <3>6
  <2> QED
    BY <2>5, <2>6
<1> QED
  BY <1>4, <1>5

LEMMA FlowExtended ==
  ASSUME NEW l, NEW t \in Int, IsLog(l, t), NEW seq, NEW from \in Int, NEW moved \in Int,
         IsFlow(seq, l, from, moved), NEW s \in Int, NEW id,
         IsCursor(s, id, seq, from, moved), NEW batch, NEW n \in 0 .. Len(l),
         NEW a \in Nat, NEW b \in Nat, IsAnswer(batch, l, s, id, n, a, b),
         LastPosition(seq) <= n
  PROVE  IsFlow(seq \o batch, l, from, moved)
<1> DEFINE k == LastPosition(seq)
           m == Len(seq)
           c == b - a
           all == seq \o batch
<1>1. /\ Len(l) \in Nat
      /\ \A i \in 1 .. Len(l) : l[i] \in LogEvent /\ l[i].ID = i
  BY LogProperties
<1>2. /\ k \in 0 .. a
      /\ \A p \in k + 1 .. a : l[p].Timestamp <= from \/ l[p].Timestamp <= moved
  BY AnswerFollows
<1>3. /\ seq \in Seq(LogEvent) /\ m \in Nat
      /\ batch \in Seq(LogEvent) /\ Len(batch) = c /\ c \in Nat
      /\ a + c = b /\ b \in 1 .. Len(l)
      /\ \A i \in 1 .. c : batch[i] = l[a + i]
  <2>1. seq \in Seq(LogEvent) /\ m \in Nat
    BY LenProperties DEF IsFlow
  <2>2. b \in a + 1 .. Len(l)
    BY DEF IsAnswer
  <2>3. /\ batch \in Seq(LogEvent) /\ Len(batch) = c
        /\ \A i \in 1 .. c : batch[i] = l[a + i]
    BY DEF IsAnswer
  <2>4. c \in Nat /\ a + c = b /\ b \in 1 .. Len(l)
    BY <1>1, <2>2
  <2> HIDE DEF c, m
  <2> QED
    BY <2>1, <2>3, <2>4
<1> HIDE DEF c, m
<1>4. /\ all \in Seq(LogEvent) /\ Len(all) = m + c
      /\ \A i \in 1 .. m + c : all[i] = IF i <= m THEN seq[i] ELSE batch[i - m]
  BY <1>3, ConcatProperties DEF m
<1>5. /\ \A i \in 1 .. m : all[i] = seq[i]
      /\ \A i \in m + 1 .. m + c : /\ all[i] = l[a + (i - m)] /\ a + (i - m) \in 1 .. Len(l)
                                   /\ all[i].ID = a + (i - m)
  <2>1. \A i \in 1 .. m : i \in 1 .. m + c /\ i <= m
    BY <1>3
  <2>2. \A i \in m + 1 .. m + c : /\ i \in 1 .. m + c /\ ~(i <= m) /\ i - m \in 1 .. c
                                  /\ a + (i - m) \in 1 .. Len(l)
    BY <1>1, <1>3
  <2> QED
    BY <1>1, <1>3, <1>4, <2>1, <2>2
<1>6. \A i \in 1 .. m : /\ seq[i].ID \in 1 .. Len(l) /\ seq[i] = l[seq[i].ID]
                        /\ seq[i].ID <= a
  <2>1. ASSUME NEW i \in 1 .. m PROVE seq[i].ID <= k
    <3>1. seq # <<>> /\ k = seq[m].ID /\ m \in 1 .. m
      <4>1. m \in 1 .. m
        BY <1>3
      <4>2. seq # <<>>
        BY <4>1 DEF m
      <4> QED
        BY <4>1, <4>2 DEF LastPosition, m
    <3>2. i = m \/ i < m
      BY <1>3
    <3>3. i < m => seq[i].ID < seq[m].ID
      BY <3>1 DEF IsFlow, m
    <3>4. seq[i].ID \in Nat /\ k \in Nat
      BY <1>2, <1>1 DEF IsFlow, m
    <3> QED
      BY <3>1, <3>2, <3>3, <3>4
  <2>2. \A i \in 1 .. m : seq[i].ID \in 1 .. Len(l) /\ seq[i] = l[seq[i].ID]
    BY DEF IsFlow, m
  <2> QED
    BY <1>1, <1>2, <2>1, <2>2
<1> HIDE DEF all, c, m, k
<1>7. \A i \in 1 .. m + c : all[i].ID \in 1 .. Len(l) /\ all[i] = l[all[i].ID]
  <2>1. \A i \in 1 .. m + c : i \in 1 .. m \/ i \in m + 1 .. m + c
    BY <1>3
  <2> QED
    BY <1>5, <1>6, <2>1
<1>8. ASSUME NEW i \in 1 .. m + c, NEW j \in 1 .. m + c, i < j
      PROVE  all[i].ID < all[j].ID
  <2>1. CASE j \in 1 .. m
    <3>1. i \in 1 .. m
      BY <1>3, <1>8, <2>1
    <3> QED
      BY <1>5, <1>8, <2>1, <3>1 DEF IsFlow, m
  <2>2. CASE i \in 1 .. m /\ j \in m + 1 .. m + c
    <3>1. all[i].ID \in Nat /\ all[i].ID <= a
      BY <1>1, <1>5, <1>6, <2>2
    <3>2. all[j].ID = a + (j - m) /\ j - m \in Nat \ {0}
      BY <1>3, <1>5, <2>2
    <3> QED
      BY <3>1, <3>2
  <2>3. CASE i \in m + 1 .. m + c /\ j \in m + 1 .. m + c
    <3>1. all[i].ID = a + (i - m) /\ all[j].ID = a + (j - m)
      BY <1>5, <2>3
    <3>2. a + (i - m) < a + (j - m)
      BY <1>3, <1>8
    <3> QED
      BY <3>1, <3>2
  <2> QED
    BY <1>3, <1>8, <2>1, <2>2, <2>3
<1>9. ASSUME NEW i \in 1 .. m + c, NEW p \in 1 .. all[i].ID
      PROVE  \/ l[p].Timestamp <= from \/ l[p].Timestamp <= moved
             \/ \E j \in 1 .. i : all[j].ID = p
  <2>1. CASE i \in 1 .. m
    <3>1. \/ l[p].Timestamp <= from \/ l[p].Timestamp <= moved
          \/ \E j \in 1 .. i : seq[j].ID = p
      BY <1>5, <2>1 DEF IsFlow, m
    <3>2. \A j \in 1 .. i : j \in 1 .. m
      BY <1>3, <2>1
    <3> QED
      BY <1>5, <3>1, <3>2
  <2>2. CASE i \in m + 1 .. m + c
    <3>1. all[i].ID = a + (i - m) /\ p \in Nat
      BY <1>5, <2>2, <1>3
    <3>2. CASE p \in k + 1 .. a
      BY <1>2, <3>2
    <3>3. CASE p > a
      <4>1. PICK j \in Nat : j = m + (p - a)
        BY <1>3, <3>1, <3>3
      <4>2. j \in m + 1 .. m + c /\ j \in 1 .. i /\ a + (j - m) = p
        BY <1>3, <2>2, <3>1, <3>3, <4>1
      <4>3. all[j].ID = p
        BY <1>5, <4>2
      <4> QED
        BY <4>2, <4>3
    <3>4. CASE p <= k
      <4>1. seq # <<>> /\ k = seq[m].ID /\ m \in 1 .. m /\ p \in 1 .. seq[m].ID
        <5>1. k # 0
          BY <1>2, <3>1, <3>4
        <5>2. seq # <<>> /\ k = seq[m].ID
          BY <5>1 DEF LastPosition, k, m
        <5>3. m \in Nat \ {0}
          BY <1>3, <5>2, EmptySeq DEF m
        <5> QED
          BY <1>2, <3>1, <3>4, <5>2, <5>3
      <4>2. \/ l[p].Timestamp <= from \/ l[p].Timestamp <= moved
            \/ \E j \in 1 .. m : seq[j].ID = p
        BY <4>1 DEF IsFlow, m
      <4>3. \A j \in 1 .. m : j \in 1 .. i
        BY <1>3, <2>2
      <4> QED
        BY <1>5, <4>2, <4>3
    <3> QED
      BY <1>2, <1>3, <3>1, <3>2, <3>3, <3>4
  <2> QED
    BY <1>3, <2>1, <2>2
<1> QED
  BY <1>4, <1>7, <1>8, <1>9 DEF IsFlow, all

LEMMA SinceExtended ==
  ASSUME NEW l, NEW t \in Int, IsLog(l, t), NEW seq, NEW from \in Int, NEW moved \in Int,
         IsFlow(seq, l, from, moved), NEW s \in Int, NEW id,
         IsCursor(s, id, seq, from, moved), NEW batch, NEW n \in 0 .. Len(l),
         NEW a \in Nat, NEW b \in Nat, IsAnswer(batch, l, s, id, n, a, b),
         LastPosition(seq) <= n,
         NEW floor \in Int, NEW at \in 0 .. n,
         IsSince(seq, floor, at), seq = <<>> => s >= floor
  PROVE  IsSince(seq \o batch, floor, at)
<1> DEFINE k == LastPosition(seq)
           m == Len(seq)
           c == b - a
<1>1. /\ Len(l) \in Nat
      /\ \A i \in 1 .. Len(l) : l[i].ID = i /\ l[i].Timestamp \in Nat
      /\ \A i, j \in 1 .. Len(l) : i <= j => l[i].Timestamp <= l[j].Timestamp
  BY LogProperties
<1>2. k \in 0 .. a
  BY AnswerFollows
<1>3. /\ seq \in Seq(LogEvent) /\ m \in Nat
      /\ batch \in Seq(LogEvent) /\ Len(batch) = c
      /\ b \in a + 1 .. Len(l)
      /\ \A i \in 1 .. c : batch[i] = l[a + i]
      /\ \A i \in a + 1 .. n : ~Covers(s, id, l[i])
  BY LenProperties DEF IsFlow, IsAnswer
<1> HIDE DEF c, m, k
<1>4. /\ Len(seq \o batch) = m + c
      /\ \A i \in 1 .. m + c : (seq \o batch)[i] = IF i <= m THEN seq[i] ELSE batch[i - m]
  BY <1>3, ConcatProperties DEF m
<1>5. ASSUME NEW p \in a + 1 .. b PROVE l[p].Timestamp > floor \/ l[p].ID > at
  <2>1. p \in 1 .. Len(l) /\ l[p].ID = p /\ l[p].Timestamp \in Nat
    BY <1>1, <1>3
  <2>2. SUFFICES ASSUME p <= at PROVE l[p].Timestamp > floor
    BY <2>1
  <2>3. ~Covers(s, id, l[p])
    <3>1. p \in a + 1 .. n
      BY <2>1, <2>2
    <3> QED
      BY <1>3, <3>1
  <2>4. CASE seq = <<>>
    <3>1. id = NoID /\ s >= floor
      BY <2>4 DEF IsCursor
    <3> QED
      BY <2>1, <2>3, <3>1 DEF Covers
  <2>5. CASE seq # <<>>
    <3>1. m \in 1 .. Len(seq) /\ k = seq[m].ID
      BY <1>3, <2>5, EmptySeq DEF LastPosition, k, m
    <3>2. seq[m].Timestamp > floor \/ k > at
      BY <3>1 DEF IsSince
    <3>3. k \in 1 .. Len(l) /\ seq[m] = l[k]
      BY <3>1 DEF IsFlow
    <3>4. k <= p /\ ~(k > at)
      BY <1>2, <2>1, <2>2
    <3>5. l[k].Timestamp <= l[p].Timestamp /\ l[k].Timestamp \in Nat
      BY <1>1, <2>1, <3>3, <3>4
    <3> QED
      BY <2>1, <3>2, <3>3, <3>4, <3>5
  <2> QED
    BY <2>4, <2>5
<1>6. ASSUME NEW i \in 1 .. m + c
      PROVE  (seq \o batch)[i].Timestamp > floor \/ (seq \o batch)[i].ID > at
  <2>1. CASE i <= m
    <3>1. (seq \o batch)[i] = seq[i] /\ i \in 1 .. Len(seq)
      BY <1>3, <1>4, <2>1 DEF m
    <3> QED
      BY <3>1 DEF IsSince
  <2>2. CASE ~(i <= m)
    <3>1. i - m \in 1 .. c /\ a + (i - m) \in a + 1 .. b
      <4>1. m \in Nat /\ b \in Nat /\ c = b - a /\ b >= a + 1
        BY <1>1, <1>3 DEF c
      <4> QED
        BY <2>2, <4>1
    <3>2. (seq \o batch)[i] = l[a + (i - m)]
      BY <1>3, <1>4, <2>2, <3>1
    <3> QED
      BY <1>5, <3>1, <3>2
  <2> QED
    BY <2>1, <2>2
<1> QED
  BY <1>4, <1>6 DEF IsSince

(* The first events of a flow are one.                                     *)
LEMMA FlowPrefix ==
  ASSUME NEW all, NEW l, NEW from, NEW moved, IsFlow(all, l, from, moved),
         NEW seq \in Seq(LogEvent), Len(seq) <= Len(all),
         \A i \in 1 .. Len(seq) : seq[i] = all[i],
         NEW floor, NEW at
  PROVE  /\ IsFlow(seq, l, from, moved)
         /\ IsSince(all, floor, at) => IsSince(seq, floor, at)
<1>1. Len(seq) \in Nat /\ Len(all) \in Nat
  BY LenProperties DEF IsFlow
<1>2. \A i \in 1 .. Len(seq) : i \in 1 .. Len(all)
  BY <1>1
<1>3. ASSUME NEW n \in 1 .. Len(seq), NEW p \in 1 .. seq[n].ID
      PROVE  \/ l[p].Timestamp <= from \/ l[p].Timestamp <= moved
             \/ \E j \in 1 .. n : seq[j].ID = p
  <2>1. \/ l[p].Timestamp <= from \/ l[p].Timestamp <= moved
        \/ \E j \in 1 .. n : all[j].ID = p
    BY <1>2 DEF IsFlow
  <2>2. \A j \in 1 .. n : j \in 1 .. Len(seq)
    BY <1>1
  <2> QED
    BY <2>1, <2>2
<1>4. IsFlow(seq, l, from, moved)
  BY <1>2, <1>3 DEF IsFlow
<1> QED
  BY <1>2, <1>4 DEF IsSince

LEMMA FlowConcatPrefix ==
  ASSUME NEW seq \in Seq(LogEvent), NEW rest \in Seq(LogEvent), NEW l, NEW from, NEW moved,
         IsFlow(seq \o rest, l, from, moved), NEW floor, NEW at
  PROVE  /\ IsFlow(seq, l, from, moved)
         /\ IsSince(seq \o rest, floor, at) => IsSince(seq, floor, at)
<1>1. Len(seq) \in Nat /\ Len(rest) \in Nat
  BY LenProperties
<1>2. /\ Len(seq \o rest) = Len(seq) + Len(rest)
      /\ \A i \in 1 .. Len(seq) + Len(rest) : (seq \o rest)[i] =
              IF i <= Len(seq) THEN seq[i] ELSE rest[i - Len(seq)]
  BY ConcatProperties
<1>3. Len(seq) <= Len(seq \o rest) /\ \A i \in 1 .. Len(seq) : seq[i] = (seq \o rest)[i]
  BY <1>1, <1>2
<1> QED
  BY <1>3, FlowPrefix

(* A flow stays one when the log grows or a timeout moves the cursor.      *)
LEMMA FlowKept ==
  ASSUME NEW seq, NEW l, NEW t \in Int, IsLog(l, t), NEW from \in Int, NEW moved \in Int,
         IsFlow(seq, l, from, moved), NEW longer, Len(longer) \in Nat, Len(l) <= Len(longer),
         \A i \in 1 .. Len(l) : longer[i] = l[i],
         NEW moved2 \in Int, moved <= moved2
  PROVE  IsFlow(seq, longer, from, moved2)
<1>1. Len(l) \in Nat /\ \A i \in 1 .. Len(l) : l[i].Timestamp \in Nat
  BY LogProperties
<1>2. \A i \in 1 .. Len(seq) : seq[i].ID \in 1 .. Len(longer) /\ seq[i] = longer[seq[i].ID]
  <2>1. \A i \in 1 .. Len(seq) : seq[i].ID \in 1 .. Len(l) /\ seq[i] = l[seq[i].ID]
    BY DEF IsFlow
  <2>2. \A p \in 1 .. Len(l) : p \in 1 .. Len(longer)
    BY <1>1
  <2> QED
    BY <2>1, <2>2
<1>3. ASSUME NEW n \in 1 .. Len(seq), NEW p \in 1 .. seq[n].ID
      PROVE  \/ longer[p].Timestamp <= from \/ longer[p].Timestamp <= moved2
             \/ \E j \in 1 .. n : seq[j].ID = p
  <2>1. p \in 1 .. Len(l)
    BY <1>1 DEF IsFlow
  <2>2. \/ l[p].Timestamp <= from \/ l[p].Timestamp <= moved
        \/ \E j \in 1 .. n : seq[j].ID = p
    BY DEF IsFlow
  <2>3. longer[p] = l[p] /\ l[p].Timestamp \in Nat
    BY <1>1, <2>1
  <2> QED
    BY <2>2, <2>3
<1> QED
  BY <1>2, <1>3 DEF IsFlow

LEMMA LogAppended ==
  ASSUME NEW l, NEW t \in Int, IsLog(l, t), NEW e \in LogEvent,
         e.ID = Len(l) + 1, e.Timestamp <= t,
         \A i \in 1 .. Len(l) : l[i].Timestamp <= e.Timestamp
  PROVE  /\ IsLog(Append(l, e), t)
         /\ Len(Append(l, e)) = Len(l) + 1 /\ Len(l) \in Nat
         /\ \A i \in 1 .. Len(l) : Append(l, e)[i] = l[i]
<1> DEFINE longer == Append(l, e)
<1>1. /\ Len(l) \in Nat
      /\ \A i \in 1 .. Len(l) : l[i].ID = i /\ l[i].Timestamp \in Nat /\ l[i].Timestamp <= t
      /\ \A i, j \in 1 .. Len(l) : i <= j => l[i].Timestamp <= l[j].Timestamp
      /\ l \in Seq(LogEvent) /\ e.Timestamp \in Nat
  BY LogProperties DEF IsLog, LogEvent
<1>2. /\ longer \in Seq(LogEvent) /\ Len(longer) = Len(l) + 1
      /\ \A i \in 1 .. Len(l) : longer[i] = l[i]
      /\ longer[Len(l) + 1] = e
  BY <1>1, AppendProperties
<1> HIDE DEF longer
<1>3. \A i \in 1 .. Len(l) + 1 : i \in 1 .. Len(l) \/ i = Len(l) + 1
  BY <1>1
<1>4. \A i \in 1 .. Len(longer) : longer[i].ID = i /\ longer[i].Timestamp <= t
  BY <1>1, <1>2, <1>3
<1>5. ASSUME NEW i \in 1 .. Len(longer), NEW j \in 1 .. Len(longer), i <= j
      PROVE  longer[i].Timestamp <= longer[j].Timestamp
  <2>1. CASE j \in 1 .. Len(l)
    <3>1. i \in 1 .. Len(l)
      BY <1>1, <1>2, <1>5, <2>1
    <3> QED
      BY <1>1, <1>2, <1>5, <2>1, <3>1
  <2>2. CASE j = Len(l) + 1
    BY <1>1, <1>2, <1>3, <2>2
  <2> QED
    BY <1>2, <1>3, <2>1, <2>2
<1> QED
  BY <1>1, <1>2, <1>4, <1>5 DEF IsLog, longer

-----------------------------------------------------------------------------
(* The invariant.                                                          *)

LogOK == IsLog(events, now)

ServerOK ==
  /\ now \in 0 .. MaxTime
  /\ log \in [Categories -> Seq(LogEvent)]
  /\ Len(events) <= MaxEvents
  /\ LogOK
  /\ DOMAIN poll = Clients /\ DOMAIN answer = Clients

Wire(ms) == timeToEpochMilliseconds(millisecondStringToTime(ms))

(* The poll under way is the client's last, with its cursor.               *)
PollOK ==
  poll[self] # NoPoll =>
    /\ pc = "polling" /\ answer[self].status = "none"
    /\ poll[self].Category = Category
    /\ poll[self].since = Wire(since) /\ poll[self].id = lastID
    /\ poll[self].from \in begun .. Len(events)

AnswerOK ==
  /\ Answered("timeout") => answer[self].timestamp \in movedTo .. now
  /\ Answered("events") => answer[self].events \in Seq(LogEvent) \ {<<>>}

GoPlaces == {"new", "loop", "polling", "events", "send", "ended"}
JsPlaces == {"new", "timer", "polling", "ended", "dead"}

LoopOK ==
  /\ StreamTypeOK
  /\ isGo => pc \in GoPlaces
  /\ isJs => pc \in JsPlaces /\ todo = <<>>
  /\ todo \in Seq(LogEvent) /\ conveyed \in Seq(LogEvent)
  /\ pc \in {"new", "loop", "polling"} => todo = <<>>
  /\ pc = "send" => todo # <<>>

HistoryOK ==
  /\ start \in Int
  /\ begun \in 0 .. Len(events)
  /\ movedTo \in 0 .. now
  /\ promised \in Nat
  /\ pc = "new" => conveyed = <<>> /\ lastID = NoID /\ ~stopped /\ movedTo = 0

(* What is under way when stop is called is all that is conveyed after it. *)
StopOK ==
  stopped =>
    IF isGo THEN Len(conveyed) + Len(todo) <= promised
    ELSE Len(conveyed) <= promised + (IF pc = "ended" THEN 1 ELSE 0)

TInv == ServerOK /\ PollOK /\ AnswerOK /\ LoopOK /\ HistoryOK /\ StopOK

LEMMA InitEstablishesTInv == StreamInit => TInv
<1> SUFFICES ASSUME StreamInit PROVE TInv
  OBVIOUS
<1>1. ServerOK
  <2>1. events = <<>>
    BY PollClientAssumption DEF StreamInit, events
  <2>2. IsLog(<<>>, now)
    BY DEF IsLog
  <2> QED
    BY <2>1, <2>2, StreamAssumption DEF StreamInit, ServerOK, LogOK
<1>2. poll[self] = NoPoll /\ answer[self].status = "none"
  BY PollClientAssumption DEF StreamInit
<1>3. PollOK /\ AnswerOK
  BY <1>2 DEF PollOK, AnswerOK, Answered
<1>4. LoopOK
  <2>1. StreamTypeOK
    <3>1. stopped = FALSE /\ unread = 0
      BY DEF StreamInit, PollInit, GoInit
    <3>2. stopped \in BOOLEAN
      BY <3>1, Zenon
    <3>3. unread \in 0 .. ChannelCapacity
      BY <3>1, GoClientAssumption
    <3> QED
      BY <3>2, <3>3 DEF StreamInit, PollInit, StreamTypeOK
  <2>2. /\ pc = "new" /\ todo = <<>> /\ conveyed = <<>>
        /\ <<>> \in Seq(LogEvent)
    BY EmptySeq DEF StreamInit, PollInit
  <2> QED
    BY <2>1, <2>2 DEF LoopOK, GoPlaces, JsPlaces
<1>5. HistoryOK /\ StopOK
  <2>1. Len(events) = 0 /\ now \in Nat
    BY StreamAssumption, PollClientAssumption DEF StreamInit, events
  <2> QED
    BY <2>1 DEF StreamInit, PollInit, HistoryOK, StopOK
<1> QED
  BY <1>1, <1>3, <1>4, <1>5 DEF TInv


(* Steps of the server and the network.                                    *)

ClientUnchanged == UNCHANGED clientVars

LEMMA ClientFrame ==
  ASSUME TInv, ClientUnchanged, Len(events) <= Len(events)', Len(events)' \in Nat,
         now <= now', now' \in Nat
  PROVE  LoopOK' /\ HistoryOK' /\ StopOK'
<1> USE DEF ClientUnchanged, clientVars, pollVars, goVars
<1>1. LoopOK'
  BY DEF TInv, LoopOK, StreamTypeOK, isGo, isJs
<1>2. HistoryOK'
  <2>1. /\ start' = start /\ begun' = begun /\ movedTo' = movedTo /\ promised' = promised
        /\ pc' = pc /\ conveyed' = conveyed /\ lastID' = lastID /\ stopped' = stopped
    OBVIOUS
  <2>2. /\ start \in Int /\ promised \in Nat
        /\ begun \in 0 .. Len(events) /\ movedTo \in 0 .. now /\ now \in Nat
        /\ pc = "new" => conveyed = <<>> /\ lastID = NoID /\ ~stopped /\ movedTo = 0
    BY DEF TInv, HistoryOK, ServerOK
  <2>3. Len(events) \in Nat
    BY LenProperties DEF TInv, ServerOK, LogOK, IsLog
  <2>4. begun \in 0 .. Len(events)' /\ movedTo \in 0 .. now'
    BY <2>2, <2>3
  <2> QED
    BY <2>1, <2>2, <2>4 DEF HistoryOK
<1>3. StopOK'
  BY DEF TInv, StopOK, isGo
<1> QED
  BY <1>1, <1>2, <1>3

LEMMA PublishAppends ==
  ASSUME TInv, Publish
  PROVE  /\ ServerOK' /\ ClientUnchanged /\ UNCHANGED <<now, poll, answer>>
         /\ Len(events) \in Nat /\ Len(events)' = Len(events) + 1
         /\ \A i \in 1 .. Len(events) : events'[i] = events[i]
<1>1. PICK ts \in 0 .. now :
        AppendEvent(Category, [Timestamp |-> ts, Category |-> Category, ID |-> Len(events) + 1])
  BY DEF Publish
<1> DEFINE e == [Timestamp |-> ts, Category |-> Category, ID |-> Len(events) + 1]
<1>2. /\ now \in 0 .. MaxTime /\ log \in [Categories -> Seq(LogEvent)] /\ IsLog(events, now)
      /\ Len(events) < MaxEvents /\ DOMAIN poll = Clients /\ DOMAIN answer = Clients
      /\ Len(events) \in Nat /\ now \in Int
  BY StreamAssumption, LenProperties DEF TInv, ServerOK, LogOK, Publish, IsLog
<1>3. /\ UNCHANGED <<now, poll, answer>> /\ ClientUnchanged
      /\ log' = [log EXCEPT ![Category] = Append(@, e)]
      /\ \A i \in 1 .. Len(events) : events[i].Timestamp <= e.Timestamp
  <2>1. DOMAIN events = 1 .. Len(events)
    BY <1>2, LenProperties DEF IsLog
  <2> QED
    BY <1>1, <2>1 DEF AppendEvent, events, Publish, ClientUnchanged
<1>4. e \in LogEvent /\ e.ID = Len(events) + 1 /\ e.Timestamp <= now
  BY <1>2, StreamAssumption, PollClientAssumption DEF LogEvent
<1>5. events' = Append(events, e)
  BY <1>2, <1>3, PollClientAssumption DEF events
<1> HIDE DEF e
<1>6. /\ IsLog(events', now)
      /\ Len(events') = Len(events) + 1
      /\ \A i \in 1 .. Len(events) : events'[i] = events[i]
  BY <1>2, <1>3, <1>4, <1>5, LogAppended
<1>7. log' \in [Categories -> Seq(LogEvent)]
  <2>1. events' \in Seq(LogEvent)
    BY <1>6 DEF IsLog
  <2>2. log' = [log EXCEPT ![Category] = events']
    BY <1>3, <1>5 DEF events
  <2> QED
    BY <1>2, <2>1, <2>2
<1>8. ServerOK'
  BY <1>2, <1>3, <1>6, <1>7, StreamAssumption DEF ServerOK, LogOK
<1> QED
  BY <1>2, <1>3, <1>6, <1>8

LEMMA PublishKeepsTInv == TInv /\ Publish => TInv'
<1> SUFFICES ASSUME TInv, Publish PROVE TInv'
  OBVIOUS
<1>1. /\ ServerOK' /\ ClientUnchanged /\ UNCHANGED <<now, poll, answer>>
      /\ Len(events) \in Nat /\ Len(events)' = Len(events) + 1
  BY PublishAppends
<1>2. now \in Nat
  BY DEF TInv, ServerOK
<1>3. LoopOK' /\ HistoryOK' /\ StopOK'
  BY <1>1, <1>2, ClientFrame
<1>4. PollOK'
  <2>1. ASSUME poll[self] # NoPoll PROVE poll[self].from \in begun .. Len(events)'
    BY <1>1, <2>1 DEF TInv, PollOK, HistoryOK
  <2> QED
    BY <1>1, <2>1 DEF TInv, PollOK, Wire, ClientUnchanged, clientVars, pollVars
<1>5. AnswerOK'
  BY <1>1 DEF TInv, AnswerOK, Answered, ClientUnchanged, clientVars, pollVars
<1> QED
  BY <1>1, <1>3, <1>4, <1>5 DEF TInv

LEMMA ClockKeepsTInv == TInv /\ Clock => TInv'
<1> SUFFICES ASSUME TInv, Clock PROVE TInv'
  OBVIOUS
<1>1. /\ ClientUnchanged /\ UNCHANGED <<log, poll, answer, events>>
      /\ now \in Nat /\ now' = now + 1 /\ now < MaxTime
      /\ Len(events) \in Nat
  BY LenProperties DEF TInv, ServerOK, LogOK, IsLog, Clock, Tick, ClientUnchanged, events
<1>2. IsLog(events, now + 1)
  <2>1. IsLog(events, now) /\ now \in Int
    BY <1>1 DEF TInv, ServerOK, LogOK
  <2>2. \A i \in 1 .. Len(events) : events[i].Timestamp <= now + 1
    BY <2>1, <1>1, LogProperties
  <2> QED
    BY <2>1, <2>2 DEF IsLog
<1>3. ServerOK'
  BY <1>1, <1>2, StreamAssumption DEF TInv, ServerOK, LogOK
<1>4. LoopOK' /\ HistoryOK' /\ StopOK'
  BY <1>1, ClientFrame
<1>5. PollOK' /\ AnswerOK'
  <2>1. \A t \in movedTo .. now : t \in movedTo .. now'
    BY <1>1 DEF TInv, HistoryOK
  <2> QED
    BY <1>1, <2>1 DEF TInv, PollOK, AnswerOK, Answered, Wire, ClientUnchanged, clientVars,
                      pollVars
<1> QED
  BY <1>3, <1>4, <1>5 DEF TInv

(* The server answers from the log, from behind the cursor of the poll.    *)
LEMMA RespondAnswers ==
  ASSUME TInv, Respond
  PROVE  /\ ClientUnchanged /\ UNCHANGED <<now, log, events>>
         /\ poll[self] # NoPoll
         /\ poll' = [poll EXCEPT ![self] = NoPoll]
         /\ \E batch, n, a, b :
              /\ n \in poll[self].from .. Len(events) /\ a \in Nat /\ b \in Nat
              /\ batch \in Seq(LogEvent) \ {<<>>}
              /\ IsAnswer(batch, events, Wire(since), lastID, n, a, b)
              /\ answer' = [answer EXCEPT ![self] = [status |-> "events", events |-> batch]]
<1>1. /\ ClientUnchanged /\ UNCHANGED <<now, log, events>> /\ poll[self] # NoPoll
      /\ poll' = [poll EXCEPT ![self] = NoPoll]
  BY DEF Respond, AnswerEvents, Reply, ClientUnchanged, events
<1>2. /\ poll[self].Category = Category /\ poll[self].since = Wire(since)
      /\ poll[self].id = lastID /\ poll[self].from \in begun .. Len(events)
      /\ log[Category] = events /\ events \in Seq(LogEvent) /\ Len(events) \in Nat
      /\ begun \in Nat
  BY <1>1, LenProperties DEF TInv, PollOK, ServerOK, LogOK, IsLog, events, HistoryOK
<1>3. PICK n \in poll[self].from .. Len(events) :
        /\ Batch(poll[self], n) # <<>>
        /\ answer' = [answer EXCEPT ![self] = [status |-> "events",
                                               events |-> Batch(poll[self], n)]]
  BY <1>2 DEF Respond, AnswerEvents, Reply
<1>4. n \in 0 .. Len(events)
  BY <1>2
<1>5. PICK a, b \in Nat :
        IsAnswer(Batch(poll[self], n), events, Wire(since), lastID, n, a, b)
  BY <1>2, <1>3, <1>4, BatchProperties
<1>6. Batch(poll[self], n) \in Seq(LogEvent) \ {<<>>}
  BY <1>3, <1>5 DEF IsAnswer
<1> QED
  BY <1>1, <1>3, <1>5, <1>6

LEMMA RepliesKeepTInv == TInv /\ (Respond \/ TimeOut \/ Break \/ Garble) => TInv'
<1> SUFFICES ASSUME TInv, Respond \/ TimeOut \/ Break \/ Garble PROVE TInv'
  OBVIOUS
<1> DEFINE IsReply(response) ==
             /\ ClientUnchanged /\ UNCHANGED <<now, log>>
             /\ poll' = [poll EXCEPT ![self] = NoPoll]
             /\ answer' = [answer EXCEPT ![self] = response]
             /\ response.status = "timeout" => response.timestamp = now
             /\ response.status = "events" => response.events \in Seq(LogEvent) \ {<<>>}
<1>1. PICK response : IsReply(response)
  <2>1. ASSUME Respond PROVE \E response : IsReply(response)
    <3>1. PICK batch \in Seq(LogEvent) \ {<<>>} :
            answer' = [answer EXCEPT ![self] = [status |-> "events", events |-> batch]]
      BY <2>1, RespondAnswers
    <3>2. IsReply([status |-> "events", events |-> batch])
      BY <2>1, <3>1, RespondAnswers
    <3> QED
      BY <3>2
  <2>2. ASSUME TimeOut PROVE \E response : IsReply(response)
    <3>1. IsReply([status |-> "timeout", timestamp |-> now])
      BY <2>2 DEF TimeOut, AnswerTimeout, Reply, ClientUnchanged
    <3> QED
      BY <3>1
  <2>3. ASSUME Break PROVE \E response : IsReply(response)
    <3>1. PICK status \in {"error", "gone"} : Reply(self, [status |-> status])
      BY <2>3 DEF Break, Fail
    <3>2. IsReply([status |-> status])
      BY <2>3, <3>1 DEF Break, Reply, ClientUnchanged
    <3> QED
      BY <3>2
  <2>4. ASSUME Garble PROVE \E response : IsReply(response)
    <3>1. IsReply([status |-> "garbled"])
      BY <2>4 DEF Garble, Reply, ClientUnchanged
    <3> QED
      BY <3>1
  <2> QED
    BY <2>1, <2>2, <2>3, <2>4
<1>2. /\ events' = events /\ DOMAIN poll = Clients /\ DOMAIN answer = Clients /\ self \in Clients
      /\ now \in Nat /\ Len(events) \in Nat
  BY <1>1, PollClientAssumption, LenProperties DEF TInv, ServerOK, LogOK, IsLog, events
<1>3. ServerOK'
  BY <1>1, <1>2 DEF TInv, ServerOK, LogOK
<1>4. LoopOK' /\ HistoryOK' /\ StopOK'
  BY <1>1, <1>2, ClientFrame
<1>5. poll'[self] = NoPoll /\ answer'[self] = response
  BY <1>1, <1>2
<1>6. PollOK'
  BY <1>5 DEF PollOK
<1>7. AnswerOK'
  <2>1. now \in movedTo .. now
    BY <1>2 DEF TInv, HistoryOK
  <2>2. UNCHANGED <<pc, movedTo, now>>
    BY <1>1 DEF ClientUnchanged, clientVars, pollVars
  <2> QED
    BY <1>1, <1>5, <2>1, <2>2 DEF AnswerOK, Answered
<1> QED
  BY <1>3, <1>4, <1>6, <1>7 DEF TInv


-----------------------------------------------------------------------------
(* Steps of the clients.                                                   *)

LEMMA ServerFrame ==
  ASSUME TInv, UNCHANGED <<now, log>>, DOMAIN poll' = Clients, DOMAIN answer' = Clients
  PROVE  ServerOK' /\ events' = events /\ Len(events) \in Nat /\ now \in Nat
<1>1. events' = events
  BY DEF events
<1> QED
  BY <1>1, LenProperties DEF TInv, ServerOK, LogOK, IsLog

LEMMA SequenceFacts ==
  ASSUME TInv
  PROVE  /\ Len(conveyed) \in Nat /\ Len(todo) \in Nat /\ promised \in Nat
         /\ begun \in 0 .. Len(events) /\ Len(events) \in Nat /\ movedTo \in 0 .. now
         /\ now \in Nat
BY LenProperties DEF TInv, LoopOK, HistoryOK, ServerOK, LogOK, IsLog

(* The loop is not waiting, or goes on with an answer.                     *)
LEMMA AnswerTaken ==
  ASSUME TInv, UNCHANGED logVars, pc' # "polling",
         pc = "polling" => answer[self].status # "none"
  PROVE  ServerOK' /\ PollOK' /\ AnswerOK' /\ events' = events
<1>1. UNCHANGED <<now, log, poll, answer>>
  BY DEF logVars
<1>2. ServerOK' /\ events' = events
  BY <1>1, ServerFrame DEF TInv, ServerOK
<1>3. PollOK'
  BY <1>1 DEF TInv, PollOK
<1> QED
  BY <1>2, <1>3 DEF AnswerOK, Answered

(* The loop polls.                                                         *)
LEMMA PollSent ==
  ASSUME TInv, SendPoll(since', lastID'), pc' = "polling", begun' \in 0 .. Len(events)
  PROVE  ServerOK' /\ PollOK' /\ AnswerOK' /\ events' = events
<1> DEFINE q == [Category |-> Category, since |-> Wire(since'), id |-> lastID',
                 from |-> Len(events)]
<1>1. /\ UNCHANGED <<now, log>>
      /\ answer' = [answer EXCEPT ![self] = [status |-> "none"]]
      /\ poll' = [poll EXCEPT ![self] = q]
  BY DEF SendPoll, Ask, Wire, events
<1>2. DOMAIN poll = Clients /\ DOMAIN answer = Clients /\ self \in Clients
  BY PollClientAssumption DEF TInv, ServerOK
<1>3. ServerOK' /\ events' = events /\ Len(events) \in Nat
  BY <1>1, <1>2, ServerFrame
<1>4. poll'[self] = q /\ answer'[self].status = "none"
  BY <1>1, <1>2
<1>5. q.from \in begun' .. Len(events)'
  BY <1>3
<1>6. PollOK'
  BY <1>4, <1>5 DEF PollOK, Wire
<1>7. AnswerOK'
  BY <1>4 DEF AnswerOK, Answered
<1> QED
  BY <1>3, <1>6, <1>7

LEMMA StartKeepsTInv == TInv /\ Start => TInv'
<1> SUFFICES ASSUME TInv, Start PROVE TInv'
  OBVIOUS
<1>1. PICK pollSince \in StartTimes \cup {now} :
        start' = pollSince /\ since' = (pollSince \div Second) * Second
  BY DEF Start
<1>2. /\ isGo /\ pc = "new" /\ pc' = "loop" /\ begun' = Len(events)
      /\ UNCHANGED <<logVars, goVars, language, lastID, todo, conveyed, stopped, movedTo,
                     promised>>
  BY DEF Start, Goto, events
<1>3. pollSince \in Int /\ since' \in Int
  <2>1. pollSince \in Int /\ Second \in Nat \ {0}
    BY SequenceFacts, StreamAssumption, GoClientAssumption
  <2>2. pollSince \div Second \in Int
    BY <2>1, DivMod
  <2> QED
    BY <1>1, <2>1, <2>2
<1>4. ServerOK' /\ PollOK' /\ AnswerOK' /\ events' = events
  BY <1>2, AnswerTaken
<1>5. LoopOK'
  BY <1>2, <1>3 DEF TInv, LoopOK, StreamTypeOK, isGo, isJs, goVars, GoPlaces, JsPlaces
<1>6. HistoryOK'
  BY <1>1, <1>2, <1>3, <1>4, SequenceFacts DEF HistoryOK, logVars
<1>7. StopOK'
  BY <1>2 DEF TInv, HistoryOK, StopOK
<1> QED
  BY <1>4, <1>5, <1>6, <1>7 DEF TInv

LEMMA StopKeepsTInv == TInv /\ (Stop \/ (stop /\ UNCHANGED goVars)) => TInv'
<1> SUFFICES ASSUME TInv, Stop \/ (stop /\ UNCHANGED goVars) PROVE TInv'
  OBVIOUS
<1>1. /\ pc # "new" /\ stopped' = TRUE
      /\ UNCHANGED <<logVars, goVars, cursorVars, language, pc, todo, conveyed, start, begun,
                     movedTo>>
      /\ \/ isGo /\ promised' = Len(conveyed) + Len(todo)
         \/ isJs /\ promised' = Len(conveyed)
  BY DEF Stop, stop
<1>2. UNCHANGED <<now, log, poll, answer, events, since, lastID>>
  BY <1>1 DEF logVars, cursorVars, events
<1>3. ServerOK'
  BY <1>2, ServerFrame DEF TInv, ServerOK
<1>4. PollOK' /\ AnswerOK'
  BY <1>1, <1>2 DEF TInv, PollOK, AnswerOK, Wire, Answered
<1>5. promised' \in Nat
  BY <1>1, SequenceFacts
<1>6. LoopOK'
  <2>1. stopped' \in BOOLEAN
    BY <1>1, Zenon
  <2> QED
    BY <1>1, <1>2, <2>1 DEF TInv, LoopOK, StreamTypeOK, isGo, isJs, goVars
<1>7. HistoryOK'
  BY <1>1, <1>2, <1>5 DEF TInv, HistoryOK
<1>8. StopOK'
  <2>1. Len(conveyed) \in Nat /\ Len(todo) \in Nat
    BY SequenceFacts
  <2> QED
    BY <1>1, <2>1 DEF StopOK, isGo, isJs
<1> QED
  BY <1>3, <1>4, <1>6, <1>7, <1>8 DEF TInv

LEMMA ReadKeepsTInv == TInv /\ Read => TInv'
<1> SUFFICES ASSUME TInv, Read PROVE TInv'
  OBVIOUS
<1>1. UNCHANGED <<now, log, poll, answer, events>> /\ UNCHANGED pollVars
      /\ unread > 0 /\ unread' = unread - 1
  BY DEF Read, logVars, events
<1> USE <1>1 DEF pollVars
<1>2. ServerOK'
  BY ServerFrame DEF TInv, ServerOK
<1>3. PollOK' /\ AnswerOK'
  BY DEF TInv, PollOK, AnswerOK, Wire, Answered
<1>4. LoopOK'
  <2>1. unread' \in 0 .. ChannelCapacity
    BY GoClientAssumption DEF TInv, LoopOK, StreamTypeOK
  <2> QED
    BY <2>1 DEF TInv, LoopOK, StreamTypeOK, isGo, isJs
<1>5. HistoryOK' /\ StopOK'
  BY DEF TInv, HistoryOK, StopOK, isGo
<1> QED
  BY <1>2, <1>3, <1>4, <1>5 DEF TInv

(* Steps that change nothing but where the loop is.                        *)
LEMMA LoopFrame ==
  ASSUME TInv, pc # "new", pc' # "new", events' = events,
         UNCHANGED <<now, goVars, cursorVars, historyVars, todo, conveyed, stopped>>,
         isGo => pc' \in GoPlaces, isJs => pc' \in JsPlaces, isJs => pc # "ended",
         pc' \in {"loop", "polling"} => todo = <<>>, pc' # "send"
  PROVE  LoopOK' /\ HistoryOK' /\ StopOK'
<1>1. UNCHANGED <<language, since, lastID, start, begun, movedTo, promised, unread>>
  BY DEF cursorVars, historyVars, goVars
<1>2. LoopOK'
  BY <1>1 DEF TInv, LoopOK, StreamTypeOK, isGo, isJs, GoPlaces, JsPlaces
<1>3. HistoryOK'
  BY <1>1 DEF TInv, HistoryOK
<1>4. StopOK'
  <2>1. isGo \/ isJs
    BY DEF TInv, LoopOK, StreamTypeOK, isGo, isJs
  <2> QED
    BY <1>1, <2>1, SequenceFacts DEF TInv, StopOK, isGo, isJs
<1> QED
  BY <1>2, <1>3, <1>4

LEMMA GoLoopKeepsTInv == TInv /\ (Fetch \/ FetchFailed \/ AllSent) => TInv'
<1> SUFFICES ASSUME TInv, Fetch \/ FetchFailed \/ AllSent PROVE TInv'
  OBVIOUS
<1> USE DEF GoPlaces, isGo, isJs
<1>1. CASE Fetch
  <2>1. /\ isGo /\ pc = "loop" /\ pc' = IF stopped THEN "ended" ELSE "polling"
        /\ IF stopped THEN UNCHANGED logVars ELSE SendPoll(since, lastID)
        /\ UNCHANGED <<goVars, cursorVars, historyVars, todo, conveyed, stopped>>
    BY <1>1 DEF Fetch, IfNotQuit, Goto
  <2>2. since' = since /\ lastID' = lastID /\ begun' = begun /\ todo = <<>>
    BY <2>1 DEF cursorVars, historyVars, TInv, LoopOK
  <2>3. ServerOK' /\ PollOK' /\ AnswerOK' /\ events' = events
    <3>1. CASE stopped
      BY <2>1, <3>1, AnswerTaken
    <3>2. CASE ~stopped
      <4>1. SendPoll(since', lastID') /\ pc' = "polling"
        BY <2>1, <2>2, <3>2
      <4> QED
        BY <2>2, <4>1, PollSent, SequenceFacts
    <3> QED
      BY <3>1, <3>2
  <2>4. now' = now
    BY <2>1 DEF logVars, SendPoll, Ask
  <2>5. LoopOK' /\ HistoryOK' /\ StopOK'
    BY <2>1, <2>2, <2>3, <2>4, LoopFrame
  <2> QED
    BY <2>3, <2>5 DEF TInv
<1>2. CASE FetchFailed \/ AllSent
  <2>1. /\ isGo /\ pc' \in {"ended", "loop"} /\ UNCHANGED logVars
        /\ UNCHANGED <<goVars, cursorVars, historyVars, todo, conveyed, stopped>>
        /\ \/ pc = "polling" /\ answer[self].status # "none"
           \/ pc = "events" /\ todo = <<>>
    BY <1>2 DEF FetchFailed, AllSent, IfNotQuit, Goto, Failed, Answered
  <2>2. todo = <<>> /\ now' = now
    BY <2>1 DEF TInv, LoopOK, logVars
  <2>3. ServerOK' /\ PollOK' /\ AnswerOK' /\ events' = events
    BY <2>1, AnswerTaken
  <2>4. LoopOK' /\ HistoryOK' /\ StopOK'
    BY <2>1, <2>2, <2>3, LoopFrame
  <2> QED
    BY <2>3, <2>4 DEF TInv
<1> QED
  BY <1>1, <1>2

LEMMA JsLoopKeepsTInv ==
  TInv /\ (poll_ \/ onTimeout \/ onGarbled) /\ UNCHANGED goVars => TInv'
<1> SUFFICES ASSUME TInv, poll_ \/ onTimeout \/ onGarbled, UNCHANGED goVars PROVE TInv'
  OBVIOUS
<1> USE DEF JsPlaces, isGo, isJs
<1>1. todo = <<>>
  BY DEF TInv, LoopOK, poll_, onTimeout, onGarbled
<1>2. CASE poll_
  <2>1. /\ isJs /\ pc = "timer" /\ pc' = "polling" /\ SendPoll(since, lastID)
        /\ UNCHANGED <<cursorVars, historyVars, todo, conveyed, stopped>>
    BY <1>2 DEF poll_, Goto
  <2>2. SendPoll(since', lastID') /\ begun' = begun /\ now' = now
    BY <2>1 DEF cursorVars, historyVars, SendPoll, Ask
  <2>3. ServerOK' /\ PollOK' /\ AnswerOK' /\ events' = events
    BY <2>1, <2>2, PollSent, SequenceFacts
  <2>4. LoopOK' /\ HistoryOK' /\ StopOK'
    BY <1>1, <2>1, <2>2, <2>3, LoopFrame
  <2> QED
    BY <2>3, <2>4 DEF TInv
<1>3. CASE onTimeout \/ onGarbled
  <2>1. /\ isJs /\ pc' \in {"ended", "timer", "dead"} /\ UNCHANGED logVars
        /\ UNCHANGED <<cursorVars, historyVars, todo, conveyed, stopped>>
        /\ pc = "polling" /\ answer[self].status # "none"
    BY <1>3 DEF onTimeout, onGarbled, Goto, Answered
  <2>2. now' = now
    BY <2>1 DEF logVars
  <2>3. ServerOK' /\ PollOK' /\ AnswerOK' /\ events' = events
    BY <2>1, AnswerTaken
  <2>4. LoopOK' /\ HistoryOK' /\ StopOK'
    BY <1>1, <2>1, <2>2, <2>3, LoopFrame
  <2> QED
    BY <2>3, <2>4 DEF TInv
<1> QED
  BY <1>2, <1>3

LEMMA FetchedEventsKeepsTInv == TInv /\ FetchedEvents => TInv'
<1> SUFFICES ASSUME TInv, FetchedEvents PROVE TInv'
  OBVIOUS
<1>1. /\ isGo /\ Answered("events") /\ pc = "polling"
      /\ pc' = IF stopped THEN "ended" ELSE "events"
      /\ todo' = IF stopped THEN <<>> ELSE answer[self].events
      /\ UNCHANGED <<logVars, cursorVars, historyVars, conveyed, stopped, unread>>
  BY DEF FetchedEvents, IfNotQuit, Goto, Answered
<1>2. todo' \in Seq(LogEvent)
  <2>1. answer[self].events \in Seq(LogEvent)
    BY <1>1 DEF TInv, AnswerOK
  <2> QED
    BY <1>1, <2>1, EmptySeq
<1>3. ServerOK' /\ PollOK' /\ AnswerOK' /\ events' = events
  BY <1>1, AnswerTaken DEF Answered
<1>4. UNCHANGED <<now, language, start, begun, movedTo, promised, since, lastID>>
  BY <1>1 DEF logVars, historyVars, cursorVars
<1>5. LoopOK'
  BY <1>1, <1>2, <1>4 DEF TInv, LoopOK, StreamTypeOK, isGo, isJs, GoPlaces
<1>6. HistoryOK'
  BY <1>1, <1>3, <1>4 DEF TInv, HistoryOK
<1>7. StopOK'
  <2>1. Len(<<>>) = 0
    OBVIOUS
  <2> QED
    BY <1>1, <1>4, <2>1, SequenceFacts DEF TInv, StopOK, isGo
<1> QED
  BY <1>3, <1>5, <1>6, <1>7 DEF TInv

LEMMA TakeEventKeepsTInv == TInv /\ TakeEvent => TInv'
<1> SUFFICES ASSUME TInv, TakeEvent PROVE TInv'
  OBVIOUS
<1>1. /\ isGo /\ pc = "events" /\ todo # <<>> /\ pc' \in {"ended", "send"}
      /\ since' = Head(todo).Timestamp /\ lastID' = Head(todo).ID
      /\ UNCHANGED <<logVars, goVars, historyVars, todo, conveyed, stopped>>
  BY DEF TakeEvent, IfNotQuit, Goto
<1>2. since' \in Int /\ lastID' \in EventIDs
  <2>1. Head(todo) \in LogEvent
    BY <1>1, HeadTailProperties DEF TInv, LoopOK
  <2> QED
    BY <1>1, <2>1 DEF LogEvent
<1>3. ServerOK' /\ PollOK' /\ AnswerOK' /\ events' = events
  BY <1>1, AnswerTaken
<1>4. UNCHANGED <<now, language, start, begun, movedTo, promised, unread>>
  BY <1>1 DEF logVars, historyVars, goVars
<1>5. LoopOK'
  BY <1>1, <1>2, <1>4 DEF TInv, LoopOK, StreamTypeOK, isGo, isJs, GoPlaces
<1>6. HistoryOK'
  BY <1>1, <1>3, <1>4 DEF TInv, HistoryOK
<1>7. StopOK'
  BY <1>1, <1>4 DEF TInv, StopOK, isGo
<1> QED
  BY <1>3, <1>5, <1>6, <1>7 DEF TInv

LEMMA SendEventKeepsTInv == TInv /\ SendEvent => TInv'
<1> SUFFICES ASSUME TInv, SendEvent PROVE TInv'
  OBVIOUS
<1>1. /\ isGo /\ pc = "send" /\ pc' = "events" /\ unread < ChannelCapacity
      /\ conveyed' = Append(conveyed, Head(todo)) /\ todo' = Tail(todo) /\ unread' = unread + 1
      /\ UNCHANGED <<logVars, cursorVars, historyVars, stopped>>
  BY DEF SendEvent, Goto
<1>2. todo \in Seq(LogEvent) /\ todo # <<>> /\ conveyed \in Seq(LogEvent)
  BY <1>1 DEF TInv, LoopOK
<1>3. /\ todo' \in Seq(LogEvent) /\ conveyed' \in Seq(LogEvent)
      /\ Len(todo') = Len(todo) - 1 /\ Len(conveyed') = Len(conveyed) + 1
  <2>1. Head(todo) \in LogEvent /\ Tail(todo) \in Seq(LogEvent) /\ Len(Tail(todo)) = Len(todo) - 1
    BY <1>2, HeadTailProperties
  <2> QED
    BY <1>1, <1>2, <2>1, AppendProperties
<1>4. ServerOK' /\ PollOK' /\ AnswerOK' /\ events' = events
  BY <1>1, AnswerTaken
<1>5. UNCHANGED <<now, language, start, begun, movedTo, promised, since, lastID>>
  BY <1>1 DEF logVars, historyVars, cursorVars
<1>6. unread' \in 0 .. ChannelCapacity
  BY <1>1, GoClientAssumption DEF TInv, LoopOK, StreamTypeOK
<1>7. LoopOK'
  BY <1>1, <1>3, <1>5, <1>6 DEF TInv, LoopOK, StreamTypeOK, isGo, isJs, GoPlaces
<1>8. HistoryOK'
  BY <1>1, <1>4, <1>5 DEF TInv, HistoryOK
<1>9. StopOK'
  BY <1>1, <1>3, <1>5, SequenceFacts DEF TInv, StopOK, isGo
<1> QED
  BY <1>4, <1>7, <1>8, <1>9 DEF TInv

LEMMA FetchTimedOutKeepsTInv == TInv /\ FetchTimedOut => TInv'
<1> SUFFICES ASSUME TInv, FetchTimedOut PROVE TInv'
  OBVIOUS
<1>1. /\ isGo /\ Answered("timeout") /\ pc = "polling" /\ pc' \in {"ended", "loop"}
      /\ IF ~stopped /\ answer[self].timestamp > since
         THEN since' = answer[self].timestamp /\ movedTo' = answer[self].timestamp
         ELSE UNCHANGED <<since, movedTo>>
      /\ UNCHANGED <<logVars, goVars, language, lastID, todo, conveyed, stopped, start, begun,
                     promised>>
  BY DEF FetchTimedOut, IfNotQuit, Goto, Answered
<1>2. answer[self].timestamp \in movedTo .. now
  BY <1>1 DEF TInv, AnswerOK
<1>3. since' \in Int /\ movedTo' \in 0 .. now
  BY <1>1, <1>2, SequenceFacts DEF TInv, LoopOK, StreamTypeOK
<1>4. ServerOK' /\ PollOK' /\ AnswerOK' /\ events' = events
  BY <1>1, AnswerTaken DEF Answered
<1>5. now' = now /\ unread' = unread /\ todo = <<>>
  BY <1>1 DEF logVars, goVars, TInv, LoopOK
<1>6. LoopOK'
  BY <1>1, <1>3, <1>5 DEF TInv, LoopOK, StreamTypeOK, isGo, isJs, GoPlaces
<1>7. HistoryOK'
  BY <1>1, <1>3, <1>4, <1>5 DEF TInv, HistoryOK
<1>8. StopOK'
  BY <1>1 DEF TInv, StopOK, isGo
<1> QED
  BY <1>4, <1>6, <1>7, <1>8 DEF TInv

LEMMA NewClientKeepsTInv == TInv /\ newClient /\ UNCHANGED goVars => TInv'
<1> SUFFICES ASSUME TInv, newClient, UNCHANGED goVars PROVE TInv'
  OBVIOUS
<1>1. PICK sinceTime \in StartTimes \cup {now} :
        start' = sinceTime /\ since' = sinceTime /\ SendPoll(sinceTime, lastID)
  BY DEF newClient
<1>2. /\ isJs /\ pc = "new" /\ pc' = "polling" /\ begun' = Len(events)
      /\ UNCHANGED <<language, lastID, todo, conveyed, stopped, movedTo, promised>>
      /\ unread' = unread
  BY DEF newClient, Goto, events, goVars
<1>3. sinceTime \in Int
  BY SequenceFacts, StreamAssumption
<1>4. SendPoll(since', lastID') /\ begun' \in 0 .. Len(events) /\ now' = now
  BY <1>1, <1>2, SequenceFacts DEF SendPoll, Ask
<1>5. ServerOK' /\ PollOK' /\ AnswerOK' /\ events' = events
  BY <1>2, <1>4, PollSent
<1>6. LoopOK'
  BY <1>1, <1>2, <1>3 DEF TInv, LoopOK, StreamTypeOK, isGo, isJs, JsPlaces
<1>7. HistoryOK'
  BY <1>1, <1>2, <1>3, <1>4, <1>5, SequenceFacts DEF HistoryOK
<1>8. StopOK'
  BY <1>2 DEF TInv, HistoryOK, StopOK
<1> QED
  BY <1>5, <1>6, <1>7, <1>8 DEF TInv

(* What onEvents takes are the first events of the answer.                 *)
LEMMA EventsTaken ==
  ASSUME TInv, onEvents
  PROVE  \E n \in Nat, taken \in Seq(LogEvent), stopping \in BOOLEAN :
           /\ n \in 1 .. Len(answer[self].events) /\ Len(taken) = n
           /\ \A i \in 1 .. n : taken[i] = answer[self].events[i]
           /\ conveyed' = conveyed \o taken
           /\ since' = taken[n].Timestamp /\ lastID' = taken[n].ID
           /\ stopped => n = 1 /\ ~stopping
           /\ stopped' = (stopped \/ stopping)
           /\ promised' = IF stopping THEN Len(conveyed) + n ELSE promised
<1> DEFINE batch == answer[self].events
<1>1. batch \in Seq(LogEvent) /\ Len(batch) \in Nat
  BY LenProperties DEF TInv, AnswerOK, onEvents
<1>2. PICK n \in DOMAIN batch, stopping \in BOOLEAN :
        /\ stopped => n = 1 /\ ~stopping
        /\ conveyed' = conveyed \o SubSeq(batch, 1, n)
        /\ since' = Last(SubSeq(batch, 1, n)).Timestamp
        /\ lastID' = Last(SubSeq(batch, 1, n)).ID
        /\ stopped' = (stopped \/ stopping)
        /\ promised' = IF stopping THEN Len(conveyed) + n ELSE promised
  BY DEF onEvents
<1>3. n \in 1 .. Len(batch) /\ n \in Nat
  BY <1>1, LenProperties
<1> HIDE DEF batch
<1> DEFINE taken == SubSeq(batch, 1, n)
<1>4. /\ taken \in Seq(LogEvent) /\ Len(taken) = n
      /\ \A i \in 1 .. n : taken[i] = batch[i]
  <2>1. \A i \in 1 .. n : batch[i] \in LogEvent
    BY <1>1, <1>3, ElementOfSeq
  <2>2. 1 <= n /\ n - 1 + 1 = n /\ \A i \in 1 .. n : 1 + i - 1 = i
    BY <1>3
  <2> QED
    BY <1>3, <2>1, <2>2, SubSeqProperties
<1>5. Last(taken) = taken[n]
  BY <1>4 DEF Last
<1>6. /\ conveyed' = conveyed \o taken
      /\ since' = taken[n].Timestamp /\ lastID' = taken[n].ID
  BY <1>2, <1>5
<1> HIDE DEF taken
<1> QED
  BY <1>2, <1>3, <1>4, <1>6 DEF batch

LEMMA OnEventsKeepsTInv == TInv /\ onEvents /\ UNCHANGED goVars => TInv'
<1> SUFFICES ASSUME TInv, onEvents, UNCHANGED goVars PROVE TInv'
  OBVIOUS
<1>1. /\ isJs /\ Answered("events") /\ pc = "polling" /\ pc' = IF stopped' THEN "ended" ELSE "timer"
      /\ UNCHANGED <<logVars, language, todo, start, begun, movedTo, unread>>
  BY DEF onEvents, Goto, Answered, goVars
<1>2. PICK n \in Nat, taken \in Seq(LogEvent), stopping \in BOOLEAN :
           /\ n \in 1 .. Len(answer[self].events) /\ Len(taken) = n
           /\ conveyed' = conveyed \o taken
           /\ since' = taken[n].Timestamp /\ lastID' = taken[n].ID
           /\ stopped => n = 1 /\ ~stopping
           /\ stopped' = (stopped \/ stopping)
           /\ promised' = IF stopping THEN Len(conveyed) + n ELSE promised
  BY EventsTaken
<1>3. n >= 1 /\ taken[n] \in LogEvent
  BY <1>2, ElementOfSeq
<1>4. /\ conveyed \in Seq(LogEvent) /\ conveyed' \in Seq(LogEvent)
      /\ Len(conveyed') = Len(conveyed) + n /\ Len(conveyed) \in Nat
  BY <1>2, ConcatProperties, LenProperties DEF TInv, LoopOK
<1>5. since' \in Int /\ lastID' \in EventIDs /\ stopped' \in BOOLEAN /\ promised' \in Nat
  <2>1. stopped' \in BOOLEAN
    BY <1>2, Zenon
  <2> QED
    BY <1>2, <1>3, <1>4, <2>1, SequenceFacts DEF LogEvent
<1>6. ServerOK' /\ PollOK' /\ AnswerOK' /\ events' = events
  BY <1>1, AnswerTaken DEF Answered
<1>7. LoopOK'
  BY <1>1, <1>4, <1>5 DEF TInv, LoopOK, StreamTypeOK, isGo, isJs, JsPlaces
<1>8. HistoryOK'
  BY <1>1, <1>5, <1>6 DEF TInv, HistoryOK, logVars
<1>9. StopOK'
  <2>1. CASE stopping
    BY <1>1, <1>2, <1>4, <2>1 DEF StopOK, isGo, isJs
  <2>2. CASE ~stopping /\ stopped
    <3>1. Len(conveyed) <= promised
      BY <1>1, <2>2, SequenceFacts DEF TInv, StopOK, isGo, isJs
    <3>2. n = 1 /\ promised' = promised
      BY <1>2, <2>2
    <3>3. stopped'
      BY <1>2, <2>2, Zenon
    <3>4. pc' = "ended"
      BY <1>1, <3>3
    <3> QED
      BY <1>1, <1>4, <3>1, <3>2, <3>4, SequenceFacts DEF StopOK, isGo, isJs
  <2>3. CASE ~stopping /\ ~stopped
    BY <1>2, <2>3 DEF StopOK
  <2> QED
    BY <2>1, <2>2, <2>3
<1> QED
  BY <1>6, <1>7, <1>8, <1>9 DEF TInv

LEMMA OnErrorKeepsTInv == TInv /\ onError /\ UNCHANGED goVars => TInv'
<1> SUFFICES ASSUME TInv, onError, UNCHANGED goVars PROVE TInv'
  OBVIOUS
<1>1. /\ isJs /\ pc = "polling" /\ answer[self].status # "none" /\ pc' \in {"ended", "timer"}
      /\ UNCHANGED <<logVars, cursorVars, language, todo, conveyed, start, begun, movedTo, unread>>
  BY DEF onError, Goto, Failed, Answered, goVars
<1>2. \/ stopped' = stopped /\ promised' = promised
      \/ stopped' = TRUE /\ promised' = Len(conveyed)
  BY DEF onError
<1>3. stopped' \in BOOLEAN
  <2>1. stopped \in BOOLEAN
    BY DEF TInv, LoopOK, StreamTypeOK
  <2> QED
    BY <1>2, <2>1, Zenon
<1>4. promised' \in Nat
  BY <1>2, SequenceFacts
<1>5. ServerOK' /\ PollOK' /\ AnswerOK' /\ events' = events
  BY <1>1, AnswerTaken
<1>6. UNCHANGED <<now, since, lastID>>
  BY <1>1 DEF logVars, cursorVars
<1>7. LoopOK'
  BY <1>1, <1>3, <1>6 DEF TInv, LoopOK, StreamTypeOK, isGo, isJs, JsPlaces
<1>8. HistoryOK'
  BY <1>1, <1>4, <1>5, <1>6 DEF TInv, HistoryOK
<1>9. StopOK'
  <2>1. ~isGo /\ ~isGo' /\ Len(conveyed) \in Nat /\ promised \in Nat
    BY <1>1, SequenceFacts DEF isGo, isJs
  <2>2. CASE stopped' = stopped /\ promised' = promised
    <3>1. stopped => Len(conveyed) <= promised
      BY <1>1, <2>1 DEF TInv, StopOK
    <3>2. stopped' => Len(conveyed) <= promised
      BY <2>2, <3>1, Zenon
    <3> QED
      BY <1>1, <2>1, <2>2, <3>2 DEF StopOK
  <2>3. CASE stopped' = TRUE /\ promised' = Len(conveyed)
    BY <1>1, <2>1, <2>3 DEF StopOK
  <2> QED
    BY <1>2, <2>2, <2>3
<1> QED
  BY <1>5, <1>7, <1>8, <1>9 DEF TInv

LEMMA StutterKeepsTInv == TInv /\ UNCHANGED streamVars => TInv'
<1> SUFFICES ASSUME TInv, UNCHANGED streamVars PROVE TInv'
  OBVIOUS
<1>1. UNCHANGED <<now, log, poll, answer, events>> /\ UNCHANGED pollVars /\ unread' = unread
  BY DEF streamVars, logVars, goVars, events
<1> USE <1>1 DEF pollVars
<1>2. ServerOK'
  BY ServerFrame DEF TInv, ServerOK
<1>3. PollOK' /\ AnswerOK'
  BY DEF TInv, PollOK, AnswerOK, Wire, Answered
<1>4. LoopOK'
  BY DEF TInv, LoopOK, StreamTypeOK, isGo, isJs
<1>5. HistoryOK' /\ StopOK'
  BY DEF TInv, HistoryOK, StopOK, isGo
<1> QED
  BY <1>2, <1>3, <1>4, <1>5 DEF TInv

LEMMA StepsKeepTInv == TInv /\ [StreamNext]_streamVars => TInv'
<1> SUFFICES ASSUME TInv, [StreamNext]_streamVars PROVE TInv'
  OBVIOUS
<1>1. CASE Publish
  BY <1>1, PublishKeepsTInv
<1>2. CASE Respond \/ TimeOut \/ Break \/ Garble
  BY <1>2, RepliesKeepTInv
<1>3. CASE Clock
  BY <1>3, ClockKeepsTInv
<1>4. CASE Start
  BY <1>4, StartKeepsTInv
<1>5. CASE Stop \/ (stop /\ UNCHANGED goVars)
  BY <1>5, StopKeepsTInv
<1>6. CASE Read
  BY <1>6, ReadKeepsTInv
<1>7. CASE GoClientStep
  BY <1>7, GoLoopKeepsTInv, FetchedEventsKeepsTInv, TakeEventKeepsTInv, SendEventKeepsTInv,
     FetchTimedOutKeepsTInv DEF GoClientStep, GoStep
<1>8. CASE newClient /\ UNCHANGED goVars
  BY <1>8, NewClientKeepsTInv
<1>9. CASE JsClientStep
  BY <1>9, JsLoopKeepsTInv, OnEventsKeepsTInv, OnErrorKeepsTInv DEF JsClientStep, JsStep
<1>10. CASE UNCHANGED streamVars
  BY <1>10, StutterKeepsTInv
<1> QED
  BY <1>1, <1>2, <1>3, <1>4, <1>5, <1>6, <1>7, <1>8, <1>9, <1>10 DEF StreamNext

LEMMA TypeInvariance == StreamSpec => []TInv
<1>1. StreamInit => TInv
  BY InitEstablishesTInv
<1>2. TInv /\ [StreamNext]_streamVars => TInv'
  BY StepsKeepTInv
<1> QED
  BY <1>1, <1>2, PTL DEF StreamSpec

(* Both clients' loops stay where the code has them, with cursors made of  *)
(* event times and IDs, and the channel never holds more than it has room  *)
(* for (client/client.go, js-client/client.js).                            *)
THEOREM StreamTypeCorrect == StreamSpec => []StreamTypeOK
<1>1. TInv => StreamTypeOK
  BY DEF TInv, LoopOK
<1> QED
  BY <1>1, TypeInvariance, PTL

(* After stop the program gets no more than the rest of the answer that    *)
(* was being handed over (Go), or one event (JavaScript), however answers, *)
(* stop and the hand-over overlap.                                         *)
THEOREM StopHeeded == StreamSpec => []StopIsHeeded
<1>1. TInv => StopIsHeeded
  <2> SUFFICES ASSUME TInv, stopped
               PROVE  Len(conveyed) <= promised + (IF isJs THEN 1 ELSE 0)
    BY DEF StopIsHeeded
  <2>1. (isGo /\ ~isJs) \/ (isJs /\ ~isGo)
    BY DEF TInv, LoopOK, StreamTypeOK, isGo, isJs
  <2> QED
    BY <2>1, SequenceFacts DEF TInv, StopOK
<1> QED
  BY <1>1, TypeInvariance, PTL


-----------------------------------------------------------------------------
(* The cursor and what is conveyed.  Times must be such that int64         *)
(* nanoseconds hold them: those on the clock, and those a program asks to  *)
(* poll since unless they are too far ahead.                               *)

TimesFit == MaxTime <= MaxMs /\ \A t \in StartTimes : t - Second >= -MaxMs

Floor == IF isGo THEN start - Second ELSE start

Streams(seq) ==
  /\ IsFlow(seq, events, start, movedTo)
  /\ start <= MaxMs => IsSince(seq, Floor, begun)

Resumes(s) ==
  /\ IsCursor(s, lastID, conveyed, start, movedTo)
  /\ conveyed = <<>> /\ start <= MaxMs => s >= Floor

CursorPlaces == {"loop", "timer", "polling", "events"}

ConveyedOK == Streams(conveyed \o todo)

(* An answer under way goes on where the hand-over has got to.             *)
UnderWayOK == Answered("events") => Streams(conveyed \o answer[self].events)

CursorOK ==
  /\ since >= -MaxMs
  /\ pc \in CursorPlaces => Resumes(since)
  /\ pc = "send" => since = Head(todo).Timestamp /\ lastID = Head(todo).ID

(* The server looks at a poll no earlier than the log had all conveyed.    *)
FromOK == poll[self] # NoPoll => LastPosition(conveyed) <= poll[self].from

SInv == ConveyedOK /\ UnderWayOK /\ CursorOK /\ FromOK

LEMMA NumberFacts ==
  ASSUME TInv
  PROVE  /\ MaxMs \in Nat /\ since \in Int /\ start \in Int /\ Floor \in Int /\ Second \in Nat
         /\ Second > 0 /\ begun \in Nat /\ movedTo \in Nat /\ now \in Nat /\ now <= MaxTime
         /\ movedTo <= now /\ MaxTime \in Nat
<1>1. MaxMs \in Nat
  BY NeverPastMaxMs
<1> QED
  BY <1>1, GoClientAssumption, StreamAssumption
     DEF TInv, ServerOK, HistoryOK, LoopOK, StreamTypeOK, Floor

LEMMA LogFacts ==
  ASSUME TInv
  PROVE  /\ IsLog(events, now) /\ Len(events) \in Nat
         /\ conveyed \in Seq(LogEvent) /\ todo \in Seq(LogEvent)
         /\ conveyed \o <<>> = conveyed
<1>1. conveyed \in Seq(LogEvent)
  BY DEF TInv, LoopOK
<1>2. conveyed \o <<>> = conveyed
  BY <1>1, ConcatEmptySeq
<1> QED
  BY <1>1, <1>2, SequenceFacts DEF TInv, LoopOK, ServerOK, LogOK

LEMMA EmptyStreams ==
  \A l, from, moved, floor, at : IsFlow(<<>>, l, from, moved) /\ IsSince(<<>>, floor, at)
BY DEF IsFlow, IsSince

(* What has been conveyed is as long as the log, and a part of it.         *)
LEMMA ConveyedFacts ==
  ASSUME TInv, SInv
  PROVE  /\ IsFlow(conveyed, events, start, movedTo)
         /\ start <= MaxMs => IsSince(conveyed, Floor, begun)
         /\ LastPosition(conveyed) \in 0 .. Len(events)
         /\ conveyed # <<>> =>
              /\ Len(conveyed) \in 1 .. Len(conveyed)
              /\ conveyed[Len(conveyed)].Timestamp \in 0 .. now
<1>1. IsFlow(conveyed, events, start, movedTo)
  BY LogFacts, FlowConcatPrefix DEF SInv, ConveyedOK, Streams
<1>2. start <= MaxMs => IsSince(conveyed, Floor, begun)
  BY LogFacts, FlowConcatPrefix DEF SInv, ConveyedOK, Streams
<1>3. ASSUME conveyed # <<>> PROVE Len(conveyed) \in 1 .. Len(conveyed)
  BY <1>3, EmptySeq, LogFacts
<1>4. LastPosition(conveyed) \in 0 .. Len(events)
  BY <1>1, <1>3, LogFacts DEF IsFlow, LastPosition
<1>5. ASSUME conveyed # <<>> PROVE conveyed[Len(conveyed)].Timestamp \in 0 .. now
  <2>1. PICK i \in 1 .. Len(events) : conveyed[Len(conveyed)] = events[i]
    BY <1>1, <1>3, <1>5 DEF IsFlow
  <2>2. now \in Int
    BY NumberFacts
  <2>3. events[i].Timestamp \in Nat /\ events[i].Timestamp <= now
    BY <2>2, LogFacts, LogProperties
  <2> QED
    BY <2>1, <2>2, <2>3
<1> QED
  BY <1>1, <1>2, <1>3, <1>4, <1>5

LEMMA InitEstablishesSInv == StreamInit => SInv
<1> SUFFICES ASSUME StreamInit PROVE SInv
  OBVIOUS
<1>1. /\ conveyed = <<>> /\ todo = <<>> /\ pc = "new" /\ since = 0
      /\ poll[self] = NoPoll
  BY PollClientAssumption DEF StreamInit, PollInit
<1>2. conveyed \o todo = <<>>
  BY <1>1, InitEstablishesTInv, LogFacts
<1>3. ConveyedOK
  BY <1>2, EmptyStreams DEF ConveyedOK, Streams
<1>4. CursorOK
  <2>1. MaxMs \in Nat
    BY NeverPastMaxMs
  <2> QED
    BY <1>1, <2>1 DEF CursorOK, CursorPlaces
<1> QED
  BY <1>1, <1>3, <1>4 DEF SInv, UnderWayOK, Answered, FromOK

(* Off the poll there is neither one to look at nor an answer.             *)
LEMMA NotPolling ==
  ASSUME TInv', pc' # "polling"
  PROVE  UnderWayOK' /\ FromOK'
BY DEF TInv, PollOK, UnderWayOK, FromOK, Answered

(* A poll that has just been sent.                                         *)
LEMMA Polling ==
  ASSUME TInv, SInv, TInv', SendPoll(since', lastID'), conveyed' = conveyed
  PROVE  UnderWayOK' /\ FromOK'
<1>1. self \in Clients /\ DOMAIN poll = Clients /\ DOMAIN answer = Clients
  BY PollClientAssumption DEF TInv, ServerOK
<1>2. answer'[self].status = "none" /\ poll'[self].from = Len(events)
  BY <1>1 DEF SendPoll, Ask, events
<1> QED
  BY <1>2, ConveyedFacts DEF UnderWayOK, Answered, FromOK

streamState == <<log, language, conveyed, todo, start, begun, movedTo>>

(* Nothing the cursor or the conveyed events depend on has changed.        *)
LEMMA StreamFrame ==
  ASSUME SInv, UNCHANGED streamState
  PROVE  /\ ConveyedOK' /\ Floor' = Floor /\ events' = events
         /\ \A seq : Streams(seq)' <=> Streams(seq)
<1>1. events' = events /\ Floor' = Floor
  BY DEF streamState, events, Floor, isGo
<1> QED
  BY <1>1 DEF SInv, ConveyedOK, Streams, streamState

LEMMA CursorFrame ==
  ASSUME SInv, UNCHANGED <<streamState, cursorVars>>,
         pc' \in CursorPlaces => pc \in CursorPlaces, pc' # "send"
  PROVE  ConveyedOK' /\ CursorOK'
<1>1. ConveyedOK' /\ Floor' = Floor
  BY StreamFrame
<1>2. UNCHANGED <<since, lastID, conveyed, todo, start, movedTo>>
  BY DEF cursorVars, streamState
<1>3. CursorOK'
  BY <1>1, <1>2 DEF SInv, CursorOK, Resumes, CursorPlaces
<1> QED
  BY <1>1, <1>3

LEMMA WaitingFrame ==
  ASSUME SInv, UNCHANGED <<streamState, cursorVars, pc, poll, answer>>
  PROVE  SInv'
<1>1. ConveyedOK' /\ Floor' = Floor /\ \A seq : Streams(seq)' <=> Streams(seq)
  BY StreamFrame
<1>2. UNCHANGED <<since, lastID, conveyed, todo, start, movedTo>>
  BY DEF cursorVars, streamState
<1>3. CursorOK'
  BY <1>1, <1>2 DEF SInv, CursorOK, Resumes, CursorPlaces
<1>4. UnderWayOK'
  BY <1>1, <1>2 DEF SInv, UnderWayOK, Answered, Streams, streamState
<1>5. FromOK'
  BY <1>2 DEF SInv, FromOK
<1> QED
  BY <1>1, <1>3, <1>4, <1>5 DEF SInv


LEMMA PublishKeepsSInv == TInv /\ SInv /\ Publish => SInv'
<1> SUFFICES ASSUME TInv, SInv, Publish PROVE SInv'
  OBVIOUS
<1>1. /\ ClientUnchanged /\ UNCHANGED <<now, poll, answer>>
      /\ Len(events) \in Nat /\ Len(events)' = Len(events) + 1
      /\ \A i \in 1 .. Len(events) : events'[i] = events[i]
  BY PublishAppends
<1> USE DEF ClientUnchanged, clientVars, pollVars
<1>2. ASSUME NEW seq, Streams(seq) PROVE Streams(seq)'
  <2>1. IsFlow(seq, events', start, movedTo)
    <3>1. now \in Int /\ start \in Int /\ movedTo \in Int /\ IsLog(events, now)
      BY NumberFacts, LogFacts
    <3>2. Len(events') \in Nat /\ Len(events) <= Len(events') /\ movedTo <= movedTo
      BY <1>1, <3>1
    <3> QED
      BY <1>1, <1>2, <3>1, <3>2, FlowKept DEF Streams
  <2> QED
    BY <1>1, <1>2, <2>1 DEF Streams, Floor, isGo
<1>3. ConveyedOK'
  BY <1>1, <1>2 DEF SInv, ConveyedOK, Streams
<1>4. UnderWayOK'
  BY <1>1, <1>2 DEF SInv, UnderWayOK, Answered, Streams
<1>5. CursorOK' /\ FromOK'
  BY <1>1 DEF SInv, CursorOK, Resumes, FromOK, Floor, isGo
<1> QED
  BY <1>3, <1>4, <1>5 DEF SInv

LEMMA QuietStepsKeepSInv ==
  ASSUME SInv,
         \/ Clock \/ Read \/ Stop
         \/ stop /\ UNCHANGED goVars
         \/ UNCHANGED streamVars
  PROVE  SInv'
<1>1. UNCHANGED <<streamState, cursorVars, pc, poll, answer>>
  BY DEF streamState, cursorVars, streamVars, clientVars, pollVars, logVars, Clock, Tick, Read,
         Stop, stop
<1> QED
  BY <1>1, WaitingFrame

LEMMA RefusalsKeepSInv == TInv /\ SInv /\ (TimeOut \/ Break \/ Garble) => SInv'
<1> SUFFICES ASSUME TInv, SInv, TimeOut \/ Break \/ Garble PROVE SInv'
  OBVIOUS
<1>1. /\ ClientUnchanged /\ log' = log
      /\ poll' = [poll EXCEPT ![self] = NoPoll]
      /\ \E response : /\ response.status # "events"
                       /\ answer' = [answer EXCEPT ![self] = response]
  <2>1. ASSUME TimeOut PROVE \E response : /\ response.status # "events"
                                           /\ answer' = [answer EXCEPT ![self] = response]
    <3>1. [status |-> "timeout", timestamp |-> now].status # "events"
      OBVIOUS
    <3> QED
      BY <2>1, <3>1 DEF TimeOut, AnswerTimeout, Reply
  <2>2. ASSUME Break PROVE \E response : /\ response.status # "events"
                                         /\ answer' = [answer EXCEPT ![self] = response]
    <3>1. PICK status \in {"error", "gone"} : Reply(self, [status |-> status])
      BY <2>2 DEF Break, Fail
    <3>2. [status |-> status].status # "events"
      OBVIOUS
    <3> QED
      BY <3>1, <3>2 DEF Reply
  <2>3. ASSUME Garble PROVE \E response : /\ response.status # "events"
                                          /\ answer' = [answer EXCEPT ![self] = response]
    <3>1. [status |-> "garbled"].status # "events"
      OBVIOUS
    <3> QED
      BY <2>3, <3>1 DEF Garble, Reply
  <2> QED
    BY <2>1, <2>2, <2>3 DEF TimeOut, AnswerTimeout, Break, Fail, Garble, Reply, ClientUnchanged
<1>2. self \in Clients /\ DOMAIN poll = Clients /\ DOMAIN answer = Clients
  BY PollClientAssumption DEF TInv, ServerOK
<1>3. poll'[self] = NoPoll /\ answer'[self].status # "events"
  BY <1>1, <1>2
<1>4. UNCHANGED <<streamState, cursorVars>> /\ pc' = pc
  BY <1>1 DEF ClientUnchanged, clientVars, pollVars, streamState, cursorVars
<1>5. ConveyedOK' /\ CursorOK'
  <2>1. CASE pc # "send"
    BY <1>4, <2>1, CursorFrame
  <2>2. CASE pc = "send"
    BY <1>4, <2>2, StreamFrame DEF SInv, CursorOK, Resumes, CursorPlaces, streamState, cursorVars
  <2> QED
    BY <2>1, <2>2
<1>6. UnderWayOK' /\ FromOK'
  BY <1>3 DEF UnderWayOK, Answered, FromOK
<1> QED
  BY <1>5, <1>6 DEF SInv

(* The cursor stays one on its way through the server's nanoseconds.       *)
LEMMA WireKeepsCursor ==
  ASSUME TimesFit, TInv, SInv, pc = "polling"
  PROVE  Wire(since) \in Int /\ Resumes(Wire(since))
<1> DEFINE w == Wire(since)
<1>1. w \in Int /\ w <= MaxMs /\ MaxMs \in Nat
  BY NumberFacts, NeverPastMaxMs DEF Wire
<1>2. since >= -MaxMs /\ Resumes(since)
  BY DEF SInv, CursorOK, CursorPlaces
<1>3. since <= MaxMs => w = since
  BY <1>2, NumberFacts, RoundTrip DEF Wire
<1>4. movedTo <= MaxMs /\ now <= MaxMs
  BY NumberFacts DEF TimesFit
<1>5. CASE since <= MaxMs
  BY <1>1, <1>2, <1>3, <1>5
<1>6. CASE since > MaxMs
  <2>1. conveyed = <<>>
    <3>1. ASSUME conveyed # <<>> PROVE since <= MaxMs
      BY <1>2, <1>4, <3>1, ConveyedFacts, NumberFacts DEF Resumes, IsCursor
    <3> QED
      BY <1>1, <1>6, <3>1, NumberFacts
  <2>2. lastID = NoID /\ since <= start
    BY <1>2, <1>4, <1>6, <2>1, NumberFacts DEF Resumes, IsCursor
  <2>3. w <= start /\ ~(start <= MaxMs)
    BY <1>1, <1>6, <2>2, NumberFacts
  <2> HIDE DEF w
  <2>4. Resumes(w)
    BY <2>1, <2>2, <2>3 DEF Resumes, IsCursor
  <2> QED
    BY <1>1, <2>4 DEF w
<1> QED
  BY <1>1, <1>5, <1>6, NumberFacts

LEMMA RespondKeepsSInv == TimesFit /\ TInv /\ SInv /\ Respond => SInv'
<1> SUFFICES ASSUME TimesFit, TInv, SInv, Respond PROVE SInv'
  OBVIOUS
<1>1. PICK batch, n, a, b :
        /\ n \in poll[self].from .. Len(events) /\ a \in Nat /\ b \in Nat
        /\ batch \in Seq(LogEvent) \ {<<>>}
        /\ IsAnswer(batch, events, Wire(since), lastID, n, a, b)
        /\ answer' = [answer EXCEPT ![self] = [status |-> "events", events |-> batch]]
  BY RespondAnswers
<1>2. /\ ClientUnchanged /\ log' = log /\ poll[self] # NoPoll
      /\ poll' = [poll EXCEPT ![self] = NoPoll]
  BY RespondAnswers
<1>3. self \in Clients /\ DOMAIN poll = Clients /\ DOMAIN answer = Clients
  BY PollClientAssumption DEF TInv, ServerOK
<1>4. /\ pc = "polling" /\ poll[self].from \in begun .. Len(events)
      /\ LastPosition(conveyed) <= poll[self].from
  BY <1>2 DEF TInv, PollOK, SInv, FromOK
<1>5. /\ n \in 0 .. Len(events) /\ begun \in 0 .. n /\ LastPosition(conveyed) <= n
  <2>1. begun \in Nat /\ Len(events) \in Nat /\ LastPosition(conveyed) \in Int
    BY NumberFacts, LogFacts, ConveyedFacts
  <2> QED
    BY <1>1, <1>4, <2>1
<1>6. Streams(conveyed \o batch)
  <2>1. /\ Wire(since) \in Int
        /\ IsCursor(Wire(since), lastID, conveyed, start, movedTo)
        /\ conveyed = <<>> /\ start <= MaxMs => Wire(since) >= Floor
    BY <1>4, WireKeepsCursor DEF Resumes
  <2>2. now \in Int /\ start \in Int /\ movedTo \in Int /\ Floor \in Int /\ IsLog(events, now)
    BY NumberFacts, LogFacts
  <2>3. IsFlow(conveyed, events, start, movedTo)
    BY ConveyedFacts
  <2>4. IsFlow(conveyed \o batch, events, start, movedTo)
    BY <1>1, <1>5, <2>1, <2>2, <2>3, FlowExtended
  <2>5. ASSUME start <= MaxMs PROVE IsSince(conveyed \o batch, Floor, begun)
    <3>1. IsSince(conveyed, Floor, begun)
      BY <2>5, ConveyedFacts
    <3>2. conveyed = <<>> => Wire(since) >= Floor
      BY <2>1, <2>5
    <3> QED
      BY <1>1, <1>5, <2>1, <2>2, <2>3, <3>1, <3>2, SinceExtended
  <2> QED
    BY <2>4, <2>5 DEF Streams
<1>7. UNCHANGED <<streamState, cursorVars>> /\ pc' = pc
  BY <1>2 DEF ClientUnchanged, clientVars, pollVars, streamState, cursorVars
<1>8. ConveyedOK' /\ CursorOK'
  BY <1>4, <1>7, CursorFrame
<1>9. UnderWayOK'
  <2>1. answer'[self].events = batch /\ conveyed' = conveyed
    BY <1>1, <1>3, <1>7 DEF streamState
  <2>2. Streams(conveyed \o batch)'
    BY <1>6, <1>7, <2>1, StreamFrame DEF Streams, streamState
  <2> QED
    BY <2>1, <2>2 DEF UnderWayOK, Streams
<1>10. FromOK'
  BY <1>2, <1>3 DEF FromOK
<1> QED
  BY <1>8, <1>9, <1>10 DEF SInv


LEMMA StartKeepsSInv == TimesFit /\ TInv /\ SInv /\ TInv' /\ Start => SInv'
<1> SUFFICES ASSUME TimesFit, TInv, SInv, TInv', Start PROVE SInv'
  OBVIOUS
<1>1. PICK pollSince \in StartTimes \cup {now} :
        start' = pollSince /\ since' = (pollSince \div Second) * Second
  BY DEF Start
<1>2. /\ isGo /\ isGo' /\ pc = "new" /\ pc' = "loop"
      /\ UNCHANGED <<lastID, todo, conveyed>>
  BY DEF Start, Goto, isGo
<1>3. conveyed = <<>> /\ todo = <<>> /\ lastID = NoID /\ conveyed' \o todo' = <<>>
  BY <1>2, LogFacts DEF TInv, HistoryOK, LoopOK
<1>4. pollSince \in Int /\ Second \in Nat \ {0}
  BY NumberFacts, StreamAssumption, GoClientAssumption
<1>5. since' \in Int /\ since' <= pollSince /\ since' > pollSince - Second
  BY <1>1, <1>4, DivMod
<1>6. MaxMs \in Nat
  BY NumberFacts
<1>7. ConveyedOK'
  BY <1>3, EmptyStreams DEF ConveyedOK, Streams
<1>8. CursorOK'
  <2>1. IsCursor(since, lastID, conveyed, start, movedTo)'
    BY <1>1, <1>2, <1>3, <1>5 DEF IsCursor
  <2>2. since' >= Floor'
    BY <1>1, <1>2, <1>4, <1>5 DEF Floor
  <2>3. since' >= -MaxMs
    <3>1. CASE pollSince \in StartTimes
      BY <1>4, <1>5, <1>6, <3>1 DEF TimesFit
    <3>2. CASE pollSince = now
      <4>1. pollSince >= 0 /\ 0 \div Second = 0
        BY <1>4, <3>2, DivOfMultiple, NumberFacts
      <4>2. pollSince \div Second >= 0 /\ pollSince \div Second \in Int
        <5>1. 0 \div Second <= pollSince \div Second
          BY <1>4, <4>1, DivMonotone
        <5>2. pollSince \div Second \in Int
          BY <1>4, DivMod
        <5> QED
          BY <4>1, <5>1, <5>2
      <4>3. 0 * Second <= since' /\ 0 * Second = 0
        BY <1>1, <1>4, <4>2, MultipleMonotone
      <4> QED
        BY <1>5, <1>6, <4>3
    <3> QED
      BY <3>1, <3>2
  <2> QED
    BY <1>2, <2>1, <2>2, <2>3 DEF CursorOK, Resumes
<1> QED
  BY <1>2, <1>7, <1>8, NotPolling DEF SInv

LEMMA NewClientKeepsSInv == TimesFit /\ TInv /\ SInv /\ TInv' /\ newClient => SInv'
<1> SUFFICES ASSUME TimesFit, TInv, SInv, TInv', newClient PROVE SInv'
  OBVIOUS
<1>1. PICK sinceTime \in StartTimes \cup {now} :
        /\ sinceTime > 0 /\ start' = sinceTime /\ since' = sinceTime
        /\ SendPoll(sinceTime, lastID)
  BY DEF newClient
<1>2. /\ isJs /\ ~isGo' /\ pc = "new" /\ pc' = "polling"
      /\ UNCHANGED <<lastID, todo, conveyed>>
  BY DEF newClient, Goto, isGo, isJs
<1>3. conveyed = <<>> /\ todo = <<>> /\ lastID = NoID /\ conveyed' \o todo' = <<>>
  BY <1>2, LogFacts DEF TInv, HistoryOK, LoopOK
<1>4. sinceTime \in Int /\ MaxMs \in Nat
  BY NumberFacts, StreamAssumption
<1>5. ConveyedOK'
  BY <1>3, EmptyStreams DEF ConveyedOK, Streams
<1>6. CursorOK'
  <2>1. IsCursor(since, lastID, conveyed, start, movedTo)'
    BY <1>1, <1>2, <1>3, <1>4 DEF IsCursor
  <2>2. since' >= Floor' /\ since' >= -MaxMs
    BY <1>1, <1>2, <1>4 DEF Floor
  <2> QED
    BY <1>2, <2>1, <2>2 DEF CursorOK, Resumes
<1>7. UnderWayOK' /\ FromOK'
  <2>1. SendPoll(since', lastID')
    BY <1>1, <1>2
  <2> QED
    BY <1>2, <2>1, Polling
<1> QED
  BY <1>5, <1>6, <1>7 DEF SInv

(* Steps that change nothing but where the loop is, and poll perhaps.      *)
LEMMA LoopKeepsSInv ==
  ASSUME TInv, SInv, TInv',
         \/ Fetch \/ FetchFailed \/ AllSent \/ poll_ \/ onTimeout \/ onError \/ onGarbled
  PROVE  SInv'
<1>1. /\ UNCHANGED <<log, language, conveyed, todo, start, begun, movedTo, cursorVars>>
      /\ pc \in CursorPlaces /\ pc' # "send"
  BY DEF Fetch, FetchFailed, AllSent, poll_, onTimeout, onError, onGarbled, IfNotQuit, Goto,
         historyVars, logVars, SendPoll, Ask, Answered, Failed, CursorPlaces
<1>2. ConveyedOK' /\ CursorOK'
  BY <1>1, CursorFrame DEF streamState
<1>3. CASE pc' = "polling"
  <2>1. SendPoll(since, lastID)
    BY <1>3 DEF Fetch, FetchFailed, AllSent, poll_, onTimeout, onError, onGarbled, IfNotQuit, Goto
  <2>2. SendPoll(since', lastID') /\ conveyed' = conveyed
    BY <1>1, <2>1 DEF cursorVars
  <2> QED
    BY <1>2, <2>2, Polling DEF SInv
<1>4. CASE pc' # "polling"
  BY <1>2, <1>4, NotPolling DEF SInv
<1> QED
  BY <1>3, <1>4

LEMMA FetchedEventsKeepsSInv == TInv /\ SInv /\ TInv' /\ FetchedEvents => SInv'
<1> SUFFICES ASSUME TInv, SInv, TInv', FetchedEvents PROVE SInv'
  OBVIOUS
<1>1. /\ pc = "polling" /\ Answered("events") /\ pc' \in {"ended", "events"}
      /\ todo' = IF stopped THEN <<>> ELSE answer[self].events
      /\ UNCHANGED <<log, language, conveyed, start, begun, movedTo, since, lastID>>
  BY DEF FetchedEvents, IfNotQuit, Goto, historyVars, logVars, cursorVars, Answered
<1>2. todo = <<>>
  BY <1>1 DEF TInv, LoopOK
<1>3. Streams(conveyed \o todo')
  BY <1>1, <1>2 DEF SInv, ConveyedOK, UnderWayOK
<1>4. events' = events /\ Floor' = Floor
  BY <1>1 DEF events, Floor, isGo
<1>5. ConveyedOK'
  BY <1>1, <1>3, <1>4 DEF ConveyedOK, Streams
<1>6. CursorOK'
  BY <1>1, <1>4 DEF SInv, CursorOK, CursorPlaces, Resumes
<1> QED
  BY <1>1, <1>5, <1>6, NotPolling DEF SInv

LEMMA TakeEventKeepsSInv == TInv /\ SInv /\ TInv' /\ TakeEvent => SInv'
<1> SUFFICES ASSUME TInv, SInv, TInv', TakeEvent PROVE SInv'
  OBVIOUS
<1>1. /\ pc = "events" /\ pc' \in {"ended", "send"} /\ todo # <<>>
      /\ since' = Head(todo).Timestamp /\ lastID' = Head(todo).ID
      /\ UNCHANGED <<log, language, conveyed, todo, start, begun, movedTo>>
  BY DEF TakeEvent, IfNotQuit, Goto, historyVars, logVars
<1>2. ConveyedOK'
  BY <1>1, StreamFrame DEF streamState
<1>3. Head(todo).Timestamp \in Nat
  <2>1. Head(todo) \in LogEvent
    BY <1>1, HeadTailProperties, LogFacts
  <2> QED
    BY <2>1 DEF LogEvent
<1>4. CursorOK'
  BY <1>1, <1>3, NumberFacts DEF CursorOK, CursorPlaces
<1> QED
  BY <1>1, <1>2, <1>4, NotPolling DEF SInv

LEMMA HandOver ==
  ASSUME NEW seq \in Seq(LogEvent), NEW rest \in Seq(LogEvent), rest # <<>>
  PROVE  Append(seq, Head(rest)) \o Tail(rest) = seq \o rest
<1> DEFINE h == Head(rest)
           t == Tail(rest)
<1>1. h \in LogEvent /\ t \in Seq(LogEvent) /\ <<h>> \in Seq(LogEvent)
  BY HeadTailProperties
<1>2. <<h>> \o t = rest
  <2>1. /\ Len(<<h>>) = 1 /\ <<h>>[1] = rest[1]
        /\ Len(t) = Len(rest) - 1 /\ \A i \in 1 .. Len(t) : t[i] = rest[i + 1]
        /\ Len(rest) \in Nat
    BY HeadTailProperties, LenProperties
  <2> HIDE DEF h, t
  <2>2. /\ <<h>> \o t \in Seq(LogEvent) /\ Len(<<h>> \o t) = 1 + Len(t)
        /\ \A i \in 1 .. 1 + Len(t) : (<<h>> \o t)[i] = IF i <= 1 THEN <<h>>[i] ELSE t[i - 1]
    BY <1>1, <2>1, ConcatProperties
  <2>3. ASSUME NEW i \in 1 .. Len(rest) PROVE (<<h>> \o t)[i] = rest[i]
    <3>1. i \in 1 .. 1 + Len(t)
      BY <2>1
    <3>2. CASE i = 1
      BY <2>1, <2>2, <3>1, <3>2
    <3>3. CASE i # 1
      <4>1. i - 1 \in 1 .. Len(t) /\ (i - 1) + 1 = i /\ ~(i <= 1)
        BY <2>1, <3>1, <3>3
      <4> QED
        BY <2>1, <2>2, <3>1, <4>1
    <3> QED
      BY <3>2, <3>3
  <2>4. Len(<<h>> \o t) = Len(rest)
    BY <2>1, <2>2
  <2> QED
    BY <2>2, <2>3, <2>4, SeqEqual
<1>3. Append(seq, h) = seq \o <<h>>
  BY <1>1, AppendIsConcat
<1>4. (seq \o <<h>>) \o t = seq \o (<<h>> \o t)
  BY <1>1, ConcatAssociative
<1> QED
  BY <1>2, <1>3, <1>4

LEMMA SendEventKeepsSInv == TInv /\ SInv /\ TInv' /\ SendEvent => SInv'
<1> SUFFICES ASSUME TInv, SInv, TInv', SendEvent PROVE SInv'
  OBVIOUS
<1>1. /\ pc = "send" /\ pc' = "events" /\ todo # <<>>
      /\ conveyed' = Append(conveyed, Head(todo)) /\ todo' = Tail(todo)
      /\ UNCHANGED <<log, language, start, begun, movedTo, since, lastID>>
  BY DEF SendEvent, Goto, historyVars, logVars, cursorVars, TInv, LoopOK
<1>2. conveyed' \o todo' = conveyed \o todo
  BY <1>1, LogFacts, HandOver
<1>3. events' = events /\ Floor' = Floor
  BY <1>1 DEF events, Floor, isGo
<1>4. ConveyedOK'
  BY <1>1, <1>2, <1>3 DEF SInv, ConveyedOK, Streams
<1>5. /\ conveyed' # <<>> /\ conveyed'[Len(conveyed')] = Head(todo)
  <2>1. Head(todo) \in LogEvent /\ conveyed \in Seq(LogEvent) /\ Len(conveyed) \in Nat
    BY <1>1, HeadTailProperties, LogFacts, LenProperties
  <2>2. Len(conveyed') = Len(conveyed) + 1 /\ conveyed'[Len(conveyed) + 1] = Head(todo)
    BY <1>1, <2>1, AppendProperties
  <2>3. conveyed' # <<>>
    BY <2>1, <2>2
  <2> QED
    BY <2>2, <2>3
<1>6. CursorOK'
  <2>1. /\ since = Head(todo).Timestamp /\ lastID = Head(todo).ID /\ since >= -MaxMs
    BY <1>1 DEF SInv, CursorOK
  <2>2. IsCursor(since, lastID, conveyed, start, movedTo)'
    BY <1>1, <1>5, <2>1 DEF IsCursor
  <2> QED
    BY <1>1, <1>5, <2>1, <2>2 DEF CursorOK, Resumes
<1> QED
  BY <1>1, <1>4, <1>6, NotPolling DEF SInv

LEMMA FetchTimedOutKeepsSInv == TInv /\ SInv /\ TInv' /\ FetchTimedOut => SInv'
<1> SUFFICES ASSUME TInv, SInv, TInv', FetchTimedOut PROVE SInv'
  OBVIOUS
<1>1. /\ Answered("timeout") /\ pc = "polling" /\ pc' \in {"ended", "loop"}
      /\ IF ~stopped /\ answer[self].timestamp > since
         THEN since' = answer[self].timestamp /\ movedTo' = answer[self].timestamp
         ELSE UNCHANGED <<since, movedTo>>
      /\ UNCHANGED <<log, language, lastID, todo, conveyed, start, begun>>
  BY DEF FetchTimedOut, IfNotQuit, Goto, Answered, logVars
<1>2. CASE UNCHANGED <<since, movedTo>>
  <2>1. ConveyedOK' /\ CursorOK'
    BY <1>1, <1>2, CursorFrame DEF streamState, cursorVars, CursorPlaces
  <2> QED
    BY <1>1, <2>1, NotPolling DEF SInv
<1>3. CASE /\ answer[self].timestamp > since
           /\ since' = answer[self].timestamp /\ movedTo' = answer[self].timestamp
  <2>1. answer[self].timestamp \in movedTo .. now
    BY <1>1 DEF TInv, AnswerOK
  <2>2. /\ since' \in Int /\ movedTo' = since' /\ since' > since /\ movedTo <= movedTo'
        /\ since \in Int /\ start \in Int /\ movedTo \in Int /\ MaxMs \in Nat /\ now \in Int
        /\ Floor \in Int
    BY <1>3, <2>1, NumberFacts
  <2>3. events' = events /\ Floor' = Floor
    BY <1>1 DEF events, Floor, isGo
  <2>4. ConveyedOK'
    <3>1. IsFlow(conveyed \o todo, events, start, movedTo)
      BY DEF SInv, ConveyedOK, Streams
    <3>2. Len(events) <= Len(events) /\ IsLog(events, now) /\ Len(events) \in Nat
      BY LogFacts
    <3>3. IsFlow(conveyed \o todo, events, start, movedTo')
      BY <2>2, <3>1, <3>2, FlowKept
    <3> QED
      BY <1>1, <2>3, <3>3 DEF SInv, ConveyedOK, Streams
  <2>5. CursorOK'
    <3>1. since >= -MaxMs /\ Resumes(since)
      BY <1>1 DEF SInv, CursorOK, CursorPlaces
    <3>2. conveyed # <<>> => conveyed[Len(conveyed)].Timestamp \in Nat
      BY ConveyedFacts, NumberFacts
    <3>3. Resumes(since)'
      BY <1>1, <2>2, <2>3, <3>1, <3>2 DEF Resumes, IsCursor
    <3> QED
      BY <1>1, <2>2, <3>1, <3>3 DEF CursorOK
  <2> QED
    BY <1>1, <2>4, <2>5, NotPolling DEF SInv
<1> QED
  BY <1>1, <1>2, <1>3

LEMMA OnEventsKeepsSInv == TInv /\ SInv /\ TInv' /\ onEvents => SInv'
<1> SUFFICES ASSUME TInv, SInv, TInv', onEvents PROVE SInv'
  OBVIOUS
<1>1. /\ Answered("events") /\ pc = "polling" /\ pc' \in {"ended", "timer"}
      /\ UNCHANGED <<log, language, todo, start, begun, movedTo>> /\ todo = <<>>
  BY DEF onEvents, Goto, Answered, logVars, TInv, LoopOK
<1> DEFINE batch == answer[self].events
<1>2. PICK n \in Nat, taken \in Seq(LogEvent) :
           /\ n \in 1 .. Len(batch) /\ Len(taken) = n
           /\ \A i \in 1 .. n : taken[i] = batch[i]
           /\ conveyed' = conveyed \o taken
           /\ since' = taken[n].Timestamp /\ lastID' = taken[n].ID
  BY EventsTaken
<1>3. conveyed \in Seq(LogEvent) /\ batch \in Seq(LogEvent) /\ Streams(conveyed \o batch)
  BY <1>1 DEF TInv, LoopOK, AnswerOK, SInv, UnderWayOK
<1> HIDE DEF batch
<1>4. /\ conveyed' \in Seq(LogEvent) /\ Len(conveyed') = Len(conveyed) + n
      /\ \A i \in 1 .. Len(conveyed) + n :
           conveyed'[i] = IF i <= Len(conveyed) THEN conveyed[i] ELSE taken[i - Len(conveyed)]
      /\ Len(conveyed \o batch) = Len(conveyed) + Len(batch)
      /\ \A i \in 1 .. Len(conveyed) + Len(batch) :
           (conveyed \o batch)[i] = IF i <= Len(conveyed) THEN conveyed[i]
                                    ELSE batch[i - Len(conveyed)]
      /\ Len(conveyed) \in Nat /\ Len(batch) \in Nat
  <2>1. Len(conveyed) \in Nat /\ Len(batch) \in Nat
    BY <1>3, LenProperties
  <2>2. /\ conveyed \o taken \in Seq(LogEvent) /\ Len(conveyed \o taken) = Len(conveyed) + n
        /\ \A i \in 1 .. Len(conveyed) + n : (conveyed \o taken)[i] =
              IF i <= Len(conveyed) THEN conveyed[i] ELSE taken[i - Len(conveyed)]
    BY <1>2, <1>3, ConcatProperties
  <2>3. /\ Len(conveyed \o batch) = Len(conveyed) + Len(batch)
        /\ \A i \in 1 .. Len(conveyed) + Len(batch) : (conveyed \o batch)[i] =
              IF i <= Len(conveyed) THEN conveyed[i] ELSE batch[i - Len(conveyed)]
    BY <1>3, ConcatProperties
  <2> QED
    BY <1>2, <2>1, <2>2, <2>3
<1>5. /\ Len(conveyed') <= Len(conveyed \o batch)
      /\ \A i \in 1 .. Len(conveyed') : conveyed'[i] = (conveyed \o batch)[i]
  <2>1. ASSUME NEW i \in 1 .. Len(conveyed) + n PROVE conveyed'[i] = (conveyed \o batch)[i]
    <3>1. i \in 1 .. Len(conveyed) + Len(batch)
      BY <1>2, <1>4
    <3>2. i <= Len(conveyed) \/ (~(i <= Len(conveyed)) /\ i - Len(conveyed) \in 1 .. n)
      BY <1>4
    <3> QED
      BY <1>2, <1>4, <3>1, <3>2
  <2> QED
    BY <1>2, <1>4, <2>1
<1>6. Streams(conveyed')
  BY <1>3, <1>4, <1>5, FlowPrefix DEF Streams
<1>7. ConveyedOK'
  <2>1. conveyed' \o todo' = conveyed'
    BY <1>1, <1>4, ConcatEmptySeq
  <2>2. events' = events /\ Floor' = Floor
    BY <1>1 DEF events, Floor, isGo
  <2> QED
    BY <1>1, <1>6, <2>1, <2>2 DEF ConveyedOK, Streams
<1>8. conveyed' # <<>> /\ conveyed'[Len(conveyed')] = taken[n] /\ taken[n].Timestamp \in Nat
  <2>1. Len(conveyed) + n \in 1 .. Len(conveyed) + n /\ ~(Len(conveyed) + n <= Len(conveyed))
        /\ Len(conveyed) + n - Len(conveyed) = n /\ n \in 1 .. Len(taken)
    BY <1>2, <1>4
  <2>2. taken[n] \in LogEvent
    BY <2>1, ElementOfSeq
  <2>3. conveyed' # <<>>
    BY <1>4, <2>1
  <2> QED
    BY <1>4, <2>1, <2>2, <2>3 DEF LogEvent
<1>9. CursorOK'
  <2>1. IsCursor(since, lastID, conveyed, start, movedTo)'
    BY <1>2, <1>8 DEF IsCursor
  <2>2. since' >= -MaxMs
    BY <1>2, <1>8, NumberFacts
  <2> QED
    BY <1>1, <1>8, <2>1, <2>2 DEF CursorOK, Resumes
<1> QED
  BY <1>1, <1>7, <1>9, NotPolling DEF SInv


LEMMA StepsKeepSInv == TimesFit /\ TInv /\ SInv /\ [StreamNext]_streamVars => SInv'
<1> SUFFICES ASSUME TimesFit, TInv, SInv, [StreamNext]_streamVars PROVE SInv'
  OBVIOUS
<1>1. TInv'
  BY StepsKeepTInv
<1>2. CASE Publish
  BY <1>2, PublishKeepsSInv
<1>3. CASE Respond
  BY <1>3, RespondKeepsSInv
<1>4. CASE TimeOut \/ Break \/ Garble
  BY <1>4, RefusalsKeepSInv
<1>5. CASE \/ Clock \/ Read \/ Stop
           \/ stop /\ UNCHANGED goVars
           \/ UNCHANGED streamVars
  BY <1>5, QuietStepsKeepSInv
<1>6. CASE Start
  BY <1>1, <1>6, StartKeepsSInv
<1>7. CASE newClient
  BY <1>1, <1>7, NewClientKeepsSInv
<1>8. CASE GoClientStep
  BY <1>1, <1>8, LoopKeepsSInv, FetchedEventsKeepsSInv, TakeEventKeepsSInv, SendEventKeepsSInv,
     FetchTimedOutKeepsSInv DEF GoClientStep, GoStep
<1>9. CASE JsClientStep
  BY <1>1, <1>9, LoopKeepsSInv, OnEventsKeepsSInv DEF JsClientStep, JsStep
<1> QED
  BY <1>2, <1>3, <1>4, <1>5, <1>6, <1>7, <1>8, <1>9 DEF StreamNext

LEMMA StreamInvariance == ASSUME TimesFit PROVE StreamSpec => [](TInv /\ SInv)
<1>1. StreamInit => TInv /\ SInv
  BY InitEstablishesTInv, InitEstablishesSInv
<1>2. TInv /\ SInv /\ [StreamNext]_streamVars => TInv' /\ SInv'
  BY StepsKeepTInv, StepsKeepSInv
<1> QED
  BY <1>1, <1>2, PTL DEF StreamSpec

LEMMA PositionIsID ==
  ASSUME TInv, NEW k \in 1 .. Len(events)
  PROVE  Position(events[k]) = k
<1>1. DOMAIN events = 1 .. Len(events)
  BY LogFacts, LenProperties DEF IsLog
<1>2. \A i \in DOMAIN events : events[i] = events[k] => i = k
  BY <1>1, LogFacts DEF IsLog
<1> QED
  BY <1>1, <1>2 DEF Position

(* However polls fail, are lost after being answered, time out or overlap  *)
(* with events of the same millisecond, both clients hand over events in   *)
(* the order of the log, each once, and leave out none between them that   *)
(* is newer than where the program asked to start, but those that a        *)
(* timeout moved the Go client's cursor past.                              *)
THEOREM NoHoles == ASSUME TimesFit PROVE StreamSpec => []StreamWithoutHoles
<1>1. ASSUME TInv, SInv PROVE StreamWithoutHoles
  <2>1. IsFlow(conveyed, events, start, movedTo)
    BY <1>1, ConveyedFacts
  <2>2. DOMAIN conveyed = 1 .. Len(conveyed)
    BY <1>1, LogFacts, LenProperties
  <2>3. ASSUME NEW i \in 1 .. Len(conveyed)
        PROVE  /\ Position(conveyed[i]) = conveyed[i].ID
               /\ conveyed[i].ID \in 1 .. Len(events)
               /\ events[conveyed[i].ID] = conveyed[i]
    <3>1. conveyed[i].ID \in 1 .. Len(events) /\ conveyed[i] = events[conveyed[i].ID]
      BY <2>1 DEF IsFlow
    <3> QED
      BY <1>1, <3>1, PositionIsID
  <2>4. \A i, j \in DOMAIN conveyed :
           i < j => Position(conveyed[i]) < Position(conveyed[j])
    BY <2>1, <2>2, <2>3 DEF IsFlow
  <2>5. ASSUME conveyed # <<>>, NEW i \in 1 .. Position(Last(conveyed))
        PROVE  \/ events[i] \in ToSet(conveyed)
               \/ events[i].Timestamp <= start
               \/ events[i].Timestamp <= movedTo
    <3>1. Len(conveyed) \in 1 .. Len(conveyed)
      BY <1>1, <2>5, ConveyedFacts
    <3>2. i \in 1 .. conveyed[Len(conveyed)].ID
      BY <2>3, <2>5, <3>1 DEF Last
    <3>3. ASSUME NEW j \in 1 .. Len(conveyed), conveyed[j].ID = i
          PROVE  events[i] \in ToSet(conveyed)
      BY <2>2, <2>3, <3>3 DEF ToSet
    <3> QED
      BY <2>1, <3>1, <3>2, <3>3 DEF IsFlow
  <2> QED
    BY <2>4, <2>5 DEF StreamWithoutHoles
<1> QED
  BY <1>1, StreamInvariance, PTL

(* Of what was published before the program asked, it gets nothing older   *)
(* than the time it asked to poll since (to the second in Go), though the  *)
(* time passes through int64 nanoseconds on its way to the server.         *)
THEOREM NothingTooOld == ASSUME TimesFit PROVE StreamSpec => []SinceTimeRespected
<1>1. ASSUME TInv, SInv PROVE SinceTimeRespected
  <2> SUFFICES ASSUME start <= MaxMs, NEW e \in ToSet(conveyed)
               PROVE  \/ e.Timestamp > (IF isGo THEN start - Second ELSE start)
                      \/ Position(e) > begun
    BY DEF SinceTimeRespected
  <2>1. PICK i \in 1 .. Len(conveyed) : e = conveyed[i]
    BY <1>1, LogFacts, LenProperties DEF ToSet
  <2>2. e.Timestamp > Floor \/ e.ID > begun
    BY <1>1, <2>1, ConveyedFacts DEF IsSince
  <2>3. e.ID \in 1 .. Len(events) /\ events[e.ID] = e
    BY <1>1, <2>1, ConveyedFacts DEF IsFlow
  <2>4. Position(e) = e.ID
    BY <1>1, <2>3, PositionIsID
  <2> QED
    BY <2>2, <2>4 DEF Floor
<1> QED
  BY <1>1, StreamInvariance, PTL


=============================================================================

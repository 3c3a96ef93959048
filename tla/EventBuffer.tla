----------------------------- MODULE EventBuffer -----------------------------
(***************************************************************************)
(* The per-category event buffer of golongpoll (events.go): a doubly       *)
(* linked list with the newest event at the front, capped at               *)
(* MaxEventBufferSize, with a cached timestamp of the element at the back. *)
(*                                                                         *)
(* An event is a record [Timestamp, Category, ID]; its Data is opaque and  *)
(* left out.  Timestamps are milliseconds.  A list is a sequence whose     *)
(* first element is list.Front().                                          *)
(***************************************************************************)
EXTENDS Integers, SequencesExt

CONSTANTS
  Categories,          \* subscription categories
  EventIDs,            \* the UUIDs events carry
  NoID,                \* a nil *uuid.UUID: the poll names no last_id
  MaxEventBufferSize   \* Options.MaxEventBufferSize

ASSUME EventBufferAssumption ==
  /\ MaxEventBufferSize \in Nat \ {0}
  /\ NoID \notin EventIDs

Event == [Timestamp : Nat, Category : Categories, ID : EventIDs]

eventBuffer == [List : Seq(Event), oldestEventTime : Int]

-----------------------------------------------------------------------------
(* QueueEvent evicts the element at the back when the list is at capacity, *)
(* pushes the new event to the front and caches the back's timestamp.      *)
QueueEvent(eb, event) ==
  LET kept == IF Len(eb.List) >= MaxEventBufferSize THEN Front(eb.List)
                                                    ELSE eb.List
      list == Cons(event, kept)
  IN  [List |-> list, oldestEventTime |-> Last(list).Timestamp]

(* Variant for the mutation runs: last_id is ignored.                      *)
IsAfter_TimeOnly(event, since, lastEventID) == event.Timestamp > since

(* The test GetEventsSince applies to each element: newer than the cursor, *)
(* or of the same millisecond and not the very event the cursor names.     *)
IsAfter(event, since, lastEventID) ==
  \/ event.Timestamp > since
  \/ /\ event.Timestamp = since
     /\ lastEventID # NoID
     /\ lastEventID # event.ID

(* Variant for the mutation runs: one event that is too old, and the poll  *)
(* gets nothing.                                                           *)
AfterLen_AllOrNone(list, since, lastEventID) ==
  IF \A i \in DOMAIN list : IsAfter(list[i], since, lastEventID)
  THEN Len(list) ELSE 0

(* How many elements at the front pass the test before the first that does *)
(* not: the search breaks there, whatever lies further back.               *)
AfterLen(list, since, lastEventID) ==
  Max({0} \cup {n \in DOMAIN list :
                  \A i \in 1 .. n : IsAfter(list[i], since, lastEventID)})

(* Variant for the mutation runs: fetching empties the buffer.             *)
WithoutFetched_Clears(eb, since, lastEventID) ==
  IF AfterLen(eb.List, since, lastEventID) = 0 THEN eb
  ELSE [eb EXCEPT !.List = <<>>]

(* The events a poll gets, oldest first ...                                *)
GetEventsSince(eb, since, lastEventID) ==
  Reverse(SubSeq(eb.List, 1, AfterLen(eb.List, since, lastEventID)))

(* ... and the buffer it leaves behind when deleteFetchedEvents is set.    *)
(* The cached oldestEventTime is not touched.                              *)
WithoutFetched(eb, since, lastEventID) ==
  [eb EXCEPT !.List =
     SubSeq(@, AfterLen(@, since, lastEventID) + 1, Len(@))]

(* Variant for the mutation runs: an event exactly at t stays.             *)
LiveLen_Boundary(list, t) ==
  Max({0} \cup {i \in DOMAIN list : list[i].Timestamp >= t})

(* The position of the element nearest the back that is newer than t.      *)
LiveLen(list, t) == Max({0} \cup {i \in DOMAIN list : list[i].Timestamp > t})

(* DeleteEventsOlderThan trusts the cached time to skip the search; else   *)
(* it removes from the back until it meets an event newer than t.          *)
DeleteEventsOlderThan(eb, t) ==
  IF eb.List = <<>> \/ eb.oldestEventTime > t
  THEN eb
  ELSE LET live == LiveLen(eb.List, t)
       IN  [List |-> SubSeq(eb.List, 1, live),
            oldestEventTime |-> eb.List[IF live = 0 THEN 1 ELSE live].Timestamp]

=============================================================================

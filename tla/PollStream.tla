------------------------------ MODULE PollStream ------------------------------
(***************************************************************************)
(* The stream of events a program gets out of many polls: a Go or a        *)
(* JavaScript client, the network it polls through, and a server that does *)
(* what EventLog promises.                                                 *)
(***************************************************************************)
EXTENDS GoClient, JsClient

CONSTANTS
  StartTime, MaxTime,    \* where the clock starts, and bound of the model
  MaxEvents              \* bound of the model: events published

ASSUME StreamAssumption ==
  /\ StartTime \in Nat /\ MaxTime \in Nat /\ StartTime <= MaxTime
  /\ MaxEvents \in Nat
  /\ 1 .. MaxEvents \subseteq EventIDs /\ NoID \notin EventIDs
  /\ StartTimes \subseteq Int

streamVars == <<logVars, pollVars, goVars>>
clientVars == <<pollVars, goVars>>

events == log[Category]

-----------------------------------------------------------------------------
(* Someone publishes; IDs are new.                                         *)
Publish ==
  /\ Len(events) < MaxEvents
  /\ \E ts \in 0 .. now :
       AppendEvent(Category, [Timestamp |-> ts, Category |-> Category,
                              ID |-> Len(events) + 1])
  /\ UNCHANGED clientVars

Respond == AnswerEvents(self) /\ UNCHANGED clientVars
TimeOut == AnswerTimeout(self) /\ UNCHANGED clientVars

(* The request fails, before or after the server has answered it.          *)
Intact == pc = "polling" /\ answer[self].status \in {"none", "timeout", "events"}

Break == Intact /\ Fail(self) /\ UNCHANGED clientVars

(* Something between server and client answers 200 with what is not JSON.  *)
Garble ==
  /\ Intact
  /\ Reply(self, [status |-> "garbled"])
  /\ UNCHANGED clientVars

Clock == now < MaxTime /\ Tick /\ UNCHANGED clientVars

StreamInit ==
  /\ now = StartTime
  /\ log = [cat \in Categories |-> <<>>]
  /\ poll = [c \in Clients |-> NoPoll]
  /\ answer = [c \in Clients |-> [status |-> "none"]]
  /\ PollInit /\ GoInit

GoClientStep == GoStep
JsClientStep == JsStep /\ UNCHANGED goVars

StreamNext ==
  \/ Publish \/ Respond \/ TimeOut \/ Break \/ Garble \/ Clock
  \/ Start \/ Stop \/ Read \/ GoClientStep
  \/ (newClient \/ stop) /\ UNCHANGED goVars
  \/ JsClientStep

(* The loops run; the server answers; and what is answered with events is  *)
(* not timed out or lost every time.  Nobody has to publish, read or stop. *)
LoopFairness ==
  /\ WF_streamVars(GoClientStep) /\ WF_streamVars(JsClientStep)
  /\ WF_streamVars(Respond \/ TimeOut)
  /\ SF_streamVars(Respond)
  /\ SF_streamVars(FetchedEvents) /\ SF_streamVars(onEvents /\ UNCHANGED goVars)

StreamSpec == StreamInit /\ [][StreamNext]_streamVars /\ LoopFairness

(* The program keeps reading the channel that Start returned.              *)
ReadingSpec == StreamSpec /\ WF_streamVars(Read)

-----------------------------------------------------------------------------
(* Properties.                                                             *)

StreamTypeOK ==
  /\ language \in {"go", "js"}
  /\ pc \in {"new", "loop", "timer", "polling", "events", "send", "ended", "dead"}
  /\ since \in Int /\ lastID \in EventIDs \cup {NoID}
  /\ unread \in 0 .. ChannelCapacity
  /\ stopped \in BOOLEAN

Position(e) == CHOOSE i \in DOMAIN events : events[i] = e

(* Conveyed events come in the order of the log, each once; and between    *)
(* the first and the last of them none is left out that is newer than      *)
(* where the program asked to start, but those the cursor of the Go client *)
(* was moved past by a timeout.  However polls fail, are lost after being  *)
(* answered, time out or overlap with events of the same millisecond.      *)
StreamWithoutHoles ==
  /\ \A i, j \in DOMAIN conveyed :
       i < j => Position(conveyed[i]) < Position(conveyed[j])
  /\ conveyed # <<>> =>
       \A i \in 1 .. Position(Last(conveyed)) :
         \/ events[i] \in ToSet(conveyed)
         \/ events[i].Timestamp <= start
         \/ events[i].Timestamp <= movedTo

(* Of what was published before the program asked, it gets nothing from    *)
(* before the time it asked to poll since: the JavaScript client to the    *)
(* millisecond, the Go client to the second it cuts the time down to.  (An *)
(* event that comes while a poll waits is forwarded whatever its time, and *)
(* moves the cursor back; a time that int64 nanoseconds cannot hold wraps  *)
(* around, and matches the events of all times.)                           *)
SinceTimeRespected ==
  start <= MaxMs =>
    \A e \in ToSet(conveyed) :
      \/ e.Timestamp > (IF isGo THEN start - Second ELSE start)
      \/ Position(e) > begun

(* After stop the program gets at most what was under way: from the Go     *)
(* client the rest of the answer that was being handed over, from the      *)
(* JavaScript client one more event, of the poll that is still answered.   *)
StopIsHeeded ==
  stopped => Len(conveyed) <= promised + (IF isJs THEN 1 ELSE 0)

(* Every event newer than where the program asked to start is conveyed in  *)
(* the end, unless the loop has been ended or is dead, or a timeout moved  *)
(* the Go client's cursor past the event.                                  *)
EveryEventConveyed ==
  \A id \in EventIDs :
    (\E e \in ToSet(events) : e.ID = id /\ e.Timestamp > start /\ start > 0) ~>
      \/ \E e \in ToSet(conveyed) : e.ID = id
      \/ \E e \in ToSet(events) : e.ID = id /\ e.Timestamp <= movedTo
      \/ stopped
      \/ pc \in {"ended", "dead"}

(* stop ends the loop (and the Go client's channel is closed), if the      *)
(* program goes on to read what is in the channel.                         *)
StopEnds == stopped ~> pc \in {"ended", "dead"}

(* What the README of the Go client says: any new events since pollSince.  *)
NothingSkipped ==
  isGo /\ conveyed # <<>> =>
    \A i \in 1 .. Position(Last(conveyed)) :
      events[i].Timestamp > start => events[i] \in ToSet(conveyed)

(* What the comment before doQuitCheck says: without anyone who reads the  *)
(* channel, Stop still ends the goroutine.                                 *)
StopEndsUnread == isGo /\ stopped ~> pc = "ended"
=============================================================================

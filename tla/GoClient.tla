------------------------------- MODULE GoClient -------------------------------
(***************************************************************************)
(* The Go client (client/client.go): the goroutine that Start launches,    *)
(* the channel it sends events on, and the program that reads the channel  *)
(* and calls Stop.                                                         *)
(***************************************************************************)
EXTENDS PollClient

CONSTANTS
  Second,                \* milliseconds in a second
  ChannelCapacity        \* of c.events: 100

ASSUME GoClientAssumption == Second \in Nat \ {0} /\ ChannelCapacity \in Nat

VARIABLES
  unread,                \* how many of the conveyed events are in c.events
  doQuitCheck            \* whether to look at the stop signal before a send

goVars == <<unread, doQuitCheck>>

isGo == language = "go"

-----------------------------------------------------------------------------
(* Start: pollSince.Unix() * 1000 drops the milliseconds.                  *)
Start ==
  /\ isGo /\ pc = "new"
  /\ \E pollSince \in StartTimes \cup {now} :
       /\ start' = pollSince
       /\ since' = (pollSince \div Second) * Second
  /\ begun' = Len(log[Category])
  /\ Goto("loop")
  /\ UNCHANGED <<logVars, goVars, language, lastID, todo, conveyed, stopped,
                 movedTo, promised>>

(* Stop, which may be called once and only after Start.                    *)
Stop ==
  /\ isGo /\ pc # "new" /\ ~stopped
  /\ stopped' = TRUE
  /\ promised' = Len(conveyed) + Len(todo)
  /\ UNCHANGED <<logVars, goVars, cursorVars, language, pc, todo, conveyed,
                 start, begun, movedTo>>

(* doQuit closes c.events; the goroutine returns.                          *)
IfNotQuit(label) == Goto(IF stopped THEN "ended" ELSE label)

(* The top of the loop.                                                    *)
Fetch ==
  /\ isGo /\ pc = "loop"
  /\ IfNotQuit("polling")
  /\ IF stopped THEN UNCHANGED logVars ELSE SendPoll(since, lastID)
  /\ UNCHANGED <<goVars, cursorVars, historyVars, todo, conveyed, stopped>>

(* fetchEvents returned an error; OnFailure, if there is one, may end it.  *)
FetchFailed ==
  /\ isGo /\ (Failed \/ Answered("garbled"))
  /\ Goto("ended") \/ IfNotQuit("loop")
  /\ UNCHANGED <<logVars, goVars, cursorVars, historyVars, todo, conveyed,
                 stopped>>

(* An answer with events: the stop signal will be looked at between them   *)
(* if they may not all fit in the channel.                                 *)
FetchedEvents ==
  /\ isGo /\ Answered("events")
  /\ IfNotQuit("events")
  /\ todo' = IF stopped THEN <<>> ELSE answer[self].events
  /\ doQuitCheck' = (Len(answer[self].events) >= ChannelCapacity - unread)
  /\ UNCHANGED <<logVars, cursorVars, historyVars, conveyed, stopped, unread>>

(* Variant for the mutation runs: the cursor is the time alone, as before  *)
(* the fix of issue #19.                                                   *)
TakeEvent_SinceOnly ==
  /\ isGo /\ pc = "events" /\ todo # <<>>
  /\ since' = Head(todo).Timestamp
  /\ IF doQuitCheck THEN IfNotQuit("send") ELSE Goto("send")
  /\ UNCHANGED <<logVars, goVars, historyVars, lastID, todo, conveyed, stopped>>

(* The cursor moves to the next event before it is sent.                   *)
TakeEvent ==
  /\ isGo /\ pc = "events" /\ todo # <<>>
  /\ since' = Head(todo).Timestamp
  /\ lastID' = Head(todo).ID
  /\ IF doQuitCheck THEN IfNotQuit("send") ELSE Goto("send")
  /\ UNCHANGED <<logVars, goVars, historyVars, todo, conveyed, stopped>>

(* Variant for the mutation runs: a channel without a limit.               *)
SendEvent_Unbounded ==
  /\ isGo /\ pc = "send"
  /\ conveyed' = Append(conveyed, Head(todo))
  /\ todo' = Tail(todo)
  /\ unread' = unread + 1
  /\ Goto("events")
  /\ UNCHANGED <<logVars, cursorVars, historyVars, stopped, doQuitCheck>>

(* c.events <- event, which waits for room.                                *)
SendEvent ==
  /\ isGo /\ pc = "send"
  /\ unread < ChannelCapacity
  /\ conveyed' = Append(conveyed, Head(todo))
  /\ todo' = Tail(todo)
  /\ unread' = unread + 1
  /\ Goto("events")
  /\ UNCHANGED <<logVars, cursorVars, historyVars, stopped, doQuitCheck>>

AllSent ==
  /\ isGo /\ pc = "events" /\ todo = <<>>
  /\ Goto("loop")
  /\ UNCHANGED <<logVars, goVars, cursorVars, historyVars, todo, conveyed,
                 stopped>>

(* The server's timeout answer moves the cursor forward, never back.       *)
FetchTimedOut ==
  /\ isGo /\ Answered("timeout")
  /\ IfNotQuit("loop")
  /\ LET timestamp == answer[self].timestamp
     IN  IF ~stopped /\ timestamp > since
         THEN since' = timestamp /\ movedTo' = timestamp
         ELSE UNCHANGED <<since, movedTo>>
  /\ UNCHANGED <<logVars, goVars, language, lastID, todo, conveyed, stopped,
                 start, begun, promised>>

(* The program takes an event from the channel Start returned.             *)
Read ==
  /\ isGo /\ unread > 0
  /\ unread' = unread - 1
  /\ UNCHANGED <<logVars, pollVars, doQuitCheck>>

GoStep ==
  \/ Fetch \/ FetchFailed \/ FetchedEvents \/ TakeEvent \/ SendEvent
  \/ AllSent \/ FetchTimedOut

GoInit == unread = 0 /\ doQuitCheck = FALSE
=============================================================================

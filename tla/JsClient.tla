------------------------------- MODULE JsClient -------------------------------
(***************************************************************************)
(* The JavaScript client (js-client/client.js).  It runs on an event loop: *)
(* what onreadystatechange does with an answer is one step, and the        *)
(* program's own code runs between steps or inside of one, in onEvent and  *)
(* onFailure.  stopped is the negation of client.running.                  *)
(***************************************************************************)
EXTENDS PollClient

isJs == language = "js"

-----------------------------------------------------------------------------
(* newClient polls at once.                                                *)
newClient ==
  /\ isJs /\ pc = "new"
  /\ \E sinceTime \in StartTimes \cup {now} :
       /\ sinceTime > 0
       /\ start' = sinceTime
       /\ since' = sinceTime
       /\ SendPoll(sinceTime, lastID)
  /\ begun' = Len(log[Category])
  /\ Goto("polling")
  /\ UNCHANGED <<language, lastID, todo, conveyed, stopped, movedTo,
                 promised>>

(* stop, from outside the callbacks.                                       *)
stop ==
  /\ isJs /\ pc # "new" /\ ~stopped
  /\ stopped' = TRUE
  /\ promised' = Len(conveyed)
  /\ UNCHANGED <<logVars, cursorVars, language, pc, todo, conveyed, start,
                 begun, movedTo>>

(* The timer calls poll, which does not look at running.                   *)
poll_ ==
  /\ isJs /\ pc = "timer"
  /\ SendPoll(since, lastID)
  /\ Goto("polling")
  /\ UNCHANGED <<cursorVars, historyVars, todo, conveyed, stopped>>

(* Variant for the mutation runs: running is looked at after the batch     *)
(* only.                                                                   *)
onEvents_WholeBatch ==
  /\ isJs /\ Answered("events")
  /\ LET events == answer[self].events
     IN  \E stopping \in BOOLEAN :
           /\ conveyed' = conveyed \o events
           /\ since' = Last(events).Timestamp
           /\ lastID' = Last(events).ID
           /\ stopped' = (stopped \/ stopping)
           /\ promised' = IF stopping /\ ~stopped
                          THEN Len(conveyed) + Len(events) ELSE promised
  /\ Goto(IF stopped' THEN "ended" ELSE "timer")
  /\ UNCHANGED <<logVars, language, todo, start, begun, movedTo>>

(* Events are handed to onEvent until, after one of them, running is found *)
(* false: because it was false before, or because onEvent has called stop. *)
onEvents ==
  /\ isJs /\ Answered("events")
  /\ \E n \in DOMAIN answer[self].events, stopping \in BOOLEAN :
       LET taken == SubSeq(answer[self].events, 1, n)
       IN  /\ stopped => n = 1 /\ ~stopping
           /\ ~stopped /\ ~stopping => n = Len(answer[self].events)
           /\ conveyed' = conveyed \o taken
           /\ since' = Last(taken).Timestamp
           /\ lastID' = Last(taken).ID
           /\ stopped' = (stopped \/ stopping)
           /\ promised' = IF stopping THEN Len(conveyed) + n ELSE promised
  /\ Goto(IF stopped' THEN "ended" ELSE "timer")
  /\ UNCHANGED <<logVars, language, todo, start, begun, movedTo>>

(* Variant for the mutation runs: running is not looked at.                *)
onTimeout_KeepsPolling ==
  /\ isJs /\ Answered("timeout")
  /\ Goto("timer")
  /\ UNCHANGED <<logVars, cursorVars, historyVars, todo, conveyed, stopped>>

(* Variant for the mutation runs: no new poll is scheduled.                *)
onTimeout_NoNextPoll ==
  /\ isJs /\ Answered("timeout")
  /\ Goto(IF stopped THEN "ended" ELSE "polling")
  /\ UNCHANGED <<logVars, cursorVars, historyVars, todo, conveyed, stopped>>

(* A timeout leaves the cursor where it is.                                *)
onTimeout ==
  /\ isJs /\ Answered("timeout")
  /\ Goto(IF stopped THEN "ended" ELSE "timer")
  /\ UNCHANGED <<logVars, cursorVars, historyVars, todo, conveyed, stopped>>

(* onFailure decides; it may have called stop as well, which the next poll *)
(* does not see before it is answered.                                     *)
onError ==
  /\ isJs /\ Failed
  /\ IF stopped THEN Goto("ended") /\ UNCHANGED <<stopped, promised>>
     ELSE /\ Goto("ended") \/ Goto("timer")
          /\ \/ UNCHANGED <<stopped, promised>>
             \/ stopped' = TRUE /\ promised' = Len(conveyed)
  /\ UNCHANGED <<logVars, cursorVars, language, todo, conveyed, start, begun,
                 movedTo>>

(* JSON.parse throws out of onreadystatechange: nothing calls onFailure    *)
(* and nothing schedules the next poll.                                    *)
onGarbled ==
  /\ isJs /\ Answered("garbled")
  /\ Goto("dead")
  /\ UNCHANGED <<logVars, cursorVars, historyVars, todo, conveyed, stopped>>

JsStep == poll_ \/ onEvents \/ onTimeout \/ onError \/ onGarbled
=============================================================================

------------------------------- MODULE EventLog -------------------------------
(***************************************************************************)
(* What golongpoll promises to those who poll it (HttpLongPollAPI.md), as  *)
(* long as nothing expires, is evicted or is deleted on retrieval: each    *)
(* category is a log in time order, a poll names a place in it, and it is  *)
(* answered with all there is behind that place or, if that is nothing,    *)
(* with the next event; or it times out, or fails.                         *)
(*                                                                         *)
(* LongpollLog shows that the server implements this module, PollStream    *)
(* builds the clients on top of it.                                        *)
(***************************************************************************)
EXTENDS Integers, Sequences

CONSTANTS
  Categories, Clients, EventIDs,
  NoID,                  \* the poll names no last_id
  SinceTimes             \* since_time values besides the readings of the clock

VARIABLES
  now,
  log,                   \* category -> its events, oldest first
  poll,                  \* client -> what it waits for, or NoPoll
  answer                 \* client -> what its last poll was answered with

logVars == <<now, log, poll, answer>>

NoPoll == [from |-> -1]

(* The place a cursor names: behind the last event that is older than      *)
(* since, or of the same millisecond and either no event is named or it is *)
(* the one.                                                                *)
Covers(since, id, e) ==
  e.Timestamp < since \/ (e.Timestamp = since /\ id \in {NoID, e.ID})

Behind(since, id, events) ==
  LET covered == {i \in DOMAIN events : Covers(since, id, events[i])}
  IN  IF covered = {} THEN events
      ELSE SubSeq(events, 1 + CHOOSE i \in covered : \A j \in covered : j <= i,
                  Len(events))

-----------------------------------------------------------------------------
Init ==
  /\ now \in Nat
  /\ log = [cat \in Categories |-> <<>>]
  /\ poll = [c \in Clients |-> NoPoll]
  /\ answer = [c \in Clients |-> [status |-> "none"]]

(* An event stamped some time before reaches the log.                      *)
AppendEvent(cat, event) ==
  /\ UNCHANGED <<now, poll, answer>>
  /\ event.Timestamp <= now
  /\ log' = [log EXCEPT ![cat] = Append(@, event)]
  /\ \A i \in DOMAIN log[cat] : /\ log[cat][i].Timestamp <= event.Timestamp
                                /\ log[cat][i].ID # event.ID

(* from is how much of the log the poll will have seen at least when it is *)
(* looked at.                                                              *)
Ask(c, cat, since, id) ==
  /\ poll[c] = NoPoll
  /\ UNCHANGED <<now, log>>
  /\ answer' = [answer EXCEPT ![c] = [status |-> "none"]]
  /\ poll' = [poll EXCEPT ![c] = [Category |-> cat, since |-> since, id |-> id,
                                  from |-> Len(log[cat])]]

Reply(c, response) ==
  /\ UNCHANGED <<now, log>>
  /\ answer' = [answer EXCEPT ![c] = response]
  /\ poll' = [poll EXCEPT ![c] = NoPoll]

(* What the poll gets if it is looked at when the log has n events: those  *)
(* behind its cursor or, if there are none, the next that comes.           *)
Batch(q, n) ==
  LET l      == log[q.Category]
      behind == Behind(q.since, q.id, SubSeq(l, 1, n))
  IN  IF behind = <<>> /\ n < Len(l) THEN <<l[n + 1]>> ELSE behind

AnswerEvents(c) ==
  /\ poll[c] # NoPoll
  /\ \E n \in poll[c].from .. Len(log[poll[c].Category]) :
       /\ Batch(poll[c], n) # <<>>
       /\ Reply(c, [status |-> "events", events |-> Batch(poll[c], n)])

(* Whatever the log holds by then, the poll may be over before the answer. *)
AnswerTimeout(c) ==
  /\ poll[c] # NoPoll
  /\ Reply(c, [status |-> "timeout", timestamp |-> now])

(* The parameters are refused, or the connection is lost.                  *)
Fail(c) ==
  \E status \in {"error", "gone"} : Reply(c, [status |-> status])

Tick == now' = now + 1 /\ UNCHANGED <<log, poll, answer>>

(* (That the log grows and that the poll is new goes without saying, but   *)
(* saves TLC the search among all events and cursors.)                     *)
Publishing ==
  /\ log' # log
  /\ UNCHANGED <<now, poll, answer>>
  /\ \E cat \in Categories :
       \E ts \in 0 .. now, id \in EventIDs :
         AppendEvent(cat, [Timestamp |-> ts, Category |-> cat, ID |-> id])

Asking(c) ==
  /\ poll[c] = NoPoll /\ poll'[c] # NoPoll
  /\ \E cat \in Categories, since \in SinceTimes \cup 0 .. now,
        id \in EventIDs \cup {NoID} : Ask(c, cat, since, id)

Next ==
  \/ Tick
  \/ \E c \in Clients :
       Asking(c) \/ AnswerEvents(c) \/ AnswerTimeout(c) \/ Fail(c)
  \/ Publishing

Spec == Init /\ [][Next]_logVars
=============================================================================

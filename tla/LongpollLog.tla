------------------------------ MODULE LongpollLog ------------------------------
(***************************************************************************)
(* The running LongpollManager of module Longpoll implements EventLog, as  *)
(* far as events stay in their buffers: the log of a category is its       *)
(* eventBuffer, oldest first, and a poll is a request from the moment it   *)
(* is made until it is answered.                                           *)
(***************************************************************************)
EXTENDS Longpoll

AbstractLog == [cat \in Categories |-> Reverse(BufferedIn(cat))]

AbstractPoll ==
  [c \in Clients |->
     IF c \notin DOMAIN request THEN [from |-> -1]
     ELSE [Category |-> request[c].SubscriptionCategory,
           since    |-> request[c].LastEventTime,
           id       |-> request[c].LastEventID,
           from     |-> asked[c]]]

Log == INSTANCE EventLog
         WITH log <- AbstractLog, poll <- AbstractPoll, answer <- response

(* Every request is answered with an interval of its category's log, as    *)
(* the log was at one moment between the request and the answer: all that  *)
(* its cursor does not cover or, if there is nothing, the very next event. *)
(* No order of subscriptions, timeouts, events and deliveries, and no      *)
(* client that has gone, puts a hole or a repetition into an answer.  One  *)
(* publisher, and buffers that do not overflow or expire.                  *)
ImplementsEventLog == Log!Spec
=============================================================================

------------------------------- MODULE Longpoll -------------------------------
(***************************************************************************)
(* A running LongpollManager: the pub-sub goroutine of SubscriptionManager *)
(* together with the goroutines around it, the HTTP handlers of its        *)
(* SubscriptionHandler (longpoll.go, getLongPollSubscriptionHandler), the  *)
(* callers of Publish and the caller of Shutdown or ShutdownWithTimeout.   *)
(*                                                                         *)
(* SubscriptionManager's environment is what these goroutines may do to    *)
(* the manager; ImplementsManager states that they do no more.             *)
(***************************************************************************)
EXTENDS SubscriptionManager

CONSTANTS
  Publishers,            \* goroutines that call Publish
  NoEvent                \* a publisher with no event under way

ASSUME LongpollAssumption ==
  /\ IsFiniteSet(Publishers)
  /\ NoEvent \notin Event

VARIABLES
  response,              \* what each HTTP request has been answered with
  publishing,            \* per publisher: the event it made and has to send
  shutdown,              \* where the caller of Shutdown is
  asked                  \* history, per request: how many events were buffered
                         \* in its category when it was made

longpollVars == <<vars, response, publishing, shutdown, asked>>
callerVars == <<response, publishing, shutdown, asked>>

-----------------------------------------------------------------------------
(* LongpollManager.stopped is set before the stop signal is closed.        *)
stopped == shutdown # "none"

Response == [status : {"none", "error", "gone"}]
            \cup [status : {"events"}, events : Seq(Event)]
            \cup [status : {"timeout"}, timestamp : Nat]

BufferedIn(cat) == IF cat \in DOMAIN store.SubEventBuffer
                   THEN store.SubEventBuffer[cat].List ELSE <<>>

Responded(c, r) ==
  /\ response' = [response EXCEPT ![c] = r]
  /\ asked' = [asked EXCEPT ![c] = 0]

-----------------------------------------------------------------------------
(* An HTTP request.  Parameters that do not validate are answered at once  *)
(* with an error ...                                                       *)
Reject(c) ==
  /\ Started
  /\ handler[c] = "idle"
  /\ handler' = [handler EXCEPT ![c] = "done"]
  /\ Responded(c, [status |-> "error"])
  /\ UNCHANGED <<managerVars, channelVars, now, quit, request, published,
                 publishing, shutdown>>

(* ... else they become a subscription: since_time defaults to now, and    *)
(* last_id is accepted only together with a since_time.                    *)
NewClientSubscription(c) ==
  /\ Started
  /\ handler[c] = "idle"
  /\ \E cat \in Categories :
     \E cursor \in {<<now, NoID>>} \cup (SinceTimes \X KnownIDs) :
       /\ request' = Put(request, c,
                         [ClientUUID |-> c, SubscriptionCategory |-> cat,
                          LastEventTime |-> cursor[1], LastEventID |-> cursor[2]])
       /\ asked' = [asked EXCEPT ![c] = Len(BufferedIn(cat))]
  /\ handler' = [handler EXCEPT ![c] = "subscribe"]
  /\ UNCHANGED <<managerVars, channelVars, now, quit, published, response,
                 publishing, shutdown>>

(* subscriptionRequests <- subscription                                    *)
Subscribe(c) ==
  /\ handler[c] = "subscribe"
  /\ Len(clientSubscriptions) < ChannelSize
  /\ clientSubscriptions' = Append(clientSubscriptions, request[c])
  /\ handler' = [handler EXCEPT ![c] = "select"]
  /\ UNCHANGED <<managerVars, ClientTimeouts, Events, subEvents,
                 now, quit, request, published, callerVars>>

(* case <-timeoutCtx.Done()                                                *)
Timeout(c) ==
  /\ handler[c] = "select"
  /\ handler' = [handler EXCEPT ![c] = "timeout"]
  /\ UNCHANGED <<managerVars, channelVars, now, quit, request, published,
                 callerVars>>

(* case <-disconnectNotify                                                 *)
Disconnect(c) ==
  /\ handler[c] = "select"
  /\ handler' = [handler EXCEPT ![c] = "disconnect"]
  /\ UNCHANGED <<managerVars, channelVars, now, quit, request, published,
                 callerVars>>

(* Variant for the mutation runs: a timeout answer without the timestamp   *)
(* that clients continue from.                                             *)
Leave_NoTimestamp(c) ==
  /\ handler[c] \in {"timeout", "disconnect"}
  /\ Len(ClientTimeouts) < ChannelSize
  /\ ClientTimeouts' = Append(ClientTimeouts, ToPair(request[c]))
  /\ Responded(c, IF handler[c] = "timeout" THEN [status |-> "timeout"]
                                            ELSE [status |-> "gone"])
  /\ handler' = [handler EXCEPT ![c] = "done"]
  /\ request' = Delete(request, {c})
  /\ UNCHANGED <<managerVars, clientSubscriptions, Events, subEvents,
                 now, quit, published, publishing, shutdown>>

(* clientTimeouts <- &subscription.clientCategoryPair, then the response   *)
(* if there is still someone to have it.                                   *)
Leave(c) ==
  /\ handler[c] \in {"timeout", "disconnect"}
  /\ Len(ClientTimeouts) < ChannelSize
  /\ ClientTimeouts' = Append(ClientTimeouts, ToPair(request[c]))
  /\ Responded(c, IF handler[c] = "timeout"
                  THEN [status |-> "timeout", timestamp |-> now]
                  ELSE [status |-> "gone"])
  /\ handler' = [handler EXCEPT ![c] = "done"]
  /\ request' = Delete(request, {c})
  /\ UNCHANGED <<managerVars, clientSubscriptions, Events, subEvents,
                 now, quit, published, publishing, shutdown>>

(* case events := <-subscription.Events                                    *)
Respond(c) ==
  /\ handler[c] = "select"
  /\ subEvents[c] # <<>>
  /\ subEvents' = [subEvents EXCEPT ![c] = Tail(@)]
  /\ Responded(c, [status |-> "events", events |-> Head(subEvents[c])])
  /\ handler' = [handler EXCEPT ![c] = "done"]
  /\ request' = Delete(request, {c})
  /\ UNCHANGED <<managerVars, clientSubscriptions, ClientTimeouts, Events,
                 now, quit, published, publishing, shutdown>>

Handler(c) ==
  \/ Reject(c) \/ NewClientSubscription(c) \/ Subscribe(c)
  \/ Timeout(c) \/ Disconnect(c) \/ Leave(c) \/ Respond(c)

-----------------------------------------------------------------------------
UsedIDs == {e.ID : e \in published} \cup
           {publishing[p].ID : p \in {q \in Publishers : publishing[q] # NoEvent}}

(* Publish (called by PublishHandler too) panics on a stopped manager;     *)
(* else it stamps the event ...                                            *)
Publish(p) ==
  /\ Started
  /\ ~stopped
  /\ publishing[p] = NoEvent
  /\ \E cat \in Categories, id \in EventIDs \ UsedIDs :
       publishing' = [publishing EXCEPT ![p] =
                        [Timestamp |-> now, Category |-> cat, ID |-> id]]
  /\ UNCHANGED <<vars, response, shutdown, asked>>

(* Variant for the mutation runs: the publisher does not notice that its   *)
(* send went through and may send the event again.                         *)
PublishSend_Again(p) ==
  /\ publishing[p] # NoEvent
  /\ Len(Events) < ChannelSize
  /\ Events' = Append(Events, publishing[p])
  /\ published' = published \cup {publishing[p]}
  /\ UNCHANGED <<managerVars, clientSubscriptions, ClientTimeouts, subEvents,
                 now, quit, handler, request, callerVars>>

(* ... and then sends it: m.eventsIn <- &Event{...}                        *)
PublishSend(p) ==
  /\ publishing[p] # NoEvent
  /\ Len(Events) < ChannelSize
  /\ Events' = Append(Events, publishing[p])
  /\ published' = published \cup {publishing[p]}
  /\ publishing' = [publishing EXCEPT ![p] = NoEvent]
  /\ UNCHANGED <<managerVars, clientSubscriptions, ClientTimeouts, subEvents,
                 now, quit, handler, request, response, shutdown, asked>>

-----------------------------------------------------------------------------
(* Shutdown and ShutdownWithTimeout: m.stopped = true ...                  *)
Shutdown ==
  /\ Started
  /\ ~stopped
  /\ shutdown' = "closing"
  /\ UNCHANGED <<vars, response, publishing, asked>>

(* ... close(m.stopSignal) ...                                             *)
CloseStopSignal ==
  /\ shutdown = "closing"
  /\ shutdown' = "waiting"
  /\ quit' = TRUE
  /\ UNCHANGED <<managerVars, channelVars, now, handler, request, published,
                 response, publishing, asked>>

(* ... and <-m.subManager.shutdownDone ...                                 *)
ShutdownReturns ==
  /\ shutdown = "waiting"
  /\ run = "stopped"
  /\ shutdown' = "returned"
  /\ UNCHANGED <<vars, response, publishing, asked>>

(* ... unless ShutdownWithTimeout stops waiting first.                     *)
ShutdownTimesOut ==
  /\ shutdown = "waiting"
  /\ shutdown' = "timedout"
  /\ UNCHANGED <<vars, response, publishing, asked>>

Clock == Tick /\ UNCHANGED callerVars

ManagerStep == Manager /\ UNCHANGED callerVars

LongpollInit ==
  /\ Init
  /\ response = [c \in Clients |-> [status |-> "none"]]
  /\ publishing = [p \in Publishers |-> NoEvent]
  /\ shutdown = "none"
  /\ asked = [c \in Clients |-> 0]

LongpollNext ==
  \/ ManagerStep
  \/ \E c \in Clients : Handler(c)
  \/ \E p \in Publishers : Publish(p) \/ PublishSend(p)
  \/ Shutdown \/ CloseStopSignal \/ ShutdownReturns \/ ShutdownTimesOut
  \/ Clock

LongpollSpec == LongpollInit /\ [][LongpollNext]_longpollVars

(* What Go's scheduler and the select statement give each goroutine: a     *)
(* case that stays ready is taken, a blocked send proceeds when there is   *)
(* room, and a request's timeout does fire.  Nothing makes a request       *)
(* arrive, a client disconnect, anyone publish or shut down.               *)
Fairness ==
  /\ WF_longpollVars(LoadEvent /\ UNCHANGED callerVars)
  /\ WF_longpollVars(FinishLoading /\ UNCHANGED callerVars)
  /\ WF_longpollVars(RunNewClient /\ UNCHANGED callerVars)
  /\ WF_longpollVars(RunClientTimeout /\ UNCHANGED callerVars)
  /\ WF_longpollVars(RunEvent /\ UNCHANGED callerVars)
  /\ WF_longpollVars(RunQuit /\ UNCHANGED callerVars)
  /\ WF_longpollVars(DrainEvent /\ UNCHANGED callerVars)
  /\ WF_longpollVars(DrainNothing /\ UNCHANGED callerVars)
  /\ WF_longpollVars(CloseShutdownDone /\ UNCHANGED callerVars)
  /\ \A c \in Clients :
       /\ WF_longpollVars(Subscribe(c))
       /\ WF_longpollVars(Timeout(c) \/ Disconnect(c) \/ Respond(c))
       /\ WF_longpollVars(Leave(c))
  /\ \A p \in Publishers : WF_longpollVars(PublishSend(p))
  /\ WF_longpollVars(CloseStopSignal)
  /\ WF_longpollVars(ShutdownReturns \/ ShutdownTimesOut)

FairLongpollSpec == LongpollSpec /\ Fairness

-----------------------------------------------------------------------------
(* Properties.                                                             *)

LongpollTypeOK ==
  /\ handler \in [Clients -> {"idle", "subscribe", "select", "timeout",
                             "disconnect", "done"}]
  /\ response \in [Clients -> Response]
  /\ publishing \in [Publishers -> Event \cup {NoEvent}]
  /\ shutdown \in {"none", "closing", "waiting", "returned", "timedout"}
  /\ asked \in [Clients -> Nat]

(* The goroutines around the manager are an environment that               *)
(* SubscriptionManager allows.  A handler that has not sent its            *)
(* subscription yet, or never will, is idle to the manager; and one        *)
(* publisher alone puts its events in the channel in time order.           *)
AbstractHandler ==
  [c \in Clients |->
     CASE handler[c] = "subscribe" -> "idle"
       [] handler[c] \in {"timeout", "disconnect"} -> "leaving"
       [] response[c].status = "error" -> "idle"
       [] OTHER -> handler[c]]

AbstractRequest ==
  Restrict(request, {c \in DOMAIN request : handler[c] # "subscribe"})

SM == INSTANCE SubscriptionManager
        WITH handler <- AbstractHandler, request <- AbstractRequest,
             ChronologicalPublish <- Cardinality(Publishers) = 1

ImplementsManager == SM!Spec

(* As long as nobody shuts the manager down, every valid request is        *)
(* answered (or its client is gone): the manager keeps taking from the     *)
(* channels the handlers block on, whatever the other handlers do.         *)
RequestsAnswered ==
  \A c \in Clients :
    handler[c] = "subscribe" /\ ~stopped ~> handler[c] = "done" \/ stopped

(* As long as nobody shuts the manager down, Publish returns and the       *)
(* manager handles the event.                                              *)
InFlight(id) == \/ \E i \in DOMAIN Events : Events[i].ID = id
                \/ \E p \in Publishers : publishing[p] # NoEvent
                                         /\ publishing[p].ID = id

PublishedEventsHandled ==
  \A id \in EventIDs : InFlight(id) /\ ~stopped ~> ~InFlight(id) \/ stopped

(* Shutdown comes to an end, whatever is in the channels and whether or    *)
(* not an event is there to drain.                                         *)
ShutdownCompletes == stopped ~> run = "stopped" /\ shutdown \in {"returned", "timedout"}

(* With delete-on-retrieval, no expiry and room in the buffers, an event   *)
(* the manager has handled is buffered until a client has received it: a   *)
(* client that is still going to, or one that did.                         *)
ReceivedBy(c) == IF response[c].status = "events" THEN ToSet(response[c].events) ELSE {}
OnTheWayTo(c) == IF handler[c] = "select" THEN UNION {ToSet(b) : b \in ToSet(subEvents[c])}
                                          ELSE {}
DeletedOnlyWhenRetrieved ==
  \A e \in published :
    \/ e \in ToSet(Events) \cup Buffered(store)
    \/ \E c \in Clients : e \in ReceivedBy(c) \cup OnTheWayTo(c)

(* Once the manager has emptied its channels it has forgotten the clients  *)
(* whose requests are over.                                                *)
GoneClientsUnregistered ==
  run = "select" /\ clientSubscriptions = <<>> /\ ClientTimeouts = <<>> =>
    \A c \in Clients : handler[c] = "done" => ParkedIn(c) = {}

=============================================================================

------------------------- MODULE SubscriptionManager -------------------------
(***************************************************************************)
(* The pub-sub goroutine of golongpoll (longpoll.go, subscriptionManager): *)
(* StartLongpoll's pre-population, the select loop of run, the handlers it *)
(* calls, the periodic purge and the shutdown path.                        *)
(*                                                                         *)
(* The module is open: the goroutines around the manager appear as the     *)
(* environment actions Send..., Receive..., CloseQuit and Tick.  Module    *)
(* Longpoll supplies those goroutines.                                     *)
(***************************************************************************)
EXTENDS EventBuffer, GoMap

CONSTANTS
  Clients,               \* ClientUUIDs, one per HTTP subscription request
  EventTimeToLive,       \* Options.EventTimeToLiveSeconds in ms, or forever
  DeleteEventAfterFirstRetrieval,
  StaleCategoryPurgePeriod,   \* staleCategoryPurgePeriodSeconds in ms
  ChannelSize,           \* capacity of the manager's three input channels
  InitialEvents,         \* what AddOn.OnLongpollStart may send, in its order
  SinceTimes,            \* since_time values the polls may carry
  StartTime, MaxTime,    \* bounds of the clock
  ChronologicalPublish   \* events enter the channel in timestamp order

forever == -1001

ASSUME ManagerAssumption ==
  /\ EventTimeToLive \in (Nat \ {0}) \cup {forever}
  /\ DeleteEventAfterFirstRetrieval \in BOOLEAN
  /\ StaleCategoryPurgePeriod \in Nat
  /\ ChannelSize \in Nat \ {0}
  /\ InitialEvents \subseteq Seq(Event)
  /\ SinceTimes \subseteq Nat
  /\ StartTime \in Nat /\ MaxTime \in Nat
  /\ ChronologicalPublish \in BOOLEAN

VARIABLES
  now,                   \* time.Now() in ms
  run,                   \* where the manager's goroutine is
  startup,               \* StartLongpoll's locals while it pre-populates
  quit,                  \* Quit is closed
  clientSubscriptions,   \* channel of subscriptions, oldest first
  ClientTimeouts,        \* channel of clientCategoryPairs, oldest first
  Events,                \* channel of published events, oldest first
  ClientSubChannels,     \* category -> set of parked ClientUUIDs
  store,                 \* SubEventBuffer and bufferPriorityQueue
  lastStaleCategoryPurgeTime,
  subEvents,             \* per client: its subscription's Events channel
  handler,               \* where each client's HTTP handler is
  request,               \* the subscription of each handler under way
  published              \* every event ever sent or pre-populated

managerVars == <<run, startup, ClientSubChannels, store,
                 lastStaleCategoryPurgeTime>>
channelVars == <<clientSubscriptions, ClientTimeouts, Events, subEvents>>
environmentVars == <<now, quit, handler, request, published>>
vars == <<managerVars, channelVars, environmentVars>>

-----------------------------------------------------------------------------
Subscription == [ClientUUID : Clients, SubscriptionCategory : Categories,
                 LastEventTime : Nat, LastEventID : EventIDs \cup {NoID}]

HandlerStates == {"idle", "select", "leaving", "done"}
RunStates == {"loading", "panicked", "select", "draining", "closing", "stopped"}

clientCategoryPair == [ClientUUID : Clients, SubscriptionCategory : Categories]

-----------------------------------------------------------------------------
(* The event store: SubEventBuffer maps a category to its eventBuffer, and *)
(* bufferPriorityQueue maps the category of each expiringBuffer in the     *)
(* heap to its priority.  The heap's layout is PriorityQueue's concern.    *)

NoTTL == EventTimeToLive = forever

Expiration(nowMs) == nowMs - EventTimeToLive

CheckExpiredEvents(st, cat, nowMs) ==
  IF NoTTL THEN st
  ELSE [st EXCEPT !.SubEventBuffer[cat] =
          DeleteEventsOlderThan(@, Expiration(nowMs))]

(* Variant for the mutation runs: the buffer is left in the heap.          *)
DeleteBufferIfEmpty_KeepsHeap(st, cat) ==
  IF st.SubEventBuffer[cat].List # <<>> THEN st
  ELSE [st EXCEPT !.SubEventBuffer = Delete(@, {cat})]

(* Deletes the map entry and takes the buffer out of the heap.             *)
DeleteBufferIfEmpty(st, cat) ==
  IF st.SubEventBuffer[cat].List # <<>> THEN st
  ELSE [SubEventBuffer |-> Delete(st.SubEventBuffer, {cat}),
        bufferPriorityQueue |-> IF NoTTL THEN st.bufferPriorityQueue
                                ELSE Delete(st.bufferPriorityQueue, {cat})]

(* Pops buffers off the heap while the oldest priority is at or past the   *)
(* threshold, so it drops exactly the categories at or past it.            *)
PurgeStaleCategories(st, nowMs) ==
  LET stale == {cat \in DOMAIN st.bufferPriorityQueue :
                  st.bufferPriorityQueue[cat] <= Expiration(nowMs)}
  IN  IF NoTTL THEN st
      ELSE [SubEventBuffer |-> Delete(st.SubEventBuffer, stale),
            bufferPriorityQueue |-> Delete(st.bufferPriorityQueue, stale)]

(* A first event in a category creates its buffer, pushed on the heap.     *)
CreateBuffer(st, cat, nowMs) ==
  [SubEventBuffer |-> Put(st.SubEventBuffer, cat,
                          [List |-> <<>>, oldestEventTime |-> nowMs]),
   bufferPriorityQueue |-> IF NoTTL THEN st.bufferPriorityQueue
                           ELSE Put(st.bufferPriorityQueue, cat, nowMs)]

(* Variant for the mutation runs: the priority stays the creation time.    *)
QueueInBuffer_KeepsPriority(st, event) ==
  [st EXCEPT !.SubEventBuffer[event.Category] = QueueEvent(@, event)]

(* Queues the event and fixes the heap: the priority is its timestamp.     *)
QueueInBuffer(st, event) ==
  [SubEventBuffer |-> [st.SubEventBuffer EXCEPT ![event.Category] =
                         QueueEvent(@, event)],
   bufferPriorityQueue |->
     IF NoTTL THEN st.bufferPriorityQueue
     ELSE [st.bufferPriorityQueue EXCEPT ![event.Category] = event.Timestamp]]

(* handleNewEvent's effect on the store.                                   *)
StoreNewEvent(st, event, doBufferEvents, nowMs) ==
  LET cat      == event.Category
      bufFound == cat \in DOMAIN st.SubEventBuffer
      buffered == IF ~doBufferEvents THEN st
                  ELSE QueueInBuffer(IF bufFound THEN st
                                     ELSE CreateBuffer(st, cat, nowMs), event)
  IN  IF bufFound
      THEN DeleteBufferIfEmpty(CheckExpiredEvents(buffered, cat, nowMs), cat)
      ELSE buffered

(* handleNewClient's lookup: the events it answers with, if any ...        *)
Answer(st, sub, nowMs) ==
  LET cat == sub.SubscriptionCategory
  IN  IF cat \notin DOMAIN st.SubEventBuffer THEN <<>>
      ELSE GetEventsSince(CheckExpiredEvents(st, cat, nowMs).SubEventBuffer[cat],
                          sub.LastEventTime, sub.LastEventID)

(* ... and the store it leaves.                                            *)
StoreAfterAnswer(st, sub, nowMs) ==
  LET cat     == sub.SubscriptionCategory
      checked == CheckExpiredEvents(st, cat, nowMs)
      fetched == IF ~DeleteEventAfterFirstRetrieval THEN checked
                 ELSE [checked EXCEPT !.SubEventBuffer[cat] =
                         WithoutFetched(@, sub.LastEventTime, sub.LastEventID)]
  IN  IF cat \notin DOMAIN st.SubEventBuffer THEN st
      ELSE DeleteBufferIfEmpty(fetched, cat)

-----------------------------------------------------------------------------
(* Parked clients.                                                         *)
Parked(cat) == IF cat \in DOMAIN ClientSubChannels
               THEN ClientSubChannels[cat] ELSE {}

(* A send on the Events channel of each recipient.  The channel has room   *)
(* for one batch; on a full one the send, and with it the manager, blocks. *)
SendBatch(recipients, batch) ==
  /\ \A c \in recipients : subEvents[c] = <<>>
  /\ subEvents' = [c \in Clients |-> IF c \in recipients THEN <<batch>>
                                     ELSE subEvents[c]]

(* What follows every case of the select: the store becomes st, purged if  *)
(* the purge period has passed.                                            *)
SeeIfTimeToPurgeStaleCategories(st) ==
  LET due == now > lastStaleCategoryPurgeTime + StaleCategoryPurgePeriod
  IN  /\ store' = IF due THEN PurgeStaleCategories(st, now) ELSE st
      /\ lastStaleCategoryPurgeTime' = IF due THEN now
                                       ELSE lastStaleCategoryPurgeTime

(* Variant for the mutation runs: the clients go, their empty map stays.    *)
ForwardToParked_EmptiesCategory(event) ==
  LET parked == Parked(event.Category)
  IN  /\ SendBatch(parked, <<event>>)
      /\ ClientSubChannels' = IF parked = {} THEN ClientSubChannels
                              ELSE Put(ClientSubChannels, event.Category, {})

(* Variant for the mutation runs: the parked clients are not forgotten.    *)
ForwardToParked_StaysParked(event) ==
  /\ SendBatch(Parked(event.Category), <<event>>)
  /\ UNCHANGED ClientSubChannels

(* handleNewEvent's effect on the parked clients of the category: they all *)
(* get the event and are forgotten.                                        *)
ForwardToParked(event) ==
  LET parked == Parked(event.Category)
  IN  /\ SendBatch(parked, <<event>>)
      /\ ClientSubChannels' = IF parked = {} THEN ClientSubChannels
                              ELSE Delete(ClientSubChannels, {event.Category})

(* Variant for the mutation runs: a forwarded event is buffered all the    *)
(* same.                                                                   *)
DoBufferEvents_Always(event) == TRUE

(* Configured to delete on retrieval, do not buffer what is forwarded.     *)
DoBufferEvents(event) ==
  ~(DeleteEventAfterFirstRetrieval /\ Parked(event.Category) # {})

-----------------------------------------------------------------------------
(* StartLongpoll reads the add-on's events until the channel is closed. An *)
(* event older than its predecessor makes it panic; one already past the   *)
(* TTL when loading began is skipped.                                      *)
LoadEvent ==
  /\ run = "loading"
  /\ startup.startChan # <<>>
  /\ LET event == Head(startup.startChan)
         next  == [startup EXCEPT !.startChan = Tail(@),
                                  !.currentEventTime = event.Timestamp]
     IN  \/ /\ event.Timestamp < startup.currentEventTime
            /\ run' = "panicked"
            /\ UNCHANGED <<startup, store>>
         \/ /\ event.Timestamp >= startup.currentEventTime
            /\ startup' = next
            /\ store' = IF event.Timestamp > startup.cutoffTime
                        THEN StoreNewEvent(store, event, TRUE, now)
                        ELSE store
            /\ UNCHANGED run
  /\ UNCHANGED <<ClientSubChannels, lastStaleCategoryPurgeTime, channelVars,
                 environmentVars>>

FinishLoading ==
  /\ run = "loading"
  /\ startup.startChan = <<>>
  /\ store' = PurgeStaleCategories(store, now)
  /\ run' = "select"
  /\ UNCHANGED <<startup, ClientSubChannels, lastStaleCategoryPurgeTime,
                 channelVars, environmentVars>>

(* case newClient := <-sm.clientSubscriptions                              *)
RunNewClient ==
  /\ run = "select"
  /\ clientSubscriptions # <<>>
  /\ LET sub    == Head(clientSubscriptions)
         cat    == sub.SubscriptionCategory
         events == Answer(store, sub, now)
     IN  /\ \/ /\ events # <<>>
               /\ SendBatch({sub.ClientUUID}, events)
               /\ UNCHANGED ClientSubChannels
            \/ /\ events = <<>>
               /\ ClientSubChannels' =
                    Put(ClientSubChannels, cat, Parked(cat) \cup {sub.ClientUUID})
               /\ UNCHANGED subEvents
         /\ SeeIfTimeToPurgeStaleCategories(StoreAfterAnswer(store, sub, now))
  /\ clientSubscriptions' = Tail(clientSubscriptions)
  /\ UNCHANGED <<run, startup, ClientTimeouts, Events, environmentVars>>

(* Variant for the mutation runs: a pair of an unknown category is not     *)
(* taken off the channel.                                                  *)
RunClientTimeout_KnownOnly ==
  /\ run = "select"
  /\ ClientTimeouts # <<>>
  /\ Head(ClientTimeouts).SubscriptionCategory \in DOMAIN ClientSubChannels
  /\ ClientTimeouts' = Tail(ClientTimeouts)
  /\ UNCHANGED <<managerVars, clientSubscriptions, Events, subEvents,
                 environmentVars>>

(* case disconnected := <-sm.ClientTimeouts                                *)
RunClientTimeout ==
  /\ run = "select"
  /\ ClientTimeouts # <<>>
  /\ LET pair == Head(ClientTimeouts)
         cat  == pair.SubscriptionCategory
         left == Parked(cat) \ {pair.ClientUUID}
     IN  ClientSubChannels' =
           IF cat \notin DOMAIN ClientSubChannels THEN ClientSubChannels
           ELSE IF left = {} THEN Delete(ClientSubChannels, {cat})
           ELSE Put(ClientSubChannels, cat, left)
  /\ SeeIfTimeToPurgeStaleCategories(store)
  /\ ClientTimeouts' = Tail(ClientTimeouts)
  /\ UNCHANGED <<run, startup, clientSubscriptions, Events, subEvents,
                 environmentVars>>

(* Variant for the mutation runs: the last event is left in the channel.   *)
RunEvent_LeavesLast ==
  /\ run = "select"
  /\ Len(Events) > 1
  /\ ForwardToParked(Head(Events))
  /\ SeeIfTimeToPurgeStaleCategories(
       StoreNewEvent(store, Head(Events), DoBufferEvents(Head(Events)), now))
  /\ Events' = Tail(Events)
  /\ UNCHANGED <<run, startup, clientSubscriptions, ClientTimeouts,
                 environmentVars>>

(* case event := <-sm.Events                                               *)
RunEvent ==
  /\ run = "select"
  /\ Events # <<>>
  /\ LET event == Head(Events)
     IN  /\ ForwardToParked(event)
         /\ SeeIfTimeToPurgeStaleCategories(
              StoreNewEvent(store, event, DoBufferEvents(event), now))
  /\ Events' = Tail(Events)
  /\ UNCHANGED <<run, startup, clientSubscriptions, ClientTimeouts,
                 environmentVars>>

(* case <-timer.C                                                          *)
RunTimer ==
  /\ run = "select"
  /\ SeeIfTimeToPurgeStaleCategories(store)
  /\ UNCHANGED <<run, startup, ClientSubChannels, channelVars,
                 environmentVars>>

(* case _ = <-sm.Quit                                                      *)
RunQuit ==
  /\ run = "select"
  /\ quit
  /\ run' = "draining"
  /\ UNCHANGED <<startup, ClientSubChannels, store,
                 lastStaleCategoryPurgeTime, channelVars, environmentVars>>

(* On the way out the manager takes one more event if there is one ...     *)
DrainEvent ==
  /\ run = "draining"
  /\ Events # <<>>
  /\ LET event == Head(Events)
     IN  /\ ForwardToParked(event)
         /\ store' = StoreNewEvent(store, event, DoBufferEvents(event), now)
  /\ Events' = Tail(Events)
  /\ run' = "closing"
  /\ UNCHANGED <<startup, lastStaleCategoryPurgeTime, clientSubscriptions,
                 ClientTimeouts, environmentVars>>

(* Variant for the mutation runs: it waits for that event however long.    *)
DrainNothing_Never == FALSE /\ UNCHANGED vars

(* ... or gives up after a millisecond.  If the goroutine is held up for   *)
(* that long before its select, both cases are ready and either may run.   *)
DrainNothing ==
  /\ run = "draining"
  /\ run' = "closing"
  /\ UNCHANGED <<startup, ClientSubChannels, store,
                 lastStaleCategoryPurgeTime, channelVars, environmentVars>>

(* AddOn.OnShutdown returns and shutdownDone is closed.                    *)
CloseShutdownDone ==
  /\ run = "closing"
  /\ run' = "stopped"
  /\ UNCHANGED <<startup, ClientSubChannels, store,
                 lastStaleCategoryPurgeTime, channelVars, environmentVars>>

Manager ==
  \/ LoadEvent \/ FinishLoading
  \/ RunNewClient \/ RunClientTimeout \/ RunEvent \/ RunTimer
  \/ RunQuit \/ DrainEvent \/ DrainNothing \/ CloseShutdownDone

-----------------------------------------------------------------------------
(* The environment: HTTP handlers, publishers, Shutdown and the clock.     *)

Started == run \notin {"loading", "panicked"}

ToPair(sub) == [ClientUUID |-> sub.ClientUUID,
                SubscriptionCategory |-> sub.SubscriptionCategory]

(* subscriptionRequests <- subscription                                    *)
SendSubscription(sub) ==
  /\ Started
  /\ handler[sub.ClientUUID] = "idle"
  /\ Len(clientSubscriptions) < ChannelSize
  /\ clientSubscriptions' = Append(clientSubscriptions, sub)
  /\ handler' = [handler EXCEPT ![sub.ClientUUID] = "select"]
  /\ request' = Put(request, sub.ClientUUID, sub)
  /\ UNCHANGED <<managerVars, ClientTimeouts, Events, subEvents,
                 now, quit, published>>

(* The handler picks its timeout case or its disconnectNotify case: from   *)
(* here on it cannot receive events any more ...                           *)
LeaveSelect(c) ==
  /\ handler[c] = "select"
  /\ handler' = [handler EXCEPT ![c] = "leaving"]
  /\ UNCHANGED <<managerVars, channelVars, now, quit, request, published>>

(* ... and tells the manager: clientTimeouts <- &clientCategoryPair        *)
SendTimeout(c) ==
  /\ handler[c] = "leaving"
  /\ Len(ClientTimeouts) < ChannelSize
  /\ ClientTimeouts' = Append(ClientTimeouts, ToPair(request[c]))
  /\ handler' = [handler EXCEPT ![c] = "done"]
  /\ request' = Delete(request, {c})
  /\ UNCHANGED <<managerVars, clientSubscriptions, Events, subEvents,
                 now, quit, published>>

(* case events := <-subscription.Events                                    *)
ReceiveEvents(c) ==
  /\ handler[c] = "select"
  /\ subEvents[c] # <<>>
  /\ subEvents' = [subEvents EXCEPT ![c] = Tail(@)]
  /\ handler' = [handler EXCEPT ![c] = "done"]
  /\ request' = Delete(request, {c})
  /\ UNCHANGED <<managerVars, clientSubscriptions, ClientTimeouts, Events,
                 now, quit, published>>

(* m.eventsIn <- &Event{...}, stamped some time before.                    *)
SendEvent(event) ==
  /\ Started
  /\ event.Timestamp <= now
  /\ \A e \in published : e.ID # event.ID
  /\ Len(Events) < ChannelSize
  /\ Events' = Append(Events, event)
  /\ published' = published \cup {event}
  /\ UNCHANGED <<managerVars, clientSubscriptions, ClientTimeouts, subEvents,
                 now, quit, handler, request>>

(* Whether event is stamped no earlier than what was published before it.  *)
InOrder(event) == \A e \in published : e.Timestamp <= event.Timestamp

(* close(m.stopSignal)                                                     *)
CloseQuit ==
  /\ Started
  /\ ~quit
  /\ quit' = TRUE
  /\ UNCHANGED <<managerVars, channelVars, now, handler, request, published>>

Tick ==
  /\ now < MaxTime
  /\ now' = now + 1
  /\ UNCHANGED <<managerVars, channelVars, quit, handler, request, published>>

(* since_time is any time a client may name, or by default a past reading  *)
(* of the clock; last_id names an event published before.                  *)
PollTimes == SinceTimes \cup StartTime .. now
KnownIDs  == {NoID} \cup {e.ID : e \in published}

Environment ==
  \/ \E c \in Clients, cat \in Categories, since \in PollTimes, id \in KnownIDs :
       SendSubscription([ClientUUID |-> c, SubscriptionCategory |-> cat,
                         LastEventTime |-> since, LastEventID |-> id])
  \/ \E c \in Clients : LeaveSelect(c) \/ SendTimeout(c) \/ ReceiveEvents(c)
  \/ \E ts \in StartTime .. now, cat \in Categories, id \in EventIDs :
       LET event == [Timestamp |-> ts, Category |-> cat, ID |-> id]
       IN  /\ ChronologicalPublish => InOrder(event)
           /\ SendEvent(event)
  \/ CloseQuit
  \/ Tick

-----------------------------------------------------------------------------
Init ==
  /\ now = StartTime
  /\ run = "loading"
  /\ \E events \in InitialEvents :
       /\ startup = [startChan |-> events, currentEventTime |-> 0,
                     cutoffTime |-> IF NoTTL THEN 0 ELSE Expiration(StartTime)]
       /\ published = ToSet(events)
  /\ quit = FALSE
  /\ clientSubscriptions = <<>> /\ ClientTimeouts = <<>> /\ Events = <<>>
  /\ ClientSubChannels = EmptyMap
  /\ store = [SubEventBuffer |-> EmptyMap, bufferPriorityQueue |-> EmptyMap]
  /\ lastStaleCategoryPurgeTime = StartTime
  /\ subEvents = [c \in Clients |-> <<>>]
  /\ handler = [c \in Clients |-> "idle"]
  /\ request = EmptyMap

Next == Manager \/ Environment

Spec == Init /\ [][Next]_vars

-----------------------------------------------------------------------------
(* Properties.                                                             *)

IsStore(st) ==
  /\ st = [SubEventBuffer |-> st.SubEventBuffer,
           bufferPriorityQueue |-> st.bufferPriorityQueue]
  /\ IsMap(st.SubEventBuffer, Categories, eventBuffer)
  /\ IsMap(st.bufferPriorityQueue, Categories, Int)

(* Every variable keeps its type, through every handler of the manager.    *)
TypeOK ==
  /\ now \in Nat
  /\ run \in RunStates
  /\ startup \in [startChan : Seq(Event), currentEventTime : Nat,
                  cutoffTime : Int]
  /\ quit \in BOOLEAN
  /\ clientSubscriptions \in Seq(Subscription)
  /\ ClientTimeouts \in Seq(clientCategoryPair)
  /\ Events \in Seq(Event)
  /\ IsMap(ClientSubChannels, Categories, (SUBSET Clients) \ {{}})
  /\ IsStore(store)
  /\ lastStaleCategoryPurgeTime \in Nat
  /\ subEvents \in [Clients -> Seq(Seq(Event))]
  /\ handler \in [Clients -> HandlerStates]
  /\ IsMap(request, Clients, Subscription)
  /\ published \subseteq Event

(* What SubEventBuffer and the heap promise each other.                    *)
HeapIndexesBuffers(st) ==
  DOMAIN st.bufferPriorityQueue = IF NoTTL THEN {} ELSE DOMAIN st.SubEventBuffer

WellFormedBuffer(eb, cat) ==
  /\ eb.List # <<>>
  /\ Len(eb.List) <= MaxEventBufferSize
  /\ eb.oldestEventTime = Last(eb.List).Timestamp
  /\ \A i \in DOMAIN eb.List : eb.List[i].Category = cat

PriorityIsNewest(st) ==
  DeleteEventAfterFirstRetrieval \/
  \A cat \in DOMAIN st.bufferPriorityQueue :
    st.bufferPriorityQueue[cat] = Head(st.SubEventBuffer[cat].List).Timestamp

StoreOK(st) ==
  /\ HeapIndexesBuffers(st)
  /\ \A cat \in DOMAIN st.SubEventBuffer :
       WellFormedBuffer(st.SubEventBuffer[cat], cat)
  /\ PriorityIsNewest(st)

(* Between two steps of the manager the category map and the heap hold the *)
(* same buffers, none is empty, over capacity, holds another category's    *)
(* event or caches a wrong oldestEventTime, and a buffer's priority is the *)
(* time of its newest event (with delete-on-retrieval that event may have  *)
(* been served already).  A buffer missed by either index would never be   *)
(* purged, or be purged while the map still serves it.                     *)
StoreConsistent == StoreOK(store)

Queued(c) == {i \in DOMAIN clientSubscriptions :
                clientSubscriptions[i].ClientUUID = c}

ParkedIn(c) == {cat \in DOMAIN ClientSubChannels : c \in ClientSubChannels[cat]}

(* A subscription is in one place at a time: queued for the manager, then  *)
(* parked in its own category or sent its one batch.  So its channel of    *)
(* capacity one is empty whenever the manager sends on it, and the manager *)
(* never blocks on a client, gone or not.                                  *)
OneShotChannels ==
  \A c \in Clients :
    /\ Len(subEvents[c]) <= 1
    /\ Cardinality(Queued(c)) + Cardinality(ParkedIn(c)) + Len(subEvents[c]) <= 1
    /\ handler[c] = "idle" =>
         Queued(c) = {} /\ ParkedIn(c) = {} /\ subEvents[c] = <<>>
    /\ c \in DOMAIN request =>
         ParkedIn(c) \subseteq {request[c].SubscriptionCategory}

(* While a poll waits, nothing in the buffer of its category is newer than *)
(* its cursor: what was there is sent at once, what came later went to it. *)
(* It needs events to be queued in time order.                             *)
NoParkedClientMissesData ==
  \A c \in DOMAIN request : \A cat \in ParkedIn(c) :
    cat \in DOMAIN store.SubEventBuffer =>
      \A e \in ToSet(store.SubEventBuffer[cat].List) :
        e.Timestamp <= request[c].LastEventTime

(* With delete-on-retrieval an event that was handed to a client is gone:  *)
(* it is in no buffer and no poll to come can be answered with it.         *)
ServedEventsAreGone ==
  DeleteEventAfterFirstRetrieval =>
    \A c \in Clients : \A batch \in ToSet(subEvents[c]) : \A e \in ToSet(batch) :
      /\ e \notin ToSet(Events)
      /\ \A cat \in DOMAIN store.SubEventBuffer :
           e \notin ToSet(store.SubEventBuffer[cat].List)

Buffered(st) == UNION {ToSet(st.SubEventBuffer[cat].List) :
                         cat \in DOMAIN st.SubEventBuffer}

Expired(e) == ~NoTTL /\ e.Timestamp <= Expiration(now)

(* An event leaves its buffer only because its time to live is over,       *)
(* because a full buffer made room for a newer event, or because it was    *)
(* served with delete-on-retrieval.  In particular the purge by the heap's *)
(* priorities drops no category that still holds a live event.             *)
LeavesForAReason(e) ==
  \/ Expired(e)
  \/ /\ Len(store.SubEventBuffer[e.Category].List) = MaxEventBufferSize
     /\ e = Last(store.SubEventBuffer[e.Category].List)
     /\ Events' # Events /\ Head(Events).Category = e.Category
  \/ /\ DeleteEventAfterFirstRetrieval
     /\ \E c \in Clients : \E batch \in ToSet(subEvents'[c]) : e \in ToSet(batch)

NoLiveEventDropped ==
  [][run # "loading" =>
       \A e \in Buffered(store) \ Buffered(store)' : LeavesForAReason(e)]_vars

(* When StartLongpoll is done, no category holds only expired events, and  *)
(* every event of the add-on that is alive is buffered, or its category is *)
(* full of events at least as new.                                         *)
StartupKeepsNewestLive ==
  [][run = "loading" /\ run' = "select" =>
       /\ \A cat \in DOMAIN store'.SubEventBuffer :
            \E e \in ToSet(store'.SubEventBuffer[cat].List) : ~Expired(e)
       /\ \A e \in published :
            e.Timestamp > startup.cutoffTime /\ ~Expired(e) =>
              \/ e \in Buffered(store')
              \/ /\ Len(store'.SubEventBuffer[e.Category].List) = MaxEventBufferSize
                 /\ \A f \in ToSet(store'.SubEventBuffer[e.Category].List) :
                      f.Timestamp >= e.Timestamp]_vars

(* A poll answered from the buffer gets events past its cursor, none of    *)
(* them expired, oldest first.                                             *)
AnswersAreFresh ==
  [][\A sub \in ToSet(clientSubscriptions) :
       LET batch == Head(subEvents'[sub.ClientUUID])
       IN  subEvents'[sub.ClientUUID] # subEvents[sub.ClientUUID] =>
             /\ \A i \in DOMAIN batch :
                  /\ ~Expired(batch[i])
                  /\ batch[i].Category = sub.SubscriptionCategory
                  /\ batch[i].Timestamp >= sub.LastEventTime
             /\ \A i, j \in DOMAIN batch :
                  i < j => batch[i].Timestamp <= batch[j].Timestamp]_vars

(* A poll that names the event it saw last is answered with exactly the    *)
(* events queued after it, however many share its millisecond: if the      *)
(* named event is in the buffer and has not expired, all that is in front  *)
(* of it, and if that is nothing, the poll waits.                          *)
ResumesAfter(sub, list) ==
  \A i \in DOMAIN list :
    /\ list[i].ID = sub.LastEventID
    /\ list[i].Timestamp = sub.LastEventTime
    /\ ~Expired(list[i])
    => subEvents'[sub.ClientUUID] =
         IF i = 1 THEN <<>> ELSE <<Reverse(SubSeq(list, 1, i - 1))>>

ResumesExactlyAfterLastID ==
  [][run = "select" /\ clientSubscriptions' # clientSubscriptions
       /\ clientSubscriptions # <<>>
       /\ Len(clientSubscriptions') < Len(clientSubscriptions) =>
       LET sub == Head(clientSubscriptions)
           cat == sub.SubscriptionCategory
       IN  cat \in DOMAIN store.SubEventBuffer =>
             ResumesAfter(sub, store.SubEventBuffer[cat].List)]_vars

=============================================================================

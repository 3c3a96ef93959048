---------------------------- MODULE LongpollProofs ----------------------------
(***************************************************************************)
(* The goroutines of a running LongpollManager do to the subscription      *)
(* manager what SubscriptionManager allows its environment, and no more:   *)
(* ImplementsManager, for every number of requests, publishers, categories *)
(* and events and every capacity of the channels.  What is proved of       *)
(* SubscriptionManager so holds of the running server.                     *)
(***************************************************************************)
EXTENDS Longpoll, SubscriptionManagerProofs

-----------------------------------------------------------------------------
(* SM renames the definitions of SubscriptionManager.  Those that do not   *)
(* speak of handlers and requests mean the same under both names.          *)

LEMMA SameHelpers ==
  /\ SM!EmptyMap = EmptyMap
  /\ SM!Event = Event
  /\ \A s : SM!ToSet(s) = ToSet(s)
  /\ \A s : SM!Last(s) = Last(s)
  /\ \A s : SM!Front(s) = Front(s)
  /\ \A s : SM!Reverse(s) = Reverse(s)
  /\ \A s, e : SM!Cons(s, e) = Cons(s, e)
  /\ \A s : SM!Max(s) = Max(s)
  /\ \A m, k, v : SM!Put(m, k, v) = Put(m, k, v)
  /\ \A m, k : SM!Delete(m, k) = Delete(m, k)
  /\ SM!NoTTL <=> NoTTL
  /\ \A n : SM!Expiration(n) = Expiration(n)
<1>1. SM!EmptyMap = EmptyMap
  BY DEF SM!EmptyMap, EmptyMap
<1>2. SM!Event = Event
  BY DEF SM!Event, Event
<1>3. \A s : SM!ToSet(s) = ToSet(s)
  BY DEF SM!ToSet, ToSet
<1>4. \A s : SM!Last(s) = Last(s) /\ SM!Front(s) = Front(s)
  BY DEF SM!Last, Last, SM!Front, Front
<1>5. \A s : SM!Reverse(s) = Reverse(s)
  BY DEF SM!Reverse, Reverse
<1>6. \A s, e : SM!Cons(s, e) = Cons(s, e)
  BY DEF SM!Cons, Cons
<1>7. \A s : SM!Max(s) = Max(s)
  BY DEF SM!Max, Max
<1>8. \A m, k, v : SM!Put(m, k, v) = Put(m, k, v)
  BY DEF SM!Put, Put
<1>9. \A m, k : SM!Delete(m, k) = Delete(m, k)
  BY DEF SM!Delete, Delete, SM!Restrict, Restrict
<1>10. (SM!NoTTL <=> NoTTL) /\ \A n : SM!Expiration(n) = Expiration(n)
  BY DEF SM!NoTTL, NoTTL, SM!forever, forever, SM!Expiration, Expiration
<1> QED
  BY <1>1, <1>2, <1>3, <1>4, <1>5, <1>6, <1>7, <1>8, <1>9, <1>10

LEMMA SameBuffers ==
  /\ \A eb, event : SM!QueueEvent(eb, event) = QueueEvent(eb, event)
  /\ \A eb, since, id :
       SM!GetEventsSince(eb, since, id) = GetEventsSince(eb, since, id)
  /\ \A eb, since, id :
       SM!WithoutFetched(eb, since, id) = WithoutFetched(eb, since, id)
  /\ \A eb, t : SM!DeleteEventsOlderThan(eb, t) = DeleteEventsOlderThan(eb, t)
<1>1. \A eb, event : SM!QueueEvent(eb, event) = QueueEvent(eb, event)
  BY SameHelpers DEF SM!QueueEvent, QueueEvent
<1>2. \A list, since, id : SM!AfterLen(list, since, id) = AfterLen(list, since, id)
  BY SameHelpers DEF SM!AfterLen, AfterLen, SM!IsAfter, IsAfter
<1>3. \A list, t : SM!LiveLen(list, t) = LiveLen(list, t)
  BY SameHelpers DEF SM!LiveLen, LiveLen
<1>4. \A eb, since, id :
        SM!GetEventsSince(eb, since, id) = GetEventsSince(eb, since, id)
  BY <1>2, SameHelpers DEF SM!GetEventsSince, GetEventsSince
<1>5. \A eb, since, id :
        SM!WithoutFetched(eb, since, id) = WithoutFetched(eb, since, id)
  BY <1>2 DEF SM!WithoutFetched, WithoutFetched
<1>6. \A eb, t : SM!DeleteEventsOlderThan(eb, t) = DeleteEventsOlderThan(eb, t)
  BY <1>3, SameHelpers DEF SM!DeleteEventsOlderThan, DeleteEventsOlderThan
<1> QED
  BY <1>1, <1>4, <1>5, <1>6

LEMMA SameStores ==
  /\ \A st, event, buffer, n :
       SM!StoreNewEvent(st, event, buffer, n) = StoreNewEvent(st, event, buffer, n)
  /\ \A st, n : SM!PurgeStaleCategories(st, n) = PurgeStaleCategories(st, n)
  /\ \A st, sub, n : SM!Answer(st, sub, n) = Answer(st, sub, n)
  /\ \A st, sub, n : SM!StoreAfterAnswer(st, sub, n) = StoreAfterAnswer(st, sub, n)
<1>1. \A st, cat, n :
        SM!CheckExpiredEvents(st, cat, n) = CheckExpiredEvents(st, cat, n)
  BY SameHelpers, SameBuffers DEF SM!CheckExpiredEvents, CheckExpiredEvents
<1>2. \A st, cat : SM!DeleteBufferIfEmpty(st, cat) = DeleteBufferIfEmpty(st, cat)
  BY SameHelpers DEF SM!DeleteBufferIfEmpty, DeleteBufferIfEmpty
<1>3. \A st, n : SM!PurgeStaleCategories(st, n) = PurgeStaleCategories(st, n)
  BY SameHelpers DEF SM!PurgeStaleCategories, PurgeStaleCategories
<1>4. \A st, cat, n : SM!CreateBuffer(st, cat, n) = CreateBuffer(st, cat, n)
  BY SameHelpers DEF SM!CreateBuffer, CreateBuffer
<1>5. \A st, event : SM!QueueInBuffer(st, event) = QueueInBuffer(st, event)
  BY SameHelpers, SameBuffers DEF SM!QueueInBuffer, QueueInBuffer
<1>6. \A st, event, buffer, n :
        SM!StoreNewEvent(st, event, buffer, n) = StoreNewEvent(st, event, buffer, n)
  BY <1>1, <1>2, <1>4, <1>5 DEF SM!StoreNewEvent, StoreNewEvent
<1>7. \A st, sub, n : SM!Answer(st, sub, n) = Answer(st, sub, n)
  BY <1>1, SameBuffers DEF SM!Answer, Answer
<1>8. \A st, sub, n : SM!StoreAfterAnswer(st, sub, n) = StoreAfterAnswer(st, sub, n)
  BY <1>1, <1>2, SameBuffers DEF SM!StoreAfterAnswer, StoreAfterAnswer
<1> QED
  BY <1>3, <1>6, <1>7, <1>8

LEMMA SameParts ==
  /\ \A cat : SM!Parked(cat) = Parked(cat)
  /\ \A recipients, batch : SM!SendBatch(recipients, batch) <=> SendBatch(recipients, batch)
  /\ \A st : SM!SeeIfTimeToPurgeStaleCategories(st)
               <=> SeeIfTimeToPurgeStaleCategories(st)
  /\ \A event : SM!ForwardToParked(event) <=> ForwardToParked(event)
  /\ \A event : SM!DoBufferEvents(event) = DoBufferEvents(event)
  /\ SM!Started <=> Started
<1>1. \A cat : SM!Parked(cat) = Parked(cat)
  BY DEF SM!Parked, Parked
<1>2. \A recipients, batch : SM!SendBatch(recipients, batch) <=> SendBatch(recipients, batch)
  BY DEF SM!SendBatch, SendBatch
<1>3. \A st : SM!SeeIfTimeToPurgeStaleCategories(st)
                <=> SeeIfTimeToPurgeStaleCategories(st)
  BY SameStores DEF SM!SeeIfTimeToPurgeStaleCategories, SeeIfTimeToPurgeStaleCategories
<1>4. \A event : SM!ForwardToParked(event) <=> ForwardToParked(event)
  BY <1>1, <1>2, SameHelpers DEF SM!ForwardToParked, ForwardToParked
<1>5. \A event : SM!DoBufferEvents(event) = DoBufferEvents(event)
  BY <1>1 DEF SM!DoBufferEvents, DoBufferEvents
<1>6. SM!Started <=> Started
  BY DEF SM!Started, Started
<1> QED
  BY <1>1, <1>2, <1>3, <1>4, <1>5, <1>6

-----------------------------------------------------------------------------
(* The manager's steps.                                                    *)

SMEnvironmentUnchanged ==
  UNCHANGED <<now, quit, AbstractHandler, AbstractRequest, published>>

LEMMA SameLoading ==
  ASSUME SMEnvironmentUnchanged, LoadEvent \/ FinishLoading
  PROVE  SM!LoadEvent \/ SM!FinishLoading
<1> USE DEF SMEnvironmentUnchanged, SM!environmentVars, SM!channelVars, channelVars
<1>1. CASE LoadEvent
  BY <1>1, SameStores DEF LoadEvent, SM!LoadEvent
<1>2. CASE FinishLoading
  BY <1>2, SameStores DEF FinishLoading, SM!FinishLoading
<1> QED
  BY <1>1, <1>2

LEMMA SameSelect ==
  ASSUME SMEnvironmentUnchanged
  PROVE  /\ RunNewClient => SM!RunNewClient
         /\ RunClientTimeout => SM!RunClientTimeout
         /\ RunEvent => SM!RunEvent
         /\ RunTimer => SM!RunTimer
<1> USE DEF SMEnvironmentUnchanged, SM!environmentVars, SM!channelVars, channelVars
<1>1. RunNewClient => SM!RunNewClient
  BY SameHelpers, SameStores, SameParts DEF RunNewClient, SM!RunNewClient
<1>2. RunClientTimeout => SM!RunClientTimeout
  BY SameHelpers, SameParts DEF RunClientTimeout, SM!RunClientTimeout
<1>3. RunEvent => SM!RunEvent
  BY SameStores, SameParts DEF RunEvent, SM!RunEvent
<1>4. RunTimer => SM!RunTimer
  BY SameParts DEF RunTimer, SM!RunTimer
<1> QED
  BY <1>1, <1>2, <1>3, <1>4

LEMMA SameShutdown ==
  ASSUME SMEnvironmentUnchanged
  PROVE  /\ RunQuit => SM!RunQuit
         /\ DrainEvent => SM!DrainEvent
         /\ DrainNothing => SM!DrainNothing
         /\ CloseShutdownDone => SM!CloseShutdownDone
<1> USE DEF SMEnvironmentUnchanged, SM!environmentVars, SM!channelVars, channelVars
<1>1. RunQuit => SM!RunQuit
  BY DEF RunQuit, SM!RunQuit
<1>2. DrainEvent => SM!DrainEvent
  BY SameStores, SameParts DEF DrainEvent, SM!DrainEvent
<1>3. DrainNothing => SM!DrainNothing
  BY DEF DrainNothing, SM!DrainNothing
<1>4. CloseShutdownDone => SM!CloseShutdownDone
  BY DEF CloseShutdownDone, SM!CloseShutdownDone
<1> QED
  BY <1>1, <1>2, <1>3, <1>4

LEMMA SameManager == Manager /\ UNCHANGED callerVars => SM!Manager
<1> SUFFICES ASSUME Manager, UNCHANGED callerVars PROVE SM!Manager
  OBVIOUS
<1>1. UNCHANGED <<now, quit, handler, request, published, response>>
  BY ManagerLeavesEnvironment DEF environmentVars, callerVars
<1>2. SMEnvironmentUnchanged
  BY <1>1 DEF SMEnvironmentUnchanged, AbstractHandler, AbstractRequest
<1> QED
  BY <1>2, SameLoading, SameSelect, SameShutdown DEF Manager, SM!Manager

-----------------------------------------------------------------------------
(* The invariant of the running server.                                    *)

Stages == {"idle", "subscribe", "select", "timeout", "disconnect", "done"}

(* A request is under way from the moment its parameters are accepted; it  *)
(* then carries its own client's ID and a cursor that the manager's        *)
(* environment may name.                                                   *)
Requests ==
  /\ handler \in [Clients -> Stages]
  /\ response \in [Clients -> Response]
  /\ asked \in [Clients -> Nat]
  /\ IsMap(request, Clients, Subscription)
  /\ \A c \in Clients :
       /\ c \in DOMAIN request <=> handler[c] \notin {"idle", "done"}
       /\ c \in DOMAIN request => request[c].ClientUUID = c
       /\ response[c].status = "error" => handler[c] = "done"
       /\ handler[c] = "subscribe" => /\ Started
                                      /\ request[c].LastEventTime \in PollTimes
                                      /\ request[c].LastEventID \in KnownIDs

(* An event that Publish has made and not sent yet is like no other.       *)
Pending(p) == publishing[p] # NoEvent

Publishings ==
  /\ publishing \in [Publishers -> Event \cup {NoEvent}]
  /\ \A p \in Publishers : Pending(p) =>
       /\ Started
       /\ publishing[p].Timestamp \in StartTime .. now
       /\ \A e \in published : e.ID # publishing[p].ID
       /\ \A q \in Publishers : Pending(q) /\ q # p =>
            publishing[q].ID # publishing[p].ID

Stopping ==
  /\ shutdown \in {"none", "closing", "waiting", "returned", "timedout"}
  /\ shutdown = "none" => ~quit
  /\ shutdown = "closing" => ~quit /\ Started

LInv == MInv /\ StartTime <= now /\ Requests /\ Publishings /\ Stopping

LEMMA InitEstablishesLInv == LongpollInit => LInv
<1> SUFFICES ASSUME LongpollInit PROVE LInv
  OBVIOUS
<1>1. MInv /\ Init
  BY InitEstablishesMInv DEF LongpollInit
<1>2. StartTime <= now
  BY <1>1, ManagerAssumption DEF Init
<1>3. Requests
  <2>1. [status |-> "none"] \in Response
    BY DEF Response
  <2> QED
    BY <1>1, <2>1 DEF LongpollInit, Init, Requests, Stages, IsMap, EmptyMap
<1>4. Publishings
  BY DEF LongpollInit, Publishings, Pending
<1>5. Stopping
  BY <1>1 DEF LongpollInit, Init, Stopping
<1> QED
  BY <1>1, <1>2, <1>3, <1>4, <1>5 DEF LInv

(* What a step of one part of the system leaves true of the others.        *)

LEMMA RequestsFrame ==
  ASSUME Requests, UNCHANGED <<handler, request, response, asked>>,
         now \in Nat, now' \in Nat, now <= now', published \subseteq published',
         Started => Started'
  PROVE  Requests'
<1>1. PollTimes \subseteq PollTimes' /\ KnownIDs \subseteq KnownIDs'
  BY ManagerAssumption DEF PollTimes, KnownIDs
<1> QED
  BY <1>1 DEF Requests

LEMMA PublishingsFrame ==
  ASSUME Publishings, UNCHANGED <<publishing, published>>,
         now \in Nat, now' \in Nat, now <= now', Started => Started'
  PROVE  Publishings'
<1>1. \A t : t \in StartTime .. now => t \in StartTime .. now'
  BY ManagerAssumption
<1> QED
  BY <1>1 DEF Publishings, Pending

LEMMA MInvFrame ==
  ASSUME MInv, UNCHANGED managerVars, now' \in Nat, quit' \in BOOLEAN,
         clientSubscriptions' \in Seq(Subscription),
         ClientTimeouts' \in Seq(clientCategoryPair), Events' \in Seq(Event),
         subEvents' \in [Clients -> Seq(Seq(Event))], published' \subseteq Event
  PROVE  MInv'
<1>1. ManagerTypeOK'
  BY DEF MInv, ManagerTypeOK, managerVars
<1>2. StoreConsistent'
  BY DEF MInv, StoreConsistent, managerVars
<1> QED
  BY <1>1, <1>2 DEF MInv

LEMMA ManagerStaysStarted == Manager => (Started => Started')
BY DEF Manager, LoadEvent, FinishLoading, RunNewClient, RunClientTimeout, RunEvent,
       RunTimer, RunQuit, DrainEvent, DrainNothing, CloseShutdownDone, Started

LEMMA ManagerStepKeepsLInv == LInv /\ ManagerStep => LInv'
<1> SUFFICES ASSUME LInv, ManagerStep PROVE LInv'
  OBVIOUS
<1>1. MInv' /\ (Started => Started')
  BY ManagerKeeps, ManagerStaysStarted DEF LInv, ManagerStep
<1>2. UNCHANGED <<now, quit, handler, request, published, response, publishing,
                  shutdown, asked>>
  BY ManagerLeavesEnvironment DEF ManagerStep, environmentVars, callerVars
<1>3. now \in Nat
  BY DEF LInv, MInv, ManagerTypeOK
<1>4. now <= now' /\ now' \in Nat
  BY <1>2, <1>3
<1>5. Requests'
  BY <1>1, <1>2, <1>3, <1>4, RequestsFrame DEF LInv
<1>6. Publishings'
  BY <1>1, <1>2, <1>3, <1>4, PublishingsFrame DEF LInv
<1>7. Stopping' /\ (StartTime <= now)'
  BY <1>1, <1>2 DEF LInv, Stopping
<1> QED
  BY <1>1, <1>5, <1>6, <1>7 DEF LInv

LEMMA ClockKeepsLInv == LInv /\ Clock => LInv'
<1> SUFFICES ASSUME LInv, Clock PROVE LInv'
  OBVIOUS
<1>1. now \in Nat /\ now' = now + 1
  BY DEF LInv, MInv, ManagerTypeOK, Clock, Tick
<1>2. now' \in Nat /\ now <= now' /\ (StartTime <= now)'
  BY <1>1, ManagerAssumption DEF LInv
<1>3. MInv'
  BY <1>2, MInvFrame DEF LInv, MInv, ManagerTypeOK, Clock, Tick, channelVars
<1>4. Started <=> Started'
  BY DEF Clock, Tick, managerVars, Started
<1>5. Requests'
  BY <1>1, <1>2, <1>4, RequestsFrame DEF LInv, Clock, Tick, callerVars
<1>6. Publishings'
  BY <1>1, <1>2, <1>4, PublishingsFrame DEF LInv, Clock, Tick, callerVars
<1>7. Stopping'
  BY <1>4 DEF LInv, Stopping, Clock, Tick, callerVars
<1> QED
  BY <1>2, <1>3, <1>5, <1>6, <1>7 DEF LInv

LEMMA ShutdownKeepsLInv ==
  LInv /\ (Shutdown \/ CloseStopSignal \/ ShutdownReturns \/ ShutdownTimesOut) => LInv'
<1> SUFFICES ASSUME LInv, Shutdown \/ CloseStopSignal \/ ShutdownReturns \/ ShutdownTimesOut
             PROVE  LInv'
  OBVIOUS
<1> USE DEF vars, managerVars, channelVars, environmentVars
<1>1. /\ UNCHANGED <<managerVars, channelVars, now, handler, request, published,
                     response, publishing, asked>>
      /\ now \in Nat /\ now <= now' /\ now' \in Nat
  BY DEF Shutdown, CloseStopSignal, ShutdownReturns, ShutdownTimesOut,
         LInv, MInv, ManagerTypeOK
<1>2. quit' = quit \/ quit' = TRUE
  BY DEF Shutdown, CloseStopSignal, ShutdownReturns, ShutdownTimesOut
<1>3. quit' \in BOOLEAN
  <2>1. quit \in BOOLEAN
    BY DEF LInv, MInv, ManagerTypeOK
  <2> QED
    BY <1>2, <2>1, Zenon
<1>4. MInv'
  BY <1>1, <1>3, MInvFrame DEF LInv, MInv, ManagerTypeOK
<1>5. Started <=> Started'
  BY <1>1 DEF Started
<1>6. Requests' /\ Publishings'
  BY <1>1, <1>5, RequestsFrame, PublishingsFrame DEF LInv
<1>7. Stopping'
  BY <1>1, <1>5 DEF LInv, Stopping, stopped,
                    Shutdown, CloseStopSignal, ShutdownReturns, ShutdownTimesOut
<1> QED
  BY <1>1, <1>4, <1>6, <1>7 DEF LInv

-----------------------------------------------------------------------------
(* The HTTP handlers.                                                      *)

LEMMA RequestTypes ==
  ASSUME LInv, NEW c \in DOMAIN request
  PROVE  /\ c \in Clients /\ request[c] \in Subscription
         /\ ToPair(request[c]) \in clientCategoryPair
<1>1. c \in Clients /\ request[c] \in Subscription
  BY DEF LInv, Requests, IsMap
<1> QED
  BY <1>1 DEF ToPair, Subscription, clientCategoryPair

LEMMA BufferedInType ==
  ASSUME MInv, NEW cat
  PROVE  Len(BufferedIn(cat)) \in Nat
<1>1. BufferedIn(cat) \in Seq(Event)
  BY BufferType, EmptySeq DEF MInv, ManagerTypeOK, BufferedIn
<1> QED
  BY <1>1, LenProperties

LEMMA BatchType ==
  ASSUME MInv, NEW c \in Clients, subEvents[c] # <<>>
  PROVE  Head(subEvents[c]) \in Seq(Event) /\ Tail(subEvents[c]) \in Seq(Seq(Event))
<1>1. subEvents[c] \in Seq(Seq(Event))
  BY DEF MInv, ManagerTypeOK
<1> QED
  BY <1>1, HeadTailProperties

LEMMA RejectKeepsRequests ==
  ASSUME LInv, NEW c \in Clients, Reject(c)
  PROVE  Requests'
<1>1. [status |-> "error"] \in Response
  BY DEF Response
<1>2. UNCHANGED <<run, now, published, request>>
  BY DEF Reject, managerVars
<1>3. PollTimes' = PollTimes /\ KnownIDs' = KnownIDs /\ (Started' <=> Started)
  BY <1>2 DEF PollTimes, KnownIDs, Started
<1> QED
  BY <1>1, <1>2, <1>3 DEF LInv, Requests, Reject, Responded, Stages

LEMMA NewClientSubscriptionKeepsRequests ==
  ASSUME LInv, NEW c \in Clients, NewClientSubscription(c)
  PROVE  Requests'
<1>1. PICK cat \in Categories,
           cursor \in {<<now, NoID>>} \cup (SinceTimes \X KnownIDs) :
        /\ request' = Put(request, c,
                         [ClientUUID |-> c, SubscriptionCategory |-> cat,
                          LastEventTime |-> cursor[1], LastEventID |-> cursor[2]])
        /\ asked' = [asked EXCEPT ![c] = Len(BufferedIn(cat))]
  BY DEF NewClientSubscription
<1> DEFINE sub == [ClientUUID |-> c, SubscriptionCategory |-> cat,
                   LastEventTime |-> cursor[1], LastEventID |-> cursor[2]]
<1>2. /\ now \in Nat /\ published \subseteq Event /\ StartTime <= now
      /\ StartTime \in Nat /\ SinceTimes \subseteq Nat
  BY ManagerAssumption DEF LInv, MInv, ManagerTypeOK
<1>3. KnownIDs \subseteq EventIDs \cup {NoID} /\ NoID \in KnownIDs
  BY <1>2 DEF KnownIDs, Event
<1>4. cursor[1] \in PollTimes /\ cursor[1] \in Nat /\ cursor[2] \in KnownIDs
  <2>1. now \in PollTimes /\ SinceTimes \subseteq PollTimes
    BY <1>2 DEF PollTimes
  <2>2. CASE cursor = <<now, NoID>>
    BY <1>2, <1>3, <2>1, <2>2
  <2>3. CASE cursor \in SinceTimes \X KnownIDs
    BY <1>2, <2>1, <2>3
  <2> QED
    BY <2>2, <2>3
<1>5. sub \in Subscription
  BY <1>3, <1>4 DEF Subscription
<1>6. UNCHANGED <<run, now, published, response>>
  BY DEF NewClientSubscription, managerVars
<1>7. PollTimes' = PollTimes /\ KnownIDs' = KnownIDs /\ (Started' <=> Started)
  BY <1>6 DEF PollTimes, KnownIDs, Started
<1>8. Len(BufferedIn(cat)) \in Nat
  BY BufferedInType DEF LInv
<1> HIDE DEF sub
<1>9. /\ request' = Put(request, c, sub)
      /\ sub.ClientUUID = c /\ sub.LastEventTime \in PollTimes
      /\ sub.LastEventID \in KnownIDs
  BY <1>1, <1>4 DEF sub
<1>10. /\ IsMap(request', Clients, Subscription)
       /\ DOMAIN request' = DOMAIN request \cup {c}
       /\ request'[c] = sub
       /\ \A d \in DOMAIN request : d # c => request'[d] = request[d]
  BY <1>5, <1>9 DEF Put, IsMap, LInv, Requests
<1>11. Started /\ handler[c] = "idle" /\ handler' = [handler EXCEPT ![c] = "subscribe"]
  BY DEF NewClientSubscription
<1>12. asked' \in [Clients -> Nat] /\ handler' \in [Clients -> Stages]
  BY <1>1, <1>8, <1>11 DEF LInv, Requests, Stages
<1> QED
  BY <1>6, <1>7, <1>9, <1>10, <1>11, <1>12 DEF LInv, Requests

(* The handler moves on and its request stays the same.                    *)
LEMMA StageKeepsRequests ==
  ASSUME LInv, NEW c \in Clients, NEW stage \in {"select", "timeout", "disconnect"},
         handler[c] \in {"subscribe", "select"},
         handler' = [handler EXCEPT ![c] = stage],
         UNCHANGED <<managerVars, now, request, published, response, asked>>
  PROVE  Requests'
<1>1. PollTimes' = PollTimes /\ KnownIDs' = KnownIDs /\ (Started' <=> Started)
  BY DEF PollTimes, KnownIDs, Started, managerVars
<1> QED
  BY <1>1 DEF LInv, Requests, Stages

(* The request is answered.                                                *)
LEMMA DoneKeepsRequests ==
  ASSUME LInv, NEW c \in Clients, NEW r \in Response, Responded(c, r),
         handler' = [handler EXCEPT ![c] = "done"], request' = Delete(request, {c}),
         UNCHANGED <<managerVars, now, published>>
  PROVE  Requests'
<1>1. PollTimes' = PollTimes /\ KnownIDs' = KnownIDs /\ (Started' <=> Started)
  BY DEF PollTimes, KnownIDs, Started, managerVars
<1>2. /\ IsMap(request', Clients, Subscription)
      /\ DOMAIN request' = DOMAIN request \ {c}
      /\ \A d \in DOMAIN request' : request'[d] = request[d]
  BY DEF Delete, Restrict, IsMap, LInv, Requests
<1>3. /\ response' \in [Clients -> Response] /\ asked' \in [Clients -> Nat]
      /\ handler' \in [Clients -> Stages]
      /\ \A d \in Clients \ {c} : response'[d] = response[d] /\ handler'[d] = handler[d]
      /\ handler'[c] = "done"
  BY DEF LInv, Requests, Responded, Stages
<1> QED
  BY <1>1, <1>2, <1>3 DEF LInv, Requests

LEMMA HandlerKeepsRequests ==
  ASSUME LInv, NEW c \in Clients, Handler(c)
  PROVE  Requests'
<1>1. CASE Reject(c)
  BY <1>1, RejectKeepsRequests
<1>2. CASE NewClientSubscription(c)
  BY <1>2, NewClientSubscriptionKeepsRequests
<1>3. CASE Subscribe(c)
  BY <1>3, StageKeepsRequests DEF Subscribe, callerVars
<1>4. CASE Timeout(c)
  BY <1>4, StageKeepsRequests DEF Timeout, callerVars
<1>5. CASE Disconnect(c)
  BY <1>5, StageKeepsRequests DEF Disconnect, callerVars
<1>6. CASE Leave(c)
  <2> DEFINE r == IF handler[c] = "timeout" THEN [status |-> "timeout", timestamp |-> now]
                                            ELSE [status |-> "gone"]
  <2>1. r \in Response
    BY DEF Response, LInv, MInv, ManagerTypeOK
  <2>2. Responded(c, r)
    BY <1>6 DEF Leave
  <2> HIDE DEF r
  <2> QED
    BY <1>6, <2>1, <2>2, DoneKeepsRequests DEF Leave
<1>7. CASE Respond(c)
  <2> DEFINE r == [status |-> "events", events |-> Head(subEvents[c])]
  <2>1. r \in Response
    BY <1>7, BatchType DEF Response, LInv, Respond
  <2>2. Responded(c, r)
    BY <1>7 DEF Respond
  <2> HIDE DEF r
  <2> QED
    BY <1>7, <2>1, <2>2, DoneKeepsRequests DEF Respond
<1> QED
  BY <1>1, <1>2, <1>3, <1>4, <1>5, <1>6, <1>7 DEF Handler

LEMMA HandlerKeepsLInv ==
  ASSUME LInv, NEW c \in Clients, Handler(c)
  PROVE  LInv'
<1>1. /\ UNCHANGED <<managerVars, Events, now, quit, published, publishing, shutdown>>
      /\ now \in Nat
  BY DEF Handler, Reject, NewClientSubscription, Subscribe, Timeout, Disconnect, Leave,
         Respond, channelVars, callerVars, LInv, MInv, ManagerTypeOK
<1>2. /\ clientSubscriptions \in Seq(Subscription)
      /\ ClientTimeouts \in Seq(clientCategoryPair)
      /\ subEvents \in [Clients -> Seq(Seq(Event))]
      /\ Events \in Seq(Event) /\ quit \in BOOLEAN /\ published \subseteq Event
  BY DEF LInv, MInv, ManagerTypeOK
<1>3. /\ clientSubscriptions' \in Seq(Subscription)
      /\ ClientTimeouts' \in Seq(clientCategoryPair)
      /\ subEvents' \in [Clients -> Seq(Seq(Event))]
  <2>1. CASE UNCHANGED <<clientSubscriptions, ClientTimeouts, subEvents>>
    BY <1>2, <2>1
  <2>2. CASE Subscribe(c)
    <3>1. c \in DOMAIN request
      BY <2>2 DEF Subscribe, LInv, Requests
    <3> QED
      BY <1>2, <2>2, <3>1, RequestTypes, AppendProperties DEF Subscribe
  <2>3. CASE Leave(c)
    <3>1. c \in DOMAIN request
      BY <2>3 DEF Leave, LInv, Requests
    <3> QED
      BY <1>2, <2>3, <3>1, RequestTypes, AppendProperties DEF Leave
  <2>4. CASE Respond(c)
    BY <1>2, <2>4, BatchType DEF Respond, LInv
  <2> QED
    BY <2>1, <2>2, <2>3, <2>4
       DEF Handler, Reject, NewClientSubscription, Timeout, Disconnect, channelVars
<1>4. MInv'
  BY <1>1, <1>2, <1>3, MInvFrame DEF LInv
<1>5. Started <=> Started'
  BY <1>1 DEF Started, managerVars
<1>6. Publishings'
  BY <1>1, <1>5, PublishingsFrame DEF LInv
<1>7. Stopping' /\ (StartTime <= now)'
  BY <1>1, <1>5 DEF LInv, Stopping
<1> QED
  BY <1>4, <1>6, <1>7, HandlerKeepsRequests DEF LInv

-----------------------------------------------------------------------------
(* The publishers.                                                         *)

LEMMA PublishKeepsLInv ==
  ASSUME LInv, NEW p \in Publishers, Publish(p)
  PROVE  LInv'
<1> USE DEF vars, managerVars, channelVars, environmentVars
<1>1. PICK cat \in Categories, id \in EventIDs \ UsedIDs :
        publishing' = [publishing EXCEPT ![p] =
                         [Timestamp |-> now, Category |-> cat, ID |-> id]]
  BY DEF Publish
<1> DEFINE event == [Timestamp |-> now, Category |-> cat, ID |-> id]
<1>2. /\ now \in Nat /\ now <= now' /\ now' = now /\ StartTime \in Nat /\ StartTime <= now
      /\ UNCHANGED <<vars, response, shutdown, asked>> /\ Started
      /\ publishing \in [Publishers -> Event \cup {NoEvent}]
  BY ManagerAssumption DEF Publish, LInv, MInv, ManagerTypeOK, Publishings
<1>3. event \in Event /\ event # NoEvent /\ event.Timestamp \in StartTime .. now
  BY <1>2, LongpollAssumption DEF Event
<1>4. /\ \A e \in published : e.ID # event.ID
      /\ \A q \in Publishers : Pending(q) => publishing[q].ID # event.ID
  BY DEF UsedIDs, Pending
<1> HIDE DEF event
<1>5. publishing' = [publishing EXCEPT ![p] = event]
  BY <1>1 DEF event
<1>6. Publishings'
  <2>1. publishing' \in [Publishers -> Event \cup {NoEvent}]
    BY <1>2, <1>3, <1>5
  <2>2. ASSUME NEW q \in Publishers
        PROVE  publishing'[q] = IF q = p THEN event ELSE publishing[q]
    BY <1>2, <1>5
  <2>3. UNCHANGED <<published, now>> /\ (Started' <=> Started)
    BY <1>2 DEF Started
  <2> QED
    BY <1>2, <1>3, <1>4, <2>1, <2>2, <2>3 DEF LInv, Publishings, Pending
<1>7. MInv'
  BY <1>2, MInvFrame DEF LInv, MInv, ManagerTypeOK
<1>8. Started <=> Started'
  BY <1>2 DEF Started
<1>9. Requests'
  BY <1>2, <1>8, RequestsFrame DEF LInv
<1>10. Stopping' /\ (StartTime <= now)'
  BY <1>2, <1>8 DEF LInv, Stopping
<1> QED
  BY <1>6, <1>7, <1>9, <1>10 DEF LInv

LEMMA PublishSendKeepsLInv ==
  ASSUME LInv, NEW p \in Publishers, PublishSend(p)
  PROVE  LInv'
<1> USE DEF managerVars, callerVars
<1> DEFINE event == publishing[p]
<1>1. /\ Pending(p) /\ Events' = Append(Events, event)
      /\ published' = published \cup {event}
      /\ publishing' = [publishing EXCEPT ![p] = NoEvent]
      /\ UNCHANGED <<managerVars, clientSubscriptions, ClientTimeouts, subEvents,
                     now, quit, handler, request, response, shutdown, asked>>
  BY DEF PublishSend, Pending
<1>2. /\ now \in Nat /\ now <= now' /\ Events \in Seq(Event) /\ published \subseteq Event
      /\ publishing \in [Publishers -> Event \cup {NoEvent}] /\ event \in Event
  BY <1>1 DEF LInv, MInv, ManagerTypeOK, Publishings, Pending
<1>3. Events' \in Seq(Event) /\ published' \subseteq Event
  BY <1>1, <1>2, AppendProperties
<1>4. MInv'
  BY <1>1, <1>2, <1>3, MInvFrame DEF LInv, MInv, ManagerTypeOK
<1>5. Started <=> Started'
  BY <1>1 DEF Started
<1>6. Requests'
  BY <1>1, <1>2, <1>5, RequestsFrame DEF LInv
<1>7. Publishings'
  <2>1. publishing' \in [Publishers -> Event \cup {NoEvent}]
    BY <1>1, <1>2
  <2>2. ASSUME NEW q \in Publishers, Pending(q)'
        PROVE  q # p /\ Pending(q) /\ publishing'[q] = publishing[q]
    BY <1>1, <1>2, <2>2 DEF Pending
  <2>3. ASSUME NEW q \in Publishers, Pending(q)'
        PROVE  /\ Started' /\ publishing'[q].Timestamp \in StartTime .. now'
               /\ \A e \in published' : e.ID # publishing'[q].ID
               /\ \A r \in Publishers : Pending(r)' /\ r # q =>
                    publishing'[r].ID # publishing'[q].ID
    BY <1>1, <1>5, <2>2, <2>3 DEF LInv, Publishings
  <2> QED
    BY <2>1, <2>3 DEF Publishings
<1>8. Stopping' /\ (StartTime <= now)'
  BY <1>1, <1>5 DEF LInv, Stopping
<1> QED
  BY <1>4, <1>6, <1>7, <1>8 DEF LInv

LEMMA LongpollNextKeepsLInv == LInv /\ [LongpollNext]_longpollVars => LInv'
<1>1. LInv /\ UNCHANGED longpollVars => LInv'
  BY DEF LInv, MInv, ManagerTypeOK, StoreConsistent, Requests, Publishings, Pending, Stopping,
         PollTimes, KnownIDs, Started,
         longpollVars, vars, managerVars, channelVars, environmentVars
<1> QED
  BY <1>1, ManagerStepKeepsLInv, ClockKeepsLInv, ShutdownKeepsLInv, HandlerKeepsLInv,
     PublishKeepsLInv, PublishSendKeepsLInv DEF LongpollNext

LEMMA LongpollInvariance == LongpollSpec => []LInv
BY InitEstablishesLInv, LongpollNextKeepsLInv, PTL DEF LongpollSpec

(* Every variable of the callers keeps its type: what a request is         *)
(* answered with is a sequence of events, a timestamp or an error, and     *)
(* what a publisher has under way is an event, whatever the manager does.  *)
THEOREM LongpollTypeCorrect == LongpollSpec => []LongpollTypeOK
<1>1. LInv => LongpollTypeOK
  BY DEF LInv, Requests, Publishings, Stopping, Stages, LongpollTypeOK
<1> QED
  BY <1>1, LongpollInvariance, PTL

-----------------------------------------------------------------------------
(* One publisher alone sends in the order in which it stamps its events,   *)
(* if no event of the add-on is from the future.                           *)

LonePublisher == Cardinality(Publishers) = 1

NoFutureEvents ==
  \A events \in InitialEvents : \A i \in 1 .. Len(events) :
    events[i].Timestamp <= StartTime

InTime ==
  LonePublisher =>
    /\ \A e \in published : e.Timestamp <= now
    /\ \A p \in Publishers : Pending(p) =>
         \A e \in published : e.Timestamp <= publishing[p].Timestamp

LEMMA LonePublisherIsAlone ==
  ASSUME LonePublisher, NEW p \in Publishers, NEW q \in Publishers
  PROVE  p = q
<1>1. PICK x : Publishers = {x}
  BY FS_Singleton, LongpollAssumption DEF LonePublisher
<1> QED
  BY <1>1

LEMMA InitInTime ==
  ASSUME LonePublisher => NoFutureEvents
  PROVE  LongpollInit => InTime
<1> SUFFICES ASSUME LongpollInit, LonePublisher PROVE InTime
  BY DEF InTime
<1>1. PICK events \in InitialEvents : published = ToSet(events)
  BY DEF LongpollInit, Init
<1>2. DOMAIN events = 1 .. Len(events)
  BY ManagerAssumption, LenProperties
<1>3. \A e \in published : e.Timestamp <= now
  BY <1>1, <1>2 DEF ToSet, NoFutureEvents, LongpollInit, Init
<1> QED
  BY <1>3 DEF InTime, LongpollInit, Pending

LEMMA InTimeKept == LInv /\ InTime /\ [LongpollNext]_longpollVars => InTime'
<1> SUFFICES ASSUME LInv, InTime, [LongpollNext]_longpollVars, LonePublisher
             PROVE  InTime'
  BY DEF InTime
<1>1. /\ published \subseteq Event /\ now \in Nat
      /\ \A e \in published : e.Timestamp \in Nat /\ e.Timestamp <= now
      /\ publishing \in [Publishers -> Event \cup {NoEvent}]
  BY DEF LInv, MInv, ManagerTypeOK, Publishings, InTime, Event
<1>2. CASE UNCHANGED <<published, publishing>> /\ (now' = now \/ now' = now + 1)
  BY <1>1, <1>2 DEF InTime, Pending
<1>3. ASSUME NEW p \in Publishers, Publish(p) PROVE InTime'
  <2>1. /\ UNCHANGED <<published, now>>
        /\ publishing'[p].Timestamp = now
        /\ \A q \in Publishers : q = p
    BY <1>1, <1>3, LonePublisherIsAlone DEF Publish, vars, environmentVars
  <2> QED
    BY <1>1, <2>1 DEF InTime
<1>4. ASSUME NEW p \in Publishers, PublishSend(p) PROVE InTime'
  <2>1. /\ published' = published \cup {publishing[p]} /\ now' = now
        /\ publishing' = [publishing EXCEPT ![p] = NoEvent]
        /\ publishing[p].Timestamp \in StartTime .. now
    BY <1>4 DEF PublishSend, LInv, Publishings, Pending
  <2>2. \A q \in Publishers : ~Pending(q)'
    BY <1>1, <2>1, LonePublisherIsAlone DEF Pending
  <2>3. \A e \in published' : e.Timestamp <= now'
    BY <1>1, <2>1
  <2> QED
    BY <2>2, <2>3 DEF InTime
<1>5. ASSUME NEW c \in Clients, Handler(c) PROVE UNCHANGED <<published, publishing, now>>
  BY <1>5 DEF Handler, Reject, NewClientSubscription, Subscribe, Timeout, Disconnect, Leave,
              Respond, callerVars
<1>6. CASE ManagerStep
  BY <1>2, <1>6, ManagerLeavesEnvironment DEF ManagerStep, environmentVars, callerVars
<1>7. CASE Shutdown \/ CloseStopSignal \/ ShutdownReturns \/ ShutdownTimesOut \/ Clock
           \/ UNCHANGED longpollVars
  BY <1>2, <1>7 DEF Shutdown, CloseStopSignal, ShutdownReturns, ShutdownTimesOut, Clock, Tick,
                    callerVars, longpollVars, vars, environmentVars
<1> QED
  BY <1>2, <1>3, <1>4, <1>5, <1>6, <1>7 DEF LongpollNext

-----------------------------------------------------------------------------
(* The handlers as the manager sees them.                                  *)

Stage(h, r) ==
  CASE h = "subscribe" -> "idle"
    [] h \in {"timeout", "disconnect"} -> "leaving"
    [] r.status = "error" -> "idle"
    [] OTHER -> h

LEMMA StageOf ==
  ASSUME NEW h, NEW r
  PROVE  /\ h = "subscribe" /\ r.status # "error" => Stage(h, r) = "idle"
         /\ h \in {"timeout", "disconnect"} /\ r.status # "error" => Stage(h, r) = "leaving"
         /\ h \in {"idle", "select", "done"} /\ r.status # "error" => Stage(h, r) = h
         /\ h = "done" /\ r.status = "error" => Stage(h, r) = "idle"
BY DEF Stage

LEMMA HandlerStages ==
  /\ AbstractHandler = [c \in Clients |-> Stage(handler[c], response[c])]
  /\ AbstractHandler' = [c \in Clients |-> Stage(handler'[c], response'[c])]
BY DEF AbstractHandler, Stage

LEMMA HandlerMoves ==
  ASSUME NEW c \in Clients, NEW stage,
         \A d \in Clients : d # c => handler'[d] = handler[d] /\ response'[d] = response[d],
         Stage(handler'[c], response'[c]) = stage
  PROVE  AbstractHandler' = [AbstractHandler EXCEPT ![c] = stage]
BY HandlerStages

(* No handler with a request under way has answered yet.                   *)
LEMMA StageNow ==
  ASSUME LInv, NEW c \in Clients
  PROVE  /\ handler[c] # "done" => response[c].status # "error"
         /\ AbstractHandler[c] = Stage(handler[c], response[c])
         /\ handler[c] \in {"idle", "subscribe"} => AbstractHandler[c] = "idle"
         /\ handler[c] = "select" => AbstractHandler[c] = "select"
         /\ handler[c] \in {"timeout", "disconnect"} => AbstractHandler[c] = "leaving"
<1>1. handler[c] # "done" => response[c].status # "error"
  BY DEF LInv, Requests
<1>2. AbstractHandler[c] = Stage(handler[c], response[c])
  BY HandlerStages
<1> QED
  BY <1>1, <1>2, StageOf

-----------------------------------------------------------------------------
(* What each step is to the manager.                                       *)

SMUnchanged == UNCHANGED <<managerVars, channelVars, SM!environmentVars>>

LEMMA SMStutters == SMUnchanged => UNCHANGED SM!vars
BY DEF SMUnchanged, SM!vars, SM!managerVars, SM!channelVars, managerVars, channelVars

(* A request that is refused, and one that is still on its way to the      *)
(* manager, is nothing to it.                                              *)
LEMMA RejectStutters ==
  ASSUME LInv, NEW c \in Clients, Reject(c)
  PROVE  SMUnchanged
<1>1. /\ handler[c] = "idle" /\ handler' = [handler EXCEPT ![c] = "done"]
      /\ response' = [response EXCEPT ![c] = [status |-> "error"]]
      /\ UNCHANGED <<managerVars, channelVars, now, quit, request, published>>
      /\ handler \in [Clients -> Stages] /\ response \in [Clients -> Response]
      /\ c \notin DOMAIN request /\ DOMAIN request \subseteq Clients
  BY DEF Reject, Responded, LInv, Requests, IsMap
<1>2. AbstractHandler' = [AbstractHandler EXCEPT ![c] = "idle"]
  <2>1. Stage(handler'[c], response'[c]) = "idle"
    BY <1>1, StageOf
  <2> QED
    BY <1>1, <2>1, HandlerMoves
<1>3. AbstractHandler' = AbstractHandler
  BY <1>1, <1>2, StageNow, HandlerStages
<1>4. AbstractRequest' = AbstractRequest
  BY <1>1 DEF AbstractRequest, Restrict
<1> QED
  BY <1>1, <1>3, <1>4 DEF SMUnchanged, SM!environmentVars

LEMMA NewClientSubscriptionStutters ==
  ASSUME LInv, NEW c \in Clients, NewClientSubscription(c)
  PROVE  SMUnchanged
<1>1. /\ handler[c] = "idle" /\ handler' = [handler EXCEPT ![c] = "subscribe"]
      /\ UNCHANGED <<managerVars, channelVars, now, quit, response, published>>
      /\ handler \in [Clients -> Stages]
      /\ c \notin DOMAIN request /\ DOMAIN request \subseteq Clients
  BY DEF NewClientSubscription, LInv, Requests, IsMap
<1>2. AbstractHandler' = [AbstractHandler EXCEPT ![c] = "idle"]
  <2>1. response[c].status # "error"
    BY <1>1, StageNow
  <2>2. Stage(handler'[c], response'[c]) = "idle"
    BY <1>1, <2>1, StageOf
  <2> QED
    BY <1>1, <2>2, HandlerMoves
<1>3. AbstractHandler' = AbstractHandler
  BY <1>1, <1>2, StageNow, HandlerStages
<1>4. AbstractRequest' = AbstractRequest
  <2>1. PICK sub : request' = Put(request, c, sub)
    BY DEF NewClientSubscription
  <2>2. /\ DOMAIN request' = DOMAIN request \cup {c}
        /\ \A d \in DOMAIN request : d # c => request'[d] = request[d]
    BY <2>1 DEF Put
  <2> QED
    BY <1>1, <2>2 DEF AbstractRequest, Restrict
<1> QED
  BY <1>1, <1>3, <1>4 DEF SMUnchanged, SM!environmentVars

LEMMA SubscribeSends ==
  ASSUME LInv, NEW c \in Clients, Subscribe(c)
  PROVE  SM!SendSubscription(request[c])
<1>1. /\ handler[c] = "subscribe" /\ handler' = [handler EXCEPT ![c] = "select"]
      /\ Len(clientSubscriptions) < ChannelSize
      /\ clientSubscriptions' = Append(clientSubscriptions, request[c])
      /\ UNCHANGED <<managerVars, ClientTimeouts, Events, subEvents, now, quit,
                     request, published, response>>
      /\ handler \in [Clients -> Stages]
      /\ c \in DOMAIN request /\ request[c].ClientUUID = c /\ Started
      /\ DOMAIN request \subseteq Clients
  BY DEF Subscribe, callerVars, LInv, Requests, IsMap
<1>2. AbstractHandler[c] = "idle" /\ response[c].status # "error"
  BY <1>1, StageNow
<1>3. AbstractHandler' = [AbstractHandler EXCEPT ![c] = "select"]
  <2>1. Stage(handler'[c], response'[c]) = "select"
    BY <1>1, <1>2, StageOf
  <2> QED
    BY <1>1, <2>1, HandlerMoves
<1>4. AbstractRequest' = Put(AbstractRequest, c, request[c])
  BY <1>1 DEF AbstractRequest, Restrict, Put
<1> HIDE DEF AbstractHandler, AbstractRequest
<1> QED
  BY <1>1, <1>2, <1>3, <1>4, SameHelpers, SameParts
     DEF SM!SendSubscription, SM!managerVars, managerVars

(* A request that moves on in the select keeps its subscription.           *)
LEMMA LeavesSelect ==
  ASSUME LInv, NEW c \in Clients, Timeout(c) \/ Disconnect(c)
  PROVE  SM!LeaveSelect(c)
<1>1. /\ handler[c] = "select"
      /\ handler' = [handler EXCEPT ![c] = "timeout"]
           \/ handler' = [handler EXCEPT ![c] = "disconnect"]
      /\ UNCHANGED <<managerVars, channelVars, now, quit, request, published, response>>
      /\ handler \in [Clients -> Stages] /\ DOMAIN request \subseteq Clients
  BY DEF Timeout, Disconnect, callerVars, LInv, Requests, IsMap
<1>2. AbstractHandler[c] = "select" /\ response[c].status # "error"
  BY <1>1, StageNow
<1>3. AbstractHandler' = [AbstractHandler EXCEPT ![c] = "leaving"]
  <2>1. Stage(handler'[c], response'[c]) = "leaving"
    BY <1>1, <1>2, StageOf
  <2> QED
    BY <1>1, <2>1, HandlerMoves
<1>4. AbstractRequest' = AbstractRequest
  BY <1>1 DEF AbstractRequest, Restrict
<1> HIDE DEF AbstractHandler, AbstractRequest
<1> QED
  BY <1>1, <1>2, <1>3, <1>4
     DEF SM!LeaveSelect, SM!managerVars, managerVars, SM!channelVars, channelVars

(* The answered request of a handler past its subscription is forgotten.   *)
LEMMA DoneForgets ==
  ASSUME LInv, NEW c \in Clients, NEW r, r.status # "error",
         handler[c] \in {"select", "timeout", "disconnect"},
         handler' = [handler EXCEPT ![c] = "done"],
         response' = [response EXCEPT ![c] = r],
         request' = Delete(request, {c})
  PROVE  /\ AbstractHandler' = [AbstractHandler EXCEPT ![c] = "done"]
         /\ AbstractRequest' = Delete(AbstractRequest, {c})
         /\ AbstractRequest[c] = request[c]
<1>1. /\ handler \in [Clients -> Stages] /\ response \in [Clients -> Response]
      /\ c \in DOMAIN request /\ DOMAIN request \subseteq Clients
  BY DEF LInv, Requests, IsMap
<1>2. AbstractHandler' = [AbstractHandler EXCEPT ![c] = "done"]
  <2>1. Stage(handler'[c], response'[c]) = "done"
    BY <1>1, StageOf
  <2> QED
    BY <1>1, <2>1, HandlerMoves
<1>3. AbstractRequest' = Delete(AbstractRequest, {c})
  BY <1>1 DEF AbstractRequest, Restrict, Delete
<1>4. AbstractRequest[c] = request[c]
  BY <1>1 DEF AbstractRequest, Restrict
<1> QED
  BY <1>2, <1>3, <1>4

LEMMA LeaveSendsTimeout ==
  ASSUME LInv, NEW c \in Clients, Leave(c)
  PROVE  SM!SendTimeout(c)
<1> DEFINE r == IF handler[c] = "timeout" THEN [status |-> "timeout", timestamp |-> now]
                                          ELSE [status |-> "gone"]
<1>1. /\ handler[c] \in {"timeout", "disconnect"}
      /\ handler' = [handler EXCEPT ![c] = "done"]
      /\ response' = [response EXCEPT ![c] = r]
      /\ request' = Delete(request, {c})
      /\ Len(ClientTimeouts) < ChannelSize
      /\ ClientTimeouts' = Append(ClientTimeouts, ToPair(request[c]))
      /\ UNCHANGED <<managerVars, clientSubscriptions, Events, subEvents, now, quit,
                     published>>
  BY DEF Leave, Responded
<1>2. r.status # "error"
  OBVIOUS
<1> HIDE DEF r
<1>3. AbstractHandler[c] = "leaving"
  BY <1>1, StageNow
<1>4. /\ AbstractHandler' = [AbstractHandler EXCEPT ![c] = "done"]
      /\ AbstractRequest' = Delete(AbstractRequest, {c})
      /\ AbstractRequest[c] = request[c]
  BY <1>1, <1>2, DoneForgets
<1>5. SM!ToPair(AbstractRequest[c]) = ToPair(request[c])
  BY <1>4 DEF SM!ToPair, ToPair
<1> HIDE DEF AbstractHandler, AbstractRequest
<1> QED
  BY <1>1, <1>3, <1>4, <1>5, SameHelpers DEF SM!SendTimeout, SM!managerVars, managerVars

LEMMA RespondReceives ==
  ASSUME LInv, NEW c \in Clients, Respond(c)
  PROVE  SM!ReceiveEvents(c)
<1> DEFINE r == [status |-> "events", events |-> Head(subEvents[c])]
<1>1. /\ handler[c] = "select" /\ subEvents[c] # <<>>
      /\ handler' = [handler EXCEPT ![c] = "done"]
      /\ response' = [response EXCEPT ![c] = r]
      /\ request' = Delete(request, {c})
      /\ subEvents' = [subEvents EXCEPT ![c] = Tail(@)]
      /\ UNCHANGED <<managerVars, clientSubscriptions, ClientTimeouts, Events, now, quit,
                     published>>
  BY DEF Respond, Responded
<1>2. r.status # "error"
  OBVIOUS
<1> HIDE DEF r
<1>3. AbstractHandler[c] = "select"
  BY <1>1, StageNow
<1>4. /\ AbstractHandler' = [AbstractHandler EXCEPT ![c] = "done"]
      /\ AbstractRequest' = Delete(AbstractRequest, {c})
  BY <1>1, <1>2, DoneForgets
<1> HIDE DEF AbstractHandler, AbstractRequest
<1> QED
  BY <1>1, <1>3, <1>4, SameHelpers DEF SM!ReceiveEvents, SM!managerVars, managerVars

(* What a publisher sends is an event the manager has not seen, stamped no *)
(* later than now; a lone publisher's is in order.                         *)
LEMMA PublishSendSends ==
  ASSUME LInv, InTime, NEW p \in Publishers, PublishSend(p)
  PROVE  /\ SM!SendEvent(publishing[p])
         /\ LonePublisher => SM!InOrder(publishing[p])
         /\ publishing[p] \in Event
         /\ publishing[p].Timestamp \in StartTime .. now
<1>1. /\ Pending(p)
      /\ Len(Events) < ChannelSize /\ Events' = Append(Events, publishing[p])
      /\ published' = published \cup {publishing[p]}
      /\ UNCHANGED <<managerVars, clientSubscriptions, ClientTimeouts, subEvents, now, quit,
                     handler, request, response>>
  BY DEF PublishSend, Pending
<1>2. /\ Started
      /\ publishing[p].Timestamp \in StartTime .. now
      /\ \A e \in published : e.ID # publishing[p].ID
      /\ publishing[p] \in Event
  BY <1>1 DEF LInv, Publishings, Pending
<1>3. publishing[p].Timestamp <= now
  BY <1>2, ManagerAssumption DEF LInv, MInv, ManagerTypeOK
<1>4. UNCHANGED <<AbstractHandler, AbstractRequest>>
  BY <1>1 DEF AbstractHandler, AbstractRequest
<1> HIDE DEF AbstractHandler, AbstractRequest
<1>5. SM!SendEvent(publishing[p])
  BY <1>1, <1>2, <1>3, <1>4, SameParts DEF SM!SendEvent, SM!managerVars, managerVars
<1>6. LonePublisher => SM!InOrder(publishing[p])
  BY <1>1 DEF InTime, SM!InOrder
<1> QED
  BY <1>2, <1>5, <1>6

(* Making an event and waiting for the shutdown are nothing to the manager.*)
LEMMA CallersStutter ==
  ASSUME UNCHANGED <<vars, response>>
  PROVE  SMUnchanged
BY DEF SMUnchanged, SM!environmentVars, AbstractHandler, AbstractRequest,
       vars, managerVars, channelVars, environmentVars

LEMMA CloseStopSignalCloses ==
  ASSUME LInv, CloseStopSignal
  PROVE  SM!CloseQuit
<1>1. /\ ~quit /\ quit' = TRUE /\ Started
      /\ UNCHANGED <<managerVars, channelVars, now, handler, request, published, response>>
  BY DEF CloseStopSignal, LInv, Stopping
<1>2. UNCHANGED <<AbstractHandler, AbstractRequest>>
  BY <1>1 DEF AbstractHandler, AbstractRequest
<1> HIDE DEF AbstractHandler, AbstractRequest
<1> QED
  BY <1>1, <1>2, SameParts
     DEF SM!CloseQuit, SM!managerVars, managerVars, SM!channelVars, channelVars

LEMMA ClockTicks ==
  ASSUME Clock
  PROVE  SM!Tick
<1>1. /\ now < MaxTime /\ now' = now + 1
      /\ UNCHANGED <<managerVars, channelVars, quit, handler, request, published, response>>
  BY DEF Clock, Tick, callerVars
<1>2. UNCHANGED <<AbstractHandler, AbstractRequest>>
  BY <1>1 DEF AbstractHandler, AbstractRequest
<1> HIDE DEF AbstractHandler, AbstractRequest
<1> QED
  BY <1>1, <1>2 DEF SM!Tick, SM!managerVars, managerVars, SM!channelVars, channelVars

-----------------------------------------------------------------------------
(* The refinement.                                                         *)

LEMMA InitRefines == LongpollInit => SM!Init
<1> SUFFICES ASSUME LongpollInit PROVE SM!Init
  OBVIOUS
<1>1. AbstractHandler = [c \in Clients |-> "idle"]
  <2>1. \A c \in Clients : handler[c] = "idle" /\ response[c].status = "none"
    BY DEF LongpollInit, Init
  <2> QED
    BY <2>1, StageOf, HandlerStages
<1>2. AbstractRequest = EmptyMap
  BY DEF LongpollInit, Init, AbstractRequest, Restrict, EmptyMap
<1> HIDE DEF AbstractHandler, AbstractRequest
<1>3. PICK events \in InitialEvents :
        /\ startup = [startChan |-> events, currentEventTime |-> 0,
                      cutoffTime |-> IF NoTTL THEN 0 ELSE Expiration(StartTime)]
        /\ published = ToSet(events)
  BY DEF LongpollInit, Init
<1>4. /\ startup = [startChan |-> events, currentEventTime |-> 0,
                    cutoffTime |-> IF SM!NoTTL THEN 0 ELSE SM!Expiration(StartTime)]
      /\ published = SM!ToSet(events)
  BY <1>3, SameHelpers
<1> QED
  BY <1>1, <1>2, <1>4, SameHelpers DEF LongpollInit, Init, SM!Init

LEMMA HandlerRefines ==
  ASSUME LInv, NEW c \in Clients, Handler(c)
  PROVE  [SM!Next]_(SM!vars)
<1>1. CASE Reject(c) \/ NewClientSubscription(c)
  BY <1>1, RejectStutters, NewClientSubscriptionStutters, SMStutters
<1>2. CASE Subscribe(c)
  <2>1. /\ request[c] \in Subscription /\ request[c].ClientUUID = c
        /\ request[c].LastEventTime \in SM!PollTimes /\ request[c].LastEventID \in SM!KnownIDs
    BY <1>2 DEF Subscribe, LInv, Requests, IsMap, SM!PollTimes, PollTimes, SM!KnownIDs, KnownIDs
  <2>2. PICK cat \in Categories, since \in SM!PollTimes, id \in SM!KnownIDs :
          request[c] = [ClientUUID |-> c, SubscriptionCategory |-> cat,
                        LastEventTime |-> since, LastEventID |-> id]
    BY <2>1 DEF Subscription
  <2>3. SM!SendSubscription([ClientUUID |-> c, SubscriptionCategory |-> cat,
                             LastEventTime |-> since, LastEventID |-> id])
    BY <1>2, <2>2, SubscribeSends
  <2> QED
    BY <2>3 DEF SM!Next, SM!Environment
<1>3. CASE Timeout(c) \/ Disconnect(c)
  BY <1>3, LeavesSelect DEF SM!Next, SM!Environment
<1>4. CASE Leave(c)
  BY <1>4, LeaveSendsTimeout DEF SM!Next, SM!Environment
<1>5. CASE Respond(c)
  BY <1>5, RespondReceives DEF SM!Next, SM!Environment
<1> QED
  BY <1>1, <1>2, <1>3, <1>4, <1>5 DEF Handler

LEMMA PublisherRefines ==
  ASSUME LInv, InTime, NEW p \in Publishers, Publish(p) \/ PublishSend(p)
  PROVE  [SM!Next]_(SM!vars)
<1>1. CASE Publish(p)
  BY <1>1, CallersStutter, SMStutters DEF Publish
<1>2. CASE PublishSend(p)
  <2>1. PICK ts \in StartTime .. now, cat \in Categories, id \in EventIDs :
          publishing[p] = [Timestamp |-> ts, Category |-> cat, ID |-> id]
    BY <1>2, PublishSendSends DEF Event
  <2>2. LET event == [Timestamp |-> ts, Category |-> cat, ID |-> id]
        IN  /\ Cardinality(Publishers) = 1 => SM!InOrder(event)
            /\ SM!SendEvent(event)
    BY <1>2, <2>1, PublishSendSends DEF LonePublisher
  <2> QED
    BY <2>2 DEF SM!Next, SM!Environment
<1> QED
  BY <1>1, <1>2

LEMMA NextRefines == LInv /\ InTime /\ [LongpollNext]_longpollVars => [SM!Next]_(SM!vars)
<1> SUFFICES ASSUME LInv, InTime, [LongpollNext]_longpollVars
             PROVE  [SM!Next]_(SM!vars)
  OBVIOUS
<1>1. CASE ManagerStep
  BY <1>1, SameManager DEF ManagerStep, SM!Next
<1>2. CASE Shutdown \/ ShutdownReturns \/ ShutdownTimesOut \/ UNCHANGED longpollVars
  BY <1>2, CallersStutter, SMStutters
     DEF Shutdown, ShutdownReturns, ShutdownTimesOut, longpollVars
<1>3. CASE CloseStopSignal
  BY <1>3, CloseStopSignalCloses DEF SM!Next, SM!Environment
<1>4. CASE Clock
  BY <1>4, ClockTicks DEF SM!Next, SM!Environment
<1> QED
  BY <1>1, <1>2, <1>3, <1>4, HandlerRefines, PublisherRefines DEF LongpollNext

(* Every step of the HTTP handlers, of the callers of Publish and of the   *)
(* caller of Shutdown is a step of the environment that SubscriptionManager*)
(* allows, or nothing to the manager.  A lone publisher also keeps the     *)
(* order of time: provided that the add-on's events, which it published    *)
(* before, are not stamped after the clock at the start; with several      *)
(* publishers nothing is assumed.                                          *)
THEOREM LongpollImplementsManager ==
  ASSUME LonePublisher => NoFutureEvents
  PROVE  LongpollSpec => ImplementsManager
<1>1. LongpollInit => InTime
  BY InitInTime
<1>2. LongpollSpec => [](LInv /\ InTime)
  BY <1>1, LongpollInvariance, InTimeKept, PTL DEF LongpollSpec
<1> QED
  BY <1>2, InitRefines, NextRefines, PTL DEF LongpollSpec, ImplementsManager, SM!Spec

-----------------------------------------------------------------------------
(* What is proved of the open manager holds of the running server: its     *)
(* theorems, with the handlers' states and requests as the manager sees    *)
(* them.                                                                   *)

Proved == INSTANCE DeliveryProofs
            WITH handler <- AbstractHandler, request <- AbstractRequest,
                 ChronologicalPublish <- Cardinality(Publishers) = 1

LEMMA ProvedAssumption == Proved!ManagerAssumption
<1>1. (Cardinality(Publishers) = 1) \in BOOLEAN
  OBVIOUS
<1>2. Proved!forever = forever /\ Proved!Event = Event
  BY DEF Proved!forever, forever, Proved!Event, Event
<1> QED
  BY <1>1, <1>2, ManagerAssumption DEF Proved!ManagerAssumption

(* Proved renames the definitions once more, and they mean the same.       *)
LEMMA ProvedBuffers ==
  /\ \A eb, event : Proved!QueueEvent(eb, event) = QueueEvent(eb, event)
  /\ \A eb, since, id :
       Proved!GetEventsSince(eb, since, id) = GetEventsSince(eb, since, id)
  /\ \A eb, since, id :
       Proved!WithoutFetched(eb, since, id) = WithoutFetched(eb, since, id)
  /\ \A eb, t : Proved!DeleteEventsOlderThan(eb, t) = DeleteEventsOlderThan(eb, t)
<1>1. \A eb, event : Proved!QueueEvent(eb, event) = QueueEvent(eb, event)
  BY DEF Proved!QueueEvent, QueueEvent, Proved!Front, Front, Proved!Last, Last,
         Proved!Cons, Cons
<1>2. \A eb, since, id : Proved!GetEventsSince(eb, since, id) = GetEventsSince(eb, since, id)
  BY DEF Proved!GetEventsSince, GetEventsSince, Proved!AfterLen, AfterLen, Proved!Max,
         Max, Proved!IsAfter, IsAfter, Proved!Reverse, Reverse
<1>3. \A eb, since, id : Proved!WithoutFetched(eb, since, id) = WithoutFetched(eb, since, id)
  BY DEF Proved!WithoutFetched, WithoutFetched, Proved!AfterLen, AfterLen, Proved!Max,
         Max, Proved!IsAfter, IsAfter
<1>4. \A eb, t : Proved!DeleteEventsOlderThan(eb, t) = DeleteEventsOlderThan(eb, t)
  BY DEF Proved!DeleteEventsOlderThan, DeleteEventsOlderThan, Proved!LiveLen, LiveLen,
         Proved!Max, Max
<1> QED
  BY <1>1, <1>2, <1>3, <1>4

LEMMA ProvedStores ==
  /\ \A st, event, buffer, n :
       Proved!StoreNewEvent(st, event, buffer, n) = StoreNewEvent(st, event, buffer, n)
  /\ \A st, sub, n : Proved!Answer(st, sub, n) = Answer(st, sub, n)
  /\ \A st, sub, n : Proved!StoreAfterAnswer(st, sub, n) = StoreAfterAnswer(st, sub, n)
<1>1. \A st, cat, n : Proved!CheckExpiredEvents(st, cat, n) = CheckExpiredEvents(st, cat, n)
  BY ProvedBuffers
     DEF Proved!CheckExpiredEvents, CheckExpiredEvents, Proved!NoTTL, NoTTL,
         Proved!forever, forever, Proved!Event, Event, Proved!Expiration, Expiration
<1>2. \A st, cat : Proved!DeleteBufferIfEmpty(st, cat) = DeleteBufferIfEmpty(st, cat)
  BY ProvedBuffers
     DEF Proved!DeleteBufferIfEmpty, DeleteBufferIfEmpty, Proved!Delete, Delete,
         Proved!Restrict, Restrict, Proved!NoTTL, NoTTL, Proved!forever, forever,
         Proved!Event, Event
<1>3. \A st, cat, n : Proved!CreateBuffer(st, cat, n) = CreateBuffer(st, cat, n)
  BY ProvedBuffers
     DEF Proved!CreateBuffer, CreateBuffer, Proved!Put, Put, Proved!NoTTL, NoTTL,
         Proved!forever, forever, Proved!Event, Event
<1>4. \A st, event : Proved!QueueInBuffer(st, event) = QueueInBuffer(st, event)
  BY ProvedBuffers
     DEF Proved!QueueInBuffer, QueueInBuffer, Proved!NoTTL, NoTTL, Proved!forever,
         forever, Proved!Event, Event
<1>5. \A st, event, buffer, n :
        Proved!StoreNewEvent(st, event, buffer, n) = StoreNewEvent(st, event, buffer, n)
  BY <1>1, <1>2, <1>3, <1>4 DEF Proved!StoreNewEvent, StoreNewEvent
<1>6. \A st, sub, n : Proved!Answer(st, sub, n) = Answer(st, sub, n)
  BY <1>1, ProvedBuffers DEF Proved!Answer, Answer
<1>7. \A st, sub, n : Proved!StoreAfterAnswer(st, sub, n) = StoreAfterAnswer(st, sub, n)
  BY <1>1, <1>2, ProvedBuffers DEF Proved!StoreAfterAnswer, StoreAfterAnswer
<1> QED
  BY <1>5, <1>6, <1>7

LEMMA ProvedParts ==
  /\ \A cat : Proved!Parked(cat) = Parked(cat)
  /\ \A m, k, v : Proved!Put(m, k, v) = Put(m, k, v)
  /\ \A recipients, batch :
       Proved!SendBatch(recipients, batch) <=> SendBatch(recipients, batch)
  /\ \A st : Proved!SeeIfTimeToPurgeStaleCategories(st)
               <=> SeeIfTimeToPurgeStaleCategories(st)
  /\ \A event : Proved!ForwardToParked(event) <=> ForwardToParked(event)
  /\ \A event : Proved!DoBufferEvents(event) = DoBufferEvents(event)
<1>1. \A cat : Proved!Parked(cat) = Parked(cat)
  BY DEF Proved!Parked, Parked
<1>2. /\ \A m, k, v : Proved!Put(m, k, v) = Put(m, k, v)
      /\ \A m, k : Proved!Delete(m, k) = Delete(m, k)
  BY DEF Proved!Put, Put, Proved!Delete, Delete, Proved!Restrict, Restrict
<1>3. \A recipients, batch :
        Proved!SendBatch(recipients, batch) <=> SendBatch(recipients, batch)
  BY DEF Proved!SendBatch, SendBatch
<1>4. /\ Proved!NoTTL <=> NoTTL
      /\ \A n : Proved!Expiration(n) = Expiration(n)
  BY DEF Proved!NoTTL, NoTTL, Proved!forever, forever, Proved!Expiration, Expiration
<1>5. \A st, n : Proved!PurgeStaleCategories(st, n) = PurgeStaleCategories(st, n)
  BY <1>2, <1>4 DEF Proved!PurgeStaleCategories, PurgeStaleCategories
<1>6. \A st : Proved!SeeIfTimeToPurgeStaleCategories(st)
                <=> SeeIfTimeToPurgeStaleCategories(st)
  BY <1>5 DEF Proved!SeeIfTimeToPurgeStaleCategories, SeeIfTimeToPurgeStaleCategories
<1>7. \A event : Proved!ForwardToParked(event) <=> ForwardToParked(event)
  BY <1>1, <1>2, <1>3 DEF Proved!ForwardToParked, ForwardToParked
<1>8. \A event : Proved!DoBufferEvents(event) = DoBufferEvents(event)
  BY <1>1 DEF Proved!DoBufferEvents, DoBufferEvents
<1> QED
  BY <1>1, <1>2, <1>3, <1>6, <1>7, <1>8

(* The manager and its environment take the same steps under both names.   *)
LEMMA ProvedManager == SM!Manager => Proved!Manager
<1>1. SM!LoadEvent => Proved!LoadEvent
  BY ProvedStores, SameStores
     DEF Proved!LoadEvent, SM!LoadEvent, Proved!channelVars, SM!channelVars,
         Proved!environmentVars, SM!environmentVars
<1>2. SM!FinishLoading => Proved!FinishLoading
  BY DEF Proved!FinishLoading, SM!FinishLoading, Proved!PurgeStaleCategories,
         SM!PurgeStaleCategories, Proved!Expiration, SM!Expiration, Proved!NoTTL,
         SM!NoTTL, Proved!forever, SM!forever, Proved!Event, SM!Event, Proved!Delete,
         SM!Delete, Proved!Restrict, SM!Restrict, Proved!channelVars, SM!channelVars,
         Proved!environmentVars, SM!environmentVars
<1>3. SM!RunNewClient => Proved!RunNewClient
  BY ProvedStores, SameStores, ProvedParts, SameParts, SameHelpers
     DEF Proved!RunNewClient, SM!RunNewClient, Proved!environmentVars,
         SM!environmentVars
<1>4. SM!RunClientTimeout => Proved!RunClientTimeout
  BY DEF Proved!RunClientTimeout, SM!RunClientTimeout, Proved!Parked, SM!Parked,
         Proved!Delete, SM!Delete, Proved!Restrict, SM!Restrict, Proved!Put, SM!Put,
         Proved!SeeIfTimeToPurgeStaleCategories, SM!SeeIfTimeToPurgeStaleCategories,
         Proved!PurgeStaleCategories, SM!PurgeStaleCategories, Proved!Expiration,
         SM!Expiration, Proved!NoTTL, SM!NoTTL, Proved!forever, SM!forever,
         Proved!Event, SM!Event, Proved!environmentVars, SM!environmentVars
<1>5. SM!RunEvent => Proved!RunEvent
  BY ProvedStores, SameStores, ProvedParts, SameParts
     DEF Proved!RunEvent, SM!RunEvent, Proved!environmentVars, SM!environmentVars
<1>6. SM!RunTimer => Proved!RunTimer
  BY DEF Proved!RunTimer, SM!RunTimer, Proved!SeeIfTimeToPurgeStaleCategories,
         SM!SeeIfTimeToPurgeStaleCategories, Proved!PurgeStaleCategories,
         SM!PurgeStaleCategories, Proved!Expiration, SM!Expiration, Proved!NoTTL,
         SM!NoTTL, Proved!forever, SM!forever, Proved!Event, SM!Event, Proved!Delete,
         SM!Delete, Proved!Restrict, SM!Restrict, Proved!channelVars, SM!channelVars,
         Proved!environmentVars, SM!environmentVars
<1>7. SM!RunQuit => Proved!RunQuit
  BY DEF Proved!RunQuit, SM!RunQuit, Proved!channelVars, SM!channelVars,
         Proved!environmentVars, SM!environmentVars
<1>8. SM!DrainEvent => Proved!DrainEvent
  BY ProvedStores, SameStores
     DEF Proved!DrainEvent, SM!DrainEvent, Proved!ForwardToParked, SM!ForwardToParked,
         Proved!Parked, SM!Parked, Proved!SendBatch, SM!SendBatch, Proved!Delete,
         SM!Delete, Proved!Restrict, SM!Restrict, Proved!DoBufferEvents,
         SM!DoBufferEvents, Proved!environmentVars, SM!environmentVars
<1>9. SM!DrainNothing => Proved!DrainNothing
  BY DEF Proved!DrainNothing, SM!DrainNothing, Proved!channelVars, SM!channelVars,
         Proved!environmentVars, SM!environmentVars
<1>10. SM!CloseShutdownDone => Proved!CloseShutdownDone
  BY DEF Proved!CloseShutdownDone, SM!CloseShutdownDone, Proved!channelVars,
         SM!channelVars, Proved!environmentVars, SM!environmentVars
<1> QED
  BY <1>1, <1>2, <1>3, <1>4, <1>5, <1>6, <1>7, <1>8, <1>9, <1>10
     DEF Proved!Manager, SM!Manager

LEMMA ProvedEnvironment == SM!Environment => Proved!Environment
<1>1. \A sub : SM!SendSubscription(sub) => Proved!SendSubscription(sub)
  BY DEF Proved!SendSubscription, SM!SendSubscription, Proved!Started, SM!Started,
         Proved!Put, SM!Put, Proved!managerVars, SM!managerVars
<1>2. \A c : SM!LeaveSelect(c) => Proved!LeaveSelect(c)
  BY DEF Proved!LeaveSelect, SM!LeaveSelect, Proved!managerVars, SM!managerVars,
         Proved!channelVars, SM!channelVars
<1>3. \A c : SM!SendTimeout(c) => Proved!SendTimeout(c)
  BY DEF Proved!SendTimeout, SM!SendTimeout, Proved!ToPair, SM!ToPair, Proved!Delete,
         SM!Delete, Proved!Restrict, SM!Restrict, Proved!managerVars, SM!managerVars
<1>4. \A c : SM!ReceiveEvents(c) => Proved!ReceiveEvents(c)
  BY DEF Proved!ReceiveEvents, SM!ReceiveEvents, Proved!Delete, SM!Delete,
         Proved!Restrict, SM!Restrict, Proved!managerVars, SM!managerVars
<1>5. \A event : SM!SendEvent(event) => Proved!SendEvent(event)
  BY DEF Proved!SendEvent, SM!SendEvent, Proved!Started, SM!Started,
         Proved!managerVars, SM!managerVars
<1>6. \A event : SM!InOrder(event) => Proved!InOrder(event)
  BY DEF Proved!InOrder, SM!InOrder
<1>7. SM!CloseQuit => Proved!CloseQuit
  BY DEF Proved!CloseQuit, SM!CloseQuit, Proved!Started, SM!Started,
         Proved!managerVars, SM!managerVars, Proved!channelVars, SM!channelVars
<1>8. SM!Tick => Proved!Tick
  BY DEF Proved!Tick, SM!Tick, Proved!managerVars, SM!managerVars, Proved!channelVars,
         SM!channelVars
<1>9. Proved!PollTimes = SM!PollTimes /\ Proved!KnownIDs = SM!KnownIDs
  BY DEF Proved!PollTimes, SM!PollTimes, Proved!KnownIDs, SM!KnownIDs
<1> QED
  BY <1>1, <1>2, <1>3, <1>4, <1>5, <1>6, <1>7, <1>8, <1>9
     DEF Proved!Environment, SM!Environment

LEMMA ProvedSpec ==
  ASSUME LonePublisher => NoFutureEvents
  PROVE  LongpollSpec => Proved!Spec
<1>1. SM!Init => Proved!Init
  BY DEF Proved!Init, SM!Init, Proved!Expiration, SM!Expiration, Proved!ToSet,
         SM!ToSet, Proved!EmptyMap, SM!EmptyMap, Proved!NoTTL, SM!NoTTL,
         Proved!forever, SM!forever, Proved!Event, SM!Event
<1>2. SM!Next => Proved!Next
  BY ProvedManager, ProvedEnvironment DEF SM!Next, Proved!Next
<1>3. SM!vars = Proved!vars
  BY DEF Proved!vars, SM!vars, Proved!channelVars, SM!channelVars, Proved!managerVars,
         SM!managerVars, Proved!environmentVars, SM!environmentVars
<1>4. [SM!Next]_(SM!vars) => [Proved!Next]_(Proved!vars)
  <2>1. UNCHANGED SM!vars => UNCHANGED Proved!vars
    BY DEF Proved!vars, SM!vars, Proved!channelVars, SM!channelVars,
           Proved!environmentVars, SM!environmentVars, Proved!managerVars,
           SM!managerVars
  <2> QED
    BY <1>2, <2>1
<1>5. ImplementsManager => Proved!Spec
  BY <1>1, <1>4, PTL DEF ImplementsManager, SM!Spec, Proved!Spec
<1> QED
  BY <1>5, LongpollImplementsManager, PTL

-----------------------------------------------------------------------------
(* The theorems.  Proved is about the manager's own view of the handlers,  *)
(* so where a property speaks of handlers and requests it is first carried *)
(* over to theirs.  LonePublisher => NoFutureEvents is the hypothesis of   *)
(* LongpollImplementsManager, and says nothing of several publishers.      *)

ServerSpec == LongpollSpec /\ Proved!Spec

LEMMA ServerImplements ==
  ASSUME LonePublisher => NoFutureEvents
  PROVE  LongpollSpec => ServerSpec
BY ProvedSpec, PTL DEF ServerSpec

(* In the running server too the category map and the expiration heap hold *)
(* the same, well-formed buffers, whatever the requests, the publishers    *)
(* and the caller of Shutdown do, and in whatever order.                   *)
THEOREM ServerStoreIsConsistent == LongpollSpec => []StoreConsistent
<1>1. LInv => StoreConsistent
  BY DEF LInv, MInv
<1> QED
  BY <1>1, LongpollInvariance, PTL

LEMMA CarryOneShot == LInv /\ Proved!OneShotChannels => OneShotChannels
<1> SUFFICES ASSUME LInv, Proved!OneShotChannels, NEW c \in Clients
             PROVE  /\ Len(subEvents[c]) <= 1
                    /\ Cardinality(Queued(c)) + Cardinality(ParkedIn(c))
                         + Len(subEvents[c]) <= 1
                    /\ handler[c] = "idle" =>
                         Queued(c) = {} /\ ParkedIn(c) = {} /\ subEvents[c] = <<>>
                    /\ c \in DOMAIN request =>
                         ParkedIn(c) \subseteq {request[c].SubscriptionCategory}
  BY DEF OneShotChannels
<1>1. Proved!Queued(c) = Queued(c) /\ Proved!ParkedIn(c) = ParkedIn(c)
  BY DEF Proved!Queued, Queued, Proved!ParkedIn, ParkedIn
<1>0. \A S : Proved!Cardinality(S) = Cardinality(S)
  BY DEF Proved!Cardinality, Cardinality, Proved!IsFiniteSet, IsFiniteSet
<1>2. /\ Len(subEvents[c]) <= 1
      /\ Cardinality(Queued(c)) + Cardinality(ParkedIn(c)) + Len(subEvents[c]) <= 1
      /\ AbstractHandler[c] = "idle" =>
           Queued(c) = {} /\ ParkedIn(c) = {} /\ subEvents[c] = <<>>
      /\ c \in DOMAIN AbstractRequest =>
           ParkedIn(c) \subseteq {AbstractRequest[c].SubscriptionCategory}
  BY <1>0, <1>1 DEF Proved!OneShotChannels
<1>3. handler[c] \in {"idle", "subscribe"} => AbstractHandler[c] = "idle"
  BY StageNow
<1>4. c \in DOMAIN request /\ handler[c] # "subscribe" =>
        c \in DOMAIN AbstractRequest /\ AbstractRequest[c] = request[c]
  BY DEF AbstractRequest, Restrict
<1> QED
  BY <1>2, <1>3, <1>4

(* A subscription of the running server is queued, parked or answered,     *)
(* never two of these: whether its handler has timed out, lost its client  *)
(* or not sent it yet, the manager never blocks on its channel.            *)
THEOREM ServerOneShot ==
  ASSUME LonePublisher => NoFutureEvents
  PROVE  LongpollSpec => []OneShotChannels
<1>1. Proved!Spec => []Proved!OneShotChannels
  BY Proved!OneShot, ProvedAssumption, EventBufferAssumption
<1> QED
  BY <1>1, CarryOneShot, ServerImplements, LongpollInvariance, PTL DEF ServerSpec

(* With one publisher, no request of the running server waits while its    *)
(* category's buffer holds an event newer than its cursor, wherever the    *)
(* request, the event and the timeout meet.                                *)
THEOREM ServerNoDataMissed ==
  ASSUME LonePublisher, NoFutureEvents
  PROVE  LongpollSpec => []NoParkedClientMissesData
<1>1. Proved!Spec => []Proved!NoParkedClientMissesData
  BY Proved!NoDataMissed, ProvedAssumption, EventBufferAssumption DEF LonePublisher
<1>2. ASSUME Proved!OneShotChannels, Proved!NoParkedClientMissesData, LInv
      PROVE  NoParkedClientMissesData
  <2> SUFFICES ASSUME NEW c \in DOMAIN request, NEW cat \in ParkedIn(c),
                      cat \in DOMAIN store.SubEventBuffer,
                      NEW e \in ToSet(store.SubEventBuffer[cat].List)
               PROVE  e.Timestamp <= request[c].LastEventTime
    BY DEF NoParkedClientMissesData
  <2>1. Proved!ParkedIn(c) = ParkedIn(c) /\ \A s : Proved!ToSet(s) = ToSet(s)
    BY DEF Proved!ParkedIn, ParkedIn, Proved!ToSet, ToSet
  <2>2. c \in Clients
    BY <1>2 DEF LInv, Requests, IsMap
  <2>3. handler[c] # "subscribe"
    BY <1>2, <2>1, <2>2, StageNow DEF Proved!OneShotChannels
  <2>4. c \in DOMAIN AbstractRequest /\ AbstractRequest[c] = request[c]
    BY <2>3 DEF AbstractRequest, Restrict
  <2> QED
    BY <1>2, <2>1, <2>4 DEF Proved!NoParkedClientMissesData
<1>3. Proved!Spec => []Proved!OneShotChannels
  BY Proved!OneShot, ProvedAssumption, EventBufferAssumption
<1> QED
  BY <1>1, <1>2, <1>3, ServerImplements, LongpollInvariance, PTL DEF ServerSpec

(* With delete-on-retrieval, an event that was handed to a request of the  *)
(* running server is in no buffer and on no channel to be served again.    *)
THEOREM ServerServedOnce ==
  ASSUME LonePublisher => NoFutureEvents,
         \A events \in InitialEvents : Proved!NoRepeats(events)
  PROVE  LongpollSpec => []ServedEventsAreGone
<1>1. Proved!Spec => []Proved!ServedEventsAreGone
  BY Proved!ServedOnce, ProvedAssumption, EventBufferAssumption
<1>2. Proved!ServedEventsAreGone => ServedEventsAreGone
  BY DEF Proved!ServedEventsAreGone, ServedEventsAreGone, Proved!ToSet, ToSet
<1> QED
  BY <1>1, <1>2, ServerImplements, PTL DEF ServerSpec

-----------------------------------------------------------------------------
(* The theorems about steps.  A step that leaves all that the manager sees *)
(* alone answers no request and drops no event.                            *)

LEMMA UnseenStep ==
  ASSUME UNCHANGED Proved!vars
  PROVE  UNCHANGED <<run, store, subEvents, clientSubscriptions>>
BY DEF Proved!vars, Proved!managerVars, Proved!channelVars

LEMMA ProvedExpired ==
  /\ \A e : Proved!Expired(e) <=> Expired(e)
  /\ \A st : Proved!Buffered(st) = Buffered(st)
  /\ \A s : Proved!ToSet(s) = ToSet(s)
<1>1. \A e : Proved!Expired(e) <=> Expired(e)
  BY DEF Proved!Expired, Expired, Proved!NoTTL, NoTTL, Proved!forever, forever,
         Proved!Expiration, Expiration
<1>2. \A s : Proved!ToSet(s) = ToSet(s)
  BY DEF Proved!ToSet, ToSet
<1>3. \A st : Proved!Buffered(st) = Buffered(st)
  BY <1>2 DEF Proved!Buffered, Buffered
<1> QED
  BY <1>1, <1>2, <1>3

(* With one publisher, a request answered from a buffer gets live events   *)
(* past its cursor, oldest first, however its handler and Publish          *)
(* interleave.                                                             *)
THEOREM ServerFreshAnswers ==
  ASSUME LonePublisher, NoFutureEvents
  PROVE  LongpollSpec => AnswersAreFresh
<1> DEFINE Fresh == \A sub \in ToSet(clientSubscriptions) :
       LET batch == Head(subEvents'[sub.ClientUUID])
       IN  subEvents'[sub.ClientUUID] # subEvents[sub.ClientUUID] =>
             /\ \A i \in DOMAIN batch :
                  /\ ~Expired(batch[i])
                  /\ batch[i].Category = sub.SubscriptionCategory
                  /\ batch[i].Timestamp >= sub.LastEventTime
             /\ \A i, j \in DOMAIN batch :
                  i < j => batch[i].Timestamp <= batch[j].Timestamp
           FreshToManager == \A sub \in Proved!ToSet(clientSubscriptions) :
       LET batch == Head(subEvents'[sub.ClientUUID])
       IN  subEvents'[sub.ClientUUID] # subEvents[sub.ClientUUID] =>
             /\ \A i \in DOMAIN batch :
                  /\ ~Proved!Expired(batch[i])
                  /\ batch[i].Category = sub.SubscriptionCategory
                  /\ batch[i].Timestamp >= sub.LastEventTime
             /\ \A i, j \in DOMAIN batch :
                  i < j => batch[i].Timestamp <= batch[j].Timestamp
<1>1. Proved!Spec => Proved!AnswersAreFresh
  BY Proved!FreshAnswers, ProvedAssumption, EventBufferAssumption DEF LonePublisher
<1>2. Proved!AnswersAreFresh => [][FreshToManager]_(Proved!vars)
  BY DEF Proved!AnswersAreFresh
<1>3. [FreshToManager]_(Proved!vars) => [Fresh]_vars
  BY UnseenStep, ProvedExpired
<1>4. LongpollSpec => [][Fresh]_vars
  BY <1>1, <1>2, <1>3, ServerImplements, PTL DEF ServerSpec
<1> QED
  BY <1>4 DEF AnswersAreFresh

(* With one publisher, an event leaves the buffers of the running server   *)
(* only because it expired, because a full buffer made room for a newer    *)
(* one, or because it was handed to a request with delete-on-retrieval.    *)
THEOREM ServerNoLiveEventLost ==
  ASSUME LonePublisher, NoFutureEvents
  PROVE  LongpollSpec => NoLiveEventDropped
<1> DEFINE Reasons == run # "loading" =>
             \A e \in Buffered(store) \ Buffered(store)' : LeavesForAReason(e)
           ReasonsToManager == run # "loading" =>
             \A e \in Proved!Buffered(store) \ Proved!Buffered(store)' :
               Proved!LeavesForAReason(e)
<1>1. Proved!Spec => Proved!NoLiveEventDropped
  BY Proved!NoLiveEventLost, ProvedAssumption, EventBufferAssumption DEF LonePublisher
<1>2. Proved!NoLiveEventDropped => [][ReasonsToManager]_(Proved!vars)
  BY DEF Proved!NoLiveEventDropped
<1>3. ASSUME NEW e PROVE Proved!LeavesForAReason(e) <=> LeavesForAReason(e)
  <2>1. \A s : Proved!Last(s) = Last(s)
    BY DEF Proved!Last, Last
  <2> QED
    BY <2>1, ProvedExpired DEF Proved!LeavesForAReason, LeavesForAReason
<1>4. /\ Proved!Buffered(store) = Buffered(store)
      /\ Proved!Buffered(store)' = Buffered(store)'
  BY ProvedExpired
<1>5. UNCHANGED store => Buffered(store)' = Buffered(store)
  BY DEF Buffered, ToSet
<1>6. [ReasonsToManager]_(Proved!vars) => [Reasons]_vars
  BY <1>3, <1>4, <1>5, UnseenStep
<1>7. LongpollSpec => [][Reasons]_vars
  BY <1>1, <1>2, <1>6, ServerImplements, PTL DEF ServerSpec
<1> QED
  BY <1>7 DEF NoLiveEventDropped

(* When StartLongpoll is done, the running server holds what is alive of   *)
(* the add-on's events, or a full buffer of events at least as new.        *)
THEOREM ServerStartupKeepsNewest ==
  ASSUME LonePublisher => NoFutureEvents
  PROVE  LongpollSpec => StartupKeepsNewestLive
<1> DEFINE Kept == run = "loading" /\ run' = "select" =>
       /\ \A cat \in DOMAIN store'.SubEventBuffer :
            \E e \in ToSet(store'.SubEventBuffer[cat].List) : ~Expired(e)
       /\ \A e \in published :
            e.Timestamp > startup.cutoffTime /\ ~Expired(e) =>
              \/ e \in Buffered(store')
              \/ /\ Len(store'.SubEventBuffer[e.Category].List) = MaxEventBufferSize
                 /\ \A f \in ToSet(store'.SubEventBuffer[e.Category].List) :
                      f.Timestamp >= e.Timestamp
           KeptToManager == run = "loading" /\ run' = "select" =>
       /\ \A cat \in DOMAIN store'.SubEventBuffer :
            \E e \in Proved!ToSet(store'.SubEventBuffer[cat].List) : ~Proved!Expired(e)
       /\ \A e \in published :
            e.Timestamp > startup.cutoffTime /\ ~Proved!Expired(e) =>
              \/ e \in Proved!Buffered(store')
              \/ /\ Len(store'.SubEventBuffer[e.Category].List) = MaxEventBufferSize
                 /\ \A f \in Proved!ToSet(store'.SubEventBuffer[e.Category].List) :
                      f.Timestamp >= e.Timestamp
<1>1. Proved!Spec => Proved!StartupKeepsNewestLive
  BY Proved!StartupKeepsNewest, ProvedAssumption, EventBufferAssumption
<1>2. Proved!StartupKeepsNewestLive => [][KeptToManager]_(Proved!vars)
  BY DEF Proved!StartupKeepsNewestLive
<1>3. [KeptToManager]_(Proved!vars) => [Kept]_vars
  <2>1. CASE UNCHANGED Proved!vars
    BY <2>1, UnseenStep
  <2>2. CASE KeptToManager
    BY <2>2, ProvedExpired
  <2> QED
    BY <2>1, <2>2
<1>4. LongpollSpec => [][Kept]_vars
  BY <1>1, <1>2, <1>3, ServerImplements, PTL DEF ServerSpec
<1> QED
  BY <1>4 DEF StartupKeepsNewestLive

(* With one publisher and distinct IDs in the add-on's events, a request   *)
(* that names the event it saw last is answered by the running server with *)
(* exactly what was queued after it.                                       *)
THEOREM ServerResumesExactly ==
  ASSUME LonePublisher, NoFutureEvents,
         \A events \in InitialEvents : DistinctIDs(events)
  PROVE  LongpollSpec => ResumesExactlyAfterLastID
<1> DEFINE Takes == run = "select" /\ clientSubscriptions' # clientSubscriptions
                      /\ clientSubscriptions # <<>>
                      /\ Len(clientSubscriptions') < Len(clientSubscriptions)
           sub == Head(clientSubscriptions)
           cat == sub.SubscriptionCategory
           list == store.SubEventBuffer[cat].List
           Resumes == Takes =>
             (cat \in DOMAIN store.SubEventBuffer => ResumesAfter(sub, list))
           ResumesToManager == Takes =>
             (cat \in DOMAIN store.SubEventBuffer => Proved!ResumesAfter(sub, list))
<1>1. Proved!DistinctEvents
  BY DEF Proved!DistinctEvents, Proved!DistinctIDs, DistinctIDs
<1>2. Proved!Spec => Proved!ResumesExactlyAfterLastID
  BY <1>1, Proved!ResumesExactly, ProvedAssumption, EventBufferAssumption
     DEF LonePublisher
<1>3. Proved!ResumesExactlyAfterLastID => [][ResumesToManager]_(Proved!vars)
  BY DEF Proved!ResumesExactlyAfterLastID
<1>4. ASSUME NEW s, NEW l PROVE Proved!ResumesAfter(s, l) <=> ResumesAfter(s, l)
  <2>1. \A q : Proved!Reverse(q) = Reverse(q)
    BY DEF Proved!Reverse, Reverse
  <2> QED
    BY <2>1, ProvedExpired DEF Proved!ResumesAfter, ResumesAfter
<1>5. [ResumesToManager]_(Proved!vars) => [Resumes]_vars
  BY <1>4, UnseenStep
<1>6. LongpollSpec => [][Resumes]_vars
  BY <1>2, <1>3, <1>5, ServerImplements, PTL DEF ServerSpec
<1> QED
  BY <1>6 DEF ResumesExactlyAfterLastID

=============================================================================

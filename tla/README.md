# golongpoll in TLA+

A TLA+ model of [golongpoll](../src/README.md), an HTTP long-poll pub-sub
library in Go: what its pub-sub goroutine, its HTTP handlers, its publishers,
its file persistor and the two clients that come with it do to each other, what
is model-checked about that with TLC, and what is proved about it with TLAPS.

* [1. The system](#1-the-system)
* [2. Plan](#2-plan)
* [3. Modules, and how they correspond to the code](#3-modules-and-how-they-correspond-to-the-code)
* [4. What is checked](#4-what-is-checked)
* [5. What is proved](#5-what-is-proved)
* [6. What the code does that its comments do not say](#6-what-the-code-does-that-its-comments-do-not-say)
* [7. Abstractions and assumptions](#7-abstractions-and-assumptions)
* [8. Not modelled](#8-not-modelled)
* [9. Running it](#9-running-it)

## 1. The system

One goroutine, `subscriptionManager.run`, owns all data. Everything else talks
to it over three buffered channels of capacity 100 (subscriptions, client
timeouts, events), a quit channel that `Shutdown` closes, and one channel of
capacity 1 per request, on which the manager answers.

```
 HTTP request --> subscription handler --clientSubscriptions--> +---------------------+
                       |  ^                                     | subscriptionManager |
                       |  +--------subscription.Events (1)----- |   ClientSubChannels |
                       +-----------ClientTimeouts-------------> |   SubEventBuffer    |
 Publish / PublishHandler ---------Events---------------------> |   heap of buffers   |
 Shutdown[WithTimeout] ------------Quit (closed)--------------> +---------------------+
                       <-----------shutdownDone (closed)------      |        ^
                                                 AddOn.OnPublish,   v        | OnLongpollStart
                                                 OnShutdown        add-on (file persistor)
```

| Component | State | Operations | What makes it correct |
|---|---|---|---|
| **Event buffer** `events.go` | list of events, newest first; capacity; cached time of the oldest | `QueueEvent`, `GetEventsSince` (with or without deletion), `DeleteEventsOlderThan` | capacity is never exceeded and only the oldest is evicted; the cached time is right; a cursor (`since_time`, `last_id`) neither skips nor repeats |
| **Priority queue** `priority_queue.go` | heap of the buffers, each with its priority and its index in the heap | `Push`, `Pop`, `updatePriority`, `heap.Remove` by index, `peekTopPriority` | every buffer's index points back at it; the top is the least |
| **Subscription manager** `longpoll.go` | category -> buffer, category -> parked clients, the heap, time of the last purge | `StartLongpoll`'s loading, `handleNewClient`, `handleClientDisconnect`, `handleNewEvent`, the timer's purge, quit and drain | map and heap hold the same buffers; no live event is lost; no waiting client misses data; the manager never blocks on a client |
| **LongpollManager and HTTP handlers** `longpoll.go` | `stopped`; per request its subscription and its place in the handler | subscription handler, `Publish`, `PublishHandler`, `Shutdown`, `ShutdownWithTimeout` | every request is answered; `Publish` and `Shutdown` return |
| **Add-on interface** `addons.go` | - | `OnLongpollStart`, `OnPublish`, `OnShutdown` | events come back in time order |
| **File persistor** `fileaddon.go` | a buffer of lines, the file, a channel of published events | flush on a period, on size and on shutdown; reload | what was flushed comes back after a restart, in order |
| **Go client** `client/client.go` | `since`, `last_id`, quit flag, the channel to the user | polling loop with back-off, `Start`, `Stop` | no event is skipped between polls; `Stop` stops |
| **JavaScript client** `js-client/client.js` | the same cursor | polling loop | the same |
| **Time conversion** `utils.go` | - | milliseconds to `time.Time` and back | exact where it does not overflow |

Behaviours that are hard to test, and that decide what is modelled first:

* *Two channels, no order between them.* A request's subscription and its later
  timeout notice travel on different channels of one `select`, which picks at
  random. So do events and subscriptions.
* *Check, then act, across goroutines.* A client found in `ClientSubChannels`
  may have left its `select`; an event's timestamp is taken before the send
  that orders it.
* *Derived state.* The heap's priority and index, the cached oldest time and
  the presence of a buffer in the map all restate what the list holds and must
  survive every sequence of eviction, expiry, purge and deletion.
* *Ties.* Timestamps are milliseconds; several events share one.
* *Shutdown.* What stays in the channels, who stays blocked on them.
* *Restart.* Pre-population with expired, excess and disordered events.

`PROJECT.json` lists these hazards line by line with the properties that
cover each.

## 2. Plan

The order follows what the rest depends on: first the goroutine that owns the
data, then the goroutines around it, then what sits on either side of the HTTP
and add-on interfaces.

| | Module | Content | State |
|---|---|---|---|
| 1 | `EventBuffer` | the buffer's operations as operators | done |
| 2 | `SubscriptionManager` | the manager and an open environment | done |
| 3 | `Longpoll` | composition with handlers, publishers, Shutdown; refines 2 | done |
| 4 | `PurgeQueue`, `PriorityQueue` | abstract queue, and the heap that implements it | done |
| 5 | `EventBufferProofs`, `SubscriptionManagerProofs`, `DeliveryProofs` | types, store consistency, cursor exactness, one-shot channels, what is delivered and what is kept | done |
| 6 | `EventLog`, `LongpollLog` | abstract specification of what clients are promised: a category is a log, a poll is answered with an interval of it; the server of 3 implements it | done |
| 7 | `PollClient`, `GoClient`, `JsClient`, `PollStream` | the clients' polling loops, stop, the channel to the program; successive polls through a faulty network | done |
| 8 | `Subsequences`, `FilePersistor` | channel, goroutine, write buffer, file of lines, disk errors, crash, torn lines, restart | done |
| 9 | `TimeConv` | 64-bit arithmetic of `utils.go`; exact where it does not wrap | done |
| 10 | `LongpollProofs`, `LongpollLogProofs`, `PollStreamProofs`, `PriorityQueueProofs`, `FilePersistorProofs` | the goroutines implement the environment of 2 and keep the promise of 6, and what is proved of 2 holds of the server; the clients' stream and its times; the heap implements the queue; the persistor's file, through crashes and restarts | done |
| 11 | eviction in `EventLog` | a log that forgets its oldest entries, so that the refinement covers small buffers and expiry too. (Three events and two clients with a buffer of two are some three million states, beyond what a run of a few minutes compares step by step) | later |

## 3. Modules, and how they correspond to the code

**`EventBuffer`** (`events.go`). A buffer is a record `[List, oldestEventTime]`;
`List` is a sequence with the newest event first, as the Go list has it. The
loops become lengths: `AfterLen` is how many elements at the front pass
`GetEventsSince`'s test before the search breaks, `LiveLen` the position where
`DeleteEventsOlderThan` stops. Both operations' other branch, the cached time
that lets the search be skipped, is kept as it is.

**`GoMap`**. Insertion into and deletion from Go's maps.

**`SubscriptionManager`** (`longpoll.go:206-294`, `507-890`). The variables
carry the struct's names. `store` joins `SubEventBuffer` and
`bufferPriorityQueue`, because every operation changes them together. Each case
of `run`'s `select` is an action (`RunNewClient`, `RunClientTimeout`,
`RunEvent`, `RunTimer`, `RunQuit`) that covers the whole handler *and* the
`seeIfTimeToPurgeStaleCategories` that follows every case. The shutdown path is
`RunQuit`, then `DrainEvent` or `DrainNothing` (the inner `select` with its one
millisecond), then `CloseShutdownDone`. `LoadEvent` and `FinishLoading` are
`StartLongpoll`'s loop and its purge, panic included. A send on a client's
channel is `SendBatch`, whose guard is that the channel has room: on a full one
the manager would block.

The module is open. Its environment (`SendSubscription`, `LeaveSelect`,
`SendTimeout`, `ReceiveEvents`, `SendEvent`, `CloseQuit`, `Tick`) does to the
channels whatever the other goroutines can, so that the manager can be checked
against more orders and cursors than one set of callers produces.

**`Longpoll`** (`longpoll.go:40-140`, `370-500`). The callers themselves. A
handler goes `idle` -> `subscribe` -> `select` -> (`timeout` | `disconnect`) ->
`done`, or is rejected; choosing the timeout case and sending the notice are
two steps, since the send may block. `Publish` stamps in one step and sends in
another. `Shutdown` sets `stopped`, closes the quit channel and waits;
`ShutdownWithTimeout` may stop waiting. `ImplementsManager` says that all this
is an environment `SubscriptionManager` allows, so what is checked of the open
module holds of the system.

**`PurgeQueue`** and **`PriorityQueue`** (`priority_queue.go`, and
`longpoll.go:799-890` for the calls). `PurgeQueue` is the queue as
`SubscriptionManager` uses it: a priority per buffer, and a purge of all at or
below a threshold. `PriorityQueue` is the slice `pq`, the index each buffer
remembers, and `container/heap`: a call of the manager is an action
(`BufferCreated`, `EventQueued`, `DeleteBuffer`, `PurgeStale`, ...), each turn
of the loops in `up` and `down` another, with `at` for the loop that runs and
`hole` for its loop variable. It is shown to implement the former, call by call
and argument by argument (`call` records the last one, so that taking out
another buffer is not excused as a deletion of that one).

**`EventLog`** and **`LongpollLog`** (`events.go:104-160`,
`longpoll.go:391-487`, `618-775`). `EventLog` says what a client may rely on
(`HttpLongPollAPI.md`) without saying how: per category a log in time order, per
client at most one poll with its cursor. `Behind` is the rest of the log after
the place the cursor names; `Batch(q, n)` is what a poll gets that is looked at
when the log has `n` events: what is behind its cursor or, if that is nothing,
the next event to come, whatever its time. A poll may be answered as of any
moment between its request and its answer, may time out although there is
something, and may fail. `LongpollLog` maps the reversed event buffers to logs
and the requests to polls; how long the log was when a request was made is
remembered in `Longpoll`'s history variable `asked`. Expiry, eviction and
deletion on retrieval are outside `EventLog`; what they do is the subject of
`SubscriptionManager`'s own properties.

**`PollClient`, `GoClient`, `JsClient`** (`client/client.go`,
`js-client/client.js`). `PollClient` has the cursor, the loop's position and
the histories the properties speak of. `GoClient` splits the goroutine of
`Start` at every point where `Stop` can come in between: the top of the loop,
the return of `fetchEvents`, each check of the stop signal between events
(`doQuitCheck`, only if the batch may not fit in the channel), each send. The
cursor moves *before* the send, as in the code. `JsClient` runs on an event
loop, so the treatment of one answer is one step, in which `onEvent` or
`onFailure` may call `stop`; a batch ends where `running` is found false.
`poll_` does not look at `running`, as in the code.

**`PollStream`** puts either client behind a network in front of a server that
does what `EventLog` promises, no more: requests fail before or after the
server has answered (`Break`), or are answered with something that is not JSON
(`Garble`). `SendPoll` sends `since_time` through `TimeConv`.

**`TimeConv`** (`utils.go`). Multiplication that wraps, division that truncates.

**`FilePersistor`** (`fileaddon.go`; `longpoll.go:246-293` and `567-604` for the
manager's side). From `Publish` through the manager's channel, `OnPublish`, the
add-on's channel and `bufio.Writer` to the file, and back through `bufio.Scanner`
at the next start. A byte of the file is a pair (event, position in its JSON) or
a newline, so that tearing, merging and cutting of lines are visible and the
JSON itself is not. A line is a place in these bytes where one starts
(`LineStarts`, `LineEnd`, `LineAt`), and what is read back is picked from such
places (`Pick`, of the module **`Subsequences`**, takes from a sequence the
elements at a set of places, in their order). `Write` is the
buffered writer's rule for what is passed on when its buffer overflows; `ToFile` lets any write stop short, after which the
writer refuses everything (`broken`). `Crash` may come at any moment, and in
the middle of a write (`UnderWay`). `StartLongpoll` reads the file back and
panics on events out of order; a panicked program can be started again. The
goroutine may fail to open the file (`persistor = "failed"`).

Two times matter to `run`: the flush period (`due`, what `isTimeToFlush`
returns) and the half second of its timer (`fired`, a value in `timer.C`). Every
turn of the loop sets the timer anew (`ResetTimer`), so it fires only when no
event has come for half a second (`TimerFires`); `FlushOnTimer` is the timer's
case with its question whether the period is over. `WriteEvent` asks the same
after a line that was written, but `SkipEvent`, an event that does not marshal,
does not. Events without a JSON form leave no trace in the file, so they need no
number and never run out: `OnPublishNoJson` puts one more into the add-on's
channel whenever that is empty. (One numbered event of the run has no JSON form
either and takes its full way, from `Stamp` on.)

**`MC...`** modules name the values of the constants and the symmetry sets.

Operators named `X_Something` right before an operator `X` are plausible
mistakes in the code of `X`. No specification uses them; each is there to show
that a property notices the mistake.

## 4. What is checked

| Run | Properties | What it shows | States |
|---|---|---|---|
| `expiry` | `StoreConsistent`, `StartupKeepsNewestLive`, `NoLiveEventDropped`, `AnswersAreFresh`, `ResumesExactlyAfterLastID` | every list of up to three add-on events, in order or not, then published ones; TTL 2, a buffer of two: loading, eviction, expiry, purge and both cursors in every order | 875k |
| `delete_on_retrieval` | `TypeOK`, `StoreConsistent`, `OneShotChannels`, `NoParkedClientMissesData`, `ServedEventsAreGone`, `StartupKeepsNewestLive`, `NoLiveEventDropped` | two clients, two categories, two events, channels of one, `DeleteEventAfterFirstRetrieval` together with a TTL | 1.71M |
| `environment` | `LongpollTypeOK`, `ImplementsManager`, `ImplementsEventLog` | the server's goroutines are an environment the manager's model allows; and the server keeps `EventLog`'s promise to its clients | 720k |
| `liveness` | `RequestsAnswered`, `PublishedEventsHandled`, `ShutdownCompletes` | two requests and two publishers contending for channels of one: every request is answered, every published event handled, every shutdown done | 187k |
| `priority_queue` | `IndexesPointBack`, `HeapOrdered`, `ImplementsPurgeQueue` | heaps of up to six buffers, three priorities, every turn of the heap's loops; every call compared with the abstract queue's | 9.3k (up to symmetry) |
| `poll_stream` | `StreamTypeOK`, `StreamWithoutHoles`, `SinceTimeRespected`, `StopIsHeeded`, `EveryEventConveyed`, `StopEnds` | either client over many polls through a faulty network: every event once and in order, but for those a timeout moved the Go client's cursor past; stop stops | 139k |
| `persistor` | `PersistorTypeOK`, `FileFollowsHandled`, `ShutdownPersists`, `RestartRecovers`, `ShutdownFinishes`, `EventuallyInFile` | short, oversized and unmarshallable events, disk errors, crashes in the middle of a write, two restarts: the file follows what was handled, a restart gets back what was flushed; the timer flushes when events without a JSON form stop coming | 372k |

The five runs that expect a violation are section 6.

**Bounds.** A buffer of two and three events (or two and a TTL) is the least
that has eviction, a front, a back and a tie at once. Two clients are needed
for one to overtake another; a client makes one request, as each request has a
`ClientUUID` of its own. The channels' capacity is 1 or 2 instead of 100:
blocking on a full channel is then frequent, and nothing in the code depends on
the number. The purge period is one tick and the TTL two, so that purges happen
before, at and after expiry; the clock runs one to three ticks past the start.
Two categories matter where one must not disturb the other
(`delete_on_retrieval`); elsewhere one is enough since no handler touches a
second one but the purge. Six buffers make a heap of three levels in which the
buffer moved into a removed one's place may have to go *up*, and in which two
children may have to be compared. Safety
runs use symmetry on clients and IDs (and publishers); the liveness run uses
none, and polls only "from now on", as what is buffered makes no difference to
whether a wait ends.

In `poll_stream` an `int64` is one byte and a millisecond ten nanoseconds, so
that a start time of 20 wraps to one before all events, as one after the year
2262 does in the code; a second is two milliseconds, so that `Start` cuts one
off; the channel to the program holds one event, so that every batch of two
meets `doQuitCheck`. Three events are two batches with a tie in one of them. In
`persistor` the write buffer (2) is shorter than a line (3 or 5 bytes), the
scanner's limit (4) lies between the two sizes of events, and one of four
events has no JSON form: each line is cut at the buffer's end, torn lines are
followed by whole ones, and with three starts the repair of one crash meets a
second one.

Deadlock checking is off where the bounds end behaviours (the clock, the number
of requests) and the manager may stop for good; that the system does not get
stuck is what the liveness properties say. It is on for the priority queue.

**Fairness** (`Longpoll!Fairness`). Weak fairness for each case of the
manager's `select` and for each goroutine's next step. Go's `select` picks
uniformly among the ready cases, so no case that stays ready is passed over for
ever; the scheduler runs every runnable goroutine; goroutines blocked on a
channel are served first in, first out; and a request's timeout fires, which is
the fairness on `Timeout \/ Disconnect \/ Respond`. Nothing is assumed of
arrivals, disconnects, calls of `Publish` or `Shutdown`, or the timer.
`RequestsAnswered` and `PublishedEventsHandled` are qualified by nobody
shutting the manager down; the last part of section 6 says why they must be.

`PollStream!LoopFairness`: the client's loop goes on and the server answers or
times out (weak); and polls that are answered with events are not all timed
out, and their answers not all lost or garbled (strong, for `Respond`,
`FetchedEvents` and `onEvents`). Without the latter a network that breaks every
request refutes all liveness. That the program reads its channel (`Read`) is
part of `ReadingSpec` only: `stop_stuck` does without. Publishing, stopping and
the clock are not assumed.

`PersistorSpec`: the manager's and the add-on's goroutines go on and the flush
period elapses. The timer is sure to fire only if no event comes meanwhile: the
fairness is on `Queued = 0 /\ TimerFires`, and an event that comes in time and
again takes it away. Once a value is in `timer.C` the `select` does not pass
its case over for ever (`FlushOnTimer`), unless a `Reset` takes the value back.
Go does that since 1.23, and not before or with `asynctimerchan=1`; `go.mod`
names no version, so `ResetTimer` may do either. What is published is not
assumed to come or to pause. `EventuallyInFile` therefore has a premise: events
without a JSON form come to an end. The run has behaviours where they do not,
and section 6 says what happens in them. The other events are finitely many in
the run; in the code, each that is written asks whether it is time to flush. A
crash, a disk error, a restart or a call of `Shutdown` may or may not come.
Where one of them excuses a promise, the property says so.

**Mutations.** For every property of a passing run `PROJECT.json` names a
mutated operator under which TLC finds the property violated in that run.

## 5. What is proved

With TLAPS, for every value of the constants that the modules' assumptions
(section 7) allow: any number of clients, categories, publishers and events,
any buffer size and TTL, either retrieval mode, any add-on. Eight modules hold
the proofs.

| Module | Theorem | States | Hypothesis beyond the modules' assumptions |
|---|---|---|---|
| `EventBufferProofs` | `SinceTimeIsExact` | in a list in time order, a poll without `last_id` gets exactly what is newer than `since_time` | |
| | `LastIDIsExact` | in a list in time order with distinct IDs, a poll naming an event of the list gets exactly what is in front of it | |
| `SubscriptionManagerProofs` | `TypeCorrect` | `[]TypeOK` | |
| | `StoreIsConsistent` | `[]StoreConsistent` | |
| | `OneShot` | `[]OneShotChannels`: the manager never blocks on a client's channel | |
| `DeliveryProofs` | `NoDataMissed` | `[]NoParkedClientMissesData` | `ChronologicalPublish` |
| | `FreshAnswers` | `AnswersAreFresh` | `ChronologicalPublish` |
| | `NoLiveEventLost` | `NoLiveEventDropped` | `ChronologicalPublish` |
| | `ServedOnce` | `[]ServedEventsAreGone` | the add-on loads no event twice |
| | `StartupKeepsNewest` | `StartupKeepsNewestLive` | |
| | `ResumesExactly` | `ResumesExactlyAfterLastID` | `ChronologicalPublish`; what the add-on loads has distinct IDs |
| `LongpollProofs` | `LongpollTypeCorrect` | `[]LongpollTypeOK` | |
| | `LongpollImplementsManager` | `ImplementsManager` | if there is one publisher: what the add-on loads is not from the future |
| | `ServerStoreIsConsistent` | `[]StoreConsistent` of the running server | |
| | `ServerOneShot`, `ServerStartupKeepsNewest` | the same properties of the running server | as `LongpollImplementsManager` |
| | `ServerServedOnce` | `[]ServedEventsAreGone` of the running server | the same; the add-on loads no event twice |
| | `ServerNoDataMissed`, `ServerFreshAnswers`, `ServerNoLiveEventLost` | the same properties of the running server | one publisher, no loaded event from the future |
| | `ServerResumesExactly` | `ResumesExactlyAfterLastID` of the running server | the same; what the add-on loads has distinct IDs |
| `LongpollLogProofs` | `LongpollImplementsLog` | `ImplementsEventLog` | `LogAssumption` |
| `PollStreamProofs` | `StreamTypeCorrect` | `[]StreamTypeOK` | |
| | `StopHeeded` | `[]StopIsHeeded` | |
| | `NoHoles` | `[]StreamWithoutHoles` | `TimesFit` |
| | `NothingTooOld` | `[]SinceTimeRespected` | `TimesFit` |
| | `RoundTrip` | up to `MaxMs`, a millisecond sent as `since_time` and converted to `time.Time` is the millisecond events are compared with | |
| `PriorityQueueProofs` | `IndexesCorrect` | `[]IndexesPointBack` | |
| | `HeapIsOrdered` | `[]HeapOrdered` | |
| | `HeapImplementsQueue` | `ImplementsPurgeQueue` | |
| `FilePersistorProofs` | `PersistorTypeCorrect` | `[]PersistorTypeOK`: neither the write buffer nor a channel ever holds more than it has room for | |
| | `FileFollows` | `[]FileFollowsHandled` | |
| | `ShutdownKeepsAll` | `[]ShutdownPersists` | |
| | `RestartRecoversFlushed` | `RestartRecovers` | |
| | `OnePublisherNeverPanics` | `[]RestartNeverPanics` | `LonePublisher` |

**The hypotheses**, each of them met by the run that checks the same property,
but for the last one, whose theorem says when the violation of the run
`concurrent_publish` cannot come about:

* `ChronologicalPublish`: events enter the manager's channel in the order of
  their timestamps. `LongpollImplementsManager` shows that one publisher does
  so; the run `concurrent_publish` shows that two may not, and section 6 what
  follows. Without it the four theorems are false.
* An event loaded twice is buffered twice, and stays buffered when its copy is
  retrieved: `ServedOnce` needs an add-on that reads each event once. IDs need
  not differ.
* Two events of the add-on with one ID and one time are one and the same to a
  cursor: `ResumesExactly` needs distinct IDs (`DistinctEvents`), as random UUIDs
  are. Those that `Publish` makes differ from all before in the model already.
* `NoFutureEvents` for a lone publisher: a publisher stamps its events with the
  clock, and the order is lost if the add-on has loaded an event of a later
  time (the clock was set back between two processes). With several publishers
  nothing is promised about order, and nothing is assumed.
* `LogAssumption` is what `EventLog` is about: one publisher, no loaded event
  from the future or twice, no TTL, no deletion on retrieval, and no more events
  than a buffer holds. Section 2 has the log that forgets in its plan.
* `TimesFit`: the clock does not pass `MaxMs`, the last millisecond that int64
  nanoseconds can express (in the year 2262), and no program asks to poll since
  before `-MaxMs`. Times beyond `MaxMs` may be asked for, and wrap. A clock
  past it would wrap too, and start a client all over.
* `LonePublisher` for `OnePublisherNeverPanics`: one goroutine calls `Publish`.

**The manager** (`SubscriptionManagerProofs`). `StoreConsistent` is not
preserved by the handlers' parts: between the expiry check (or deletion on
retrieval, or creation of a buffer) and `deleteBufferIfEmpty` (or queueing) the
buffer of the category at hand may be empty. The proofs name that intermediate
state, `InHandler(st, cat)`, and show for each operation which of the two it
takes and which it returns: `CheckExpiredEventsKeeps`, `CreateBufferKeeps` end
in `InHandler`; `DeleteBufferIfEmptyRestores`, `QueueInBufferRestores` end in a
good store. They rest on what the buffer's operations return
(`EventBufferProofs`), which rests on `MaxOfInterval`: the greatest element of a
bounded set of naturals exists. The inductive invariant `IInv` adds
`HandlersHaveRequests`: a handler that is waiting or leaving has a request, so
that the notice `SendTimeout` sends is one.

For `OneShot`, `OnePlace` says where a request may be and that only one of them
holds: in the channel of subscriptions, parked under its own category, or
answered. The subscription must agree with the request wherever it is,
otherwise a timeout notice could leave the parked one behind.

**Delivery** (`DeliveryProofs`). Every handler is summarised by what it does to
the *list* of each category: it takes a window of it (`IsWindow`), trims
expired events off its back (`IsTrimmed`), or pushes one event in front
(`IsPushed`). `Step` classifies each action of the manager that way once, and
each invariant is then shown of the few kinds of step:

* `DeliveryInv` joins `OnePlace`, `Known` (events in the system were
  published), `NothingYet` (what is empty before `run` starts), `Chronological`
  (buffers, the channel and what comes later are in one order) and `Waiting`
  (a parked client's cursor covers its category's buffer). `Waiting` is kept by
  an answer of nothing because of `SinceTimeIsExact`'s argument, and it is here
  that the cached oldest time matters: the shortcut that takes the whole buffer
  and the search must agree.
* `NoLiveEventLost` and the purge: the heap's threshold is compared with the
  *newest* event of a buffer, so a buffer in time order that is purged has
  expired as a whole.
* `Once` (no event is twice in the channel, the buffers and, under
  delete-on-retrieval, the answers under way) gives `ServedOnce`.
* `Accounted` follows the events of the add-on while they are loaded: each is
  yet to be read, older than the cutoff, expired, buffered, or pushed out of a
  full buffer of events as new.
* `ResumesExactly`: published events have distinct IDs (`UniqueIDs`), those in
  the system were published (`Known`) and are there once (`Once`), so the list
  of a category has distinct IDs, and the event a poll names is found at one
  place of it. What is served is what lies in front of that place
  (`ServedUpToTheNamed`), after the expired were trimmed off, which the named
  one is not; also where the cached oldest time cuts the search short.

**The goroutines** (`LongpollProofs`). `LInv` is the manager's invariant in the
composed system with what each handler, publisher and caller of `Shutdown` has
at each of its stages; `InTime` says that a lone publisher's pending event is as
new as all that was published. Each action is then an action of the manager's
open environment or a stutter of it. The module's last part cites the theorems
of `DeliveryProofs` for the handlers and requests as the manager sees them
(`Proved == INSTANCE DeliveryProofs WITH ...`), and carries what they say over
to the server's own: to the manager a request that has not been sent yet, and
one that was refused, is idle (`CarryOneShot`), and a step it does not see
changes nothing these properties look at (`UnseenStep`).

**The log** (`LongpollLogProofs`). A poll's answer is fixed when the manager
sends it, and the handler may return it much later, when the log has grown:
`LogInv` says of each request how it fares. It is unknown to the manager until
it is queued (`Untold`), queued as it was made, parked only if nothing is behind its
cursor, and what was sent to it is the `BatchOf` the log as of some moment since
it was made (`Fares`). That moment is the witness `AnswerEvents` asks for. Two
lemmas carry the weight: `BehindIsAfter`, that the buffer's search from the
newest event and the log's place of the cursor agree (also for a cursor that
names no event); and `RoomForOneMore`, that distinct events, no more of them
than a buffer holds, never push one out.

**The clients** (`PollStreamProofs`). `TInv` has types and places, and that
what is under way when `stop` is called bounds what is conveyed after it, which
is `StopHeeded`. `SInv` says that what was conveyed, continued by what is still
to be handed over (Go), is a flow through the log (`IsFlow`), and that the
cursor is a place from which the next answer continues it (`Resumes`), which
must survive its way through int64 nanoseconds (`WireKeepsCursor`, by
`RoundTrip`).

`RoundTrip` itself: the product lies within the range of an `int64`, where
`Wrap` changes nothing (`WrapIsExact`), and the division undoes the
multiplication (`DivOfMultiple`).

**The heap** (`PriorityQueueProofs`). While a loop of `container/heap` runs, the
order is disturbed around one place, the loop variable `hole`. `IInv` says where
it may be (`Places`), and that the heap is ordered but for the hole and its
parent (`up`) or its children (`down`). That alone is not inductive: a swap needs
that the hole's children are no older than its parent (`Bridged`). That the
root is oldest (`HeapImplementsQueue`) is an induction along the parents
written as a least counterexample.

**The add-on** (`FilePersistorProofs`). Whatever `bufio.Writer.Write` is called
with, what it does not pass on fits the buffer again (`WriteProperties`), if the
buffer was within its bounds and the event has a size at all; `PInv` therefore
follows events from their stamp through both channels. A write that fails, a
flush and a restart leave the buffer empty. That is `PersistorTypeCorrect`. The
rest is about the stream of bytes, the file and after it the buffer:

* *Lines.* `Pick` is determined by an enumeration of the places in order
  (`Enumeration`), so that equalities between picked sequences are shown place by
  place, without induction over the data. Appending a newline and an event's
  JSON adds one line and one event (`LineAdded`): the newline goes in front, and
  so it ends a torn line, if there is one. Of a beginning of the stream, cut anywhere,
  what can be read back is a prefix of what can be read back of the whole
  (`BeginningEvents`).
* *The writer.* What it has passed on and what it keeps are together what it was
  given (`WriteKeepsAll`, for every way of filling and overflowing the buffer);
  what the disk took of it is a beginning of that (`ToFileWrites`).
* *The way of an event.* `Course`: from `Publish` through both channels to the
  events handled no event is twice, and with one publisher they are in the order
  of time.
* *What the file ought to hold.* For a history of events handled, `Holds(bytes,
  ...)` says that bytes hold those taken from the channel, `Reaches` that the
  events on bytes are a prefix of those they ought to hold in the end. `StreamOK` is
  the first of the stream while no write has failed, `FileOK` the second of the file, always. A start
  (`RunBegins`) makes what the file holds the new base, torn line included.

`SInv == PInv /\ Course /\ Stages /\ HistoryOK /\ FileOK /\ StreamOK` is
inductive; TLC checked its parts in the instances of the runs `persistor` and
`concurrent_publish` before they were proved. `RestartRecovers` needs one more
step: the scan that ends at a line too long for the scanner has got the events
of the lines before it (`RecoveredProperties`). `OnePublisherNeverPanics` then needs only that these
are some of the events handled, in their order.

*Only model-checked:*

* Liveness: out of the prover's reach. It concerns `RequestsAnswered`,
  `PublishedEventsHandled`, `ShutdownCompletes`, `EveryEventConveyed`,
  `StopEnds`, `ShutdownFinishes` and `EventuallyInFile`.

Every safety property of a passing run is stated by a theorem.

## 6. What the code does that its comments do not say

Each of these is a run in which TLC violates the statement quoted in
`PROJECT.json` under "findings".

* `gone_clients`: a timeout or disconnect notice handled before its own
  subscription does nothing, and the subscription is parked afterwards, until
  the next event of its category.
* `delete_loses`: with delete-on-retrieval, an event forwarded to a client that
  has just left its `select` is neither buffered nor received.
* `timeout_skips`: a timeout answer moves the Go client's cursor to the server's
  clock, past an event stamped before it that the request did not get.
* `stop_stuck`: the Go client looks at the stop signal before a send, not while
  it waits for room; stopped there and no longer read from, its goroutine stays.
* `concurrent_publish`: two publishers can send their events in the opposite
  order of their timestamps. Persisted like that, they make every later
  `StartLongpoll` panic.

`ChronologicalPublish` is the assumption the last one refutes: the runs of
`SubscriptionManager` that need time order make it, and `environment` shows
that one publisher satisfies it.

Seen while modelling, without a run of their own:

* Two publishers out of order also make the search in `GetEventsSince` stop too
  early, so that a poll waits while the buffer holds a newer event, and give
  the buffer the older priority, so that the purge may drop a live event.
* Once the channels of a stopped manager are full, a handler blocks for ever,
  past its own timeout, and so does `Publish` if it passed its check before.
* The comment at `longpoll.go:583` speaks of taking the *additional events* that
  are still in the channel at shutdown; the `select` below it runs once, so one
  event at most is taken (`DrainEvent`, `TakeEvent`) and the others never reach
  the add-on. `ShutdownPersists` is therefore about what `OnPublish` was given.
* `fileaddon.go:119-123` says events too long for the scanner's buffer, like
  those that cannot be unmarshalled, "will be skipped"; the scan ends there, and
  all later events are lost with it. `RestartRecovers` makes the exception.
* A steady stream of events that do not marshal, less than half a second apart,
  keeps what is buffered from the file: each sets the timer anew
  (`fileaddon.go:182`) and jumps over the question whether it is time to flush
  (196). The comment at 158-159 speaks of a flush "at the configured time
  interval". Without the premise of `EventuallyInFile` TLC refutes it with just
  this loop: `OnPublishNoJson`, `SkipEvent`, and so on, with the period over and
  an event in the writer's buffer.
* If the persistor cannot open its file, `run` returns without closing
  `shutdownDone`: `OnShutdown` waits for ever, and `OnPublish` once the channel
  is full. `ShutdownFinishes` makes the exception.
* An answer with status 200 that is not JSON kills the JavaScript client's loop
  without a call of `onFailure` (`onGarbled`, `pc = "dead"`).
* The Go client's `Start` cuts `pollSince` down to the second, so that a program
  polling since "now" may get events of up to a second before.
* An event that arrives while a poll waits is forwarded whatever its time
  (`longpoll.go:714`), and may move a client's cursor back.

## 7. Abstractions and assumptions

* An event is its time, category and ID; `Data` is opaque to the code. In
  `FilePersistor` it is its timestamp, and timestamps differ.
* A handler reads the clock once; the code reads it up to three times in a few
  microseconds. The clock does not go back, while a process runs or between two.
* IDs are unique, as random UUIDs are.
* Add-on callbacks return in `SubscriptionManager`; that the persistor's may not
  is `FilePersistor`'s subject.
* A request's timeout may fire at any time after it subscribed.
* `since_time` ranges over one fixed value, in the past or (`environment`) of
  the first events, and every reading of the clock so far (`SinceTimes`,
  `PollTimes`), and in `PollStream` over what the client sends; `last_id` over
  all IDs published so far.
* `EventLog` has no eviction: a client that polls less often than a buffer turns
  over loses events, and `PollStream` does not speak of it.
* `PollStream` has one client on one category. The JavaScript option `lastId`,
  which restarts from a cursor, is left unset.
* `FilePersistor` takes it that a file that can be opened can be read, and that
  what the operating system was given survives the process (not the machine).
  Its manager stamps and passes on events and has no clients.
* The counters that the bounds cut off are `now` (`MaxTime`), the requests and
  events (finite `Clients`, `EventIDs`; `MaxEvents`) and the starts (`MaxStarts`). The
  events of `OnPublishNoJson` are not counted and without end, but only one of
  them is in the add-on's channel at a time, in front of the numbered ones.
* The modules' assumptions on constants, which all theorems use: capacities and
  buffer sizes are positive (the Go client's channel may have no room), a TTL is
  positive or `forever`, times are integers (those on the clock naturals),
  publishers are finitely many, `NoID` and `NoEvent` are no event's, a client
  polls one of the categories, an add-on loads finite lists of events.

## 8. Not modelled

* `PublishHandler`'s validation, the clients' `Publish`/`publish` (one HTTP
  request without state of their own), the defaults of `Options`, and the panics
  on wrong arguments or a second `Start`, `Stop` or `Shutdown`: none changes a
  state the other parts see.
* The errors of the event buffer for list elements that are not events: nothing
  else is put in the list.
* Logging, authentication, HTTP itself, and the examples, which have no logic of
  their own.

## 9. Running it

```
tlc -config Expiry.cfg MCSubscriptionManager.tla
tlc -config PollStream.cfg MCPollStream.tla
tlc -config Persistor.cfg MCFilePersistor.tla
tlapm EventBufferProofs.tla
tlapm SubscriptionManagerProofs.tla
tlapm DeliveryProofs.tla
tlapm LongpollProofs.tla
tlapm LongpollLogProofs.tla
tlapm PollStreamProofs.tla
tlapm PriorityQueueProofs.tla
tlapm FilePersistorProofs.tla
```

`PROJECT.json` names the module and the configuration of every run, the lines
of the source each definition models, the hazards, the findings and the
theorems.

----------------------------- MODULE FilePersistor -----------------------------
(***************************************************************************)
(* FilePersistorAddOn (fileaddon.go) between the manager, which calls it   *)
(* through the AddOn interface, and a file: the channel, the goroutine     *)
(* with its bufio.Writer, crashes, restarts and the reload.                *)
(*                                                                         *)
(* An event is its timestamp, and the timestamps taken are all different.  *)
(* A byte is a pair: the n-th byte of the event's JSON, or a newline.      *)
(* Events that leave no byte behind need no timestamp: of these, noJson,   *)
(* there is no end.                                                        *)
(***************************************************************************)
EXTENDS Integers, SequencesExt, Subsequences

CONSTANTS
  Publishers,            \* goroutines that call Publish
  Size,                  \* length of each event's JSON, 0 if it has none
  WriteBufferSize,       \* bytes: writeBufferSize
  MaxScanTokenSize,      \* bytes: 64 * 1024, of bufio
  ChannelSize,           \* of Events and of publishedEvents: 100
  MaxEvents, MaxStarts   \* bounds of the model: Publish, StartLongpoll

ASSUME FilePersistorAssumption ==
  /\ MaxEvents \in Nat
  /\ Size \in [1 .. MaxEvents -> Nat]
  /\ WriteBufferSize \in Nat \ {0}
  /\ MaxScanTokenSize \in Nat \ {0}
  /\ ChannelSize \in Nat \ {0}

VARIABLES
  stamped,               \* how many timestamps have been taken
  publishing,            \* per publisher: the event it has to send, or 0
  Events,                \* the manager's channel
  quit,                  \* the manager's quit channel is closed
  manager,               \* where the manager's goroutine is
  onPublish,             \* the event it is passing to OnPublish, or 0
  publishedEvents,       \* the add-on's channel ...
  noJson,                \* ... in front of these, an event without a number
  closed,                \* ... and whether the channel is closed
  persistor,             \* where the add-on's goroutine is
  out,                   \* bytes in the bufio.Writer
  broken,                \* the bufio.Writer has seen an error
  due,                   \* writeFlushPeriodSeconds have passed since a flush
  fired,                 \* a value is in timer.C
  file,                  \* bytes in the file
  starts,                \* how often the program was started
  recovered,             \* what StartLongpoll was given
  handled,               \* history: all events passed to OnPublish
  before,                \* history: how many of them in earlier runs
  base,                  \* history: events in the file when this run began
  durable                \* history: events covered by a flush

publishVars  == <<stamped, publishing>>
managerVars  == <<Events, quit, manager, onPublish>>
channelVars  == <<publishedEvents, noJson, closed>>
writerVars   == <<persistor, out, broken, due, fired>>
startVars    == <<starts, recovered, before, base>>
persistorVars == <<publishVars, managerVars, channelVars, writerVars, file,
                   startVars, handled, durable>>

-----------------------------------------------------------------------------
(* Bytes and lines.                                                        *)

NL == <<0, 0>>
Json(e) == [i \in 1 .. Size[e] |-> <<e, i>>]

(* bufio.ScanLines, but for the empty lines, which the reader skips: where *)
(* the lines start, and the line that starts at place i.                   *)
LineStarts(bytes) ==
  {i \in DOMAIN bytes : bytes[i] # NL /\ (i = 1 \/ bytes[i - 1] = NL)}

LineEnd(bytes, i) ==
  Min({j \in i .. Len(bytes) : j = Len(bytes) \/ bytes[j + 1] = NL})

LineAt(bytes, i) == SubSeq(bytes, i, LineEnd(bytes, i))

(* A line that json.Unmarshal takes: neither torn nor two in one.          *)
IsWhole(line) == line = Json(line[1][1])

(* The events on those of the lines that start at the given places.        *)
EventsFrom(bytes, places) ==
  LET json == Pick(bytes, {i \in places : IsWhole(LineAt(bytes, i))})
  IN  [k \in DOMAIN json |-> json[k][1]]

EventsOn(bytes) == EventsFrom(bytes, LineStarts(bytes))

(* Variant for the mutation runs: one line that is not JSON ends the load. *)
getOnStartInputEvents_StopsAtTorn(bytes) ==
  EventsFrom(bytes,
    {i \in LineStarts(bytes) :
       \A j \in LineStarts(bytes) : j <= i => IsWhole(LineAt(bytes, j))})

(* What is loaded from the file: lines that cannot be unmarshalled are     *)
(* skipped, but one that does not fit the scanner's buffer ends the scan.  *)
getOnStartInputEvents(bytes) ==
  EventsFrom(bytes,
    {i \in LineStarts(bytes) : \A j \in LineStarts(bytes) :
       j <= i => Len(LineAt(bytes, j)) < MaxScanTokenSize})

(* Variant for the mutation runs: a buffer without a limit.                *)
Write_KeepsAll(buffered, data) == [disk |-> <<>>, out |-> buffered \o data]

(* bufio.Writer.Write, with data in several calls if need be: what it      *)
(* passes on to the file, and what stays buffered.                         *)
Write(buffered, data) ==
  LET all  == buffered \o data
      disk == IF Len(all) <= WriteBufferSize THEN 0
              ELSE IF buffered # <<>> /\ Len(all) <= 2 * WriteBufferSize
                   THEN WriteBufferSize ELSE Len(all)
  IN  [disk |-> SubSeq(all, 1, disk), out |-> SubSeq(all, disk + 1, Len(all))]

(* Variant for the mutation runs: the newline is written after the JSON.   *)
WriteLine_NewlineAfter(buffered, e) ==
  LET json == Write(buffered, Json(e))
      nl   == Write(json.out, <<NL>>)
  IN  [disk |-> json.disk \o nl.disk, out |-> nl.out]

(* The newline goes in front, so that a torn line ends where the next one  *)
(* begins.                                                                 *)
WriteLine(buffered, e) ==
  LET nl   == Write(buffered, <<NL>>)
      json == Write(nl.out, Json(e))
  IN  [disk |-> nl.disk \o json.disk, out |-> json.out]

Flushed(w) == [disk |-> w.disk \o w.out, out |-> <<>>]

-----------------------------------------------------------------------------
(* Publishers and the manager.                                             *)

Running == manager \notin {"down", "crashed", "panicked", "stopped"}

(* Publish stamps the event ...                                            *)
Stamp(p) ==
  /\ Running /\ ~quit
  /\ stamped < MaxEvents
  /\ publishing[p] = 0
  /\ stamped' = stamped + 1
  /\ publishing' = [publishing EXCEPT ![p] = stamped + 1]
  /\ UNCHANGED <<managerVars, channelVars, writerVars, file, startVars,
                 handled, durable>>

(* ... and sends it.                                                       *)
Send(p) ==
  /\ Running
  /\ publishing[p] # 0
  /\ Len(Events) < ChannelSize
  /\ Events' = Append(Events, publishing[p])
  /\ publishing' = [publishing EXCEPT ![p] = 0]
  /\ UNCHANGED <<stamped, quit, manager, onPublish, channelVars, writerVars,
                 file, startVars, handled, durable>>

(* case event := <-sm.Events, in the loop and once more in the drain.      *)
TakeEvent ==
  /\ manager \in {"select", "drain"}
  /\ Events # <<>>
  /\ Events' = Tail(Events)
  /\ onPublish' = Head(Events)
  /\ manager' = IF manager = "select" THEN "OnPublish" ELSE "last OnPublish"
  /\ UNCHANGED <<publishVars, quit, channelVars, writerVars, file, startVars,
                 handled, durable>>

(* How many events the add-on's channel holds.                             *)
Queued == Len(publishedEvents) + (IF noJson THEN 1 ELSE 0)

(* sm.AddOn.OnPublish(event), which the manager waits for.                 *)
OnPublish ==
  /\ manager \in {"OnPublish", "last OnPublish"}
  /\ Queued < ChannelSize
  /\ publishedEvents' = Append(publishedEvents, onPublish)
  /\ handled' = Append(handled, onPublish)
  /\ onPublish' = 0
  /\ manager' = IF manager = "OnPublish" THEN "select" ELSE "OnShutdown"
  /\ UNCHANGED <<publishVars, Events, quit, noJson, closed, writerVars, file,
                 startVars, durable>>

(* The same for an event without a number, at the end of its way through   *)
(* the manager, if the channel is empty.                                   *)
OnPublishNoJson ==
  /\ manager = "select" /\ ~quit
  /\ ~noJson /\ publishedEvents = <<>>
  /\ noJson' = TRUE
  /\ UNCHANGED <<publishVars, managerVars, publishedEvents, closed, writerVars,
                 file, startVars, handled, durable>>

Shutdown ==
  /\ Running /\ ~quit
  /\ quit' = TRUE
  /\ UNCHANGED <<publishVars, Events, manager, onPublish, channelVars,
                 writerVars, file, startVars, handled, durable>>

(* case _ = <-sm.Quit; then the drain, which may find nothing.             *)
TakeQuit ==
  /\ \/ manager = "select" /\ quit /\ manager' = "drain"
     \/ manager = "drain" /\ manager' = "OnShutdown"
  /\ UNCHANGED <<publishVars, Events, quit, onPublish, channelVars, writerVars,
                 file, startVars, handled, durable>>

(* OnShutdown closes the channel and waits for shutdownDone.               *)
OnShutdown ==
  /\ \/ manager = "OnShutdown" /\ manager' = "wait" /\ closed' = TRUE
     \/ /\ manager = "wait" /\ persistor = "finished"
        /\ manager' = "stopped" /\ UNCHANGED closed
  /\ UNCHANGED <<publishVars, Events, quit, onPublish, publishedEvents, noJson,
                 writerVars, file, startVars, handled, durable>>

-----------------------------------------------------------------------------
(* The add-on's goroutine.                                                 *)

Persisting == Running /\ persistor = "select"

Marshalled(e) == Size[e] > 0

MarshalledOf(seq) == Pick(seq, {i \in DOMAIN seq : Marshalled(seq[i])})

(* The events the goroutine has taken from its channel: all before the     *)
(* last few.                                                               *)
TakenBy(events, channel) == SubSeq(events, before + 1, Len(events) - Len(channel))

(* What is passed on reaches the file, or a part of it does and the writer *)
(* refuses all that follows.                                               *)
ToFile(w) ==
  \/ /\ file' = file \o w.disk
     /\ out' = w.out
     /\ UNCHANGED broken
  \/ \E n \in 0 .. Len(w.disk) - 1 :
       /\ file' = file \o SubSeq(w.disk, 1, n)
       /\ out' = <<>>
       /\ broken' = TRUE

(* After a flush without an error every event taken so far is in the file. *)
NoteDurable(channel) ==
  durable' = IF broken' THEN durable
             ELSE base \o MarshalledOf(TakenBy(handled, channel))

(* timer.Reset, for the next wait.  Since Go 1.23 it takes back a value    *)
(* that was not received; before, or with asynctimerchan=1, it does not.   *)
ResetTimer == fired' \in {FALSE, fired}

(* case event, ok := <-fp.publishedEvents                                  *)
WriteEvent ==
  /\ Persisting
  /\ ~noJson /\ publishedEvents # <<>>
  /\ publishedEvents' = Tail(publishedEvents)
  /\ LET e    == Head(publishedEvents)
         line == WriteLine(out, e)
     IN  IF ~Marshalled(e) \/ broken
         THEN UNCHANGED <<out, broken, due, file, durable>>
         ELSE IF due
              THEN /\ ToFile(Flushed(line))
                   /\ due' \in {FALSE, broken'}
                   /\ NoteDurable(Tail(publishedEvents))
              ELSE ToFile(line) /\ UNCHANGED <<due, durable>>
  /\ ResetTimer
  /\ UNCHANGED <<publishVars, managerVars, noJson, closed, persistor, startVars,
                 handled>>

(* The same case for an event without a JSON form: whether it is time to   *)
(* flush is not asked, but the timer is set anew.                          *)
SkipEvent ==
  /\ Persisting
  /\ noJson
  /\ noJson' = FALSE
  /\ ResetTimer
  /\ UNCHANGED <<publishVars, managerVars, publishedEvents, closed, persistor,
                 out, broken, due, file, startVars, handled, durable>>

(* Variant for the mutation runs: only events make the writer flush.       *)
FlushOnTimer_Never ==
  /\ Persisting /\ fired
  /\ fired' = FALSE
  /\ UNCHANGED <<publishVars, managerVars, channelVars, persistor, out, broken,
                 due, file, startVars, handled, durable>>

(* case <-timer.C                                                          *)
FlushOnTimer ==
  /\ Persisting /\ fired
  /\ fired' = FALSE
  /\ IF due /\ ~broken
     THEN ToFile(Flushed([disk |-> <<>>, out |-> out])) /\ NoteDurable(publishedEvents)
     ELSE UNCHANGED <<out, broken, file, durable>>
  /\ due' = FALSE
  /\ UNCHANGED <<publishVars, managerVars, channelVars, persistor, startVars, handled>>

(* Half a second has passed since the timer was set.                       *)
TimerFires ==
  /\ Persisting /\ ~fired
  /\ fired' = TRUE
  /\ UNCHANGED <<publishVars, managerVars, channelVars, persistor, out, broken,
                 due, file, startVars, handled, durable>>

PeriodElapses ==
  /\ Persisting /\ ~due
  /\ due' = TRUE
  /\ UNCHANGED <<publishVars, managerVars, channelVars, persistor, out, broken,
                 fired, file, startVars, handled, durable>>

(* Variant for the mutation runs: no flush at the end.                     *)
Finish_NoFlush ==
  /\ Persisting /\ closed /\ Queued = 0
  /\ persistor' = "finished"
  /\ UNCHANGED <<publishVars, managerVars, channelVars, out, broken, due, fired,
                 file, startVars, handled, durable>>

(* Variant for the mutation runs: run does not notice that the channel is  *)
(* closed, and goes on reading from it.                                    *)
Finish_Unnoticed ==
  /\ Persisting /\ closed /\ Queued = 0
  /\ UNCHANGED persistorVars

(* The channel is closed and empty: a last flush, and shutdownDone.        *)
Finish ==
  /\ Persisting /\ closed /\ Queued = 0
  /\ IF broken THEN UNCHANGED <<out, broken, file, durable>>
     ELSE ToFile(Flushed([disk |-> <<>>, out |-> out])) /\ NoteDurable(<<>>)
  /\ persistor' = "finished"
  /\ UNCHANGED <<publishVars, managerVars, channelVars, due, fired, startVars,
                 handled>>

-----------------------------------------------------------------------------
(* What the goroutine may be writing to the file just now.                 *)
UnderWay ==
  IF ~Persisting \/ broken THEN {}
  ELSE (IF (due /\ fired) \/ (closed /\ Queued = 0) THEN {out} ELSE {}) \cup
       {IF due THEN Flushed(WriteLine(out, e)).disk ELSE WriteLine(out, e).disk :
          e \in {publishedEvents[i] : i \in {1} \cap DOMAIN publishedEvents}
                \cap {d \in 1 .. MaxEvents : Marshalled(d)}}

(* The process dies; of a write that is under way, a part may be done.     *)
Crash ==
  /\ Running
  /\ manager' = "crashed"
  /\ \E bytes \in {<<>>} \cup UnderWay : \E n \in 0 .. Len(bytes) :
       file' = file \o SubSeq(bytes, 1, n)
  /\ UNCHANGED <<publishVars, Events, quit, onPublish, channelVars, writerVars,
                 startVars, handled, durable>>

InOrder(events) == \A i, j \in DOMAIN events : i < j => events[i] <= events[j]

(* OnLongpollStart sends the events of the file and launches the goroutine, *)
(* which returns at once if it cannot open the file.                       *)
OnLongpollStart ==
  /\ recovered' = getOnStartInputEvents(file)
  /\ persistor' \in {"select", "failed"}
  /\ out' = <<>> /\ broken' = FALSE /\ due' = FALSE /\ fired' = FALSE

(* StartLongpoll, for the first time or again, panics if they are not in   *)
(* order.                                                                  *)
StartLongpoll ==
  /\ ~Running
  /\ starts < MaxStarts
  /\ starts' = starts + 1
  /\ OnLongpollStart
  /\ manager' = IF InOrder(recovered') THEN "select" ELSE "panicked"
  /\ publishing' = [p \in Publishers |-> 0]
  /\ Events' = <<>> /\ quit' = FALSE /\ onPublish' = 0
  /\ publishedEvents' = <<>> /\ noJson' = FALSE /\ closed' = FALSE
  /\ before' = Len(handled)
  /\ base' = EventsOn(file)
  /\ UNCHANGED <<stamped, file, handled, durable>>

PersistorInit ==
  /\ stamped = 0 /\ publishing = [p \in Publishers |-> 0]
  /\ Events = <<>> /\ quit = FALSE /\ manager = "down" /\ onPublish = 0
  /\ publishedEvents = <<>> /\ noJson = FALSE /\ closed = FALSE
  /\ persistor = "failed" /\ out = <<>> /\ broken = FALSE /\ due = FALSE
  /\ fired = FALSE /\ file = <<>>
  /\ starts = 0 /\ recovered = <<>> /\ before = 0 /\ base = <<>>
  /\ handled = <<>> /\ durable = <<>>

ManagerStep == TakeEvent \/ OnPublish \/ TakeQuit \/ OnShutdown

PersistorNext ==
  \/ \E p \in Publishers : Stamp(p) \/ Send(p)
  \/ ManagerStep \/ OnPublishNoJson \/ Shutdown
  \/ WriteEvent \/ SkipEvent \/ FlushOnTimer \/ Finish
  \/ TimerFires \/ PeriodElapses
  \/ Crash \/ StartLongpoll

(* The goroutines run and time passes.  Select is fair to its cases: the   *)
(* quit channel is not passed over for ever, nor is a value in timer.C, if *)
(* no Reset takes it back.  But every event sets the timer anew: that it   *)
(* fires is sure only when no event comes.                                 *)
PersistorSpec ==
  /\ PersistorInit /\ [][PersistorNext]_persistorVars
  /\ WF_persistorVars(ManagerStep)
  /\ WF_persistorVars(WriteEvent) /\ WF_persistorVars(SkipEvent)
  /\ WF_persistorVars(Finish)
  /\ WF_persistorVars(FlushOnTimer) /\ WF_persistorVars(PeriodElapses)
  /\ WF_persistorVars(Queued = 0 /\ TimerFires)

-----------------------------------------------------------------------------
(* Properties.                                                             *)

PersistorTypeOK ==
  /\ manager \in {"down", "select", "OnPublish", "drain", "last OnPublish",
                  "OnShutdown", "wait", "stopped", "crashed", "panicked"}
  /\ persistor \in {"select", "finished", "failed"}
  /\ Len(out) \in 0 .. WriteBufferSize
  /\ Len(Events) <= ChannelSize /\ Queued <= ChannelSize
  /\ broken \in BOOLEAN /\ due \in BOOLEAN /\ fired \in BOOLEAN
  /\ quit \in BOOLEAN /\ noJson \in BOOLEAN

Stored == EventsOn(file)

(* What the file ought to hold: what it held when the run began and all    *)
(* that was passed to OnPublish since and has a JSON form.                 *)
Expected ==
  base \o MarshalledOf(SubSeq(handled, before + 1, Len(handled)))

(* The file, read back, is always a prefix of that: however writes are cut *)
(* at the buffer's end, torn by a crash or refused, no event is lost       *)
(* before one that is there, doubled, or merged with a torn line.  And as  *)
(* long as the goroutine works, what is missing is in its buffer and its   *)
(* channel, in that order.                                                 *)
FileFollowsHandled ==
  /\ IsPrefix(Stored, Expected)
  /\ Persisting /\ ~broken =>
       EventsOn(file \o out) \o MarshalledOf(publishedEvents) = Expected

(* When Shutdown has returned, the file holds all that OnPublish was given *)
(* (but not what was left in the manager's own channel).                   *)
ShutdownPersists == manager = "stopped" /\ ~broken => Stored = Expected

(* A program restarted after a crash or a shutdown gets back every event   *)
(* that was covered by a flush, unless an event too long for the scanner   *)
(* was handled before it; and what it gets back are events handled before, *)
(* in that order, each once.                                               *)
HandledAt(e) == CHOOSE i \in DOMAIN handled : handled[i] = e

RestartRecovers ==
  [][starts' # starts =>
       /\ \A e \in ToSet(durable) :
            (\A i \in 1 .. HandledAt(e) : Size[handled[i]] < MaxScanTokenSize)
              => e \in ToSet(recovered')
       /\ ToSet(recovered') \subseteq ToSet(handled)
       /\ \A i, j \in DOMAIN recovered' :
            i < j => HandledAt(recovered'[i]) < HandledAt(recovered'[j])
    ]_persistorVars

(* What StartLongpoll says of the events it is given: that they are in     *)
(* chronological order, even if it was Publish that stamped them.          *)
RestartNeverPanics == manager # "panicked"

(* Shutdown returns, unless the process dies or the add-on could not open  *)
(* its file, in which case OnPublish or OnShutdown waits for ever.         *)
ShutdownFinishes ==
  quit ~> manager \in {"stopped", "crashed"} \/ persistor = "failed"

(* What OnPublish was given is in the file some time later, Shutdown or    *)
(* not, if nothing fails and events without a JSON form come to an end.    *)
(* An endless stream of these, less than half a second apart, keeps what   *)
(* is buffered from the file: each sets the timer anew and none asks       *)
(* whether it is time to flush.  (The events with a number are finitely    *)
(* many; those with a JSON form ask.)                                      *)
EventuallyInFile ==
  <>[]~noJson =>
    \A e \in {d \in 1 .. MaxEvents : Marshalled(d)} :
      (\E i \in before + 1 .. Len(handled) : handled[i] = e) ~>
        \/ e \in ToSet(Stored)
        \/ broken \/ persistor = "failed" \/ manager = "crashed"
=============================================================================

------------------------- MODULE FilePersistorProofs -------------------------
(***************************************************************************)
(* FilePersistorAddOn for every number of publishers and events, every     *)
(* size of an event and of the buffers, every cut of a write and any       *)
(* number of crashes: the write buffer and the channels stay within their  *)
(* bounds, the file can be read back as far as it was written and follows  *)
(* what OnPublish was given, a shutdown leaves nothing behind, a restart   *)
(* gets back what was flushed, and a program with one publisher is never   *)
(* stopped by its own file.                                                *)
(***************************************************************************)
EXTENDS FilePersistor, SequenceTheorems, FiniteSetTheorems, WellFoundedInduction, TLAPS

Stamped == 1 .. MaxEvents
Byte    == Int \X Int

LEMMA EmptyFits ==
  /\ <<>> \in Seq(Byte) /\ Len(<<>>) <= WriteBufferSize
  /\ <<>> \in Seq(Stamped) /\ Len(<<>>) <= ChannelSize
<1>1. Len(<<>>) = 0 /\ WriteBufferSize \in Nat /\ ChannelSize \in Nat
  BY FilePersistorAssumption
<1> QED
  BY <1>1

-----------------------------------------------------------------------------
(* The writer.                                                             *)

LEMMA NewlineIsBytes == <<NL>> \in Seq(Byte) /\ Len(<<NL>>) = 1
<1>1. NL \in Byte
  BY DEF NL, Byte
<1> QED
  BY <1>1

LEMMA JsonIsBytes ==
  ASSUME NEW e \in Stamped
  PROVE  Json(e) \in Seq(Byte)
<1>1. Size[e] \in Nat
  BY FilePersistorAssumption DEF Stamped
<1>2. \A i \in 1 .. Size[e] : <<e, i>> \in Byte
  BY <1>1 DEF Stamped, Byte
<1> QED
  BY <1>1, <1>2 DEF Json

(* Write passes on all that the buffer has no room for.                    *)
LEMMA WriteProperties ==
  ASSUME NEW buffered \in Seq(Byte), Len(buffered) <= WriteBufferSize,
         NEW data \in Seq(Byte)
  PROVE  /\ Write(buffered, data).out \in Seq(Byte)
         /\ Len(Write(buffered, data).out) <= WriteBufferSize
<1> DEFINE all  == buffered \o data
           disk == IF Len(all) <= WriteBufferSize THEN 0
                   ELSE IF buffered # <<>> /\ Len(all) <= 2 * WriteBufferSize
                        THEN WriteBufferSize ELSE Len(all)
<1>1. WriteBufferSize \in Nat \ {0}
  BY FilePersistorAssumption
<1>2. all \in Seq(Byte) /\ Len(all) \in Nat
  BY ConcatProperties, LenProperties
<1>3. /\ disk \in 0 .. Len(all)
      /\ Len(all) - disk <= WriteBufferSize
  BY <1>1, <1>2
<1>4. Write(buffered, data).out = SubSeq(all, disk + 1, Len(all))
  BY DEF Write
<1> HIDE DEF all, disk
<1>5. /\ SubSeq(all, disk + 1, Len(all)) \in Seq(Byte)
      /\ Len(SubSeq(all, disk + 1, Len(all))) =
           IF disk + 1 <= Len(all) THEN Len(all) - (disk + 1) + 1 ELSE 0
  BY <1>2, <1>3, SubSeqProperties
<1> QED
  BY <1>1, <1>2, <1>3, <1>4, <1>5

LEMMA WriteLineProperties ==
  ASSUME NEW buffered \in Seq(Byte), Len(buffered) <= WriteBufferSize,
         NEW e \in Stamped
  PROVE  /\ WriteLine(buffered, e).out \in Seq(Byte)
         /\ Len(WriteLine(buffered, e).out) <= WriteBufferSize
<1> DEFINE nl == Write(buffered, <<NL>>)
<1>1. nl.out \in Seq(Byte) /\ Len(nl.out) <= WriteBufferSize
  BY WriteProperties, NewlineIsBytes
<1>2. WriteLine(buffered, e).out = Write(nl.out, Json(e)).out
  BY DEF WriteLine
<1> HIDE DEF nl
<1> QED
  BY <1>1, <1>2, WriteProperties, JsonIsBytes

OutOK == out \in Seq(Byte) /\ Len(out) <= WriteBufferSize

(* Whatever of it the disk takes, what is left fits, or nothing is left.   *)
LEMMA ToFileKeepsOut ==
  ASSUME NEW w, w.out \in Seq(Byte), Len(w.out) <= WriteBufferSize, ToFile(w),
         broken \in BOOLEAN
  PROVE  OutOK' /\ broken' \in BOOLEAN
<1>1. /\ out' = w.out \/ out' = <<>>
      /\ broken' = broken \/ broken' = TRUE
  BY Zenon DEF ToFile
<1>2. out' \in Seq(Byte) /\ Len(out') <= WriteBufferSize
  <2>1. CASE out' = w.out
    BY <2>1
  <2>2. CASE out' = <<>>
    BY <2>2, EmptyFits
  <2> QED
    BY <1>1, <2>1, <2>2
<1>3. broken' \in BOOLEAN
  BY <1>1, Zenon
<1> QED
  BY <1>2, <1>3 DEF OutOK

-----------------------------------------------------------------------------
(* The invariant: what is on its way to the file was stamped by Publish.   *)

PublishingOK ==
  /\ stamped \in 0 .. MaxEvents
  /\ publishing \in [Publishers -> 0 .. MaxEvents]

ManagerOK ==
  /\ manager \in {"down", "select", "OnPublish", "drain", "last OnPublish",
                  "OnShutdown", "wait", "stopped", "crashed", "panicked"}
  /\ Events \in Seq(Stamped) /\ Len(Events) <= ChannelSize
  /\ quit \in BOOLEAN
  /\ manager \in {"OnPublish", "last OnPublish"} => onPublish \in Stamped

ChannelOK ==
  /\ publishedEvents \in Seq(Stamped)
  /\ noJson \in BOOLEAN
  /\ Queued <= ChannelSize

WriterOK ==
  /\ persistor \in {"select", "finished", "failed"}
  /\ OutOK
  /\ broken \in BOOLEAN /\ due \in BOOLEAN /\ fired \in BOOLEAN

PInv == PublishingOK /\ ManagerOK /\ ChannelOK /\ WriterOK

LEMMA InitEstablishesPInv == PersistorInit => PInv
<1> SUFFICES ASSUME PersistorInit PROVE PInv
  OBVIOUS
<1>1. PublishingOK
  BY FilePersistorAssumption DEF PersistorInit, PublishingOK
<1>2. /\ quit \in BOOLEAN /\ broken \in BOOLEAN /\ due \in BOOLEAN
      /\ fired \in BOOLEAN /\ noJson \in BOOLEAN
  BY Zenon DEF PersistorInit
<1>3. ManagerOK /\ ChannelOK
  <2>1. Events = <<>> /\ publishedEvents = <<>> /\ noJson = FALSE /\ manager = "down"
    BY Zenon DEF PersistorInit
  <2> QED
    BY <1>2, <2>1, FilePersistorAssumption DEF ManagerOK, ChannelOK, Queued
<1>4. WriterOK
  BY <1>2, FilePersistorAssumption DEF PersistorInit, WriterOK, OutOK
<1> QED
  BY <1>1, <1>3, <1>4 DEF PInv

-----------------------------------------------------------------------------
(* Each step keeps it.                                                     *)

LEMMA AppendToChannel ==
  ASSUME NEW channel \in Seq(Stamped), Len(channel) < ChannelSize, NEW e \in Stamped
  PROVE  Append(channel, e) \in Seq(Stamped) /\ Len(Append(channel, e)) <= ChannelSize
<1>1. Len(channel) \in Nat /\ ChannelSize \in Nat
  BY LenProperties, FilePersistorAssumption
<1> QED
  BY <1>1, AppendProperties

LEMMA TakeFromChannel ==
  ASSUME NEW channel \in Seq(Stamped), channel # <<>>, Len(channel) <= ChannelSize
  PROVE  /\ Head(channel) \in Stamped
         /\ Tail(channel) \in Seq(Stamped) /\ Len(Tail(channel)) <= ChannelSize
<1>1. Len(channel) \in Nat /\ ChannelSize \in Nat
  BY LenProperties, FilePersistorAssumption
<1> QED
  BY <1>1, HeadTailProperties

LEMMA ChannelUnchanged ==
  ASSUME ChannelOK, publishedEvents' = publishedEvents, noJson' = noJson
  PROVE  ChannelOK'
<1>1. Queued' = Queued
  BY DEF Queued
<1> QED
  BY <1>1, Zenon DEF ChannelOK

(* Queued with its condition decided, for steps that then only count.      *)
LEMMA QueuedProperties ==
  /\ noJson = TRUE  => Queued = Len(publishedEvents) + 1
  /\ noJson = FALSE => Queued = Len(publishedEvents) + 0
BY Zenon DEF Queued

LEMMA QueuedThen ==
  /\ noJson' = TRUE  => Queued' = Len(publishedEvents') + 1
  /\ noJson' = FALSE => Queued' = Len(publishedEvents') + 0
BY Zenon DEF Queued

LEMMA PublisherKeepsPInv ==
  ASSUME PInv, NEW p \in Publishers, Stamp(p) \/ Send(p)
  PROVE  PInv'
<1> USE DEF PInv
<1>1. WriterOK' /\ ChannelOK'
  BY ChannelUnchanged DEF Stamp, Send, WriterOK, OutOK, channelVars, writerVars
<1>2. CASE Stamp(p)
  <2>1. PublishingOK'
    BY <1>2, FilePersistorAssumption DEF Stamp, PublishingOK
  <2>2. ManagerOK'
    BY <1>2 DEF Stamp, ManagerOK, managerVars
  <2> QED
    BY <1>1, <2>1, <2>2
<1>3. CASE Send(p)
  <2>1. publishing[p] \in Stamped
    BY <1>3, FilePersistorAssumption DEF Send, PublishingOK, Stamped
  <2>2. Events' \in Seq(Stamped) /\ Len(Events') <= ChannelSize
    BY <1>3, <2>1, AppendToChannel DEF Send, ManagerOK
  <2>3. ManagerOK'
    BY <1>3, <2>2 DEF Send, ManagerOK
  <2>4. PublishingOK'
    BY <1>3, FilePersistorAssumption DEF Send, PublishingOK
  <2> QED
    BY <1>1, <2>3, <2>4
<1> QED
  BY <1>2, <1>3

LEMMA ManagerKeepsPInv ==
  ASSUME PInv, ManagerStep \/ Shutdown
  PROVE  PInv'
<1> USE DEF PInv
<1>1. PublishingOK' /\ WriterOK'
  BY DEF ManagerStep, TakeEvent, OnPublish, TakeQuit, OnShutdown, Shutdown,
         PublishingOK, WriterOK, OutOK, publishVars, writerVars
<1>2. CASE TakeEvent
  <2>1. /\ onPublish' \in Stamped
        /\ Events' \in Seq(Stamped) /\ Len(Events') <= ChannelSize
    BY <1>2, TakeFromChannel DEF TakeEvent, ManagerOK
  <2>2. ManagerOK'
    BY <1>2, <2>1 DEF TakeEvent, ManagerOK
  <2>3. ChannelOK'
    BY <1>2, ChannelUnchanged DEF TakeEvent, channelVars
  <2> QED
    BY <1>1, <2>2, <2>3
<1>3. CASE OnPublish
  <2>1. onPublish \in Stamped
    BY <1>3 DEF OnPublish, ManagerOK
  <2>2. ChannelOK'
    <3>1. /\ publishedEvents \in Seq(Stamped) /\ noJson \in BOOLEAN
          /\ publishedEvents' = Append(publishedEvents, onPublish)
          /\ Queued < ChannelSize /\ noJson' = noJson
      BY <1>3 DEF OnPublish, ChannelOK
    <3>2. /\ publishedEvents' \in Seq(Stamped)
          /\ Len(publishedEvents') = Len(publishedEvents) + 1 /\ Len(publishedEvents) \in Nat
      BY <2>1, <3>1, AppendProperties, LenProperties
    <3> QED
      BY <3>1, <3>2, FilePersistorAssumption DEF ChannelOK, Queued
  <2>3. ManagerOK'
    BY <1>3 DEF OnPublish, ManagerOK
  <2> QED
    BY <1>1, <2>2, <2>3
<1>4. CASE TakeQuit \/ OnShutdown
  <2>1. ManagerOK'
    BY <1>4 DEF TakeQuit, OnShutdown, ManagerOK
  <2>2. ChannelOK'
    BY <1>4, ChannelUnchanged DEF TakeQuit, OnShutdown, channelVars
  <2> QED
    BY <1>1, <2>1, <2>2
<1>5. CASE Shutdown
  <2>1. quit' \in BOOLEAN
    BY <1>5, Zenon DEF Shutdown
  <2>2. ManagerOK'
    BY <1>5, <2>1 DEF Shutdown, ManagerOK
  <2>3. ChannelOK'
    BY <1>5, ChannelUnchanged DEF Shutdown, channelVars
  <2> QED
    BY <1>1, <2>2, <2>3
<1> QED
  BY <1>2, <1>3, <1>4, <1>5 DEF ManagerStep

(* What is flushed leaves the buffer empty.                                *)
LEMMA FlushKeepsOut ==
  ASSUME NEW w, ToFile(Flushed(w)), broken \in BOOLEAN
  PROVE  OutOK' /\ broken' \in BOOLEAN
<1>1. Flushed(w).out = <<>>
  BY DEF Flushed
<1> QED
  BY <1>1, EmptyFits, ToFileKeepsOut

LEMMA WriteEventKeepsPInv ==
  ASSUME PInv, WriteEvent
  PROVE  PInv'
<1> USE DEF PInv
<1> DEFINE e    == Head(publishedEvents)
           line == WriteLine(out, e)
<1>1. PublishingOK' /\ ManagerOK' /\ persistor' = persistor
  BY DEF WriteEvent, PublishingOK, ManagerOK, publishVars, managerVars
<1>2. e \in Stamped /\ ChannelOK'
  <2>1. /\ publishedEvents \in Seq(Stamped) /\ publishedEvents # <<>>
        /\ publishedEvents' = Tail(publishedEvents)
        /\ noJson = FALSE /\ noJson' = FALSE
        /\ Queued <= ChannelSize
    BY DEF WriteEvent, ChannelOK
  <2>2. Queued = Len(publishedEvents)
    BY <2>1, LenProperties DEF Queued
  <2>3. e \in Stamped /\ publishedEvents' \in Seq(Stamped) /\ Len(publishedEvents') <= ChannelSize
    BY <2>1, <2>2, TakeFromChannel
  <2>4. Queued' <= ChannelSize
    BY <2>1, <2>3, LenProperties, QueuedThen
  <2> QED
    BY <2>1, <2>3, <2>4 DEF ChannelOK
<1>3. line.out \in Seq(Byte) /\ Len(line.out) <= WriteBufferSize
  BY <1>2, WriteLineProperties DEF WriterOK, OutOK
<1>4. \/ UNCHANGED <<out, broken, due>>
      \/ ToFile(Flushed(line)) /\ due' \in {FALSE, broken'}
      \/ ToFile(line) /\ UNCHANGED due
  BY Zenon DEF WriteEvent
<1>5. /\ broken \in BOOLEAN /\ due \in BOOLEAN /\ OutOK
      /\ fired' \in BOOLEAN
  BY DEF WriterOK, WriteEvent, ResetTimer
<1> HIDE DEF line
<1>6. OutOK' /\ broken' \in BOOLEAN
  <2>1. CASE UNCHANGED <<out, broken, due>>
    BY <1>5, <2>1 DEF OutOK
  <2>2. CASE ToFile(Flushed(line))
    BY <1>5, <2>2, FlushKeepsOut
  <2>3. CASE ToFile(line)
    BY <1>3, <1>5, <2>3, ToFileKeepsOut
  <2> QED
    BY <1>4, <2>1, <2>2, <2>3
<1>7. due' \in BOOLEAN
  <2>1. due' = due \/ due' = FALSE \/ due' = broken'
    BY <1>4, Zenon
  <2> QED
    BY <1>5, <1>6, <2>1, Zenon
<1> QED
  BY <1>1, <1>2, <1>5, <1>6, <1>7 DEF WriterOK

LEMMA FlushKeepsPInv ==
  ASSUME PInv, FlushOnTimer \/ Finish
  PROVE  PInv'
<1> USE DEF PInv
<1>1. PublishingOK' /\ ManagerOK' /\ ChannelOK'
  <2>1. UNCHANGED <<publishVars, managerVars, channelVars>>
    BY Zenon DEF FlushOnTimer, Finish
  <2> QED
    BY <2>1, ChannelUnchanged DEF PublishingOK, ManagerOK, publishVars, managerVars,
                                  channelVars
<1>2. \/ UNCHANGED <<out, broken>>
      \/ ToFile(Flushed([disk |-> <<>>, out |-> out]))
  BY Zenon DEF FlushOnTimer, Finish
<1>3. broken \in BOOLEAN /\ due \in BOOLEAN /\ fired \in BOOLEAN /\ OutOK
  BY DEF WriterOK
<1>4. OutOK' /\ broken' \in BOOLEAN
  <2>1. CASE UNCHANGED <<out, broken>>
    BY <1>3, <2>1 DEF OutOK
  <2>2. CASE ToFile(Flushed([disk |-> <<>>, out |-> out]))
    BY <1>3, <2>2, FlushKeepsOut
  <2> QED
    BY <1>2, <2>1, <2>2
<1>5. due' \in BOOLEAN /\ fired' \in BOOLEAN
  <2>1. (due' = due \/ due' = FALSE) /\ (fired' = fired \/ fired' = FALSE)
    BY Zenon DEF FlushOnTimer, Finish
  <2> QED
    BY <1>3, <2>1, Zenon
<1>6. persistor' = persistor \/ persistor' = "finished"
  BY Zenon DEF FlushOnTimer, Finish
<1> QED
  BY <1>1, <1>4, <1>5, <1>6 DEF WriterOK

(* The steps that write nothing and concern no numbered event.             *)
Idle == OnPublishNoJson \/ SkipEvent \/ TimerFires \/ PeriodElapses

LEMMA IdleChangesTimers ==
  ASSUME Idle
  PROVE  /\ UNCHANGED <<publishVars, managerVars, startVars, handled, durable, file>>
         /\ publishedEvents' = publishedEvents /\ closed' = closed
         /\ persistor' = persistor /\ out' = out /\ broken' = broken
<1>1. CASE OnPublishNoJson
  BY <1>1, Zenon DEF OnPublishNoJson, writerVars
<1>2. CASE SkipEvent
  BY <1>2, Zenon DEF SkipEvent
<1>3. CASE TimerFires
  BY <1>3, Zenon DEF TimerFires, channelVars
<1>4. CASE PeriodElapses
  BY <1>4, Zenon DEF PeriodElapses, channelVars
<1> QED
  BY <1>1, <1>2, <1>3, <1>4 DEF Idle

LEMMA IdleKeepsPInv ==
  ASSUME PInv, Idle
  PROVE  PInv'
<1> USE DEF PInv
<1>1. PublishingOK' /\ ManagerOK'
  BY IdleChangesTimers DEF PublishingOK, ManagerOK, publishVars, managerVars
<1>2. ChannelOK'
  <2>1. /\ publishedEvents' = publishedEvents
        /\ publishedEvents \in Seq(Stamped) /\ Len(publishedEvents) \in Nat
        /\ noJson \in BOOLEAN /\ Queued <= ChannelSize
    BY IdleChangesTimers, LenProperties DEF ChannelOK
  <2>2. \/ noJson' = noJson
        \/ publishedEvents = <<>> /\ noJson' = TRUE
        \/ noJson = TRUE /\ noJson' = FALSE
    BY <2>1, Zenon DEF Idle, OnPublishNoJson, SkipEvent, TimerFires, PeriodElapses,
                       channelVars
  <2>3. CASE noJson' = noJson
    BY <2>1, <2>3, ChannelUnchanged
  <2>4. CASE publishedEvents = <<>> /\ noJson' = TRUE
    <3>1. Queued' = 1 /\ ChannelSize >= 1
      BY <2>1, <2>4, QueuedThen, FilePersistorAssumption
    <3> QED
      BY <2>1, <2>4, <3>1, FilePersistorAssumption DEF ChannelOK
  <2>5. CASE noJson = TRUE /\ noJson' = FALSE
    <3>1. Queued' <= ChannelSize
      BY <2>1, <2>5, QueuedProperties, QueuedThen, FilePersistorAssumption
    <3> QED
      BY <2>1, <2>5, <3>1 DEF ChannelOK
  <2> QED
    BY <2>2, <2>3, <2>4, <2>5
<1>3. WriterOK'
  <2>1. /\ fired' = fired \/ fired' = FALSE \/ fired' = TRUE
        /\ due' = due \/ due' = TRUE
    BY Zenon DEF Idle, OnPublishNoJson, SkipEvent, TimerFires, PeriodElapses, ResetTimer,
                 writerVars
  <2> QED
    BY <2>1, IdleChangesTimers DEF WriterOK, OutOK
<1> QED
  BY <1>1, <1>2, <1>3

LEMMA CrashKeepsPInv ==
  ASSUME PInv, Crash
  PROVE  PInv'
<1>1. UNCHANGED <<publishVars, Events, quit, onPublish, channelVars, writerVars>>
      /\ manager' = "crashed"
  BY Zenon DEF Crash
<1>2. ChannelOK'
  BY <1>1, ChannelUnchanged DEF PInv, channelVars
<1> QED
  BY <1>1, <1>2 DEF PInv, PublishingOK, ManagerOK, WriterOK, OutOK, publishVars,
                    writerVars

LEMMA StartLongpollKeepsPInv ==
  ASSUME PInv, StartLongpoll
  PROVE  PInv'
<1>1. /\ quit' \in BOOLEAN /\ broken' \in BOOLEAN /\ due' \in BOOLEAN
      /\ fired' \in BOOLEAN /\ noJson' \in BOOLEAN /\ noJson' = FALSE
  BY Zenon DEF StartLongpoll, OnLongpollStart
<1>2. PublishingOK'
  BY FilePersistorAssumption DEF PInv, StartLongpoll, PublishingOK
<1>3. manager' = "select" \/ manager' = "panicked"
  BY Zenon DEF StartLongpoll
<1>4. Events' = <<>> /\ publishedEvents' = <<>> /\ out' = <<>>
      /\ persistor' \in {"select", "failed"}
  BY Zenon DEF StartLongpoll, OnLongpollStart
<1>5. ManagerOK' /\ ChannelOK'
  <2>1. Events' \in Seq(Stamped) /\ Len(Events') <= ChannelSize
    BY <1>4, EmptyFits
  <2>2. publishedEvents' \in Seq(Stamped) /\ Len(publishedEvents') <= ChannelSize
    BY <1>4, EmptyFits
  <2>3. Queued' <= ChannelSize
    BY <1>1, <1>4, QueuedThen, FilePersistorAssumption
  <2> QED
    BY <1>1, <1>3, <2>1, <2>2, <2>3 DEF ManagerOK, ChannelOK
<1>6. WriterOK'
  BY <1>1, <1>4, FilePersistorAssumption DEF WriterOK, OutOK
<1> QED
  BY <1>2, <1>5, <1>6 DEF PInv

LEMMA StutteringKeepsPInv ==
  ASSUME PInv, UNCHANGED persistorVars
  PROVE  PInv'
<1>1. ChannelOK'
  BY ChannelUnchanged DEF PInv, persistorVars, channelVars
<1> QED
  BY <1>1 DEF PInv, PublishingOK, ManagerOK, WriterOK, OutOK, persistorVars,
              publishVars, managerVars, writerVars

(* The write buffer holds no more than writeBufferSize bytes, however the  *)
(* lengths of events and disk errors fall; the manager's and the add-on's  *)
(* channels no more than they have room for; and both goroutines are where *)
(* the code has them, through crashes and restarts.                        *)
THEOREM PersistorTypeCorrect == PersistorSpec => []PersistorTypeOK
<1>1. PInv => PersistorTypeOK
  <2> SUFFICES ASSUME PInv PROVE PersistorTypeOK
    OBVIOUS
  <2>1. Len(out) \in 0 .. WriteBufferSize
    BY LenProperties, FilePersistorAssumption DEF PInv, WriterOK, OutOK
  <2> QED
    BY <2>1 DEF PInv, ManagerOK, ChannelOK, WriterOK, PersistorTypeOK
<1>2. PInv /\ [PersistorNext]_persistorVars => PInv'
  <2> SUFFICES ASSUME PInv, [PersistorNext]_persistorVars PROVE PInv'
    OBVIOUS
  <2>1. ASSUME NEW p \in Publishers, Stamp(p) \/ Send(p) PROVE PInv'
    BY <2>1, PublisherKeepsPInv
  <2>2. CASE ManagerStep \/ Shutdown
    BY <2>2, ManagerKeepsPInv
  <2>3. CASE WriteEvent
    BY <2>3, WriteEventKeepsPInv
  <2>4. CASE FlushOnTimer \/ Finish
    BY <2>4, FlushKeepsPInv
  <2>5. CASE Idle
    BY <2>5, IdleKeepsPInv
  <2>6. CASE Crash
    BY <2>6, CrashKeepsPInv
  <2>7. CASE StartLongpoll
    BY <2>7, StartLongpollKeepsPInv
  <2>8. CASE UNCHANGED persistorVars
    BY <2>8, StutteringKeepsPInv
  <2> QED
    BY <2>1, <2>2, <2>3, <2>4, <2>5, <2>6, <2>7, <2>8 DEF PersistorNext, Idle
<1> QED
  BY <1>1, <1>2, InitEstablishesPInv, PTL DEF PersistorSpec

LEMMA JsonProperties ==
  ASSUME NEW e \in Stamped
  PROVE  /\ Json(e) \in Seq(Byte) /\ Len(Json(e)) = Size[e] /\ Size[e] \in Nat
         /\ \A k \in 1 .. Size[e] : Json(e)[k] = <<e, k>>
<1>1. Json(e) \in Seq(Byte)
  BY JsonIsBytes
<1>2. Size[e] \in Nat
  BY FilePersistorAssumption DEF Stamped
<1>3. DOMAIN Json(e) = 1 .. Size[e] /\ \A k \in 1 .. Size[e] : Json(e)[k] = <<e, k>>
  BY Zenon DEF Json
<1>4. Len(Json(e)) \in Nat /\ DOMAIN Json(e) = 1 .. Len(Json(e))
  BY <1>1, LenProperties
<1>5. Len(Json(e)) = Size[e]
  BY <1>2, <1>3, <1>4
<1> QED
  BY <1>1, <1>2, <1>3, <1>5

-----------------------------------------------------------------------------
(* The smallest, the next, ... of a finite set of places.                  *)

LEMMA LeastElement ==
  ASSUME NEW S \in SUBSET Nat, S # {}
  PROVE  \E m \in S : \A x \in S : m <= x
<1> DEFINE R == OpToRel(<, Nat)
<1>1. PICK m \in S : \A y \in S : ~(<<y, m>> \in R)
  BY WFMin, NatLessThanWellFounded
<1>2. \A x, y \in Nat : x < y => <<x, y>> \in R
  BY Zenon DEF OpToRel
<1>3. \A y \in S : ~(y < m)
  BY <1>1, <1>2, Zenon
<1> QED
  BY <1>3

(* How many of the places are no greater than i.                           *)
Rank(S, i) == Cardinality({j \in S : j <= i})

LEMMA RankProperties ==
  ASSUME NEW S \in SUBSET Nat, IsFiniteSet(S)
  PROVE  /\ Cardinality(S) \in Nat
         /\ \A i \in S : Rank(S, i) \in 1 .. Cardinality(S)
         /\ \A i, j \in S : i < j => Rank(S, i) < Rank(S, j)
         /\ \A k \in 1 .. Cardinality(S) : \E i \in S : Rank(S, i) = k
<1> DEFINE upTo(i) == {j \in S : j <= i}
<1>1. Cardinality(S) \in Nat
  BY FS_CardinalityType
<1>2. \A i : IsFiniteSet(upTo(i)) /\ Cardinality(upTo(i)) \in Nat
             /\ Cardinality(upTo(i)) <= Cardinality(S)
  BY FS_Subset, FS_CardinalityType
<1>3. \A i \in S : i \in upTo(i)
  OBVIOUS
<1>4. \A i \in S : Rank(S, i) \in 1 .. Cardinality(S)
  <2> SUFFICES ASSUME NEW i \in S PROVE Rank(S, i) \in 1 .. Cardinality(S)
    OBVIOUS
  <2>1. Cardinality(upTo(i)) # 0
    BY <1>2, <1>3, FS_EmptySet
  <2>2. Rank(S, i) = Cardinality(upTo(i))
    BY DEF Rank
  <2> HIDE DEF upTo
  <2> QED
    BY <1>1, <1>2, <2>1, <2>2
<1>5. \A i, j \in S : i < j => Rank(S, i) < Rank(S, j)
  <2> SUFFICES ASSUME NEW i \in S, NEW j \in S, i < j PROVE Rank(S, i) < Rank(S, j)
    OBVIOUS
  <2>1. upTo(i) \cup {j} \subseteq upTo(j) /\ j \notin upTo(i)
    <3>1. i \in Nat /\ j \in Nat /\ \A x \in S : x \in Nat
      OBVIOUS
    <3>2. j \in upTo(j) /\ j \notin upTo(i)
      BY <3>1
    <3>3. \A x \in upTo(i) : x \in upTo(j)
      BY <3>1
    <3> QED
      BY <3>2, <3>3
  <2>2. Rank(S, i) = Cardinality(upTo(i)) /\ Rank(S, j) = Cardinality(upTo(j))
    BY DEF Rank
  <2> HIDE DEF upTo
  <2>3. Cardinality(upTo(i) \cup {j}) = Cardinality(upTo(i)) + 1
    BY <1>2, <2>1, FS_AddElement
  <2>4. Cardinality(upTo(i) \cup {j}) <= Cardinality(upTo(j))
    BY <1>2, <2>1, FS_Subset
  <2> QED
    BY <1>2, <2>2, <2>3, <2>4
<1>6. \A k \in 1 .. Cardinality(S) : \E i \in S : Rank(S, i) = k
  <2> DEFINE n == Cardinality(S)
             f == [i \in S |-> Rank(S, i)]
  <2>1. f \in [S -> 1 .. n] /\ \A i \in S : f[i] = Rank(S, i)
    BY <1>4
  <2>2. \A i, j \in S : f[i] = f[j] => i = j
    <3> SUFFICES ASSUME NEW i \in S, NEW j \in S, f[i] = f[j] PROVE i = j
      OBVIOUS
    <3>1. Rank(S, i) = Rank(S, j) /\ Rank(S, i) \in Nat /\ i \in Nat /\ j \in Nat
      BY <1>1, <1>4, <2>1
    <3> QED
      BY <1>5, <3>1
  <2>3. IsFiniteSet(1 .. n) /\ Cardinality(1 .. n) = n
    <3>1. 1 \in Int /\ n \in Int /\ n \in Nat
      BY <1>1
    <3>2. IsFiniteSet(1 .. n) /\ Cardinality(1 .. n) = IF 1 > n THEN 0 ELSE n - 1 + 1
      BY <3>1, FS_Interval
    <3> QED
      BY <3>1, <3>2
  <2> HIDE DEF f
  <2>4. f \in Injection(S, 1 .. n)
    BY <2>1, <2>2 DEF Injection, IsInjective
  <2>5. f \in Surjection(S, 1 .. n)
    BY <2>3, <2>4, FS_Injection
  <2> QED
    BY <2>1, <2>5 DEF Surjection
<1> QED
  BY <1>1, <1>4, <1>5, <1>6

LEMMA NthProperties ==
  ASSUME NEW S \in SUBSET Nat, IsFiniteSet(S)
  PROVE  /\ Cardinality(S) \in Nat
         /\ \A k \in 1 .. Cardinality(S) : Nth(S, k) \in S
         /\ \A k \in 1 .. Cardinality(S), l \in 1 .. Cardinality(S) :
              k < l => Nth(S, k) < Nth(S, l)
         /\ \A i \in S : \E k \in 1 .. Cardinality(S) : Nth(S, k) = i
         /\ \A i \in S : Nth(S, Rank(S, i)) = i
<1>1. /\ Cardinality(S) \in Nat
      /\ \A i \in S : Rank(S, i) \in 1 .. Cardinality(S)
      /\ \A i, j \in S : i < j => Rank(S, i) < Rank(S, j)
      /\ \A k \in 1 .. Cardinality(S) : \E i \in S : Rank(S, i) = k
  BY RankProperties
<1>2. \A i, j \in S : Rank(S, i) = Rank(S, j) => i = j
  <2> SUFFICES ASSUME NEW i \in S, NEW j \in S, Rank(S, i) = Rank(S, j) PROVE i = j
    OBVIOUS
  <2>1. Rank(S, i) \in Nat /\ Rank(S, j) \in Nat /\ i \in Nat /\ j \in Nat
    BY <1>1
  <2> QED
    BY <1>1, <2>1
<1>3. \A k \in 1 .. Cardinality(S) : Nth(S, k) \in S /\ Rank(S, Nth(S, k)) = k
  <2> SUFFICES ASSUME NEW k \in 1 .. Cardinality(S)
               PROVE  Nth(S, k) \in S /\ Rank(S, Nth(S, k)) = k
    OBVIOUS
  <2>1. Nth(S, k) = CHOOSE i \in S : Rank(S, i) = k
    BY DEF Nth, Rank
  <2>2. \E i \in S : Rank(S, i) = k
    BY <1>1
  <2> QED
    BY <2>1, <2>2, Zenon
<1>4. \A i \in S : Nth(S, Rank(S, i)) = i
  BY <1>1, <1>2, <1>3
<1>5. \A k \in 1 .. Cardinality(S), l \in 1 .. Cardinality(S) :
        k < l => Nth(S, k) < Nth(S, l)
  <2> SUFFICES ASSUME NEW k \in 1 .. Cardinality(S), NEW l \in 1 .. Cardinality(S), k < l
               PROVE  Nth(S, k) < Nth(S, l)
    OBVIOUS
  <2>1. Nth(S, k) \in Nat /\ Nth(S, l) \in Nat /\ Nth(S, k) \in S /\ Nth(S, l) \in S
    BY <1>3
  <2>2. Rank(S, Nth(S, k)) = k /\ Rank(S, Nth(S, l)) = l
    BY <1>3
  <2>3. ~(Nth(S, l) < Nth(S, k)) /\ Nth(S, l) # Nth(S, k)
    BY <1>1, <2>1, <2>2
  <2> QED
    BY <2>1, <2>3
<1> QED
  BY <1>1, <1>3, <1>4, <1>5

(* What enumerates a set in order is its enumeration.                      *)
LEMMA Enumeration ==
  ASSUME NEW S \in SUBSET Nat, NEW n \in Nat, NEW f \in [1 .. n -> S],
         \A k, l \in 1 .. n : k < l => f[k] < f[l],
         \A i \in S : \E k \in 1 .. n : f[k] = i
  PROVE  /\ IsFiniteSet(S) /\ Cardinality(S) = n
         /\ \A k \in 1 .. n : Nth(S, k) = f[k]
<1>1. \A k, l \in 1 .. n : f[k] = f[l] => k = l
  <2> SUFFICES ASSUME NEW k \in 1 .. n, NEW l \in 1 .. n, f[k] = f[l] PROVE k = l
    OBVIOUS
  <2>1. (k < l => f[k] < f[l]) /\ (l < k => f[l] < f[k])
    OBVIOUS
  <2>2. f[k] \in Nat /\ f[l] \in Nat /\ k \in Nat /\ l \in Nat
    <3>1. f[k] \in S /\ f[l] \in S
      OBVIOUS
    <3>2. \A x \in S : x \in Nat
      OBVIOUS
    <3>3. k \in Nat /\ l \in Nat
      OBVIOUS
    <3>4. f[k] \in Nat /\ f[l] \in Nat
      BY <3>1, <3>2, Zenon
    <3> QED
      BY <3>3, <3>4
  <2> QED
    BY <2>1, <2>2
<1>2. IsFiniteSet(S) /\ Cardinality(S) = n
  <2>1. f \in Bijection(1 .. n, S)
    BY <1>1 DEF Bijection, Injection, Surjection, IsInjective
  <2>2. ExistsBijection(1 .. n, S)
    BY <2>1 DEF ExistsBijection
  <2> QED
    BY <2>2, FS_CountingElements, FS_NatBijection
<1>3. ASSUME NEW k \in 1 .. n PROVE Rank(S, f[k]) = k
  <2> DEFINE T == {j \in S : j <= f[k]}
             g == [l \in 1 .. k |-> f[l]]
  <2>1. k \in Nat /\ 1 .. k \subseteq 1 .. n
    OBVIOUS
  <2>2. \A l \in 1 .. n : f[l] <= f[k] <=> l <= k
    <3> SUFFICES ASSUME NEW l \in 1 .. n PROVE f[l] <= f[k] <=> l <= k
      OBVIOUS
    <3>1. f[l] \in Nat /\ f[k] \in Nat
      OBVIOUS
    <3>2. (l < k => f[l] < f[k]) /\ (k < l => f[k] < f[l])
      OBVIOUS
    <3> QED
      BY <3>1, <3>2
  <2>3. g \in [1 .. k -> T] /\ \A l \in 1 .. k : g[l] = f[l]
    BY <2>1, <2>2
  <2>4. \A i \in T : \E l \in 1 .. k : g[l] = i
    <3> SUFFICES ASSUME NEW i \in T PROVE \E l \in 1 .. k : g[l] = i
      OBVIOUS
    <3>1. PICK l \in 1 .. n : f[l] = i
      OBVIOUS
    <3> QED
      BY <2>2, <2>3, <3>1
  <2> HIDE DEF g, T
  <2>5. g \in Bijection(1 .. k, T)
    BY <1>1, <2>1, <2>3, <2>4 DEF Bijection, Injection, Surjection, IsInjective
  <2>6. Cardinality(T) = k
    BY <2>1, <2>5, FS_CountingElements DEF ExistsBijection
  <2> QED
    BY <2>6 DEF Rank, T
<1>4. ASSUME NEW k \in 1 .. n PROVE Nth(S, k) = f[k]
  <2>1. f[k] \in S
    OBVIOUS
  <2> QED
    BY <1>2, <1>3, <2>1, NthProperties
<1> QED
  BY <1>2, <1>4

(* A set of places of a sequence is finite.                                *)
LEMMA PlacesAreFinite ==
  ASSUME NEW n \in Nat, NEW S \in SUBSET (1 .. n)
  PROVE  S \in SUBSET Nat /\ IsFiniteSet(S) /\ Cardinality(S) \in Nat
<1>1. \A s \in S : s <= n
  OBVIOUS
<1>2. S \in SUBSET Nat
  OBVIOUS
<1> QED
  BY <1>1, <1>2, FS_BoundedSetOfNaturals, FS_CardinalityType

(* A later place comes last.                                               *)
LEMMA LastPlace ==
  ASSUME NEW S \in SUBSET Nat, IsFiniteSet(S), NEW m \in Nat, \A i \in S : i < m
  PROVE  LET T == S \cup {m}
         IN  /\ Cardinality(T) = Cardinality(S) + 1
             /\ \A k \in 1 .. Cardinality(S) : Nth(T, k) = Nth(S, k)
             /\ Nth(T, Cardinality(S) + 1) = m
<1> DEFINE n == Cardinality(S)
           T == S \cup {m}
           f == [k \in 1 .. n + 1 |-> IF k <= n THEN Nth(S, k) ELSE m]
<1>1. /\ n \in Nat
      /\ \A k \in 1 .. n : Nth(S, k) \in S
      /\ \A k, l \in 1 .. n : k < l => Nth(S, k) < Nth(S, l)
      /\ \A i \in S : \E k \in 1 .. n : Nth(S, k) = i
  BY NthProperties
<1> HIDE DEF n
<1>2. /\ \A k \in 1 .. n : f[k] = Nth(S, k)
      /\ f[n + 1] = m
      /\ f \in [1 .. n + 1 -> T]
  BY <1>1
<1> HIDE DEF f
<1>3. ASSUME NEW k \in 1 .. n + 1, NEW l \in 1 .. n + 1, k < l PROVE f[k] < f[l]
  <2>1. k \in 1 .. n
    BY <1>1, <1>3
  <2>2. CASE l \in 1 .. n
    BY <1>1, <1>2, <1>3, <2>1, <2>2
  <2>3. CASE l = n + 1
    BY <1>1, <1>2, <2>1, <2>3
  <2> QED
    BY <1>1, <2>2, <2>3
<1>4. ASSUME NEW i \in T PROVE \E k \in 1 .. n + 1 : f[k] = i
  BY <1>1, <1>2
<1>5. T \in SUBSET Nat /\ n + 1 \in Nat
  BY <1>1
<1> HIDE DEF T
<1>6. Cardinality(T) = n + 1 /\ \A k \in 1 .. n + 1 : Nth(T, k) = f[k]
  BY <1>2, <1>3, <1>4, <1>5, Enumeration
<1>7. \A k \in 1 .. n : k \in 1 .. n + 1
  BY <1>1
<1>8. n + 1 \in 1 .. n + 1
  BY <1>1
<1> QED
  BY <1>2, <1>6, <1>7, <1>8 DEF n, T

(* The first places of a set come first.                                   *)
LEMMA FirstPlaces ==
  ASSUME NEW S \in SUBSET Nat, IsFiniteSet(S), NEW T \in SUBSET S,
         \A i \in T, j \in S : j <= i => j \in T
  PROVE  /\ Cardinality(T) \in Nat /\ Cardinality(T) <= Cardinality(S)
         /\ \A k \in 1 .. Cardinality(T) : Nth(T, k) = Nth(S, k)
<1>1. IsFiniteSet(T) /\ Cardinality(T) \in Nat /\ Cardinality(T) <= Cardinality(S)
  BY FS_Subset, FS_CardinalityType
<1>2. Cardinality(S) \in Nat /\ T \in SUBSET Nat
  BY FS_CardinalityType
<1>3. ASSUME NEW k \in 1 .. Cardinality(T) PROVE Nth(T, k) = Nth(S, k)
  <2>1. PICK i \in T : Rank(T, i) = k
    BY <1>1, <1>2, RankProperties
  <2>2. {j \in T : j <= i} = {j \in S : j <= i}
    OBVIOUS
  <2>3. Rank(S, i) = k
    BY <2>1, <2>2 DEF Rank
  <2>4. Nth(T, k) = i
    BY <1>1, <1>2, <2>1, NthProperties
  <2>5. Nth(S, k) = i
    BY <2>1, <2>3, NthProperties
  <2> QED
    BY <2>4, <2>5
<1> QED
  BY <1>1, <1>3

-----------------------------------------------------------------------------
(* What Pick picks.                                                        *)

LEMMA PickProperties ==
  ASSUME NEW X, NEW s \in Seq(X), NEW S \in SUBSET (1 .. Len(s))
  PROVE  /\ Pick(s, S) \in Seq(X) /\ Len(Pick(s, S)) = Cardinality(S)
         /\ \A k \in 1 .. Cardinality(S) : Nth(S, k) \in S /\ Pick(s, S)[k] = s[Nth(S, k)]
<1>1. S \in SUBSET Nat /\ IsFiniteSet(S) /\ Cardinality(S) \in Nat
  BY PlacesAreFinite, LenProperties
<1>2. \A k \in 1 .. Cardinality(S) : Nth(S, k) \in S
  BY <1>1, NthProperties
<1>3. \A i \in S : s[i] \in X
  BY ElementOfSeq
<1>4. \A k \in 1 .. Cardinality(S) : s[Nth(S, k)] \in X
  BY <1>2, <1>3
<1> DEFINE n == Cardinality(S)
<1>5. Pick(s, S) = [k \in 1 .. n |-> s[Nth(S, k)]]
  BY DEF Pick
<1> HIDE DEF n
<1>6. n \in Nat /\ \A k \in 1 .. n : s[Nth(S, k)] \in X
  BY <1>1, <1>4 DEF n
<1>7. Pick(s, S) \in Seq(X) /\ Len(Pick(s, S)) = n
  BY <1>5, <1>6
<1> QED
  BY <1>2, <1>5, <1>7 DEF n

(* Two sequences of which the same is picked.                              *)
LEMMA SamePick ==
  ASSUME NEW X, NEW s \in Seq(X), NEW t \in Seq(X), NEW S \in SUBSET (1 .. Len(s)),
         NEW n \in Nat, Cardinality(S) = n, Len(t) = n,
         \A k \in 1 .. n : s[Nth(S, k)] = t[k]
  PROVE  Pick(s, S) = t
<1>1. Pick(s, S) \in Seq(X) /\ Len(Pick(s, S)) = n
  BY PickProperties
<1>2. \A k \in 1 .. n : Pick(s, S)[k] = t[k]
  BY PickProperties
<1> QED
  BY <1>1, <1>2, SeqEqual

(* The places of one set, and after them those of another one, moved.      *)
Joined(U, S, T, l) ==
  /\ \A i \in S : i <= l /\ i \in U
  /\ \A j \in T : 1 <= j /\ l + j \in U
  /\ \A i \in U : i \in S \/ \E j \in T : i = l + j

LEMMA UnionEnumeration ==
  ASSUME NEW S \in SUBSET Nat, IsFiniteSet(S), NEW T \in SUBSET Nat, IsFiniteSet(T),
         NEW U \in SUBSET Nat, NEW l \in Nat, Joined(U, S, T, l)
  PROVE  /\ Cardinality(U) = Cardinality(S) + Cardinality(T)
         /\ \A k \in 1 .. Cardinality(S) : Nth(U, k) = Nth(S, k)
         /\ \A k \in 1 .. Cardinality(T) : Nth(U, Cardinality(S) + k) = l + Nth(T, k)
<1> DEFINE m == Cardinality(S)
           n == Cardinality(T)
           f == [k \in 1 .. m + n |-> IF k <= m THEN Nth(S, k) ELSE l + Nth(T, k - m)]
<1>1. m \in Nat /\ n \in Nat
  BY FS_CardinalityType
<1>2. /\ \A k \in 1 .. m : Nth(S, k) \in S
      /\ \A j \in 1 .. m, k \in 1 .. m : j < k => Nth(S, j) < Nth(S, k)
      /\ \A i \in S : \E k \in 1 .. m : Nth(S, k) = i
  BY <1>1, NthProperties
<1>3. /\ \A k \in 1 .. n : Nth(T, k) \in T
      /\ \A j \in 1 .. n, k \in 1 .. n : j < k => Nth(T, j) < Nth(T, k)
      /\ \A i \in T : \E k \in 1 .. n : Nth(T, k) = i
  BY <1>1, NthProperties
<1>4. /\ \A x \in S : x \in Nat /\ x <= l
      /\ \A x \in T : x \in Nat /\ 1 <= x
      /\ \A x \in S : x \in U
      /\ \A x \in T : l + x \in U
      /\ \A x \in U : x \in S \/ \E j \in T : x = l + j
  BY DEF Joined
<1> HIDE DEF m, n
<1>5. /\ \A k \in 1 .. m : k \in 1 .. m + n /\ f[k] = Nth(S, k) /\ f[k] \in S
      /\ \A k \in 1 .. n : m + k \in 1 .. m + n /\ f[m + k] = l + Nth(T, k)
  <2>1. \A k \in 1 .. m : k \in 1 .. m + n /\ k <= m
    BY <1>1
  <2>2. \A k \in 1 .. n : m + k \in 1 .. m + n /\ ~(m + k <= m) /\ (m + k) - m = k
    BY <1>1
  <2>3. \A k \in 1 .. m : f[k] = Nth(S, k)
    BY <2>1
  <2>4. \A k \in 1 .. n : f[m + k] = l + Nth(T, k)
    BY <2>2
  <2> QED
    BY <1>2, <2>1, <2>2, <2>3, <2>4
<1>6. \A k \in 1 .. m + n : k \in 1 .. m \/ \E j \in 1 .. n : k = m + j
  <2> SUFFICES ASSUME NEW k \in 1 .. m + n, k \notin 1 .. m
               PROVE  \E j \in 1 .. n : k = m + j
    OBVIOUS
  <2>1. k - m \in 1 .. n /\ k = m + (k - m)
    BY <1>1
  <2> QED
    BY <2>1
<1>7. DOMAIN f = 1 .. m + n
  OBVIOUS
<1>8. f = [k \in 1 .. m + n |-> f[k]]
  OBVIOUS
<1> HIDE DEF f
<1>9. f \in [1 .. m + n -> U]
  <2>1. \A k \in 1 .. m + n : f[k] \in U
    <3> SUFFICES ASSUME NEW k \in 1 .. m + n PROVE f[k] \in U
      OBVIOUS
    <3>1. CASE k \in 1 .. m
      BY <1>4, <1>5, <3>1
    <3>2. ASSUME NEW j \in 1 .. n, k = m + j PROVE f[k] \in U
      BY <1>3, <1>4, <1>5, <3>2
    <3> QED
      BY <1>6, <3>1, <3>2
  <2> QED
    BY <1>8, <2>1
<1>10. \A j, k \in 1 .. m + n : j < k => f[j] < f[k]
  <2> SUFFICES ASSUME NEW j \in 1 .. m + n, NEW k \in 1 .. m + n, j < k
               PROVE  f[j] < f[k]
    OBVIOUS
  <2>1. CASE j \in 1 .. m /\ k \in 1 .. m
    BY <1>2, <1>5, <2>1
  <2>2. ASSUME j \in 1 .. m, NEW c \in 1 .. n, k = m + c PROVE f[j] < f[k]
    <3>1. f[j] \in S /\ Nth(T, c) \in T /\ f[k] = l + Nth(T, c)
      BY <1>3, <1>5, <2>2
    <3>2. f[j] \in Nat /\ f[j] <= l
      BY <1>4, <3>1
    <3>3. Nth(T, c) \in Nat /\ 1 <= Nth(T, c)
      BY <1>4, <3>1
    <3> QED
      BY <3>1, <3>2, <3>3
  <2>3. ASSUME NEW a \in 1 .. n, j = m + a, NEW c \in 1 .. n, k = m + c
        PROVE  f[j] < f[k]
    <3>1. a < c
      BY <1>1, <2>3
    <3>2. Nth(T, a) \in Nat /\ Nth(T, c) \in Nat /\ Nth(T, a) < Nth(T, c)
      BY <1>3, <1>4, <3>1
    <3> QED
      BY <1>5, <2>3, <3>2
  <2>4. ~(j \notin 1 .. m /\ k \in 1 .. m)
    BY <1>1
  <2> QED
    BY <1>6, <2>1, <2>2, <2>3, <2>4
<1>11. \A i \in U : \E k \in 1 .. m + n : f[k] = i
  <2> SUFFICES ASSUME NEW i \in U PROVE \E k \in 1 .. m + n : f[k] = i
    OBVIOUS
  <2>1. CASE i \in S
    BY <1>2, <1>5, <2>1
  <2>2. ASSUME NEW j \in T, i = l + j PROVE \E k \in 1 .. m + n : f[k] = i
    <3>1. PICK k \in 1 .. n : Nth(T, k) = j
      BY <1>3
    <3> QED
      BY <1>5, <2>2, <3>1
  <2> QED
    BY <1>4, <2>1, <2>2
<1>12. m + n \in Nat
  BY <1>1
<1>13. Cardinality(U) = m + n /\ \A k \in 1 .. m + n : Nth(U, k) = f[k]
  BY <1>9, <1>10, <1>11, <1>12, Enumeration
<1> QED
  BY <1>5, <1>13 DEF m, n

-----------------------------------------------------------------------------
(* The events that have a JSON form.                                       *)

LEMMA MarshalledProperties ==
  ASSUME NEW X, NEW s \in Seq(X)
  PROVE  MarshalledOf(s) \in Seq(X)
<1> DEFINE S == {i \in DOMAIN s : Marshalled(s[i])}
<1>1. S \in SUBSET (1 .. Len(s))
  OBVIOUS
<1> QED
  BY <1>1, PickProperties DEF MarshalledOf

LEMMA MarshalledConcat ==
  ASSUME NEW X, NEW s \in Seq(X), NEW t \in Seq(X)
  PROVE  MarshalledOf(s \o t) = MarshalledOf(s) \o MarshalledOf(t)
<1> DEFINE l == Len(s)
           M(q) == {i \in 1 .. Len(q) : Marshalled(q[i])}
<1>1. l \in Nat /\ Len(t) \in Nat /\ s \o t \in Seq(X) /\ Len(s \o t) = l + Len(t)
  BY ConcatProperties, LenProperties
<1>2. /\ \A i \in 1 .. l : i \in 1 .. l + Len(t) /\ (s \o t)[i] = s[i]
      /\ \A j \in 1 .. Len(t) : l + j \in 1 .. l + Len(t) /\ (s \o t)[l + j] = t[j]
  BY <1>1
<1>3. \A i \in 1 .. l + Len(t) : i \in 1 .. l \/ \E j \in 1 .. Len(t) : i = l + j
  <2> SUFFICES ASSUME NEW i \in 1 .. l + Len(t), i \notin 1 .. l
               PROVE  \E j \in 1 .. Len(t) : i = l + j
    OBVIOUS
  <2>1. i - l \in 1 .. Len(t) /\ i = l + (i - l)
    BY <1>1
  <2> QED
    BY <2>1
<1> HIDE DEF l
<1>4. \A i \in M(s \o t) : i \in M(s) \/ \E j \in M(t) : i = l + j
  <2> SUFFICES ASSUME NEW i \in M(s \o t)
               PROVE  i \in M(s) \/ \E j \in M(t) : i = l + j
    OBVIOUS
  <2>1. i \in 1 .. l + Len(t) /\ Marshalled((s \o t)[i])
    BY <1>1
  <2>2. CASE i \in 1 .. l
    <3>1. Marshalled(s[i])
      BY <1>2, <2>1, <2>2
    <3> QED
      BY <2>2, <3>1 DEF l
  <2>3. ASSUME NEW j \in 1 .. Len(t), i = l + j PROVE \E a \in M(t) : i = l + a
    <3>1. Marshalled(t[j])
      BY <1>2, <2>1, <2>3
    <3> QED
      BY <2>3, <3>1
  <2> QED
    BY <1>3, <2>1, <2>2, <2>3
<1>5. \A i \in M(s) : i \in M(s \o t)
  <2> SUFFICES ASSUME NEW i \in M(s) PROVE i \in M(s \o t)
    OBVIOUS
  <2>1. i \in 1 .. l /\ Marshalled(s[i])
    BY DEF l
  <2> QED
    BY <1>1, <1>2, <2>1
<1>6. \A j \in M(t) : l + j \in M(s \o t)
  <2> SUFFICES ASSUME NEW j \in M(t) PROVE l + j \in M(s \o t)
    OBVIOUS
  <2>1. j \in 1 .. Len(t) /\ Marshalled(t[j])
    OBVIOUS
  <2> QED
    BY <1>1, <1>2, <2>1
<1>7. PICK S, T, U : S = M(s) /\ T = M(t) /\ U = M(s \o t)
  OBVIOUS
<1>8. /\ MarshalledOf(s) = Pick(s, S)
      /\ MarshalledOf(t) = Pick(t, T)
      /\ MarshalledOf(s \o t) = Pick(s \o t, U)
  <2>1. DOMAIN s = 1 .. Len(s) /\ DOMAIN t = 1 .. Len(t)
        /\ DOMAIN (s \o t) = 1 .. Len(s \o t)
    BY <1>1
  <2> QED
    BY <1>7, <2>1 DEF MarshalledOf
<1>9. /\ S \in SUBSET (1 .. Len(s)) /\ T \in SUBSET (1 .. Len(t))
      /\ U \in SUBSET (1 .. Len(s \o t))
  BY <1>7
<1>10. /\ \A i \in U : i \in S \/ \E j \in T : i = l + j
       /\ \A i \in S : i \in U
       /\ \A j \in T : l + j \in U
  BY <1>4, <1>5, <1>6, <1>7
<1> HIDE DEF M
<1> DEFINE m == Cardinality(S)
           n == Cardinality(T)
<1>11. /\ S \in SUBSET Nat /\ IsFiniteSet(S) /\ m \in Nat
       /\ T \in SUBSET Nat /\ IsFiniteSet(T) /\ n \in Nat
       /\ U \in SUBSET Nat
  <2>1. l \in Nat /\ Len(s \o t) \in Nat
    BY <1>1
  <2>2. S \in SUBSET Nat /\ IsFiniteSet(S) /\ m \in Nat
    BY <1>9, <2>1, PlacesAreFinite DEF l
  <2>3. T \in SUBSET Nat /\ IsFiniteSet(T) /\ n \in Nat
    BY <1>1, <1>9, PlacesAreFinite
  <2>4. U \in SUBSET Nat
    BY <1>9, <2>1, PlacesAreFinite
  <2> QED
    BY <2>2, <2>3, <2>4
<1>12. /\ \A i \in S : i <= l
       /\ \A j \in T : 1 <= j
  BY <1>9 DEF l
<1>13. /\ Cardinality(U) = m + n
       /\ \A k \in 1 .. m : Nth(U, k) = Nth(S, k)
       /\ \A k \in 1 .. n : Nth(U, m + k) = l + Nth(T, k)
  <2>1. Joined(U, S, T, l)
    BY <1>10, <1>12 DEF Joined
  <2> QED
    BY <1>1, <1>11, <2>1, UnionEnumeration
<1>14. /\ Pick(s, S) \in Seq(X) /\ Len(Pick(s, S)) = m
       /\ \A k \in 1 .. m : Nth(S, k) \in S /\ Pick(s, S)[k] = s[Nth(S, k)]
  BY <1>9, PickProperties
<1>15. /\ Pick(t, T) \in Seq(X) /\ Len(Pick(t, T)) = n
       /\ \A k \in 1 .. n : Nth(T, k) \in T /\ Pick(t, T)[k] = t[Nth(T, k)]
  BY <1>9, PickProperties
<1> HIDE DEF m, n
<1>16. PICK a, b : a = Pick(s, S) /\ b = Pick(t, T)
  OBVIOUS
<1>17. /\ a \in Seq(X) /\ Len(a) = m /\ \A k \in 1 .. m : a[k] = s[Nth(S, k)]
       /\ b \in Seq(X) /\ Len(b) = n /\ \A k \in 1 .. n : b[k] = t[Nth(T, k)]
  BY <1>14, <1>15, <1>16
<1>18. /\ a \o b \in Seq(X) /\ Len(a \o b) = m + n
       /\ \A k \in 1 .. m : (a \o b)[k] = a[k]
       /\ \A k \in 1 .. n : (a \o b)[m + k] = b[k]
  <2>1. a \o b \in Seq(X) /\ Len(a \o b) = m + n
    BY <1>17, ConcatProperties
  <2>2. \A k \in 1 .. m + n : (a \o b)[k] = IF k <= m THEN a[k] ELSE b[k - m]
    BY <1>17, ConcatProperties
  <2>3. \A k \in 1 .. m : k \in 1 .. m + n /\ k <= m
    BY <1>11
  <2>4. \A k \in 1 .. n : m + k \in 1 .. m + n /\ ~(m + k <= m) /\ (m + k) - m = k
    BY <1>11
  <2>5. \A k \in 1 .. m : (a \o b)[k] = a[k]
    BY <2>2, <2>3
  <2>6. \A k \in 1 .. n : (a \o b)[m + k] = b[k]
    BY <2>2, <2>4
  <2> QED
    BY <2>1, <2>5, <2>6
<1>19. ASSUME NEW k \in 1 .. m + n
       PROVE  (s \o t)[Nth(U, k)] = (a \o b)[k]
  <2>1. CASE k \in 1 .. m
    <3>1. Nth(U, k) = Nth(S, k) /\ Nth(S, k) \in 1 .. l
      BY <1>9, <1>13, <1>14, <2>1 DEF l
    <3>2. (s \o t)[Nth(S, k)] = s[Nth(S, k)]
      BY <1>2, <3>1
    <3> QED
      BY <1>17, <1>18, <2>1, <3>1, <3>2
  <2>2. ASSUME NEW j \in 1 .. n, k = m + j
        PROVE  (s \o t)[Nth(U, k)] = (a \o b)[k]
    <3>1. Nth(U, k) = l + Nth(T, j) /\ Nth(T, j) \in 1 .. Len(t)
      BY <1>9, <1>13, <1>15, <2>2
    <3>2. (s \o t)[l + Nth(T, j)] = t[Nth(T, j)]
      BY <1>2, <3>1
    <3> QED
      BY <1>17, <1>18, <2>2, <3>1, <3>2
  <2>3. k \in 1 .. m \/ \E j \in 1 .. n : k = m + j
    <3> SUFFICES ASSUME k \notin 1 .. m PROVE \E j \in 1 .. n : k = m + j
      OBVIOUS
    <3>1. k - m \in 1 .. n /\ k = m + (k - m)
      BY <1>11
    <3> QED
      BY <3>1
  <2> QED
    BY <2>1, <2>2, <2>3
<1>20. m + n \in Nat
  BY <1>11
<1>21. Pick(s \o t, U) = a \o b
  BY <1>1, <1>9, <1>13, <1>18, <1>19, <1>20, SamePick
<1> QED
  BY <1>8, <1>16, <1>21

LEMMA MarshalledEmpty == MarshalledOf(<<>>) = <<>>
<1> DEFINE S == {i \in DOMAIN <<>> : Marshalled(<<>>[i])}
<1>1. S = {} /\ <<>> \in Seq(Int) /\ Len(<<>>) = 0
      /\ S \in SUBSET (1 .. Len(<<>>))
  OBVIOUS
<1>2. Cardinality(S) = 0
  BY <1>1, FS_EmptySet
<1>3. MarshalledOf(<<>>) = Pick(<<>>, S)
  BY DEF MarshalledOf
<1> HIDE DEF S
<1>4. Pick(<<>>, S) \in Seq(Int) /\ Len(Pick(<<>>, S)) = 0
  BY <1>1, <1>2, PickProperties
<1> QED
  BY <1>3, <1>4, EmptySeq

LEMMA MarshalledSingle ==
  ASSUME NEW X, NEW e \in X
  PROVE  MarshalledOf(<<e>>) = IF Marshalled(e) THEN <<e>> ELSE <<>>
<1> DEFINE S == {i \in DOMAIN <<e>> : Marshalled(<<e>>[i])}
<1>1. <<e>> \in Seq(X) /\ Len(<<e>>) = 1 /\ <<e>>[1] = e /\ DOMAIN <<e>> = 1 .. 1
  OBVIOUS
<1>2. S = IF Marshalled(e) THEN {1} ELSE {}
  BY <1>1
<1>3. S \in SUBSET (1 .. Len(<<e>>))
  BY <1>1
<1>4. MarshalledOf(<<e>>) = Pick(<<e>>, S)
  BY DEF MarshalledOf
<1> HIDE DEF S
<1>5. /\ Pick(<<e>>, S) \in Seq(X) /\ Len(Pick(<<e>>, S)) = Cardinality(S)
      /\ \A k \in 1 .. Cardinality(S) : Nth(S, k) \in S /\ Pick(<<e>>, S)[k] = <<e>>[Nth(S, k)]
  BY <1>1, <1>3, PickProperties
<1>6. CASE Marshalled(e)
  <2>1. S = {1} /\ Cardinality(S) = 1
    BY <1>2, <1>6, FS_Singleton
  <2>2. Len(Pick(<<e>>, S)) = 1 /\ Pick(<<e>>, S)[1] = e
    BY <1>1, <1>5, <2>1
  <2>3. Pick(<<e>>, S) = <<e>>
    BY <1>1, <1>5, <2>2, SeqEqual
  <2> QED
    BY <1>4, <1>6, <2>3
<1>7. CASE ~Marshalled(e)
  <2>1. Cardinality(S) = 0
    BY <1>2, <1>7, FS_EmptySet
  <2>2. Pick(<<e>>, S) = <<>>
    BY <1>5, <2>1, EmptySeq
  <2> QED
    BY <1>4, <1>7, <2>2
<1> QED
  BY <1>6, <1>7

(* The next event joins them if it has a JSON form.                        *)
LEMMA MarshalledAppend ==
  ASSUME NEW X, NEW s \in Seq(X), NEW e \in X
  PROVE  MarshalledOf(Append(s, e)) =
           IF Marshalled(e) THEN Append(MarshalledOf(s), e) ELSE MarshalledOf(s)
<1>1. Append(s, e) = s \o <<e>> /\ <<e>> \in Seq(X)
  OBVIOUS
<1>2. MarshalledOf(Append(s, e)) = MarshalledOf(s) \o MarshalledOf(<<e>>)
  BY <1>1, MarshalledConcat
<1>3. MarshalledOf(s) \in Seq(X)
  BY MarshalledProperties
<1>4. /\ MarshalledOf(s) \o <<e>> = Append(MarshalledOf(s), e)
      /\ MarshalledOf(s) \o <<>> = MarshalledOf(s)
  BY <1>3
<1> QED
  BY <1>2, <1>4, MarshalledSingle

-----------------------------------------------------------------------------
(* Lines.                                                                  *)

LEMMA NotNewline == \A e \in Stamped : \A n : <<e, n>> # NL
BY FilePersistorAssumption DEF NL, Stamped

LEMMA LineStartsProperties ==
  ASSUME NEW b \in Seq(Byte)
  PROVE  /\ LineStarts(b) \in SUBSET (1 .. Len(b)) /\ LineStarts(b) \in SUBSET Nat
         /\ \A i : i \in LineStarts(b) <=>
              i \in 1 .. Len(b) /\ b[i] # NL /\ (i = 1 \/ b[i - 1] = NL)
<1>1. DOMAIN b = 1 .. Len(b) /\ Len(b) \in Nat
  OBVIOUS
<1>2. \A i : i \in LineStarts(b) <=>
              i \in 1 .. Len(b) /\ b[i] # NL /\ (i = 1 \/ b[i - 1] = NL)
  BY <1>1, Zenon DEF LineStarts
<1>3. \A i \in LineStarts(b) : i \in 1 .. Len(b)
  BY <1>2, Zenon
<1>4. \A i \in LineStarts(b) : i \in Nat
  BY <1>1, <1>3
<1> QED
  BY <1>2, <1>3, <1>4

(* Where a line ends.                                                      *)
EndsAt(b, i, m) ==
  /\ m \in i .. Len(b)
  /\ m = Len(b) \/ b[m + 1] = NL
  /\ \A j \in i .. m - 1 : b[j + 1] # NL

LEMMA LineEndProperties ==
  ASSUME NEW b \in Seq(Byte), NEW i \in 1 .. Len(b)
  PROVE  /\ EndsAt(b, i, LineEnd(b, i))
         /\ \A m \in i .. Len(b) : EndsAt(b, i, m) => LineEnd(b, i) = m
<1> DEFINE S == {j \in i .. Len(b) : j = Len(b) \/ b[j + 1] = NL}
           e == LineEnd(b, i)
<1>1. Len(b) \in Nat /\ i \in Nat
  OBVIOUS
<1>2. S \in SUBSET Nat /\ S # {}
  <2>1. Len(b) \in S
    BY <1>1
  <2>2. \A j \in S : j \in Nat
    BY <1>1
  <2> HIDE DEF S
  <2> QED
    BY <2>1, <2>2
<1>3. \E m \in S : \A x \in S : m <= x
  BY <1>2, LeastElement
<1>4. e = CHOOSE m \in S : \A x \in S : m <= x
  BY DEF LineEnd, Min
<1> HIDE DEF e
<1>5. e \in S /\ \A x \in S : e <= x
  BY <1>3, <1>4, Zenon
<1>6. e \in i .. Len(b) /\ (e = Len(b) \/ b[e + 1] = NL)
  BY <1>5
<1>7. \A j \in i .. e - 1 : b[j + 1] # NL
  <2> SUFFICES ASSUME NEW j \in i .. e - 1, b[j + 1] = NL PROVE FALSE
    OBVIOUS
  <2>1. j \in S /\ j < e /\ j \in Nat /\ e \in Nat
    BY <1>1, <1>6
  <2>2. e <= j
    BY <1>5, <2>1
  <2> QED
    BY <2>1, <2>2
<1>8. ASSUME NEW m \in i .. Len(b), EndsAt(b, i, m) PROVE e = m
  <2>1. m \in i .. Len(b) /\ (m = Len(b) \/ b[m + 1] = NL)
        /\ \A j \in i .. m - 1 : b[j + 1] # NL
    BY <1>8 DEF EndsAt
  <2>2. e \in Nat /\ m \in Nat
    BY <1>1, <1>6, <2>1
  <2>3. ~(e < m)
    <3> SUFFICES ASSUME e < m PROVE FALSE
      OBVIOUS
    <3>1. e \in i .. m - 1 /\ e # Len(b)
      BY <1>1, <1>6, <2>1
    <3> QED
      BY <1>6, <2>1, <3>1
  <2>4. ~(m < e)
    <3> SUFFICES ASSUME m < e PROVE FALSE
      OBVIOUS
    <3>1. m \in i .. e - 1 /\ m # Len(b)
      BY <1>1, <1>6, <2>1
    <3> QED
      BY <1>7, <2>1, <3>1
  <2> QED
    BY <2>2, <2>3, <2>4
<1> QED
  BY <1>6, <1>7, <1>8 DEF e, EndsAt

(* Bytes are parts of lines in their order: the next byte of an event's    *)
(* JSON, a newline, or, after one, a first byte.                           *)
WellFormed(b) ==
  \A i \in 1 .. Len(b) : b[i] # NL =>
    \E e \in Stamped : \E n \in 1 .. Size[e] :
       /\ b[i] = <<e, n>>
       /\ IF n = 1 THEN i = 1 \/ b[i - 1] = NL
          ELSE i > 1 /\ b[i - 1] = <<e, n - 1>>

(* A line is the JSON of an event, or a beginning of it.                   *)
LEMMA LineBytes ==
  ASSUME NEW b \in Seq(Byte), WellFormed(b), NEW i \in LineStarts(b)
  PROVE  /\ i \in 1 .. Len(b) /\ b[i][1] \in Stamped
         /\ \A j \in i .. LineEnd(b, i) : b[j] = <<b[i][1], j - i + 1>>
         /\ LineEnd(b, i) \in i .. Len(b)
         /\ LineEnd(b, i) - i + 1 <= Size[b[i][1]]
<1> DEFINE m == LineEnd(b, i)
<1>1. i \in 1 .. Len(b) /\ b[i] # NL /\ (i = 1 \/ b[i - 1] = NL) /\ Len(b) \in Nat
  BY LineStartsProperties
<1>2. m \in i .. Len(b) /\ \A j \in i .. m - 1 : b[j + 1] # NL
  BY <1>1, LineEndProperties DEF EndsAt
<1> HIDE DEF m
<1>3. PICK e \in Stamped : \E n \in 1 .. Size[e] : b[i] = <<e, n>> /\
         IF n = 1 THEN i = 1 \/ b[i - 1] = NL ELSE i > 1 /\ b[i - 1] = <<e, n - 1>>
  BY <1>1 DEF WellFormed
<1>4. Size[e] \in Nat
  BY FilePersistorAssumption DEF Stamped
<1>5. b[i] = <<e, 1>> /\ 1 <= Size[e]
  <2>1. PICK n \in 1 .. Size[e] : b[i] = <<e, n>> /\
          IF n = 1 THEN i = 1 \/ b[i - 1] = NL ELSE i > 1 /\ b[i - 1] = <<e, n - 1>>
    BY <1>3
  <2>2. n = 1
    <3> SUFFICES ASSUME n # 1 PROVE FALSE
      OBVIOUS
    <3>1. i > 1 /\ b[i - 1] = <<e, n - 1>>
      BY <2>1
    <3>2. b[i - 1] # NL /\ i # 1
      BY <1>1, <3>1, NotNewline
    <3> QED
      BY <1>1, <3>2
  <2> QED
    BY <1>4, <2>1, <2>2
<1>6. b[i][1] = e
  BY <1>5
<1> DEFINE Wrong == {j \in i .. m : ~(b[j] = <<e, j - i + 1>> /\ j - i + 1 <= Size[e])}
<1>7. Wrong = {}
  <2> SUFFICES ASSUME Wrong # {} PROVE FALSE
    OBVIOUS
  <2>1. Wrong \in SUBSET Nat
    BY <1>1, <1>2
  <2>2. PICK j \in Wrong : \A x \in Wrong : j <= x
    <3> HIDE DEF Wrong
    <3> QED
      BY <2>1, LeastElement
  <2>3. j \in i .. m /\ j \in Nat /\ i \in Nat /\ m \in Nat /\ m <= Len(b)
    BY <1>1, <1>2
  <2>4. j # i
    BY <1>5, <2>3
  <2>5. j - 1 \in i .. m - 1 /\ j - 1 \in i .. m /\ j \in 1 .. Len(b) /\ (j - 1) + 1 = j
    BY <1>1, <2>3, <2>4
  <2>6. b[j - 1] = <<e, (j - 1) - i + 1>>
    <3>1. j - 1 \notin Wrong
      <4> HIDE DEF Wrong
      <4> QED
        BY <2>2, <2>3
    <3> QED
      BY <2>5, <3>1
  <2>7. (j - 1) - i + 1 = j - i /\ j - i \in Nat
    BY <2>3, <2>5
  <2>8. b[j - 1] = <<e, j - i>> /\ b[j - 1] # NL
    BY <2>6, <2>7, NotNewline
  <2>9. b[j] # NL
    BY <1>2, <2>5
  <2>10. PICK d \in Stamped : \E n \in 1 .. Size[d] : b[j] = <<d, n>> /\
           IF n = 1 THEN j = 1 \/ b[j - 1] = NL ELSE j > 1 /\ b[j - 1] = <<d, n - 1>>
    BY <2>5, <2>9 DEF WellFormed
  <2>11. PICK n \in 1 .. Size[d] : b[j] = <<d, n>> /\
           IF n = 1 THEN j = 1 \/ b[j - 1] = NL ELSE j > 1 /\ b[j - 1] = <<d, n - 1>>
    BY <2>10
  <2>12. j # 1
    BY <1>1, <2>3, <2>4
  <2>13. n # 1 /\ b[j - 1] = <<d, n - 1>>
    BY <2>8, <2>11, <2>12
  <2>14. d = e /\ n - 1 = j - i
    BY <2>8, <2>13
  <2>15. n = j - i + 1 /\ n <= Size[e]
    BY <1>4, <2>7, <2>14
  <2>16. b[j] = <<e, j - i + 1>> /\ j - i + 1 <= Size[e]
    BY <2>11, <2>14, <2>15
  <2> QED
    BY <2>16
<1>8. \A j \in i .. m : b[j] = <<e, j - i + 1>> /\ j - i + 1 <= Size[e]
  BY <1>7
<1>9. m \in i .. m
  BY <1>1, <1>2
<1> QED
  BY <1>1, <1>2, <1>6, <1>8, <1>9 DEF m

(* Such a line is whole if it is as long as that JSON.                     *)
LEMMA LineIsWhole ==
  ASSUME NEW b \in Seq(Byte), WellFormed(b), NEW i \in LineStarts(b)
  PROVE  /\ Len(LineAt(b, i)) = LineEnd(b, i) - i + 1
         /\ IsWhole(LineAt(b, i)) <=> LineEnd(b, i) - i + 1 = Size[b[i][1]]
<1> DEFINE m == LineEnd(b, i)
           e == b[i][1]
           line == LineAt(b, i)
<1>1. /\ i \in 1 .. Len(b) /\ e \in Stamped
      /\ \A j \in i .. m : b[j] = <<e, j - i + 1>>
      /\ m \in i .. Len(b)
      /\ m - i + 1 <= Size[e]
  BY LineBytes
<1>2. line = SubSeq(b, i, m)
  BY DEF LineAt
<1>3. Size[e] \in Nat /\ Json(e) = [k \in 1 .. Size[e] |-> <<e, k>>]
  BY <1>1, FilePersistorAssumption DEF Stamped, Json
<1> HIDE DEF m, e, line
<1>4. i \in Int /\ m \in Int /\ i <= m /\ Len(b) \in Nat
  BY <1>1
<1>5. \A j \in i .. m : b[j] \in Byte
  <2>1. \A j \in i .. m : j \in 1 .. Len(b)
    BY <1>1
  <2> QED
    BY <2>1, ElementOfSeq
<1>6. /\ line \in Seq(Byte) /\ Len(line) = m - i + 1
      /\ \A k \in 1 .. m - i + 1 : line[k] = b[i + k - 1]
  BY <1>2, <1>4, <1>5, SubSeqProperties
<1>7. \A k \in 1 .. m - i + 1 : line[k] = <<e, k>>
  <2> SUFFICES ASSUME NEW k \in 1 .. m - i + 1 PROVE line[k] = <<e, k>>
    OBVIOUS
  <2>1. i + k - 1 \in i .. m /\ (i + k - 1) - i + 1 = k
    BY <1>4
  <2>2. b[i + k - 1] = <<e, (i + k - 1) - i + 1>>
    BY <1>1, <2>1
  <2> QED
    BY <1>6, <2>1, <2>2
<1>8. 1 \in 1 .. m - i + 1
  BY <1>4
<1>9. line[1][1] = e
  BY <1>7, <1>8
<1>10. /\ Json(e) \in Seq(Byte) /\ Len(Json(e)) = Size[e]
       /\ \A k \in 1 .. Size[e] : Json(e)[k] = <<e, k>>
  BY <1>1, JsonProperties
<1>11. line = Json(e) <=> m - i + 1 = Size[e]
  <2>1. ASSUME line = Json(e) PROVE m - i + 1 = Size[e]
    BY <1>6, <1>10, <2>1
  <2>2. ASSUME m - i + 1 = Size[e] PROVE line = Json(e)
    <3>1. Len(line) = Len(Json(e)) /\ \A k \in 1 .. Len(line) : line[k] = Json(e)[k]
      BY <1>6, <1>7, <1>10, <2>2
    <3> QED
      BY <1>6, <1>10, <3>1, SeqEqual
  <2> QED
    BY <2>1, <2>2
<1> QED
  BY <1>6, <1>9, <1>11 DEF IsWhole, m, e, line

-----------------------------------------------------------------------------
(* The events on the lines.                                                *)

WholeLines(b, places) == {i \in places : IsWhole(LineAt(b, i))}

LEMMA EventsFromProperties ==
  ASSUME NEW b \in Seq(Byte), WellFormed(b), NEW P \in SUBSET LineStarts(b)
  PROVE  LET W == WholeLines(b, P)
         IN  /\ W \in SUBSET Nat /\ IsFiniteSet(W) /\ Cardinality(W) \in Nat
             /\ EventsFrom(b, P) \in Seq(Stamped)
             /\ Len(EventsFrom(b, P)) = Cardinality(W)
             /\ \A k \in 1 .. Cardinality(W) :
                  Nth(W, k) \in W /\ EventsFrom(b, P)[k] = b[Nth(W, k)][1]
<1> DEFINE W == WholeLines(b, P)
           n == Cardinality(W)
           json == Pick(b, W)
<1>1. W \in SUBSET (1 .. Len(b)) /\ W \in SUBSET LineStarts(b)
  <2>1. \A i \in W : i \in LineStarts(b)
    BY DEF WholeLines
  <2>2. \A i \in LineStarts(b) : i \in 1 .. Len(b)
    BY LineStartsProperties
  <2> HIDE DEF W
  <2> QED
    BY <2>1, <2>2
<1>2. EventsFrom(b, P) = [k \in DOMAIN json |-> json[k][1]]
  BY DEF EventsFrom, WholeLines
<1> HIDE DEF W
<1>3. W \in SUBSET Nat /\ IsFiniteSet(W) /\ n \in Nat
  <2>1. Len(b) \in Nat /\ W \in SUBSET (1 .. Len(b))
    BY <1>1, LenProperties
  <2> QED
    BY <2>1, PlacesAreFinite
<1>4. /\ json \in Seq(Byte) /\ Len(json) = n
      /\ \A k \in 1 .. n : Nth(W, k) \in W /\ json[k] = b[Nth(W, k)]
  BY <1>1, PickProperties
<1> HIDE DEF n, json
<1>5. EventsFrom(b, P) = [k \in 1 .. n |-> json[k][1]]
  BY <1>2, <1>4
<1>6. \A k \in 1 .. n : json[k][1] = b[Nth(W, k)][1] /\ json[k][1] \in Stamped
  <2> SUFFICES ASSUME NEW k \in 1 .. n
               PROVE  json[k][1] = b[Nth(W, k)][1] /\ json[k][1] \in Stamped
    OBVIOUS
  <2>1. Nth(W, k) \in LineStarts(b) /\ json[k] = b[Nth(W, k)]
    BY <1>1, <1>4
  <2>2. b[Nth(W, k)][1] \in Stamped
    BY <2>1, LineBytes
  <2> QED
    BY <2>1, <2>2
<1>7. \A k \in 1 .. n : EventsFrom(b, P)[k] = b[Nth(W, k)][1]
  BY <1>5, <1>6
<1>8. EventsFrom(b, P) \in Seq(Stamped) /\ Len(EventsFrom(b, P)) = n
  BY <1>3, <1>5, <1>6
<1> QED
  BY <1>3, <1>4, <1>7, <1>8 DEF W, n

LEMMA EventsOnEmpty ==
  WellFormed(<<>>) /\ LineStarts(<<>>) = {} /\ EventsOn(<<>>) = <<>>
<1>1. <<>> \in Seq(Byte) /\ Len(<<>>) = 0 /\ 1 .. 0 = {}
  OBVIOUS
<1>2. WellFormed(<<>>)
  BY <1>1 DEF WellFormed
<1>3. LineStarts(<<>>) = {}
  BY <1>1, LineStartsProperties
<1> DEFINE W == WholeLines(<<>>, LineStarts(<<>>))
<1>4. W = {}
  BY <1>3 DEF WholeLines
<1>5. Cardinality(W) = 0
  BY <1>4, FS_EmptySet
<1>6. LineStarts(<<>>) \in SUBSET LineStarts(<<>>)
  OBVIOUS
<1> HIDE DEF W
<1>7. /\ EventsFrom(<<>>, LineStarts(<<>>)) \in Seq(Stamped)
      /\ Len(EventsFrom(<<>>, LineStarts(<<>>))) = Cardinality(W)
  BY <1>1, <1>2, <1>6, EventsFromProperties DEF W
<1>8. EventsFrom(<<>>, LineStarts(<<>>)) = <<>>
  BY <1>5, <1>7, EmptySeq
<1> QED
  BY <1>2, <1>3, <1>8 DEF EventsOn

(* A newline and an event's JSON add a line, and that event.               *)
LEMMA LineAdded ==
  ASSUME NEW b \in Seq(Byte), NEW e \in Stamped, Marshalled(e)
  PROVE  LET c == (b \o <<NL>>) \o Json(e)
             l == Len(b)
         IN  /\ l \in Nat /\ c \in Seq(Byte) /\ Len(c) = l + 1 + Size[e]
             /\ Size[e] \in Nat /\ Size[e] > 0
             /\ \A i \in 1 .. l : c[i] = b[i]
             /\ c[l + 1] = NL
             /\ \A k \in 1 .. Size[e] : c[l + 1 + k] = <<e, k>>
             /\ \A i \in 1 .. Len(c) :
                  i \in 1 .. l \/ i = l + 1 \/ \E k \in 1 .. Size[e] : i = l + 1 + k
<1> DEFINE a == b \o <<NL>>
           j == Json(e)
           c == a \o j
           l == Len(b)
<1>1. l \in Nat
  BY LenProperties
<1>2. /\ j \in Seq(Byte) /\ Len(j) = Size[e] /\ Size[e] \in Nat
      /\ \A k \in 1 .. Size[e] : j[k] = <<e, k>>
  BY JsonProperties
<1>3. <<NL>> \in Seq(Byte) /\ Len(<<NL>>) = 1 /\ <<NL>>[1] = NL
  BY NewlineIsBytes
<1>4. /\ a \in Seq(Byte) /\ Len(a) = l + 1
      /\ \A i \in 1 .. l + 1 : a[i] = IF i <= l THEN b[i] ELSE <<NL>>[i - l]
  BY <1>3, ConcatProperties
<1>5. (\A i \in 1 .. l : a[i] = b[i]) /\ a[l + 1] = NL
  <2>1. \A i \in 1 .. l : i \in 1 .. l + 1 /\ i <= l
    BY <1>1
  <2>2. l + 1 \in 1 .. l + 1 /\ ~(l + 1 <= l) /\ (l + 1) - l = 1
    BY <1>1
  <2> HIDE DEF a, l
  <2> QED
    BY <1>3, <1>4, <2>1, <2>2
<1> HIDE DEF a, j
<1>6. /\ c \in Seq(Byte) /\ Len(c) = l + 1 + Size[e]
      /\ \A i \in 1 .. l + 1 + Size[e] : c[i] = IF i <= l + 1 THEN a[i] ELSE j[i - (l + 1)]
  <2>1. /\ c \in Seq(Byte) /\ Len(c) = Len(a) + Len(j)
        /\ \A i \in 1 .. Len(a) + Len(j) : c[i] = IF i <= Len(a) THEN a[i] ELSE j[i - Len(a)]
    <3>1. a \in Seq(Byte) /\ j \in Seq(Byte)
      BY <1>2, <1>4
    <3> QED
      BY <3>1, ConcatProperties
  <2> HIDE DEF c
  <2> QED
    BY <1>2, <1>4, <2>1
<1> HIDE DEF c, l
<1>7. \A i \in 1 .. l : c[i] = b[i]
  <2>1. \A i \in 1 .. l : i \in 1 .. l + 1 + Size[e] /\ i <= l + 1
    BY <1>1, <1>2
  <2> QED
    BY <1>5, <1>6, <2>1
<1>8. c[l + 1] = NL
  <2>1. l + 1 \in 1 .. l + 1 + Size[e] /\ l + 1 <= l + 1
    BY <1>1, <1>2
  <2> QED
    BY <1>5, <1>6, <2>1
<1>9. \A k \in 1 .. Size[e] : c[l + 1 + k] = <<e, k>>
  <2>1. \A k \in 1 .. Size[e] : /\ l + 1 + k \in 1 .. l + 1 + Size[e] /\ ~(l + 1 + k <= l + 1)
                                /\ (l + 1 + k) - (l + 1) = k
    BY <1>1, <1>2
  <2>2. \A k \in 1 .. Size[e] : c[l + 1 + k] = j[k]
    BY <1>6, <2>1
  <2> QED
    BY <1>2, <2>2
<1>10. ASSUME NEW i \in 1 .. Len(c)
       PROVE  i \in 1 .. l \/ i = l + 1 \/ \E k \in 1 .. Size[e] : i = l + 1 + k
  <2> SUFFICES ASSUME i \notin 1 .. l, i # l + 1
               PROVE  \E k \in 1 .. Size[e] : i = l + 1 + k
    OBVIOUS
  <2>1. i - (l + 1) \in 1 .. Size[e] /\ i = l + 1 + (i - (l + 1))
    BY <1>1, <1>2, <1>6
  <2> QED
    BY <2>1
<1>11. Size[e] > 0
  BY DEF Marshalled
<1> QED
  BY <1>1, <1>2, <1>6, <1>7, <1>8, <1>9, <1>10, <1>11 DEF a, j, c, l

(* Where the added line starts, and that the others are as they were.      *)
LEMMA LineAddedStarts ==
  ASSUME NEW b \in Seq(Byte), WellFormed(b), NEW e \in Stamped, Marshalled(e)
  PROVE  LET c == (b \o <<NL>>) \o Json(e)
             l == Len(b)
         IN  /\ WellFormed(c)
             /\ LineStarts(c) = LineStarts(b) \cup {l + 2}
             /\ c[l + 2][1] = e
             /\ \A i \in LineStarts(b) : LineEnd(c, i) = LineEnd(b, i)
             /\ LineEnd(c, l + 2) = Len(c)
<1> DEFINE c == (b \o <<NL>>) \o Json(e)
           l == Len(b)
<1>1. /\ l \in Nat /\ c \in Seq(Byte) /\ Len(c) = l + 1 + Size[e]
      /\ Size[e] \in Nat /\ Size[e] > 0
      /\ \A i \in 1 .. l : c[i] = b[i]
      /\ c[l + 1] = NL
      /\ \A k \in 1 .. Size[e] : c[l + 1 + k] = <<e, k>>
      /\ \A i \in 1 .. Len(c) :
           i \in 1 .. l \/ i = l + 1 \/ \E k \in 1 .. Size[e] : i = l + 1 + k
  BY LineAdded
<1> HIDE DEF c, l
<1>2. c[l + 2] = <<e, 1>> /\ c[l + 2] # NL /\ l + 2 \in 1 .. Len(c) /\ (l + 2) - 1 = l + 1
  <2>1. 1 \in 1 .. Size[e] /\ l + 1 + 1 = l + 2
    BY <1>1
  <2>2. c[l + 2] = <<e, 1>>
    BY <1>1, <2>1
  <2>3. l + 2 \in 1 .. Len(c) /\ (l + 2) - 1 = l + 1
    BY <1>1
  <2> QED
    BY <2>2, <2>3, NotNewline
<1>3. \A i : i \in LineStarts(b) <=> i \in 1 .. l /\ b[i] # NL /\ (i = 1 \/ b[i - 1] = NL)
  BY LineStartsProperties DEF l
<1>4. \A i : i \in LineStarts(c) <=>
        i \in 1 .. Len(c) /\ c[i] # NL /\ (i = 1 \/ c[i - 1] = NL)
  BY <1>1, LineStartsProperties
<1>5. \A i \in 1 .. l : i \in 1 .. Len(c) /\ (i # 1 => i - 1 \in 1 .. l)
  BY <1>1
<1>6. \A i \in LineStarts(b) : i \in LineStarts(c)
  <2> SUFFICES ASSUME NEW i \in LineStarts(b) PROVE i \in LineStarts(c)
    OBVIOUS
  <2>1. i \in 1 .. l /\ b[i] # NL /\ (i = 1 \/ b[i - 1] = NL)
    BY <1>3
  <2>2. i \in 1 .. Len(c) /\ c[i] = b[i] /\ (i # 1 => c[i - 1] = b[i - 1])
    BY <1>1, <1>5, <2>1
  <2> QED
    BY <1>4, <2>1, <2>2
<1>7. l + 2 \in LineStarts(c)
  BY <1>1, <1>2, <1>4
<1>8. ASSUME NEW i \in LineStarts(c) PROVE i \in LineStarts(b) \/ i = l + 2
  <2>1. i \in 1 .. Len(c) /\ c[i] # NL /\ (i = 1 \/ c[i - 1] = NL)
    BY <1>4
  <2>2. CASE i \in 1 .. l
    BY <1>1, <1>3, <1>5, <2>1, <2>2
  <2>3. i # l + 1
    BY <1>1, <2>1
  <2>4. ASSUME NEW k \in 1 .. Size[e], i = l + 1 + k PROVE i = l + 2
    <3> SUFFICES ASSUME k # 1 PROVE FALSE
      BY <1>1, <2>4
    <3>1. k - 1 \in 1 .. Size[e] /\ i - 1 = l + 1 + (k - 1) /\ i # 1
      BY <1>1, <2>4
    <3>2. c[i - 1] = <<e, k - 1>>
      BY <1>1, <3>1
    <3> QED
      BY <2>1, <3>1, <3>2, NotNewline
  <2> QED
    BY <1>1, <2>1, <2>2, <2>3, <2>4
<1>9. LineStarts(c) = LineStarts(b) \cup {l + 2}
  BY <1>6, <1>7, <1>8
<1>10. WellFormed(c)
  <2> SUFFICES ASSUME NEW i \in 1 .. Len(c), c[i] # NL
               PROVE  \E d \in Stamped : \E n \in 1 .. Size[d] :
                         /\ c[i] = <<d, n>>
                         /\ IF n = 1 THEN i = 1 \/ c[i - 1] = NL
                            ELSE i > 1 /\ c[i - 1] = <<d, n - 1>>
    BY DEF WellFormed
  <2>1. CASE i \in 1 .. l
    <3>1. b[i] # NL /\ i \in 1 .. Len(b)
      BY <1>1, <2>1 DEF l
    <3>2. PICK d \in Stamped : \E n \in 1 .. Size[d] :
             /\ b[i] = <<d, n>>
             /\ IF n = 1 THEN i = 1 \/ b[i - 1] = NL
                ELSE i > 1 /\ b[i - 1] = <<d, n - 1>>
      BY <3>1 DEF WellFormed
    <3>3. PICK n \in 1 .. Size[d] :
             /\ b[i] = <<d, n>>
             /\ IF n = 1 THEN i = 1 \/ b[i - 1] = NL
                ELSE i > 1 /\ b[i - 1] = <<d, n - 1>>
      BY <3>2
    <3>4. c[i] = <<d, n>> /\ (i # 1 => c[i - 1] = b[i - 1])
      BY <1>1, <1>5, <2>1, <3>3
    <3>5. IF n = 1 THEN i = 1 \/ c[i - 1] = NL ELSE i > 1 /\ c[i - 1] = <<d, n - 1>>
      BY <3>3, <3>4
    <3> QED
      BY <3>4, <3>5
  <2>2. ASSUME NEW k \in 1 .. Size[e], i = l + 1 + k
        PROVE  /\ c[i] = <<e, k>>
               /\ IF k = 1 THEN i = 1 \/ c[i - 1] = NL
                  ELSE i > 1 /\ c[i - 1] = <<e, k - 1>>
    <3>1. c[i] = <<e, k>>
      BY <1>1, <2>2
    <3>2. CASE k = 1
      <4>1. i - 1 = l + 1
        BY <1>1, <2>2, <3>2
      <4> QED
        BY <1>1, <3>1, <3>2, <4>1
    <3>3. CASE k # 1
      <4>1. k - 1 \in 1 .. Size[e] /\ i - 1 = l + 1 + (k - 1) /\ i > 1
        BY <1>1, <2>2, <3>3
      <4>2. c[i - 1] = <<e, k - 1>>
        BY <1>1, <4>1
      <4> QED
        BY <3>1, <3>3, <4>1, <4>2
    <3> QED
      BY <3>2, <3>3
  <2>3. i # l + 1
    BY <1>1
  <2> QED
    BY <1>1, <2>1, <2>2, <2>3
<1>11. ASSUME NEW i \in LineStarts(b) PROVE LineEnd(c, i) = LineEnd(b, i)
  <2> DEFINE m == LineEnd(b, i)
  <2>1. i \in 1 .. l /\ EndsAt(b, i, m)
    BY <1>3, LineEndProperties DEF l
  <2> HIDE DEF m
  <2>2. m \in i .. l /\ (m = l \/ b[m + 1] = NL) /\ \A j \in i .. m - 1 : b[j + 1] # NL
    BY <2>1 DEF EndsAt, l
  <2>3. m \in i .. Len(c) /\ i \in 1 .. Len(c)
    BY <1>1, <2>1, <2>2
  <2>4. c[m + 1] = NL
    <3>1. CASE m = l
      BY <1>1, <3>1
    <3>2. CASE m # l
      <4>1. m + 1 \in 1 .. l
        BY <1>1, <2>1, <2>2, <3>2
      <4> QED
        BY <1>1, <2>2, <3>2, <4>1
    <3> QED
      BY <3>1, <3>2
  <2>5. \A j \in i .. m - 1 : c[j + 1] # NL
    <3>1. \A j \in i .. m - 1 : j + 1 \in 1 .. l
      BY <1>1, <2>1, <2>2
    <3> QED
      BY <1>1, <2>2, <3>1
  <2>6. EndsAt(c, i, m)
    BY <2>3, <2>4, <2>5 DEF EndsAt
  <2>7. LineEnd(c, i) = m
    BY <1>1, <2>3, <2>6, LineEndProperties
  <2> QED
    BY <2>7 DEF m
<1>12. LineEnd(c, l + 2) = Len(c)
  <2>1. Len(c) \in l + 2 .. Len(c)
    BY <1>1
  <2>2. \A j \in l + 2 .. Len(c) - 1 : c[j + 1] # NL
    <3> SUFFICES ASSUME NEW j \in l + 2 .. Len(c) - 1 PROVE c[j + 1] # NL
      OBVIOUS
    <3>1. j - l \in 1 .. Size[e] /\ j + 1 = l + 1 + (j - l)
      BY <1>1
    <3>2. c[j + 1] = <<e, j - l>>
      BY <1>1, <3>1
    <3> QED
      BY <3>2, NotNewline
  <2>3. EndsAt(c, l + 2, Len(c))
    BY <2>1, <2>2 DEF EndsAt
  <2> QED
    BY <1>1, <1>2, <2>1, <2>3, LineEndProperties
<1>13. c[l + 2][1] = e
  BY <1>2
<1> QED
  BY <1>9, <1>10, <1>11, <1>12, <1>13 DEF c, l

LEMMA LineAddedEvents ==
  ASSUME NEW b \in Seq(Byte), WellFormed(b), NEW e \in Stamped, Marshalled(e)
  PROVE  EventsOn((b \o <<NL>>) \o Json(e)) = Append(EventsOn(b), e)
<1> DEFINE c == (b \o <<NL>>) \o Json(e)
           l == Len(b)
           V == WholeLines(b, LineStarts(b))
           W == WholeLines(c, LineStarts(c))
           n == Cardinality(V)
<1>1. /\ l \in Nat /\ c \in Seq(Byte) /\ Len(c) = l + 1 + Size[e] /\ Size[e] \in Nat
      /\ \A i \in 1 .. l : c[i] = b[i]
  BY LineAdded
<1>2. /\ WellFormed(c) /\ LineStarts(c) = LineStarts(b) \cup {l + 2}
      /\ c[l + 2][1] = e
      /\ \A i \in LineStarts(b) : LineEnd(c, i) = LineEnd(b, i)
      /\ LineEnd(c, l + 2) = Len(c)
  BY LineAddedStarts
<1> HIDE DEF c, l
<1>3. \A i \in LineStarts(b) : i \in 1 .. l /\ c[i] = b[i] /\ i < l + 2
  <2>1. \A i \in LineStarts(b) : i \in 1 .. l
    BY LineStartsProperties DEF l
  <2> QED
    BY <1>1, <2>1
<1>4. \A i \in LineStarts(b) : IsWhole(LineAt(c, i)) <=> IsWhole(LineAt(b, i))
  <2> SUFFICES ASSUME NEW i \in LineStarts(b)
               PROVE  IsWhole(LineAt(c, i)) <=> IsWhole(LineAt(b, i))
    OBVIOUS
  <2>1. i \in LineStarts(c)
    BY <1>2
  <2>2. IsWhole(LineAt(c, i)) <=> LineEnd(c, i) - i + 1 = Size[c[i][1]]
    BY <1>1, <1>2, <2>1, LineIsWhole
  <2>3. IsWhole(LineAt(b, i)) <=> LineEnd(b, i) - i + 1 = Size[b[i][1]]
    BY LineIsWhole
  <2> QED
    BY <1>2, <1>3, <2>2, <2>3
<1>5. IsWhole(LineAt(c, l + 2))
  <2>1. l + 2 \in LineStarts(c)
    BY <1>2
  <2>2. IsWhole(LineAt(c, l + 2)) <=> LineEnd(c, l + 2) - (l + 2) + 1 = Size[c[l + 2][1]]
    BY <1>1, <1>2, <2>1, LineIsWhole
  <2>3. Len(c) - (l + 2) + 1 = Size[e]
    BY <1>1
  <2> QED
    BY <1>2, <2>2, <2>3
<1>6. W = V \cup {l + 2} /\ \A i \in V : i < l + 2 /\ c[i] = b[i]
  <2>1. \A i : i \in W <=> i \in V \/ i = l + 2
    BY <1>2, <1>4, <1>5 DEF WholeLines
  <2>2. \A i \in V : i \in LineStarts(b)
    BY DEF WholeLines
  <2> HIDE DEF V, W
  <2> QED
    BY <1>3, <2>1, <2>2
<1>7. /\ V \in SUBSET Nat /\ IsFiniteSet(V) /\ n \in Nat
      /\ EventsOn(b) \in Seq(Stamped) /\ Len(EventsOn(b)) = n
      /\ \A k \in 1 .. n : Nth(V, k) \in V /\ EventsOn(b)[k] = b[Nth(V, k)][1]
  <2>1. LineStarts(b) \in SUBSET LineStarts(b)
    OBVIOUS
  <2> QED
    BY <2>1, EventsFromProperties DEF EventsOn
<1>8. /\ EventsOn(c) \in Seq(Stamped) /\ Len(EventsOn(c)) = Cardinality(W)
      /\ \A k \in 1 .. Cardinality(W) : EventsOn(c)[k] = c[Nth(W, k)][1]
  <2>1. LineStarts(c) \in SUBSET LineStarts(c)
    OBVIOUS
  <2> QED
    BY <1>1, <1>2, <2>1, EventsFromProperties DEF EventsOn
<1> HIDE DEF V, W
<1>9. /\ Cardinality(W) = n + 1
      /\ \A k \in 1 .. n : Nth(W, k) = Nth(V, k)
      /\ Nth(W, n + 1) = l + 2
  <2>1. l + 2 \in Nat
    BY <1>1
  <2>2. \A i \in V : i < l + 2
    BY <1>6
  <2> QED
    BY <1>6, <1>7, <2>1, <2>2, LastPlace
<1> HIDE DEF n
<1> DEFINE t == Append(EventsOn(b), e)
<1>10. /\ t \in Seq(Stamped) /\ Len(t) = n + 1
       /\ \A k \in 1 .. n : t[k] = EventsOn(b)[k]
       /\ t[n + 1] = e
  BY <1>7, AppendProperties
<1> HIDE DEF t
<1>11. ASSUME NEW k \in 1 .. n + 1 PROVE EventsOn(c)[k] = t[k]
  <2>1. CASE k \in 1 .. n
    <3>1. EventsOn(c)[k] = c[Nth(V, k)][1] /\ Nth(V, k) \in V
      BY <1>7, <1>8, <1>9, <2>1
    <3> QED
      BY <1>6, <1>7, <1>10, <2>1, <3>1
  <2>2. CASE k = n + 1
    BY <1>2, <1>8, <1>9, <1>10, <2>2
  <2> QED
    BY <1>7, <2>1, <2>2
<1>12. Len(EventsOn(c)) = n + 1
  BY <1>8, <1>9
<1>13. EventsOn(c) = t
  BY <1>8, <1>10, <1>11, <1>12, SeqEqual
<1> QED
  BY <1>13 DEF c, t

(* Each of the lines, torn or whole, is of one of the first n events of a  *)
(* sequence, and they are in the order in which these are.                 *)
LinesInOrder(b, s, n) ==
  /\ \A i \in LineStarts(b) : \E a \in 1 .. n : s[a] = b[i][1]
  /\ \A i, j \in LineStarts(b) : i < j =>
       \E a, c \in 1 .. n : a < c /\ s[a] = b[i][1] /\ s[c] = b[j][1]

LEMMA LineAddedInOrder ==
  ASSUME NEW b \in Seq(Byte), WellFormed(b), NEW e \in Stamped, Marshalled(e),
         NEW s, NEW n \in Nat, LinesInOrder(b, s, n), s[n + 1] = e
  PROVE  LinesInOrder((b \o <<NL>>) \o Json(e), s, n + 1)
<1> DEFINE c == (b \o <<NL>>) \o Json(e)
           l == Len(b)
<1>1. l \in Nat /\ \A i \in 1 .. l : c[i] = b[i]
  BY LineAdded
<1>2. LineStarts(c) = LineStarts(b) \cup {l + 2} /\ c[l + 2][1] = e
  BY LineAddedStarts
<1> HIDE DEF c
<1>3. \A i \in LineStarts(b) : i \in Nat /\ i < l + 2 /\ c[i] = b[i]
  <2>1. \A i \in LineStarts(b) : i \in 1 .. l
    BY LineStartsProperties
  <2> HIDE DEF l
  <2> QED
    BY <1>1, <2>1
<1> HIDE DEF l
<1>4. \A a \in 1 .. n : a \in 1 .. n + 1 /\ a < n + 1
  OBVIOUS
<1>5. n + 1 \in 1 .. n + 1
  OBVIOUS
<1>6. ASSUME NEW i \in LineStarts(b) PROVE \E a \in 1 .. n : s[a] = c[i][1]
  BY <1>3 DEF LinesInOrder
<1>7. ASSUME NEW i \in LineStarts(c) PROVE \E a \in 1 .. n + 1 : s[a] = c[i][1]
  <2>1. CASE i \in LineStarts(b)
    BY <1>4, <1>6, <2>1
  <2>2. CASE i = l + 2
    BY <1>2, <1>5, <2>2
  <2> QED
    BY <1>2, <2>1, <2>2
<1>8. ASSUME NEW i \in LineStarts(c), NEW j \in LineStarts(c), i < j
      PROVE  \E a, d \in 1 .. n + 1 : a < d /\ s[a] = c[i][1] /\ s[d] = c[j][1]
  <2>1. i \in LineStarts(b)
    BY <1>1, <1>2, <1>3, <1>8
  <2>2. CASE j \in LineStarts(b)
    <3>1. PICK a \in 1 .. n : \E d \in 1 .. n : a < d /\ s[a] = b[i][1] /\ s[d] = b[j][1]
      BY <1>8, <2>1, <2>2 DEF LinesInOrder
    <3>2. PICK d \in 1 .. n : a < d /\ s[a] = b[i][1] /\ s[d] = b[j][1]
      BY <3>1
    <3> QED
      BY <1>3, <1>4, <2>1, <2>2, <3>2
  <2>3. CASE j = l + 2
    <3>1. PICK a \in 1 .. n : s[a] = c[i][1]
      BY <1>6, <2>1
    <3> QED
      BY <1>2, <1>4, <1>5, <2>3, <3>1
  <2> QED
    BY <1>2, <2>2, <2>3
<1> QED
  BY <1>7, <1>8 DEF LinesInOrder, c

LEMMA LinesInOrderOfMore ==
  ASSUME NEW b, NEW s, NEW t, NEW n \in Nat, NEW m \in Nat, n <= m,
         \A a \in 1 .. n : t[a] = s[a], LinesInOrder(b, s, n)
  PROVE  LinesInOrder(b, t, m)
<1>1. \A a \in 1 .. n : a \in 1 .. m
  OBVIOUS
<1>2. ASSUME NEW i \in LineStarts(b), NEW j \in LineStarts(b), i < j
      PROVE  \E a, c \in 1 .. m : a < c /\ t[a] = b[i][1] /\ t[c] = b[j][1]
  <2>1. PICK a \in 1 .. n : \E c \in 1 .. n : a < c /\ s[a] = b[i][1] /\ s[c] = b[j][1]
    BY <1>2 DEF LinesInOrder
  <2>2. PICK c \in 1 .. n : a < c /\ s[a] = b[i][1] /\ s[c] = b[j][1]
    BY <2>1
  <2> QED
    BY <1>1, <2>2
<1>3. ASSUME NEW i \in LineStarts(b) PROVE \E a \in 1 .. m : t[a] = b[i][1]
  <2>1. PICK a \in 1 .. n : s[a] = b[i][1]
    BY DEF LinesInOrder
  <2> QED
    BY <1>1, <2>1
<1> QED
  BY <1>2, <1>3 DEF LinesInOrder

-----------------------------------------------------------------------------
(* What a torn write leaves.                                               *)

Begins(p, s) == Len(p) <= Len(s) /\ \A i \in 1 .. Len(p) : p[i] = s[i]

LEMMA BeginningStarts ==
  ASSUME NEW b \in Seq(Byte), WellFormed(b), NEW p \in Seq(Byte), Begins(p, b)
  PROVE  /\ WellFormed(p)
         /\ \A i : i \in LineStarts(p) <=> i \in LineStarts(b) /\ i <= Len(p)
         /\ \A i \in LineStarts(p) : p[i] = b[i]
<1>1. /\ Len(p) \in Nat /\ Len(b) \in Nat /\ Len(p) <= Len(b)
      /\ \A i \in 1 .. Len(p) : p[i] = b[i]
  BY DEF Begins
<1>2. \A i \in 1 .. Len(p) : i \in 1 .. Len(b) /\ (i # 1 => i - 1 \in 1 .. Len(p))
  BY <1>1
<1>3. \A i \in 1 .. Len(p) : i # 1 => p[i - 1] = b[i - 1]
  BY <1>1, <1>2
<1>4. WellFormed(p)
  <2> SUFFICES ASSUME NEW i \in 1 .. Len(p), p[i] # NL
               PROVE  \E d \in Stamped : \E n \in 1 .. Size[d] :
                         /\ p[i] = <<d, n>>
                         /\ IF n = 1 THEN i = 1 \/ p[i - 1] = NL
                            ELSE i > 1 /\ p[i - 1] = <<d, n - 1>>
    BY DEF WellFormed
  <2>1. b[i] # NL /\ i \in 1 .. Len(b)
    BY <1>1, <1>2
  <2>2. PICK d \in Stamped : \E n \in 1 .. Size[d] :
           /\ b[i] = <<d, n>>
           /\ IF n = 1 THEN i = 1 \/ b[i - 1] = NL
              ELSE i > 1 /\ b[i - 1] = <<d, n - 1>>
    BY <2>1 DEF WellFormed
  <2>3. PICK n \in 1 .. Size[d] :
           /\ b[i] = <<d, n>>
           /\ IF n = 1 THEN i = 1 \/ b[i - 1] = NL
              ELSE i > 1 /\ b[i - 1] = <<d, n - 1>>
    BY <2>2
  <2>4. p[i] = <<d, n>> /\ (i # 1 => p[i - 1] = b[i - 1])
    BY <1>1, <1>3, <2>3
  <2>5. IF n = 1 THEN i = 1 \/ p[i - 1] = NL ELSE i > 1 /\ p[i - 1] = <<d, n - 1>>
    BY <2>3, <2>4
  <2> QED
    BY <2>4, <2>5
<1>5. \A i : i \in LineStarts(b) <=>
        i \in 1 .. Len(b) /\ b[i] # NL /\ (i = 1 \/ b[i - 1] = NL)
  BY LineStartsProperties
<1>6. \A i : i \in LineStarts(p) <=>
        i \in 1 .. Len(p) /\ p[i] # NL /\ (i = 1 \/ p[i - 1] = NL)
  BY LineStartsProperties
<1>7. ASSUME NEW i \in LineStarts(p) PROVE i \in LineStarts(b) /\ i <= Len(p) /\ p[i] = b[i]
  <2>1. i \in 1 .. Len(p) /\ p[i] # NL /\ (i = 1 \/ p[i - 1] = NL)
    BY <1>6
  <2>2. i \in 1 .. Len(b) /\ p[i] = b[i] /\ (i # 1 => p[i - 1] = b[i - 1])
    BY <1>1, <1>2, <1>3, <2>1
  <2>3. i \in LineStarts(b)
    BY <1>5, <2>1, <2>2
  <2> QED
    BY <2>1, <2>2, <2>3
<1>8. ASSUME NEW i \in LineStarts(b), i <= Len(p) PROVE i \in LineStarts(p)
  <2>1. i \in 1 .. Len(b) /\ b[i] # NL /\ (i = 1 \/ b[i - 1] = NL)
    BY <1>5
  <2>2. i \in 1 .. Len(p)
    BY <1>1, <1>8, <2>1
  <2>3. p[i] = b[i] /\ (i # 1 => p[i - 1] = b[i - 1])
    BY <1>1, <1>3, <2>2
  <2> QED
    BY <1>6, <2>1, <2>2, <2>3
<1> QED
  BY <1>4, <1>7, <1>8

LEMMA BeginningInOrder ==
  ASSUME NEW b \in Seq(Byte), WellFormed(b), NEW p \in Seq(Byte), Begins(p, b),
         NEW s, NEW n \in Nat, LinesInOrder(b, s, n)
  PROVE  LinesInOrder(p, s, n)
<1>1. \A i \in LineStarts(p) : i \in LineStarts(b) /\ p[i] = b[i]
  BY BeginningStarts
<1> QED
  BY <1>1 DEF LinesInOrder

(* The lines that are whole in the beginning are the first of those that   *)
(* are whole.                                                              *)
LEMMA BeginningEvents ==
  ASSUME NEW b \in Seq(Byte), WellFormed(b), NEW p \in Seq(Byte), Begins(p, b)
  PROVE  Begins(EventsOn(p), EventsOn(b))
<1> DEFINE S == WholeLines(b, LineStarts(b))
           T == WholeLines(p, LineStarts(p))
<1>1. /\ Len(p) \in Nat /\ Len(b) \in Nat /\ Len(p) <= Len(b)
      /\ \A i \in 1 .. Len(p) : p[i] = b[i]
  BY DEF Begins
<1>2. /\ WellFormed(p)
      /\ \A i : i \in LineStarts(p) <=> i \in LineStarts(b) /\ i <= Len(p)
      /\ \A i \in LineStarts(p) : p[i] = b[i]
  BY BeginningStarts
<1>3. ASSUME NEW i \in LineStarts(p), IsWhole(LineAt(p, i)) PROVE IsWhole(LineAt(b, i))
  <2> DEFINE m == LineEnd(p, i)
             M == LineEnd(b, i)
  <2>1. i \in LineStarts(b) /\ p[i] = b[i]
    BY <1>2
  <2>2. m - i + 1 = Size[p[i][1]]
    BY <1>2, <1>3, LineIsWhole
  <2>3. i \in 1 .. Len(b) /\ M - i + 1 <= Size[b[i][1]] /\ b[i][1] \in Stamped
    BY <2>1, LineBytes
  <2>4. i \in 1 .. Len(p)
    BY <1>2, LineStartsProperties
  <2>5. EndsAt(p, i, m)
    BY <2>4, LineEndProperties
  <2>6. EndsAt(b, i, M)
    BY <2>3, LineEndProperties
  <2>7. IsWhole(LineAt(b, i)) <=> M - i + 1 = Size[b[i][1]]
    BY <2>1, LineIsWhole
  <2> HIDE DEF m, M
  <2>8. m \in i .. Len(p) /\ \A j \in i .. m - 1 : p[j + 1] # NL
    BY <2>5 DEF EndsAt
  <2>9. M \in i .. Len(b) /\ (M = Len(b) \/ b[M + 1] = NL)
    BY <2>6 DEF EndsAt
  <2>10. Size[b[i][1]] \in Nat
    BY <2>3, FilePersistorAssumption DEF Stamped
  <2>11. M <= m /\ i \in Nat /\ m \in Nat /\ M \in Nat
    <3>1. m - i + 1 = Size[b[i][1]]
      BY <2>1, <2>2
    <3>2. M - i + 1 <= m - i + 1
      BY <2>3, <3>1
    <3>3. i \in Nat /\ m \in Nat /\ M \in Nat
      BY <2>4, <2>8, <2>9
    <3> QED
      BY <3>2, <3>3
  <2>12. ~(M < m)
    <3> SUFFICES ASSUME M < m PROVE FALSE
      OBVIOUS
    <3>1. M \in i .. m - 1 /\ M # Len(b) /\ M + 1 \in 1 .. Len(p)
      BY <1>1, <2>4, <2>8, <2>9, <2>11
    <3>2. p[M + 1] # NL /\ b[M + 1] = NL
      BY <2>8, <2>9, <3>1
    <3> QED
      BY <1>1, <3>1, <3>2
  <2>13. M = m
    BY <2>11, <2>12
  <2> QED
    BY <2>1, <2>2, <2>7, <2>13
<1>4. ASSUME NEW i \in LineStarts(p), NEW j \in LineStarts(b), j < i, IsWhole(LineAt(b, j))
      PROVE  j \in LineStarts(p) /\ IsWhole(LineAt(p, j))
  <2> DEFINE M == LineEnd(b, j)
  <2>1. i \in 1 .. Len(p) /\ i \in LineStarts(b)
    BY <1>2, LineStartsProperties
  <2>2. i \in 1 .. Len(b) /\ b[i] # NL /\ (i = 1 \/ b[i - 1] = NL)
    BY <2>1, LineStartsProperties
  <2>3. j \in 1 .. Len(b) /\ b[j] # NL
    BY LineStartsProperties
  <2>4. i \in Nat /\ j \in Nat /\ 1 <= j /\ i <= Len(p) /\ i # 1 /\ b[i - 1] = NL
    BY <1>1, <1>4, <2>1, <2>2, <2>3
  <2>5. EndsAt(b, j, M)
    BY <2>3, LineEndProperties
  <2>6. M - j + 1 = Size[b[j][1]]
    BY <1>4, LineIsWhole
  <2>7. j \in LineStarts(p)
    BY <1>2, <1>4, <2>4
  <2>8. p[j] = b[j] /\ (IsWhole(LineAt(p, j)) <=> LineEnd(p, j) - j + 1 = Size[p[j][1]])
    BY <1>2, <2>7, LineIsWhole
  <2> HIDE DEF M
  <2>9. /\ M \in j .. Len(b) /\ (M = Len(b) \/ b[M + 1] = NL)
        /\ \A k \in j .. M - 1 : b[k + 1] # NL
    BY <2>5 DEF EndsAt
  <2>10. M \in Nat
    BY <2>4, <2>9
  <2>11. M < i
    <3> SUFFICES ASSUME i <= M PROVE FALSE
      BY <2>4, <2>10
    <3>1. i - 1 # j
      BY <2>3, <2>4
    <3>2. i - 2 \in j .. M - 1 /\ (i - 2) + 1 = i - 1
      BY <1>4, <2>4, <2>10, <3>1
    <3>3. b[i - 1] # NL
      BY <2>9, <3>2
    <3> QED
      BY <2>4, <3>3
  <2>12. M + 1 \in 1 .. Len(p) /\ M # Len(b) /\ M \in j .. Len(p)
    BY <1>1, <2>4, <2>9, <2>10, <2>11
  <2>13. p[M + 1] = NL
    BY <1>1, <2>9, <2>12
  <2>14. \A k \in j .. M - 1 : p[k + 1] # NL
    <3>1. \A k \in j .. M - 1 : k + 1 \in 1 .. Len(p)
      BY <1>1, <2>4, <2>12
    <3> QED
      BY <1>1, <2>9, <3>1
  <2>15. EndsAt(p, j, M)
    BY <2>12, <2>13, <2>14 DEF EndsAt
  <2>16. j \in 1 .. Len(p)
    BY <2>7, LineStartsProperties
  <2>17. LineEnd(p, j) = M
    BY <2>12, <2>15, <2>16, LineEndProperties
  <2> QED
    BY <2>6, <2>7, <2>8, <2>17
<1>5. /\ S \in SUBSET Nat /\ IsFiniteSet(S) /\ Cardinality(S) \in Nat
      /\ EventsOn(b) \in Seq(Stamped) /\ Len(EventsOn(b)) = Cardinality(S)
      /\ \A k \in 1 .. Cardinality(S) : EventsOn(b)[k] = b[Nth(S, k)][1]
  <2>1. LineStarts(b) \in SUBSET LineStarts(b)
    OBVIOUS
  <2> QED
    BY <2>1, EventsFromProperties DEF EventsOn
<1>6. /\ T \in SUBSET Nat /\ Cardinality(T) \in Nat
      /\ EventsOn(p) \in Seq(Stamped) /\ Len(EventsOn(p)) = Cardinality(T)
      /\ \A k \in 1 .. Cardinality(T) :
           Nth(T, k) \in T /\ EventsOn(p)[k] = p[Nth(T, k)][1]
  <2>1. LineStarts(p) \in SUBSET LineStarts(p)
    OBVIOUS
  <2> QED
    BY <1>2, <2>1, EventsFromProperties DEF EventsOn
<1>7. T \in SUBSET S /\ \A i \in T : p[i] = b[i]
  <2>1. \A i \in T : i \in S /\ p[i] = b[i]
    BY <1>2, <1>3 DEF WholeLines
  <2> HIDE DEF S, T
  <2> QED
    BY <2>1
<1>8. \A i \in T, j \in S : j <= i => j \in T
  <2> SUFFICES ASSUME NEW i \in T, NEW j \in S, j <= i PROVE j \in T
    OBVIOUS
  <2>1. CASE j = i
    BY <2>1
  <2>2. CASE j # i
    <3>1. j < i
      <4> HIDE DEF S, T
      <4>1. i \in Nat /\ j \in Nat
        BY <1>5, <1>6
      <4> QED
        BY <2>2, <4>1
    <3>2. i \in LineStarts(p) /\ j \in LineStarts(b) /\ IsWhole(LineAt(b, j))
      BY DEF WholeLines
    <3> QED
      BY <1>4, <3>1, <3>2 DEF WholeLines
  <2> QED
    BY <2>1, <2>2
<1> HIDE DEF S, T
<1>9. /\ Cardinality(T) <= Cardinality(S)
      /\ \A k \in 1 .. Cardinality(T) : Nth(T, k) = Nth(S, k)
  BY <1>5, <1>7, <1>8, FirstPlaces
<1>10. \A k \in 1 .. Cardinality(T) : k \in 1 .. Cardinality(S)
  BY <1>5, <1>6, <1>9
<1>11. \A k \in 1 .. Cardinality(T) : EventsOn(p)[k] = EventsOn(b)[k]
  <2> SUFFICES ASSUME NEW k \in 1 .. Cardinality(T)
               PROVE  EventsOn(p)[k] = EventsOn(b)[k]
    OBVIOUS
  <2>1. EventsOn(p)[k] = p[Nth(T, k)][1] /\ p[Nth(T, k)] = b[Nth(T, k)]
    BY <1>6, <1>7
  <2>2. EventsOn(b)[k] = b[Nth(T, k)][1]
    BY <1>5, <1>9, <1>10
  <2> QED
    BY <2>1, <2>2
<1> QED
  BY <1>5, <1>6, <1>9, <1>11 DEF Begins

LEMMA BeginsPrefix ==
  ASSUME NEW X, NEW p \in Seq(X), NEW s \in Seq(X)
  PROVE  Begins(p, s) <=> IsPrefix(p, s)
<1>1. Len(p) \in Nat /\ Len(s) \in Nat
  BY LenProperties
<1>2. ASSUME Len(p) <= Len(s)
      PROVE  SubSeq(p, 1, Len(p)) = SubSeq(s, 1, Len(p)) <=> \A i \in 1 .. Len(p) : p[i] = s[i]
  <2>1. SubSeq(p, 1, Len(p)) = p
    BY SubSeqFull
  <2>2. \A i \in 1 .. Len(p) : s[i] \in X
    <3>1. \A i \in 1 .. Len(p) : i \in 1 .. Len(s)
      BY <1>1, <1>2
    <3> QED
      BY <3>1, ElementOfSeq
  <2> DEFINE t == SubSeq(s, 1, Len(p))
  <2>3. 1 \in Int /\ Len(p) \in Int
    BY <1>1
  <2>4. /\ t \in Seq(X) /\ Len(t) = IF 1 <= Len(p) THEN Len(p) - 1 + 1 ELSE 0
        /\ \A i \in 1 .. Len(p) - 1 + 1 : t[i] = s[1 + i - 1]
    BY <2>2, <2>3, SubSeqProperties
  <2> HIDE DEF t
  <2>5. Len(t) = Len(p) /\ Len(p) - 1 + 1 = Len(p) /\ \A i \in 1 .. Len(p) : 1 + i - 1 = i
    BY <1>1, <2>4
  <2>6. \A i \in 1 .. Len(p) : t[i] = s[i]
    BY <2>4, <2>5
  <2>7. ASSUME \A i \in 1 .. Len(p) : p[i] = s[i] PROVE p = t
    BY <2>4, <2>5, <2>6, <2>7, SeqEqual
  <2>8. ASSUME p = t PROVE \A i \in 1 .. Len(p) : p[i] = s[i]
    BY <2>6, <2>8
  <2> QED
    BY <2>1, <2>7, <2>8 DEF t
<1> QED
  BY <1>2 DEF Begins, IsPrefix

LEMMA BeginsTransitive ==
  ASSUME NEW X, NEW p \in Seq(X), NEW q \in Seq(X), NEW s \in Seq(X),
         Begins(p, q), Begins(q, s)
  PROVE  Begins(p, s)
<1>1. Len(p) \in Nat /\ Len(q) \in Nat /\ Len(s) \in Nat
  BY LenProperties
<1>2. Len(p) <= Len(q) /\ Len(q) <= Len(s)
  BY DEF Begins
<1>3. \A i \in 1 .. Len(p) : i \in 1 .. Len(q)
  BY <1>1, <1>2
<1>4. \A i \in 1 .. Len(p) : p[i] = s[i]
  BY <1>3 DEF Begins
<1> QED
  BY <1>1, <1>2, <1>4 DEF Begins

LEMMA BeginsConcat ==
  ASSUME NEW X, NEW s \in Seq(X), NEW t \in Seq(X)
  PROVE  Begins(s, s \o t)
<1>1. Len(s) \in Nat /\ Len(t) \in Nat
  BY LenProperties
<1>2. /\ Len(s \o t) = Len(s) + Len(t)
      /\ \A i \in 1 .. Len(s) + Len(t) :
            (s \o t)[i] = IF i <= Len(s) THEN s[i] ELSE t[i - Len(s)]
  BY ConcatProperties
<1>3. \A i \in 1 .. Len(s) : i \in 1 .. Len(s) + Len(t) /\ i <= Len(s)
  BY <1>1
<1>4. Len(s) <= Len(s \o t)
  BY <1>1, <1>2
<1>5. \A i \in 1 .. Len(s) : (s \o t)[i] = s[i]
  BY <1>2, <1>3
<1> QED
  BY <1>4, <1>5 DEF Begins

LEMMA BeginsItself == \A s : Len(s) \in Nat => Begins(s, s)
BY DEF Begins

(* What comes after the same.                                              *)
LEMMA BeginsAfter ==
  ASSUME NEW X, NEW r \in Seq(X), NEW p \in Seq(X), NEW s \in Seq(X), Begins(p, s)
  PROVE  Begins(r \o p, r \o s)
<1>1. Len(r) \in Nat /\ Len(p) \in Nat /\ Len(s) \in Nat
  BY LenProperties
<1>2. Len(p) <= Len(s) /\ \A i \in 1 .. Len(p) : p[i] = s[i]
  BY DEF Begins
<1>3. /\ Len(r \o p) = Len(r) + Len(p)
      /\ \A i \in 1 .. Len(r) + Len(p) :
            (r \o p)[i] = IF i <= Len(r) THEN r[i] ELSE p[i - Len(r)]
  BY ConcatProperties
<1>4. /\ Len(r \o s) = Len(r) + Len(s)
      /\ \A i \in 1 .. Len(r) + Len(s) :
            (r \o s)[i] = IF i <= Len(r) THEN r[i] ELSE s[i - Len(r)]
  BY ConcatProperties
<1>5. ASSUME NEW i \in 1 .. Len(r) + Len(p) PROVE (r \o p)[i] = (r \o s)[i]
  <2>1. i \in 1 .. Len(r) + Len(s)
    BY <1>1, <1>2
  <2>2. i <= Len(r) \/ i - Len(r) \in 1 .. Len(p)
    BY <1>1
  <2>3. (r \o p)[i] = IF i <= Len(r) THEN r[i] ELSE p[i - Len(r)]
    BY <1>3
  <2>4. (r \o s)[i] = IF i <= Len(r) THEN r[i] ELSE s[i - Len(r)]
    BY <1>4, <2>1
  <2> QED
    BY <1>2, <2>2, <2>3, <2>4
<1>6. Len(r \o p) <= Len(r \o s)
  BY <1>1, <1>2, <1>3, <1>4
<1> QED
  BY <1>3, <1>5, <1>6 DEF Begins

LEMMA FirstBytes ==
  ASSUME NEW X, NEW s \in Seq(X), NEW n \in 0 .. Len(s)
  PROVE  SubSeq(s, 1, n) \in Seq(X) /\ Begins(SubSeq(s, 1, n), s)
<1>1. Len(s) \in Nat /\ 1 \in Int /\ n \in Int /\ n \in Nat /\ n <= Len(s)
  BY LenProperties
<1>2. \A i \in 1 .. n : s[i] \in X
  <2>1. \A i \in 1 .. n : i \in 1 .. Len(s)
    BY <1>1
  <2> QED
    BY <2>1, ElementOfSeq
<1> DEFINE t == SubSeq(s, 1, n)
<1>3. /\ t \in Seq(X) /\ Len(t) = IF 1 <= n THEN n - 1 + 1 ELSE 0
      /\ \A i \in 1 .. n - 1 + 1 : t[i] = s[1 + i - 1]
  BY <1>1, <1>2, SubSeqProperties
<1> HIDE DEF t
<1>4. Len(t) = n /\ n - 1 + 1 = n /\ \A i \in 1 .. n : 1 + i - 1 = i
  BY <1>1, <1>3
<1>5. \A i \in 1 .. n : t[i] = s[i]
  BY <1>3, <1>4
<1>6. Begins(t, s)
  BY <1>1, <1>4, <1>5 DEF Begins
<1> QED
  BY <1>3, <1>6 DEF t

-----------------------------------------------------------------------------
(* The writer loses nothing and swaps nothing.                             *)

LEMMA WriteKeepsAll ==
  ASSUME NEW buffered \in Seq(Byte), NEW data \in Seq(Byte)
  PROVE  LET w == Write(buffered, data)
         IN  w.disk \in Seq(Byte) /\ w.out \in Seq(Byte) /\ w.disk \o w.out = buffered \o data
<1> DEFINE all  == buffered \o data
           disk == IF Len(all) <= WriteBufferSize THEN 0
                   ELSE IF buffered # <<>> /\ Len(all) <= 2 * WriteBufferSize
                        THEN WriteBufferSize ELSE Len(all)
           n == Len(all)
<1>1. WriteBufferSize \in Nat \ {0}
  BY FilePersistorAssumption
<1>2. all \in Seq(Byte) /\ n \in Nat
  BY ConcatProperties, LenProperties
<1>3. disk \in 0 .. n
  BY <1>1, <1>2
<1>4. /\ Write(buffered, data).disk = SubSeq(all, 1, disk)
      /\ Write(buffered, data).out = SubSeq(all, disk + 1, n)
  BY DEF Write
<1> HIDE DEF all, disk
<1>5. 1 \in 1 .. n + 1 /\ disk \in 1 - 1 .. n /\ n \in disk .. n
  BY <1>2, <1>3
<1>6. SubSeq(all, 1, disk) \o SubSeq(all, disk + 1, n) = SubSeq(all, 1, n)
  BY <1>2, <1>5, ConcatAdjacentSubSeq
<1>7. SubSeq(all, 1, n) = all
  BY <1>2, SubSeqFull
<1>8. SubSeq(all, 1, disk) \in Seq(Byte)
  BY <1>2, <1>3, FirstBytes
<1>9. SubSeq(all, disk + 1, n) \in Seq(Byte)
  <2>1. disk + 1 \in Int /\ n \in Int
    BY <1>2, <1>3
  <2>2. \A i \in disk + 1 .. n : all[i] \in Byte
    <3>1. \A i \in disk + 1 .. n : i \in 1 .. n
      BY <1>2, <1>3
    <3> QED
      BY <1>2, <3>1, ElementOfSeq
  <2> QED
    BY <2>1, <2>2, SubSeqProperties
<1> QED
  BY <1>4, <1>6, <1>7, <1>8, <1>9 DEF all

LEMMA WriteLineKeepsAll ==
  ASSUME NEW buffered \in Seq(Byte), NEW e \in Stamped
  PROVE  LET w == WriteLine(buffered, e)
         IN  /\ w.disk \in Seq(Byte) /\ w.out \in Seq(Byte)
             /\ w.disk \o w.out = (buffered \o <<NL>>) \o Json(e)
<1>1. PICK nl : nl = Write(buffered, <<NL>>)
  OBVIOUS
<1>2. PICK json : json = Write(nl.out, Json(e))
  OBVIOUS
<1>3. /\ WriteLine(buffered, e).disk = nl.disk \o json.disk
      /\ WriteLine(buffered, e).out = json.out
  BY <1>1, <1>2 DEF WriteLine
<1>4. PICK d, o : d = nl.disk /\ o = nl.out
  OBVIOUS
<1>5. PICK c, r : c = json.disk /\ r = json.out
  OBVIOUS
<1>6. d \in Seq(Byte) /\ o \in Seq(Byte)
  BY <1>1, <1>4, NewlineIsBytes, WriteKeepsAll
<1>7. d \o o = buffered \o <<NL>>
  BY <1>1, <1>4, NewlineIsBytes, WriteKeepsAll
<1>8. Json(e) \in Seq(Byte)
  BY JsonIsBytes
<1>9. c = Write(o, Json(e)).disk /\ r = Write(o, Json(e)).out
  BY <1>2, <1>4, <1>5
<1>10. c \in Seq(Byte) /\ r \in Seq(Byte)
  BY <1>6, <1>8, <1>9, WriteKeepsAll
<1>11. c \o r = o \o Json(e)
  BY <1>6, <1>8, <1>9, WriteKeepsAll
<1>12. (d \o c) \o r = d \o (c \o r)
  BY <1>6, <1>10, ConcatAssociative
<1>13. d \o (o \o Json(e)) = (d \o o) \o Json(e)
  BY <1>6, <1>8, ConcatAssociative
<1>14. d \o c \in Seq(Byte)
  BY <1>6, <1>10, ConcatProperties
<1> QED
  BY <1>3, <1>4, <1>5, <1>7, <1>10, <1>11, <1>12, <1>13, <1>14

LEMMA FlushedKeepsAll ==
  ASSUME NEW w, w.disk \in Seq(Byte), w.out \in Seq(Byte)
  PROVE  /\ Flushed(w).disk \in Seq(Byte) /\ Flushed(w).out = <<>>
         /\ Flushed(w).out \in Seq(Byte)
         /\ Flushed(w).disk = w.disk \o w.out
         /\ Flushed(w).disk \o Flushed(w).out = w.disk \o w.out
<1>1. Flushed(w).disk = w.disk \o w.out /\ Flushed(w).out = <<>>
  BY DEF Flushed
<1>2. w.disk \o w.out \in Seq(Byte)
  BY ConcatProperties
<1>3. (w.disk \o w.out) \o <<>> = w.disk \o w.out
  BY <1>2, ConcatEmptySeq
<1>4. <<>> \in Seq(Byte)
  OBVIOUS
<1> QED
  BY <1>1, <1>2, <1>3, <1>4

(* The file begins what it was to become, and with what is in the buffer   *)
(* it is that, if nothing failed.                                          *)
LEMMA ToFileWrites ==
  ASSUME file \in Seq(Byte), NEW w, w.disk \in Seq(Byte), w.out \in Seq(Byte), ToFile(w)
  PROVE  /\ file' \in Seq(Byte) /\ out' \in Seq(Byte)
         /\ Begins(file', file \o (w.disk \o w.out))
         /\ Begins(file, file')
         /\ broken' = FALSE => file' \o out' = file \o (w.disk \o w.out) /\ out' = w.out
<1> DEFINE all == file \o (w.disk \o w.out)
<1>1. w.disk \o w.out \in Seq(Byte) /\ Begins(w.disk, w.disk \o w.out)
  BY ConcatProperties, BeginsConcat
<1>2. file \o w.disk \in Seq(Byte) /\ Begins(file \o w.disk, all)
  <2>1. file \o w.disk \in Seq(Byte)
    BY ConcatProperties
  <2>2. Begins(file \o w.disk, file \o (w.disk \o w.out))
    BY <1>1, BeginsAfter
  <2> QED
    BY <2>1, <2>2
<1>3. (file \o w.disk) \o w.out = all
  <2>1. PICK d, o : d = w.disk /\ o = w.out
    OBVIOUS
  <2>2. d \in Seq(Byte) /\ o \in Seq(Byte)
    BY <2>1
  <2>3. (file \o d) \o o = file \o (d \o o)
    BY <2>2, ConcatAssociative
  <2> QED
    BY <2>1, <2>3
<1>4. CASE file' = file \o w.disk /\ out' = w.out
  BY <1>2, <1>3, <1>4, BeginsConcat
<1>5. ASSUME NEW n \in 0 .. Len(w.disk) - 1, file' = file \o SubSeq(w.disk, 1, n),
             out' = <<>>, broken' = TRUE
      PROVE  file' \in Seq(Byte) /\ out' \in Seq(Byte) /\ Begins(file', all) /\ Begins(file, file')
  <2>1. n \in 0 .. Len(w.disk)
    BY LenProperties
  <2>2. SubSeq(w.disk, 1, n) \in Seq(Byte) /\ Begins(SubSeq(w.disk, 1, n), w.disk)
    BY <2>1, FirstBytes
  <2>3. Begins(SubSeq(w.disk, 1, n), w.disk \o w.out)
    BY <1>1, <2>2, BeginsTransitive
  <2>4. Begins(file', all)
    BY <1>1, <1>5, <2>2, <2>3, BeginsAfter
  <2>5. file' \in Seq(Byte) /\ Begins(file, file')
    BY <1>5, <2>2, ConcatProperties, BeginsConcat
  <2> QED
    BY <1>5, <2>4, <2>5
<1> HIDE DEF all
<1>6. \/ file' = file \o w.disk /\ out' = w.out
      \/ \E n \in 0 .. Len(w.disk) - 1 :
           file' = file \o SubSeq(w.disk, 1, n) /\ out' = <<>> /\ broken' = TRUE
  BY DEF ToFile
<1>7. CASE \E n \in 0 .. Len(w.disk) - 1 :
           file' = file \o SubSeq(w.disk, 1, n) /\ out' = <<>> /\ broken' = TRUE
  BY <1>5, <1>7 DEF all
<1> QED
  BY <1>2, <1>3, <1>4, <1>6, <1>7 DEF all

-----------------------------------------------------------------------------
(* The way of an event, from Publish to OnPublish: no event is on it       *)
(* twice, and with one publisher they are in the order of time.            *)

LonePublisher == \A p, q \in Publishers : p = q

Precedes(d, e) == d # e /\ (LonePublisher => d < e)

Ascending(s) == \A i, j \in 1 .. Len(s) : i < j => Precedes(s[i], s[j])

AllPrecede(s, e) == \A i \in 1 .. Len(s) : Precedes(s[i], e)

PrecedesAll(e, s) == \A i \in 1 .. Len(s) : Precedes(e, s[i])

NoneAfter(s, n) == \A i \in 1 .. Len(s) : s[i] <= n

Pending == manager \in {"OnPublish", "last OnPublish"}

OnTheWay ==
  /\ Ascending(handled) /\ Ascending(Events)
  /\ \A i \in 1 .. Len(handled) : PrecedesAll(handled[i], Events)
  /\ Pending => AllPrecede(handled, onPublish) /\ PrecedesAll(onPublish, Events)

ToBeSent ==
  \A p \in Publishers : publishing[p] # 0 =>
    /\ AllPrecede(handled, publishing[p]) /\ AllPrecede(Events, publishing[p])
    /\ Pending => Precedes(onPublish, publishing[p])
    /\ \A q \in Publishers : publishing[q] = publishing[p] => q = p

StampedBefore ==
  /\ NoneAfter(handled, stamped) /\ NoneAfter(Events, stamped)
  /\ \A p \in Publishers : publishing[p] <= stamped
  /\ Pending => onPublish <= stamped

Course == handled \in Seq(Stamped) /\ OnTheWay /\ ToBeSent /\ StampedBefore

LEMMA AppendPrecedes ==
  ASSUME NEW s \in Seq(Stamped), NEW e \in Stamped
  PROVE  /\ Append(s, e) \in Seq(Stamped)
         /\ Ascending(s) /\ AllPrecede(s, e) => Ascending(Append(s, e))
         /\ \A f : AllPrecede(s, f) /\ Precedes(e, f) => AllPrecede(Append(s, e), f)
         /\ \A d : PrecedesAll(d, s) /\ Precedes(d, e) => PrecedesAll(d, Append(s, e))
         /\ \A n : NoneAfter(s, n) /\ e <= n => NoneAfter(Append(s, e), n)
<1> DEFINE t == Append(s, e)
           n == Len(s)
<1>1. /\ t \in Seq(Stamped) /\ Len(t) = n + 1
      /\ \A i \in 1 .. n : t[i] = s[i]
      /\ t[n + 1] = e
  BY AppendProperties
<1>2. n \in Nat
  BY LenProperties
<1> HIDE DEF t, n
<1>3. \A i \in 1 .. Len(t) : i \in 1 .. n \/ i = n + 1
  BY <1>1, <1>2
<1>4. ASSUME Ascending(s), AllPrecede(s, e) PROVE Ascending(t)
  <2> SUFFICES ASSUME NEW i \in 1 .. Len(t), NEW j \in 1 .. Len(t), i < j
               PROVE  Precedes(t[i], t[j])
    BY DEF Ascending
  <2>1. i \in 1 .. n
    BY <1>1, <1>2
  <2>2. CASE j \in 1 .. n
    BY <1>1, <1>4, <2>1, <2>2 DEF Ascending, n
  <2>3. CASE j = n + 1
    BY <1>1, <1>4, <2>1, <2>3 DEF AllPrecede, n
  <2> QED
    BY <1>3, <2>2, <2>3
<1>5. ASSUME NEW f, AllPrecede(s, f), Precedes(e, f) PROVE AllPrecede(t, f)
  <2>1. \A i \in 1 .. n : Precedes(s[i], f)
    BY <1>5 DEF AllPrecede, n
  <2> QED
    BY <1>1, <1>3, <1>5, <2>1 DEF AllPrecede
<1>6. ASSUME NEW d, PrecedesAll(d, s), Precedes(d, e) PROVE PrecedesAll(d, t)
  <2>1. \A i \in 1 .. n : Precedes(d, s[i])
    BY <1>6 DEF PrecedesAll, n
  <2> QED
    BY <1>1, <1>3, <1>6, <2>1 DEF PrecedesAll
<1>7. ASSUME NEW m, NoneAfter(s, m), e <= m PROVE NoneAfter(t, m)
  <2>1. \A i \in 1 .. n : s[i] <= m
    BY <1>7 DEF NoneAfter, n
  <2> QED
    BY <1>1, <1>3, <1>7, <2>1 DEF NoneAfter
<1> QED
  BY <1>1, <1>4, <1>5, <1>6, <1>7 DEF t

LEMMA TailPrecedes ==
  ASSUME NEW s \in Seq(Stamped), s # <<>>
  PROVE  /\ Head(s) \in Stamped /\ Tail(s) \in Seq(Stamped)
         /\ Ascending(s) => Ascending(Tail(s)) /\ PrecedesAll(Head(s), Tail(s))
         /\ \A f : AllPrecede(s, f) => AllPrecede(Tail(s), f) /\ Precedes(Head(s), f)
         /\ \A d : PrecedesAll(d, s) => PrecedesAll(d, Tail(s)) /\ Precedes(d, Head(s))
         /\ \A n : NoneAfter(s, n) => NoneAfter(Tail(s), n) /\ Head(s) <= n
<1> DEFINE t == Tail(s)
           n == Len(s)
<1>1. /\ Head(s) \in Stamped /\ t \in Seq(Stamped) /\ Len(t) = n - 1
      /\ \A i \in 1 .. Len(t) : t[i] = s[i + 1]
  BY HeadTailProperties
<1>2. n \in Nat /\ n # 0 /\ Head(s) = s[1]
  BY EmptySeq, LenProperties
<1> HIDE DEF t, n
<1>3. 1 \in 1 .. n /\ \A i \in 1 .. Len(t) : i + 1 \in 1 .. n /\ 1 < i + 1
  BY <1>1, <1>2
<1>4. ASSUME Ascending(s) PROVE Ascending(t) /\ PrecedesAll(Head(s), t)
  <2>1. \A i, j \in 1 .. n : i < j => Precedes(s[i], s[j])
    BY <1>4 DEF Ascending, n
  <2>2. ASSUME NEW i \in 1 .. Len(t), NEW j \in 1 .. Len(t), i < j
        PROVE  Precedes(t[i], t[j])
    <3>1. i + 1 < j + 1
      BY <2>2
    <3> QED
      BY <1>1, <1>3, <2>1, <3>1
  <2>3. \A i \in 1 .. Len(t) : Precedes(s[1], t[i])
    BY <1>1, <1>3, <2>1
  <2> QED
    BY <1>2, <2>2, <2>3 DEF Ascending, PrecedesAll
<1>5. ASSUME NEW f, AllPrecede(s, f) PROVE AllPrecede(t, f) /\ Precedes(Head(s), f)
  <2>1. \A i \in 1 .. n : Precedes(s[i], f)
    BY <1>5 DEF AllPrecede, n
  <2> QED
    BY <1>1, <1>2, <1>3, <2>1 DEF AllPrecede
<1>6. ASSUME NEW d, PrecedesAll(d, s) PROVE PrecedesAll(d, t) /\ Precedes(d, Head(s))
  <2>1. \A i \in 1 .. n : Precedes(d, s[i])
    BY <1>6 DEF PrecedesAll, n
  <2> QED
    BY <1>1, <1>2, <1>3, <2>1 DEF PrecedesAll
<1>7. ASSUME NEW m, NoneAfter(s, m) PROVE NoneAfter(t, m) /\ Head(s) <= m
  <2>1. \A i \in 1 .. n : s[i] <= m
    BY <1>7 DEF NoneAfter, n
  <2> QED
    BY <1>1, <1>2, <1>3, <2>1 DEF NoneAfter
<1> QED
  BY <1>1, <1>4, <1>5, <1>6, <1>7 DEF t

LEMMA NothingOnTheWay ==
  /\ Ascending(<<>>)
  /\ \A e : AllPrecede(<<>>, e) /\ PrecedesAll(e, <<>>)
  /\ \A n : NoneAfter(<<>>, n)
<1>1. 1 .. Len(<<>>) = {}
  OBVIOUS
<1> QED
  BY <1>1 DEF Ascending, AllPrecede, PrecedesAll, NoneAfter

LEMMA StampKeepsCourse ==
  ASSUME PInv, Course, NEW p \in Publishers, Stamp(p)
  PROVE  Course'
<1> DEFINE e == stamped + 1
<1>1. /\ handled' = handled /\ Events' = Events /\ manager' = manager
      /\ onPublish' = onPublish /\ stamped' = e
      /\ publishing' = [publishing EXCEPT ![p] = e]
  BY DEF Stamp, managerVars
<1>2. stamped \in Nat /\ publishing \in [Publishers -> Nat] /\ MaxEvents \in Nat
  BY FilePersistorAssumption DEF PInv, PublishingOK
<1>3. handled \in Seq(Stamped) /\ Events \in Seq(Stamped) /\ (Pending => onPublish \in Stamped)
  BY Zenon DEF Course, PInv, ManagerOK, Pending
<1>4. \A i \in 1 .. Len(handled) : handled[i] \in Nat /\ handled[i] <= stamped
  <2>1. \A i \in 1 .. Len(handled) : handled[i] \in Stamped
    BY <1>3, ElementOfSeq
  <2> QED
    BY <2>1 DEF Course, StampedBefore, NoneAfter, Stamped
<1>5. \A i \in 1 .. Len(Events) : Events[i] \in Nat /\ Events[i] <= stamped
  <2>1. \A i \in 1 .. Len(Events) : Events[i] \in Stamped
    BY <1>3, ElementOfSeq
  <2> QED
    BY <2>1 DEF Course, StampedBefore, NoneAfter, Stamped
<1>6. Pending => onPublish \in Nat /\ onPublish <= stamped
  BY <1>3 DEF Course, StampedBefore, Stamped
<1>7. \A q \in Publishers : publishing[q] \in Nat /\ publishing[q] <= stamped
  BY <1>2 DEF Course, StampedBefore
<1>8. \A d \in Nat : d <= stamped => Precedes(d, e) /\ d <= e
  BY <1>2 DEF Precedes
<1>9. Pending' = Pending
  BY <1>1 DEF Pending
<1>10. OnTheWay'
  BY <1>1, <1>9 DEF Course, OnTheWay, Ascending, PrecedesAll, AllPrecede, Precedes
<1>11. publishing'[p] = e /\ \A q \in Publishers : q # p => publishing'[q] = publishing[q]
  BY <1>1, <1>2
<1>12. StampedBefore'
  <2>1. NoneAfter(handled', stamped') /\ NoneAfter(Events', stamped')
    BY <1>1, <1>4, <1>5, <1>8 DEF NoneAfter
  <2>2. \A q \in Publishers : publishing'[q] <= stamped'
    BY <1>1, <1>2, <1>7, <1>8, <1>11
  <2>3. Pending' => onPublish' <= stamped'
    BY <1>1, <1>6, <1>8, <1>9
  <2> QED
    BY <2>1, <2>2, <2>3 DEF StampedBefore, NoneAfter
<1>13. ToBeSent'
  <2> SUFFICES ASSUME NEW r \in Publishers, publishing'[r] # 0
               PROVE  /\ AllPrecede(handled, publishing'[r])
                      /\ AllPrecede(Events, publishing'[r])
                      /\ Pending => Precedes(onPublish, publishing'[r])
                      /\ \A q \in Publishers : publishing'[q] = publishing'[r] => q = r
    BY <1>1, <1>9 DEF ToBeSent, AllPrecede, Precedes
  <2>1. CASE r = p
    <3>1. AllPrecede(handled, e) /\ AllPrecede(Events, e)
      BY <1>4, <1>5, <1>8 DEF AllPrecede
    <3>2. Pending => Precedes(onPublish, e)
      BY <1>6, <1>8
    <3>3. \A q \in Publishers : q # p => publishing'[q] # e
      BY <1>2, <1>7, <1>11
    <3> QED
      BY <1>11, <2>1, <3>1, <3>2, <3>3
  <2>2. CASE r # p
    <3>1. publishing'[r] = publishing[r] /\ publishing[r] # 0 /\ publishing[r] # e
      BY <1>2, <1>7, <1>11, <2>2
    <3>2. /\ AllPrecede(handled, publishing[r]) /\ AllPrecede(Events, publishing[r])
          /\ Pending => Precedes(onPublish, publishing[r])
          /\ \A q \in Publishers : publishing[q] = publishing[r] => q = r
      BY <3>1 DEF Course, ToBeSent
    <3>3. \A q \in Publishers : publishing'[q] = publishing'[r] => q = r
      BY <1>11, <3>1, <3>2
    <3> QED
      BY <3>1, <3>2, <3>3
  <2> QED
    BY <2>1, <2>2
<1> QED
  BY <1>1, <1>3, <1>10, <1>12, <1>13 DEF Course

LEMMA SendKeepsCourse ==
  ASSUME PInv, Course, NEW p \in Publishers, Send(p)
  PROVE  Course'
<1> DEFINE e == publishing[p]
<1>1. /\ handled' = handled /\ Events' = Append(Events, e) /\ manager' = manager
      /\ onPublish' = onPublish /\ stamped' = stamped
      /\ publishing' = [publishing EXCEPT ![p] = 0] /\ e # 0
  BY DEF Send
<1>2. publishing \in [Publishers -> 0 .. MaxEvents] /\ MaxEvents \in Nat /\ stamped \in Nat
  BY FilePersistorAssumption DEF PInv, PublishingOK
<1>3. handled \in Seq(Stamped) /\ Events \in Seq(Stamped)
  BY Zenon DEF Course, PInv, ManagerOK
<1>4. e \in Stamped /\ e <= stamped
  BY <1>1, <1>2 DEF Stamped, Course, StampedBefore
<1>5. /\ AllPrecede(handled, e) /\ AllPrecede(Events, e)
      /\ Pending => Precedes(onPublish, e)
      /\ \A q \in Publishers : publishing[q] = e => q = p
  BY <1>1 DEF Course, ToBeSent
<1>6. publishing'[p] = 0 /\ \A q \in Publishers : q # p => publishing'[q] = publishing[q]
  BY <1>1, <1>2
<1>7. Pending' = Pending
  BY <1>1 DEF Pending
<1> HIDE DEF e
<1>8. OnTheWay'
  <2>1. Ascending(Append(Events, e))
    BY <1>3, <1>4, <1>5, AppendPrecedes DEF Course, OnTheWay
  <2>2. \A i \in 1 .. Len(handled) : PrecedesAll(handled[i], Append(Events, e))
    <3> SUFFICES ASSUME NEW i \in 1 .. Len(handled)
                 PROVE  PrecedesAll(handled[i], Append(Events, e))
      OBVIOUS
    <3>1. PrecedesAll(handled[i], Events) /\ Precedes(handled[i], e)
      BY <1>5 DEF Course, OnTheWay, AllPrecede
    <3> QED
      BY <1>3, <1>4, <3>1, AppendPrecedes
  <2>3. Pending => AllPrecede(handled, onPublish) /\ PrecedesAll(onPublish, Append(Events, e))
    BY <1>3, <1>4, <1>5, AppendPrecedes DEF Course, OnTheWay
  <2>4. Ascending(handled)
    BY DEF Course, OnTheWay
  <2> QED
    BY <1>1, <1>7, <2>1, <2>2, <2>3, <2>4
       DEF OnTheWay, Ascending, PrecedesAll, AllPrecede, Precedes
<1>9. StampedBefore'
  <2>1. NoneAfter(handled, stamped) /\ NoneAfter(Events, stamped)
        /\ (Pending => onPublish <= stamped) /\ \A q \in Publishers : publishing[q] <= stamped
    BY DEF Course, StampedBefore
  <2>2. NoneAfter(Append(Events, e), stamped)
    BY <1>3, <1>4, <2>1, AppendPrecedes
  <2>3. \A q \in Publishers : publishing'[q] <= stamped
    BY <1>2, <1>6, <2>1
  <2> QED
    BY <1>1, <1>7, <2>1, <2>2, <2>3 DEF StampedBefore, NoneAfter
<1>10. ToBeSent'
  <2> SUFFICES ASSUME NEW r \in Publishers, publishing'[r] # 0
               PROVE  /\ AllPrecede(handled, publishing'[r])
                      /\ AllPrecede(Append(Events, e), publishing'[r])
                      /\ Pending => Precedes(onPublish, publishing'[r])
                      /\ \A q \in Publishers : publishing'[q] = publishing'[r] => q = r
    BY <1>1, <1>7 DEF ToBeSent, AllPrecede, Precedes
  <2>1. r # p /\ publishing'[r] = publishing[r]
    BY <1>6
  <2>2. /\ AllPrecede(handled, publishing[r]) /\ AllPrecede(Events, publishing[r])
        /\ Pending => Precedes(onPublish, publishing[r])
        /\ \A q \in Publishers : publishing[q] = publishing[r] => q = r
    BY <2>1 DEF Course, ToBeSent
  <2>3. Precedes(e, publishing[r])
    BY <1>5, <2>1, Zenon DEF Precedes, LonePublisher
  <2>4. AllPrecede(Append(Events, e), publishing[r])
    BY <1>3, <1>4, <2>2, <2>3, AppendPrecedes
  <2>5. \A q \in Publishers : publishing'[q] = publishing'[r] => q = r
    BY <1>6, <2>1, <2>2
  <2> QED
    BY <2>1, <2>2, <2>4, <2>5
<1> QED
  BY <1>1, <1>3, <1>8, <1>9, <1>10 DEF Course

LEMMA TakeEventKeepsCourse ==
  ASSUME PInv, Course, TakeEvent
  PROVE  Course'
<1>1. /\ handled' = handled /\ Events # <<>> /\ Events' = Tail(Events)
      /\ onPublish' = Head(Events) /\ stamped' = stamped /\ publishing' = publishing
      /\ Pending'
  <2>1. manager' = "OnPublish" \/ manager' = "last OnPublish"
    BY Zenon DEF TakeEvent
  <2>2. Pending'
    BY <2>1, Zenon DEF Pending
  <2> QED
    BY <2>2, Zenon DEF TakeEvent, publishVars
<1>2. handled \in Seq(Stamped) /\ Events \in Seq(Stamped)
  BY Zenon DEF Course, PInv, ManagerOK
<1> DEFINE h == Head(Events)
           t == Tail(Events)
<1>3. /\ h \in Stamped
      /\ Ascending(t) /\ PrecedesAll(h, t)
      /\ \A f : AllPrecede(Events, f) => AllPrecede(t, f) /\ Precedes(h, f)
      /\ \A d : PrecedesAll(d, Events) => PrecedesAll(d, t) /\ Precedes(d, h)
      /\ NoneAfter(t, stamped) /\ h <= stamped
  BY <1>1, <1>2, TailPrecedes DEF Course, OnTheWay, StampedBefore
<1> HIDE DEF h, t
<1>4. OnTheWay'
  <2>1. Ascending(handled) /\ \A i \in 1 .. Len(handled) : PrecedesAll(handled[i], Events)
    BY DEF Course, OnTheWay
  <2>2. AllPrecede(handled, h) /\ \A i \in 1 .. Len(handled) : PrecedesAll(handled[i], t)
    BY <1>3, <2>1 DEF AllPrecede
  <2> QED
    BY <1>1, <1>3, <2>1, <2>2
       DEF OnTheWay, Ascending, PrecedesAll, AllPrecede, Precedes, h, t
<1>5. ToBeSent'
  <2> SUFFICES ASSUME NEW r \in Publishers, publishing[r] # 0
               PROVE  /\ AllPrecede(handled, publishing[r])
                      /\ AllPrecede(t, publishing[r])
                      /\ Precedes(h, publishing[r])
                      /\ \A q \in Publishers : publishing[q] = publishing[r] => q = r
    BY <1>1 DEF ToBeSent, AllPrecede, Precedes, h, t
  <2> QED
    BY <1>3 DEF Course, ToBeSent
<1>6. StampedBefore'
  <2>1. NoneAfter(handled, stamped) /\ \A q \in Publishers : publishing[q] <= stamped
    BY DEF Course, StampedBefore
  <2> QED
    BY <1>1, <1>3, <2>1 DEF StampedBefore, NoneAfter, h, t
<1> QED
  BY <1>1, <1>2, <1>4, <1>5, <1>6 DEF Course

LEMMA OnPublishKeepsCourse ==
  ASSUME PInv, Course, OnPublish
  PROVE  Course'
<1>1. /\ handled' = Append(handled, onPublish) /\ Events' = Events
      /\ stamped' = stamped /\ publishing' = publishing
      /\ Pending /\ ~Pending'
  <2>1. Pending /\ (manager' = "select" \/ manager' = "OnShutdown")
    BY Zenon DEF OnPublish, Pending
  <2>2. ~Pending'
    BY <2>1, Zenon DEF Pending
  <2> QED
    BY <2>1, <2>2, Zenon DEF OnPublish, publishVars
<1>2. handled \in Seq(Stamped) /\ onPublish \in Stamped
  BY <1>1, Zenon DEF Course, PInv, ManagerOK, Pending
<1> DEFINE t == Append(handled, onPublish)
<1>3. /\ t \in Seq(Stamped) /\ Len(t) = Len(handled) + 1
      /\ \A i \in 1 .. Len(handled) : t[i] = handled[i]
      /\ t[Len(handled) + 1] = onPublish
  BY <1>2, AppendProperties
<1>4. \A i \in 1 .. Len(t) : i \in 1 .. Len(handled) \/ i = Len(handled) + 1
  <2>1. Len(handled) \in Nat
    BY <1>2, LenProperties
  <2> QED
    BY <1>3, <2>1
<1>5. /\ Ascending(t)
      /\ \A f : AllPrecede(handled, f) /\ Precedes(onPublish, f) => AllPrecede(t, f)
      /\ NoneAfter(t, stamped)
  BY <1>1, <1>2, AppendPrecedes DEF Course, OnTheWay, StampedBefore
<1> HIDE DEF t
<1>6. OnTheWay'
  <2>1. Ascending(Events) /\ \A i \in 1 .. Len(t) : PrecedesAll(t[i], Events)
    BY <1>1, <1>3, <1>4 DEF Course, OnTheWay
  <2> QED
    BY <1>1, <1>5, <2>1 DEF OnTheWay, Ascending, PrecedesAll, Precedes, t
<1>7. ToBeSent'
  <2> SUFFICES ASSUME NEW r \in Publishers, publishing[r] # 0
               PROVE  /\ AllPrecede(t, publishing[r])
                      /\ AllPrecede(Events, publishing[r])
                      /\ \A q \in Publishers : publishing[q] = publishing[r] => q = r
    BY <1>1 DEF ToBeSent, AllPrecede, Precedes, t
  <2> QED
    BY <1>1, <1>5 DEF Course, ToBeSent
<1>8. StampedBefore'
  <2>1. NoneAfter(Events, stamped) /\ \A q \in Publishers : publishing[q] <= stamped
    BY DEF Course, StampedBefore
  <2> QED
    BY <1>1, <1>5, <2>1 DEF StampedBefore, NoneAfter, t
<1> QED
  BY <1>1, <1>3, <1>6, <1>7, <1>8 DEF Course, t

(* Nothing moves on the way.                                               *)
LEMMA CourseUnchanged ==
  ASSUME Course, UNCHANGED <<handled, Events, onPublish, stamped, publishing>>,
         Pending' => Pending
  PROVE  Course'
BY DEF Course, OnTheWay, ToBeSent, StampedBefore, Ascending, AllPrecede, PrecedesAll,
       NoneAfter, Precedes

LEMMA StartLongpollKeepsCourse ==
  ASSUME PInv, Course, StartLongpoll
  PROVE  Course'
<1>1. /\ handled' = handled /\ Events' = <<>> /\ stamped' = stamped
      /\ publishing' = [p \in Publishers |-> 0] /\ ~Pending'
  BY DEF StartLongpoll, Pending
<1>2. \A p \in Publishers : publishing'[p] = 0
  BY <1>1
<1>3. /\ handled \in Seq(Stamped) /\ Ascending(handled)
      /\ NoneAfter(handled, stamped) /\ stamped \in Nat
  BY FilePersistorAssumption DEF Course, OnTheWay, StampedBefore, PInv, PublishingOK
<1>4. OnTheWay'
  <2>1. \A i \in 1 .. Len(handled) : PrecedesAll(handled[i], <<>>)
    BY NothingOnTheWay
  <2> QED
    BY <1>1, <1>3, <2>1, NothingOnTheWay DEF OnTheWay, Ascending, PrecedesAll, Precedes
<1>5. ToBeSent'
  BY <1>2 DEF ToBeSent
<1>6. StampedBefore'
  BY <1>1, <1>2, <1>3, NothingOnTheWay DEF StampedBefore, NoneAfter
<1> QED
  BY <1>1, <1>3, <1>4, <1>5, <1>6 DEF Course

-----------------------------------------------------------------------------
(* What the file ought to hold, for a history: the events handled, how     *)
(* many of them in earlier runs, what the file held when this one began,   *)
(* and the add-on's channel, which holds the last of the events handled.   *)

History(h, k, r, c) ==
  /\ h \in Seq(Stamped) /\ r \in Seq(Stamped) /\ c \in Seq(Stamped)
  /\ k \in Nat /\ k + Len(c) <= Len(h)
  /\ \A i \in 1 .. Len(c) : c[i] = h[Len(h) - Len(c) + i]

TakenOf(h, k, c) == SubSeq(h, k + 1, Len(h) - Len(c))

Wanted(h, k, r) == r \o MarshalledOf(SubSeq(h, k + 1, Len(h)))

(* bytes hold the events that were taken from the channel, and no other.   *)
Holds(b, h, k, r, c) ==
  /\ b \in Seq(Byte) /\ WellFormed(b)
  /\ LinesInOrder(b, h, Len(h) - Len(c))
  /\ EventsOn(b) = r \o MarshalledOf(TakenOf(h, k, c))

(* bytes are a beginning of what the file ought to hold.                   *)
Reaches(b, h, k, r) ==
  /\ b \in Seq(Byte) /\ WellFormed(b)
  /\ LinesInOrder(b, h, Len(h))
  /\ Begins(EventsOn(b), Wanted(h, k, r))

LEMMA EventsOnType ==
  ASSUME NEW b \in Seq(Byte), WellFormed(b)
  PROVE  EventsOn(b) \in Seq(Stamped)
<1>1. LineStarts(b) \in SUBSET LineStarts(b)
  OBVIOUS
<1> QED
  BY <1>1, EventsFromProperties DEF EventsOn

LEMMA SubSeqType ==
  ASSUME NEW h \in Seq(Stamped), NEW k \in Nat, NEW n \in 0 .. Len(h)
  PROVE  /\ SubSeq(h, k + 1, n) \in Seq(Stamped)
         /\ k <= n => Len(SubSeq(h, k + 1, n)) = n - k
         /\ \A i \in 1 .. n - k : SubSeq(h, k + 1, n)[i] = h[k + i]
<1>1. Len(h) \in Nat /\ k + 1 \in Int /\ n \in Int /\ n <= Len(h)
  BY LenProperties
<1>2. \A i \in k + 1 .. n : h[i] \in Stamped
  <2>1. \A i \in k + 1 .. n : i \in 1 .. Len(h)
    BY <1>1
  <2> QED
    BY <2>1, ElementOfSeq
<1> DEFINE t == SubSeq(h, k + 1, n)
<1>3. /\ t \in Seq(Stamped)
      /\ Len(t) = IF k + 1 <= n THEN n - (k + 1) + 1 ELSE 0
      /\ \A i \in 1 .. n - (k + 1) + 1 : t[i] = h[k + 1 + i - 1]
  BY <1>1, <1>2, SubSeqProperties
<1> HIDE DEF t
<1>4. n - (k + 1) + 1 = n - k /\ \A i \in 1 .. n - k : k + 1 + i - 1 = k + i
  BY <1>1
<1>5. \A i \in 1 .. n - k : t[i] = h[k + i]
  BY <1>3, <1>4
<1>6. k <= n => Len(t) = n - k
  BY <1>1, <1>3
<1> QED
  BY <1>3, <1>5, <1>6 DEF t

LEMMA TakenAndChannel ==
  ASSUME NEW h, NEW k, NEW r, NEW c, History(h, k, r, c)
  PROVE  /\ TakenOf(h, k, c) \in Seq(Stamped)
         /\ SubSeq(h, k + 1, Len(h)) = TakenOf(h, k, c) \o c
         /\ Wanted(h, k, r) \in Seq(Stamped)
         /\ r \o MarshalledOf(TakenOf(h, k, c)) \in Seq(Stamped)
         /\ Wanted(h, k, r) = (r \o MarshalledOf(TakenOf(h, k, c))) \o MarshalledOf(c)
<1> DEFINE n == Len(h) - Len(c)
           t == TakenOf(h, k, c)
           s == SubSeq(h, k + 1, Len(h))
<1>1. h \in Seq(Stamped) /\ r \in Seq(Stamped) /\ c \in Seq(Stamped)
  BY DEF History
<1>2. /\ k \in Nat /\ k + Len(c) <= Len(h)
      /\ \A i \in 1 .. Len(c) : c[i] = h[n + i]
  BY DEF History
<1>3. Len(h) \in Nat /\ Len(c) \in Nat
  BY <1>1, LenProperties
<1>4. n \in 0 .. Len(h) /\ Len(h) \in 0 .. Len(h) /\ k <= n /\ k <= Len(h)
  BY <1>2, <1>3
<1>5. t = SubSeq(h, k + 1, n)
  BY DEF TakenOf
<1> HIDE DEF n
<1>6. /\ t \in Seq(Stamped) /\ Len(t) = n - k
      /\ \A i \in 1 .. n - k : t[i] = h[k + i]
  BY <1>1, <1>2, <1>4, <1>5, SubSeqType
<1>7. /\ s \in Seq(Stamped) /\ Len(s) = Len(h) - k
      /\ \A i \in 1 .. Len(h) - k : s[i] = h[k + i]
  BY <1>1, <1>2, <1>4, SubSeqType
<1> HIDE DEF t, s
<1>8. t \in Seq(Stamped) /\ c \in Seq(Stamped)
  BY <1>1, <1>6
<1>9. /\ t \o c \in Seq(Stamped) /\ Len(t \o c) = Len(t) + Len(c)
      /\ \A i \in 1 .. Len(t) + Len(c) :
            (t \o c)[i] = IF i <= Len(t) THEN t[i] ELSE c[i - Len(t)]
  BY <1>8, ConcatProperties
<1>10. Len(t) + Len(c) = Len(h) - k
  BY <1>2, <1>3, <1>6 DEF n
<1>11. ASSUME NEW i \in 1 .. Len(h) - k PROVE s[i] = (t \o c)[i]
  <2>1. s[i] = h[k + i]
    BY <1>7
  <2>2. (t \o c)[i] = IF i <= n - k THEN t[i] ELSE c[i - (n - k)]
    BY <1>6, <1>9, <1>10
  <2>3. CASE i <= n - k
    <3>1. i \in 1 .. n - k
      BY <1>2, <1>3, <1>4, <2>3
    <3> QED
      BY <1>6, <2>1, <2>2, <2>3, <3>1
  <2>4. CASE ~(i <= n - k)
    <3>1. i - (n - k) \in 1 .. Len(c) /\ n + (i - (n - k)) = k + i
      BY <1>2, <1>3, <1>4, <2>4 DEF n
    <3> QED
      BY <1>2, <2>1, <2>2, <2>4, <3>1
  <2> QED
    BY <2>3, <2>4
<1>12. s = t \o c
  BY <1>7, <1>9, <1>10, <1>11, SeqEqual
<1>13. MarshalledOf(t) \in Seq(Stamped) /\ MarshalledOf(c) \in Seq(Stamped)
       /\ MarshalledOf(s) \in Seq(Stamped)
  BY <1>7, <1>8, MarshalledProperties
<1>14. MarshalledOf(s) = MarshalledOf(t) \o MarshalledOf(c)
  BY <1>8, <1>12, MarshalledConcat
<1>15. r \o (MarshalledOf(t) \o MarshalledOf(c)) = (r \o MarshalledOf(t)) \o MarshalledOf(c)
  <2>1. PICK m, l : m = MarshalledOf(t) /\ l = MarshalledOf(c)
    OBVIOUS
  <2>2. m \in Seq(Stamped) /\ l \in Seq(Stamped)
    BY <1>13, <2>1
  <2>3. r \o (m \o l) = (r \o m) \o l
    BY <1>1, <2>2, ConcatAssociative
  <2> QED
    BY <2>1, <2>3
<1>16. Wanted(h, k, r) = r \o MarshalledOf(s)
  BY DEF Wanted, s
<1>17. r \o MarshalledOf(s) \in Seq(Stamped) /\ r \o MarshalledOf(t) \in Seq(Stamped)
  BY <1>1, <1>13, ConcatProperties
<1> QED
  BY <1>6, <1>12, <1>14, <1>15, <1>16, <1>17 DEF t, s

LEMMA HoldsReaches ==
  ASSUME NEW h, NEW k, NEW r, NEW c, History(h, k, r, c), NEW b, Holds(b, h, k, r, c)
  PROVE  Reaches(b, h, k, r)
<1> DEFINE e == r \o MarshalledOf(TakenOf(h, k, c))
<1>1. /\ e \in Seq(Stamped) /\ Wanted(h, k, r) = e \o MarshalledOf(c)
  BY TakenAndChannel
<1>2. h \in Seq(Stamped) /\ c \in Seq(Stamped)
  BY DEF History
<1>3. Len(h) \in Nat /\ Len(c) \in Nat
  BY <1>2, LenProperties
<1>4. Len(h) - Len(c) \in Nat /\ Len(h) - Len(c) <= Len(h)
  BY <1>3 DEF History
<1>5. MarshalledOf(c) \in Seq(Stamped)
  BY <1>2, MarshalledProperties
<1>6. b \in Seq(Byte) /\ WellFormed(b) /\ LinesInOrder(b, h, Len(h) - Len(c)) /\ EventsOn(b) = e
  BY DEF Holds
<1> HIDE DEF e
<1>7. Begins(e, Wanted(h, k, r))
  BY <1>1, <1>5, BeginsConcat
<1>8. PICK n \in Nat : n = Len(h) - Len(c)
  BY <1>4
<1>9. LinesInOrder(b, h, n) /\ n <= Len(h)
  BY <1>4, <1>6, <1>8
<1>10. LinesInOrder(b, h, Len(h))
  BY <1>3, <1>9, LinesInOrderOfMore
<1> QED
  BY <1>6, <1>7, <1>10 DEF Reaches

LEMMA BeginningReaches ==
  ASSUME NEW h, NEW k, NEW r, NEW c, History(h, k, r, c), NEW b, Reaches(b, h, k, r),
         NEW p \in Seq(Byte), Begins(p, b)
  PROVE  Reaches(p, h, k, r) /\ Begins(EventsOn(p), EventsOn(b))
<1>1. b \in Seq(Byte) /\ WellFormed(b)
  BY DEF Reaches
<1>2. h \in Seq(Stamped)
  BY DEF History
<1>3. Len(h) \in Nat /\ LinesInOrder(b, h, Len(h))
  BY <1>2, LenProperties DEF Reaches
<1>4. WellFormed(p)
  BY <1>1, BeginningStarts
<1>5. LinesInOrder(p, h, Len(h))
  BY <1>1, <1>3, BeginningInOrder
<1>6. Begins(EventsOn(p), EventsOn(b))
  BY <1>1, BeginningEvents
<1>7. /\ EventsOn(p) \in Seq(Stamped) /\ EventsOn(b) \in Seq(Stamped)
      /\ Wanted(h, k, r) \in Seq(Stamped)
  BY <1>1, <1>4, EventsOnType, TakenAndChannel
<1>8. Begins(EventsOn(b), Wanted(h, k, r))
  BY DEF Reaches
<1>9. Begins(EventsOn(p), Wanted(h, k, r))
  BY <1>6, <1>7, <1>8, BeginsTransitive
<1> QED
  BY <1>4, <1>5, <1>6, <1>9 DEF Reaches

(* The next event is taken from the channel, and written if it can be.     *)
LEMMA NextTaken ==
  ASSUME NEW h, NEW k, NEW r, NEW c, History(h, k, r, c), c # <<>>
  PROVE  /\ Head(c) \in Stamped
         /\ History(h, k, r, Tail(c))
         /\ \A b : Holds(b, h, k, r, c) =>
              IF Marshalled(Head(c))
              THEN Holds((b \o <<NL>>) \o Json(Head(c)), h, k, r, Tail(c))
              ELSE Holds(b, h, k, r, Tail(c))
<1> DEFINE e == Head(c)
           t == Tail(c)
           n == Len(h) - Len(c)
           taken == TakenOf(h, k, c)
<1>1. h \in Seq(Stamped) /\ r \in Seq(Stamped) /\ c \in Seq(Stamped)
  BY DEF History
<1>2. /\ k \in Nat /\ k + Len(c) <= Len(h)
      /\ \A i \in 1 .. Len(c) : c[i] = h[n + i]
  BY DEF History
<1>3. Len(h) \in Nat /\ Len(c) \in Nat /\ Len(c) # 0 /\ e = c[1]
  BY <1>1, EmptySeq, LenProperties
<1>4. /\ e \in Stamped /\ t \in Seq(Stamped) /\ Len(t) = Len(c) - 1
      /\ \A i \in 1 .. Len(t) : t[i] = c[i + 1]
  BY <1>1, HeadTailProperties
<1> HIDE DEF e, t
<1>5. n \in Nat /\ Len(h) - Len(t) = n + 1 /\ k <= n /\ n + 1 <= Len(h)
  BY <1>2, <1>3, <1>4
<1>6. e = h[n + 1]
  <2>1. 1 \in 1 .. Len(c)
    BY <1>3
  <2> QED
    BY <1>2, <1>3, <2>1
<1> HIDE DEF n
<1>7. History(h, k, r, t)
  <2>1. \A i \in 1 .. Len(t) : t[i] = h[Len(h) - Len(t) + i]
    <3> SUFFICES ASSUME NEW i \in 1 .. Len(t) PROVE t[i] = h[Len(h) - Len(t) + i]
      OBVIOUS
    <3>1. i + 1 \in 1 .. Len(c) /\ n + (i + 1) = (n + 1) + i
      BY <1>3, <1>4, <1>5
    <3>2. t[i] = c[i + 1] /\ c[i + 1] = h[n + (i + 1)]
      BY <1>2, <1>4, <3>1
    <3> QED
      BY <1>5, <3>1, <3>2
  <2>2. k + Len(t) <= Len(h)
    BY <1>2, <1>3, <1>4
  <2> QED
    BY <1>1, <1>2, <1>4, <2>1, <2>2 DEF History
<1>8. TakenOf(h, k, t) = Append(taken, e) /\ taken \in Seq(Stamped)
  <2>1. taken = SubSeq(h, k + 1, n)
    BY DEF TakenOf, n
  <2>2. TakenOf(h, k, t) = SubSeq(h, k + 1, n + 1)
    BY <1>5 DEF TakenOf
  <2>3. n \in 0 .. Len(h) /\ n + 1 \in 0 .. Len(h) /\ k <= n + 1
    BY <1>2, <1>3, <1>5
  <2> HIDE DEF taken
  <2>4. /\ taken \in Seq(Stamped) /\ Len(taken) = n - k
        /\ \A i \in 1 .. n - k : taken[i] = h[k + i]
    BY <1>1, <1>2, <1>5, <2>1, <2>3, SubSeqType
  <2> DEFINE more == SubSeq(h, k + 1, n + 1)
  <2>5. /\ more \in Seq(Stamped) /\ Len(more) = n + 1 - k
        /\ \A i \in 1 .. n + 1 - k : more[i] = h[k + i]
    BY <1>1, <1>2, <2>3, SubSeqType
  <2> HIDE DEF more
  <2> DEFINE a == Append(taken, e)
  <2>6. /\ a \in Seq(Stamped) /\ Len(a) = Len(taken) + 1
        /\ \A i \in 1 .. Len(taken) : a[i] = taken[i]
        /\ a[Len(taken) + 1] = e
    BY <1>4, <2>4, AppendProperties
  <2> HIDE DEF a
  <2>7. Len(more) = Len(a) /\ Len(more) = (n - k) + 1
    BY <1>2, <1>5, <2>4, <2>5, <2>6
  <2>8. ASSUME NEW i \in 1 .. Len(more) PROVE more[i] = a[i]
    <3>1. more[i] = h[k + i]
      BY <2>5
    <3>2. CASE i \in 1 .. n - k
      BY <2>4, <2>6, <3>1, <3>2
    <3>3. CASE i \notin 1 .. n - k
      <4>1. i = (n - k) + 1 /\ k + i = n + 1
        BY <1>2, <1>5, <2>7, <3>3
      <4> QED
        BY <1>6, <2>4, <2>6, <3>1, <4>1
    <3> QED
      BY <3>2, <3>3
  <2>9. more = a
    BY <2>5, <2>6, <2>7, <2>8, SeqEqual
  <2> QED
    BY <2>2, <2>4, <2>9 DEF more, a
<1> HIDE DEF taken
<1>9. MarshalledOf(TakenOf(h, k, t)) =
        IF Marshalled(e) THEN Append(MarshalledOf(taken), e) ELSE MarshalledOf(taken)
  BY <1>4, <1>8, MarshalledAppend
<1>10. MarshalledOf(taken) \in Seq(Stamped)
  BY <1>8, MarshalledProperties
<1>11. ASSUME NEW b, Holds(b, h, k, r, c), Marshalled(e)
       PROVE  Holds((b \o <<NL>>) \o Json(e), h, k, r, t)
  <2> DEFINE d == (b \o <<NL>>) \o Json(e)
  <2>1. /\ b \in Seq(Byte) /\ WellFormed(b) /\ LinesInOrder(b, h, n)
        /\ EventsOn(b) = r \o MarshalledOf(taken)
    BY <1>11 DEF Holds, n, taken
  <2>2. d \in Seq(Byte)
    BY <1>4, <1>11, <2>1, LineAdded
  <2>3. WellFormed(d)
    BY <1>4, <1>11, <2>1, LineAddedStarts
  <2>4. LinesInOrder(d, h, n + 1)
    BY <1>4, <1>5, <1>6, <1>11, <2>1, LineAddedInOrder
  <2>5. EventsOn(d) = Append(EventsOn(b), e)
    BY <1>4, <1>11, <2>1, LineAddedEvents
  <2> HIDE DEF d
  <2>6. Append(r \o MarshalledOf(taken), e) = r \o Append(MarshalledOf(taken), e)
    <3>1. PICK m : m = MarshalledOf(taken)
      OBVIOUS
    <3>2. m \in Seq(Stamped) /\ <<e>> \in Seq(Stamped)
      BY <1>4, <1>10, <3>1
    <3>3. (r \o m) \o <<e>> = r \o (m \o <<e>>)
      BY <1>1, <3>2, ConcatAssociative
    <3>4. r \o m \in Seq(Stamped)
      BY <1>1, <3>2, ConcatProperties
    <3>5. Append(r \o m, e) = (r \o m) \o <<e>> /\ Append(m, e) = m \o <<e>>
      BY <1>4, <3>2, <3>4, AppendIsConcat
    <3> QED
      BY <3>1, <3>3, <3>5
  <2>7. EventsOn(d) = r \o MarshalledOf(TakenOf(h, k, t))
    BY <1>9, <1>11, <2>1, <2>5, <2>6
  <2> QED
    BY <1>5, <2>2, <2>3, <2>4, <2>7 DEF Holds, d
<1>12. ASSUME NEW b, Holds(b, h, k, r, c), ~Marshalled(e) PROVE Holds(b, h, k, r, t)
  <2>1. /\ b \in Seq(Byte) /\ WellFormed(b) /\ LinesInOrder(b, h, n)
        /\ EventsOn(b) = r \o MarshalledOf(taken)
    BY <1>12 DEF Holds, n, taken
  <2>2. n + 1 \in Nat /\ n <= n + 1
    BY <1>5
  <2>3. LinesInOrder(b, h, n + 1)
    BY <1>5, <2>1, <2>2, LinesInOrderOfMore
  <2> QED
    BY <1>5, <1>9, <1>12, <2>1, <2>3 DEF Holds
<1> QED
  BY <1>4, <1>7, <1>11, <1>12 DEF e, t

(* OnPublish is given an event.                                            *)
LEMMA OneMoreHandled ==
  ASSUME NEW h, NEW k, NEW r, NEW c, History(h, k, r, c), NEW e \in Stamped
  PROVE  LET g == Append(h, e)
             d == Append(c, e)
         IN  /\ History(g, k, r, d)
             /\ \A b : Holds(b, h, k, r, c) => Holds(b, g, k, r, d)
             /\ \A b : Reaches(b, h, k, r) => Reaches(b, g, k, r)
<1> DEFINE g == Append(h, e)
           d == Append(c, e)
           n == Len(h) - Len(c)
<1>1. h \in Seq(Stamped) /\ r \in Seq(Stamped) /\ c \in Seq(Stamped)
  BY DEF History
<1>2. /\ k \in Nat /\ k + Len(c) <= Len(h)
      /\ \A i \in 1 .. Len(c) : c[i] = h[n + i]
  BY DEF History
<1>3. Len(h) \in Nat /\ Len(c) \in Nat
  BY <1>1, LenProperties
<1>4. /\ g \in Seq(Stamped) /\ Len(g) = Len(h) + 1
      /\ \A i \in 1 .. Len(h) : g[i] = h[i]
      /\ g[Len(h) + 1] = e
  BY <1>1, AppendProperties
<1>5. /\ d \in Seq(Stamped) /\ Len(d) = Len(c) + 1
      /\ \A i \in 1 .. Len(c) : d[i] = c[i]
      /\ d[Len(c) + 1] = e
  BY <1>1, AppendProperties
<1> HIDE DEF g, d
<1>6. n \in Nat /\ Len(g) - Len(d) = n /\ k <= n /\ n <= Len(h)
  BY <1>2, <1>3, <1>4, <1>5
<1>7. ASSUME NEW i \in 1 .. Len(d) PROVE d[i] = g[n + i]
  <2>1. CASE i \in 1 .. Len(c)
    <3>1. n + i \in 1 .. Len(h)
      BY <1>3, <1>6, <2>1
    <3> QED
      BY <1>2, <1>4, <1>5, <2>1, <3>1
  <2>2. CASE i \notin 1 .. Len(c)
    <3>1. i = Len(c) + 1 /\ n + i = Len(h) + 1
      BY <1>3, <1>5, <2>2
    <3> QED
      BY <1>4, <1>5, <3>1
  <2> QED
    BY <2>1, <2>2
<1>8. History(g, k, r, d)
  <2>1. k + Len(d) <= Len(g)
    BY <1>2, <1>3, <1>4, <1>5
  <2> QED
    BY <1>1, <1>2, <1>4, <1>5, <1>6, <1>7, <2>1 DEF History
<1> HIDE DEF n
<1>9. TakenOf(g, k, d) = TakenOf(h, k, c)
  <2>1. TakenOf(g, k, d) = SubSeq(g, k + 1, n) /\ TakenOf(h, k, c) = SubSeq(h, k + 1, n)
    BY <1>6 DEF TakenOf, n
  <2>2. n \in 0 .. Len(h) /\ n \in 0 .. Len(g)
    BY <1>3, <1>4, <1>6
  <2> DEFINE s == SubSeq(g, k + 1, n)
             t == SubSeq(h, k + 1, n)
  <2>3. /\ s \in Seq(Stamped) /\ Len(s) = n - k
        /\ \A i \in 1 .. n - k : s[i] = g[k + i]
    BY <1>2, <1>4, <1>6, <2>2, SubSeqType
  <2>4. /\ t \in Seq(Stamped) /\ Len(t) = n - k
        /\ \A i \in 1 .. n - k : t[i] = h[k + i]
    BY <1>1, <1>2, <1>6, <2>2, SubSeqType
  <2> HIDE DEF s, t
  <2>5. \A i \in 1 .. n - k : k + i \in 1 .. Len(h)
    BY <1>2, <1>3, <1>6
  <2>6. \A i \in 1 .. n - k : s[i] = t[i]
    BY <1>4, <2>3, <2>4, <2>5
  <2>7. s = t
    BY <2>3, <2>4, <2>6, SeqEqual
  <2> QED
    BY <2>1, <2>7 DEF s, t
<1>10. \A i \in 1 .. n : g[i] = h[i]
  <2>1. \A i \in 1 .. n : i \in 1 .. Len(h)
    BY <1>3, <1>6
  <2> QED
    BY <1>4, <2>1
<1>11. ASSUME NEW b, Holds(b, h, k, r, c) PROVE Holds(b, g, k, r, d)
  <2>1. /\ b \in Seq(Byte) /\ WellFormed(b) /\ LinesInOrder(b, h, n)
        /\ EventsOn(b) = r \o MarshalledOf(TakenOf(h, k, c))
    BY <1>11 DEF Holds, n
  <2>2. n <= n
    BY <1>6
  <2>3. LinesInOrder(b, g, n)
    BY <1>6, <1>10, <2>1, <2>2, LinesInOrderOfMore
  <2> QED
    BY <1>6, <1>9, <2>1, <2>3 DEF Holds
<1>12. ASSUME NEW b, Reaches(b, h, k, r) PROVE Reaches(b, g, k, r)
  <2>1. /\ b \in Seq(Byte) /\ WellFormed(b) /\ LinesInOrder(b, h, Len(h))
        /\ Begins(EventsOn(b), Wanted(h, k, r))
    BY <1>12 DEF Reaches
  <2>2. PICK a \in Nat, m \in Nat : a = Len(h) /\ m = Len(g) /\ a <= m
    BY <1>3, <1>4
  <2>3. LinesInOrder(b, g, Len(g))
    BY <1>4, <2>1, <2>2, LinesInOrderOfMore
  <2> DEFINE taken == r \o MarshalledOf(TakenOf(h, k, c))
  <2>4. /\ taken \in Seq(Stamped)
        /\ Wanted(h, k, r) \in Seq(Stamped)
        /\ Wanted(h, k, r) = taken \o MarshalledOf(c)
    BY TakenAndChannel
  <2>5. /\ Wanted(g, k, r) \in Seq(Stamped)
        /\ Wanted(g, k, r) = taken \o MarshalledOf(d)
    BY <1>8, <1>9, TakenAndChannel
  <2>6. MarshalledOf(c) \in Seq(Stamped) /\ MarshalledOf(d) \in Seq(Stamped)
    BY <1>1, <1>5, MarshalledProperties
  <2>7. Begins(MarshalledOf(c), MarshalledOf(d))
    <3>1. MarshalledOf(d) = IF Marshalled(e) THEN Append(MarshalledOf(c), e)
                            ELSE MarshalledOf(c)
      BY <1>1, MarshalledAppend DEF d
    <3>2. PICK q : q = MarshalledOf(c)
      OBVIOUS
    <3>3. q \in Seq(Stamped) /\ <<e>> \in Seq(Stamped)
      BY <2>6, <3>2
    <3>4. Append(q, e) = q \o <<e>> /\ Begins(q, q \o <<e>>)
      BY <3>3, AppendIsConcat, BeginsConcat
    <3>5. Begins(q, q)
      BY <3>3, LenProperties, BeginsItself
    <3> QED
      BY <3>1, <3>2, <3>4, <3>5
  <2> HIDE DEF taken
  <2>8. Begins(Wanted(h, k, r), Wanted(g, k, r))
    BY <2>4, <2>5, <2>6, <2>7, BeginsAfter
  <2>9. EventsOn(b) \in Seq(Stamped)
    BY <2>1, EventsOnType
  <2>10. Begins(EventsOn(b), Wanted(g, k, r))
    BY <2>1, <2>4, <2>5, <2>8, <2>9, BeginsTransitive
  <2> QED
    BY <2>1, <2>3, <2>10 DEF Reaches
<1> QED
  BY <1>8, <1>11, <1>12 DEF g, d

(* A run begins: what the file holds is what it ought to hold.             *)
LEMMA RunBegins ==
  ASSUME NEW h, NEW k, NEW r, NEW c, History(h, k, r, c), NEW b, Reaches(b, h, k, r)
  PROVE  LET e == EventsOn(b)
         IN  /\ History(h, Len(h), e, <<>>)
             /\ Holds(b, h, Len(h), e, <<>>)
             /\ Reaches(b, h, Len(h), e)
<1> DEFINE e == EventsOn(b)
<1>1. h \in Seq(Stamped)
  BY DEF History
<1>2. b \in Seq(Byte) /\ WellFormed(b) /\ LinesInOrder(b, h, Len(h))
  BY DEF Reaches
<1>3. e \in Seq(Stamped)
  BY <1>2, EventsOnType
<1>4. Len(h) \in Nat /\ Len(<<>>) = 0 /\ <<>> \in Seq(Stamped)
  BY <1>1, LenProperties
<1>5. Len(h) - Len(<<>>) = Len(h) /\ Len(h) + Len(<<>>) <= Len(h) /\ 1 .. Len(<<>>) = {}
  BY <1>4
<1> HIDE DEF e
<1>6. History(h, Len(h), e, <<>>)
  BY <1>1, <1>3, <1>4, <1>5 DEF History
<1>7. TakenOf(h, Len(h), <<>>) = <<>>
  <2>1. TakenOf(h, Len(h), <<>>) = SubSeq(h, Len(h) + 1, Len(h))
    BY <1>5 DEF TakenOf
  <2>2. Len(h) + 1 \in Int /\ Len(h) \in Int /\ Len(h) < Len(h) + 1
    BY <1>4
  <2> QED
    BY <2>1, <2>2, SubSeqEmpty
<1>8. e \o MarshalledOf(<<>>) = e
  BY <1>3, MarshalledEmpty, ConcatEmptySeq
<1>9. Holds(b, h, Len(h), e, <<>>)
  BY <1>2, <1>5, <1>7, <1>8 DEF Holds, e
<1> QED
  BY <1>6, <1>9, HoldsReaches DEF e

-----------------------------------------------------------------------------
(* The invariant: where the events handled are, and that the file can be   *)
(* read back as far as it was written.                                     *)

AfterFinish == persistor = "finished" /\ manager \in {"wait", "stopped"}

Stages ==
  /\ closed => manager \in {"wait", "stopped", "crashed"}
  /\ manager = "stopped" => persistor = "finished"
  /\ persistor = "finished" => closed

HistoryOK == History(handled, before, base, publishedEvents)

FileOK ==
  /\ Reaches(file, handled, before, base)
  /\ ToSet(durable) \subseteq ToSet(EventsOn(file))

InBuffer == Holds(file \o out, handled, before, base, publishedEvents)

InFile == publishedEvents = <<>> /\ Holds(file, handled, before, base, publishedEvents)

StreamOK ==
  /\ Persisting /\ ~broken => InBuffer
  /\ AfterFinish /\ ~broken => InFile

SInv == PInv /\ Course /\ Stages /\ HistoryOK /\ FileOK /\ StreamOK

LEMMA BeginningIsContained ==
  ASSUME NEW X, NEW p \in Seq(X), NEW s \in Seq(X), Begins(p, s)
  PROVE  ToSet(p) \subseteq ToSet(s)
<1>1. DOMAIN p = 1 .. Len(p) /\ DOMAIN s = 1 .. Len(s) /\ Len(p) \in Nat /\ Len(s) \in Nat
  OBVIOUS
<1>2. \A i \in DOMAIN p : i \in DOMAIN s /\ p[i] = s[i]
  BY <1>1 DEF Begins
<1> QED
  BY <1>2, Zenon DEF ToSet

LEMMA BytesOfTheWriter ==
  ASSUME SInv
  PROVE  /\ file \in Seq(Byte) /\ out \in Seq(Byte)
         /\ handled \in Seq(Stamped) /\ base \in Seq(Stamped)
         /\ publishedEvents \in Seq(Stamped)
         /\ EventsOn(file) \in Seq(Stamped)
<1>1. file \in Seq(Byte) /\ WellFormed(file)
  BY DEF SInv, FileOK, Reaches
<1>2. out \in Seq(Byte)
  BY DEF SInv, PInv, WriterOK, OutOK
<1>3. handled \in Seq(Stamped) /\ base \in Seq(Stamped) /\ publishedEvents \in Seq(Stamped)
  BY DEF SInv, HistoryOK, History
<1> QED
  BY <1>1, <1>2, <1>3, EventsOnType

(* Steps that handle no event and leave the writer alone.                  *)
LEMMA NothingWritten ==
  ASSUME HistoryOK, FileOK, StreamOK,
         UNCHANGED <<handled, before, base, publishedEvents, file, out, broken, durable>>,
         Persisting' => Persisting,
         AfterFinish' => AfterFinish
  PROVE  HistoryOK' /\ FileOK' /\ StreamOK'
<1>1. /\ handled' = handled /\ before' = before /\ base' = base
      /\ publishedEvents' = publishedEvents /\ file' = file /\ out' = out
      /\ broken' = broken /\ durable' = durable
  OBVIOUS
<1>2. HistoryOK'
  BY <1>1 DEF HistoryOK
<1>3. Reaches(file, handled, before, base)'
  BY <1>1 DEF FileOK
<1>4. (ToSet(durable) \subseteq ToSet(EventsOn(file)))'
  BY <1>1 DEF FileOK
<1>5. InBuffer => InBuffer'
  BY <1>1 DEF InBuffer
<1>6. InFile => InFile'
  BY <1>1 DEF InFile
<1>7. StreamOK'
  <2>1. Persisting' /\ ~broken' => InBuffer
    BY DEF StreamOK
  <2>2. AfterFinish' /\ ~broken' => InFile
    BY DEF StreamOK
  <2> QED
    BY <1>5, <1>6, <2>1, <2>2 DEF StreamOK
<1> QED
  BY <1>2, <1>3, <1>4, <1>7 DEF FileOK

LEMMA PublisherKeepsSInv ==
  ASSUME SInv, NEW p \in Publishers, Stamp(p) \/ Send(p)
  PROVE  SInv'
<1>1. PInv'
  BY PublisherKeepsPInv DEF SInv
<1>2. Course'
  BY StampKeepsCourse, SendKeepsCourse DEF SInv
<1>3. /\ UNCHANGED <<handled, before, base, publishedEvents, file, out, broken, durable>>
      /\ manager' = manager /\ persistor' = persistor /\ closed' = closed
  BY Zenon DEF Stamp, Send, managerVars, channelVars, writerVars, startVars
<1>4. Persisting' = Persisting /\ AfterFinish' = AfterFinish
  BY <1>3, Zenon DEF Persisting, Running, AfterFinish
<1>5. HistoryOK' /\ FileOK' /\ StreamOK'
  BY <1>3, <1>4, NothingWritten DEF SInv
<1>6. Stages'
  BY <1>3, Zenon DEF SInv, Stages
<1> QED
  BY <1>1, <1>2, <1>5, <1>6 DEF SInv

(* What the manager does but for OnPublish.                                *)
LEMMA ManagerKeepsSInv ==
  ASSUME SInv, TakeEvent \/ TakeQuit \/ OnShutdown \/ Shutdown
  PROVE  SInv'
<1>1. PInv'
  BY ManagerKeepsPInv DEF SInv, ManagerStep
<1>2. /\ UNCHANGED <<handled, before, base, publishedEvents, file, out, broken, durable>>
      /\ persistor' = persistor
  <2>1. CASE TakeEvent
    BY <2>1, Zenon DEF TakeEvent, channelVars, writerVars, startVars
  <2>2. CASE TakeQuit
    BY <2>2, Zenon DEF TakeQuit, channelVars, writerVars, startVars
  <2>3. CASE OnShutdown
    BY <2>3, Zenon DEF OnShutdown, channelVars, writerVars, startVars
  <2>4. CASE Shutdown
    BY <2>4, Zenon DEF Shutdown, channelVars, writerVars, startVars
  <2> QED
    BY <2>1, <2>2, <2>3, <2>4
<1>3. Course'
  <2>1. CASE TakeEvent
    BY <2>1, TakeEventKeepsCourse DEF SInv
  <2>2. CASE TakeQuit \/ OnShutdown \/ Shutdown
    <3>1. UNCHANGED <<handled, Events, onPublish, stamped, publishing>>
      BY <2>2, Zenon DEF TakeQuit, OnShutdown, Shutdown, publishVars
    <3>2. Pending' => Pending
      <4>1. CASE TakeQuit
        <5>1. manager' = "drain" \/ manager' = "OnShutdown"
          BY <4>1, Zenon DEF TakeQuit
        <5> QED
          BY <5>1, Zenon DEF Pending
      <4>2. CASE OnShutdown
        <5>1. manager' = "wait" \/ manager' = "stopped"
          BY <4>2, Zenon DEF OnShutdown
        <5> QED
          BY <5>1, Zenon DEF Pending
      <4>3. CASE Shutdown
        BY <4>3, Zenon DEF Shutdown, Pending
      <4> QED
        BY <2>2, <4>1, <4>2, <4>3
    <3> QED
      BY <3>1, <3>2, CourseUnchanged DEF SInv
  <2> QED
    BY <2>1, <2>2
<1>4. /\ Stages'
      /\ Persisting' => Persisting
      /\ AfterFinish' => AfterFinish
  <2>1. CASE TakeEvent \/ TakeQuit
    <3>1. /\ manager \in {"select", "drain"} /\ closed' = closed
          /\ manager' # "wait" /\ manager' # "stopped"
      <4>1. CASE TakeEvent
        <5>1. /\ manager \in {"select", "drain"} /\ closed' = closed
              /\ manager' = "OnPublish" \/ manager' = "last OnPublish"
          BY <4>1, Zenon DEF TakeEvent, channelVars
        <5> QED
          BY <5>1, Zenon
      <4>2. CASE TakeQuit
        <5>1. /\ manager = "select" \/ manager = "drain"
              /\ manager' = "drain" \/ manager' = "OnShutdown"
              /\ closed' = closed
          BY <4>2, Zenon DEF TakeQuit, channelVars
        <5> QED
          BY <5>1, Zenon
      <4> QED
        BY <2>1, <4>1, <4>2, Zenon
    <3>2. ~closed
      BY <3>1 DEF SInv, Stages
    <3>3. Persisting' => Persisting
      BY <1>2, <3>1 DEF Persisting, Running
    <3>4. ~AfterFinish'
      BY <3>1 DEF AfterFinish
    <3>5. Stages'
      BY <1>2, <3>1, <3>2, Zenon DEF SInv, Stages
    <3> QED
      BY <3>3, <3>4, <3>5
  <2>2. CASE OnShutdown
    <3>1. CASE manager = "OnShutdown" /\ manager' = "wait" /\ closed' = TRUE
      <4>1. persistor # "finished"
        BY <3>1 DEF SInv, Stages
      <4> QED
        BY <1>2, <3>1, <4>1 DEF Stages, Persisting, Running, AfterFinish
    <3>2. CASE /\ manager = "wait" /\ persistor = "finished"
               /\ manager' = "stopped" /\ closed' = closed
      BY <1>2, <3>2 DEF SInv, Stages, Persisting, Running, AfterFinish
    <3> QED
      BY <2>2, <3>1, <3>2, Zenon DEF OnShutdown
  <2>3. CASE Shutdown
    <3>1. manager' = manager /\ closed' = closed
      BY <2>3, Zenon DEF Shutdown, channelVars
    <3> QED
      BY <1>2, <3>1, Zenon DEF SInv, Stages, Persisting, Running, AfterFinish
  <2> QED
    BY <2>1, <2>2, <2>3
<1>5. HistoryOK' /\ FileOK' /\ StreamOK'
  BY <1>2, <1>4, NothingWritten DEF SInv
<1> QED
  BY <1>1, <1>3, <1>4, <1>5 DEF SInv

LEMMA OnPublishKeepsSInv ==
  ASSUME SInv, OnPublish
  PROVE  SInv'
<1>1. PInv' /\ Course'
  BY ManagerKeepsPInv, OnPublishKeepsCourse DEF SInv, ManagerStep
<1>2. /\ handled' = Append(handled, onPublish)
      /\ publishedEvents' = Append(publishedEvents, onPublish)
      /\ UNCHANGED <<before, base, file, out, broken, durable, persistor, closed>>
  BY Zenon DEF OnPublish, writerVars, startVars
<1>3. Pending /\ (manager' = "select" \/ manager' = "OnShutdown")
  BY Zenon DEF OnPublish, Pending
<1>4. ~closed /\ Running
  <2>1. manager \notin {"wait", "stopped", "crashed"} /\ Running
    BY <1>3, Zenon DEF Pending, Running
  <2> QED
    BY <2>1, Zenon DEF SInv, Stages
<1>5. onPublish \in Stamped
  BY <1>3, Zenon DEF SInv, PInv, ManagerOK, Pending
<1>6. Stages' /\ ~AfterFinish' /\ (Persisting' => Persisting)
  BY <1>2, <1>3, <1>4 DEF SInv, Stages, AfterFinish, Persisting
<1>7. /\ HistoryOK'
      /\ \A b : Holds(b, handled, before, base, publishedEvents) =>
                  Holds(b, handled', before, base, publishedEvents')
      /\ \A b : Reaches(b, handled, before, base) => Reaches(b, handled', before, base)
  <2>1. History(handled, before, base, publishedEvents)
    BY DEF SInv, HistoryOK
  <2>2. /\ History(handled', before, base, publishedEvents')
        /\ \A b : Holds(b, handled, before, base, publishedEvents) =>
                    Holds(b, handled', before, base, publishedEvents')
        /\ \A b : Reaches(b, handled, before, base) => Reaches(b, handled', before, base)
    BY <1>2, <1>5, <2>1, OneMoreHandled
  <2> QED
    BY <1>2, <2>2 DEF HistoryOK
<1>8. FileOK'
  BY <1>2, <1>7 DEF SInv, FileOK
<1>9. StreamOK'
  <2>1. Persisting' /\ ~broken' => InBuffer
    BY <1>2, <1>6 DEF SInv, StreamOK
  <2>2. InBuffer => InBuffer'
    BY <1>2, <1>7 DEF InBuffer
  <2> QED
    BY <1>6, <2>1, <2>2 DEF StreamOK
<1> QED
  BY <1>1, <1>6, <1>7, <1>8, <1>9 DEF SInv

-----------------------------------------------------------------------------
(* The writer's steps, for the stream of bytes that was written already or *)
(* is about to be.                                                         *)

(* However much of w reaches the file, it can be read back as far, and     *)
(* what could be read back before still can.                               *)
LEMMA WriterAdvances ==
  ASSUME SInv, NEW c, History(handled, before, base, c),
         NEW w, w.disk \in Seq(Byte), w.out \in Seq(Byte),
         Holds(file \o (w.disk \o w.out), handled, before, base, c), ToFile(w)
  PROVE  /\ file' \in Seq(Byte)
         /\ Reaches(file', handled, before, base)
         /\ ToSet(EventsOn(file)) \subseteq ToSet(EventsOn(file'))
         /\ broken' = FALSE => /\ Holds(file' \o out', handled, before, base, c)
                               /\ out' = w.out
<1> DEFINE stream == file \o (w.disk \o w.out)
<1>1. file \in Seq(Byte)
  BY BytesOfTheWriter
<1>2. /\ file' \in Seq(Byte) /\ out' \in Seq(Byte)
      /\ Begins(file', stream) /\ Begins(file, file')
      /\ broken' = FALSE => file' \o out' = stream /\ out' = w.out
  BY <1>1, ToFileWrites
<1> HIDE DEF stream
<1>3. Holds(stream, handled, before, base, c)
  BY DEF stream
<1>4. Reaches(stream, handled, before, base)
  BY <1>3, HoldsReaches
<1>5. Reaches(file', handled, before, base)
  BY <1>2, <1>4, BeginningReaches
<1>6. Begins(EventsOn(file), EventsOn(file'))
  BY <1>1, <1>2, <1>5, BeginningReaches
<1>7. EventsOn(file') \in Seq(Stamped) /\ EventsOn(file) \in Seq(Stamped)
  BY <1>2, <1>5, EventsOnType, BytesOfTheWriter DEF Reaches
<1>8. ToSet(EventsOn(file)) \subseteq ToSet(EventsOn(file'))
  BY <1>6, <1>7, BeginningIsContained
<1> QED
  BY <1>2, <1>3, <1>5, <1>8

(* When all of it was flushed, the file holds what NoteDurable notes.      *)
LEMMA DurableIsRecoverable ==
  ASSUME SInv, NEW c, History(handled, before, base, c),
         NEW w, w.disk \in Seq(Byte), w.out = <<>>,
         Holds(file \o (w.disk \o w.out), handled, before, base, c), ToFile(w),
         broken' \in BOOLEAN, NoteDurable(c)
  PROVE  /\ ToSet(durable') \subseteq ToSet(EventsOn(file'))
         /\ broken' = FALSE => Holds(file', handled, before, base, c) /\ out' = <<>>
<1>1. w.out \in Seq(Byte)
  BY EmptyFits
<1>2. /\ file' \in Seq(Byte)
      /\ ToSet(EventsOn(file)) \subseteq ToSet(EventsOn(file'))
      /\ broken' = FALSE => /\ Holds(file' \o out', handled, before, base, c)
                            /\ out' = w.out
  BY <1>1, WriterAdvances
<1>3. file' \o <<>> = file'
  BY <1>2, ConcatEmptySeq
<1>4. broken' = FALSE => Holds(file', handled, before, base, c) /\ out' = <<>>
  BY <1>2, <1>3
<1>5. CASE broken' = TRUE
  <2>1. durable' = durable
    BY <1>5 DEF NoteDurable
  <2>2. ToSet(durable) \subseteq ToSet(EventsOn(file))
    BY DEF SInv, FileOK
  <2> QED
    BY <1>2, <1>5, <2>1, <2>2
<1>6. CASE broken' = FALSE
  <2>1. durable' = base \o MarshalledOf(TakenOf(handled, before, c))
    BY <1>6 DEF NoteDurable, TakenBy, TakenOf
  <2>2. EventsOn(file') = durable'
    BY <1>4, <1>6, <2>1 DEF Holds
  <2> QED
    BY <1>4, <2>2
<1> QED
  BY <1>5, <1>6

(* The line of the next event goes on where the buffer ends.               *)
LEMMA NextLine ==
  ASSUME SInv, InBuffer, publishedEvents # <<>>, Marshalled(Head(publishedEvents))
  PROVE  LET w == WriteLine(out, Head(publishedEvents))
         IN  /\ w.disk \in Seq(Byte) /\ w.out \in Seq(Byte)
             /\ Holds(file \o (w.disk \o w.out), handled, before, base,
                      Tail(publishedEvents))
<1> DEFINE e == Head(publishedEvents)
           w == WriteLine(out, e)
           t == Tail(publishedEvents)
<1>1. file \in Seq(Byte) /\ out \in Seq(Byte)
  BY BytesOfTheWriter
<1>2. History(handled, before, base, publishedEvents)
  BY DEF SInv, HistoryOK
<1>3. /\ e \in Stamped
      /\ Holds(((file \o out) \o <<NL>>) \o Json(e), handled, before, base, t)
  BY <1>2, NextTaken DEF InBuffer
<1>4. /\ w.disk \in Seq(Byte) /\ w.out \in Seq(Byte)
      /\ w.disk \o w.out = (out \o <<NL>>) \o Json(e)
  BY <1>1, <1>3, WriteLineKeepsAll
<1> HIDE DEF e, w, t
<1>5. PICK n, j : n = <<NL>> /\ j = Json(e)
  OBVIOUS
<1>6. n \in Seq(Byte) /\ j \in Seq(Byte)
  BY <1>3, <1>5, NewlineIsBytes, JsonIsBytes
<1>7. /\ (file \o out) \o n = file \o (out \o n)
      /\ (file \o (out \o n)) \o j = file \o ((out \o n) \o j)
  <2>1. out \o n \in Seq(Byte)
    BY <1>1, <1>6, ConcatProperties
  <2>2. file \o (out \o n) = (file \o out) \o n
    BY <1>1, <1>6, ConcatAssociative
  <2>3. file \o ((out \o n) \o j) = (file \o (out \o n)) \o j
    BY <1>1, <1>6, <2>1, ConcatAssociative
  <2> QED
    BY <2>2, <2>3
<1>8. file \o (w.disk \o w.out) = ((file \o out) \o <<NL>>) \o Json(e)
  BY <1>4, <1>5, <1>7
<1> QED
  BY <1>3, <1>4, <1>8 DEF e, w, t

(* Nothing is on the way to OnPublish in a step of the writer.             *)
LEMMA WriterKeepsCourse ==
  ASSUME Course, UNCHANGED <<publishVars, managerVars, handled>>
  PROVE  Course'
<1>1. UNCHANGED <<handled, Events, onPublish, stamped, publishing>> /\ manager' = manager
  BY DEF publishVars, managerVars
<1>2. Pending' => Pending
  BY <1>1, Zenon DEF Pending
<1> QED
  BY <1>1, <1>2, CourseUnchanged

LEMMA WriteEventKeepsSInv ==
  ASSUME SInv, WriteEvent
  PROVE  SInv'
<1> DEFINE e == Head(publishedEvents)
           t == Tail(publishedEvents)
           line == WriteLine(out, e)
<1>1. PInv' /\ broken' \in BOOLEAN
  BY WriteEventKeepsPInv DEF SInv, PInv, WriterOK
<1>2. Course'
  BY WriterKeepsCourse DEF SInv, WriteEvent
<1>3. /\ Persisting /\ publishedEvents # <<>> /\ publishedEvents' = t
      /\ manager' = manager /\ closed' = closed /\ persistor' = persistor
      /\ before' = before /\ base' = base /\ handled' = handled
  BY Zenon DEF WriteEvent, managerVars, startVars
<1>4. Stages' /\ ~AfterFinish'
  BY <1>3, Zenon DEF SInv, Stages, AfterFinish, Persisting
<1>5. History(handled, before, base, publishedEvents)
  BY DEF SInv, HistoryOK
<1>6. /\ History(handled, before, base, t)
      /\ \A b : Holds(b, handled, before, base, publishedEvents) /\ ~Marshalled(e)
             => Holds(b, handled, before, base, t)
  BY <1>3, <1>5, NextTaken
<1>7. HistoryOK'
  BY <1>3, <1>6 DEF HistoryOK
<1>8. CASE broken \/ ~Marshalled(e)
  <2>1. UNCHANGED <<out, broken, file, durable>>
    BY <1>8, Zenon DEF WriteEvent
  <2>2. FileOK'
    BY <1>3, <2>1 DEF SInv, FileOK
  <2>3. ASSUME ~broken' PROVE InBuffer'
    <3>1. ~broken /\ ~Marshalled(e)
      BY <1>8, <2>1, <2>3
    <3>2. Holds(file \o out, handled, before, base, t)
      BY <1>3, <1>6, <3>1 DEF SInv, StreamOK, InBuffer
    <3> QED
      BY <1>3, <2>1, <3>2 DEF InBuffer
  <2>4. StreamOK'
    BY <1>4, <2>3 DEF StreamOK
  <2> QED
    BY <1>1, <1>2, <1>4, <1>7, <2>2, <2>4 DEF SInv
<1>9. CASE ~broken /\ Marshalled(e)
  <2>1. \/ ToFile(Flushed(line)) /\ NoteDurable(t)
        \/ ToFile(line) /\ durable' = durable
    BY <1>9, Zenon DEF WriteEvent
  <2>2. /\ line.disk \in Seq(Byte) /\ line.out \in Seq(Byte)
        /\ Holds(file \o (line.disk \o line.out), handled, before, base, t)
    BY <1>3, <1>9, NextLine DEF SInv, StreamOK
  <2> HIDE DEF line, t
  <2>3. CASE ToFile(line) /\ durable' = durable
    <3>1. /\ Reaches(file', handled, before, base)
          /\ ToSet(EventsOn(file)) \subseteq ToSet(EventsOn(file'))
          /\ broken' = FALSE => Holds(file' \o out', handled, before, base, t)
      BY <1>6, <2>2, <2>3, WriterAdvances
    <3>2. ToSet(durable) \subseteq ToSet(EventsOn(file))
      BY DEF SInv, FileOK
    <3>3. ToSet(durable') \subseteq ToSet(EventsOn(file'))
      BY <2>3, <3>1, <3>2
    <3> QED
      BY <1>1, <1>2, <1>3, <1>4, <1>7, <3>1, <3>3
         DEF SInv, FileOK, StreamOK, InBuffer
  <2>4. CASE ToFile(Flushed(line)) /\ NoteDurable(t)
    <3> DEFINE w == Flushed(line)
    <3>1. /\ w.disk \in Seq(Byte) /\ w.out = <<>> /\ w.out \in Seq(Byte)
          /\ w.disk \o w.out = line.disk \o line.out
      BY <2>2, FlushedKeepsAll
    <3> HIDE DEF w
    <3>2. Holds(file \o (w.disk \o w.out), handled, before, base, t)
      BY <2>2, <3>1
    <3>3. /\ Reaches(file', handled, before, base)
          /\ broken' = FALSE => Holds(file' \o out', handled, before, base, t)
      BY <1>6, <2>4, <3>1, <3>2, WriterAdvances DEF w
    <3>4. ToSet(durable') \subseteq ToSet(EventsOn(file'))
      BY <1>1, <1>6, <2>4, <3>1, <3>2, DurableIsRecoverable DEF w
    <3> QED
      BY <1>1, <1>2, <1>3, <1>4, <1>7, <3>3, <3>4
         DEF SInv, FileOK, StreamOK, InBuffer
  <2> QED
    BY <2>1, <2>3, <2>4
<1> QED
  BY <1>8, <1>9

(* A flush of the buffer, by the timer or at the end.                      *)
LEMMA BufferFlushed ==
  ASSUME SInv, InBuffer, ToFile(Flushed([disk |-> <<>>, out |-> out])),
         NoteDurable(publishedEvents), broken' \in BOOLEAN
  PROVE  /\ Reaches(file', handled, before, base)
         /\ ToSet(durable') \subseteq ToSet(EventsOn(file'))
         /\ broken' = FALSE =>
              /\ Holds(file' \o out', handled, before, base, publishedEvents)
              /\ Holds(file', handled, before, base, publishedEvents)
<1> DEFINE v == [disk |-> <<>>, out |-> out]
           w == Flushed(v)
<1>1. out \in Seq(Byte) /\ <<>> \in Seq(Byte)
  BY BytesOfTheWriter, EmptyFits
<1>2. v.disk \in Seq(Byte) /\ v.out \in Seq(Byte) /\ v.disk \o v.out = out
  <2>1. v.disk = <<>> /\ v.out = out
    OBVIOUS
  <2>2. <<>> \o out = out
    BY <1>1, ConcatEmptySeq
  <2> QED
    BY <1>1, <2>1, <2>2
<1> HIDE DEF v
<1>3. /\ w.disk \in Seq(Byte) /\ w.out = <<>> /\ w.out \in Seq(Byte)
      /\ w.disk \o w.out = out
  BY <1>2, FlushedKeepsAll
<1>4. ToFile(w)
  BY DEF v
<1> HIDE DEF w
<1>5. Holds(file \o (w.disk \o w.out), handled, before, base, publishedEvents)
  BY <1>3 DEF InBuffer
<1>6. History(handled, before, base, publishedEvents)
  BY DEF SInv, HistoryOK
<1>7. /\ Reaches(file', handled, before, base)
      /\ broken' = FALSE => Holds(file' \o out', handled, before, base, publishedEvents)
  BY <1>3, <1>4, <1>5, <1>6, WriterAdvances
<1>8. /\ ToSet(durable') \subseteq ToSet(EventsOn(file'))
      /\ broken' = FALSE => Holds(file', handled, before, base, publishedEvents)
  BY <1>3, <1>4, <1>5, <1>6, DurableIsRecoverable
<1> QED
  BY <1>7, <1>8

LEMMA NothingQueued ==
  ASSUME ChannelOK, Queued = 0
  PROVE  publishedEvents = <<>>
<1>1. publishedEvents \in Seq(Stamped) /\ Len(publishedEvents) \in Nat
  BY LenProperties DEF ChannelOK
<1>2. Len(publishedEvents) = 0
  BY <1>1 DEF Queued, ChannelOK
<1> QED
  BY <1>1, <1>2, EmptySeq

LEMMA FlushKeepsSInv ==
  ASSUME SInv, FlushOnTimer \/ Finish
  PROVE  SInv'
<1>1. PInv' /\ broken' \in BOOLEAN
  BY FlushKeepsPInv DEF SInv, PInv, WriterOK
<1>2. Course'
  BY WriterKeepsCourse DEF SInv, FlushOnTimer, Finish
<1>3. /\ Persisting /\ manager' = manager /\ closed' = closed
      /\ publishedEvents' = publishedEvents
      /\ before' = before /\ base' = base /\ handled' = handled
      /\ \/ persistor' = persistor
         \/ persistor' = "finished" /\ closed /\ publishedEvents = <<>>
  <2>1. Queued = 0 => publishedEvents = <<>>
    BY NothingQueued DEF SInv, PInv
  <2> QED
    BY <2>1, Zenon DEF FlushOnTimer, Finish, managerVars, channelVars, startVars
<1>4. Stages'
  BY <1>3, Zenon DEF SInv, Stages
<1>5. HistoryOK'
  BY <1>3 DEF SInv, HistoryOK
<1>6. persistor' = persistor => ~AfterFinish'
  BY <1>3 DEF Persisting, AfterFinish
<1>7. CASE UNCHANGED <<out, broken, file, durable>> /\ (broken \/ persistor' = persistor)
  <2>1. FileOK'
    BY <1>3, <1>7 DEF SInv, FileOK
  <2>2. ASSUME ~broken' PROVE InBuffer' /\ ~AfterFinish'
    <3>1. ~broken /\ ~AfterFinish'
      BY <1>6, <1>7, <2>2
    <3>2. InBuffer
      BY <1>3, <3>1 DEF SInv, StreamOK
    <3> QED
      BY <1>3, <1>7, <3>1, <3>2 DEF InBuffer
  <2>3. StreamOK'
    BY <2>2 DEF StreamOK
  <2> QED
    BY <1>1, <1>2, <1>4, <1>5, <2>1, <2>3 DEF SInv
<1>8. CASE /\ ~broken
           /\ ToFile(Flushed([disk |-> <<>>, out |-> out]))
           /\ NoteDurable(publishedEvents)
  <2>1. InBuffer
    BY <1>3, <1>8 DEF SInv, StreamOK
  <2>2. /\ Reaches(file', handled, before, base)
        /\ ToSet(durable') \subseteq ToSet(EventsOn(file'))
        /\ broken' = FALSE =>
             /\ Holds(file' \o out', handled, before, base, publishedEvents)
             /\ Holds(file', handled, before, base, publishedEvents)
    BY <1>1, <1>8, <2>1, BufferFlushed
  <2>3. FileOK'
    BY <1>3, <2>2 DEF FileOK
  <2>4. AfterFinish' => publishedEvents = <<>>
    BY <1>3, <1>6
  <2>5. StreamOK'
    BY <1>1, <1>3, <2>2, <2>4 DEF StreamOK, InBuffer, InFile
  <2> QED
    BY <1>1, <1>2, <1>4, <1>5, <2>3, <2>5 DEF SInv
<1>9. Finish => publishedEvents = <<>>
  BY NothingQueued DEF SInv, PInv, Finish
<1> QED
  <2>1. CASE FlushOnTimer
    BY <1>7, <1>8, <2>1, Zenon DEF FlushOnTimer
  <2>2. CASE Finish
    BY <1>7, <1>8, <1>9, <2>2, Zenon DEF Finish
  <2> QED
    BY <2>1, <2>2

(* Timers, and events without a JSON form.                                 *)
LEMMA IdleKeepsSInv ==
  ASSUME SInv, Idle
  PROVE  SInv'
<1>1. PInv'
  BY IdleKeepsPInv DEF SInv
<1>2. Course'
  BY IdleChangesTimers, WriterKeepsCourse DEF SInv
<1>3. /\ UNCHANGED <<handled, before, base, publishedEvents, file, out, broken, durable>>
      /\ manager' = manager /\ persistor' = persistor /\ closed' = closed
  BY IdleChangesTimers, Zenon DEF managerVars, startVars
<1>4. Persisting' = Persisting /\ AfterFinish' = AfterFinish
  BY <1>3, Zenon DEF Persisting, Running, AfterFinish
<1>5. HistoryOK' /\ FileOK' /\ StreamOK'
  BY <1>3, <1>4, NothingWritten DEF SInv
<1>6. Stages'
  BY <1>3, Zenon DEF SInv, Stages
<1> QED
  BY <1>1, <1>2, <1>5, <1>6 DEF SInv

-----------------------------------------------------------------------------
(* Crashes and starts.                                                     *)

(* What the goroutine is writing is a beginning of what it has to write.   *)
LEMMA UnderWayIsNext ==
  ASSUME SInv, NEW bytes \in UnderWay
  PROVE  \E rest \in Seq(Byte) : \E c :
           /\ bytes \in Seq(Byte)
           /\ History(handled, before, base, c)
           /\ Holds(file \o (bytes \o rest), handled, before, base, c)
<1>1. Persisting /\ ~broken
  BY Zenon DEF UnderWay
<1>2. InBuffer
  BY <1>1 DEF SInv, StreamOK
<1>3. History(handled, before, base, publishedEvents)
  BY DEF SInv, HistoryOK
<1>4. out \in Seq(Byte) /\ <<>> \in Seq(Byte) /\ publishedEvents \in Seq(Stamped)
  BY BytesOfTheWriter, EmptyFits
<1>5. CASE bytes = out
  <2>1. bytes \o <<>> = out
    BY <1>4, <1>5, ConcatEmptySeq
  <2>2. Holds(file \o (bytes \o <<>>), handled, before, base, publishedEvents)
    BY <1>2, <2>1 DEF InBuffer
  <2> QED
    BY <1>3, <1>4, <1>5, <2>2
<1>6. CASE bytes # out
  <2>1. PICK e \in {publishedEvents[i] : i \in {1} \cap DOMAIN publishedEvents}
                   \cap {d \in 1 .. MaxEvents : Marshalled(d)} :
          bytes = IF due THEN Flushed(WriteLine(out, e)).disk ELSE WriteLine(out, e).disk
    BY <1>1, <1>6, Zenon DEF UnderWay
  <2>2. Marshalled(e) /\ 1 \in DOMAIN publishedEvents /\ e = publishedEvents[1]
    BY <2>1
  <2>3. publishedEvents # <<>> /\ e = Head(publishedEvents)
    BY <1>4, <2>2
  <2> DEFINE w == WriteLine(out, e)
             t == Tail(publishedEvents)
  <2>4. /\ w.disk \in Seq(Byte) /\ w.out \in Seq(Byte)
        /\ Holds(file \o (w.disk \o w.out), handled, before, base, t)
    BY <1>2, <2>2, <2>3, NextLine
  <2>5. History(handled, before, base, t)
    BY <1>3, <2>3, NextTaken
  <2> HIDE DEF w, t
  <2>6. CASE bytes = w.disk
    BY <2>4, <2>5, <2>6
  <2>7. CASE bytes = Flushed(w).disk
    <3>1. /\ Flushed(w).disk \in Seq(Byte)
          /\ Flushed(w).disk = w.disk \o w.out
      BY <2>4, FlushedKeepsAll
    <3>2. bytes \in Seq(Byte) /\ bytes = w.disk \o w.out
      BY <2>7, <3>1
    <3>3. bytes \o <<>> = bytes
      BY <3>2, ConcatEmptySeq
    <3>4. Holds(file \o (bytes \o <<>>), handled, before, base, t)
      BY <2>4, <3>2, <3>3
    <3> QED
      BY <1>4, <2>5, <3>2, <3>4
  <2> QED
    BY <2>1, <2>6, <2>7 DEF w
<1> QED
  BY <1>5, <1>6

LEMMA CrashKeepsSInv ==
  ASSUME SInv, Crash
  PROVE  SInv'
<1>1. PInv'
  BY CrashKeepsPInv DEF SInv
<1>2. /\ UNCHANGED <<handled, Events, onPublish, stamped, publishing>>
      /\ UNCHANGED <<publishedEvents, before, base, durable, persistor, closed>>
      /\ manager' = "crashed"
  BY Zenon DEF Crash, publishVars, channelVars, writerVars, startVars
<1>3. Course'
  <2>1. ~Pending'
    BY <1>2, Zenon DEF Pending
  <2> QED
    BY <1>2, <2>1, CourseUnchanged DEF SInv
<1>4. Stages'
  BY <1>2, Zenon DEF SInv, Stages
<1>5. HistoryOK'
  BY <1>2 DEF SInv, HistoryOK
<1>6. StreamOK'
  BY <1>2 DEF StreamOK, Persisting, Running, AfterFinish
<1>7. Reaches(file', handled, before, base) /\ ToSet(durable) \subseteq ToSet(EventsOn(file'))
  <2>1. /\ file \in Seq(Byte) /\ EventsOn(file) \in Seq(Stamped)
        /\ History(handled, before, base, publishedEvents)
    BY BytesOfTheWriter DEF SInv, HistoryOK
  <2>2. /\ Reaches(file, handled, before, base)
        /\ ToSet(durable) \subseteq ToSet(EventsOn(file))
    BY DEF SInv, FileOK
  <2>3. PICK bytes \in {<<>>} \cup UnderWay :
          \E n \in 0 .. Len(bytes) : file' = file \o SubSeq(bytes, 1, n)
    BY Zenon DEF Crash
  <2>4. PICK n \in 0 .. Len(bytes) : file' = file \o SubSeq(bytes, 1, n)
    BY <2>3
  <2>5. CASE bytes \in UnderWay
    <3>1. PICK rest \in Seq(Byte) : \E c :
            /\ bytes \in Seq(Byte)
            /\ History(handled, before, base, c)
            /\ Holds(file \o (bytes \o rest), handled, before, base, c)
      BY <2>5, UnderWayIsNext
    <3>2. PICK c : /\ bytes \in Seq(Byte)
                   /\ History(handled, before, base, c)
                   /\ Holds(file \o (bytes \o rest), handled, before, base, c)
      BY <3>1
    <3> DEFINE part == SubSeq(bytes, 1, n)
               all == bytes \o rest
               stream == file \o all
    <3>3. part \in Seq(Byte) /\ Begins(part, bytes)
      BY <3>2, FirstBytes
    <3>4. Begins(bytes, all) /\ all \in Seq(Byte) /\ bytes \in Seq(Byte)
      BY <3>2, BeginsConcat, ConcatProperties
    <3>5. file' = file \o part /\ Holds(stream, handled, before, base, c)
      BY <2>4, <3>2
    <3> HIDE DEF part, all
    <3>6. Begins(part, all)
      BY <3>3, <3>4, BeginsTransitive
    <3>7. file' \in Seq(Byte) /\ Begins(file', stream)
      BY <2>1, <3>3, <3>4, <3>5, <3>6, BeginsAfter, ConcatProperties
    <3>8. Begins(file, file')
      BY <2>1, <3>3, <3>5, BeginsConcat
    <3> HIDE DEF stream
    <3>9. Reaches(stream, handled, before, base)
      BY <3>2, <3>5, HoldsReaches
    <3>10. Reaches(file', handled, before, base)
      BY <3>2, <3>7, <3>9, BeginningReaches
    <3>11. Begins(EventsOn(file), EventsOn(file')) /\ EventsOn(file') \in Seq(Stamped)
      BY <2>1, <3>2, <3>7, <3>8, <3>10, BeginningReaches, EventsOnType DEF Reaches
    <3>12. ToSet(EventsOn(file)) \subseteq ToSet(EventsOn(file'))
      BY <2>1, <3>11, BeginningIsContained
    <3> QED
      BY <2>2, <3>10, <3>12
  <2>6. CASE bytes = <<>>
    <3>1. Len(bytes) = 0 /\ n = 0
      BY <2>6
    <3>2. SubSeq(bytes, 1, n) = <<>>
      BY <3>1, SubSeqEmpty
    <3>3. file' = file
      BY <2>1, <2>4, <3>2, ConcatEmptySeq
    <3> QED
      BY <2>2, <3>3
  <2> QED
    BY <2>3, <2>5, <2>6
<1>8. FileOK'
  BY <1>2, <1>7 DEF FileOK
<1> QED
  BY <1>1, <1>3, <1>4, <1>5, <1>6, <1>8 DEF SInv

LEMMA StartLongpollKeepsSInv ==
  ASSUME SInv, StartLongpoll
  PROVE  SInv'
<1>1. PInv'
  BY StartLongpollKeepsPInv DEF SInv
<1>2. Course'
  BY StartLongpollKeepsCourse DEF SInv
<1>3. /\ handled' = handled /\ file' = file /\ durable' = durable
      /\ publishedEvents' = <<>> /\ closed' = FALSE /\ out' = <<>>
      /\ before' = Len(handled) /\ base' = EventsOn(file)
      /\ manager' = "select" \/ manager' = "panicked"
      /\ persistor' \in {"select", "failed"}
  BY Zenon DEF StartLongpoll, OnLongpollStart
<1>4. Stages' /\ ~AfterFinish'
  BY <1>3 DEF Stages, AfterFinish
<1> DEFINE e == EventsOn(file)
           k == Len(handled)
<1>5. /\ History(handled, k, e, <<>>)
      /\ Holds(file, handled, k, e, <<>>)
      /\ Reaches(file, handled, k, e)
  <2>1. History(handled, before, base, publishedEvents) /\ Reaches(file, handled, before, base)
    BY DEF SInv, HistoryOK, FileOK
  <2> QED
    BY <2>1, RunBegins
<1>6. file \o <<>> = file
  BY BytesOfTheWriter, ConcatEmptySeq
<1> HIDE DEF e, k
<1>7. before' = k /\ base' = e
  BY <1>3 DEF e, k
<1>8. HistoryOK'
  BY <1>3, <1>5, <1>7 DEF HistoryOK
<1>9. FileOK'
  BY <1>3, <1>5, <1>7 DEF SInv, FileOK
<1>10. StreamOK'
  BY <1>3, <1>4, <1>5, <1>6, <1>7 DEF StreamOK, InBuffer
<1> QED
  BY <1>1, <1>2, <1>4, <1>8, <1>9, <1>10 DEF SInv

LEMMA InitEstablishesSInv == PersistorInit => SInv
<1> SUFFICES ASSUME PersistorInit PROVE SInv
  OBVIOUS
<1>1. PInv
  BY InitEstablishesPInv
<1>2. /\ stamped = 0 /\ publishing = [p \in Publishers |-> 0] /\ Events = <<>>
      /\ manager = "down" /\ publishedEvents = <<>> /\ closed = FALSE
      /\ persistor = "failed" /\ file = <<>> /\ out = <<>>
      /\ before = 0 /\ base = <<>> /\ handled = <<>> /\ durable = <<>>
  BY Zenon DEF PersistorInit
<1>3. <<>> \in Seq(Stamped) /\ <<>> \in Seq(Byte) /\ Len(<<>>) = 0 /\ 1 .. 0 = {}
  OBVIOUS
<1>4. Course
  <2>1. ~Pending
    BY <1>2, Zenon DEF Pending
  <2>2. \A p \in Publishers : publishing[p] = 0
    BY <1>2
  <2>3. OnTheWay /\ ToBeSent /\ StampedBefore
    BY <1>2, <1>3, <2>1, <2>2 DEF OnTheWay, ToBeSent, StampedBefore, Ascending, NoneAfter
  <2> QED
    BY <1>2, <1>3, <2>3 DEF Course
<1>5. Stages /\ StreamOK
  BY <1>2 DEF Stages, StreamOK, Persisting, Running, AfterFinish
<1>6. HistoryOK
  BY <1>2, <1>3 DEF HistoryOK, History
<1>7. FileOK
  <2>1. LinesInOrder(<<>>, <<>>, Len(<<>>))
    BY EventsOnEmpty DEF LinesInOrder
  <2>2. Wanted(<<>>, 0, <<>>) \in Seq(Stamped) /\ Begins(<<>>, Wanted(<<>>, 0, <<>>))
    <3>1. Wanted(<<>>, 0, <<>>) \in Seq(Stamped)
      BY <1>2, <1>6, TakenAndChannel DEF HistoryOK
    <3> QED
      BY <1>3, <3>1, LenProperties DEF Begins
  <2>3. Reaches(<<>>, <<>>, 0, <<>>)
    BY <1>3, <2>1, <2>2, EventsOnEmpty DEF Reaches
  <2> QED
    BY <1>2, <2>3, EventsOnEmpty DEF FileOK, ToSet
<1> QED
  BY <1>1, <1>4, <1>5, <1>6, <1>7 DEF SInv

LEMMA StutteringKeepsSInv ==
  ASSUME SInv, UNCHANGED persistorVars
  PROVE  SInv'
<1>1. PInv'
  BY StutteringKeepsPInv DEF SInv
<1>2. /\ UNCHANGED <<handled, before, base, publishedEvents, file, out, broken, durable>>
      /\ UNCHANGED <<publishVars, managerVars, handled>>
      /\ manager' = manager /\ persistor' = persistor /\ closed' = closed
  BY DEF persistorVars, managerVars, channelVars, writerVars, startVars
<1>3. Course'
  BY <1>2, WriterKeepsCourse DEF SInv
<1>4. Persisting' = Persisting /\ AfterFinish' = AfterFinish
  BY <1>2, Zenon DEF Persisting, Running, AfterFinish
<1>5. HistoryOK' /\ FileOK' /\ StreamOK'
  BY <1>2, <1>4, NothingWritten DEF SInv
<1>6. Stages'
  BY <1>2, Zenon DEF SInv, Stages
<1> QED
  BY <1>1, <1>3, <1>5, <1>6 DEF SInv

LEMMA StepKeepsSInv == SInv /\ [PersistorNext]_persistorVars => SInv'
<1> SUFFICES ASSUME SInv, [PersistorNext]_persistorVars PROVE SInv'
  OBVIOUS
<1>1. ASSUME NEW p \in Publishers, Stamp(p) \/ Send(p) PROVE SInv'
  BY <1>1, PublisherKeepsSInv
<1>2. CASE TakeEvent \/ TakeQuit \/ OnShutdown \/ Shutdown
  BY <1>2, ManagerKeepsSInv
<1>3. CASE OnPublish
  BY <1>3, OnPublishKeepsSInv
<1>4. CASE WriteEvent
  BY <1>4, WriteEventKeepsSInv
<1>5. CASE FlushOnTimer \/ Finish
  BY <1>5, FlushKeepsSInv
<1>6. CASE Idle
  BY <1>6, IdleKeepsSInv
<1>7. CASE Crash
  BY <1>7, CrashKeepsSInv
<1>8. CASE StartLongpoll
  BY <1>8, StartLongpollKeepsSInv
<1>9. CASE UNCHANGED persistorVars
  BY <1>9, StutteringKeepsSInv
<1> QED
  BY <1>1, <1>2, <1>3, <1>4, <1>5, <1>6, <1>7, <1>8, <1>9
     DEF PersistorNext, ManagerStep, Idle

-----------------------------------------------------------------------------
(* What the invariant says of the file.                                    *)

LEMMA ExpectedIsWanted == Expected = Wanted(handled, before, base)
BY DEF Expected, Wanted

(* The file, read back, is always a prefix of what OnPublish was given     *)
(* (events without a JSON form left out) after what the file held when the *)
(* run began, and while the goroutine works the rest is in its buffer and  *)
(* its channel: for every sequence of sizes, every cut at the buffer's     *)
(* end, every torn write and any number of crashes and restarts.           *)
THEOREM FileFollows == PersistorSpec => []FileFollowsHandled
<1>1. SInv => FileFollowsHandled
  <2> SUFFICES ASSUME SInv PROVE FileFollowsHandled
    OBVIOUS
  <2>1. History(handled, before, base, publishedEvents)
    BY DEF SInv, HistoryOK
  <2>2. /\ Wanted(handled, before, base) \in Seq(Stamped)
        /\ Wanted(handled, before, base) =
             (base \o MarshalledOf(TakenOf(handled, before, publishedEvents)))
               \o MarshalledOf(publishedEvents)
    BY <2>1, TakenAndChannel
  <2>3. IsPrefix(Stored, Expected)
    <3>1. Begins(EventsOn(file), Wanted(handled, before, base))
      BY DEF SInv, FileOK, Reaches
    <3> QED
      BY <2>2, <3>1, BytesOfTheWriter, BeginsPrefix, ExpectedIsWanted DEF Stored
  <2>4. Persisting /\ ~broken =>
          EventsOn(file \o out) \o MarshalledOf(publishedEvents) = Expected
    BY <2>2, ExpectedIsWanted DEF SInv, StreamOK, InBuffer, Holds
  <2> QED
    BY <2>3, <2>4 DEF FileFollowsHandled
<1> QED
  BY <1>1, InitEstablishesSInv, StepKeepsSInv, PTL DEF PersistorSpec

(* When OnShutdown has returned and no write has failed, the file holds    *)
(* every event OnPublish was given that has a JSON form: the goroutine     *)
(* empties its channel and flushes before it signals shutdownDone.         *)
THEOREM ShutdownKeepsAll == PersistorSpec => []ShutdownPersists
<1>1. SInv => ShutdownPersists
  <2> SUFFICES ASSUME SInv, manager = "stopped", ~broken PROVE Stored = Expected
    BY DEF ShutdownPersists
  <2>1. AfterFinish
    BY DEF SInv, Stages, AfterFinish
  <2>2. publishedEvents = <<>> /\ Holds(file, handled, before, base, <<>>)
    BY <2>1 DEF SInv, StreamOK, InFile
  <2>3. History(handled, before, base, <<>>)
    BY <2>2 DEF SInv, HistoryOK
  <2> DEFINE taken == base \o MarshalledOf(TakenOf(handled, before, <<>>))
  <2>4. /\ taken \in Seq(Stamped)
        /\ Wanted(handled, before, base) = taken \o MarshalledOf(<<>>)
    BY <2>3, TakenAndChannel
  <2>5. EventsOn(file) = taken
    BY <2>2 DEF Holds
  <2> HIDE DEF taken
  <2>6. Wanted(handled, before, base) = taken
    BY <2>4, MarshalledEmpty, ConcatEmptySeq
  <2> QED
    BY <2>5, <2>6, ExpectedIsWanted DEF Stored
<1> QED
  BY <1>1, InitEstablishesSInv, StepKeepsSInv, PTL DEF PersistorSpec

-----------------------------------------------------------------------------
(* What StartLongpoll is given after a crash or a shutdown.                *)

LEMMA HandledOnce ==
  ASSUME SInv, NEW a \in 1 .. Len(handled)
  PROVE  handled[a] \in Stamped /\ HandledAt(handled[a]) = a
<1>1. handled \in Seq(Stamped) /\ Ascending(handled)
  BY DEF SInv, Course, OnTheWay
<1>2. DOMAIN handled = 1 .. Len(handled) /\ Len(handled) \in Nat /\ handled[a] \in Stamped
  BY <1>1
<1>3. \A i \in DOMAIN handled : handled[i] = handled[a] => i = a
  <2> SUFFICES ASSUME NEW i \in 1 .. Len(handled), handled[i] = handled[a] PROVE i = a
    BY <1>2
  <2>1. ~(i < a) /\ ~(a < i)
    BY <1>1 DEF Ascending, Precedes
  <2> QED
    BY <1>2, <2>1
<1>4. HandledAt(handled[a]) = CHOOSE i \in DOMAIN handled : handled[i] = handled[a]
  BY DEF HandledAt
<1> QED
  BY <1>2, <1>3, <1>4

(* What is read up to a line that is too long for the scanner.             *)
LEMMA RecoveredProperties ==
  ASSUME SInv, NEW r, r = getOnStartInputEvents(file)
  PROVE  /\ r \in Seq(Stamped)
         /\ \A e \in ToSet(durable) :
              (\A i \in 1 .. HandledAt(e) : Size[handled[i]] < MaxScanTokenSize)
                => e \in ToSet(r)
         /\ ToSet(r) \subseteq ToSet(handled)
         /\ \A i, j \in DOMAIN r : i < j => HandledAt(r[i]) < HandledAt(r[j])
         /\ \A i, j \in DOMAIN r : i < j => Precedes(r[i], r[j])
<1> DEFINE S == LineStarts(file)
           P == {i \in S : \A j \in S :
                   j <= i => Len(LineAt(file, j)) < MaxScanTokenSize}
           W == WholeLines(file, P)
           V == WholeLines(file, S)
           n == Len(handled)
<1>1. /\ file \in Seq(Byte) /\ WellFormed(file) /\ LinesInOrder(file, handled, n)
      /\ handled \in Seq(Stamped) /\ Ascending(handled)
  BY DEF SInv, FileOK, Reaches, Course, OnTheWay
<1>2. n \in Nat /\ DOMAIN handled = 1 .. n
  BY <1>1
<1>3. r = EventsFrom(file, P)
  BY Zenon DEF getOnStartInputEvents
<1>4. P \in SUBSET S /\ S \in SUBSET S /\ S \in SUBSET Nat
  BY <1>1, LineStartsProperties
<1>5. /\ W \in SUBSET Nat /\ IsFiniteSet(W) /\ Cardinality(W) \in Nat
      /\ r \in Seq(Stamped) /\ Len(r) = Cardinality(W)
      /\ \A k \in 1 .. Cardinality(W) : Nth(W, k) \in W /\ r[k] = file[Nth(W, k)][1]
  BY <1>1, <1>3, <1>4, EventsFromProperties
<1>6. /\ V \in SUBSET Nat /\ Cardinality(V) \in Nat
      /\ EventsOn(file) \in Seq(Stamped) /\ Len(EventsOn(file)) = Cardinality(V)
      /\ \A k \in 1 .. Cardinality(V) :
           Nth(V, k) \in V /\ EventsOn(file)[k] = file[Nth(V, k)][1]
  BY <1>1, <1>4, EventsFromProperties DEF EventsOn
<1>7. DOMAIN r = 1 .. Cardinality(W) /\ DOMAIN EventsOn(file) = 1 .. Cardinality(V)
  BY <1>5, <1>6
<1>8. \A i \in W : i \in P /\ i \in S
  BY <1>4 DEF WholeLines
<1>9. \A i \in V : i \in S /\ IsWhole(LineAt(file, i))
  BY DEF WholeLines
<1>10. \A i \in P : IsWhole(LineAt(file, i)) => i \in W
  BY DEF WholeLines
<1>11. \A k, l \in 1 .. Cardinality(W) : k < l => Nth(W, k) < Nth(W, l)
  BY <1>5, NthProperties
<1>12. \A i \in W : \E k \in 1 .. Cardinality(W) : Nth(W, k) = i
  BY <1>5, NthProperties
<1>13. \A i \in S : i \in P <=> \A j \in S :
                   j <= i => Len(LineAt(file, j)) < MaxScanTokenSize
  OBVIOUS
<1>14. /\ \A i \in S : \E a \in 1 .. n : handled[a] = file[i][1]
       /\ \A i, j \in S : i < j =>
            \E a, c \in 1 .. n : a < c /\ handled[a] = file[i][1] /\ handled[c] = file[j][1]
  BY <1>1 DEF LinesInOrder
<1> HIDE DEF P, W, V, S, n
<1>15. ToSet(r) \subseteq ToSet(handled)
  <2> SUFFICES ASSUME NEW k \in 1 .. Cardinality(W) PROVE r[k] \in ToSet(handled)
    BY <1>7 DEF ToSet
  <2>1. PICK a \in 1 .. n : handled[a] = r[k]
    BY <1>5, <1>8, <1>14
  <2> QED
    BY <1>2, <2>1 DEF ToSet
<1>16. ASSUME NEW k \in 1 .. Cardinality(W), NEW l \in 1 .. Cardinality(W), k < l
       PROVE  HandledAt(r[k]) < HandledAt(r[l]) /\ Precedes(r[k], r[l])
  <2>1. /\ Nth(W, k) \in S /\ Nth(W, l) \in S /\ Nth(W, k) < Nth(W, l)
        /\ r[k] = file[Nth(W, k)][1] /\ r[l] = file[Nth(W, l)][1]
    BY <1>5, <1>8, <1>11, <1>16
  <2>2. PICK a \in 1 .. n, c \in 1 .. n : a < c /\ handled[a] = r[k] /\ handled[c] = r[l]
    BY <1>14, <2>1
  <2>3. HandledAt(r[k]) = a /\ HandledAt(r[l]) = c
    BY <2>2, HandledOnce DEF n
  <2>4. Precedes(handled[a], handled[c])
    BY <1>1, <2>2 DEF Ascending, n
  <2> QED
    BY <2>2, <2>3, <2>4
<1>17. ASSUME NEW e \in ToSet(durable),
              \A i \in 1 .. HandledAt(e) : Size[handled[i]] < MaxScanTokenSize
       PROVE  e \in ToSet(r)
  <2>1. e \in ToSet(EventsOn(file))
    BY DEF SInv, FileOK
  <2>2. PICK k \in 1 .. Cardinality(V) : EventsOn(file)[k] = e
    BY <1>7, <2>1 DEF ToSet
  <2> DEFINE i == Nth(V, k)
  <2>3. i \in S /\ IsWhole(LineAt(file, i)) /\ file[i][1] = e
    BY <1>6, <1>9, <2>2
  <2> HIDE DEF i
  <2>4. ASSUME NEW j \in S, j <= i PROVE Len(LineAt(file, j)) < MaxScanTokenSize
    <3>1. \E a \in 1 .. HandledAt(e) : handled[a] = file[j][1]
      <4>1. CASE j = i
        <5>1. PICK a \in 1 .. n : handled[a] = e
          BY <1>14, <2>3
        <5>2. HandledAt(e) = a /\ a \in Nat
          BY <1>2, <5>1, HandledOnce DEF n
        <5>3. a \in 1 .. HandledAt(e)
          BY <5>1, <5>2
        <5> QED
          BY <2>3, <4>1, <5>1, <5>3
      <4>2. CASE j # i
        <5>1. j < i
          BY <1>4, <2>3, <2>4, <4>2
        <5>2. PICK a \in 1 .. n, c \in 1 .. n :
                a < c /\ handled[a] = file[j][1] /\ handled[c] = e
          BY <1>14, <2>3, <5>1
        <5>3. HandledAt(e) = c
          BY <5>2, HandledOnce DEF n
        <5>4. a \in 1 .. HandledAt(e)
          BY <1>2, <5>2, <5>3
        <5> QED
          BY <5>2, <5>4
      <4> QED
        BY <4>1, <4>2
    <3>2. Size[file[j][1]] < MaxScanTokenSize
      BY <1>17, <3>1
    <3>3. /\ file[j][1] \in Stamped /\ j \in 1 .. Len(file)
          /\ LineEnd(file, j) \in j .. Len(file)
          /\ LineEnd(file, j) - j + 1 <= Size[file[j][1]]
          /\ Len(LineAt(file, j)) = LineEnd(file, j) - j + 1
      BY <1>1, LineBytes, LineIsWhole DEF S
    <3>4. Size[file[j][1]] \in Nat /\ MaxScanTokenSize \in Nat
      BY <3>3, FilePersistorAssumption DEF Stamped
    <3> QED
      BY <3>2, <3>3, <3>4
  <2>5. i \in W
    BY <1>10, <1>13, <2>3, <2>4
  <2>6. PICK l \in 1 .. Cardinality(W) : Nth(W, l) = i
    BY <1>12, <2>5
  <2>7. r[l] = e
    BY <1>5, <2>3, <2>6
  <2> QED
    BY <1>7, <2>7 DEF ToSet
<1> QED
  BY <1>5, <1>7, <1>15, <1>16, <1>17

LEMMA RecoveredOnStart ==
  ASSUME SInv, StartLongpoll
  PROVE  recovered' = getOnStartInputEvents(file)
BY Zenon DEF StartLongpoll, OnLongpollStart

(* A restart after a crash or a shutdown gets back every event that a      *)
(* flush has covered, unless one too long for the scanner was handled      *)
(* before it, and nothing but events handled before, in their order, each  *)
(* once.                                                                   *)
THEOREM RestartRecoversFlushed == PersistorSpec => RestartRecovers
<1> DEFINE Recovers ==
     starts' # starts =>
       /\ \A e \in ToSet(durable) :
            (\A i \in 1 .. HandledAt(e) : Size[handled[i]] < MaxScanTokenSize)
              => e \in ToSet(recovered')
       /\ ToSet(recovered') \subseteq ToSet(handled)
       /\ \A i, j \in DOMAIN recovered' :
            i < j => HandledAt(recovered'[i]) < HandledAt(recovered'[j])
<1>1. SInv /\ [PersistorNext]_persistorVars => [Recovers]_persistorVars
  <2> SUFFICES ASSUME SInv, [PersistorNext]_persistorVars, starts' # starts
               PROVE  Recovers
    BY DEF Recovers
  <2>1. StartLongpoll
    <3>1. ~UNCHANGED persistorVars
      BY Zenon DEF persistorVars, startVars
    <3>2. \A p \in Publishers : ~Stamp(p) /\ ~Send(p)
      BY Zenon DEF Stamp, Send, startVars
    <3>3. ~ManagerStep /\ ~Shutdown
      BY Zenon DEF ManagerStep, TakeEvent, OnPublish, TakeQuit, OnShutdown, Shutdown, startVars
    <3>4. ~WriteEvent /\ ~FlushOnTimer /\ ~Finish /\ ~Crash
      BY Zenon DEF WriteEvent, FlushOnTimer, Finish, Crash, startVars
    <3>5. ~Idle
      BY IdleChangesTimers, Zenon DEF startVars
    <3> QED
      BY <3>1, <3>2, <3>3, <3>4, <3>5, Zenon DEF PersistorNext, Idle
  <2>2. recovered' = getOnStartInputEvents(file)
    BY <2>1, RecoveredOnStart
  <2> QED
    BY <2>2, RecoveredProperties
<1>2. SInv /\ SInv' /\ [PersistorNext]_persistorVars => [Recovers]_persistorVars
  BY <1>1
<1> QED
  BY <1>2, InitEstablishesSInv, StepKeepsSInv, PTL DEF PersistorSpec, RestartRecovers

(* With one goroutine that publishes, the events read back are in          *)
(* chronological order, and StartLongpoll does not panic, whatever became  *)
(* of the run before.  With two it may: the run that expects a violation.  *)
THEOREM OnePublisherNeverPanics ==
  ASSUME LonePublisher
  PROVE  PersistorSpec => []RestartNeverPanics
<1> DEFINE Calm == SInv /\ RestartNeverPanics
<1>1. PersistorInit => Calm
  BY InitEstablishesSInv DEF PersistorInit, RestartNeverPanics
<1>2. Calm /\ [PersistorNext]_persistorVars => Calm'
  <2> SUFFICES ASSUME SInv, RestartNeverPanics, [PersistorNext]_persistorVars
               PROVE  RestartNeverPanics'
    BY StepKeepsSInv
  <2>1. CASE StartLongpoll
    <3>1. recovered' = getOnStartInputEvents(file)
      BY <2>1, RecoveredOnStart
    <3>2. /\ recovered' \in Seq(Stamped)
          /\ \A i, j \in DOMAIN recovered' : i < j => Precedes(recovered'[i], recovered'[j])
      BY <3>1, RecoveredProperties
    <3>3. InOrder(recovered')
      <4> SUFFICES ASSUME NEW i \in DOMAIN recovered', NEW j \in DOMAIN recovered', i < j
                   PROVE  recovered'[i] <= recovered'[j]
        BY DEF InOrder
      <4>1. recovered'[i] \in Stamped /\ recovered'[j] \in Stamped
        BY <3>2
      <4>2. recovered'[i] < recovered'[j]
        BY <3>2 DEF Precedes
      <4> QED
        BY <4>1, <4>2 DEF Stamped
    <3>4. manager' = "select"
      BY <2>1, <3>3, Zenon DEF StartLongpoll
    <3> QED
      BY <3>4 DEF RestartNeverPanics
  <2>2. CASE ManagerStep
    BY <2>2, Zenon DEF ManagerStep, TakeEvent, OnPublish, TakeQuit, OnShutdown,
                       RestartNeverPanics
  <2>3. CASE UNCHANGED manager
    BY <2>3 DEF RestartNeverPanics
  <2>4. CASE Crash
    BY <2>4, Zenon DEF Crash, RestartNeverPanics
  <2>5. StartLongpoll \/ ManagerStep \/ UNCHANGED manager \/ Crash
    <3>1. \A p \in Publishers : Stamp(p) \/ Send(p) => UNCHANGED manager
      BY Zenon DEF Stamp, Send, managerVars
    <3>2. WriteEvent \/ FlushOnTimer \/ Finish \/ Shutdown => UNCHANGED manager
      BY Zenon DEF WriteEvent, FlushOnTimer, Finish, Shutdown, managerVars
    <3>3. Idle => UNCHANGED manager
      BY IdleChangesTimers, Zenon DEF managerVars
    <3>4. UNCHANGED persistorVars => UNCHANGED manager
      BY Zenon DEF persistorVars, managerVars
    <3> QED
      BY <3>1, <3>2, <3>3, <3>4, Zenon DEF PersistorNext, Idle
  <2> QED
    BY <2>1, <2>2, <2>3, <2>4, <2>5
<1>3. Calm => RestartNeverPanics
  OBVIOUS
<1> QED
  BY <1>1, <1>2, <1>3, PTL DEF PersistorSpec
=============================================================================

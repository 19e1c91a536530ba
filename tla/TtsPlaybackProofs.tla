------------------------- MODULE TtsPlaybackProofs --------------------------
(***************************************************************************)
(* Proofs about TtsPlayback for every depth of the pool and every bound:   *)
(* type correctness, the ownership of the slots, the order in which the    *)
(* frames of the answer are played, the state of the codec under them, and *)
(* how a local sound gives way.                                            *)
(*                                                                         *)
(* The argument: between taking a slot and giving it back the worker has   *)
(* it in hand, and while a session is being ended, or a playback closed    *)
(* past the stop of the codec, it has none, unless crossed says so; hence  *)
(* neither the emptying of the queue nor the closing of the codec meets a  *)
(* frame.                                                                  *)
(***************************************************************************)
EXTENDS TtsPlayback, FiniteSetTheorems, TLAPS

-----------------------------------------------------------------------------
(* The inductive invariant *)

PastStop == {"mode", "rate", "playing"}

\* Where each task is says what it has in hand and whether it closes the playback.
Located ==
    /\ held = NoSlot <=> pc \in {"look", "finish"}
    /\ closing["worker"] # "no" <=> pc = "finish"
    /\ closing["handler"] # "no" <=> handler \in {"finish", "abort"}
    /\ closing["stopper"] # "no" <=> stopper = "abort"

\* The handler closes the playback with nothing waiting, and goes past the stop of the
\* codec with nothing in the worker's hands.
Drained ==
    handler = "finish" =>
        /\ waiting = <<>>
        /\ closing["handler"] \in PastStop => held = NoSlot

\* While a session is being ended the worker has nothing in hand.
HandsOff == ~crossed /\ Ending => held = NoSlot

\* Each slot has one place at most.
Apart ==
    /\ \A i, j \in 1 .. Len(free) : i # j => free[i] # free[j]
    /\ \A i, j \in 1 .. Len(waiting) : i # j => waiting[i] # waiting[j]
    /\ \A i \in 1 .. Len(free), j \in 1 .. Len(waiting) : free[i] # waiting[j]
    /\ \A i \in 1 .. Len(free) : free[i] # held
    /\ \A j \in 1 .. Len(waiting) : waiting[j] # held

\* The frames in q are in the order in which they came, behind the one in hand, which is
\* behind the last one played.
Ordered(q) ==
    /\ \A i, j \in 1 .. Len(q) : i < j => content[q[i]] < content[q[j]]
    /\ \A j \in 1 .. Len(q) : last < content[q[j]]
    /\ held # NoSlot => \A j \in 1 .. Len(q) : content[held] < content[q[j]]

InOrder ==
    /\ last <= received /\ \A s \in Slot : content[s] <= received
    /\ Ordered(waiting)
    /\ held # NoSlot /\ pc # "return" => last < content[held]

\* The codec is at the rate of the cloud while the playback is on, except in the last
\* step of its closing, and is prepared in order.
PathKept ==
    /\ playing => rate = Play \/ \E a \in Closer : closing[a] = "playing"
    /\ pc \in {"rate", "start", "playing", "write"} => mode
    /\ pc \in {"start", "playing", "write"} => rate = Play

\* No local sound writes a second chunk after the cloud has taken the codec.
GivesWay ==
    /\ over <= 1
    /\ cloud /\ over = 1 => sfx # "write"
    /\ sfx = "write" => chunks # 0

Inv ==
    /\ TypeOK /\ Located /\ Drained /\ HandsOff /\ GivesWay
    /\ ~crossed => Apart /\ InOrder
    /\ ~crossed /\ ~overtaken => PathKept

-----------------------------------------------------------------------------
(* Queues of slots *)

\* What is left of a non-empty queue when its head is taken.
LEMMA TailFacts ==
    ASSUME NEW q \in Seq(Slot), q # <<>>
    PROVE  /\ Head(q) \in Slot /\ Head(q) = q[1]
           /\ Tail(q) \in Seq(Slot)
           /\ Len(q) \in Nat \ {0} /\ Len(Tail(q)) = Len(q) - 1
           /\ \A i \in 1 .. Len(Tail(q)) : i + 1 \in 1 .. Len(q) /\ Tail(q)[i] = q[i + 1]
  OBVIOUS

\* What a queue holds when a slot has been put at its end.
LEMMA AppendFacts ==
    ASSUME NEW q \in Seq(Slot), NEW s \in Slot
    PROVE  /\ Append(q, s) \in Seq(Slot)
           /\ Len(q) \in Nat /\ Len(Append(q, s)) = Len(q) + 1
           /\ \A i \in 1 .. Len(Append(q, s)) :
                 Append(q, s)[i] = IF i = Len(q) + 1 THEN s ELSE q[i]
  OBVIOUS

\* What a queue holds is a slot.
LEMMA HoldsSlots ==
    ASSUME NEW q \in Seq(Slot)
    PROVE  Len(q) \in Nat /\ \A i \in 1 .. Len(q) : q[i] \in Slot /\ q[i] # NoSlot
  <1>1. Len(q) \in Nat /\ \A i \in 1 .. Len(q) : q[i] \in Slot
    OBVIOUS
  <1>2. NoSlot \notin Slot
    BY DEF Slot, NoSlot
  <1> QED
    BY <1>1, <1>2

\* The queue of free slots after a reset.
LEMMA AllFree ==
    LET all == [i \in 1 .. Depth |-> i]
    IN  all \in Seq(Slot) /\ Len(all) = Depth /\ \A i \in 1 .. Depth : all[i] = i
  BY SlotAssumption DEF Slot

-----------------------------------------------------------------------------
(* Steps and types *)

\* What a step of Next can be.
Session == \/ EventConnected \/ EventDisconnected \/ EmptyLast \/ StopBegin
           \/ StopClose \/ StopMediaBusy \/ StopMediaQueue
           \/ MediaBusy \/ MediaQueue \/ CompleteLater \/ CompleteNow
Frames  == \E lastFlag \in BOOLEAN : Frame(lastFlag)
Closing == \E a \in Closer : Close(a)
Playing == \/ Take \/ TakeEnd \/ CheckPath \/ Prepare \/ Write \/ GiveBack \/ GiveBackLate
Others  == SfxPlay \/ SfxTask \/ RecordStart \/ RecordStop

LEMMA Steps == Next => Session \/ Frames \/ Closing \/ Playing \/ Others
  BY DEF Next, Handler, Complete, Stop, Worker, Session, Frames, Closing, Playing, Others, Closer

\* The parts of TypeOK
FlagTypes ==
    /\ link \in BOOLEAN /\ endp \in BOOLEAN /\ playing \in BOOLEAN
    /\ running \in BOOLEAN /\ mode \in BOOLEAN
    /\ cloud \in BOOLEAN /\ stopped \in BOOLEAN /\ request \in BOOLEAN /\ current \in BOOLEAN
    /\ local \in BOOLEAN /\ recording \in BOOLEAN
    /\ crossed \in BOOLEAN /\ overtaken \in BOOLEAN

PlaceTypes ==
    /\ handler \in {"idle", "complete", "finish", "abort", "media", "queue"}
    /\ stopper \in {"idle", "abort", "close", "media", "queue"}
    /\ pc \in {"look", "check", "busy", "mode", "rate", "start", "playing", "write", "return", "finish"}
    /\ closing \in [Closer -> Phase]
    /\ sfx \in {"idle", "load", "mode", "rate", "start", "chunk", "write", "end", "stopcodec",
                "endmode", "endrate", "done"}
    /\ answer \in {"none", "open", "ended"} /\ rate \in {Record, Play}

PoolTypes ==
    /\ free \in Seq(Slot) /\ Len(free) <= Depth
    /\ waiting \in Seq(Slot) /\ Len(waiting) <= Depth
    /\ content \in [Slot -> 0 .. MaxFrames] /\ received \in 0 .. MaxFrames
    /\ held \in Slot \cup {NoSlot} /\ last \in 0 .. MaxFrames

CountTypes == events \in 0 .. MaxEvents /\ chunks \in 0 .. MaxChunks /\ over \in Nat

LEMMA TypeParts == TypeOK <=> FlagTypes /\ PlaceTypes /\ PoolTypes /\ CountTypes
  BY DEF TypeOK, FlagTypes, PlaceTypes, PoolTypes, CountTypes

\* The flags stay Boolean.
LEMMA FlagStep == FlagTypes /\ Next => FlagTypes'
  <1> SUFFICES ASSUME FlagTypes, Next PROVE FlagTypes'
    OBVIOUS
  <1> USE DEF FlagTypes, net, pool, work, tts, path, marks, sound, hist
  <1>1. CASE EventConnected
    BY <1>1, ZenonT(40) DEF EventConnected
  <1>2. CASE EventDisconnected
    BY <1>2, ZenonT(40) DEF EventDisconnected, ResetQueue
  <1>3. CASE EmptyLast
    BY <1>3, ZenonT(40) DEF EmptyLast
  <1>4. CASE StopBegin
    BY <1>4, ZenonT(40) DEF StopBegin, ResetQueue
  <1>5. ASSUME NEW lastFlag \in BOOLEAN, FrameFree(lastFlag) PROVE FlagTypes'
    BY <1>5, ZenonT(40) DEF FrameFree, Enqueue
  <1>6. ASSUME NEW lastFlag \in BOOLEAN, FrameEvict(lastFlag) PROVE FlagTypes'
    BY <1>6, ZenonT(40) DEF FrameEvict, Enqueue
  <1>7. ASSUME NEW lastFlag \in BOOLEAN, FrameDropped(lastFlag) PROVE FlagTypes'
    BY <1>7, ZenonT(40) DEF FrameDropped
  <1>8. CASE CompleteLater
    BY <1>8, ZenonT(40) DEF CompleteLater
  <1>9. CASE CompleteNow
    BY <1>9, ZenonT(40) DEF CompleteNow
  <1>10. CASE MediaBusy
    BY <1>10, ZenonT(40) DEF MediaBusy, CloudDone
  <1>11. CASE MediaQueue
    BY <1>11, ZenonT(40) DEF MediaQueue, ResetQueue
  <1>12. CASE StopClose
    BY <1>12, ZenonT(40) DEF StopClose
  <1>13. CASE StopMediaBusy
    BY <1>13, ZenonT(40) DEF StopMediaBusy, CloudDone
  <1>14. CASE StopMediaQueue
    BY <1>14, ZenonT(40) DEF StopMediaQueue, ResetQueue
  <1>15. CASE Take
    BY <1>15, ZenonT(40) DEF Take
  <1>16. CASE TakeEnd
    BY <1>16, ZenonT(40) DEF TakeEnd
  <1>17. CASE CheckPath
    BY <1>17, ZenonT(40) DEF CheckPath
  <1>18. CASE PrepareBusy
    BY <1>18, ZenonT(40) DEF PrepareBusy
  <1>19. CASE PrepareMode
    BY <1>19, ZenonT(40) DEF PrepareMode
  <1>20. CASE PrepareRate
    BY <1>20, ZenonT(40) DEF PrepareRate
  <1>21. CASE PrepareStart
    BY <1>21, ZenonT(40) DEF PrepareStart
  <1>22. CASE PreparePlaying
    BY <1>22, ZenonT(40) DEF PreparePlaying
  <1>23. CASE Write
    BY <1>23, ZenonT(40) DEF Write
  <1>24. CASE GiveBack
    BY <1>24, ZenonT(40) DEF GiveBack
  <1>25. CASE GiveBackLate
    BY <1>25, ZenonT(40) DEF GiveBackLate
  <1>26. CASE SfxPlay
    BY <1>26, ZenonT(40) DEF SfxPlay
  <1>27. CASE SfxTake
    BY <1>27, ZenonT(40) DEF SfxTake
  <1>28. CASE SfxLoaded
    BY <1>28, ZenonT(40) DEF SfxLoaded
  <1>29. CASE SfxMissing
    BY <1>29, ZenonT(40) DEF SfxMissing
  <1>30. CASE SfxMode
    BY <1>30, ZenonT(40) DEF SfxMode
  <1>31. CASE SfxRate
    BY <1>31, ZenonT(40) DEF SfxRate
  <1>32. CASE SfxStart
    BY <1>32, ZenonT(40) DEF SfxStart
  <1>33. CASE SfxNext
    BY <1>33, ZenonT(40) DEF SfxNext
  <1>34. CASE SfxWrite
    BY <1>34, ZenonT(40) DEF SfxWrite
  <1>35. CASE SfxEnd
    BY <1>35, ZenonT(40) DEF SfxEnd
  <1>36. CASE SfxStop
    BY <1>36, ZenonT(40) DEF SfxStop
  <1>37. CASE SfxEndMode
    BY <1>37, ZenonT(40) DEF SfxEndMode
  <1>38. CASE SfxEndRate
    BY <1>38, ZenonT(40) DEF SfxEndRate
  <1>39. CASE SfxDone
    BY <1>39, ZenonT(40) DEF SfxDone
  <1>40. CASE RecordStart
    BY <1>40, ZenonT(40) DEF RecordStart
  <1>41. CASE RecordStop
    BY <1>41, ZenonT(40) DEF RecordStop
  <1>42. ASSUME NEW a \in Closer, CloseTest(a) PROVE FlagTypes'
    BY <1>42, ZenonT(40) DEF CloseTest
  <1>43. ASSUME NEW a \in Closer, CloseStop(a) PROVE FlagTypes'
    BY <1>43, ZenonT(40) DEF CloseStop
  <1>44. ASSUME NEW a \in Closer, CloseMode(a) PROVE FlagTypes'
    BY <1>44, ZenonT(40) DEF CloseMode
  <1>45. ASSUME NEW a \in Closer, CloseRate(a) PROVE FlagTypes'
    BY <1>45, ZenonT(40) DEF CloseRate
  <1>46. ASSUME NEW a \in Closer, ClosePlaying(a) PROVE FlagTypes'
    BY <1>46, ZenonT(40) DEF ClosePlaying
  <1>47. ASSUME NEW a \in Closer, CloseBusy(a) PROVE FlagTypes'
    BY <1>47, ZenonT(40) DEF CloseBusy, CloudDone, Return
  <1> QED
    BY Steps, <1>1, <1>2, <1>3, <1>4, <1>5, <1>6, <1>7, <1>8, <1>9, <1>10, <1>11, <1>12, <1>13, <1>14, <1>15, <1>16, <1>17, <1>18, <1>19, <1>20, <1>21, <1>22, <1>23, <1>24, <1>25, <1>26, <1>27, <1>28, <1>29, <1>30, <1>31, <1>32, <1>33, <1>34, <1>35, <1>36, <1>37, <1>38, <1>39, <1>40, <1>41, <1>42, <1>43, <1>44, <1>45, <1>46, <1>47
    DEF Session, Frames, Frame, Closing, Close, Playing, Prepare, Others, SfxTask

LEMMA PlaceStep == PlaceTypes /\ Next => PlaceTypes'
  <1> SUFFICES ASSUME PlaceTypes, Next PROVE PlaceTypes'
    OBVIOUS
  <1> USE DEF PlaceTypes, Closer, Phase, net, pool, work, tts, path, marks, sound, hist
  <1>1. CASE Session
    BY <1>1 DEF Session, EventConnected, EventDisconnected, EmptyLast, StopBegin, StopClose,
                StopMediaBusy, StopMediaQueue, MediaBusy, MediaQueue, CompleteLater, CompleteNow
  <1>2. CASE Frames
    BY <1>2 DEF Frames, Frame, FrameFree, FrameEvict, FrameDropped, Enqueue
  <1>3. CASE Closing
    BY <1>3 DEF Closing, Close, CloseTest, CloseStop, CloseMode, CloseRate, ClosePlaying,
                CloseBusy, Return
  <1>4. CASE Playing
    BY <1>4 DEF Playing, Take, TakeEnd, CheckPath, Prepare, PrepareBusy, PrepareMode, PrepareRate,
                PrepareStart, PreparePlaying, Write, GiveBack, GiveBackLate
  <1>5. CASE Others
    BY <1>5 DEF Others, SfxPlay, SfxTask, SfxTake, SfxLoaded, SfxMissing, SfxMode, SfxRate,
                SfxStart, SfxNext, SfxWrite, SfxEnd, SfxStop, SfxEndMode, SfxEndRate, SfxDone,
                RecordStart, RecordStop
  <1> QED
    BY <1>1, <1>2, <1>3, <1>4, <1>5, Steps

\* What has been crossed or overtaken remains so.
LEMMA CrossedStays == Next => (crossed => crossed') /\ (overtaken => overtaken')
  <1> SUFFICES ASSUME Next PROVE (crossed => crossed') /\ (overtaken => overtaken')
    OBVIOUS
  <1> USE DEF hist
  <1>1. CASE Session
    <2>1. CASE EventDisconnected
      BY <2>1, Zenon DEF EventDisconnected
    <2>2. CASE StopBegin
      BY <2>2, Zenon DEF StopBegin
    <2> QED
      BY <1>1, <2>1, <2>2 DEF Session, EventConnected, EmptyLast, StopClose, StopMediaBusy,
         StopMediaQueue, MediaBusy, MediaQueue, CompleteLater, CompleteNow
  <1>2. CASE Frames
    BY <1>2 DEF Frames, Frame, FrameFree, FrameEvict, FrameDropped, Enqueue
  <1>3. CASE Closing
    BY <1>3 DEF Closing, Close, CloseTest, CloseStop, CloseMode, CloseRate, ClosePlaying, CloseBusy
  <1>4. CASE Playing
    <2>1. CASE Take
      BY <2>1, Zenon DEF Take
    <2> QED
      BY <1>4, <2>1 DEF Playing, TakeEnd, CheckPath, Prepare, PrepareBusy, PrepareMode, PrepareRate,
                PrepareStart, PreparePlaying, Write, GiveBack, GiveBackLate
  <1>5. CASE Others
    <2>1. CASE SfxStop
      BY <2>1, Zenon DEF SfxStop
    <2>2. CASE SfxEndMode
      BY <2>2, Zenon DEF SfxEndMode
    <2>3. CASE SfxEndRate
      BY <2>3, Zenon DEF SfxEndRate
    <2>4. CASE SfxWrite
      BY <2>4 DEF SfxWrite
    <2> QED
      BY <1>5, <2>1, <2>2, <2>3, <2>4 DEF Others, SfxPlay, SfxTask, SfxTake, SfxLoaded, SfxMissing, SfxMode,
         SfxRate, SfxStart, SfxNext, SfxEnd, SfxDone, RecordStart, RecordStop
  <1> QED
    BY <1>1, <1>2, <1>3, <1>4, <1>5, Steps

-----------------------------------------------------------------------------
(* Where the tasks are *)

LEMMA LocatedStep == PlaceTypes /\ PoolTypes /\ Located /\ Next => Located'
  <1> SUFFICES ASSUME PlaceTypes, PoolTypes, Located, Next PROVE Located'
    OBVIOUS
  <1> USE DEF PlaceTypes, Located, Closer, Phase, net, pool, work, tts, path, marks, sound, hist
  <1>1. CASE Session
    BY <1>1 DEF Session, EventConnected, EventDisconnected, EmptyLast, StopBegin, StopClose,
                StopMediaBusy, StopMediaQueue, MediaBusy, MediaQueue, CompleteLater, CompleteNow,
                Listening
  <1>2. CASE Frames
    BY <1>2 DEF Frames, Frame, FrameFree, FrameEvict, FrameDropped, Enqueue, Arrives, Listening
  <1>3. CASE Closing
    BY <1>3 DEF Closing, Close, CloseTest, CloseStop, CloseMode, CloseRate, ClosePlaying,
                CloseBusy, Return
  <1>4. CASE Playing
    <2>1. CASE Take
      BY <2>1, TailFacts DEF Take, PoolTypes, Slot, NoSlot
    <2> QED
      BY <1>4, <2>1 DEF Playing, TakeEnd, CheckPath, Prepare, PrepareBusy, PrepareMode,
         PrepareRate, PrepareStart, PreparePlaying, Write, GiveBack, GiveBackLate
  <1>5. CASE Others
    BY <1>5 DEF Others, SfxPlay, SfxTask, SfxTake, SfxLoaded, SfxMissing, SfxMode, SfxRate,
                SfxStart, SfxNext, SfxWrite, SfxEnd, SfxStop, SfxEndMode, SfxEndRate, SfxDone,
                RecordStart, RecordStop
  <1> QED
    BY <1>1, <1>2, <1>3, <1>4, <1>5, Steps

-----------------------------------------------------------------------------
(* The moves of the slots *)

\* What a step can do to the queues and the slot in hand: every step outside of these
\* leaves them alone.
Emptied   == ResetQueue /\ UNCHANGED <<held, last>> /\ (~crossed' => held = NoSlot)
PoolStays == UNCHANGED <<free, waiting, content, received, held, last>> /\ (pc = "return" => pc' = pc)

LEMMA PoolMoves ==
    PlaceTypes /\ Located /\ HandsOff /\ Next =>
        Emptied \/ Frames \/ Take \/ Write \/ GiveBack \/ GiveBackLate \/ PoolStays
  <1> SUFFICES ASSUME PlaceTypes, Located, HandsOff, Next,
                      ~Frames, ~Take, ~Write, ~GiveBack, ~GiveBackLate
               PROVE  Emptied \/ PoolStays
    OBVIOUS
  <1> USE DEF Emptied, PoolStays, net, pool, work, tts, path, marks, sound, hist
  <1>1. CASE Session
    <2>1. CASE EventDisconnected \/ StopBegin
      BY <2>1 DEF EventDisconnected, StopBegin
    <2>2. CASE MediaQueue \/ StopMediaQueue
      BY <2>2 DEF MediaQueue, StopMediaQueue, HandsOff, Ending
    <2> QED
      BY <1>1, <2>1, <2>2 DEF Session, EventConnected, EmptyLast, StopClose, StopMediaBusy,
         MediaBusy, CompleteLater, CompleteNow
  <1>2. CASE Closing
    BY <1>2 DEF Closing, Close, CloseTest, CloseStop, CloseMode, CloseRate, ClosePlaying,
                CloseBusy, Return, PlaceTypes, Located, Closer
  <1>3. CASE Playing
    BY <1>3 DEF Playing, TakeEnd, CheckPath, Prepare, PrepareBusy, PrepareMode,
         PrepareRate, PrepareStart, PreparePlaying
  <1>4. CASE Others
    BY <1>4 DEF Others, SfxPlay, SfxTask, SfxTake, SfxLoaded, SfxMissing, SfxMode, SfxRate,
                SfxStart, SfxNext, SfxWrite, SfxEnd, SfxStop, SfxEndMode, SfxEndRate, SfxDone,
                RecordStart, RecordStop
  <1> QED
    BY <1>1, <1>2, <1>3, <1>4, Steps

\* An audio frame, seen by the queues: slot s takes it, if there is one, and goes to the
\* end of what waits.
Queued(s, q, f) ==
    /\ content' = [content EXCEPT ![s] = received + 1]
    /\ \/ Len(q) < Depth /\ free' = f /\ waiting' = Append(q, s)
       \/ Len(q) >= Depth /\ free' = Append(f, s) /\ waiting' = q

LEMMA FrameMoves ==
    ASSUME PoolTypes, Frames
    PROVE  /\ received < MaxFrames /\ received' = received + 1
           /\ UNCHANGED <<held, last, pc, crossed>>
           /\ \/ free # <<>> /\ Queued(Head(free), waiting, Tail(free))
              \/ free = <<>> /\ waiting # <<>> /\ Queued(Head(waiting), Tail(waiting), free)
              \/ UNCHANGED <<free, waiting, content>>
  <1> PICK lastFlag \in BOOLEAN : Frame(lastFlag)
    BY DEF Frames
  <1> USE DEF work, tts, hist, Enqueue, Arrives
  <1>1. Len(waiting) \in Nat /\ (waiting # <<>> => Len(Tail(waiting)) \in Nat) /\ Depth \in Nat
    BY TailFacts, SlotAssumption DEF PoolTypes
  <1>2. CASE FrameFree(lastFlag)
    BY <1>1, <1>2 DEF FrameFree, Queued
  <1>3. CASE FrameEvict(lastFlag)
    BY <1>1, <1>3 DEF FrameEvict, Queued
  <1>4. CASE FrameDropped(lastFlag)
    BY <1>4 DEF FrameDropped
  <1> QED
    BY <1>2, <1>3, <1>4 DEF Frame

\* A queued frame keeps the types of the queues.
LEMMA QueuedTypes ==
    ASSUME NEW s \in Slot, NEW q \in Seq(Slot), NEW f \in Seq(Slot), Queued(s, q, f),
           Len(q) <= Depth, Len(f) < Depth
    PROVE  /\ free' \in Seq(Slot) /\ Len(free') <= Depth
           /\ waiting' \in Seq(Slot) /\ Len(waiting') <= Depth
  <1> USE SlotAssumption DEF Queued
  <1>1. Len(q) \in Nat /\ Len(f) \in Nat
    OBVIOUS
  <1>2. CASE Len(q) < Depth /\ free' = f /\ waiting' = Append(q, s)
    BY <1>1, <1>2, AppendFacts
  <1>3. CASE Len(q) >= Depth /\ free' = Append(f, s) /\ waiting' = q
    BY <1>1, <1>3, AppendFacts
  <1> QED
    BY <1>2, <1>3

LEMMA PoolStep == PlaceTypes /\ PoolTypes /\ Located /\ HandsOff /\ Next => PoolTypes'
  <1> SUFFICES ASSUME PlaceTypes, PoolTypes, Located, HandsOff, Next PROVE PoolTypes'
    OBVIOUS
  <1> USE SlotAssumption, BoundAssumption DEF PoolTypes
  <1>1. CASE Emptied
    BY <1>1, AllFree DEF Emptied, ResetQueue
  <1>2. CASE Frames
    <2>1. received' \in 0 .. MaxFrames /\ held' = held /\ last' = last
      BY <1>2, FrameMoves
    <2>2. CASE free # <<>> /\ Queued(Head(free), waiting, Tail(free))
      <3>1. /\ Head(free) \in Slot /\ Tail(free) \in Seq(Slot) /\ Len(Tail(free)) < Depth
        BY <2>2, TailFacts
      <3>2. content' \in [Slot -> 0 .. MaxFrames]
        BY <1>2, <2>1, <2>2, <3>1, FrameMoves DEF Queued
      <3> QED
        BY <2>1, <2>2, <3>1, <3>2, QueuedTypes
    <2>3. CASE free = <<>> /\ waiting # <<>> /\ Queued(Head(waiting), Tail(waiting), free)
      <3>1. /\ Head(waiting) \in Slot /\ Tail(waiting) \in Seq(Slot) /\ Len(Tail(waiting)) <= Depth
            /\ Len(free) < Depth
        BY <2>3, TailFacts
      <3>2. content' \in [Slot -> 0 .. MaxFrames]
        BY <1>2, <2>1, <2>3, <3>1, FrameMoves DEF Queued
      <3> QED
        BY <2>1, <2>3, <3>1, <3>2, QueuedTypes
    <2> QED
      BY <1>2, <2>1, <2>2, <2>3, FrameMoves
  <1>3. CASE Take
    BY <1>3, TailFacts DEF Take, net, hist
  <1>4. CASE Write
    BY <1>4 DEF Write, Located, pool
  <1>5. CASE GiveBack
    BY <1>5, AppendFacts DEF GiveBack, Located, hist
  <1>6. CASE GiveBackLate
    BY <1>6 DEF GiveBackLate, pool, hist
  <1>7. CASE PoolStays
    BY <1>7 DEF PoolStays
  <1> QED
    BY <1>1, <1>2, <1>3, <1>4, <1>5, <1>6, <1>7, PoolMoves

\* A frame that is queued has one place, and so has every other.
LEMMA QueuedApart ==
    ASSUME NEW s \in Slot, NEW q \in Seq(Slot), NEW f \in Seq(Slot), Queued(s, q, f),
           UNCHANGED held, s # held,
           \A i \in 1 .. Len(q) : q[i] # s /\ q[i] # held,
           \A i \in 1 .. Len(f) : f[i] # s /\ f[i] # held,
           \A i, j \in 1 .. Len(q) : i # j => q[i] # q[j],
           \A i, j \in 1 .. Len(f) : i # j => f[i] # f[j],
           \A i \in 1 .. Len(f), j \in 1 .. Len(q) : f[i] # q[j]
    PROVE  Apart'
  <1>1. CASE free' = f /\ waiting' = Append(q, s)
    BY <1>1, AppendFacts DEF Apart
  <1>2. CASE free' = Append(f, s) /\ waiting' = q
    BY <1>2, AppendFacts DEF Apart
  <1> QED
    BY <1>1, <1>2 DEF Queued

LEMMA ApartStep ==
    PlaceTypes /\ PoolTypes /\ Located /\ HandsOff /\ (~crossed => Apart) /\ Next
        => (~crossed' => Apart')
  <1> SUFFICES ASSUME PlaceTypes, PoolTypes, Located, HandsOff, ~crossed => Apart, Next, ~crossed'
               PROVE  Apart'
    OBVIOUS
  <1> USE DEF PoolTypes
  <1>1. Apart
    BY CrossedStays
  <1>2. CASE Emptied
    BY <1>2, AllFree, SlotAssumption DEF Emptied, ResetQueue, Apart, NoSlot
  <1>3. CASE Frames
    <2>1. held' = held
      BY <1>3, FrameMoves
    <2>2. CASE free # <<>> /\ Queued(Head(free), waiting, Tail(free))
      <3> DEFINE s == Head(free)
                 f == Tail(free)
      <3>1. /\ s \in Slot /\ s = free[1] /\ f \in Seq(Slot) /\ Len(free) \in Nat \ {0}
            /\ \A i \in 1 .. Len(f) : i + 1 \in 1 .. Len(free) /\ f[i] = free[i + 1]
        BY <2>2, TailFacts
      <3>2. /\ s # held /\ \A i \in 1 .. Len(waiting) : waiting[i] # s /\ waiting[i] # held
            /\ \A i, j \in 1 .. Len(waiting) : i # j => waiting[i] # waiting[j]
        BY <1>1, <3>1 DEF Apart
      <3>3. /\ \A i \in 1 .. Len(f) : f[i] # s /\ f[i] # held
            /\ \A i, j \in 1 .. Len(f) : i # j => f[i] # f[j]
            /\ \A i \in 1 .. Len(f), j \in 1 .. Len(waiting) : f[i] # waiting[j]
        BY <1>1, <3>1 DEF Apart
      <3> HIDE DEF s, f
      <3>4. Queued(s, waiting, f)
        BY <2>2 DEF s, f
      <3> QED
        BY <2>1, <3>1, <3>2, <3>3, <3>4, QueuedApart
    <2>3. CASE free = <<>> /\ waiting # <<>> /\ Queued(Head(waiting), Tail(waiting), free)
      <3> DEFINE s == Head(waiting)
                 q == Tail(waiting)
      <3>1. /\ s \in Slot /\ s = waiting[1] /\ q \in Seq(Slot) /\ Len(waiting) \in Nat \ {0}
            /\ \A i \in 1 .. Len(q) : i + 1 \in 1 .. Len(waiting) /\ q[i] = waiting[i + 1]
        BY <2>3, TailFacts
      <3>2. /\ s # held /\ \A i \in 1 .. Len(q) : q[i] # s /\ q[i] # held
            /\ \A i, j \in 1 .. Len(q) : i # j => q[i] # q[j]
        BY <1>1, <3>1 DEF Apart
      <3>3. \A i \in 1 .. Len(free) : FALSE
        BY <2>3
      <3> HIDE DEF s, q
      <3>4. Queued(s, q, free)
        BY <2>3 DEF s, q
      <3> QED
        BY <2>1, <3>1, <3>2, <3>3, <3>4, QueuedApart
    <2> QED
      BY <1>1, <1>3, <2>2, <2>3, FrameMoves DEF Apart
  <1>4. CASE Take
    BY <1>1, <1>4, TailFacts DEF Take, Apart
  <1>5. CASE Write
    BY <1>1, <1>5 DEF Write, Apart, pool
  <1>6. CASE GiveBack
    <2>1. /\ held \in Slot /\ held' = NoSlot /\ waiting' = waiting
          /\ \/ Len(free) < Depth /\ free' = Append(free, held)
             \/ free' = free
      BY <1>6 DEF GiveBack, Located
    <2>2. /\ free' \in Seq(Slot)
          /\ \A i \in 1 .. Len(free') : free'[i] # NoSlot
          /\ \A i \in 1 .. Len(waiting) : waiting[i] # NoSlot
      BY <2>1, AppendFacts, HoldsSlots
    <2>3. CASE free' = Append(free, held)
      BY <1>1, <2>1, <2>2, <2>3, AppendFacts DEF Apart
    <2>4. CASE free' = free
      BY <1>1, <2>1, <2>2, <2>4 DEF Apart
    <2> QED
      BY <2>1, <2>3, <2>4
  <1>7. CASE GiveBackLate
    BY <1>1, <1>7, HoldsSlots DEF GiveBackLate, pool, Apart
  <1>8. CASE PoolStays
    BY <1>1, <1>8 DEF PoolStays, Apart
  <1> QED
    BY <1>2, <1>3, <1>4, <1>5, <1>6, <1>7, <1>8, PoolMoves

-----------------------------------------------------------------------------
(* The worker's hands while a session is ended *)

\* Only Take fills the worker's hands.
LEMMA HeldMoves ==
    PlaceTypes /\ PoolTypes /\ Located /\ HandsOff /\ Next => Take \/ held' = held \/ held' = NoSlot
  <1> SUFFICES ASSUME PlaceTypes, PoolTypes, Located, HandsOff, Next, ~Take
               PROVE  held' = held \/ held' = NoSlot
    OBVIOUS
  <1>1. CASE Emptied \/ PoolStays
    BY <1>1 DEF Emptied, PoolStays
  <1>2. CASE Frames
    BY <1>2, FrameMoves
  <1>3. CASE Write \/ GiveBack \/ GiveBackLate
    BY <1>3 DEF Write, GiveBack, GiveBackLate
  <1> QED
    BY <1>1, <1>2, <1>3, PoolMoves

\* A session begins to be ended, or to be set up, with nothing in the worker's hands,
\* or crossed says so.
LEMMA EndingBegins ==
    PlaceTypes /\ Located /\ Next /\ Ending' => Ending \/ (~crossed' => held' = NoSlot)
  <1> SUFFICES ASSUME PlaceTypes, Located, Next, Ending', ~Ending PROVE ~crossed' => held' = NoSlot
    OBVIOUS
  <1> USE DEF net, work, pool, tts, path, marks, sound, hist
  <1>1. CASE Session
    <2>1. CASE EventConnected
      BY <2>1 DEF EventConnected
    <2>2. CASE EventDisconnected
      BY <2>2, Zenon DEF EventDisconnected
    <2>3. CASE StopBegin
      BY <2>3, Zenon DEF StopBegin
    <2> QED
      BY <1>1, <2>1, <2>2, <2>3 DEF Session, EmptyLast, StopClose, StopMediaBusy,
         StopMediaQueue, MediaBusy, MediaQueue, CompleteLater, CompleteNow, Ending
  <1>2. CASE Frames
    BY <1>2 DEF Frames, Frame, FrameFree, FrameEvict, FrameDropped, Enqueue, Ending
  <1>3. CASE Closing
    BY <1>3 DEF Closing, Close, CloseTest, CloseStop, CloseMode, CloseRate, ClosePlaying,
                CloseBusy, Return, Ending, Located, PlaceTypes, Closer
  <1>4. CASE Playing
    BY <1>4 DEF Playing, Take, TakeEnd, CheckPath, Prepare, PrepareBusy, PrepareMode, PrepareRate,
                PrepareStart, PreparePlaying, Write, GiveBack, GiveBackLate, Ending
  <1>5. CASE Others
    BY <1>5 DEF Others, SfxPlay, SfxTask, SfxTake, SfxLoaded, SfxMissing, SfxMode, SfxRate,
                SfxStart, SfxNext, SfxWrite, SfxEnd, SfxStop, SfxEndMode, SfxEndRate, SfxDone,
                RecordStart, RecordStop, Ending
  <1> QED
    BY <1>1, <1>2, <1>3, <1>4, <1>5, Steps

LEMMA HandsOffStep == PlaceTypes /\ PoolTypes /\ Located /\ HandsOff /\ Next => HandsOff'
  <1> SUFFICES ASSUME PlaceTypes, PoolTypes, Located, HandsOff, Next, ~crossed', Ending'
               PROVE  held' = NoSlot
    BY DEF HandsOff
  <1>1. CASE ~Ending
    BY <1>1, EndingBegins
  <1>2. CASE Ending
    <2>1. held = NoSlot
      BY <1>2, CrossedStays DEF HandsOff
    <2>2. ~Take
      BY <1>2, Zenon DEF Take
    <2> QED
      BY <2>1, <2>2, HeldMoves
  <1> QED
    BY <1>1, <1>2

LEMMA DrainedStep ==
    PlaceTypes /\ PoolTypes /\ Located /\ HandsOff /\ Drained /\ Next => Drained'
  <1> SUFFICES ASSUME PlaceTypes, PoolTypes, Located, HandsOff, Drained, Next, handler' = "finish"
               PROVE  waiting' = <<>> /\ (closing'["handler"] \in PastStop => held' = NoSlot)
    BY DEF Drained
  <1> USE DEF Drained, PastStop, net, pool, work, tts, path, marks, sound, hist
  <1>1. CASE Session
    BY <1>1 DEF Session, EventConnected, EventDisconnected, EmptyLast, StopBegin, StopClose,
                StopMediaBusy, StopMediaQueue, MediaBusy, MediaQueue, CompleteLater, CompleteNow,
                PlaceTypes, Closer, ResetQueue
  <1>2. CASE Frames
    BY <1>2 DEF Frames, Frame, FrameFree, FrameEvict, FrameDropped, Enqueue
  <1>3. CASE Closing
    BY <1>3 DEF Closing, Close, CloseTest, CloseStop, CloseMode, CloseRate, ClosePlaying,
                CloseBusy, Return, Located, PlaceTypes, Closer
  <1>4. CASE Playing
    BY <1>4 DEF Playing, Take, TakeEnd, CheckPath, Prepare, PrepareBusy, PrepareMode, PrepareRate,
                PrepareStart, PreparePlaying, Write, GiveBack, GiveBackLate, PlaceTypes, Closer
  <1>5. CASE Others
    BY <1>5 DEF Others, SfxPlay, SfxTask, SfxTake, SfxLoaded, SfxMissing, SfxMode, SfxRate,
                SfxStart, SfxNext, SfxWrite, SfxEnd, SfxStop, SfxEndMode, SfxEndRate, SfxDone,
                RecordStart, RecordStop
  <1> QED
    BY <1>1, <1>2, <1>3, <1>4, <1>5, Steps

-----------------------------------------------------------------------------
(* The order of the frames *)

\* Where a frame that is queued goes.
LEMMA QueuedAt ==
    ASSUME NEW s \in Slot, NEW q \in Seq(Slot), NEW f \in Seq(Slot), Queued(s, q, f)
    PROVE  /\ Len(waiting') \in Nat
           /\ \A i \in 1 .. Len(waiting') :
                 \/ i \in 1 .. Len(q) /\ waiting'[i] = q[i]
                 \/ i = Len(q) + 1 /\ waiting'[i] = s
  <1>1. Len(q) \in Nat
    OBVIOUS
  <1>2. CASE waiting' = q
    BY <1>1, <1>2
  <1>3. CASE waiting' = Append(q, s)
    BY <1>1, <1>3, AppendFacts
  <1> QED
    BY <1>2, <1>3 DEF Queued

\* A frame that goes to the end of the queue is the youngest one.
LEMMA QueuedInOrder ==
    ASSUME NEW s \in Slot, NEW q \in Seq(Slot), NEW f \in Seq(Slot), Queued(s, q, f),
           PoolTypes, received' = received + 1, UNCHANGED <<held, last, pc>>,
           s # held, \A i \in 1 .. Len(q) : q[i] # s,
           InOrder, Ordered(q)
    PROVE  InOrder'
  <1>1. /\ content' \in [Slot -> Nat] /\ content'[s] = received + 1
        /\ \A x \in Slot : x # s => content'[x] = content[x]
        /\ content \in [Slot -> Nat] /\ received \in Nat /\ last \in Nat
        /\ held # NoSlot => held \in Slot
    BY BoundAssumption DEF Queued, PoolTypes
  <1>2. /\ Len(q) \in Nat
        /\ \A i \in 1 .. Len(q) : q[i] \in Slot /\ content'[q[i]] = content[q[i]]
    BY <1>1, HoldsSlots
  <1>3. /\ last <= received /\ \A x \in Slot : content[x] <= received
        /\ held # NoSlot => content'[held] = content[held] /\ content'[held] <= received
    BY <1>1 DEF InOrder
  <1>4. last' <= received' /\ \A x \in Slot : content'[x] <= received'
    BY <1>1, <1>3
  <1>5. held' # NoSlot /\ pc' # "return" => last' < content'[held']
    BY <1>3 DEF InOrder
  <1>6. \A j \in 1 .. Len(waiting') : last' < content'[waiting'[j]]
    <2> SUFFICES ASSUME NEW j \in 1 .. Len(waiting') PROVE last < content'[waiting'[j]]
      OBVIOUS
    <2>1. CASE j \in 1 .. Len(q) /\ waiting'[j] = q[j]
      BY <1>2, <2>1 DEF Ordered
    <2>2. CASE waiting'[j] = s
      BY <1>1, <1>3, <2>2
    <2> QED
      BY <2>1, <2>2, QueuedAt
  <1>7. held' # NoSlot => \A j \in 1 .. Len(waiting') : content'[held'] < content'[waiting'[j]]
    <2> SUFFICES ASSUME held # NoSlot, NEW j \in 1 .. Len(waiting')
                 PROVE  content'[held] < content'[waiting'[j]]
      OBVIOUS
    <2>1. CASE j \in 1 .. Len(q) /\ waiting'[j] = q[j]
      BY <1>2, <1>3, <2>1 DEF Ordered
    <2>2. CASE waiting'[j] = s
      BY <1>1, <1>3, <2>2
    <2> QED
      BY <2>1, <2>2, QueuedAt
  <1>8. ASSUME NEW i \in 1 .. Len(waiting'), NEW j \in 1 .. Len(waiting'), i < j
        PROVE  content'[waiting'[i]] < content'[waiting'[j]]
    <2>1. Len(waiting') \in Nat
      BY QueuedAt
    <2>2. i \in 1 .. Len(q) /\ waiting'[i] = q[i]
      BY <1>2, <1>8, <2>1, QueuedAt
    <2>3. CASE j \in 1 .. Len(q) /\ waiting'[j] = q[j]
      BY <1>2, <1>8, <2>2, <2>3 DEF Ordered
    <2>4. CASE waiting'[j] = s
      BY <1>1, <1>2, <1>3, <2>2, <2>4
    <2> QED
      BY <2>3, <2>4, QueuedAt
  <1> QED
    BY <1>4, <1>5, <1>6, <1>7, <1>8 DEF InOrder, Ordered

LEMMA InOrderStep ==
    PlaceTypes /\ PoolTypes /\ Located /\ HandsOff /\ (~crossed => Apart /\ InOrder) /\ Next
        => (~crossed' => InOrder')
  <1> SUFFICES ASSUME PlaceTypes, PoolTypes, Located, HandsOff, ~crossed => Apart /\ InOrder, Next,
                      ~crossed'
               PROVE  InOrder'
    OBVIOUS
  <1> USE DEF PoolTypes
  <1>1. Apart /\ InOrder
    BY CrossedStays
  <1>2. CASE Emptied
    BY <1>1, <1>2 DEF Emptied, ResetQueue, InOrder, Ordered
  <1>3. CASE Frames
    <2>1. received' = received + 1 /\ UNCHANGED <<held, last, pc>>
      BY <1>3, FrameMoves
    <2>2. CASE free # <<>> /\ Queued(Head(free), waiting, Tail(free))
      <3> DEFINE s == Head(free)
                 f == Tail(free)
      <3>1. s \in Slot /\ s = free[1] /\ f \in Seq(Slot) /\ Len(free) \in Nat \ {0}
        BY <2>2, TailFacts
      <3>2. s # held /\ \A i \in 1 .. Len(waiting) : waiting[i] # s
        BY <1>1, <3>1 DEF Apart
      <3>3. Queued(s, waiting, f)
        BY <2>2
      <3> HIDE DEF s, f
      <3> QED
        BY <1>1, <2>1, <3>1, <3>2, <3>3, QueuedInOrder DEF InOrder
    <2>3. CASE free = <<>> /\ waiting # <<>> /\ Queued(Head(waiting), Tail(waiting), free)
      <3> DEFINE s == Head(waiting)
                 q == Tail(waiting)
      <3>1. /\ s \in Slot /\ s = waiting[1] /\ q \in Seq(Slot) /\ Len(waiting) \in Nat \ {0}
            /\ \A i \in 1 .. Len(q) : i + 1 \in 1 .. Len(waiting) /\ q[i] = waiting[i + 1]
        BY <2>3, TailFacts
      <3>2. s # held /\ \A i \in 1 .. Len(q) : q[i] # s
        BY <1>1, <3>1 DEF Apart
      <3>3. Ordered(q)
        <4>1. Ordered(waiting)
          BY <1>1 DEF InOrder
        <4>2. Len(q) \in Nat
          BY <3>1
        <4> HIDE DEF q
        <4>3. ASSUME NEW i \in 1 .. Len(q), NEW j \in 1 .. Len(q), i < j
              PROVE  content[q[i]] < content[q[j]]
          <5>1. i + 1 \in 1 .. Len(waiting) /\ j + 1 \in 1 .. Len(waiting) /\ i + 1 < j + 1
            BY <3>1, <4>2, <4>3
          <5>2. content[waiting[i + 1]] < content[waiting[j + 1]]
            BY <4>1, <5>1 DEF Ordered
          <5> QED
            BY <3>1, <5>2
        <4> QED
          BY <3>1, <4>1, <4>3 DEF Ordered
      <3>4. Queued(s, q, free)
        BY <2>3
      <3> HIDE DEF s, q
      <3> QED
        BY <1>1, <2>1, <3>1, <3>2, <3>3, <3>4, QueuedInOrder
    <2>4. CASE UNCHANGED <<free, waiting, content>>
      BY <1>1, <2>1, <2>4, BoundAssumption DEF InOrder, Ordered
    <2> QED
      BY <1>3, <2>2, <2>3, <2>4, FrameMoves
  <1>4. CASE Take
    BY <1>1, <1>4, TailFacts DEF Take, InOrder, Ordered
  <1>5. CASE Write
    <2>1. held \in Slot /\ held # NoSlot /\ pc' = "return" /\ UNCHANGED <<held, waiting, content, received>>
          /\ (last' = last \/ last' = content[held])
      BY <1>5 DEF Write, Located, pool
    <2> QED
      BY <1>1, <2>1, HoldsSlots DEF InOrder, Ordered
  <1>6. CASE GiveBack \/ GiveBackLate
    BY <1>1, <1>6 DEF GiveBack, GiveBackLate, pool, hist, InOrder, Ordered
  <1>7. CASE PoolStays
    BY <1>1, <1>7 DEF PoolStays, InOrder, Ordered
  <1> QED
    BY <1>2, <1>3, <1>4, <1>5, <1>6, <1>7, PoolMoves

-----------------------------------------------------------------------------
(* The codec *)

\* Who closes the playback past the stop of the codec meets no frame.
LEMMA ClosersMeetNothing ==
    ASSUME Located, HandsOff, Drained, ~crossed, NEW a \in Closer, closing[a] \in PastStop
    PROVE  held = NoSlot
  BY DEF Located, HandsOff, Drained, Ending, PastStop, Closer

LEMMA PathStep ==
    PlaceTypes /\ Located /\ HandsOff /\ Drained /\ (~crossed /\ ~overtaken => PathKept) /\ Next
        => (~crossed' /\ ~overtaken' => PathKept')
  <1> SUFFICES ASSUME PlaceTypes, Located, HandsOff, Drained, ~crossed /\ ~overtaken => PathKept,
                      Next, ~crossed', ~overtaken'
               PROVE  PathKept'
    OBVIOUS
  <1> USE DEF PathKept, net, pool, work, tts, path, marks, sound, hist
  <1>1. ~crossed /\ ~overtaken /\ PathKept
    BY CrossedStays
  <1>2. CASE Session
    <2>1. UNCHANGED <<playing, rate, mode, pc>>
      BY <1>2 DEF Session, EventConnected, EventDisconnected, EmptyLast, StopBegin, StopClose,
         StopMediaBusy, StopMediaQueue, MediaBusy, MediaQueue, CompleteLater, CompleteNow
    <2>2. \A a \in Closer : closing[a] = "playing" => closing'[a] = "playing"
      BY <1>2 DEF Session, EventConnected, EventDisconnected, EmptyLast, StopBegin, StopClose,
         StopMediaBusy, StopMediaQueue, MediaBusy, MediaQueue, CompleteLater, CompleteNow,
         PlaceTypes, Located, Listening, Closer
    <2> QED
      BY <1>1, <2>1, <2>2
  <1>3. CASE Frames
    BY <1>1, <1>3 DEF Frames, Frame, FrameFree, FrameEvict, FrameDropped, Enqueue
  <1>4. CASE Closing
    BY <1>1, <1>4, ClosersMeetNothing DEF Closing, Close, CloseTest, CloseStop, CloseMode,
       CloseRate, ClosePlaying, CloseBusy, Return, Located, PlaceTypes, Closer, PastStop
  <1>5. CASE Playing
    BY <1>1, <1>5, ClosersMeetNothing DEF Playing, Take, TakeEnd, CheckPath, Prepare, PrepareBusy,
       PrepareMode, PrepareRate, PrepareStart, PreparePlaying, Write, GiveBack, GiveBackLate,
       PlaceTypes, Located, Closer, PastStop
  <1>6. CASE Others
    <2>1. CASE SfxEndMode
      <3>1. ~playing /\ held = NoSlot
        BY <2>1, Zenon DEF SfxEndMode
      <3> QED
        BY <1>1, <2>1, <3>1 DEF SfxEndMode, Located
    <2>2. CASE SfxEndRate
      <3>1. ~playing /\ held = NoSlot
        BY <2>2, Zenon DEF SfxEndRate
      <3> QED
        BY <1>1, <2>2, <3>1 DEF SfxEndRate, Located
    <2> QED
      BY <1>1, <1>6, <2>1, <2>2 DEF Others, SfxPlay, SfxTask, SfxTake, SfxLoaded, SfxMissing,
         SfxMode, SfxRate, SfxStart, SfxNext, SfxWrite, SfxEnd, SfxStop, SfxDone, RecordStart,
         RecordStop
  <1> QED
    BY <1>2, <1>3, <1>4, <1>5, <1>6, Steps

-----------------------------------------------------------------------------
(* The local sounds *)

LEMMA CountStep == CountTypes /\ GivesWay /\ Next => CountTypes' /\ GivesWay'
  <1> SUFFICES ASSUME CountTypes, GivesWay, Next PROVE CountTypes' /\ GivesWay'
    OBVIOUS
  <1> USE BoundAssumption DEF CountTypes, GivesWay, net, pool, work, tts, path, marks, sound, hist
  <1>1. CASE Session
    BY <1>1 DEF Session, EventConnected, EventDisconnected, EmptyLast, StopBegin, StopClose,
                StopMediaBusy, StopMediaQueue, MediaBusy, MediaQueue, CompleteLater, CompleteNow,
                CloudDone
  <1>2. CASE Frames
    BY <1>2 DEF Frames, Frame, FrameFree, FrameEvict, FrameDropped, Enqueue
  <1>3. CASE Closing
    BY <1>3 DEF Closing, Close, CloseTest, CloseStop, CloseMode, CloseRate, ClosePlaying,
                CloseBusy, Return, CloudDone
  <1>4. CASE Playing
    BY <1>4 DEF Playing, Take, TakeEnd, CheckPath, Prepare, PrepareBusy, PrepareMode, PrepareRate,
                PrepareStart, PreparePlaying, Write, GiveBack, GiveBackLate
  <1>5. CASE Others
    BY <1>5 DEF Others, SfxPlay, SfxTask, SfxTake, SfxLoaded, SfxMissing, SfxMode, SfxRate,
                SfxStart, SfxNext, SfxWrite, SfxEnd, SfxStop, SfxEndMode, SfxEndRate, SfxDone,
                RecordStart, RecordStop, ShouldAbort
  <1> QED
    BY <1>1, <1>2, <1>3, <1>4, <1>5, Steps

-----------------------------------------------------------------------------
(* The invariant, and what follows from it *)

LEMMA InvInit == Init => Inv
  <1> SUFFICES ASSUME Init PROVE Inv
    OBVIOUS
  <1> USE SlotAssumption, BoundAssumption DEF Init
  <1>1. FlagTypes
    BY ZenonT(40) DEF FlagTypes
  <1>2. PlaceTypes /\ CountTypes
    BY DEF PlaceTypes, CountTypes, Phase
  <1>3. PoolTypes
    BY AllFree DEF PoolTypes, Slot, NoSlot
  <1>4. Located /\ Drained /\ HandsOff /\ GivesWay
    BY DEF Located, Drained, HandsOff, GivesWay, Closer, NoSlot
  <1>5. Apart
    BY AllFree DEF Apart, NoSlot
  <1>6. InOrder
    BY DEF InOrder, Ordered, NoSlot
  <1>7. PathKept
    BY DEF PathKept
  <1> QED
    BY <1>1, <1>2, <1>3, <1>4, <1>5, <1>6, <1>7, TypeParts DEF Inv

LEMMA InvStep == Inv /\ [Next]_vars => Inv'
  <1> SUFFICES ASSUME Inv, [Next]_vars PROVE Inv'
    OBVIOUS
  <1>1. CASE Next
    <2>1. FlagTypes' /\ PlaceTypes' /\ PoolTypes' /\ CountTypes' /\ GivesWay'
      BY <1>1, TypeParts, FlagStep, PlaceStep, PoolStep, CountStep DEF Inv
    <2>2. TypeOK'
      BY <2>1 DEF TypeOK, FlagTypes, PlaceTypes, PoolTypes, CountTypes
    <2>3. Located' /\ Drained' /\ HandsOff'
      BY <1>1, TypeParts, LocatedStep, DrainedStep, HandsOffStep DEF Inv
    <2>4. /\ ~crossed' => Apart' /\ InOrder'
          /\ ~crossed' /\ ~overtaken' => PathKept'
      BY <1>1, TypeParts, ApartStep, InOrderStep, PathStep DEF Inv
    <2> QED
      BY <2>1, <2>2, <2>3, <2>4 DEF Inv
  <1>2. CASE UNCHANGED vars
    <2> USE <1>2 DEF vars, net, pool, work, tts, path, marks, sound, hist
    <2>1. TypeOK'
      BY DEF Inv, TypeOK
    <2>2. Located' /\ Drained' /\ HandsOff' /\ GivesWay'
      BY DEF Inv, Located, Drained, HandsOff, GivesWay, Ending
    <2>3. (~crossed => Apart)' /\ (~crossed => InOrder)'
      BY DEF Inv, Apart, InOrder, Ordered
    <2>4. (~crossed /\ ~overtaken => PathKept)'
      BY DEF Inv, PathKept
    <2> QED
      BY <2>1, <2>2, <2>3, <2>4 DEF Inv
  <1> QED
    BY <1>1, <1>2

\* What the tasks have in hand, where the slots and the frames are and how the codec is
\* set, in every state that can be reached.
THEOREM Invariant == Spec => []Inv
  BY InvInit, InvStep, PTL DEF Spec

\* Every variable keeps its type, and no queue of slots outgrows its room, for every
\* number of slots.
THEOREM TypeCorrect == Spec => []TypeOK
  <1>1. Inv => TypeOK
    BY DEF Inv
  <1> QED
    BY <1>1, Invariant, PTL

\* The places of a slot are one at most, when the queues and the hands are apart.
LEMMA OnePlace ==
    ASSUME Apart, PoolTypes, NEW s \in Slot
    PROVE  Cardinality(Places(s)) <= 1
  <1>1. \A p \in Places(s) :
           \/ \E i \in 1 .. Len(free) : free[i] = s /\ p = <<"free", i>>
           \/ \E i \in 1 .. Len(waiting) : waiting[i] = s /\ p = <<"waiting", i>>
           \/ held = s /\ p = <<"held", 0>>
    BY DEF Places, PoolTypes
  <1>2. \A p, q \in Places(s) : p = q
    BY <1>1 DEF Apart
  <1>3. CASE Places(s) = {}
    BY <1>3, FS_EmptySet
  <1>4. ASSUME NEW p \in Places(s) PROVE Cardinality(Places(s)) <= 1
    <2>1. Places(s) = {p}
      BY <1>2, <1>4
    <2> QED
      BY <2>1, FS_Singleton
  <1> QED
    BY <1>3, <1>4

\* No slot is in two places: no frame is overwritten while it waits or plays.
THEOREM SlotsOwned == Spec => []SlotOwnership
  <1>1. Inv => SlotOwnership
    BY OnePlace, TypeParts DEF Inv, SlotOwnership
  <1> QED
    BY <1>1, Invariant, PTL

\* The frames of an answer are played in the order they came, each at most once.
THEOREM InOrderPlayed == Spec => PlaysInOrder
  <1>1. Inv /\ [Next]_vars => [~crossed' /\ last' # last => last' > last]_vars
    <2> SUFFICES ASSUME Inv, Next, ~crossed', last' # last PROVE last' > last
      BY DEF vars
    <2>1. InOrder
      BY CrossedStays DEF Inv
    <2>2. CASE Write
      <3>1. held # NoSlot /\ pc # "return" /\ last' = content[held]
        BY <2>2 DEF Write, Inv, Located
      <3> QED
        BY <2>1, <3>1 DEF InOrder
    <2>3. ~Write => last' = last
      BY TypeParts, PoolMoves, FrameMoves
         DEF Inv, Emptied, PoolStays, Take, GiveBack, GiveBackLate, hist
    <2> QED
      BY <2>2, <2>3
  <1> QED
    BY <1>1, Invariant, PTL DEF Spec, PlaysInOrder

\* A frame that the codec accepts is played in playback mode at 24 kHz.
THEOREM RightlyPlayed == Spec => RightPath
  <1>1. Inv => (~crossed /\ ~overtaken /\ pc = "write" => mode /\ rate = Play)
    BY DEF Inv, PathKept
  <1> QED
    BY <1>1, Invariant, PTL DEF Spec, RightPath

\* Each frame of an answer is played whole, in its turn and the right way.
THEOREM Played == Spec => PlayedRight
  BY SlotsOwned, InOrderPlayed, RightlyPlayed, PTL DEF PlayedRight

\* Once the cloud has taken the codec, a local sound writes one more chunk at most.
THEOREM SoundsYield == Spec => [](over <= 1)
  <1>1. Inv => over <= 1
    BY DEF Inv, GivesWay
  <1> QED
    BY <1>1, Invariant, PTL

=============================================================================

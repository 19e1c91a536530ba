---------------------------- MODULE TtsPlayback ----------------------------
(***************************************************************************)
(* The speaker side of the device: the WebSocket task puts the audio of    *)
(* the cloud's answer (TTS) into a pool of slots, the worker ws_tts_play   *)
(* writes them to the codec, the sfx task plays local sounds on the same   *)
(* codec, the recorder switches the codec on and off, and the transport    *)
(* coordinator stops the session (ws_client.c, sfx_service.c, hal_audio.c, *)
(* voice_fsm.c).  One action is what a task does from one access to state  *)
(* that another task shares to the next.  The codec of hal_audio.c has no  *)
(* lock and no owner: three flags that four tasks write.                   *)
(***************************************************************************)
EXTENDS Integers, Sequences, FiniteSets

CONSTANTS
    Depth,      \* WS_TTS_QUEUE_DEPTH, the number of slots
    Start,      \* WS_TTS_START_BUFFER_FRAMES
    MaxFrames,  \* bound: audio frames the server sends
    MaxChunks,  \* bound: chunks of SFX_STREAM_CHUNK_SIZE in a local sound
    MaxEvents   \* bound: what comes from outside, all together: lost connections,
                \* calls of ws_client_stop, local sounds asked for, recordings

ASSUME SlotAssumption == Depth \in Nat \ {0} /\ Start \in Nat \ {0}
ASSUME BoundAssumption == {MaxFrames, MaxChunks, MaxEvents} \subseteq Nat

Slot   == 1 .. Depth
NoSlot == 0
\* kHz: SAMPLE_RATE_RECORD and SAMPLE_RATE_PLAY
Record == 16
Play   == 24

VARIABLES
    events,     \* the events from outside so far
    link,       \* there is a connection
    handler,    \* where the event handler of the WebSocket task is
    stopper,    \* where ws_client_stop is
    free,       \* s_tts_free_slots
    waiting,    \* s_tts_pending_slots
    content,    \* s_tts_frame_pool: the number of the frame in each slot
    endp,       \* s_tts_end_pending
    received,   \* frames received so far
    pc, held,   \* the worker: where it is, and the slot it has in hand
    playing,    \* s_tts_playing
    closing,    \* how far each task is in ws_finish_tts_playback or ws_abort_tts_playback
    running,    \* is_running of hal_audio.c
    mode,       \* is_playback_mode
    rate,       \* current_sample_rate
    cloud,      \* cloud_audio_busy of sfx_service.c
    stopped,    \* stop_requested
    request,    \* a sound is pending
    current,    \* request_generation is the one the sfx task took
    local,      \* local_busy
    sfx, chunks,
    recording,  \* g_state = VOICE_STATE_RECORDING
    \* history: the answer of the server, "none" on this connection, "open", or
    \* "ended" by LAST; the worker had or took a frame while a session was
    \* being ended; the sfx task put the codec back while the cloud had it;
    \* the chunks of a local sound written since then; the last frame played
    answer, crossed, overtaken, over, last

net    == <<events, link, handler, stopper>>
pool   == <<free, waiting, content, endp, received>>
work   == <<pc, held>>
tts    == <<playing, closing>>
path   == <<running, mode, rate>>
marks  == <<cloud, stopped, request, current>>
sound  == <<local, sfx, chunks>>
hist   == <<answer, crossed, overtaken, over, last>>
vars   == <<net, pool, work, tts, path, marks, sound, recording, hist>>

\* The tasks that can close the playback.
Closer == {"worker", "handler", "stopper"}

Init ==
    /\ events = 0 /\ link = FALSE /\ handler = "idle" /\ stopper = "idle"
    /\ free = [i \in 1 .. Depth |-> i] /\ waiting = <<>> /\ content = [s \in Slot |-> 0]
    /\ endp = FALSE /\ received = 0
    /\ pc = "look" /\ held = NoSlot
    /\ playing = FALSE /\ closing = [a \in Closer |-> "no"]
    /\ running = TRUE /\ mode = FALSE /\ rate = Record
    /\ cloud = FALSE /\ stopped = FALSE /\ request = FALSE /\ current = FALSE
    /\ local = FALSE /\ sfx = "idle" /\ chunks = 0
    /\ recording = FALSE
    /\ answer = "none" /\ crossed = FALSE /\ overtaken = FALSE /\ over = 0 /\ last = 0

-----------------------------------------------------------------------------
(* Steps that several tasks make *)

\* ws_tts_queue_reset_locked: every slot is free, the one in hand included.
ResetQueue ==
    /\ free' = [i \in 1 .. Depth |-> i] /\ waiting' = <<>> /\ endp' = FALSE
    /\ UNCHANGED <<content, received>>

\* A session is being ended: by the coordinator or by the handler.
Ending == stopper # "idle" \/ handler \in {"abort", "media", "queue"}

\* sfx_service_set_cloud_audio_busy(false)
CloudDone == cloud' = FALSE /\ UNCHANGED <<stopped, request, current>>

\* The task goes on after it has closed the playback.
Return(a) ==
    /\ pc'      = IF a = "worker" THEN "look" ELSE pc
    /\ handler' = IF a # "handler" THEN handler ELSE IF handler = "abort" THEN "media" ELSE "idle"
    /\ stopper' = IF a = "stopper" THEN "close" ELSE stopper
    /\ UNCHANGED <<events, link, held>>

\* if (s_tts_playing)
CloseTest(a) ==
    /\ closing[a] = "test"
    /\ closing' = [closing EXCEPT ![a] = IF playing THEN "stop" ELSE "busy"]
    /\ UNCHANGED <<net, pool, work, playing, path, marks, sound, recording, hist>>

\* hal_audio_stop.  ws_finish_tts_playback waits 500 ms before it, longer than
\* the 100 ms a write can take: the worker has nothing in hand any more.
CloseStop(a) ==
    /\ closing[a] = "stop"
    /\ (a = "handler" /\ handler = "finish") => held = NoSlot
    /\ closing' = [closing EXCEPT ![a] = "mode"]
    /\ running' = FALSE
    /\ UNCHANGED <<net, pool, work, playing, mode, rate, marks, sound, recording, hist>>

\* hal_audio_set_playback_mode(false)
CloseMode(a) ==
    /\ closing[a] = "mode"
    /\ closing' = [closing EXCEPT ![a] = "rate"]
    /\ mode' = FALSE
    /\ UNCHANGED <<net, pool, work, playing, running, rate, marks, sound, recording, hist>>

\* hal_audio_set_sample_rate(16000)
CloseRate(a) ==
    /\ closing[a] = "rate"
    /\ closing' = [closing EXCEPT ![a] = "playing"]
    /\ rate' = Record
    /\ UNCHANGED <<net, pool, work, playing, running, mode, marks, sound, recording, hist>>

\* s_tts_playing = false
ClosePlaying(a) ==
    /\ closing[a] = "playing"
    /\ closing' = [closing EXCEPT ![a] = "busy"]
    /\ playing' = FALSE
    /\ UNCHANGED <<net, pool, work, path, marks, sound, recording, hist>>

\* sfx_service_set_cloud_audio_busy(false), and the return
CloseBusy(a) ==
    /\ closing[a] = "busy"
    /\ closing' = [closing EXCEPT ![a] = "no"]
    /\ CloudDone /\ Return(a)
    /\ UNCHANGED <<pool, playing, path, sound, recording, hist>>

Close(a) == \/ CloseTest(a) \/ CloseStop(a) \/ CloseMode(a)
            \/ CloseRate(a) \/ ClosePlaying(a) \/ CloseBusy(a)

-----------------------------------------------------------------------------
(* The WebSocket task: ws_event_handler *)

\* Events come while the client runs and its task is not inside a handler.
Listening == handler = "idle" /\ stopper \in {"idle", "abort", "close"}

\* WEBSOCKET_EVENT_CONNECTED, up to ws_reset_media_state.  The coordinator waits
\* CLOUD_RETRY_DELAY_MS, 2 s, before it connects again: the worker has written
\* what it had in hand.
EventConnected ==
    /\ held = NoSlot
    /\ ~link /\ handler = "idle" /\ stopper = "idle"
    /\ link' = TRUE /\ handler' = "media"
    /\ UNCHANGED <<events, stopper, pool, work, tts, path, marks, sound, recording, hist>>

\* WEBSOCKET_EVENT_DISCONNECTED: ws_abort_tts_playback empties the queue ...
EventDisconnected ==
    /\ link /\ Listening
    /\ link' = FALSE /\ handler' = "abort" /\ closing' = [closing EXCEPT !["handler"] = "test"]
    /\ ResetQueue /\ crossed' = (crossed \/ held # NoSlot)
    /\ answer' = "none"
    /\ events < MaxEvents /\ events' = events + 1
    /\ UNCHANGED <<stopper, work, playing, path, marks, sound, recording, overtaken, over, last>>

\* ... and, once it has returned, ws_reset_media_state clears the mark ...
MediaBusy ==
    /\ handler = "media"
    /\ handler' = "queue"
    /\ CloudDone
    /\ UNCHANGED <<events, link, stopper, pool, work, tts, path, sound, recording, hist>>

\* ... and empties the queue again.
MediaQueue ==
    /\ handler = "queue"
    /\ handler' = "idle"
    /\ ResetQueue
    /\ UNCHANGED <<events, link, stopper, work, tts, path, marks, sound, recording, hist>>

\* ws_handle_tts_binary puts a frame into slot s, at the end of the queue q; the
\* flag LAST makes ws_tts_complete follow.
Enqueue(s, q, f, lastFlag) ==
    /\ content' = [content EXCEPT ![s] = received + 1]
    /\ IF Len(q) < Depth THEN free' = f /\ waiting' = Append(q, s)
       ELSE free' = Append(f, s) /\ waiting' = q
    /\ received' = received + 1
    /\ handler' = IF lastFlag THEN "complete" ELSE "idle"
    /\ answer' = "open"
    /\ UNCHANGED <<events, link, stopper, endp, work, tts, path, marks, sound, recording,
                   crossed, overtaken, over, last>>

Arrives == link /\ Listening /\ received < MaxFrames

\* An audio frame, into a free slot, ...
FrameFree(lastFlag) ==
    /\ Arrives /\ free # <<>>
    /\ Enqueue(Head(free), waiting, Tail(free), lastFlag)

\* Mutant of FrameEvict: the frame takes the place of the oldest one.
EvictInPlace(lastFlag) ==
    /\ Arrives /\ free = <<>> /\ waiting # <<>>
    /\ content' = [content EXCEPT ![Head(waiting)] = received + 1]
    /\ received' = received + 1
    /\ handler' = IF lastFlag THEN "complete" ELSE "idle"
    /\ answer' = "open"
    /\ UNCHANGED <<events, link, stopper, free, waiting, endp, work, tts, path, marks,
                   sound, recording, crossed, overtaken, over, last>>

\* ... or into the slot of the oldest frame that waits, ...
FrameEvict(lastFlag) ==
    /\ Arrives /\ free = <<>> /\ waiting # <<>>
    /\ Enqueue(Head(waiting), Tail(waiting), <<>>, lastFlag)

\* ... or nowhere: every slot is lost or in the worker's hands.
FrameDropped(lastFlag) ==
    /\ Arrives /\ free = <<>> /\ waiting = <<>>
    /\ received' = received + 1
    /\ handler' = IF lastFlag THEN "complete" ELSE "idle"
    /\ answer' = "open"
    /\ UNCHANGED <<events, link, stopper, free, waiting, content, endp, work, tts, path,
                   marks, sound, recording, crossed, overtaken, over, last>>

\* A packet without audio that is marked LAST.
EmptyLast ==
    /\ link /\ Listening
    /\ answer = "open"
    /\ handler' = "complete"
    /\ UNCHANGED <<events, link, stopper, pool, work, tts, path, marks, sound, recording, hist>>

\* ws_tts_complete with frames waiting leaves the end to the worker ...
CompleteLater ==
    /\ handler = "complete" /\ waiting # <<>>
    /\ endp' = TRUE /\ handler' = "idle" /\ answer' = "ended"
    /\ UNCHANGED <<events, link, stopper, free, waiting, content, received, work, tts,
                   path, marks, sound, recording, crossed, overtaken, over, last>>

\* ... and closes the playback itself when there are none.
CompleteNow ==
    /\ handler = "complete" /\ waiting = <<>>
    /\ handler' = "finish" /\ closing' = [closing EXCEPT !["handler"] = "test"]
    /\ answer' = "ended"
    /\ UNCHANGED <<events, link, stopper, pool, work, playing, path, marks, sound, recording,
                   crossed, overtaken, over, last>>

-----------------------------------------------------------------------------
(* ws_client_stop, called by the transport coordinator *)

\* ws_abort_tts_playback, while the WebSocket task still delivers frames
StopBegin ==
    /\ stopper = "idle"
    /\ stopper' = "abort"
    /\ closing' = [closing EXCEPT !["stopper"] = "test"]
    /\ ResetQueue /\ crossed' = (crossed \/ held # NoSlot)
    /\ answer' = "none"
    /\ events < MaxEvents /\ events' = events + 1
    /\ UNCHANGED <<link, handler, work, playing, path, marks, sound, recording, overtaken, over, last>>

\* esp_websocket_client_stop waits for the handler to return; it is not called
\* when the handler of the disconnection has cleared s_ws_started.
StopClose ==
    /\ stopper = "close" /\ (handler = "idle" \/ ~link)
    /\ stopper' = "media" /\ link' = FALSE /\ answer' = "none"
    /\ UNCHANGED <<events, handler, pool, work, tts, path, marks, sound, recording, crossed, overtaken, over, last>>

\* ws_reset_session_state: ws_reset_media_state clears the mark ...
StopMediaBusy ==
    /\ stopper = "media"
    /\ stopper' = "queue"
    /\ CloudDone
    /\ UNCHANGED <<events, link, handler, pool, work, tts, path, sound, recording, hist>>

\* ... and empties the queue.
StopMediaQueue ==
    /\ stopper = "queue"
    /\ stopper' = "idle"
    /\ ResetQueue
    /\ UNCHANGED <<events, link, handler, work, tts, path, marks, sound, recording, hist>>

-----------------------------------------------------------------------------
(* The worker: ws_tts_worker_task *)

\* Mutant of Due: the end of the answer does not release the last frame.
DueBuffered == playing \/ Len(waiting) >= Start

\* The condition under which the worker takes a frame.
Due == playing \/ Len(waiting) >= Start \/ endp

\* Under the queue lock: the oldest frame, ...
Take ==
    /\ pc = "look" /\ waiting # <<>> /\ Due
    /\ held' = Head(waiting) /\ waiting' = Tail(waiting) /\ pc' = "check"
    /\ crossed' = (crossed \/ Ending)
    /\ UNCHANGED <<net, free, content, endp, received, tts, path, marks, sound, recording, answer, overtaken, over, last>>

\* ... or the end of the answer: ws_finish_tts_playback.
TakeEnd ==
    /\ pc = "look" /\ waiting = <<>> /\ endp
    /\ endp' = FALSE /\ pc' = "finish" /\ closing' = [closing EXCEPT !["worker"] = "test"]
    /\ UNCHANGED <<net, free, waiting, content, received, held, playing, path, marks, sound, recording, hist>>

\* The codec is as the playback needs it, or must be prepared.
CheckPath ==
    /\ pc = "check"
    /\ pc' = IF playing /\ running /\ mode THEN "write" ELSE "busy"
    /\ UNCHANGED <<net, pool, held, tts, path, marks, sound, recording, hist>>

\* ws_prepare_tts_playback: sfx_service_set_cloud_audio_busy(true), ...
PrepareBusy ==
    /\ pc = "busy"
    /\ pc' = "mode"
    /\ cloud' = TRUE /\ stopped' = TRUE /\ request' = FALSE /\ current' = FALSE
    /\ over' = IF cloud THEN over ELSE 0
    /\ UNCHANGED <<net, pool, held, tts, path, sound, recording, answer, crossed, overtaken, last>>

\* hal_audio_set_playback_mode(true), ...
PrepareMode ==
    /\ pc = "mode"
    /\ pc' = "rate" /\ mode' = TRUE
    /\ UNCHANGED <<net, pool, held, tts, running, rate, marks, sound, recording, hist>>

\* hal_audio_set_sample_rate(24000), ...
PrepareRate ==
    /\ pc = "rate"
    /\ pc' = "start" /\ rate' = Play
    /\ UNCHANGED <<net, pool, held, tts, running, mode, marks, sound, recording, hist>>

\* hal_audio_start, ...
PrepareStart ==
    /\ pc = "start"
    /\ pc' = "playing" /\ running' = TRUE
    /\ UNCHANGED <<net, pool, held, tts, mode, rate, marks, sound, recording, hist>>

\* s_tts_playing = true
PreparePlaying ==
    /\ pc = "playing"
    /\ pc' = "write" /\ playing' = TRUE
    /\ UNCHANGED <<net, pool, held, closing, path, marks, sound, recording, hist>>

\* hal_audio_write; it refuses the frame when the codec was stopped meanwhile.
Write ==
    /\ pc = "write"
    /\ pc' = "return"
    /\ last' = IF running THEN content[held] ELSE last
    /\ UNCHANGED <<net, pool, held, tts, path, marks, sound, recording, answer, crossed, overtaken, over>>

\* Mutant of GiveBack: the queue has room for one more.
GiveBackAnyway ==
    /\ pc = "return"
    /\ pc' = "look" /\ held' = NoSlot
    /\ free' = Append(free, held)
    /\ UNCHANGED <<net, waiting, content, endp, received, tts, path, marks, sound, recording, hist>>

\* Under the queue lock: the slot is free again, if the queue has room for it.
GiveBack ==
    /\ pc = "return"
    /\ pc' = "look" /\ held' = NoSlot
    /\ free' = IF Len(free) < Depth THEN Append(free, held) ELSE free
    /\ UNCHANGED <<net, waiting, content, endp, received, tts, path, marks, sound, recording, hist>>

\* The lock was not to be had within 20 ms: the slot is lost until the next reset.
GiveBackLate ==
    /\ pc = "return"
    /\ pc' = "look" /\ held' = NoSlot
    /\ UNCHANGED <<net, pool, tts, path, marks, sound, recording, hist>>

-----------------------------------------------------------------------------
(* The sfx task, and sfx_service_play of the behaviour task *)

\* sfx_service_play; with cloud audio busy it is refused.
SfxPlay ==
    /\ ~cloud
    /\ request' = TRUE /\ stopped' = FALSE /\ current' = FALSE
    /\ events < MaxEvents /\ events' = events + 1
    /\ UNCHANGED <<link, handler, stopper, pool, work, tts, path, cloud, local, sfx, chunks, recording, hist>>

\* sfx_take_pending_request
SfxTake ==
    /\ sfx = "idle" /\ request /\ ~cloud
    /\ local' = TRUE /\ request' = FALSE /\ current' = TRUE
    /\ sfx' = "load"
    /\ UNCHANGED <<net, pool, work, tts, path, cloud, stopped, chunks, recording, hist>>

\* sfx_playback_should_abort
ShouldAbort == stopped \/ cloud \/ ~current

\* The file is loaded, and the request is still wanted, ...
SfxLoaded ==
    /\ sfx = "load"
    /\ sfx' = IF ShouldAbort THEN "done" ELSE "mode"
    /\ chunks' = MaxChunks
    /\ UNCHANGED <<net, pool, work, tts, path, marks, local, recording, hist>>

\* ... or there is no such file.
SfxMissing ==
    /\ sfx = "load"
    /\ sfx' = "done"
    /\ UNCHANGED <<net, pool, work, tts, path, marks, local, chunks, recording, hist>>

\* hal_audio_set_playback_mode(true), ...
SfxMode ==
    /\ sfx = "mode"
    /\ sfx' = "rate" /\ mode' = TRUE
    /\ UNCHANGED <<net, pool, work, tts, running, rate, marks, local, chunks, recording, hist>>

\* ... hal_audio_set_sample_rate(24000), ...
SfxRate ==
    /\ sfx = "rate"
    /\ sfx' = "start" /\ rate' = Play
    /\ UNCHANGED <<net, pool, work, tts, running, mode, marks, local, chunks, recording, hist>>

\* ... hal_audio_start
SfxStart ==
    /\ sfx = "start"
    /\ sfx' = "chunk" /\ running' = TRUE
    /\ UNCHANGED <<net, pool, work, tts, mode, rate, marks, local, chunks, recording, hist>>

\* Mutant of SfxNext: the mark is looked at before the first chunk only.
SfxGoesOn ==
    /\ sfx = "chunk"
    /\ sfx' = IF chunks = 0 \/ (ShouldAbort /\ chunks = MaxChunks) THEN "end" ELSE "write"
    /\ UNCHANGED <<net, pool, work, tts, path, marks, local, chunks, recording, hist>>

\* Before each chunk of the sound: is it over, or to be aborted?
SfxNext ==
    /\ sfx = "chunk"
    /\ sfx' = IF chunks = 0 \/ ShouldAbort THEN "end" ELSE "write"
    /\ UNCHANGED <<net, pool, work, tts, path, marks, local, chunks, recording, hist>>

\* hal_audio_write; a chunk that the codec refuses ends the sound.
SfxWrite ==
    /\ sfx = "write"
    /\ IF running
       THEN /\ sfx' = "chunk" /\ chunks' = chunks - 1
            /\ over' = IF cloud THEN over + 1 ELSE 0
       ELSE sfx' = "end" /\ UNCHANGED <<chunks, over>>
    /\ UNCHANGED <<net, pool, work, tts, path, marks, local, recording, answer, crossed, overtaken, last>>

\* sfx_is_cloud_audio_busy: hand the codec over as it is, or put it back.
SfxEnd ==
    /\ sfx = "end"
    /\ sfx' = IF cloud THEN "done" ELSE "stopcodec"
    /\ UNCHANGED <<net, pool, work, tts, path, marks, local, chunks, recording, hist>>

\* hal_audio_stop, ...
SfxStop ==
    /\ sfx = "stopcodec"
    /\ sfx' = "endmode" /\ running' = FALSE
    /\ overtaken' = (overtaken \/ cloud \/ playing \/ held # NoSlot)
    /\ UNCHANGED <<net, pool, work, tts, mode, rate, marks, local, chunks, recording, answer, crossed, over, last>>

\* ... hal_audio_set_playback_mode(false), ...
SfxEndMode ==
    /\ sfx = "endmode"
    /\ sfx' = "endrate" /\ mode' = FALSE
    /\ overtaken' = (overtaken \/ cloud \/ playing \/ held # NoSlot)
    /\ UNCHANGED <<net, pool, work, tts, running, rate, marks, local, chunks, recording, answer, crossed, over, last>>

\* ... hal_audio_set_sample_rate(16000)
SfxEndRate ==
    /\ sfx = "endrate"
    /\ sfx' = "done" /\ rate' = Record
    /\ overtaken' = (overtaken \/ cloud \/ playing \/ held # NoSlot)
    /\ UNCHANGED <<net, pool, work, tts, running, mode, marks, local, chunks, recording, answer, crossed, over, last>>

\* sfx_set_local_busy(false)
SfxDone ==
    /\ sfx = "done"
    /\ sfx' = "idle" /\ local' = FALSE /\ stopped' = FALSE /\ chunks' = 0
    /\ UNCHANGED <<net, pool, work, tts, path, cloud, request, current, recording, hist>>

-----------------------------------------------------------------------------
(* The recorder: start_recording and stop_recording of voice_fsm.c *)

RecordStart ==
    /\ ~recording /\ link
    /\ recording' = TRUE /\ running' = TRUE
    /\ events < MaxEvents /\ events' = events + 1
    /\ UNCHANGED <<link, handler, stopper, pool, work, tts, mode, rate, marks, sound, hist>>

RecordStop ==
    /\ recording
    /\ recording' = FALSE /\ running' = FALSE
    /\ UNCHANGED <<net, pool, work, tts, mode, rate, marks, sound, hist>>

-----------------------------------------------------------------------------
Frame(lastFlag) == FrameFree(lastFlag) \/ FrameEvict(lastFlag) \/ FrameDropped(lastFlag)
Complete == CompleteLater \/ CompleteNow
Handler  == Complete \/ Close("handler") \/ MediaBusy \/ MediaQueue
Stop     == Close("stopper") \/ StopClose \/ StopMediaBusy \/ StopMediaQueue
Prepare  == PrepareBusy \/ PrepareMode \/ PrepareRate \/ PrepareStart \/ PreparePlaying
Worker   == Take \/ TakeEnd \/ CheckPath \/ Prepare \/ Write \/ GiveBack \/ GiveBackLate \/ Close("worker")
SfxTask  == \/ SfxTake \/ SfxLoaded \/ SfxMissing \/ SfxMode \/ SfxRate \/ SfxStart
            \/ SfxNext \/ SfxWrite \/ SfxEnd \/ SfxStop \/ SfxEndMode \/ SfxEndRate \/ SfxDone

Next ==
    \/ EventConnected \/ EventDisconnected \/ EmptyLast \/ StopBegin
    \/ \E lastFlag \in BOOLEAN : Frame(lastFlag)
    \/ Handler \/ Stop \/ Worker
    \/ SfxPlay \/ SfxTask
    \/ RecordStart \/ RecordStop

Spec == Init /\ [][Next]_vars

\* Every task goes on once it has begun; the server, the scripts, the user and
\* the network owe nothing.
FairSpec == Spec /\ WF_vars(Handler) /\ WF_vars(Stop) /\ WF_vars(Worker) /\ WF_vars(SfxTask)

-----------------------------------------------------------------------------
(* Properties *)

Phase == {"no", "test", "stop", "mode", "rate", "playing", "busy"}

\* Every variable has its type: the two queues hold slots and never more than
\* the queues of FreeRTOS have room for.
TypeOK ==
    /\ link \in BOOLEAN /\ events \in 0 .. MaxEvents
    /\ handler \in {"idle", "complete", "finish", "abort", "media", "queue"}
    /\ stopper \in {"idle", "abort", "close", "media", "queue"}
    /\ free \in Seq(Slot) /\ Len(free) <= Depth
    /\ waiting \in Seq(Slot) /\ Len(waiting) <= Depth
    /\ content \in [Slot -> 0 .. MaxFrames] /\ endp \in BOOLEAN /\ received \in 0 .. MaxFrames
    /\ pc \in {"look", "check", "busy", "mode", "rate", "start", "playing", "write", "return", "finish"}
    /\ held \in Slot \cup {NoSlot}
    /\ playing \in BOOLEAN /\ closing \in [Closer -> Phase]
    /\ running \in BOOLEAN /\ mode \in BOOLEAN /\ rate \in {Record, Play}
    /\ cloud \in BOOLEAN /\ stopped \in BOOLEAN /\ request \in BOOLEAN /\ current \in BOOLEAN
    /\ local \in BOOLEAN /\ chunks \in 0 .. MaxChunks
    /\ sfx \in {"idle", "load", "mode", "rate", "start", "chunk", "write", "end", "stopcodec",
                "endmode", "endrate", "done"}
    /\ recording \in BOOLEAN
    /\ answer \in {"none", "open", "ended"} /\ crossed \in BOOLEAN /\ overtaken \in BOOLEAN
    /\ over \in Nat /\ last \in 0 .. MaxFrames

\* All the places slot s is in.
Places(s) == {<<"free", i>> : i \in {j \in DOMAIN free : free[j] = s}}
             \cup {<<"waiting", i>> : i \in {j \in DOMAIN waiting : waiting[j] = s}}
             \cup {<<"held", 0>> : x \in {y \in {held} : y = s}}

\* No slot is in two places, so that no frame is overwritten while it waits or
\* plays: in the free queue, in the pending queue, in the worker's hands.  The
\* exception is named by crossed: ws_tts_queue_reset_locked (202-218) gives out
\* the slot in the worker's hands when the end of a session meets the worker.
SlotOwnership == ~crossed => \A s \in Slot : Cardinality(Places(s)) <= 1

\* The frames of an answer are played in the order they came, each at most
\* once, whatever was evicted, dropped or lost in between (1933-1958, 595).
PlaysInOrder == [][~crossed' /\ last' # last => last' > last]_vars

\* Nothing of the answer is left: nothing waits, plays, or keeps sounds away.
Quiet == ~playing /\ ~cloud /\ waiting = <<>> /\ ~endp /\ pc = "look"

\* COMM_PROTOCOL_FREEZE.md:213, "after the audio packet marked LAST the playback
\* is finished properly": once the server has marked the end of the answer, and
\* the session goes on, the queue drains and the codec is given back, whichever
\* of the handler and the worker finds the queue empty (1978-1991, 599-602).
Completes == (answer = "ended" /\ ~crossed) ~> (answer # "ended" \/ crossed \/ Quiet)

\* A sound that has been begun ends, so that whoever waits for
\* sfx_service_is_busy (the boot, the behaviour scripts) goes on.
SfxReleases == local ~> ~local

\* A frame that the codec accepts is played in playback mode at 24 kHz, whatever
\* recordings, sounds and ends of answers do to the codec meanwhile.  The two
\* exceptions are crossed, and the race named by overtaken: the sfx task finds
\* the cloud idle (459) and puts the codec back (463-465) after the cloud took it.
RightPath == [][~crossed /\ ~overtaken /\ pc = "write" /\ pc' = "return" /\ running
                => mode /\ rate = Play]_vars

\* Each frame is played whole, in its turn and the right way.
PlayedRight == []SlotOwnership /\ PlaysInOrder /\ RightPath

\* A local sound gives way to the cloud, and lets go of those who wait for it: once
\* the cloud has taken the codec, a sound that is playing writes at most the one chunk
\* it was about to write (sfx_service.c:233-243, 326, 351).
LocalSounds == [](over <= 1) /\ SfxReleases

=============================================================================

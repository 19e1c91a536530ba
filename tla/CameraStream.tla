---------------------------- MODULE CameraStream ----------------------------
(***************************************************************************)
(* The camera path of the firmware, from the command of the server to the  *)
(* media packets it gets back.                                             *)
(*                                                                         *)
(*   ws      the WebSocket task: on_capture_handler and the handler of     *)
(*           WEBSOCKET_EVENT_DISCONNECTED (ws_handlers.c, ws_client.c)     *)
(*   coord   the transport coordinator inside ws_client_stop               *)
(*   stream  hal_camera_stream_task (hal_camera.c)                         *)
(*   upload  ws_camera_upload_task (ws_handlers.c)                         *)
(*   rx      the task of the camera co-processor's driver, which delivers  *)
(*           replies, late ones too, to hal_camera_extract_capture         *)
(*                                                                         *)
(* Two tasks take pictures (ws one, stream many) and two tasks stop the    *)
(* stream (ws, coord); the procedures they share have the task as their    *)
(* parameter.  A step of the model is one critical section or one blocking *)
(* call of the code.  Frames are told apart by the stream they come from.  *)
(***************************************************************************)
EXTENDS Integers

CONSTANTS
    MaxCmds,      \* camera commands the server sends
    MaxEnds,      \* connections that break and calls of ws_client_stop
    MaxReplies    \* replies the co-processor can have under way

ASSUME BoundsAssumption ==
    /\ MaxCmds \in Nat /\ MaxEnds \in Nat
    /\ MaxReplies \in Nat \ {0}

Stoppers == {"ws", "coord"}        \* tasks that call camera_service_stop_stream
Takers   == {"ws", "stream"}       \* tasks that take a picture
Tasks    == {"ws", "coord", "stream", "upload", "rx"}

VARIABLES
    pc,        \* where each task is
    why,       \* "stop" or "lost": what the WebSocket task stops the stream for
    svc,       \* camera_service_context_t.streaming
    hal,       \* hal_camera_context_t: streaming, stream_stop_requested, stream_task
    cap,       \* capture_in_progress, whether capture_image is set, capture_sem
    replies,   \* replies of the co-processor under way
    ctx,       \* s_camera_ctx: streaming, transfer_active, video_first_frame_pending
    pending,   \* stream of the frame in pending_jpeg, 0 for none
    frameSem,  \* frame_ready_sem
    up,        \* the frame the upload task took last: its stream, marked FIRST?
    live,      \* copies of frames on the heap
    link,      \* "up", "broken" (not noticed yet) or "down"
    gen,       \* number of the last stream begun
    srv,       \* what the server saw: LAST of the stream, frames after it,
               \* images it still waits for
    cmds, ends

session == <<link, srv>>
media   == <<ctx, pending, frameSem, live>>
budget  == <<cmds, ends>>
vars == <<pc, why, svc, hal, cap, replies, ctx, pending, frameSem, up,
          live, link, gen, srv, cmds, ends>>

Goto(p, l) == pc' = [pc EXCEPT ![p] = l]
One(b) == IF b THEN 1 ELSE 0

Init ==
    /\ pc = [p \in Tasks |-> IF p = "coord" THEN "run"
                             ELSE IF p = "stream" THEN "none" ELSE "idle"]
    /\ why = "stop"
    /\ svc = FALSE
    /\ hal = [streaming |-> FALSE, stopReq |-> FALSE, task |-> FALSE]
    /\ cap = [busy |-> FALSE, image |-> FALSE, sem |-> FALSE]
    /\ replies = 0
    /\ ctx = [streaming |-> FALSE, active |-> FALSE, first |-> FALSE]
    /\ pending = 0
    /\ frameSem = FALSE
    /\ up = [gen |-> 0, first |-> FALSE]
    /\ live = 0
    /\ link = "down"
    /\ gen = 0
    /\ srv = [ended |-> FALSE, late |-> 0, owed |-> 0]
    /\ cmds = 0 /\ ends = 0

-----------------------------------------------------------------------------
(* s_camera_ctx.  Each of these is one critical section of its lock.       *)

\* ws_camera_release_pending_locked and ws_camera_drain_frame_signal
ReleasePending ==
    /\ live' = live - One(pending # 0)
    /\ pending' = 0
    /\ frameSem' = FALSE

\* ws_camera_begin_transfer
BeginTransfer(streaming) ==
    /\ ctx' = [streaming |-> streaming, active |-> TRUE, first |-> streaming]
    /\ ReleasePending

\* ws_camera_reset_stream and ws_camera_finish_one_shot
EndTransfer ==
    /\ ctx' = [streaming |-> FALSE, active |-> FALSE, first |-> FALSE]
    /\ ReleasePending

-----------------------------------------------------------------------------
(* Taking a picture (hal_camera_take_image_string) and handing it to       *)
(* ws_camera_frame_cb.  The WebSocket task does it once for capture_image, *)
(* the stream task in a loop.                                              *)

Done(p) == IF p = "ws" THEN "idle" ELSE "loop"
Failed(p) == IF p = "ws" THEN "captureFailed" ELSE "loop"

\* hal_camera_prepare_capture, the critical section
Prepare(p) ==
    /\ pc[p] = "prepare"
    /\ IF cap.busy \/ (p = "ws" /\ hal.streaming)
       THEN Goto(p, Failed(p)) /\ UNCHANGED cap
       ELSE Goto(p, "drain") /\ cap' = [cap EXCEPT !.busy = TRUE, !.image = FALSE]
    /\ UNCHANGED <<why, svc, hal, replies, media, up, session, gen, budget>>

\* ... and the draining of capture_sem, after the lock is released
Drain(p) ==
    /\ pc[p] = "drain"
    /\ cap' = [cap EXCEPT !.sem = FALSE]
    /\ Goto(p, "invoke")
    /\ UNCHANGED <<why, svc, hal, replies, media, up, session, gen, budget>>

\* sscma_client_invoke: a picture is under way, or its reply gets lost, or
\* the call fails and hal_camera_abort_capture is next
Invoke(p) ==
    /\ pc[p] = "invoke"
    /\ \/ replies < MaxReplies /\ replies' = replies + 1 /\ Goto(p, "wait")
       \/ UNCHANGED replies /\ Goto(p, "wait")
       \/ UNCHANGED replies /\ Goto(p, "abort")
    /\ UNCHANGED <<why, svc, hal, cap, media, up, session, gen, budget>>

\* capture_sem taken, the image taken over and decoded (which may fail)
TakeImage(p) ==
    /\ pc[p] = "wait" /\ cap.sem
    /\ cap' = [busy |-> FALSE, image |-> FALSE, sem |-> FALSE]
    /\ \/ cap.image /\ Goto(p, "frame")
       \/ Goto(p, Failed(p))
    /\ UNCHANGED <<why, svc, hal, replies, media, up, session, gen, budget>>

\* HAL_CAMERA_CAPTURE_TIMEOUT_MS passes
CaptureTimeout(p) ==
    /\ pc[p] = "wait" /\ ~cap.sem
    /\ Goto(p, "abort")
    /\ UNCHANGED <<why, svc, hal, cap, replies, media, up, session, gen, budget>>

\* hal_camera_abort_capture
AbortCapture(p) ==
    /\ pc[p] = "abort"
    /\ cap' = [cap EXCEPT !.busy = FALSE, !.image = FALSE]
    /\ Goto(p, Failed(p))
    /\ UNCHANGED <<why, svc, hal, replies, media, up, session, gen, budget>>

\* ws_camera_frame_cb: the look at s_camera_ctx and the copy of a stream's
\* frame, for which there may be no memory
FrameFlags(p) ==
    /\ pc[p] = "frame"
    /\ \/ ~ctx.active /\ Goto(p, Done(p)) /\ UNCHANGED live
       \/ ctx.active /\ ctx.streaming /\ Goto(p, "put") /\ live' = live + 1
       \/ ctx.active /\ ctx.streaming /\ Goto(p, Done(p)) /\ UNCHANGED live
       \/ ctx.active /\ ~ctx.streaming /\ Goto(p, "image") /\ UNCHANGED live
    /\ UNCHANGED <<why, svc, hal, cap, replies, ctx, pending, frameSem, up,
                   session, gen, budget>>

\* Mutant of FramePut: the frame that is replaced is not freed.
PutOver(p) ==
    /\ pc[p] = "put"
    /\ pending' = gen
    /\ Goto(p, "signal")
    /\ UNCHANGED <<why, svc, hal, cap, replies, ctx, frameSem, up, live, session,
                   gen, budget>>

\* ... the copy becomes pending_jpeg in place of an older one
FramePut(p) ==
    /\ pc[p] = "put"
    /\ pending' = gen
    /\ live' = live - One(pending # 0)
    /\ Goto(p, "signal")
    /\ UNCHANGED <<why, svc, hal, cap, replies, ctx, frameSem, up, session,
                   gen, budget>>

\* ... and the upload task is woken
FrameSignal(p) ==
    /\ pc[p] = "signal"
    /\ frameSem' = TRUE
    /\ Goto(p, Done(p))
    /\ UNCHANGED <<why, svc, hal, cap, replies, ctx, pending, up, live,
                   session, gen, budget>>

\* ... a frame that is not of a stream goes out as an image
SendImage(p) ==
    /\ pc[p] = "image"
    /\ Goto(p, "imageSent")
    /\ \/ link = "up" /\ srv' = [srv EXCEPT !.owed = @ - 1]
       \/ UNCHANGED srv
    /\ UNCHANGED <<why, svc, hal, cap, replies, media, up, link, gen, budget>>

\* ws_camera_finish_one_shot, at the end of ws_camera_frame_cb for an image
\* and of on_capture_handler for a capture that failed
FinishOneShot(p) ==
    /\ pc[p] \in {"imageSent", "captureFailed"}
    /\ EndTransfer
    /\ Goto(p, Done(p))
    /\ UNCHANGED <<why, svc, hal, cap, replies, up, session, gen, budget>>

Take(p) ==
    \/ Prepare(p) \/ Drain(p) \/ Invoke(p) \/ TakeImage(p) \/ CaptureTimeout(p)
    \/ AbortCapture(p) \/ FrameFlags(p) \/ FramePut(p) \/ FrameSignal(p)
    \/ SendImage(p) \/ FinishOneShot(p)

\* Mutant of Reply: the capture stays in progress when its image has come.
ReplyKeepsBusy ==
    /\ pc["rx"] = "idle" /\ replies > 0
    /\ replies' = replies - 1
    /\ IF cap.busy /\ ~cap.image
       THEN cap' = [cap EXCEPT !.image = TRUE] /\ Goto("rx", "give")
       ELSE UNCHANGED <<cap, pc>>
    /\ UNCHANGED <<why, svc, hal, media, up, session, gen, budget>>

\* hal_camera_extract_capture: a reply is accepted by whoever waits, else dropped
Reply ==
    /\ pc["rx"] = "idle" /\ replies > 0
    /\ replies' = replies - 1
    /\ IF cap.busy /\ ~cap.image
       THEN cap' = [cap EXCEPT !.busy = FALSE, !.image = TRUE] /\ Goto("rx", "give")
       ELSE UNCHANGED <<cap, pc>>
    /\ UNCHANGED <<why, svc, hal, media, up, session, gen, budget>>

\* ... capture_sem is given after the lock is released
ReplyGive ==
    /\ pc["rx"] = "give"
    /\ cap' = [cap EXCEPT !.sem = TRUE]
    /\ Goto("rx", "idle")
    /\ UNCHANGED <<why, svc, hal, replies, media, up, session, gen, budget>>

-----------------------------------------------------------------------------
(* hal_camera_stream_task: the head of its loop.                           *)

StreamLoop ==
    /\ pc["stream"] = "loop"
    /\ IF hal.stopReq
       THEN /\ hal' = [streaming |-> FALSE, stopReq |-> FALSE, task |-> FALSE]
            /\ Goto("stream", "none")
       ELSE Goto("stream", "prepare") /\ UNCHANGED hal
    /\ UNCHANGED <<why, svc, cap, replies, media, up, session, gen, budget>>

-----------------------------------------------------------------------------
(* ws_camera_upload_task.                                                  *)

UploadTake ==
    /\ pc["upload"] = "idle" /\ frameSem
    /\ frameSem' = FALSE
    /\ IF ctx.streaming /\ ctx.active /\ pending # 0
       THEN /\ up' = [gen |-> pending, first |-> ctx.first]
            /\ ctx' = [ctx EXCEPT !.first = FALSE]
            /\ pending' = 0
            /\ Goto("upload", "send")
       ELSE UNCHANGED <<up, ctx, pending, pc>>
    /\ UNCHANGED <<why, svc, hal, cap, replies, live, session, gen, budget>>

FreeFrame == live' = live - 1 /\ up' = [up EXCEPT !.first = FALSE]

\* ws_client_lock_and_send: the flags are looked at before the wait for the
\* send lock; without a session the frame is freed
UploadCheck ==
    /\ pc["upload"] = "send"
    /\ IF link = "down"
       THEN Goto("upload", "idle") /\ FreeFrame
       ELSE Goto("upload", "out") /\ UNCHANGED <<up, live>>
    /\ UNCHANGED <<why, svc, hal, cap, replies, ctx, pending, frameSem, session,
                   gen, budget>>

\* ... the packet goes out or the send fails; the frame is freed
UploadOut ==
    /\ pc["upload"] = "out"
    /\ Goto("upload", "idle")
    /\ FreeFrame
    /\ \/ link = "up" /\ srv' = [srv EXCEPT !.late = @ + One(srv.ended)]
       \/ UNCHANGED srv
    /\ UNCHANGED <<why, svc, hal, cap, replies, ctx, pending, frameSem, link,
                   gen, budget>>

-----------------------------------------------------------------------------
(* camera_service_stop_stream, for the WebSocket task and the coordinator. *)

\* hal_camera_stop: nothing to stop, or the request
HalStop(p) ==
    /\ pc[p] = "halStop"
    /\ IF ~hal.streaming /\ ~hal.task
       THEN Goto(p, "svcStop") /\ UNCHANGED hal
       ELSE Goto(p, "halWait") /\ hal' = [hal EXCEPT !.stopReq = TRUE]
    /\ UNCHANGED <<why, svc, cap, replies, media, up, session, gen, budget>>

\* ... the poll that sees the stream ended, or its timeout
HalStopWait(p) ==
    /\ pc[p] = "halWait"
    /\ Goto(p, IF ~hal.streaming /\ ~hal.task THEN "svcStop" ELSE "svcGiveUp")
    /\ UNCHANGED <<why, svc, hal, cap, replies, media, up, session, gen, budget>>

CloseSession ==
    /\ link' = "down"
    /\ srv' = [srv EXCEPT !.ended = FALSE, !.late = 0]

\* camera_service_stop_stream clears its flag whatever hal_camera_stop said
ServiceStop(p) ==
    /\ pc[p] \in {"svcStop", "svcGiveUp"}
    /\ svc' = FALSE
    /\ why' = IF p = "ws" THEN "stop" ELSE why
    /\ \/ p = "coord" /\ Goto(p, "clientStop") /\ UNCHANGED session
       \/ p = "ws" /\ why = "lost" /\ Goto(p, "idle") /\ CloseSession
       \/ p = "ws" /\ why = "stop" /\ UNCHANGED session
          /\ Goto(p, IF pc[p] = "svcStop" THEN "last" ELSE "idle")
    /\ UNCHANGED <<hal, cap, replies, media, up, gen, budget>>

Stop(p) == HalStop(p) \/ HalStopWait(p) \/ ServiceStop(p)

-----------------------------------------------------------------------------
(* on_capture_handler, in the WebSocket task.                              *)

Command ==
    /\ pc["ws"] = "idle" /\ link = "up" /\ cmds < MaxCmds
    /\ cmds' = cmds + 1
    /\ UNCHANGED <<svc, hal, cap, replies, up, link, ends>>

\* ctrl.camera.start_video: refused while the camera streams
StartVideo ==
    /\ Command
    /\ IF hal.streaming
       THEN UNCHANGED <<pc, ctx, pending, frameSem, live, gen, srv>>
       ELSE /\ BeginTransfer(TRUE)
            /\ gen' = gen + 1
            /\ srv' = [srv EXCEPT !.ended = FALSE, !.late = 0]
            /\ Goto("ws", "svcStart")
    /\ UNCHANGED why

\* Mutant of StopVideo: the end marker is sent before the camera is stopped.
StopLastFirst ==
    /\ Command
    /\ IF hal.streaming
       THEN Goto("ws", "halStop") /\ srv' = [srv EXCEPT !.ended = TRUE]
       ELSE UNCHANGED <<pc, srv>>
    /\ UNCHANGED <<why, media, gen>>

\* ctrl.camera.stop_video: refused unless the camera streams
StopVideo ==
    /\ Command
    /\ IF hal.streaming
       THEN Goto("ws", "halStop")
       ELSE UNCHANGED pc
    /\ UNCHANGED <<why, media, gen, srv>>

\* ctrl.camera.capture_image: accepted without a look at the stream
CaptureImage ==
    /\ Command
    /\ BeginTransfer(FALSE)
    /\ srv' = [srv EXCEPT !.owed = @ + 1]
    /\ Goto("ws", "prepare")
    /\ UNCHANGED <<why, gen>>

\* camera_service_start_stream
ServiceStart ==
    /\ pc["ws"] = "svcStart"
    /\ svc' = TRUE
    /\ Goto("ws", IF svc THEN "startFailed" ELSE "halStart")
    /\ UNCHANGED <<why, hal, cap, replies, media, up, session, gen, budget>>

\* hal_camera_start
HalStart ==
    /\ pc["ws"] = "halStart"
    /\ IF hal.streaming \/ hal.task \/ cap.busy
       THEN Goto("ws", "svcUndo") /\ UNCHANGED hal
       ELSE /\ hal' = [hal EXCEPT !.streaming = TRUE, !.stopReq = FALSE]
            /\ Goto("ws", "newTask")
    /\ UNCHANGED <<why, svc, cap, replies, media, up, session, gen, budget>>

\* Mutant of HalStartTask: an old stop request is cleared here, not in HalStart.
StartTaskClears ==
    /\ pc["ws"] = "newTask"
    /\ \/ /\ hal' = [hal EXCEPT !.task = TRUE, !.stopReq = FALSE]
          /\ pc' = [pc EXCEPT !["ws"] = "idle", !["stream"] = "loop"]
       \/ /\ hal' = [hal EXCEPT !.streaming = FALSE]
          /\ Goto("ws", "svcUndo")
    /\ UNCHANGED <<why, svc, cap, replies, media, up, session, gen, budget>>

\* ... the creation of the stream task, or its failure
HalStartTask ==
    /\ pc["ws"] = "newTask"
    /\ \/ /\ hal' = [hal EXCEPT !.task = TRUE]
          /\ pc' = [pc EXCEPT !["ws"] = "idle", !["stream"] = "loop"]
       \/ /\ hal' = [hal EXCEPT !.streaming = FALSE]
          /\ Goto("ws", "svcUndo")
    /\ UNCHANGED <<why, svc, cap, replies, media, up, session, gen, budget>>

ServiceUndo ==
    /\ pc["ws"] = "svcUndo"
    /\ svc' = FALSE
    /\ Goto("ws", "startFailed")
    /\ UNCHANGED <<why, hal, cap, replies, media, up, session, gen, budget>>

\* ws_camera_reset_stream after a start that failed or a stop that succeeded
ResetStream ==
    /\ pc["ws"] \in {"startFailed", "reset"}
    /\ EndTransfer
    /\ Goto("ws", "idle")
    /\ UNCHANGED <<why, svc, hal, cap, replies, up, session, gen, budget>>

\* ws_send_video_end
SendLast ==
    /\ pc["ws"] = "last"
    /\ \/ link = "up" /\ srv' = [srv EXCEPT !.ended = TRUE]
       \/ UNCHANGED srv
    /\ Goto("ws", "reset")
    /\ UNCHANGED <<why, svc, hal, cap, replies, media, up, link, gen, budget>>

\* WEBSOCKET_EVENT_DISCONNECTED
EventDisconnected ==
    /\ pc["ws"] = "idle" /\ link = "broken"
    /\ IF hal.streaming
       THEN Goto("ws", "halStop") /\ why' = "lost" /\ UNCHANGED session
       ELSE CloseSession /\ UNCHANGED <<pc, why>>
    /\ UNCHANGED <<svc, hal, cap, replies, media, up, gen, budget>>

Handler ==
    \/ ServiceStart \/ HalStart \/ HalStartTask \/ ServiceUndo \/ ResetStream
    \/ SendLast \/ EventDisconnected

-----------------------------------------------------------------------------
(* The connection and ws_client_stop.                                      *)

\* A socket whose hello is acknowledged, after ws_client_start
Connect ==
    /\ pc["ws"] = "idle" /\ pc["coord"] = "run" /\ link = "down"
    /\ link' = "up"
    /\ UNCHANGED <<pc, why, svc, hal, cap, replies, media, up, gen, srv, budget>>

LinkBreaks ==
    /\ link = "up" /\ ends < MaxEnds
    /\ link' = "broken"
    /\ ends' = ends + 1
    /\ UNCHANGED <<pc, why, svc, hal, cap, replies, media, up, gen, srv, cmds>>

\* ws_client_stop: the look at the stream
ClientStopBegin ==
    /\ pc["coord"] = "run" /\ ends < MaxEnds
    /\ ends' = ends + 1
    /\ Goto("coord", IF hal.streaming THEN "halStop" ELSE "clientStop")
    /\ UNCHANGED <<why, svc, hal, cap, replies, media, up, session, gen, cmds>>

\* esp_websocket_client_stop: waits for the WebSocket task; no event is sent
ClientStop ==
    /\ pc["coord"] = "clientStop" /\ pc["ws"] = "idle"
    /\ CloseSession
    /\ Goto("coord", "down")
    /\ UNCHANGED <<why, svc, hal, cap, replies, media, up, gen, budget>>

\* ws_client_start
ClientStart ==
    /\ pc["coord"] = "down"
    /\ Goto("coord", "run")
    /\ UNCHANGED <<why, svc, hal, cap, replies, media, up, session, gen, budget>>

-----------------------------------------------------------------------------
Next ==
    \/ \E p \in Takers : Take(p)
    \/ \E p \in Stoppers : Stop(p)
    \/ StreamLoop \/ UploadTake \/ UploadCheck \/ UploadOut \/ Reply \/ ReplyGive
    \/ Handler \/ StartVideo \/ StopVideo \/ CaptureImage
    \/ Connect \/ LinkBreaks \/ ClientStopBegin \/ ClientStop \/ ClientStart

Spec == Init /\ [][Next]_vars

\* The stream task and the WebSocket task run; every wait of theirs ends by a
\* timeout.  Nothing is assumed of the coordinator, the upload task, the
\* server, the link or the co-processor.
FairSpec ==
    /\ Spec
    /\ WF_vars(Take("stream") \/ StreamLoop)
    /\ WF_vars(Take("ws") \/ Stop("ws") \/ Handler)

-----------------------------------------------------------------------------
(* Properties.                                                             *)

TakePc == {"prepare", "drain", "invoke", "wait", "abort", "frame", "put",
           "signal", "image", "imageSent"}

\* Every variable has its type; the stream task exists exactly while the
\* camera says so, and a capture that has its image is no longer in progress
\* (hal_camera.c:275-280), so a second reply cannot replace the image.
TypeOK ==
    /\ pc["ws"] \in TakePc \cup
         {"idle", "captureFailed", "svcStart", "halStart", "newTask", "svcUndo",
          "startFailed", "reset", "last", "halStop", "halWait", "svcStop",
          "svcGiveUp"}
    /\ pc["coord"] \in {"run", "halStop", "halWait", "svcStop", "svcGiveUp", "clientStop", "down"}
    /\ pc["stream"] \in TakePc \cup {"none", "loop"}
    /\ pc["upload"] \in {"idle", "send", "out"}
    /\ pc["rx"] \in {"idle", "give"}
    /\ DOMAIN pc = Tasks
    /\ why \in {"stop", "lost"}
    /\ svc \in BOOLEAN
    /\ hal \in [streaming : BOOLEAN, stopReq : BOOLEAN, task : BOOLEAN]
    /\ cap \in [busy : BOOLEAN, image : BOOLEAN, sem : BOOLEAN]
    /\ hal.task <=> pc["stream"] # "none"
    /\ hal.task => hal.streaming
    /\ ~(cap.busy /\ cap.image)
    /\ replies \in 0..MaxReplies
    /\ ctx \in [streaming : BOOLEAN, active : BOOLEAN, first : BOOLEAN]
    /\ pending \in 0..MaxCmds
    /\ frameSem \in BOOLEAN
    /\ up \in [gen : 0..MaxCmds, first : BOOLEAN]
    /\ live \in 0..3
    /\ link \in {"up", "broken", "down"}
    /\ gen \in 0..MaxCmds
    /\ srv \in [ended : BOOLEAN, late : Nat, owed : Int]
    /\ cmds \in 0..MaxCmds /\ ends \in 0..MaxEnds

\* A frame left over from a stream that ended is never uploaded as part of the
\* next one: what waits in pending_jpeg while a stream is on is that stream's
\* (ws_handlers.c:144, 219).
QueuedIsCurrent == ctx.streaming /\ pending # 0 => pending = gen

\* Every copy of a frame on the heap has an owner that will free it: the stream
\* task that made it, pending_jpeg, or the upload task (ws_handlers.c:328-350,
\* 263); none is lost when a newer frame, a new command or a stop replaces it.
NoLeak ==
    live = One(\E p \in Takers : pc[p] = "put")
         + One(pending # 0) + One(pc["upload"] # "idle")

\* The service never believes in a stream the camera does not have, except
\* inside a start or a stop: camera_service_start_stream would refuse every
\* later start (camera_service.c:130).  The two stoppers and the start
\* interleave freely.
StartPossible ==
    svc /\ ~hal.streaming =>
        \/ pc["ws"] \in {"halStart", "svcUndo"}
        \/ \E p \in Stoppers : pc[p] \in {"halStop", "halWait", "svcStop", "svcGiveUp"}

\* After the end marker of a stream the server gets at most the two frames that
\* had already left the camera: the one the upload task holds and the one in
\* pending_jpeg (ws_handlers.c:229, 880-884).
LateFramesBounded == srv.late <= 2

\* The server gets no image it did not ask for: at most one for each capture
\* accepted, although frames of a running stream may be sent as the image
\* (ws_handlers.c:355, 363).
ImagesRequested == srv.owed >= 0

\* The frame of a stream that the upload task takes first carries FIRST, and no other frame
\* of that stream does, so that the server has none when it cannot be sent
\* (ws_handlers.c:141, 222-223).
FirstMarksStream ==
    [][pc["upload"] = "idle" /\ pc'["upload"] = "send"
         => (up'.first <=> up'.gen # up.gen)]_vars

\* A stream that was asked to stop stops, even when whoever asked has given up
\* waiting (hal_camera.c:638, 1020), so the camera can be started again.
StopEnds == hal.stopReq ~> ~hal.streaming

\* A frame in pending_jpeg of a running stream always has a wake-up of the
\* upload task on its way: neither the replacement of a frame nor the draining
\* of the binary semaphore loses it (ws_handlers.c:145, 340-348).
WakeupNotLost ==
    pending # 0 /\ ctx.streaming =>
        frameSem \/ \E p \in Takers : pc[p] = "signal"

\* The copies of frames: each has an owner, belongs to the stream that is on, and is on its way.
FrameCopies == NoLeak /\ QueuedIsCurrent /\ WakeupNotLost

\* What the server gets: each stream marked at its beginning, little after its end, and no image
\* it has not asked for.
ServerGets == [](LateFramesBounded /\ ImagesRequested) /\ FirstMarksStream

\* The camera can be stopped, and started again.
StopAndStart == []StartPossible /\ StopEnds

=============================================================================

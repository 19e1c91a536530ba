--------------------------- MODULE CaptureProofs ----------------------------
(***************************************************************************)
(* Proofs about what captures for the server. CameraStream, for any number *)
(* of commands, replies of the sensor and ends of the connection: its      *)
(* frames are neither lost nor freed twice, the server gets what it asked  *)
(* for, and a stream can be started after every other. VoiceRecorder, for  *)
(* any number of turns of the user, of failed reads, of sessions and of    *)
(* times that memory runs low: it records, tells and listens as it should. *)
(* The two share no state; the names of the recorder begin with its own.   *)
(***************************************************************************)
EXTENDS CameraStream, VoiceRecorder, TLAPS

\* Where the WebSocket task takes the picture of a command, once the camera is its own
Shooting == {"drain", "invoke", "wait", "abort", "frame", "image", "imageSent"}

\* There is a stream from HalStart on, first without its task.
Streaming ==
    /\ hal.streaming => (hal.task \/ pc["ws"] = "newTask") /\ gen > 0
    /\ pc["ws"] = "newTask" => hal.streaming /\ ~hal.task
    /\ pc["ws"] \in {"svcStart", "halStart", "newTask"} => gen > 0
    /\ pc["ws"] \in Shooting \cup {"svcStop", "last"} => ~hal.streaming

\* What s_camera_ctx says of the stream, and what waits and goes out for it.
Context ==
    /\ ctx.streaming => ctx.active /\ (ctx.first <=> up.gen # gen)
    /\ pc["ws"] \in Shooting \cup {"prepare", "captureFailed"} => ~ctx.streaming
    /\ pc["ws"] \notin {"put", "signal"}
    /\ up.gen <= gen /\ pending <= gen

\* After the end marker there is no stream, and only the frames on their way are late.
Ended ==
    /\ srv.ended => ~hal.streaming /\ pc["ws"] \notin {"svcStart", "halStart", "newTask"}
    /\ srv.ended => srv.late + One(pending # 0) + One(pc["upload"] # "idle") <= 2
    /\ ~srv.ended => srv.late = 0

\* A frame may still become the image of the capture that s_camera_ctx says is on.
Expected ==
    /\ ctx.active /\ ~ctx.streaming
    /\ {pc["ws"], pc["stream"]} \cap {"image", "imageSent"} = {}

\* Each image that is sent or may be was asked for.
Owed == srv.owed >= One(pc["ws"] = "image") + One(pc["stream"] = "image") + One(Expected)

\* A stop request the service does not know of yet is someone's who will tell it.
StopKnown ==
    svc /\ hal.stopReq =>
        \/ pc["ws"] \in {"halStart", "svcUndo"}
        \/ \E p \in Stoppers : pc[p] \in {"halWait", "svcStop", "svcGiveUp"}

\* The parts of TypeOK
Places ==
    /\ DOMAIN pc = Tasks
    /\ pc["ws"] \in TakePc \cup
         {"idle", "captureFailed", "svcStart", "halStart", "newTask", "svcUndo",
          "startFailed", "reset", "last", "halStop", "halWait", "svcStop",
          "svcGiveUp"}
    /\ pc["coord"] \in {"run", "halStop", "halWait", "svcStop", "svcGiveUp", "clientStop", "down"}
    /\ pc["stream"] \in TakePc \cup {"none", "loop"}
    /\ pc["upload"] \in {"idle", "send", "out"}
    /\ pc["rx"] \in {"idle", "give"}

Flags     == svc \in BOOLEAN /\ frameSem \in BOOLEAN
HalType   == hal \in [streaming : BOOLEAN, stopReq : BOOLEAN, task : BOOLEAN]
CapType   == cap \in [busy : BOOLEAN, image : BOOLEAN, sem : BOOLEAN] /\ ~(cap.busy /\ cap.image)
CtxType   == ctx \in [streaming : BOOLEAN, active : BOOLEAN, first : BOOLEAN]
UpType    == up \in [gen : 0..MaxCmds, first : BOOLEAN]
SrvType   == srv \in [ended : BOOLEAN, late : Nat, owed : Int]
WordTypes == why \in {"stop", "lost"} /\ link \in {"up", "broken", "down"}
TaskKnown == (hal.task <=> pc["stream"] # "none") /\ (hal.task => hal.streaming)
Bounds    ==
    /\ replies \in 0..MaxReplies /\ cmds \in 0..MaxCmds /\ ends \in 0..MaxEnds
    /\ pending \in 0..MaxCmds /\ gen \in 0..MaxCmds /\ gen <= cmds

Types == Flags /\ HalType /\ CapType /\ CtxType /\ UpType /\ SrvType /\ WordTypes /\ Bounds

LEMMA TypeParts == Places /\ Types /\ TaskKnown /\ live \in 0 .. 3 => TypeOK
  BY DEF TypeOK, Places, Flags, HalType, CapType, CtxType, UpType, SrvType, WordTypes, TaskKnown,
     Bounds, Types

Inv ==
    /\ Places /\ Types /\ TaskKnown
    /\ Streaming /\ Context /\ Ended /\ Owed /\ StopKnown
    /\ NoLeak /\ QueuedIsCurrent /\ WakeupNotLost /\ StartPossible

-----------------------------------------------------------------------------
LEMMA PlacesStep ==
    ASSUME Places, [Next]_vars
    PROVE  Places'
  <1> USE DEF Places, TakePc, Goto, Takers, Stoppers, Tasks, media, session, budget
  <1>1. ASSUME NEW p \in Takers, Take(p) PROVE Places'
    <2>1. CASE Prepare(p)
      BY <2>1 DEF Prepare, Done, Failed
    <2>2. CASE Drain(p)
      BY <2>2 DEF Drain, Done, Failed
    <2>3. CASE Invoke(p)
      BY <2>3 DEF Invoke, Done, Failed
    <2>4. CASE TakeImage(p)
      BY <2>4 DEF TakeImage, Done, Failed
    <2>5. CASE CaptureTimeout(p)
      BY <2>5 DEF CaptureTimeout, Done, Failed
    <2>6. CASE AbortCapture(p)
      BY <2>6 DEF AbortCapture, Done, Failed
    <2>7. CASE FrameFlags(p)
      BY <2>7 DEF FrameFlags, Done, Failed
    <2>8. CASE FramePut(p)
      BY <2>8 DEF FramePut, Done, Failed
    <2>9. CASE FrameSignal(p)
      BY <2>9 DEF FrameSignal, Done, Failed
    <2>10. CASE SendImage(p)
      BY <2>10 DEF SendImage, Done, Failed
    <2>11. CASE FinishOneShot(p)
      BY <2>11 DEF FinishOneShot, EndTransfer, ReleasePending, Done, Failed
    <2> QED
      BY <1>1, <2>1, <2>2, <2>3, <2>4, <2>5, <2>6, <2>7, <2>8, <2>9, <2>10, <2>11 DEF Take
  <1>2. ASSUME NEW p \in Stoppers, Stop(p) PROVE Places'
    BY <1>2 DEF Stop, HalStop, HalStopWait, ServiceStop, CloseSession
  <1>3. ASSUME StreamLoop \/ UploadTake \/ UploadCheck \/ UploadOut \/ Reply \/ ReplyGive
        PROVE  Places'
    BY <1>3 DEF StreamLoop, UploadTake, UploadCheck, UploadOut, Reply, ReplyGive, FreeFrame
  <1>4. ASSUME Handler PROVE Places'
    BY <1>4
         DEF Handler, ServiceStart, HalStart, HalStartTask, ServiceUndo, ResetStream, SendLast,
             EventDisconnected, EndTransfer, ReleasePending, CloseSession
  <1>5. ASSUME StartVideo \/ StopVideo \/ CaptureImage PROVE Places'
    BY <1>5 DEF StartVideo, StopVideo, CaptureImage, BeginTransfer, ReleasePending, Command
  <1>6. ASSUME Connect \/ LinkBreaks \/ ClientStopBegin \/ ClientStop \/ ClientStart \/ UNCHANGED vars
        PROVE  Places'
    BY <1>6 DEF Connect, LinkBreaks, ClientStopBegin, ClientStop, ClientStart, vars, CloseSession
  <1> QED
    BY <1>1, <1>2, <1>3, <1>4, <1>5, <1>6 DEF Next

LEMMA FlagsStep ==
    ASSUME Flags, [Next]_vars
    PROVE  Flags'
  <1> USE DEF Flags, Goto, Takers, Stoppers, Tasks, media, session, budget
  <1>1. ASSUME NEW p \in Takers, Take(p) PROVE Flags'
    BY <1>1
         DEF Take, Prepare, Drain, Invoke, TakeImage, CaptureTimeout, AbortCapture, FrameFlags,
             FramePut, FrameSignal, SendImage, FinishOneShot, EndTransfer, ReleasePending, Done,
             Failed
  <1>2. ASSUME NEW p \in Stoppers, Stop(p) PROVE Flags'
    BY <1>2 DEF Stop, HalStop, HalStopWait, ServiceStop, CloseSession
  <1>3. ASSUME StreamLoop \/ UploadTake \/ UploadCheck \/ UploadOut \/ Reply \/ ReplyGive
        PROVE  Flags'
    BY <1>3 DEF StreamLoop, UploadTake, UploadCheck, UploadOut, Reply, ReplyGive, FreeFrame
  <1>4. ASSUME Handler PROVE Flags'
    BY <1>4
         DEF Handler, ServiceStart, HalStart, HalStartTask, ServiceUndo, ResetStream, SendLast,
             EventDisconnected, EndTransfer, ReleasePending, CloseSession
  <1>5. ASSUME StartVideo \/ StopVideo \/ CaptureImage PROVE Flags'
    BY <1>5 DEF StartVideo, StopVideo, CaptureImage, BeginTransfer, ReleasePending, Command
  <1>6. ASSUME Connect \/ LinkBreaks \/ ClientStopBegin \/ ClientStop \/ ClientStart \/ UNCHANGED vars
        PROVE  Flags'
    BY <1>6 DEF Connect, LinkBreaks, ClientStopBegin, ClientStop, ClientStart, vars, CloseSession
  <1> QED
    BY <1>1, <1>2, <1>3, <1>4, <1>5, <1>6 DEF Next

LEMMA HalTypeStep ==
    ASSUME HalType, [Next]_vars
    PROVE  HalType'
  <1> USE DEF HalType, Goto, Takers, Stoppers, Tasks, media, session, budget
  <1>1. ASSUME NEW p \in Takers, Take(p) PROVE HalType'
    BY <1>1
         DEF Take, Prepare, Drain, Invoke, TakeImage, CaptureTimeout, AbortCapture, FrameFlags,
             FramePut, FrameSignal, SendImage, FinishOneShot, EndTransfer, ReleasePending, Done,
             Failed
  <1>2. ASSUME NEW p \in Stoppers, Stop(p) PROVE HalType'
    BY <1>2 DEF Stop, HalStop, HalStopWait, ServiceStop, CloseSession
  <1>3. ASSUME StreamLoop \/ UploadTake \/ UploadCheck \/ UploadOut \/ Reply \/ ReplyGive
        PROVE  HalType'
    <2>1. CASE StreamLoop
      <3>1. CASE hal' = [streaming |-> FALSE, stopReq |-> FALSE, task |-> FALSE]
        BY <3>1
      <3>2. CASE hal' = hal
        BY <3>2
      <3> QED
        BY <2>1, <3>1, <3>2 DEF StreamLoop
    <2>2. CASE UploadTake
      BY <2>2 DEF UploadTake
    <2>3. CASE UploadCheck
      BY <2>3 DEF UploadCheck, FreeFrame
    <2>4. CASE UploadOut
      BY <2>4 DEF UploadOut, FreeFrame
    <2>5. CASE Reply
      BY <2>5 DEF Reply
    <2>6. CASE ReplyGive
      BY <2>6 DEF ReplyGive
    <2> QED
      BY <1>3, <2>1, <2>2, <2>3, <2>4, <2>5, <2>6
  <1>4. ASSUME Handler PROVE HalType'
    BY <1>4
         DEF Handler, ServiceStart, HalStart, HalStartTask, ServiceUndo, ResetStream, SendLast,
             EventDisconnected, EndTransfer, ReleasePending, CloseSession
  <1>5. ASSUME StartVideo \/ StopVideo \/ CaptureImage PROVE HalType'
    BY <1>5 DEF StartVideo, StopVideo, CaptureImage, BeginTransfer, ReleasePending, Command
  <1>6. ASSUME Connect \/ LinkBreaks \/ ClientStopBegin \/ ClientStop \/ ClientStart \/ UNCHANGED vars
        PROVE  HalType'
    BY <1>6 DEF Connect, LinkBreaks, ClientStopBegin, ClientStop, ClientStart, vars, CloseSession
  <1> QED
    BY <1>1, <1>2, <1>3, <1>4, <1>5, <1>6 DEF Next

LEMMA CapTypeStep ==
    ASSUME CapType, [Next]_vars
    PROVE  CapType'
  <1> USE DEF CapType, Goto, Takers, Stoppers, Tasks, media, session, budget
  <1>1. ASSUME NEW p \in Takers, Take(p) PROVE CapType'
    <2>1. CASE Prepare(p)
      BY <2>1 DEF Prepare, Done, Failed
    <2>2. CASE Drain(p)
      BY <2>2 DEF Drain, Done, Failed
    <2>3. CASE Invoke(p)
      BY <2>3 DEF Invoke, Done, Failed
    <2>4. CASE TakeImage(p)
      BY <2>4 DEF TakeImage, Done, Failed
    <2>5. CASE CaptureTimeout(p)
      BY <2>5 DEF CaptureTimeout, Done, Failed
    <2>6. CASE AbortCapture(p)
      BY <2>6 DEF AbortCapture, Done, Failed
    <2>7. CASE FrameFlags(p)
      BY <2>7 DEF FrameFlags, Done, Failed
    <2>8. CASE FramePut(p)
      BY <2>8 DEF FramePut, Done, Failed
    <2>9. CASE FrameSignal(p)
      BY <2>9 DEF FrameSignal, Done, Failed
    <2>10. CASE SendImage(p)
      BY <2>10 DEF SendImage, Done, Failed
    <2>11. CASE FinishOneShot(p)
      BY <2>11 DEF FinishOneShot, EndTransfer, ReleasePending, Done, Failed
    <2> QED
      BY <1>1, <2>1, <2>2, <2>3, <2>4, <2>5, <2>6, <2>7, <2>8, <2>9, <2>10, <2>11 DEF Take
  <1>2. ASSUME NEW p \in Stoppers, Stop(p) PROVE CapType'
    BY <1>2 DEF Stop, HalStop, HalStopWait, ServiceStop, CloseSession
  <1>3. ASSUME StreamLoop \/ UploadTake \/ UploadCheck \/ UploadOut \/ Reply \/ ReplyGive
        PROVE  CapType'
    BY <1>3 DEF StreamLoop, UploadTake, UploadCheck, UploadOut, Reply, ReplyGive, FreeFrame
  <1>4. ASSUME Handler PROVE CapType'
    BY <1>4
         DEF Handler, ServiceStart, HalStart, HalStartTask, ServiceUndo, ResetStream, SendLast,
             EventDisconnected, EndTransfer, ReleasePending, CloseSession
  <1>5. ASSUME StartVideo \/ StopVideo \/ CaptureImage PROVE CapType'
    BY <1>5 DEF StartVideo, StopVideo, CaptureImage, BeginTransfer, ReleasePending, Command
  <1>6. ASSUME Connect \/ LinkBreaks \/ ClientStopBegin \/ ClientStop \/ ClientStart \/ UNCHANGED vars
        PROVE  CapType'
    BY <1>6 DEF Connect, LinkBreaks, ClientStopBegin, ClientStop, ClientStart, vars, CloseSession
  <1> QED
    BY <1>1, <1>2, <1>3, <1>4, <1>5, <1>6 DEF Next

LEMMA CtxTypeStep ==
    ASSUME CtxType, [Next]_vars
    PROVE  CtxType'
  <1> USE DEF CtxType, Goto, Takers, Stoppers, Tasks, media, session, budget
  <1>1. ASSUME NEW p \in Takers, Take(p) PROVE CtxType'
    <2>1. CASE Prepare(p)
      BY <2>1 DEF Prepare, Done, Failed
    <2>2. CASE Drain(p)
      BY <2>2 DEF Drain, Done, Failed
    <2>3. CASE Invoke(p)
      BY <2>3 DEF Invoke, Done, Failed
    <2>4. CASE TakeImage(p)
      BY <2>4 DEF TakeImage, Done, Failed
    <2>5. CASE CaptureTimeout(p)
      BY <2>5 DEF CaptureTimeout, Done, Failed
    <2>6. CASE AbortCapture(p)
      BY <2>6 DEF AbortCapture, Done, Failed
    <2>7. CASE FrameFlags(p)
      BY <2>7 DEF FrameFlags, Done, Failed
    <2>8. CASE FramePut(p)
      BY <2>8 DEF FramePut, Done, Failed
    <2>9. CASE FrameSignal(p)
      BY <2>9 DEF FrameSignal, Done, Failed
    <2>10. CASE SendImage(p)
      BY <2>10 DEF SendImage, Done, Failed
    <2>11. CASE FinishOneShot(p)
      BY <2>11 DEF FinishOneShot, EndTransfer, ReleasePending, Done, Failed
    <2> QED
      BY <1>1, <2>1, <2>2, <2>3, <2>4, <2>5, <2>6, <2>7, <2>8, <2>9, <2>10, <2>11 DEF Take
  <1>2. ASSUME NEW p \in Stoppers, Stop(p) PROVE CtxType'
    BY <1>2 DEF Stop, HalStop, HalStopWait, ServiceStop, CloseSession
  <1>3. ASSUME StreamLoop \/ UploadTake \/ UploadCheck \/ UploadOut \/ Reply \/ ReplyGive
        PROVE  CtxType'
    BY <1>3 DEF StreamLoop, UploadTake, UploadCheck, UploadOut, Reply, ReplyGive, FreeFrame
  <1>4. ASSUME Handler PROVE CtxType'
    <2>1. CASE ServiceStart
      BY <2>1 DEF ServiceStart
    <2>2. CASE HalStart
      BY <2>2 DEF HalStart
    <2>3. CASE HalStartTask
      BY <2>3 DEF HalStartTask
    <2>4. CASE ServiceUndo
      BY <2>4 DEF ServiceUndo
    <2>5. CASE ResetStream
      BY <2>5 DEF ResetStream, EndTransfer, ReleasePending
    <2>6. CASE SendLast
      BY <2>6 DEF SendLast
    <2>7. CASE EventDisconnected
      BY <2>7 DEF EventDisconnected, CloseSession
    <2> QED
      BY <1>4, <2>1, <2>2, <2>3, <2>4, <2>5, <2>6, <2>7 DEF Handler
  <1>5. ASSUME StartVideo \/ StopVideo \/ CaptureImage PROVE CtxType'
    <2>1. CASE StartVideo
      <3>1. CASE ctx' = [streaming |-> TRUE, active |-> TRUE, first |-> TRUE]
        BY <3>1
      <3>2. CASE ctx' = ctx
        BY <3>2
      <3> QED
        BY <2>1, <3>1, <3>2 DEF StartVideo, BeginTransfer
    <2>2. CASE StopVideo
      BY <2>2 DEF StopVideo, Command
    <2>3. CASE CaptureImage
      BY <2>3 DEF CaptureImage, BeginTransfer, ReleasePending, Command
    <2> QED
      BY <1>5, <2>1, <2>2, <2>3
  <1>6. ASSUME Connect \/ LinkBreaks \/ ClientStopBegin \/ ClientStop \/ ClientStart \/ UNCHANGED vars
        PROVE  CtxType'
    BY <1>6 DEF Connect, LinkBreaks, ClientStopBegin, ClientStop, ClientStart, vars, CloseSession
  <1> QED
    BY <1>1, <1>2, <1>3, <1>4, <1>5, <1>6 DEF Next

LEMMA UpTypeStep ==
    ASSUME UpType, CtxType, Bounds, [Next]_vars
    PROVE  UpType'
  <1> USE DEF UpType, CtxType, Bounds, Goto, Takers, Stoppers, Tasks, media, session, budget
  <1>1. ASSUME NEW p \in Takers, Take(p) PROVE UpType'
    BY <1>1
         DEF Take, Prepare, Drain, Invoke, TakeImage, CaptureTimeout, AbortCapture, FrameFlags,
             FramePut, FrameSignal, SendImage, FinishOneShot, EndTransfer, ReleasePending, Done,
             Failed
  <1>2. ASSUME NEW p \in Stoppers, Stop(p) PROVE UpType'
    BY <1>2 DEF Stop, HalStop, HalStopWait, ServiceStop, CloseSession
  <1>3. ASSUME StreamLoop \/ UploadTake \/ UploadCheck \/ UploadOut \/ Reply \/ ReplyGive
        PROVE  UpType'
    <2>1. CASE StreamLoop
      BY <2>1 DEF StreamLoop
    <2>2. CASE UploadTake
      BY <2>2 DEF UploadTake
    <2>3. CASE UploadCheck
      BY <2>3 DEF UploadCheck, FreeFrame
    <2>4. CASE UploadOut
      BY <2>4 DEF UploadOut, FreeFrame
    <2>5. CASE Reply
      BY <2>5 DEF Reply
    <2>6. CASE ReplyGive
      BY <2>6 DEF ReplyGive
    <2> QED
      BY <1>3, <2>1, <2>2, <2>3, <2>4, <2>5, <2>6
  <1>4. ASSUME Handler PROVE UpType'
    BY <1>4
         DEF Handler, ServiceStart, HalStart, HalStartTask, ServiceUndo, ResetStream, SendLast,
             EventDisconnected, EndTransfer, ReleasePending, CloseSession
  <1>5. ASSUME StartVideo \/ StopVideo \/ CaptureImage PROVE UpType'
    BY <1>5 DEF StartVideo, StopVideo, CaptureImage, BeginTransfer, ReleasePending, Command
  <1>6. ASSUME Connect \/ LinkBreaks \/ ClientStopBegin \/ ClientStop \/ ClientStart \/ UNCHANGED vars
        PROVE  UpType'
    BY <1>6 DEF Connect, LinkBreaks, ClientStopBegin, ClientStop, ClientStart, vars, CloseSession
  <1> QED
    BY <1>1, <1>2, <1>3, <1>4, <1>5, <1>6 DEF Next

LEMMA SrvTypeStep ==
    ASSUME SrvType, [Next]_vars
    PROVE  SrvType'
  <1> USE DEF SrvType, One, Goto, Takers, Stoppers, Tasks, media, session, budget
  <1>1. ASSUME NEW p \in Takers, Take(p) PROVE SrvType'
    BY <1>1
         DEF Take, Prepare, Drain, Invoke, TakeImage, CaptureTimeout, AbortCapture, FrameFlags,
             FramePut, FrameSignal, SendImage, FinishOneShot, EndTransfer, ReleasePending, Done,
             Failed
  <1>2. ASSUME NEW p \in Stoppers, Stop(p) PROVE SrvType'
    <2>1. CASE HalStop(p)
      BY <2>1 DEF HalStop
    <2>2. CASE HalStopWait(p)
      BY <2>2 DEF HalStopWait
    <2>3. CASE ServiceStop(p)
      <3>1. CASE srv' = [srv EXCEPT !.ended = FALSE, !.late = 0]
        BY <3>1
      <3>2. CASE srv' = srv
        BY <3>2
      <3> QED
        BY <2>3, <3>1, <3>2 DEF ServiceStop, CloseSession
    <2> QED
      BY <1>2, <2>1, <2>2, <2>3 DEF Stop
  <1>3. ASSUME StreamLoop \/ UploadTake \/ UploadCheck \/ UploadOut \/ Reply \/ ReplyGive
        PROVE  SrvType'
    BY <1>3 DEF StreamLoop, UploadTake, UploadCheck, UploadOut, Reply, ReplyGive, FreeFrame
  <1>4. ASSUME Handler PROVE SrvType'
    <2>1. CASE ServiceStart
      BY <2>1 DEF ServiceStart
    <2>2. CASE HalStart
      BY <2>2 DEF HalStart
    <2>3. CASE HalStartTask
      BY <2>3 DEF HalStartTask
    <2>4. CASE ServiceUndo
      BY <2>4 DEF ServiceUndo
    <2>5. CASE ResetStream
      BY <2>5 DEF ResetStream, EndTransfer, ReleasePending
    <2>6. CASE SendLast
      BY <2>6 DEF SendLast
    <2>7. CASE EventDisconnected
      <3>1. CASE srv' = [srv EXCEPT !.ended = FALSE, !.late = 0]
        BY <3>1
      <3>2. CASE srv' = srv
        BY <3>2
      <3> QED
        BY <2>7, <3>1, <3>2 DEF EventDisconnected, CloseSession
    <2> QED
      BY <1>4, <2>1, <2>2, <2>3, <2>4, <2>5, <2>6, <2>7 DEF Handler
  <1>5. ASSUME StartVideo \/ StopVideo \/ CaptureImage PROVE SrvType'
    <2>1. CASE StartVideo
      <3>1. CASE srv' = [srv EXCEPT !.ended = FALSE, !.late = 0]
        BY <3>1
      <3>2. CASE srv' = srv
        BY <3>2
      <3> QED
        BY <2>1, <3>1, <3>2 DEF StartVideo, CloseSession
    <2>2. CASE StopVideo
      BY <2>2 DEF StopVideo, Command
    <2>3. CASE CaptureImage
      BY <2>3 DEF CaptureImage, BeginTransfer, ReleasePending, Command
    <2> QED
      BY <1>5, <2>1, <2>2, <2>3
  <1>6. ASSUME Connect \/ LinkBreaks \/ ClientStopBegin \/ ClientStop \/ ClientStart \/ UNCHANGED vars
        PROVE  SrvType'
    <2>1. CASE Connect
      BY <2>1 DEF Connect
    <2>2. CASE LinkBreaks
      BY <2>2 DEF LinkBreaks
    <2>3. CASE ClientStopBegin
      BY <2>3 DEF ClientStopBegin
    <2>4. CASE ClientStop
      BY <2>4 DEF ClientStop, CloseSession
    <2>5. CASE ClientStart
      BY <2>5 DEF ClientStart
    <2>6. CASE UNCHANGED vars
      BY <2>6 DEF vars
    <2> QED
      BY <1>6, <2>1, <2>2, <2>3, <2>4, <2>5, <2>6
  <1> QED
    BY <1>1, <1>2, <1>3, <1>4, <1>5, <1>6 DEF Next

LEMMA WordTypesStep ==
    ASSUME WordTypes, [Next]_vars
    PROVE  WordTypes'
  <1> USE DEF WordTypes, Goto, Takers, Stoppers, Tasks, media, session, budget
  <1>1. ASSUME NEW p \in Takers, Take(p) PROVE WordTypes'
    BY <1>1
         DEF Take, Prepare, Drain, Invoke, TakeImage, CaptureTimeout, AbortCapture, FrameFlags,
             FramePut, FrameSignal, SendImage, FinishOneShot, EndTransfer, ReleasePending, Done,
             Failed
  <1>2. ASSUME NEW p \in Stoppers, Stop(p) PROVE WordTypes'
    BY <1>2 DEF Stop, HalStop, HalStopWait, ServiceStop, CloseSession
  <1>3. ASSUME StreamLoop \/ UploadTake \/ UploadCheck \/ UploadOut \/ Reply \/ ReplyGive
        PROVE  WordTypes'
    BY <1>3 DEF StreamLoop, UploadTake, UploadCheck, UploadOut, Reply, ReplyGive, FreeFrame
  <1>4. ASSUME Handler PROVE WordTypes'
    BY <1>4
         DEF Handler, ServiceStart, HalStart, HalStartTask, ServiceUndo, ResetStream, SendLast,
             EventDisconnected, EndTransfer, ReleasePending, CloseSession
  <1>5. ASSUME StartVideo \/ StopVideo \/ CaptureImage PROVE WordTypes'
    BY <1>5 DEF StartVideo, StopVideo, CaptureImage, BeginTransfer, ReleasePending, Command
  <1>6. ASSUME Connect \/ LinkBreaks \/ ClientStopBegin \/ ClientStop \/ ClientStart \/ UNCHANGED vars
        PROVE  WordTypes'
    BY <1>6 DEF Connect, LinkBreaks, ClientStopBegin, ClientStop, ClientStart, vars, CloseSession
  <1> QED
    BY <1>1, <1>2, <1>3, <1>4, <1>5, <1>6 DEF Next

LEMMA TaskKnownStep ==
    ASSUME Inv, [Next]_vars
    PROVE  TaskKnown'
  <1> USE
       DEF Inv, Types, Places, HalType, TaskKnown, Streaming, TakePc, Goto, Takers, Stoppers,
           Tasks, media, session, budget
  <1>1. ASSUME NEW p \in Takers, Take(p) PROVE TaskKnown'
    BY <1>1
         DEF Take, Prepare, Drain, Invoke, TakeImage, CaptureTimeout, AbortCapture, FrameFlags,
             FramePut, FrameSignal, SendImage, FinishOneShot, EndTransfer, ReleasePending, Done,
             Failed
  <1>2. ASSUME NEW p \in Stoppers, Stop(p) PROVE TaskKnown'
    BY <1>2 DEF Stop, HalStop, HalStopWait, ServiceStop, CloseSession
  <1>3. ASSUME StreamLoop \/ UploadTake \/ UploadCheck \/ UploadOut \/ Reply \/ ReplyGive
        PROVE  TaskKnown'
    BY <1>3 DEF StreamLoop, UploadTake, UploadCheck, UploadOut, Reply, ReplyGive, FreeFrame
  <1>4. ASSUME Handler PROVE TaskKnown'
    BY <1>4, ZenonT(40)
         DEF Handler, ServiceStart, HalStart, HalStartTask, ServiceUndo, ResetStream, SendLast,
             EventDisconnected, EndTransfer, ReleasePending, CloseSession
  <1>5. ASSUME StartVideo \/ StopVideo \/ CaptureImage PROVE TaskKnown'
    BY <1>5 DEF StartVideo, StopVideo, CaptureImage, BeginTransfer, ReleasePending, Command
  <1>6. ASSUME Connect \/ LinkBreaks \/ ClientStopBegin \/ ClientStop \/ ClientStart \/ UNCHANGED vars
        PROVE  TaskKnown'
    BY <1>6 DEF Connect, LinkBreaks, ClientStopBegin, ClientStop, ClientStart, vars, CloseSession
  <1> QED
    BY <1>1, <1>2, <1>3, <1>4, <1>5, <1>6 DEF Next

LEMMA BoundsStep ==
    ASSUME Bounds, CtxType, [Next]_vars
    PROVE  Bounds'
  <1> USE DEF Bounds, CtxType, Goto, Takers, Stoppers, Tasks, media, session, budget
  <1>1. ASSUME NEW p \in Takers, Take(p) PROVE Bounds'
    BY BoundsAssumption, <1>1
         DEF Take, Prepare, Drain, Invoke, TakeImage, CaptureTimeout, AbortCapture, FrameFlags,
             FramePut, FrameSignal, SendImage, FinishOneShot, EndTransfer, ReleasePending, Done,
             Failed
  <1>2. ASSUME NEW p \in Stoppers, Stop(p) PROVE Bounds'
    BY BoundsAssumption, <1>2 DEF Stop, HalStop, HalStopWait, ServiceStop, CloseSession
  <1>3. ASSUME StreamLoop \/ UploadTake \/ UploadCheck \/ UploadOut \/ Reply \/ ReplyGive
        PROVE  Bounds'
    BY BoundsAssumption, <1>3
         DEF StreamLoop, UploadTake, UploadCheck, UploadOut, Reply, ReplyGive, FreeFrame
  <1>4. ASSUME Handler PROVE Bounds'
    BY BoundsAssumption, <1>4
         DEF Handler, ServiceStart, HalStart, HalStartTask, ServiceUndo, ResetStream, SendLast,
             EventDisconnected, EndTransfer, ReleasePending, CloseSession
  <1>5. ASSUME StartVideo \/ StopVideo \/ CaptureImage PROVE Bounds'
    BY BoundsAssumption, <1>5
         DEF StartVideo, StopVideo, CaptureImage, BeginTransfer, ReleasePending, Command
  <1>6. ASSUME Connect \/ LinkBreaks \/ ClientStopBegin \/ ClientStop \/ ClientStart \/ UNCHANGED vars
        PROVE  Bounds'
    BY BoundsAssumption, <1>6
         DEF Connect, LinkBreaks, ClientStopBegin, ClientStop, ClientStart, vars, CloseSession
  <1> QED
    BY <1>1, <1>2, <1>3, <1>4, <1>5, <1>6 DEF Next

LEMMA StreamingStep ==
    ASSUME Inv, [Next]_vars
    PROVE  Streaming'
  <1> USE
       DEF Inv, Types, Places, TakePc, Streaming, TaskKnown, HalType, Bounds, Shooting, Goto,
           Takers, Stoppers, Tasks, media, session, budget
  <1>1. ASSUME NEW p \in Takers, Take(p) PROVE Streaming'
    BY <1>1
         DEF Take, Prepare, Drain, Invoke, TakeImage, CaptureTimeout, AbortCapture, FrameFlags,
             FramePut, FrameSignal, SendImage, FinishOneShot, EndTransfer, ReleasePending, Done,
             Failed
  <1>2. ASSUME NEW p \in Stoppers, Stop(p) PROVE Streaming'
    BY <1>2 DEF Stop, HalStop, HalStopWait, ServiceStop, CloseSession
  <1>3. ASSUME StreamLoop \/ UploadTake \/ UploadCheck \/ UploadOut \/ Reply \/ ReplyGive
        PROVE  Streaming'
    BY <1>3 DEF StreamLoop, UploadTake, UploadCheck, UploadOut, Reply, ReplyGive, FreeFrame
  <1>4. ASSUME Handler PROVE Streaming'
    <2>1. CASE ServiceStart
      BY <2>1 DEF ServiceStart
    <2>2. CASE HalStart
      BY <2>2 DEF HalStart
    <2>3. CASE HalStartTask
      BY <2>3 DEF HalStartTask
    <2>4. CASE ServiceUndo
      BY <2>4 DEF ServiceUndo
    <2>5. CASE ResetStream
      BY <2>5 DEF ResetStream, EndTransfer, ReleasePending
    <2>6. CASE SendLast
      BY <2>6 DEF SendLast
    <2>7. CASE EventDisconnected
      BY <2>7 DEF EventDisconnected, CloseSession
    <2> QED
      BY <1>4, <2>1, <2>2, <2>3, <2>4, <2>5, <2>6, <2>7 DEF Handler
  <1>5. ASSUME StartVideo \/ StopVideo \/ CaptureImage PROVE Streaming'
    BY <1>5 DEF StartVideo, StopVideo, CaptureImage, BeginTransfer, ReleasePending, Command
  <1>6. ASSUME Connect \/ LinkBreaks \/ ClientStopBegin \/ ClientStop \/ ClientStart \/ UNCHANGED vars
        PROVE  Streaming'
    BY <1>6 DEF Connect, LinkBreaks, ClientStopBegin, ClientStop, ClientStart, vars, CloseSession
  <1> QED
    BY <1>1, <1>2, <1>3, <1>4, <1>5, <1>6 DEF Next

LEMMA ContextStep ==
    ASSUME Inv, [Next]_vars
    PROVE  Context'
  <1> USE
       DEF Inv, Types, Places, TakePc, Streaming, TaskKnown, HalType, Bounds, CtxType, UpType,
           Context, Shooting, Goto, Takers, Stoppers, Tasks, media, session, budget
  <1>1. ASSUME NEW p \in Takers, Take(p) PROVE Context'
    BY <1>1
         DEF Take, Prepare, Drain, Invoke, TakeImage, CaptureTimeout, AbortCapture, FrameFlags,
             FramePut, FrameSignal, SendImage, FinishOneShot, EndTransfer, ReleasePending, Done,
             Failed
  <1>2. ASSUME NEW p \in Stoppers, Stop(p) PROVE Context'
    BY <1>2 DEF Stop, HalStop, HalStopWait, ServiceStop, CloseSession
  <1>3. ASSUME StreamLoop \/ UploadTake \/ UploadCheck \/ UploadOut \/ Reply \/ ReplyGive
        PROVE  Context'
    <2>1. CASE StreamLoop
      BY <2>1 DEF StreamLoop
    <2>2. CASE UploadTake
      <3>1. CASE UNCHANGED <<up, ctx, pending, pc>>
        BY <2>2, <3>1 DEF UploadTake
      <3>2. ASSUME ctx.streaming, ctx.active, up' = [gen |-> pending, first |-> ctx.first],
                   ctx' = [ctx EXCEPT !.first = FALSE], pending' = 0, Goto("upload", "send")
            PROVE  Context'
        <4>1. up'.gen = pending /\ ~ctx'.first /\ (ctx'.streaming <=> ctx.streaming) /\ (ctx'.active <=> ctx.active)
          BY <3>2
        <4>2. pending = gen /\ gen' = gen
          BY <2>2, <3>2 DEF UploadTake, QueuedIsCurrent
        <4> QED
          BY <2>2, <3>2, <4>1, <4>2
      <3> QED
        BY <2>2, <3>1, <3>2 DEF UploadTake
    <2>3. CASE UploadCheck
      BY <2>3 DEF UploadCheck, FreeFrame
    <2>4. CASE UploadOut
      BY <2>4 DEF UploadOut, FreeFrame
    <2>5. CASE Reply
      BY <2>5 DEF Reply
    <2>6. CASE ReplyGive
      BY <2>6 DEF ReplyGive
    <2> QED
      BY <1>3, <2>1, <2>2, <2>3, <2>4, <2>5, <2>6
  <1>4. ASSUME Handler PROVE Context'
    BY <1>4
         DEF Handler, ServiceStart, HalStart, HalStartTask, ServiceUndo, ResetStream, SendLast,
             EventDisconnected, EndTransfer, ReleasePending, CloseSession
  <1>5. ASSUME StartVideo \/ StopVideo \/ CaptureImage PROVE Context'
    BY <1>5 DEF StartVideo, StopVideo, CaptureImage, BeginTransfer, ReleasePending, Command
  <1>6. ASSUME Connect \/ LinkBreaks \/ ClientStopBegin \/ ClientStop \/ ClientStart \/ UNCHANGED vars
        PROVE  Context'
    BY <1>6 DEF Connect, LinkBreaks, ClientStopBegin, ClientStop, ClientStart, vars, CloseSession
  <1> QED
    BY <1>1, <1>2, <1>3, <1>4, <1>5, <1>6 DEF Next

LEMMA EndedStep ==
    ASSUME Inv, [Next]_vars
    PROVE  Ended'
  <1> USE
       DEF Inv, Types, Places, TakePc, Streaming, TaskKnown, HalType, Bounds, SrvType, Ended,
           Context, Shooting, One, Goto, Takers, Stoppers, Tasks, media, session, budget
  <1>1. ASSUME NEW p \in Takers, Take(p) PROVE Ended'
    BY <1>1
         DEF Take, Prepare, Drain, Invoke, TakeImage, CaptureTimeout, AbortCapture, FrameFlags,
             FramePut, FrameSignal, SendImage, FinishOneShot, EndTransfer, ReleasePending, Done,
             Failed
  <1>2. ASSUME NEW p \in Stoppers, Stop(p) PROVE Ended'
    <2>1. CASE HalStop(p)
      BY <2>1 DEF HalStop
    <2>2. CASE HalStopWait(p)
      BY <2>2 DEF HalStopWait
    <2>3. CASE ServiceStop(p)
      BY <2>3 DEF ServiceStop, CloseSession
    <2> QED
      BY <1>2, <2>1, <2>2, <2>3 DEF Stop
  <1>3. ASSUME StreamLoop \/ UploadTake \/ UploadCheck \/ UploadOut \/ Reply \/ ReplyGive
        PROVE  Ended'
    BY <1>3 DEF StreamLoop, UploadTake, UploadCheck, UploadOut, Reply, ReplyGive, FreeFrame
  <1>4. ASSUME Handler PROVE Ended'
    <2>1. CASE ServiceStart
      BY <2>1 DEF ServiceStart
    <2>2. CASE HalStart
      BY <2>2 DEF HalStart
    <2>3. CASE HalStartTask
      BY <2>3 DEF HalStartTask
    <2>4. CASE ServiceUndo
      BY <2>4 DEF ServiceUndo
    <2>5. CASE ResetStream
      BY <2>5 DEF ResetStream, EndTransfer, ReleasePending
    <2>6. CASE SendLast
      BY <2>6 DEF SendLast
    <2>7. CASE EventDisconnected
      BY <2>7 DEF EventDisconnected, CloseSession
    <2> QED
      BY <1>4, <2>1, <2>2, <2>3, <2>4, <2>5, <2>6, <2>7 DEF Handler
  <1>5. ASSUME StartVideo \/ StopVideo \/ CaptureImage PROVE Ended'
    <2>1. CASE StartVideo
      BY <2>1 DEF StartVideo, BeginTransfer, ReleasePending, Command
    <2>2. CASE StopVideo
      BY <2>2 DEF StopVideo, Command
    <2>3. CASE CaptureImage
      BY <2>3 DEF CaptureImage, BeginTransfer, ReleasePending, Command
    <2> QED
      BY <1>5, <2>1, <2>2, <2>3
  <1>6. ASSUME Connect \/ LinkBreaks \/ ClientStopBegin \/ ClientStop \/ ClientStart \/ UNCHANGED vars
        PROVE  Ended'
    BY <1>6, ZenonT(40) DEF Connect, LinkBreaks, ClientStopBegin, ClientStop, ClientStart, vars, CloseSession
  <1> QED
    BY <1>1, <1>2, <1>3, <1>4, <1>5, <1>6 DEF Next

LEMMA OwedStep ==
    ASSUME Inv, [Next]_vars
    PROVE  Owed'
  <1> USE
       DEF Inv, Types, Places, TakePc, Streaming, TaskKnown, HalType, CtxType, SrvType, Context,
           Owed, Expected, Shooting, One, Goto, Takers, Stoppers, Tasks, media, session, budget
  <1>1. ASSUME NEW p \in Takers, Take(p) PROVE Owed'
    <2>1. CASE Prepare(p)
      BY <2>1 DEF Prepare, Done, Failed
    <2>2. CASE Drain(p)
      BY <2>2 DEF Drain, Done, Failed
    <2>3. CASE Invoke(p)
      BY <2>3 DEF Invoke, Done, Failed
    <2>4. CASE TakeImage(p)
      BY <2>4 DEF TakeImage, Done, Failed
    <2>5. CASE CaptureTimeout(p)
      BY <2>5 DEF CaptureTimeout, Done, Failed
    <2>6. CASE AbortCapture(p)
      BY <2>6 DEF AbortCapture, Done, Failed
    <2>7. CASE FrameFlags(p)
      <3>1. CASE Goto(p, Done(p))
        BY <2>7, <3>1 DEF FrameFlags, Done
      <3>2. CASE ctx.active /\ ctx.streaming /\ Goto(p, "put")
        BY <2>7, <3>2 DEF FrameFlags
      <3>3. CASE ctx.active /\ ~ctx.streaming /\ Goto(p, "image")
        <4>1. ctx' = ctx /\ srv' = srv /\ pc[p] = "frame"
          BY <2>7 DEF FrameFlags
        <4>2. p = "ws" => pc["stream"] = "none"
          BY <4>1
        <4>3. Expected /\ ~Expected'
          BY <3>3, <4>1, <4>2, ZenonT(40)
        <4> QED
          BY <3>3, <4>1, <4>2, <4>3
      <3> QED
        BY <2>7, <3>1, <3>2, <3>3 DEF FrameFlags
    <2>8. CASE FramePut(p)
      BY <2>8 DEF FramePut, Done, Failed
    <2>9. CASE FrameSignal(p)
      BY <2>9 DEF FrameSignal, Done, Failed
    <2>10. CASE SendImage(p)
      BY <2>10 DEF SendImage, Done, Failed
    <2>11. CASE FinishOneShot(p)
      BY <2>11 DEF FinishOneShot, EndTransfer, ReleasePending, Done, Failed
    <2> QED
      BY <1>1, <2>1, <2>2, <2>3, <2>4, <2>5, <2>6, <2>7, <2>8, <2>9, <2>10, <2>11 DEF Take
  <1>2. ASSUME NEW p \in Stoppers, Stop(p) PROVE Owed'
    <2>1. CASE HalStop(p)
      BY <2>1 DEF HalStop
    <2>2. CASE HalStopWait(p)
      BY <2>2 DEF HalStopWait
    <2>3. CASE ServiceStop(p)
      <3>1. srv' = [srv EXCEPT !.ended = FALSE, !.late = 0] => srv'.owed = srv.owed
        OBVIOUS
      <3>2. srv'.owed = srv.owed
        BY <2>3, <3>1 DEF ServiceStop, CloseSession
      <3>3. /\ UNCHANGED <<ctx, pc["stream"]>>
              /\ \/ UNCHANGED pc["ws"]
                 \/ pc["ws"] \notin {"image", "imageSent"} /\ pc'["ws"] \notin {"image", "imageSent"}
        BY <2>3 DEF ServiceStop
      <3> QED
        BY <3>2, <3>3
    <2> QED
      BY <1>2, <2>1, <2>2, <2>3 DEF Stop
  <1>3. ASSUME StreamLoop \/ UploadTake \/ UploadCheck \/ UploadOut \/ Reply \/ ReplyGive
        PROVE  Owed'
    BY <1>3 DEF StreamLoop, UploadTake, UploadCheck, UploadOut, Reply, ReplyGive, FreeFrame
  <1>4. ASSUME Handler PROVE Owed'
    <2>1. CASE ServiceStart
      BY <2>1 DEF ServiceStart
    <2>2. CASE HalStart
      BY <2>2 DEF HalStart
    <2>3. CASE HalStartTask
      BY <2>3 DEF HalStartTask
    <2>4. CASE ServiceUndo
      BY <2>4 DEF ServiceUndo
    <2>5. CASE ResetStream
      BY <2>5 DEF ResetStream, EndTransfer, ReleasePending
    <2>6. CASE SendLast
      BY <2>6 DEF SendLast
    <2>7. CASE EventDisconnected
      <3>1. srv' = [srv EXCEPT !.ended = FALSE, !.late = 0] => srv'.owed = srv.owed
        OBVIOUS
      <3>2. srv'.owed = srv.owed
        BY <2>7, <3>1 DEF EventDisconnected, CloseSession
      <3>3. /\ UNCHANGED <<ctx, pc["stream"]>>
              /\ pc["ws"] \notin {"image", "imageSent"} /\ pc'["ws"] \notin {"image", "imageSent"}
        BY <2>7 DEF EventDisconnected
      <3> QED
        BY <3>2, <3>3
    <2> QED
      BY <1>4, <2>1, <2>2, <2>3, <2>4, <2>5, <2>6, <2>7 DEF Handler
  <1>5. ASSUME StartVideo \/ StopVideo \/ CaptureImage PROVE Owed'
    <2>1. CASE StartVideo
      <3>1. srv' = [srv EXCEPT !.ended = FALSE, !.late = 0] => srv'.owed = srv.owed
        OBVIOUS
      <3>2. srv'.owed = srv.owed
        BY <2>1, <3>1 DEF StartVideo, CloseSession
      <3>3. /\ UNCHANGED pc["stream"] /\ (ctx' = ctx \/ ctx'.streaming)
              /\ pc["ws"] \notin {"image", "imageSent"} /\ pc'["ws"] \notin {"image", "imageSent"}
        BY <2>1 DEF StartVideo, BeginTransfer, Command
      <3> QED
        BY <3>2, <3>3
    <2>2. CASE StopVideo
      BY <2>2 DEF StopVideo, Command
    <2>3. CASE CaptureImage
      BY <2>3 DEF CaptureImage, BeginTransfer, ReleasePending, Command
    <2> QED
      BY <1>5, <2>1, <2>2, <2>3
  <1>6. ASSUME Connect \/ LinkBreaks \/ ClientStopBegin \/ ClientStop \/ ClientStart \/ UNCHANGED vars
        PROVE  Owed'
    <2>1. CASE Connect
      BY <2>1 DEF Connect
    <2>2. CASE LinkBreaks
      BY <2>2 DEF LinkBreaks
    <2>3. CASE ClientStopBegin
      BY <2>3 DEF ClientStopBegin
    <2>4. CASE ClientStop
      BY <2>4 DEF ClientStop, CloseSession
    <2>5. CASE ClientStart
      BY <2>5 DEF ClientStart
    <2>6. CASE UNCHANGED vars
      BY <2>6 DEF vars
    <2> QED
      BY <1>6, <2>1, <2>2, <2>3, <2>4, <2>5, <2>6
  <1> QED
    BY <1>1, <1>2, <1>3, <1>4, <1>5, <1>6 DEF Next

LEMMA StopKnownStep ==
    ASSUME Inv, [Next]_vars
    PROVE  StopKnown'
  <1> USE
       DEF Inv, Types, Places, Flags, HalType, TaskKnown, Streaming, StopKnown, Goto, Takers,
           Stoppers, Tasks, media, session, budget
  <1>1. ASSUME NEW p \in Takers, Take(p) PROVE StopKnown'
    BY <1>1, ZenonT(40)
         DEF Take, Prepare, Drain, Invoke, TakeImage, CaptureTimeout, AbortCapture, FrameFlags,
             FramePut, FrameSignal, SendImage, FinishOneShot, EndTransfer, ReleasePending, Done,
             Failed
  <1>2. ASSUME NEW p \in Stoppers, Stop(p) PROVE StopKnown'
    BY <1>2 DEF Stop, HalStop, HalStopWait, ServiceStop, CloseSession
  <1>3. ASSUME StreamLoop \/ UploadTake \/ UploadCheck \/ UploadOut \/ Reply \/ ReplyGive
        PROVE  StopKnown'
    BY <1>3, ZenonT(40) DEF StreamLoop, UploadTake, UploadCheck, UploadOut, Reply, ReplyGive, FreeFrame
  <1>4. ASSUME Handler PROVE StopKnown'
    BY <1>4
         DEF Handler, ServiceStart, HalStart, HalStartTask, ServiceUndo, ResetStream, SendLast,
             EventDisconnected, EndTransfer, ReleasePending, CloseSession
  <1>5. ASSUME StartVideo \/ StopVideo \/ CaptureImage PROVE StopKnown'
    BY <1>5 DEF StartVideo, StopVideo, CaptureImage, BeginTransfer, ReleasePending, Command
  <1>6. ASSUME Connect \/ LinkBreaks \/ ClientStopBegin \/ ClientStop \/ ClientStart \/ UNCHANGED vars
        PROVE  StopKnown'
    BY <1>6 DEF Connect, LinkBreaks, ClientStopBegin, ClientStop, ClientStart, vars, CloseSession
  <1> QED
    BY <1>1, <1>2, <1>3, <1>4, <1>5, <1>6 DEF Next

LEMMA NoLeakStep ==
    ASSUME Inv, [Next]_vars
    PROVE  NoLeak'
  <1> USE
       DEF Inv, Types, Places, TakePc, Streaming, TaskKnown, HalType, Shooting, Bounds, CtxType,
           Context, NoLeak, One, Goto, Takers, Stoppers, Tasks, media, session, budget
  <1>1. ASSUME NEW p \in Takers, Take(p) PROVE NoLeak'
    <2>1. CASE Prepare(p)
      BY <2>1 DEF Prepare, Done, Failed
    <2>2. CASE Drain(p)
      BY <2>2 DEF Drain, Done, Failed
    <2>3. CASE Invoke(p)
      BY <2>3 DEF Invoke, Done, Failed
    <2>4. CASE TakeImage(p)
      BY <2>4 DEF TakeImage, Done, Failed
    <2>5. CASE CaptureTimeout(p)
      BY <2>5 DEF CaptureTimeout, Done, Failed
    <2>6. CASE AbortCapture(p)
      BY <2>6 DEF AbortCapture, Done, Failed
    <2>7. CASE FrameFlags(p)
      <3>1. CASE live' = live /\ pc'[p] # "put"
        BY <2>7, <3>1 DEF FrameFlags, Done, Failed
      <3>2. CASE ctx.streaming /\ live' = live + 1 /\ Goto(p, "put")
        <4>0. pc[p] = "frame" /\ UNCHANGED pending /\ ctx.streaming
          BY <2>7, <3>2 DEF FrameFlags
        <4>1. p = "stream" /\ pc["ws"] # "put"
          BY <4>0
        <4>2. /\ pc'["stream"] = "put" /\ pc'["ws"] # "put" /\ pc'["upload"] = pc["upload"]
              /\ pc["stream"] # "put"
          BY <3>2, <4>0, <4>1
        <4>3. One(\E q \in Takers : pc[q] = "put") = 0 /\ One(\E q \in Takers : pc'[q] = "put") = 1
          BY <4>1, <4>2
        <4> QED
          BY <3>2, <4>0, <4>1, <4>2, <4>3
      <3> QED
        BY <2>7, <3>1, <3>2 DEF FrameFlags, Done
    <2>8. CASE FramePut(p)
      BY <2>8 DEF FramePut, Done, Failed
    <2>9. CASE FrameSignal(p)
      BY <2>9 DEF FrameSignal, Done, Failed
    <2>10. CASE SendImage(p)
      BY <2>10 DEF SendImage, Done, Failed
    <2>11. CASE FinishOneShot(p)
      BY <2>11 DEF FinishOneShot, EndTransfer, ReleasePending, Done, Failed
    <2> QED
      BY <1>1, <2>1, <2>2, <2>3, <2>4, <2>5, <2>6, <2>7, <2>8, <2>9, <2>10, <2>11 DEF Take
  <1>2. ASSUME NEW p \in Stoppers, Stop(p) PROVE NoLeak'
    BY <1>2 DEF Stop, HalStop, HalStopWait, ServiceStop, CloseSession
  <1>3. ASSUME StreamLoop \/ UploadTake \/ UploadCheck \/ UploadOut \/ Reply \/ ReplyGive
        PROVE  NoLeak'
    BY <1>3 DEF StreamLoop, UploadTake, UploadCheck, UploadOut, Reply, ReplyGive, FreeFrame
  <1>4. ASSUME Handler PROVE NoLeak'
    BY <1>4
         DEF Handler, ServiceStart, HalStart, HalStartTask, ServiceUndo, ResetStream, SendLast,
             EventDisconnected, EndTransfer, ReleasePending, CloseSession
  <1>5. ASSUME StartVideo \/ StopVideo \/ CaptureImage PROVE NoLeak'
    BY <1>5 DEF StartVideo, StopVideo, CaptureImage, BeginTransfer, ReleasePending, Command
  <1>6. ASSUME Connect \/ LinkBreaks \/ ClientStopBegin \/ ClientStop \/ ClientStart \/ UNCHANGED vars
        PROVE  NoLeak'
    BY <1>6 DEF Connect, LinkBreaks, ClientStopBegin, ClientStop, ClientStart, vars, CloseSession
  <1> QED
    BY <1>1, <1>2, <1>3, <1>4, <1>5, <1>6 DEF Next

LEMMA QueuedIsCurrentStep ==
    ASSUME Inv, [Next]_vars
    PROVE  QueuedIsCurrent'
  <1> USE
       DEF Inv, Types, Places, TakePc, Streaming, TaskKnown, HalType, Bounds, CtxType, Context,
           QueuedIsCurrent, TakePc, Goto, Takers, Stoppers, Tasks, media, session, budget
  <1>1. ASSUME NEW p \in Takers, Take(p) PROVE QueuedIsCurrent'
    BY <1>1
         DEF Take, Prepare, Drain, Invoke, TakeImage, CaptureTimeout, AbortCapture, FrameFlags,
             FramePut, FrameSignal, SendImage, FinishOneShot, EndTransfer, ReleasePending, Done,
             Failed
  <1>2. ASSUME NEW p \in Stoppers, Stop(p) PROVE QueuedIsCurrent'
    BY <1>2 DEF Stop, HalStop, HalStopWait, ServiceStop, CloseSession
  <1>3. ASSUME StreamLoop \/ UploadTake \/ UploadCheck \/ UploadOut \/ Reply \/ ReplyGive
        PROVE  QueuedIsCurrent'
    BY <1>3 DEF StreamLoop, UploadTake, UploadCheck, UploadOut, Reply, ReplyGive, FreeFrame
  <1>4. ASSUME Handler PROVE QueuedIsCurrent'
    BY <1>4
         DEF Handler, ServiceStart, HalStart, HalStartTask, ServiceUndo, ResetStream, SendLast,
             EventDisconnected, EndTransfer, ReleasePending, CloseSession
  <1>5. ASSUME StartVideo \/ StopVideo \/ CaptureImage PROVE QueuedIsCurrent'
    BY <1>5 DEF StartVideo, StopVideo, CaptureImage, BeginTransfer, ReleasePending, Command
  <1>6. ASSUME Connect \/ LinkBreaks \/ ClientStopBegin \/ ClientStop \/ ClientStart \/ UNCHANGED vars
        PROVE  QueuedIsCurrent'
    BY <1>6 DEF Connect, LinkBreaks, ClientStopBegin, ClientStop, ClientStart, vars, CloseSession
  <1> QED
    BY <1>1, <1>2, <1>3, <1>4, <1>5, <1>6 DEF Next

LEMMA WakeupNotLostStep ==
    ASSUME Inv, [Next]_vars
    PROVE  WakeupNotLost'
  <1> USE
       DEF Inv, Types, Places, TakePc, Streaming, TaskKnown, HalType, CtxType, Flags, Context,
           Bounds, WakeupNotLost, Goto, Takers, Stoppers, Tasks, media, session, budget
  <1>1. ASSUME NEW p \in Takers, Take(p) PROVE WakeupNotLost'
    BY <1>1
         DEF Take, Prepare, Drain, Invoke, TakeImage, CaptureTimeout, AbortCapture, FrameFlags,
             FramePut, FrameSignal, SendImage, FinishOneShot, EndTransfer, ReleasePending, Done,
             Failed
  <1>2. ASSUME NEW p \in Stoppers, Stop(p) PROVE WakeupNotLost'
    BY <1>2 DEF Stop, HalStop, HalStopWait, ServiceStop, CloseSession
  <1>3. ASSUME StreamLoop \/ UploadTake \/ UploadCheck \/ UploadOut \/ Reply \/ ReplyGive
        PROVE  WakeupNotLost'
    BY <1>3 DEF StreamLoop, UploadTake, UploadCheck, UploadOut, Reply, ReplyGive, FreeFrame
  <1>4. ASSUME Handler PROVE WakeupNotLost'
    BY <1>4
         DEF Handler, ServiceStart, HalStart, HalStartTask, ServiceUndo, ResetStream, SendLast,
             EventDisconnected, EndTransfer, ReleasePending, CloseSession
  <1>5. ASSUME StartVideo \/ StopVideo \/ CaptureImage PROVE WakeupNotLost'
    BY <1>5 DEF StartVideo, StopVideo, CaptureImage, BeginTransfer, ReleasePending, Command
  <1>6. ASSUME Connect \/ LinkBreaks \/ ClientStopBegin \/ ClientStop \/ ClientStart \/ UNCHANGED vars
        PROVE  WakeupNotLost'
    BY <1>6 DEF Connect, LinkBreaks, ClientStopBegin, ClientStop, ClientStart, vars, CloseSession
  <1> QED
    BY <1>1, <1>2, <1>3, <1>4, <1>5, <1>6 DEF Next

LEMMA StartPossibleStep ==
    ASSUME Inv, [Next]_vars
    PROVE  StartPossible'
  <1> USE
       DEF Inv, Types, Places, Flags, HalType, TaskKnown, Streaming, StopKnown, StartPossible,
           Goto, Takers, Stoppers, Tasks, media, session, budget
  <1>1. ASSUME NEW p \in Takers, Take(p) PROVE StartPossible'
    BY <1>1
         DEF Take, Prepare, Drain, Invoke, TakeImage, CaptureTimeout, AbortCapture, FrameFlags,
             FramePut, FrameSignal, SendImage, FinishOneShot, EndTransfer, ReleasePending, Done,
             Failed
  <1>2. ASSUME NEW p \in Stoppers, Stop(p) PROVE StartPossible'
    BY <1>2 DEF Stop, HalStop, HalStopWait, ServiceStop, CloseSession
  <1>3. ASSUME StreamLoop \/ UploadTake \/ UploadCheck \/ UploadOut \/ Reply \/ ReplyGive
        PROVE  StartPossible'
    BY <1>3, ZenonT(40) DEF StreamLoop, UploadTake, UploadCheck, UploadOut, Reply, ReplyGive, FreeFrame
  <1>4. ASSUME Handler PROVE StartPossible'
    BY <1>4
         DEF Handler, ServiceStart, HalStart, HalStartTask, ServiceUndo, ResetStream, SendLast,
             EventDisconnected, EndTransfer, ReleasePending, CloseSession
  <1>5. ASSUME StartVideo \/ StopVideo \/ CaptureImage PROVE StartPossible'
    BY <1>5 DEF StartVideo, StopVideo, CaptureImage, BeginTransfer, ReleasePending, Command
  <1>6. ASSUME Connect \/ LinkBreaks \/ ClientStopBegin \/ ClientStop \/ ClientStart \/ UNCHANGED vars
        PROVE  StartPossible'
    <2>1. CASE Connect
      BY <2>1 DEF Connect
    <2>2. CASE LinkBreaks
      BY <2>2 DEF LinkBreaks
    <2>3. CASE ClientStopBegin
      BY <2>3 DEF ClientStopBegin
    <2>4. CASE ClientStop
      BY <2>4 DEF ClientStop, CloseSession
    <2>5. CASE ClientStart
      BY <2>5 DEF ClientStart
    <2>6. CASE UNCHANGED vars
      BY <2>6 DEF vars
    <2> QED
      BY <1>6, <2>1, <2>2, <2>3, <2>4, <2>5, <2>6
  <1> QED
    BY <1>1, <1>2, <1>3, <1>4, <1>5, <1>6 DEF Next

-----------------------------------------------------------------------------
(* The invariant, and what follows *)

LEMMA StreamInit == Init => Inv
  <1> SUFFICES ASSUME Init PROVE Inv
    OBVIOUS
  <1> USE BoundsAssumption DEF Init
  <1>1. Places
    BY DEF Places, Tasks
  <1>2. Types
    <2>1. HalType /\ CapType
      BY DEF HalType, CapType
    <2>2. CtxType /\ SrvType
      BY DEF CtxType, SrvType
    <2>3. UpType /\ WordTypes /\ Bounds
      BY DEF UpType, WordTypes, Bounds
    <2>4. Flags
      BY DEF Flags
    <2> QED
      BY <2>1, <2>2, <2>3, <2>4 DEF Types
  <1>3. pc["ws"] = "idle" /\ pc["stream"] = "none" /\ pc["upload"] = "idle"
    BY DEF Tasks
  <1>4. Streaming /\ Context /\ Ended /\ StopKnown /\ TaskKnown /\ QueuedIsCurrent
        /\ WakeupNotLost /\ StartPossible
    BY <1>3 DEF Streaming, Context, Ended, StopKnown, TaskKnown, QueuedIsCurrent, WakeupNotLost,
                StartPossible, Shooting
  <1>5. Owed /\ NoLeak
    BY <1>3 DEF Owed, Expected, NoLeak, One, Takers, Tasks
  <1> QED
    BY <1>1, <1>2, <1>4, <1>5 DEF Inv

LEMMA StreamInvariant == Spec => []Inv
  <1>1. Inv /\ [Next]_vars => Inv'
    BY PlacesStep, FlagsStep, HalTypeStep, CapTypeStep, CtxTypeStep, UpTypeStep, SrvTypeStep,
       WordTypesStep, TaskKnownStep, BoundsStep, StreamingStep, ContextStep, EndedStep, OwedStep,
       StopKnownStep, NoLeakStep, QueuedIsCurrentStep, WakeupNotLostStep, StartPossibleStep
       DEF Inv, Types
  <1> QED
    BY <1>1, StreamInit, PTL DEF Spec

\* Every variable of the camera path has its type, no more than three copies of frames are on the
\* heap at once, the HAL streams while the stream task is there, and a capture that has its image is
\* no longer waiting for one.
THEOREM StreamTypes == Spec => []TypeOK
  <1>1. Inv => TypeOK
    <2>1. Inv => live \in 0 .. 3
      BY DEF Inv, NoLeak, One
    <2> QED
      BY <2>1, TypeParts DEF Inv
  <1> QED
    BY <1>1, StreamInvariant, PTL

\* Every copy of a frame has one owner that will free it; the one that waits to be sent is of the
\* stream that is on; and while one waits the upload task has its signal, or is about to get it.
THEOREM FramesCopied == Spec => []FrameCopies
  <1>1. Inv => FrameCopies
    BY DEF Inv, FrameCopies
  <1> QED
    BY <1>1, StreamInvariant, PTL

\* When the service believes in a stream that the camera does not have, a start or a stop is under
\* way that will tell it, so that no later start is refused: the safety half of StopAndStart.
THEOREM CameraStartable == Spec => []StartPossible
  <1>1. Inv => StartPossible
    BY DEF Inv
  <1> QED
    BY <1>1, StreamInvariant, PTL

\* After the end marker the server gets at most two frames, it gets no image it did not ask for, and
\* the first frame of a stream that goes out is marked as such, and no other: all of ServerGets.
THEOREM ServerServed == Spec => ServerGets
  <1>1. Inv => LateFramesBounded
    BY DEF Inv, Types, SrvType, Ended, One, LateFramesBounded
  <1>2. Inv => ImagesRequested
    BY DEF Inv, Types, SrvType, Owed, One, ImagesRequested
  <1>3. ASSUME Inv, [Next]_vars
        PROVE  pc["upload"] = "idle" /\ pc'["upload"] = "send"
                 => (up'.first <=> up'.gen # up.gen)
    <2>1. pc["upload"] = "idle" /\ pc'["upload"] = "send" => UploadTake
      <3> USE <1>3 DEF Inv, Places, Goto, Tasks, Takers, Stoppers
      <3>1. ASSUME NEW p \in Takers, Take(p)
            PROVE  UNCHANGED pc["upload"] \/ pc'["upload"] # "send"
        BY <3>1
             DEF Take, Prepare, Drain, Invoke, TakeImage, CaptureTimeout, AbortCapture,
                 FrameFlags, FramePut, FrameSignal, SendImage, FinishOneShot, Done, Failed
      <3>2. ASSUME NEW p \in Stoppers, Stop(p)
            PROVE  UNCHANGED pc["upload"] \/ pc'["upload"] # "send"
        BY <3>2 DEF Stop, HalStop, HalStopWait, ServiceStop
      <3>3. ASSUME StreamLoop \/ UploadCheck \/ UploadOut \/ Reply \/ ReplyGive
            PROVE  UNCHANGED pc["upload"] \/ pc'["upload"] # "send"
        BY <3>3 DEF StreamLoop, UploadCheck, UploadOut, Reply, ReplyGive
      <3>4. ASSUME Handler PROVE UNCHANGED pc["upload"] \/ pc'["upload"] # "send"
        BY <3>4
             DEF Handler, ServiceStart, HalStart, HalStartTask, ServiceUndo, ResetStream,
                 SendLast, EventDisconnected
      <3>5. ASSUME StartVideo \/ StopVideo \/ CaptureImage
            PROVE  UNCHANGED pc["upload"] \/ pc'["upload"] # "send"
        BY <3>5 DEF StartVideo, StopVideo, CaptureImage, Command
      <3>6. ASSUME Connect \/ LinkBreaks \/ ClientStopBegin \/ ClientStop \/ ClientStart \/ UNCHANGED vars
            PROVE  UNCHANGED pc["upload"] \/ pc'["upload"] # "send"
        BY <3>6 DEF Connect, LinkBreaks, ClientStopBegin, ClientStop, ClientStart, vars
      <3> QED
        BY <3>1, <3>2, <3>3, <3>4, <3>5, <3>6 DEF Next
    <2>2. UploadTake /\ pc'["upload"] = "send"
            => ctx.streaming /\ pending # 0 /\ up' = [gen |-> pending, first |-> ctx.first]
      BY <1>3 DEF UploadTake, Inv, Places, Tasks
    <2>3. up' = [gen |-> pending, first |-> ctx.first] => up'.gen = pending /\ (up'.first <=> ctx.first)
      OBVIOUS
    <2> QED
      BY <1>3, <2>1, <2>2, <2>3 DEF Inv, Context, QueuedIsCurrent
  <1> QED
    BY <1>1, <1>2, <1>3, StreamInvariant, PTL DEF ServerGets, FirstMarksStream, Spec

-----------------------------------------------------------------------------
(* VoiceRecorder: the inductive invariant *)

\* A recording begins with a button that is pressed.
Pressing == task \in {"start", "freeze"} => pressed /\ state = "IDLE"

\* Unless a wait for the task ran out of time, there is no task without the cloud runtime,
\* and the recorder that is about to be started is idle.
Waited ==
    ~slow => /\ ~cloud /\ main \in {"idle", "wake"} => task = "none" /\ ~running
             /\ main = "wake" => state = "IDLE" /\ ~cloud

\* A stop of the recorder comes after the end of the session.
Cut == main = "stop" => ~ready /\ ~running

\* The session that goes on and is owed the end of a recording is in the middle of it, unless
\* the end could not be sent.
TalkOwed ==
    /\ owing <= sessions /\ untold <= sessions
    /\ ~slow /\ ready /\ owing = sessions /\ owing # 0 /\ untold # sessions =>
        cloud /\ state = "RECORDING"

RecorderInv == RecorderTypeOK /\ Pressing /\ Waited /\ Cut /\ TalkOwed /\ OnlyWhileHeld /\ ListensAgain

-----------------------------------------------------------------------------
(* VoiceRecorder: type correctness *)

LEMMA ButtonTypeStep ==
    ASSUME ButtonTypeOK, User \/ PollSkips \/ PollFails \/ PollReads \/ Attach \/ ProbeFails
                         \/ AttachFails \/ AttachSkipped \/ Detach \/ UNCHANGED button
    PROVE  ButtonTypeOK'
  <1> USE DEF ButtonTypeOK
  <1>1. {held', pressed', backend'} \subseteq BOOLEAN /\ probe' \in {"none", "failed", "ready"}
    BY DEF User, PollSkips, PollFails, PollReads, Attach, ProbeFails, AttachFails, AttachSkipped,
           Detach, button
  <1>2. turns' \in 0 .. MaxTurns
    BY ButtonAssumption
         DEF User, PollSkips, PollFails, PollReads, Attach, ProbeFails, AttachFails,
                            AttachSkipped, Detach, button
  <1>3. failures' \in 0 .. MaxFailures
    BY ButtonAssumption
         DEF User, PollSkips, PollFails, PollReads, Attach, ProbeFails, AttachFails,
                            AttachSkipped, Detach, button
  <1> QED
    BY <1>1, <1>2, <1>3

LEMMA RecorderTypeStep ==
    ASSUME RecorderTypeOK, [RecorderNext]_recorderVars
    PROVE  RecorderTypeOK'
  <1> USE RecorderAssumption DEF RecorderTypeOK
  <1>1. ASSUME Poll PROVE RecorderTypeOK'
    <2>1. ButtonTypeOK'
      BY <1>1, ButtonTypeStep DEF Poll
    <2>2. task' \in {"start", "stop", "tick"}
      BY <1>1 DEF Poll, React
    <2> QED
      BY <1>1, <2>1, <2>2 DEF Poll
  <1>2. ASSUME Start \/ Begin \/ StopRecording \/ Tick \/ Loop PROVE RecorderTypeOK'
    <2>1. ButtonTypeOK'
      BY <1>2, ButtonTypeStep DEF Start, Begin, StopRecording, Tick, Loop
    <2> QED
      BY <1>2, <2>1 DEF Start, Begin, StopRecording, Tick, Loop
  <1>3. ASSUME StartTask \/ StartTaskFails PROVE RecorderTypeOK'
    <2>1. ButtonTypeOK'
      BY <1>3, ButtonTypeStep DEF StartTask, StartTaskFails
    <2>2. deaf' \in BOOLEAN
      BY <1>3 DEF StartTask, StartTaskFails
    <2> QED
      BY <1>3, <2>1, <2>2 DEF StartTask, StartTaskFails
  <1>4. ASSUME Stopped PROVE RecorderTypeOK'
    <2>1. ButtonTypeOK'
      BY <1>4, ButtonTypeStep DEF Stopped
    <2>2. slow' \in BOOLEAN
      BY <1>4 DEF Stopped
    <2> QED
      BY <1>4, <2>1, <2>2 DEF Stopped
  <1>5. ASSUME Resume \/ StillStopping \/ Suspend \/ Opens \/ Closes PROVE RecorderTypeOK'
    <2>1. ButtonTypeOK'
      BY <1>5, ButtonTypeStep DEF Resume, StillStopping, Suspend, Opens, Closes
    <2>2. {running, cloud, ready, slow, deaf, unborn}' \subseteq BOOLEAN
      BY <1>5 DEF Resume, StillStopping, Suspend, Opens, Closes
    <2>3. sessions' \in 0 .. MaxSessions /\ suspends' \in 0 .. MaxSuspends
      BY <1>5 DEF Resume, StillStopping, Suspend, Opens, Closes
    <2> QED
      BY <1>5, <2>1, <2>2, <2>3 DEF Resume, StillStopping, Suspend, Opens, Closes
  <1>6. ASSUME UserTurns PROVE RecorderTypeOK'
    <2>1. ButtonTypeOK'
      BY <1>6, ButtonTypeStep DEF UserTurns
    <2> QED
      BY <1>6, <2>1 DEF UserTurns
  <1>7. ASSUME UNCHANGED recorderVars PROVE RecorderTypeOK'
    <2>1. ButtonTypeOK'
      BY <1>7, ButtonTypeStep DEF recorderVars
    <2> QED
      BY <1>7, <2>1 DEF recorderVars
  <1> QED
    BY <1>1, <1>2, <1>3, <1>4, <1>5, <1>6, <1>7 DEF RecorderNext, Task, MainLoop

-----------------------------------------------------------------------------
(* VoiceRecorder: the steps *)

LEMMA RecorderTaskStep ==
    ASSUME RecorderInv, Task
    PROVE  Pressing' /\ Waited' /\ Cut' /\ TalkOwed' /\ OnlyWhileHeld' /\ ListensAgain'
  <1> USE
       DEF RecorderInv, RecorderTypeOK, Pressing, Waited, Cut, TalkOwed, OnlyWhileHeld,
           ListensAgain
  <1>1. CASE Poll
    <2>1. pressed' # pressed => task' = React(pressed')
      BY <1>1 DEF Poll
    <2>2. pressed' = pressed => task' = "tick"
      BY <1>1 DEF Poll
    <2>3. backend' = backend
      BY <1>1 DEF Poll, PollSkips, PollFails, PollReads, button
    <2>4. state = "RECORDING" /\ pressed' # pressed => task' = "stop"
      BY <2>1 DEF React
    <2>5. task' \in {"start", "freeze"} => pressed' /\ state = "IDLE"
      BY <2>1, <2>2 DEF React
    <2>6. task' # "none" /\ task = "poll"
      BY <1>1, <2>1, <2>2 DEF React, Poll
    <2> QED
      BY <1>1, <2>3, <2>4, <2>5, <2>6 DEF Poll
  <1>2. CASE Start
    BY <1>2 DEF Start, button
  <1>3. CASE Begin
    BY <1>3 DEF Begin, button
  <1>4. CASE StopRecording
    BY <1>4 DEF StopRecording, button
  <1>5. CASE Tick
    BY <1>5 DEF Tick, button
  <1>6. CASE Loop
    BY <1>6 DEF Loop, button
  <1> QED
    BY <1>1, <1>2, <1>3, <1>4, <1>5, <1>6 DEF Task

LEMMA RecorderOtherStep ==
    ASSUME RecorderInv, MainLoop \/ Suspend \/ Opens \/ Closes \/ UserTurns \/ UNCHANGED recorderVars
    PROVE  Pressing' /\ Waited' /\ Cut' /\ TalkOwed' /\ OnlyWhileHeld' /\ ListensAgain'
  <1> USE
       DEF RecorderInv, RecorderTypeOK, Pressing, Waited, Cut, TalkOwed, OnlyWhileHeld,
           ListensAgain
  <1>1. CASE Resume
    BY <1>1 DEF Resume, button
  <1>2. CASE StillStopping
    BY <1>2 DEF StillStopping, button
  <1>3. CASE StartTask
    BY <1>3 DEF StartTask
  <1>10. CASE StartTaskFails
    BY <1>10 DEF StartTaskFails
  <1>4. CASE Stopped
    BY <1>4 DEF Stopped, Detach
  <1>5. CASE Suspend
    BY <1>5 DEF Suspend, button
  <1>6. CASE Opens
    BY <1>6 DEF Opens, button
  <1>7. CASE Closes
    BY <1>7 DEF Closes, button
  <1>8. CASE UserTurns
    BY <1>8 DEF UserTurns, User
  <1>9. CASE UNCHANGED recorderVars
    BY <1>9 DEF recorderVars, button
  <1> QED
    BY <1>1, <1>2, <1>3, <1>4, <1>5, <1>6, <1>7, <1>8, <1>9, <1>10 DEF MainLoop

-----------------------------------------------------------------------------
(* VoiceRecorder: theorems *)

LEMMA RecorderInvariant == RecorderSpec => []RecorderInv
  <1>1. RecorderInit => RecorderInv
    <2>1. RecorderInit => ButtonTypeOK
      <3>1. ButtonInit => {held, pressed, backend} \subseteq BOOLEAN /\ probe = "none"
        BY DEF ButtonInit
      <3>2. ButtonInit => turns \in 0 .. MaxTurns /\ failures \in 0 .. MaxFailures
        BY ButtonAssumption DEF ButtonInit
      <3> QED
        BY <3>1, <3>2 DEF RecorderInit, ButtonTypeOK
    <2>2. RecorderInit => {running, cloud, ready, slow, deaf, unborn} \subseteq BOOLEAN
      BY DEF RecorderInit
    <2>3. RecorderInit => /\ {sessions, owing, untold} \subseteq 0 .. MaxSessions
                          /\ suspends \in 0 .. MaxSuspends
      BY RecorderAssumption DEF RecorderInit
    <2>4. RecorderInit => RecorderTypeOK
      BY <2>1, <2>2, <2>3 DEF RecorderInit, RecorderTypeOK
    <2> QED
      BY <2>4
           DEF RecorderInit, ButtonInit, RecorderInv, Pressing, Waited, Cut, TalkOwed,
               OnlyWhileHeld, ListensAgain
  <1>2. RecorderInv /\ [RecorderNext]_recorderVars => RecorderInv'
    <2> SUFFICES ASSUME RecorderInv, [RecorderNext]_recorderVars PROVE RecorderInv'
      OBVIOUS
    <2>1. RecorderTypeOK'
      BY RecorderTypeStep DEF RecorderInv
    <2>2. Pressing' /\ Waited' /\ Cut' /\ TalkOwed' /\ OnlyWhileHeld' /\ ListensAgain'
      BY RecorderTaskStep, RecorderOtherStep DEF RecorderNext
    <2> QED
      BY <2>1, <2>2 DEF RecorderInv
  <1> QED
    BY <1>1, <1>2, PTL DEF RecorderSpec

\* Every variable of the recorder and of its button has its type, and a recorder that is told to
\* run has a task.
THEOREM RecorderTypeCorrect == RecorderSpec => []RecorderTypeOK
  <1>1. RecorderInv => RecorderTypeOK
    BY DEF RecorderInv
  <1> QED
    BY <1>1, RecorderInvariant, PTL

\* The recorder records only while the driver believes the button to be held.
THEOREM HeldWhileRecording == RecorderSpec => []OnlyWhileHeld
  <1>1. RecorderInv => OnlyWhileHeld
    BY DEF RecorderInv
  <1> QED
    BY <1>1, RecorderInvariant, PTL

\* Once the cloud runtime has been started, the recorder runs and hears its button; unless its
\* task could not be created (unborn), the button failed (deaf) or a task was still there (slow).
THEOREM RecorderListens == RecorderSpec => []ListensAgain
  <1>1. RecorderInv => ListensAgain
    BY DEF RecorderInv
  <1> QED
    BY <1>1, RecorderInvariant, PTL

\* No session that was sent speech finds the recorder idle before it was told the end, unless
\* its last end could not be sent.
THEOREM EndTold == RecorderSpec => [](IdleInSession => Told)
  <1>1. RecorderInv => (IdleInSession => Told)
    BY DEF RecorderInv, TalkOwed, IdleInSession, Told
  <1> QED
    BY <1>1, RecorderInvariant, PTL

=============================================================================

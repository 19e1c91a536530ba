---------------------------- MODULE AudioUplink ----------------------------
(***************************************************************************)
(* The audio uplink of ws_client.c: the voice task copies microphone       *)
(* frames into a pool of slots, the worker task ws_audio_send takes them   *)
(* out and sends them as WSPK packets, and the WebSocket event handler and *)
(* ws_client_stop reset the pool under their feet.  One action is what a   *)
(* task does from one point where another task can see or disturb it to    *)
(* the next (a lock, a queue operation, a blocking send).                  *)
(***************************************************************************)
EXTENDS Integers, Sequences

CONSTANTS
    Depth,      \* WS_AUDIO_QUEUE_DEPTH, the number of slots
    MaxFrames,  \* bound: frames the microphone delivers
    MaxConns,   \* bound: connections the transport establishes
    MaxStops,   \* bound: calls of ws_client_stop
    MaxSeq,     \* bound: the sequence counter stays there once it gets there
    Spent       \* how much of the bounds a behaviour starts without

ASSUME DepthAssumption == Depth \in Nat \ {0}
ASSUME BoundAssumption == MaxFrames \in Nat /\ MaxConns \in Nat /\ MaxStops \in Nat /\ MaxSeq \in Nat
ASSUME SpentAssumption == Spent \subseteq [frames : Nat, conns : Nat, stops : Nat]

Slot   == 1 .. Depth
NoSlot == 0

VARIABLES
    \* the socket below esp_websocket_client: 0 when down, else the number of
    \* the connection, and how many connections there have been
    link, conns,
    connected,  \* s_socket_connected
    hello,      \* s_hello_acknowledged
    handler,    \* "reset" while an event handler is inside ws_reset_media_state
    stopper,    \* where ws_client_stop is
    stops,
    \* the slot pool
    free,       \* s_audio_free_slots
    pending,    \* s_audio_pending_slots
    content,    \* s_audio_frame_pool: the frame number in each slot, 0 if none
    inflight,   \* s_audio_inflight_slot while s_audio_inflight_active
    open,       \* s_audio_session_open
    first,      \* s_audio_first_frame_pending
    endp,       \* s_audio_end_pending
    \* the voice task
    rec,        \* g_state = VOICE_STATE_RECORDING
    voice,      \* where the voice task is in ws_send_audio / ws_send_audio_end
    captured,   \* frames captured so far
    \* the worker task
    running,    \* s_audio_worker_running
    leaving,    \* workers past "s_audio_worker_task = NULL" that have yet to
                \* write s_audio_worker_running = false
    pc, wslot, wfirst, wframe, wseq, wok,
    seq,        \* s_frame_sequences[WS_FRAME_TYPE_AUDIO]
    \* what the server has received on the present connection
    srv,
    \* history: a reset that fell into a window of the worker
    torn, leaky, overtaken

session == <<link, conns, connected, hello, handler>>
stop    == <<stopper, stops>>
pool    == <<free, pending, content, inflight>>
flags   == <<open, first, endp>>
talk    == <<rec, voice, captured>>
task    == <<running, leaving>>
work    == <<pc, wslot, wfirst, wframe, wseq, wok>>
hist    == <<torn, leaky, overtaken>>
vars    == <<session, stop, pool, flags, talk, task, work, seq, srv, hist>>

\* ws_audio_session_ready
Ready == connected /\ hello

\* The worker has a frame of the session, or has read the session's flags, and
\* has not written the outcome back yet.
MidPacket == pc \in {"flag", "read", "packet", "send", "after", "endpacket", "endsend", "endafter"}
\* The worker holds a slot that s_audio_inflight_active does not cover.
Uncovered == pc \in {"flag", "return"}

\* The server's view of a connection on which nothing has arrived.
Silent == [open |-> FALSE, frame |-> 0, seq |-> 0, kind |-> "none", early |-> FALSE, stray |-> FALSE]

-----------------------------------------------------------------------------
Init ==
    /\ \E s \in Spent : captured = s.frames /\ conns = s.conns /\ stops = s.stops
    /\ link = 0 /\ connected = FALSE /\ hello = FALSE /\ handler = "idle"
    /\ stopper = "idle"
    /\ free = [i \in 1 .. Depth |-> i] /\ pending = <<>>
    /\ content = [s \in Slot |-> 0] /\ inflight = NoSlot
    /\ open = FALSE /\ first = FALSE /\ endp = FALSE
    /\ rec = FALSE /\ voice = "idle"
    /\ running = FALSE /\ leaving = 0
    /\ pc = "none" /\ wslot = NoSlot /\ wfirst = FALSE /\ wframe = 0 /\ wseq = 0 /\ wok = FALSE
    /\ seq = 0 /\ srv = Silent
    /\ torn = FALSE /\ leaky = FALSE /\ overtaken = FALSE

-----------------------------------------------------------------------------
\* Mutant of Refill: the slot in flight is handed out as well.
RefillAll == [i \in 1 .. Depth |-> i]

\* ws_audio_queue_reset_locked: every slot but the one in flight is free again.
Refill ==
    IF inflight \in Slot
    THEN [i \in 1 .. Depth - 1 |-> IF i < inflight THEN i ELSE i + 1]
    ELSE [i \in 1 .. Depth |-> i]

ResetPool ==
    /\ free' = Refill
    /\ pending' = <<>>
    /\ open' = FALSE /\ first' = FALSE /\ endp' = FALSE
    /\ leaky' = (leaky \/ Uncovered)
    /\ torn' = (torn \/ MidPacket)
    /\ UNCHANGED <<content, inflight, overtaken>>

\* The reset of ws_reset_media_state also takes the slot lock, which the worker
\* holds from xQueueReceive until it has set the in-flight flag.
SlotLockFree == pc # "flag"

-----------------------------------------------------------------------------
(* The transport and the WebSocket task *)

\* The coordinator starts the client and the socket connects
\* (auto-reconnect is disabled, so only after the last handler has run).
LinkUp ==
    /\ link = 0 /\ ~connected /\ handler = "idle" /\ stopper = "idle"
    /\ conns < MaxConns
    /\ conns' = conns + 1 /\ link' = conns + 1 /\ srv' = Silent
    /\ UNCHANGED <<connected, hello, handler, stop, pool, flags, talk, task, work, seq, hist>>

LinkDown ==
    /\ link # 0
    /\ link' = 0
    /\ UNCHANGED <<conns, connected, hello, handler, stop, pool, flags, talk, task, work, seq, srv, hist>>

\* WEBSOCKET_EVENT_CONNECTED up to the locks of ws_reset_media_state.
EventConnected ==
    /\ link # 0 /\ ~connected /\ handler = "idle" /\ stopper \in {"idle", "close"}
    /\ connected' = TRUE /\ hello' = FALSE /\ seq' = 0 /\ handler' = "reset"
    /\ torn' = (torn \/ MidPacket)
    /\ UNCHANGED <<link, conns, stop, pool, flags, talk, task, work, srv, leaky, overtaken>>

\* WEBSOCKET_EVENT_DISCONNECTED up to the locks of ws_reset_media_state.
EventDisconnected ==
    /\ link = 0 /\ connected /\ handler = "idle" /\ stopper \in {"idle", "close"}
    /\ connected' = FALSE /\ hello' = FALSE /\ seq' = 0 /\ handler' = "reset"
    /\ torn' = (torn \/ MidPacket)
    /\ UNCHANGED <<link, conns, stop, pool, flags, talk, task, work, srv, leaky, overtaken>>

\* ws_reset_media_state under the slot lock, the send lock and the state lock.
HandlerReset ==
    /\ handler = "reset" /\ SlotLockFree
    /\ handler' = "idle"
    /\ ResetPool
    /\ UNCHANGED <<link, conns, connected, hello, stop, talk, task, work, seq, srv>>

\* sys.ack of sys.client.hello: ws_client_mark_hello_acked.
HelloAcked ==
    /\ link # 0 /\ connected /\ ~hello /\ handler = "idle" /\ stopper \in {"idle", "close"}
    /\ hello' = TRUE
    /\ UNCHANGED <<link, conns, connected, handler, stop, pool, flags, talk, task, work, seq, srv, hist>>

-----------------------------------------------------------------------------
(* ws_client_stop, called by the transport coordinator *)

StopBegin ==
    /\ stopper = "idle" /\ stops < MaxStops
    /\ stops' = stops + 1 /\ stopper' = "close" /\ running' = FALSE
    /\ UNCHANGED <<session, pool, flags, talk, leaving, work, seq, srv, hist>>

\* esp_websocket_client_stop returns when the client's task has ended: a handler
\* that is running completes first, and no event follows.  It is not called when
\* the disconnect handler has cleared s_ws_started, even if it is still running.
StopClose ==
    /\ stopper = "close" /\ (handler = "idle" \/ ~connected)
    /\ link' = 0 /\ stopper' = "wait"
    /\ UNCHANGED <<conns, connected, hello, handler, stops, pool, flags, talk, task, work, seq, srv, hist>>

\* ws_wait_for_audio_worker_exit: the worker's handle became NULL, ...
StopWorkerGone ==
    /\ stopper = "wait" /\ pc = "none"
    /\ stopper' = "reset"
    /\ UNCHANGED <<session, stops, pool, flags, talk, task, work, seq, srv, hist>>

\* ... or 300 ms passed: the session's flags are cleared, the pool is kept.
StopTimeout ==
    /\ stopper = "wait" /\ pc # "none"
    /\ stopper' = "idle" /\ connected' = FALSE /\ hello' = FALSE
    /\ torn' = (torn \/ MidPacket)
    /\ UNCHANGED <<link, conns, handler, stops, pool, flags, talk, task, work, seq, srv, leaky, overtaken>>

\* The reset after the wait: the state lock only, not the slot lock.
StopReset ==
    /\ stopper = "reset"
    /\ stopper' = "session"
    /\ ResetPool
    /\ UNCHANGED <<session, stops, talk, task, work, seq, srv>>

\* ws_reset_session_state up to the locks of ws_reset_media_state, ...
StopSession ==
    /\ stopper = "session"
    /\ stopper' = "media" /\ connected' = FALSE /\ hello' = FALSE /\ seq' = 0
    /\ torn' = (torn \/ MidPacket)
    /\ UNCHANGED <<link, conns, handler, stops, pool, flags, talk, task, work, srv, leaky, overtaken>>

\* ... and the reset of the pool under them.
StopMedia ==
    /\ stopper = "media" /\ SlotLockFree
    /\ stopper' = "idle"
    /\ ResetPool
    /\ UNCHANGED <<session, stops, talk, task, work, seq, srv>>

-----------------------------------------------------------------------------
(* The voice task: button polling, voice_recorder_tick, and the producer side *)

\* A button press with a ready session starts a recording.
Press ==
    /\ voice = "idle" /\ ~rec /\ Ready
    /\ rec' = TRUE
    /\ UNCHANGED <<session, stop, pool, flags, voice, captured, task, work, seq, srv, hist>>

\* ws_audio_queue_init, called first by both producer functions: it creates the
\* worker, or turns one that was told to exit back on; either needs a reset.
QueueInit(call) ==
    IF pc = "none"
    THEN /\ running' = TRUE /\ pc' = "top" /\ voice' = call.reset
         /\ UNCHANGED <<leaving, wslot, wfirst, wframe, wseq, wok>>
    ELSE /\ running' = TRUE
         /\ voice' = IF running THEN call.act ELSE call.reset
         /\ UNCHANGED <<leaving, work>>

\* voice_recorder_tick while recording: a frame was read and ws_send_audio called.
Capture ==
    /\ voice = "idle" /\ rec /\ captured < MaxFrames
    /\ captured' = captured + 1
    /\ QueueInit([reset |-> "resetframe", act |-> "frame"])
    /\ UNCHANGED <<session, stop, pool, flags, rec, seq, srv, hist>>

\* The release of the button while the session is ready: ws_send_audio_end.
Release ==
    /\ voice = "idle" /\ rec /\ Ready
    /\ QueueInit([reset |-> "resetend", act |-> "end"])
    /\ UNCHANGED <<session, stop, pool, flags, rec, captured, seq, srv, hist>>

\* The release of the button when the session is gone: no end marker.
ReleaseOffline ==
    /\ voice = "idle" /\ rec /\ ~Ready
    /\ rec' = FALSE
    /\ UNCHANGED <<session, stop, pool, flags, voice, captured, task, work, seq, srv, hist>>

\* The reset of ws_audio_queue_init: the state lock only, not the slot lock.
QueueInitReset ==
    /\ voice \in {"resetframe", "resetend"}
    /\ voice' = IF voice = "resetframe" THEN "frame" ELSE "end"
    /\ ResetPool
    /\ UNCHANGED <<session, stop, rec, captured, task, work, seq, srv>>

\* Puts the frame into slot s, and opens the upload session if none is open.
Enqueue(s) ==
    /\ content' = [content EXCEPT ![s] = captured]
    /\ IF open THEN UNCHANGED <<open, first>> ELSE open' = TRUE /\ first' = TRUE

\* ws_send_audio under the state lock: a free slot, ...
SendAudioFree ==
    /\ voice = "frame" /\ Ready /\ ~endp /\ free # <<>>
    /\ Enqueue(Head(free))
    /\ IF Len(pending) < Depth
       THEN free' = Tail(free) /\ pending' = Append(pending, Head(free))
       ELSE free' = Append(Tail(free), Head(free)) /\ UNCHANGED pending
    /\ voice' = "idle"
    /\ UNCHANGED <<session, stop, inflight, endp, rec, captured, task, work, seq, srv, hist>>

\* Mutant of SendAudioEvict: the newest frame takes the place of the oldest one.
EvictInPlace ==
    /\ voice = "frame" /\ Ready /\ ~endp /\ free = <<>> /\ pending # <<>>
    /\ Enqueue(Head(pending))
    /\ voice' = "idle"
    /\ UNCHANGED <<session, stop, free, pending, inflight, endp, rec, captured, task, work, seq, srv, hist>>

\* ... or else the slot of the oldest frame still waiting, ...
SendAudioEvict ==
    /\ voice = "frame" /\ Ready /\ ~endp /\ free = <<>> /\ pending # <<>>
    /\ Enqueue(Head(pending))
    /\ pending' = Append(Tail(pending), Head(pending))
    /\ voice' = "idle"
    /\ UNCHANGED <<session, stop, free, inflight, endp, rec, captured, task, work, seq, srv, hist>>

\* ... or the frame is refused.
SendAudioRefused ==
    /\ voice = "frame"
    /\ ~Ready \/ endp \/ (free = <<>> /\ pending = <<>>)
    /\ voice' = "idle"
    /\ UNCHANGED <<session, stop, pool, flags, rec, captured, task, work, seq, srv, hist>>

\* ws_send_audio_end under the state lock, and the return to VOICE_STATE_IDLE.
SendAudioEnd ==
    /\ voice = "end"
    /\ endp' = (endp \/ Ready)
    /\ rec' = FALSE /\ voice' = "idle"
    /\ UNCHANGED <<session, stop, pool, open, first, captured, task, work, seq, srv, hist>>

-----------------------------------------------------------------------------
(* The worker task: ws_audio_worker_task *)

\* The end of an iteration, and of its local variables.
LocalsEnd ==
    /\ pc' = "top" /\ wslot' = NoSlot
    /\ wfirst' = FALSE /\ wframe' = 0 /\ wseq' = 0 /\ wok' = FALSE

\* Mutant of WorkerTake: the worker waits for two frames, as the TTS worker does.
TakeTwo ==
    /\ pc = "top" /\ running /\ Len(pending) > 1
    /\ pending' = Tail(pending) /\ wslot' = Head(pending) /\ pc' = "flag"
    /\ UNCHANGED <<session, stop, free, content, inflight, flags, talk, task,
                   wfirst, wframe, wseq, wok, seq, srv, hist>>

\* Under the slot lock: the oldest waiting slot is taken out of the queue.
WorkerTake ==
    /\ pc = "top" /\ running /\ pending # <<>>
    /\ pending' = Tail(pending) /\ wslot' = Head(pending) /\ pc' = "flag"
    /\ UNCHANGED <<session, stop, free, content, inflight, flags, talk, task,
                   wfirst, wframe, wseq, wok, seq, srv, hist>>

\* Under the slot lock: nothing is waiting, look for an end marker to send.
WorkerNothing ==
    /\ pc = "top" /\ running /\ pending = <<>>
    /\ pc' = "endread"
    /\ UNCHANGED <<session, stop, pool, flags, talk, task, wslot, wfirst, wframe, wseq, wok, seq, srv, hist>>

\* Still under the slot lock: the slot is declared in flight.
WorkerFlag ==
    /\ pc = "flag"
    /\ inflight' = wslot /\ pc' = "read"
    /\ UNCHANGED <<session, stop, free, pending, content, flags, talk, task,
                   wslot, wfirst, wframe, wseq, wok, seq, srv, hist>>

\* Under the state lock: a frame is sent only in a ready session, else dropped.
WorkerRead ==
    /\ pc = "read"
    /\ IF Ready THEN wfirst' = first /\ pc' = "packet" ELSE UNCHANGED wfirst /\ pc' = "clear"
    /\ UNCHANGED <<session, stop, pool, flags, talk, task, wslot, wframe, wseq, wok, seq, srv, hist>>

\* ws_send_binary_packet: sequence number, copy of the payload, and the first
\* checks of ws_client_lock_and_send, all without a lock.
BuildPacket(sending, failed) ==
    /\ seq' = IF seq < MaxSeq THEN seq + 1 ELSE seq
    /\ wseq' = seq' /\ wok' = FALSE
    /\ pc' = IF Ready THEN sending ELSE failed

WorkerPacket ==
    /\ pc = "packet"
    /\ wframe' = content[wslot]
    /\ BuildPacket("send", "after")
    /\ UNCHANGED <<session, stop, pool, flags, talk, task, wslot, wfirst, srv, hist>>

\* The packet reaches the server, whatever connection is up by now.
WorkerSendFrame ==
    /\ pc = "send" /\ link # 0
    /\ srv' = [srv EXCEPT !.kind = "frame", !.open = TRUE, !.frame = wframe, !.seq = wseq,
                          !.early = @ \/ ~hello, !.stray = @ \/ (~srv.open /\ ~wfirst)]
    /\ wok' = TRUE /\ pc' = "after"
    /\ UNCHANGED <<session, stop, pool, flags, talk, task, wslot, wfirst, wframe, wseq, seq, hist>>

\* The send lock or the send times out, or the socket is gone.
WorkerSendFails ==
    /\ pc \in {"send", "endsend"}
    /\ pc' = IF pc = "send" THEN "after" ELSE "endafter"
    /\ UNCHANGED <<session, stop, pool, flags, talk, task, wslot, wfirst, wframe, wseq, wok, seq, srv, hist>>

\* Mutant of WorkerAfter: the mark is used up even when the send failed.
AfterAnySend ==
    /\ pc = "after"
    /\ first' = FALSE
    /\ pc' = "clear"
    /\ UNCHANGED <<session, stop, pool, open, endp, talk, task, wslot, wfirst, wframe, wseq, wok, seq, srv, hist>>

\* Under the state lock: the first frame of the session has gone out.
WorkerAfter ==
    /\ pc = "after"
    /\ first' = (first /\ ~wok)
    /\ pc' = "clear"
    /\ UNCHANGED <<session, stop, pool, open, endp, talk, task, wslot, wfirst, wframe, wseq, wok, seq, srv, hist>>

\* Under the slot lock: the slot is no longer in flight, ...
WorkerClear ==
    /\ pc = "clear"
    /\ inflight' = IF inflight = wslot THEN NoSlot ELSE inflight
    /\ pc' = "return"
    /\ UNCHANGED <<session, stop, free, pending, content, flags, talk, task,
                   wslot, wfirst, wframe, wseq, wok, seq, srv, hist>>

\* Mutant of WorkerReturn: the queue's capacity is not checked.
ReturnUnbounded ==
    /\ pc = "return"
    /\ free' = Append(free, wslot)
    /\ LocalsEnd
    /\ UNCHANGED <<session, stop, pending, content, inflight, flags, talk, task, seq, srv, hist>>

\* ... and without any lock it goes back to the free queue.
WorkerReturn ==
    /\ pc = "return"
    /\ free' = IF Len(free) < Depth THEN Append(free, wslot) ELSE free
    /\ LocalsEnd
    /\ UNCHANGED <<session, stop, pending, content, inflight, flags, talk, task, seq, srv, hist>>

\* Under the state lock: is an end marker due, and does it open the session too?
WorkerEndRead ==
    /\ pc = "endread"
    /\ IF endp /\ Ready
       THEN /\ wfirst' = (first \/ ~open) /\ pc' = "endpacket"
            /\ overtaken' = (overtaken \/ pending # <<>>)
       ELSE UNCHANGED <<wfirst, overtaken>> /\ pc' = "top"
    /\ UNCHANGED <<session, stop, pool, flags, talk, task, wslot, wframe, wseq, wok, seq, srv, torn, leaky>>

WorkerEndPacket ==
    /\ pc = "endpacket"
    /\ BuildPacket("endsend", "endafter")
    /\ UNCHANGED <<session, stop, pool, flags, talk, task, wslot, wfirst, wframe, srv, hist>>

WorkerSendEnd ==
    /\ pc = "endsend" /\ link # 0
    /\ srv' = [srv EXCEPT !.kind = "end", !.open = FALSE, !.seq = wseq,
                          !.early = @ \/ ~hello, !.stray = @ \/ (~srv.open /\ ~wfirst)]
    /\ wok' = TRUE /\ pc' = "endafter"
    /\ UNCHANGED <<session, stop, pool, flags, talk, task, wslot, wfirst, wframe, wseq, seq, hist>>

\* Under the state lock: a sent end marker closes the session; a failed one is
\* tried again.
WorkerEndAfter ==
    /\ pc = "endafter"
    /\ IF wok THEN open' = FALSE /\ first' = FALSE /\ endp' = FALSE ELSE UNCHANGED flags
    /\ LocalsEnd
    /\ UNCHANGED <<session, stop, pool, talk, task, seq, srv, hist>>

\* The loop ends and the handle becomes NULL; s_audio_worker_running is written
\* afterwards, when a new worker may already be running.
WorkerExit ==
    /\ pc = "top" /\ ~running
    /\ pc' = "none" /\ leaving' = leaving + 1
    /\ UNCHANGED <<session, stop, pool, flags, talk, running, wslot, wfirst, wframe, wseq, wok, seq, srv, hist>>

WorkerGone ==
    /\ leaving > 0
    /\ leaving' = leaving - 1 /\ running' = FALSE
    /\ UNCHANGED <<session, stop, pool, flags, talk, work, seq, srv, hist>>

-----------------------------------------------------------------------------
Transport == LinkUp \/ LinkDown \/ EventConnected \/ EventDisconnected \/ HandlerReset \/ HelloAcked

Stop == StopBegin \/ StopClose \/ StopWorkerGone \/ StopTimeout \/ StopReset \/ StopSession \/ StopMedia

Voice == \/ Press \/ Capture \/ Release \/ ReleaseOffline \/ QueueInitReset
         \/ SendAudioFree \/ SendAudioEvict \/ SendAudioRefused \/ SendAudioEnd

Worker == \/ WorkerTake \/ WorkerNothing \/ WorkerFlag \/ WorkerRead \/ WorkerPacket
          \/ WorkerSendFrame \/ WorkerSendFails \/ WorkerAfter \/ WorkerClear \/ WorkerReturn
          \/ WorkerEndRead \/ WorkerEndPacket \/ WorkerSendEnd \/ WorkerEndAfter
          \/ WorkerExit \/ WorkerGone

Next == Transport \/ Stop \/ Voice \/ Worker

Spec == Init /\ [][Next]_vars

(***************************************************************************)
(* Fairness: FreeRTOS schedules the worker, the client library delivers    *)
(* its events and the handler gets its locks, ws_client_stop runs to its   *)
(* end; and a link that stays up accepts a packet that is offered again    *)
(* and again.  The voice task may stop between any two calls.              *)
(***************************************************************************)
FairSpec ==
    /\ Spec
    /\ WF_vars(Worker)
    /\ WF_vars(EventConnected \/ EventDisconnected \/ HandlerReset)
    /\ WF_vars(StopClose \/ StopWorkerGone \/ StopTimeout \/ StopReset \/ StopSession \/ StopMedia)
    /\ SF_vars(WorkerSendFrame \/ WorkerSendEnd)

-----------------------------------------------------------------------------
(* Properties *)

Count == 0 .. Depth

FlagTypes ==
    /\ connected \in BOOLEAN /\ hello \in BOOLEAN
    /\ open \in BOOLEAN /\ first \in BOOLEAN /\ endp \in BOOLEAN
    /\ rec \in BOOLEAN /\ running \in BOOLEAN
    /\ wfirst \in BOOLEAN /\ wok \in BOOLEAN
    /\ torn \in BOOLEAN /\ leaky \in BOOLEAN /\ overtaken \in BOOLEAN

DataTypes ==
    /\ link \in Nat /\ conns \in Nat /\ stops \in Nat /\ captured \in Nat /\ leaving \in Nat
    /\ handler \in {"idle", "reset"}
    /\ stopper \in {"idle", "close", "wait", "reset", "session", "media"}
    /\ voice \in {"idle", "frame", "end", "resetframe", "resetend"}
    /\ pc \in {"none", "top", "flag", "read", "packet", "send", "after", "clear", "return",
               "endread", "endpacket", "endsend", "endafter"}
    /\ inflight \in Slot \cup {NoSlot} /\ wslot \in Slot \cup {NoSlot}
    /\ wframe \in Nat /\ wseq \in Nat /\ seq \in Nat

PoolTypes ==
    /\ free \in Seq(Slot) /\ Len(free) \in Count
    /\ pending \in Seq(Slot) /\ Len(pending) \in Count
    /\ content \in [Slot -> Nat]

ServerTypes == srv \in [open : BOOLEAN, frame : Nat, seq : Nat, kind : {"none", "frame", "end"},
                        early : BOOLEAN, stray : BOOLEAN]

(***************************************************************************)
(* Every variable has its type, and a queue of slots never holds more than *)
(* the pool: the free and the pending queue are FreeRTOS queues of fixed   *)
(* length.                                                                 *)
(***************************************************************************)
TypeOK == FlagTypes /\ DataTypes /\ PoolTypes /\ ServerTypes

Holding == pc \in {"flag", "read", "packet", "send", "after", "clear", "return"}

In(s, q) == \E i \in 1 .. Len(q) : q[i] = s

(***************************************************************************)
(* A slot of the pool has one owner: the free queue, the pending queue or  *)
(* the worker, and none is lost.  The in-flight flag is what protects the  *)
(* slot the worker is sending from a concurrent reset; only a reset in the *)
(* two windows the flag does not cover (leaky) can hand a slot out twice.  *)
(***************************************************************************)
Distinct(q) == \A i, j \in 1 .. Len(q) : i # j => q[i] # q[j]

Disjoint ==
    /\ Distinct(free) /\ Distinct(pending)
    /\ \A i \in 1 .. Len(free), j \in 1 .. Len(pending) : free[i] # pending[j]
    /\ \A i \in 1 .. Len(free) : free[i] # wslot
    /\ \A i \in 1 .. Len(pending) : pending[i] # wslot

Conserved == Len(free) + Len(pending) + (IF Holding THEN 1 ELSE 0) = Depth

SlotOwnership == ~leaky => Disjoint /\ Conserved

(***************************************************************************)
(* The frame in flight is not overwritten while it is being sent: between  *)
(* taking a slot and copying its payload the worker sees one frame.        *)
(***************************************************************************)
StableInFlight == [][~leaky /\ Holding /\ Holding' => content'[wslot] = content[wslot]]_vars

(***************************************************************************)
(* Frames reach the server in the order they were captured, none twice:    *)
(* eviction, failed sends, reconnects and resets may lose frames but never *)
(* reorder or repeat them.                                                 *)
(***************************************************************************)
FrameOrder ==
    [][~leaky /\ srv'.kind = "frame" /\ srv'.seq # srv.seq => srv'.frame > srv.frame]_vars

(***************************************************************************)
(* On one connection the sequence numbers of audio packets increase: the   *)
(* counter is cleared and incremented by different tasks without a lock.   *)
(***************************************************************************)
SequenceOrder ==
    [][~torn /\ srv' # srv /\ srv'.kind # "none" /\ srv.seq < MaxSeq => srv'.seq > srv.seq]_vars

\* What the server receives is in order, frames and packets.
SentInOrder == FrameOrder /\ SequenceOrder

(***************************************************************************)
(* No audio packet reaches the server before it has acknowledged the hello *)
(* of that connection.                                                     *)
(***************************************************************************)
NoEarlyAudio == ~srv.early
HelloFirst == ~torn => NoEarlyAudio

(***************************************************************************)
(* What the server receives is a sequence of recordings, each opened by a  *)
(* packet marked FIRST and closed by one marked LAST: no packet arrives    *)
(* outside of a recording.                                                 *)
(***************************************************************************)
NoStrayPacket == ~srv.stray
Framing == ~torn /\ ~overtaken => NoStrayPacket

\* The packets of a connection come after its hello, in recordings.
PacketsInPlace == HelloFirst /\ Framing

(***************************************************************************)
(* The end of a recording is announced: an end marker that was asked for   *)
(* is sent, unless the session it was asked in ends or a stop begins.      *)
(***************************************************************************)
EndMarkerSent == (endp /\ Ready /\ running) ~> (~endp \/ ~Ready \/ ~running)

(***************************************************************************)
(* A frame that was accepted does not wait for ever.                       *)
(***************************************************************************)
FramesDrain == (pending # <<>> /\ running) ~> (pending = <<>> \/ ~running)

\* What the worker was given to do, it does.
WorkerDrains == EndMarkerSent /\ FramesDrain

=============================================================================

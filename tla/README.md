# WatcheRobot firmware: TLA+ models, checks and proofs

This directory specifies the concurrent core of the ESP32-S3 firmware under
`src/firmware/s3`: what its FreeRTOS tasks, event handlers and callbacks do to
the state they share. Each module is written from the C code, TLC checks it on
small instances, and TLAPS proves the safety of every one of them for all
values of their constants. `PROJECT.json` maps every definition to the lines it models.

    tlc -workers 2 -config AudioUplink.cfg AudioUplinkMC.tla
    tlapm AudioUplinkProofs.tla

## 1. The system

The robot records speech while its button is held and streams it over a
WebSocket, plays the answer (TTS), moves its head, shows pictures, streams
camera frames, and is provisioned by a phone over BLE. BLE and the cloud
connection exclude each other.

Tasks and their priorities: WebSocket client task (8, runs the event handler and
the message handlers), TTS worker (7), audio worker (6), servo (6), local sounds,
control, behaviour (5), camera stream and upload (5), animation worker, voice (5),
process and monitor task of the vision chip's client, main loop (1). BLE
callbacks run in the host task of the BLE stack, Wi-Fi events in the event loop,
animation timers in LVGL's task.

### Components

| Component (file) | State | Operations | Module |
|---|---|---|---|
| Audio uplink (`ws_client.c`) | pool of frame slots in a free and a pending queue, in-flight slot, session / first / end flags, sequence counter, worker | queue a frame or the end marker, worker loop, connect / disconnect / hello ack, `ws_client_stop` | `AudioUplink` |
| WebSocket reception (`ws_client.c`) | assembly of a text and of a binary message | one event per piece of a frame | `Reception`, `FrameChannel` |
| Commands (`ws_router.c`, `ws_handlers.c`, `ble_service.c`) | video settings, answers | each message of the server, each write of the phone | `Commands` |
| Control ingress (`control_ingress.c`) | queue of states | submit a state, a text, a servo command, an AI status; control task | `ControlIngress`, `Motion` |
| BLE provisioning (`ble_service.c`) | connected, subscribed | connect, subscribe, commands, status notifications | `BleService`, `TransportCoordinator` |
| TTS playback (`ws_client.c`) | pool of TTS slots, `s_tts_playing`, end flag | binary frame, end of an answer, worker loop, finish / abort / resets | `TtsPlayback` |
| Local sounds (`sfx_service.c`) | pending request, `local_busy`, `cloud_audio_busy`, stop request | play, chunk loop, arbitration with the cloud | `TtsPlayback` |
| Codec (`hal_audio.c`) | running, playback mode, sample rate | start, stop, set mode and rate, write | `TtsPlayback` |
| Voice recorder (`voice_fsm.c`) | state, task, running flag | poll, start and stop of a recording, start and stop of the recorder | `VoiceRecorder` |
| Button (`hal_button.c`) | pressed, backend, probe | poll, init, deinit | `Button` |
| Transport coordinator (`app_main.c`) | transport state, retry timer, cached endpoint, low-memory recovery, cloud runtime | `transport_coordinator_tick`, BLE callback, resume and recovery steps | `TransportCoordinator` |
| Wi-Fi manager (`wifi_manager.c`) | credentials, suspended, connect requested / in progress | connect, disconnect, suspend, driver events | `WifiManager` |
| Discovery (`discovery_client.c`) | the server heard, the deadline, the round | broadcast, read, pause, rest | `Discovery` |
| Camera (`ws_handlers.c`, `camera_service.c`, `hal_camera.c`) | three records of "streaming", capture flags, one pending frame, semaphores | capture, start, stop, frame hook, upload task, connection loss | `CameraStream` |
| Vision chip (`hal_camera.c`, `sscma_client_ops.c`) | initialised, in progress, connected, profile of the sensor; requests, replies | `hal_camera_init`, configure, invoke; process and monitor task | `CameraLink`, `SscmaClient` |
| Animations (`anim_player.c`, `anim_storage.c`) | active and pending playback, each with a ring of frames; generation | start, stop, worker, two timers | `AnimPlayer` |
| Screen (`display_ui.c`, `hal_display.c`) | known animation, stored text | update, boot, freeze | `Display` |
| Behaviour engine (`behavior_state_service.c`) | current state and action, timeline indices, request queue of depth 1, lock; catalogue | behaviour task, request, interrupt; loading | `Motion`, `Catalog` |
| Servo (`hal_servo.c`) | queue of moves, cancel generation, angles | smooth and immediate move, cancel, servo task | `Servo`, `ServoPulse` |
| Wake word, OTA, boot, memory monitor, vendored drivers, host tools | | | not modelled (§7) |

### How they interact

- The WebSocket task calls the event handler, which assembles messages and hands
  them to the handlers; a reset of the session empties the uplink pool and
  the TTS queue while both workers use them; the workers send without a lock.
- The voice task produces frames and end markers for the audio worker through
  FreeRTOS queues of slot numbers; eviction moves a slot from one to the other.
- The main loop's tick calls `ws_client_stop`, which closes the socket, waits for
  the worker with a timeout, and resets the same state as the event handler; it
  also starts and stops the voice recorder as memory allows.
- TTS, recorder and local sounds share one codec without a common lock:
  `cloud_audio_busy`, `local_busy` and the recorder's state keep them apart.
- The BLE callback suspends Wi-Fi and the WebSocket client from its own task;
  the tick polls `ble_service_is_connected` and finds out later.
- Commands arrive in two tasks. States go through the control queue, servo
  commands past it; both interrupt the actions of the behaviour task and, with
  it, give moves to the servo task.
- The behaviour task shows texts and pictures; the main loop and the voice task
  also set texts and stop the animation. The animation worker and LVGL's timers
  share the rings of frames under a mutex, LVGL draws without it.
- Camera frames go from the stream task through one pending pointer to the upload
  task; stops come from the WebSocket task and from `ws_client_stop`. Both tasks
  bring up the vision chip and give it commands through one list of requests.

### What is hard, and what makes each part correct

- *Uplink*: a reset between two steps of a producer or the worker. One owner for each slot, no reordering, nothing before the hello, recordings framed, nothing stranded.
- *Reception*: pieces of any length, a lost one, no memory, a lost link. No message mixed, in part or twice, and no bad one that poisons the next.
- *Commands*: two clients, one queue. What is acknowledged happens, what is refused does not, the phone learns the Wi-Fi status as it is.
- *TTS and sounds*: an answer, a recording, a sound and the end of a session all change the codec. Frames in order at the right rate, the sound gives way, the codec is given back.
- *Recorder*: a button that fails, sessions that come and go, stops in mid-recording. It records only while the button is held, tells the end, and works again after a stop.
- *Coordinator*: stale searches, short memory, BLE in the middle of a tick. The link is quiet under BLE, and without a phone the device comes back to the cloud.
- *Discovery*: late, repeated, incomplete announcements and other robots. The right server, a whole round, on time.
- *Camera*: a capture during a stream, two stoppers, late replies, a chip that restarts. Frames keep to their stream, the camera can be stopped and started, one task initialises it, every call returns.
- *Screen*: a switch while a frame is read or drawn. The frame on the screen is whole, animations do not stand still, the last request wins.
- *Motion*: three producers of moves, a cancellation that is not atomic. A cancelled move does not start, the last one wins, one-shot states end.

The hazards, each at its line with the properties that would catch it, are in
`PROJECT.json`.

## 2. Plan

Done, in this order: `AudioUplink` and its proofs; `WifiManager` and
`TransportCoordinator`; `TtsPlayback`; `CameraStream`; `Servo` and `Motion`;
`Reception` with its abstract specification `FrameChannel`; `ControlIngress`,
`BleService` and `Commands`; `AnimPlayer` and `Display`; `SscmaClient` and
`CameraLink`; `Button` and `VoiceRecorder` and their proofs; `Catalog`;
`ServoPulse`; `Discovery` and its proofs; the proofs of `TtsPlayback`, of
`Reception` with its refinement of `FrameChannel`, of `TransportCoordinator`, of
`Motion` and `ServoPulse`, and of `Display` and `AnimPlayer`; last those of
`CameraStream`, `CameraLink` and `Commands` with its two parts.

What would come next: a composition of `CameraLink` with `CameraStream`.

## 3. The modules

A step of a model is what a task does between two points at which another task
can interfere: a FreeRTOS call, a lock, or an access to a variable that another
task writes without a lock. `pc`, `voice`, `handler`, `stopper` and the like say
where a task is between two steps. History variables (marked as such) name a
window of the code that a property has to except, so that the property says
exactly where the code's protection ends. Operators marked `Mutant` are wrong
variants of the definition that follows; a property must be violated with one of
them in its place.

### AudioUplink

`free`, `pending` and `content` are the two FreeRTOS queues and the frame pool,
`inflight` the slot that a reset must leave alone, `open`, `first`, `endp` the
session flags, `seq` the counter of audio packets. The producer, the worker
(`Worker...`), the event handler (`Event...`, `HandlerReset`) and `ws_client_stop`
(`Stop...`) interleave. `srv` is what the server has received on
this connection: it opens with FIRST, closes with LAST, and remembers an early or
a stray packet.

Left out: statistics; `s_waiting_for_response`; 50 ms timeouts of the state lock;
`ws_audio_runtime_deinit`; more than one producer or one stopper at a time. The
32-bit sequence counter saturates at `MaxSeq`.

Windows named: `leaky` (a reset while the worker has taken a slot but not yet
raised the in-flight flag, or has lowered it but not returned the slot), `torn`
(a reset while the worker has a frame or an end marker under way) and
`overtaken` (an end marker has gone out while a frame waits).
Two of these contradict the protocol document: a frame
accepted during the send of an end marker follows LAST (`ws_client.c:481`,
`COMM_PROTOCOL_FREEZE.md:141`), and a packet whose session check preceded a
reconnect reaches the new connection before its hello is acknowledged
(`ws_client.c:829`, `COMM_PROTOCOL_FREEZE.md:56`).

### FrameChannel, Reception

`FrameChannel` says what a session with the server may deliver: a text or a
buffered message whole or not at all, audio piece by piece without a gap, its
end only after all of it; a message may be abandoned, and is never taken up again.
`Reception` is `ws_handle_text_frame` and `ws_handle_binary_frame` with their
buffers, offsets and resets, fed by the client library with pieces of any length.
`ImplementsChannel` is the refinement, with the frame on the wire abstracted to
what of it is still on its way. Lengths are in units of payload.

### ControlIngress, BleService, Commands

`ControlIngress` has the queue of states, the control task and the choice of
state and action of an AI status. `BleService` has the connection of the phone
and the notifications of the Wi-Fi status by two tasks. `Commands` composes them:
each task takes one message at a time, carries it out in the order of the code,
and answers. A notification may be lost (`LoseNote`): the failure of
`esp_ble_gatts_send_indicate` is only logged. `told` is `Unsure` when
the last notification was lost or overlapped another task's.
`answer`, `accepted`, `served`, `moved` record what each command was
told and what it did. Left out: the two text formats, attribute reads, prepared
writes, failed allocations, advertising data, and answers lost with the link.
Streaming commands are `CameraStream`'s.

### WifiManager, TransportCoordinator

`WifiManager` has the manager's requests and driver events as operators on its
own variables. `TransportCoordinator` extends it with the tick, cut where the BLE
callback, a driver event or the discovery task can come in between, with the BLE
callback, the discovery task and the part of `ws_client.c` that starts and stops
the client. `Bounds` says what the environment may do in a behaviour: where the
server may be, which kinds of mishaps and how many, BLE sessions, changes of
credentials. A behaviour starts with one such record and uses it up. The two limits
of deferrals, `WifiResumeDefers` and `WsStartDefers`, are three in the code. The
count of deferred WebSocket starts never reaches it: each tick with Wi-Fi up resets
it (`app_main.c:1217`) and a tick makes at most two attempts
(`StartsNeverRecover`), so `StartShort` never comes to `StartRecovery`; it is in the
model as in the code, and a lower limit would reach it.

Kinds of mishaps: the access point or the server's connection is `loss` or `drop`
lost, the server has `moved`, a `search` fails or its endpoint cannot be built, memory
is short (`heap`), `ws_client_init` or `ws_client_start` fails (`init`, `start`);
these the code tries again, and credentials that are refused because `esp_wifi_start`
fails (`store`) leave everything as it was. These it does not: `esp_wifi_start` fails in
the resumption (`radio`); `esp_wifi_connect` fails
(`connect`); a client cannot be destroyed (`postponed`); a connection fails before
`ws_client_start` returns (`early`). `Recovers` excuses behaviours with the latter
four, and `Forgotten`: in a session that raced the tick the link may come up, and
storing credentials then clears `is_connected` without disconnecting
(`wifi_manager.c:494`), so that the manager and the driver disagree for good.

Left out: the retry clock (a delay is "due" or not), heap figures (a check fails
as the mishap `heap`), idle hints and boot pictures, `discovery_init` (it has no
failure), errors of `esp_wifi_set_config`, advertising errors (BLE starts and stops
advertising when told). `wifi_provision` is not reachable while
connected. A generation is "current or stale". A server that is reached
acknowledges the hello; a protocol mismatch counts as a failed connection.

### Discovery

A search in steps of 500 ms, which every wait of the code is a multiple of. `info`
is the static `g_server_info`, which outlives a search; `inbox` the UDP mailbox,
which also gets the broadcasts of other robots. `sent` counts attempts, as
`retry_count` does: a `sendto` that fails is only logged (`discovery_client.c:208`).
The search is the coordinator's, of 5 s; the 30 s of `COMM_PROTOCOL_FREEZE.md:41` are
the default, which no caller uses. `disturbed` names a search that
has read one of these. The coordinator's check of the version is `Judge`.

### TtsPlayback

The handler, `ws_client_stop`, the worker and the sound task, with the codec as
`running`, `mode` and `rate`. `crossed` names the end of a session that meets the
worker with a frame in its hands, `overtaken` the sound task that found the cloud
idle and puts the codec back after the cloud took it.

Left out: failures of `hal_audio_start` after boot, of the TTS runtime's
creation and of writes other than to a stopped codec; wake-word paths;
`sfx_service_stop`, which has no caller. The handler's 50 ms lock
waits succeed, the worker's 20 ms wait may not. A connection comes back only when
no write is under way, as the retry delay is 2 s and a write takes 100 ms.

### Button, VoiceRecorder

`Button` is the polled pin with failing reads, the probe and its cooldown.
`VoiceRecorder` extends it with the voice task and with the part of the main loop
that starts the recorder and, when memory runs low, stops the WebSocket client and
the recorder. `slow` names a stop that did not wait for its task, `deaf` a start
that found no button, `unborn` one whose task could not be created: the main loop marks
the cloud runtime as started all the same (`app_main.c:906`) and there is no recorder
until memory runs low again. `untold` is the session whose last end could not be sent
although it was ready. Left out: wake word, pictures, statistics; codec errors show as
a recording that does not begin and as reads that bring nothing.

### CameraStream

Five tasks share the record of `hal_camera.c` (`hal`, `cap`), of
`camera_service.c` (`svc`) and of `ws_handlers.c` (`ctx`, `pending`). Procedures
used by several tasks are actions with the task as parameter: `Takers` take a
picture, `Stoppers` stop the stream. Replies come late, never, or after their
capture has timed out. Left out: the start of the chip (`CameraLink`), frame
rate, statistics. Connection and hello acknowledgement are one step.

### SscmaClient, CameraLink

`SscmaClient` has the list of requests, the chip at the other end, the wire, the
process task that matches answers by command, and the queue of the monitor task.
`CameraLink` is `hal_camera_init`, `hal_camera_configure` and the request of a
picture by two tasks. `doubt` and `stale` name what an unanswered command or a
restart of the chip leaves unknown. Left out: texts, logs, `AT+BREAK`, failed
allocations, the inference calls nothing uses.

### AnimPlayer, Display

`active` and `pending` are playbacks with a ring of frames; the worker fills one
slot at a time under the mutex, the frame timer advances, the service timer
commits a switch. `Display` adds `display_ui.c`, with the behaviour task and other
tasks setting texts and pictures in steps. A call decides once, before its text, whether
it will ask for its emoji (`display_ui.c:143`), from what was known then. A call before
the label exists ends there (`LabelMissing`). `overlapped` names two tasks inside
`display_update_with_style` at once. Left out: the manifest, sizes, delays,
`show_static`, the panel.

### Servo, Motion, ServoPulse, Catalog

`Servo` cuts `hal_servo_move_smooth`, `hal_servo_move_sync` and
`hal_servo_cancel_all` at each queue operation and at the cancel generation, and
the servo task at each step of the interpolation. `Motion` gives these steps to the
three producers: the behaviour task, which holds `s_ctx.lock` from its schedule
to its last event, and the WebSocket and BLE tasks, which take it to interrupt an
action. `goal` is the pose the last move given leads to, `Anywhere` when a
cancellation or an immediate move may have undone it; each queued move remembers
whether the action or state it was given for has ended.

`ServoPulse` has the numbers: limits, pulse widths and duty cycles with C's
rounding, and the angles of a smooth move. `Catalog` has the loader: which files
are refused, and what the key frames of an action become; `CatalogTest` compares
it with the loop of the code for small files, and `MotionMC` takes its timelines
from `Catalog`.

Left out: the LEDC peripheral, a timeout of the angle mutex, texts, pictures,
which sound plays. A sound is started or not at a switch, and its end is free.

## 4. The runs

| Run | Module | What it checks |
|---|---|---|
| `uplink` | `AudioUplinkMC` | slots, framing, order, and that end markers and frames get out, over a reconnect, evictions or a `ws_client_stop` (0.9 M states) |
| `reception` | `Reception` | refinement of `FrameChannel`; a clean frame is always delivered |
| `commands` | `CommandsMC` | answers are kept, the phone is told the status |
| `transport` | `TransportCoordinatorMC` | quiet under BLE, stale searches ignored, no recovery for a WebSocket start, back to the cloud (0.5 M states) |
| `discovery` | `DiscoveryMC` | the version, the round, the time |
| `tts` | `TtsPlayback` | slots, order, rate; the local sound; the end |
| `voice` | `VoiceRecorder` | held while recording, listens again, the end is told |
| `camera` | `CameraStream` | copies of frames, what the server gets, stop and start |
| `camera_link` | `CameraLink` | one initialiser, the profile, every call returns (0.2 M states) |
| `display` | `DisplayMC` | what is drawn, what was asked for last, no standstill |
| `motion` | `MotionMC` | cancellation, last move, fallback; `Catalog`'s test |
| `discovery_version` | `DiscoveryMC` | violated: the version is always checked |

A property that is a conjunction of named parts answers one question: its parts are
defined, and commented, just above it.

Where properties stop short of the code's obligations: `WorkerDrains` speaks of
times when the worker runs (`running`), so it says nothing of a flag that a stopped
worker clears for its successor; a frame is marked FIRST when the upload task takes it,
and not sent again when that fails; `StopAndStart` does not see a stream that outlives
its session; the unit of `FrameChannel` is one WebSocket frame, and a message in
continuation frames is outside it; `CallsReturn` asks for an answer, not for
success; waits in `Discovery` are multiples of 500 ms.

### Finding

`discovery_version`: an announcement without a version keeps the version of an
earlier one, perhaps of another server (`discovery_client.c:93`), and so passes the
check of `app_main.c:1109` that `COMM_PROTOCOL_FREEZE.md:45` asks for.
`OtherVersionRefused` says what remains true, and is proved.

### Other disagreements met

These are in the models, excused by name in the properties, without a run of
their own:

- The tick reads the BLE flag once and compares it with what the callback writes
  in between: Wi-Fi is connected during the session (`app_main.c:1175`,
  `COMM_PROTOCOL_FREEZE.md:29`; `raced`).
- A failing `esp_wifi_start` or `esp_wifi_connect` leaves `s_connect_requested` set, and
  the retry that the coordinator schedules returns at once because a connection is
  requested (`app_main.c:1037`, `wifi_manager.c:366-373`, `:227`; mishaps `radio` and
  `connect`): the link that is to be resumed after BLE stays down until another session
  (`COMM_PROTOCOL_FREEZE.md:29`, `BLE_GATT_PROTOCOL_BRIDGE.md:20`).
- The abort gives the codec back only when `s_tts_playing` is set, which the worker
  does last (`ws_client.c:771`): the next recording is made at 24 kHz
  (`voice-stream.md:15`; `crossed`).
- `ws_client_stop` looks at the stream before it stops the WebSocket task
  (`ws_client.c:1456`): a `start_video` in hand outlives the session (`docs/architecture.md:199`).
- `control_apply_ai_status` never tries its fallback, as the behaviour service
  answers `ESP_OK` to what it only queues (`control_ingress.c:205`, `COMM_PROTOCOL_FREEZE.md:103`).
- A playback that does not open during a switch leaves the old animation frozen
  (`anim_player.c:417`, `GIF_ANIMATION_REFACTOR_PLAN.md:105`).
- After a connect timeout a late report of the chip makes `hal_camera_init`
  succeed once and then never (`hal_camera.c:795`, `COPROC_COMM_DEV_DESIGN.md:178`).
- A refused servo command of the phone has already stopped the running action
  (`ble_service.c:635`, `BLE_GATT_PROTOCOL_BRIDGE.md:134`).
- A looped state with an action is never restarted (`behavior_state_service.c:1719`),
  and the state's own motion goes out when an action is interrupted (`:1358`).

### Bounds, and why they are enough

- *Uplink*: two slots make the queues full, empty and evicting; three frames make a
  recording with a first, a middle and an evicted frame; two connections make a
  reconnect. `MCSpent` gives a behaviour three frames, or two and a reconnect, or
  one and a stop: together they give no new step of the code. `MaxSeq = 3` lets the
  counter reach its end.
- *Reception*: frames of up to 4 units with a header of 2 in pieces of up to 3 are
  split in the header, at its end and in the payload; three frames show a bad one
  before and after a good one; one event is lost.
- *Commands*: a queue of two (16 in the code) is filled by three messages of two
  clients; a BLE write has up to two lines; one change of Wi-Fi overlaps one
  notification of the BLE task.
- *Transport*: two endpoints tell a cached from a new one; the limits are the code's.
  `Faults` has three faults of the kinds that are tried again, enough to fail the same
  attempt twice and once more; `ShortOf` has a loss, the three shortages of memory that
  begin the recovery of Wi-Fi, and one that prolongs it. `Edited` and `LostInBle` have a
  BLE session with one event more. With two BLE sessions `Recovers` fails: the late
  `s_ws_started = true` of `ws_client.c:1443` is a hazard.
- *Discovery*: the code's own numbers (5 s, three broadcasts); two searches, as
  `g_server_info` outlives one; three answers and five datagrams of others, with room for three.
- *TTS*: two slots and a start buffer of two fill and evict with three frames.
- *Voice*: four turns, two failures, three sessions, two stops.
- *Camera*: three commands make start, capture and stop or two starts; one end of
  the session and one reply under way.
- *CameraLink*: two tasks, two profiles, an event queue of one (it can be full), one
  lost message, one restart, three calls, three commands.
- *Display*: a ring of two (three in the code) can be full and empty; animations of
  one and of more frames, looping and not; three starts, one failure, one stop, three updates.
- *Motion*: a servo queue of two (100 in the code) so that three producers fill it; a
  one-shot and a looped state with motion, a looped one without, and an action
  that ends with an immediate move, the shapes of the shipped catalogue. A clock
  of 0 and 1 tells "due" from "not yet".

Deadlock is not checked: with the bounds used up the system may rest, and a
FreeRTOS task that waits for its queue is at rest too.

### Fairness

| Specification | Assumed | Why |
|---|---|---|
| `AudioUplink` | worker, handler and stop go on; a send offered again and again to a link that stays up is accepted (strong) | each is a task that FreeRTOS schedules; a send that fails is retried every tick |
| `Commands` | control task | it waits for its queue only |
| `TransportCoordinator` | main loop, callbacks, discovery task and events go on, delays pass, an access point or server that is there answers; a search ends between two ticks infinitely often (strong) | the loop sleeps most of its period; a result posted inside `app_main.c:1088-1267` is thrown away, and this cannot happen every time |
| `Discovery` | the search goes on, time passes | every wait has a timeout |
| `TtsPlayback` | a task that has begun goes on | no wait without timeout |
| `VoiceRecorder` | voice task and main loop go on; a poll that is tried again and again reads (strong) | the expander is read again after each cooldown |
| `CameraStream` | stream task and WebSocket task only | every wait of theirs has a timeout; nothing is assumed of the server, the link, the co-processor |
| `CameraLink` | both callers, the monitor and process task and the chip go on | every wait of a caller has a timeout |
| `Display` | animation worker and LVGL's two timers | they are periodic |
| `Motion` | behaviour task, sounds, a manual call in progress; time passes although it cannot while the task works (strong) | the task sleeps 10 ms in every round |

Nothing is assumed of the server's messages, the phone, the user, or faults.

## 5. What is proved

For every value of the constants, by TLAPS:

| Module | Theorem | States |
|---|---|---|
| `AudioUplinkProofs` | `TypeCorrect` | `TypeOK` |
| | `SlotsOwned` | `SlotOwnership`: no slot is lost or in two hands |
| | `InFlightStable` | `StableInFlight`: the frame being sent is not overwritten (proved from the invariant of `SlotsOwned`, not part of a run) |
| | `AudioAfterHello`, `PacketsFramed`, `PacketsPlaced` | `HelloFirst`, `Framing`, and both: `PacketsInPlace` |
| | `SentOrdered` | `SentInOrder`: frames and packets reach the server in order, none twice |
| `CaptureProofs` | `StreamTypes` | `TypeOK` of `CameraStream` |
| | `FramesCopied` | `FrameCopies`: each copy of a frame has an owner, a stream and a wake-up |
| | `ServerServed` | `ServerGets`: what reaches the server after the end, unasked, or as the first |
| | `CameraStartable` | `StartPossible`, the safety half of `StopAndStart` |
| | `RecorderTypeCorrect` | `RecorderTypeOK` |
| | `HeldWhileRecording` | `OnlyWhileHeld` |
| | `RecorderListens` | `ListensAgain` |
| | `EndTold` | `IdleInSession => Told`, the safety half of `TalkEnds` |
| `ConnectionProofs` | `LinkTypes` | `TypeOK` of `CameraLink` |
| | `MarksAreTrue` | `MarksTrue`: one task brings the chip up, and the HAL knows its profile |
| | `SearchTypeCorrect` | `SearchTypeOK` |
| | `VersionRespected` | `OtherVersionRefused` |
| | `TimeKept`, `WholeRoundAsked` | `EndsOnTime`, `HeardIsTaken`, the safety half of `SearchKept` |
| `TtsPlaybackProofs` | `TypeCorrect` | `TypeOK` |
| | `SlotsOwned`, `InOrderPlayed`, `RightlyPlayed` | the parts of `PlayedRight`, and all of it: `Played` |
| | `SoundsYield` | `over <= 1`, the safety half of `LocalSounds` |
| `ReceptionProofs` | `TypeCorrect` | `TypeOK` |
| | `Implements` | `ImplementsChannel`: the refinement of `FrameChannel` |
| | `Delivered` | `CleanFrameDelivered` |
| `TransportCoordinatorProofs` | `TypeCorrect` | `TypeOK` |
| | `PhoneFirst` | `BleGoesFirst`: quiet under BLE, stale searches ignored |
| | `StartsCounted` | `StartsNeverRecover`, for a limit of three or more |
| `MotionProofs` | `TypeCorrect` | `TypeOK` |
| | `InOrder` | `MovesInOrder`: what is cancelled does not start, the last move wins |
| | `DutyIncreases`, `DutyInRange` | angles and duty cycles correspond |
| | `NoReversal`, `LimitsKept` | the steps of a move never turn back, nor leave the limits |
| `CommandDisplayProofs` | `CommandTypes` | `TypeOK` of `Commands` |
| | `PhoneTold` | `StatusTold`: the phone knows the Wi-Fi status |
| | `AnswersHonest` | `AppliedInOrder` and `AnswersTrue`, the safety half of `AnswersKept` |
| | `DisplayTypeCorrect` | `DisplayTypeOK` |
| | `Drawn` | `DrawnRight`: the rings in order, whole frames, one after the other |
| | `LastShown` | `LastAskedShown`: the last text and the last emoji |

`CaptureProofs`, `ConnectionProofs` and `CommandDisplayProofs` hold the proofs of two
components each, which share no state and no lemma but those about sequences; so that
both can be extended at once, the definitions of `VoiceRecorder`, `Discovery` and
`Display` that every specification has (`Init`, `Next`, `Spec`, `TypeOK`) have the name
of the component in front.

Each component has a theorem or lemma about its inductive invariant, which the others
follow from (`Inv`, `Invariant`, or with the name of the component in front). TLC has
found those of `TtsPlayback`, `Reception`, `TransportCoordinator`, `Motion`, `Display`,
`CameraStream`, `CameraLink` and `Commands` invariant on the constants of the
component's run.

Assumptions on the constants, which TLC evaluates in the runs: there is a slot
(`DepthAssumption`); bounds are natural numbers (`BoundAssumption`,
`SpentAssumption`, `ButtonAssumption`, `RecorderAssumption`, `TransportBounds`,
`MotionBounds`, `AnimBounds`, `DisplayBounds`, `BoundsAssumption`, `CallsAssumption`,
`CommandBounds`); the rounds of a search
fill its time and an interval is longer than a turn (`RoundAssumption`, true of
5 s, 3 broadcasts and 5 s); the servo's limits lie within 0 .. 180
(`PulseAssumption`). A header has a length and fits into a message
(`LengthsAssumption`); at most one event of the reception is lost in a behaviour
(`LossAssumption`): with two, the pieces of two messages of the same length can be
taken for one, as the code compares lengths only. The moves of the catalogue
are sequences of events (`CatalogAssumption`), the servo's queue has room for one
(`ServoAssumption`), and so have the queue of states (`QueueAssumption`) and that of the
monitor task, and the chip comes up with a profile that there is (`ClientAssumption`);
an animation has a frame and a ring a slot (`AnimAssumption`);
and the values that stand for "none" are no URL, pose, animation, text or status
(`UrlNames`, `PoseNames`, `NoTypeAssumption`, `DisplayAssumption`, `StatusAssumption`).

*Uplink.* `TypeOK` is not inductive: that the worker gives a slot of the pool back
needs to know what it holds. `Hands` relates `pc`, `wslot` and `inflight`. `PoolInv == TypeOK /\ Hands /\ SlotOwnership` is
inductive; a step of a producer or of the worker moves one slot between two
owners, a reset rebuilds both queues from the slots outside the worker's hands
(`RefillFacts`), which is right because of `Hands` unless `leaky`.
`HelloFirst` and `Framing` speak of the server, `Next` of flags that the worker
has read some steps ago. `SessionInv` says what a worker that has passed the check
of the session still knows when nothing tore it, and `FramingInv` relates the flags
`open`, `first`, `endp` and the worker's copy `wfirst` to whether the server has
seen FIRST without LAST. `SentInOrder` speaks of the server again, and of the frame
and the number in the worker's hands: `FramesInv` orders all frames on their way,
the server's last (`srv.frame`) before the worker's (`Latest`), that before the
queue's, each of these before the next, and all before the one the voice task holds
(`Newest`); every move of a slot needs `Disjoint` for it. `NumbersInv` keeps the
counter ahead of the server while connected, and the server's number at 0 between
the socket's connection and its event.

*Recorder.* `OnlyWhileHeld` holds in a step because a recording begins in two steps
after the poll that saw the button (`Pressing`), and because a recorder is started
only without a task (`Waited`); `ListensAgain` needs `Cut`, that a stop of the
recorder comes after the end of the session; `IdleInSession => Told` is the part of `Owed` for
an idle recorder.

*Discovery.* `EndsOnTime` needs the deadline of the present wait (`until`) for
each place of the search, and that an undisturbed search begins its last
turn a turn before the deadline; `HeardIsTaken` needs the number of broadcasts sent
by then, and that a datagram that waits has arrived in the last pause or rest.

*TTS.* That a frame is not overwritten, played late or at the wrong rate depends
on where four tasks are. `Located` says what the worker has in hand at each place and
who closes the playback; `HandsOff`, that a session is not being ended over a frame
unless `crossed`; `Drained`, that the handler closes the playback only with nothing
waiting. From these follow `Apart` (no slot twice), `InOrder` (what waits comes behind
what is in hand, and that behind what was played) and `PathKept` (the codec is at
24 kHz from the worker's preparation on). A sound gives way because a chunk
begins only with `cloud` seen false (`GivesWay`).

*Reception.* An assembly either holds exactly the first units of the frame being
read, or is a leftover of an earlier one (`TextBelongs`, `BinBelongs`). A leftover can
be taken for the frame being read only if that frame's first event was lost, and
it takes a lost event to leave one, hence the one loss of `LossAssumption`. Under the
refinement the message "on its way" is the frame on the wire as long as the assembly
belongs to it; every event is then a step of `FrameChannel` or leaves it as it is.
`Kept` gives `CleanFrameDelivered`.

*Coordinator.* `BleGoesFirst` is about the end of the BLE callback, so each of its steps
needs what the ones before it have achieved and what the tick may still undo.
`TickKnows`: a tick in a session that did not begin inside it has seen the session, and
goes no further than its own suspension. `WsStopped` and `WifiStopped`: what the callback
has stopped stays so. `LinkPosted`: an address in the queue of driver events
is followed by the loss of that link, so no late `GOT_IP` brings Wi-Fi up again.
`SearchFits`: a result with an endpoint is of the search launched last, after the
session. `StartsNeverRecover` needs `Counted`: the count is 0 when an attempt at a
remembered endpoint begins, or a search, and a search ends in one result and one attempt
at most; so two attempts, one of each, can be put off in a row.

*Motion.* `LastMoveWins` holds at rest only. `GoalFits` carries it there: the pose of
the last move given is that of the last one in the queue, or of the one in the servo
task's hand, or nobody's after a cancellation the task has not read. `FreshQueue` needs
that the engine queues moves only while it has a state (`EngineMoves`), and who holds the
lock in which step (`EngineTypes`, `TasksFit`): the queue is empty at the end of a
cancellation, and what the other tasks put in meanwhile is not old. The
quotients of C in `ServoPulse` are bounded by the products they come from; the monotony
of a step follows from that of the division.

*Screen.* The properties describe a ring with remainders, which the provers cannot
calculate with. `RingFits` says the same slot by slot with sums below twice the
divisor (`Remainder`, `RingInOrder`), and how the frame to be read next follows the
frame shown and what is buffered. `FillFits`, that a ring being filled still has room, is
why the slot being written is not the one LVGL draws, and it holds because every
other change of the ring takes the mutex. `Generations` tells a switch from a step of
the animation. For the calls, `TextFits` says that the text on the label is the one the
single task in `display_update_with_style` will remember.

*Camera stream.* That a copy of a frame is neither lost nor freed twice (`NoLeak`) and
that the one that waits is of this stream rests on `Context`: only the stream task queues
frames, the WebSocket task takes pictures only when `s_camera_ctx` holds no stream,
and a stream is to be marked as begun until a frame of it is taken. `TaskKnown` and
`Streaming` say when there is a stream task. `Ended` counts what may still come after the end marker: a
frame that waits and one on its way, no more, as there is no stream by then. `Owed`
counts the images: one that is being sent, by either task, and one that may still
become the image of the capture that is on (`Expected`) were asked for one by one.
`StopKnown` says who will tell the service of a stop that the stream task has seen:
with it `StartPossible` holds after a stop of two tasks at once.

*Camera link.* `SensorTrue` says nothing while a command is on its way; the invariant
has to. Without `doubt`, at most one command about the sensor exists, as an order to
the chip, as its reply on the wire or in the box of its request (`OrdersAlone`,
`RepliesAlone`, `BoxAlone`), and each of the three agrees with the chip (`Right`).
With `doubt`, an old reply may be taken for a new one, except a catalogue's, which
ends the doubt: `Fresh` says that what is read from a catalogue is the last word,
unless an earlier one is `stale`. `OneMark` is `OneInitialiser` without counting.

*Commands.* Each command has a number; `Distinct` says that it is in one place, waiting
in its message, under way, or done, and `Undone` that what waits has neither effect
nor answer, so `RepliesTrue`, about the answer a task has in hand, is not overtaken by
another task. `AppliedInOrder` is inductive with the types of the queue. `Counted`
bounds what the queue took by the commands there were. For the phone, `NoteCurrent`: a
notification that is alone tells the status as it is, or another follows it.

## 6. What is only model-checked

- All liveness properties: TLAPS does not reach fairness and `ENABLED`.
  Of `TalkEnds`, `LocalSounds`, `SearchKept`, `StopAndStart` and `AnswersKept` the
  safety halves are proved (section 5) and the liveness halves are left to TLC, as
  are `CallsReturn` of `CameraLink`, `WorkerDrains`, `Completes`, `Recovers`,
  `FallsBack` and `GoesOn`.
- `CatalogTest`: the timelines of actions for small files, by evaluation. The
  definitions use folds over sequences, which the provers cannot do induction on.

## 7. What is not modelled

- *Wake word*: compiled out (`CONFIG_ENABLE_WAKE_WORD`), without a caller of its
  set-up, on a vendored library.
- *Panel, boot pictures, LED, input devices*: set-up and drawing through vendored
  libraries. *Idle hints* of `app_main.c`: a choice of text.
- *Decoding of pictures, manifest, sounds on the card*: data.
- *OTA*: a stub that answers "not supported".
- *Start-up, memory monitor*: linear code and logging.
- *Formats of messages* (JSON, legacy lines, headers of other than audio and video
  packets): a message is its kind and whether its fields are fit.
- *Rest of the vendored drivers, host tools, the retired MCU firmware*: not this
  system's logic.

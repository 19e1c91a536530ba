------------------------------ MODULE Commands ------------------------------
(***************************************************************************)
(* The commands of the two clients: the server's, which ws_router.c passes *)
(* to ws_handlers.c in the task of the WebSocket client, and the writes of *)
(* a phone, which ble_service.c carries out in the task of the BLE stack.  *)
(* Each task handles one message at a time: it carries it out and answers. *)
(* In between the other one and the control task run.  A message is the    *)
(* kind of its type and whether its fields are fit; a BLE write is one     *)
(* JSON message or a few legacy lines, of which only the last is answered. *)
(* Capture and streaming are in module CameraStream.                       *)
(***************************************************************************)
EXTENDS ControlIngress, BleService

CONSTANTS
    StatusShapes,   \* AI statuses: action, status, words, text
    Configs,        \* fields of ctrl.camera.video_config, 0 when absent
    Supported,      \* sizes the camera takes
    MaxLines,       \* bound: legacy lines in a write
    MaxCommands,    \* bound: messages and lines, all together
    MaxOther        \* bound: messages and writes that are not for the queue,
                    \* and changes of the Wi-Fi status

ASSUME CommandBounds == {MaxLines, MaxCommands, MaxOther} \subseteq Nat

VARIABLES
    lines,      \* of each task: what it has yet to carry out of its message
    reply,      \* the answer it will give
    last,       \* the command it answers
    after,      \* send_wifi_status_after_response
    cached,     \* configured_width, configured_height, target_fps
    count,      \* commands so far
    others,     \* messages so far that were not for the queue
    accepted,   \* history: commands the queue took, in order
    served,     \* history: Wi-Fi and camera commands carried out, queries
    answer      \* history: the answer of each command

handler == <<lines, reply, last, after>>
history == <<count, others, accepted, served, answer>>
vars == <<ingress, bleVars, handler, cached, history>>

Sources == {"ws", "ble"}
Ids == 1..MaxCommands

Init == /\ IngressInit /\ BleInit
        /\ lines = [s \in Sources |-> << >>] /\ reply = [s \in Sources |-> "none"]
        /\ last = [s \in Sources |-> 0] /\ after = FALSE
        /\ cached = [w |-> 0, h |-> 0, fps |-> 0]
        /\ count = 0 /\ others = 0 /\ accepted = << >> /\ served = {}
        /\ answer = [i \in Ids |-> "none"]

-----------------------------------------------------------------------------
(* Messages *)

Plain(kind, fits) == [kind : {kind}, fit : fits, state : {"happy"}, text : {FALSE}]
Fits == {"good", "bad"}
Shaped == {[kind |-> "status", fit |-> "good", action |-> s.action, status |-> s.status,
            words |-> s.words, text |-> s.text] : s \in StatusShapes}
Text(state) == {[kind |-> "text", fit |-> "good", state |-> state, text |-> TRUE]}

\* Of the server.  What it is told or asked in vain is "other"; an OTA
\* transfer is refused.
ServoWs    == Plain("servo", Fits)
StateWs    == Plain("state", Fits)
StatusWs   == Shaped \cup Plain("status", {"bad"})
AsrResult  == Text("processing")
Thinking   == Text("thinking")
HelloNack  == Text("error")
ConfigWs   == {[kind |-> "config", fit |-> "good", want |-> c] : c \in Configs}
TransferWs == Plain("transfer", {"good"})
WsMessages == ServoWs \cup StateWs \cup StatusWs \cup AsrResult \cup Thinking \cup HelloNack
              \cup ConfigWs \cup TransferWs \cup Plain("ping", {"good"}) \cup Plain("other", {"good"})

\* Of the phone.  A duration of 0 passes, and is refused further on; the
\* legacy SERVO_MOVE with direction 0 is "stop".
ServoJson    == Plain("servo", Fits \cup {"zero"})
StatusJson   == Shaped \cup Plain("status", {"bad"})
StateJson    == Plain("state", Fits)
WifiJson     == Plain("wifi_set", Fits) \cup Plain("wifi_get", {"good"}) \cup Plain("wifi_clear", {"good"})
JsonMessages == ServoJson \cup StatusJson \cup StateJson \cup WifiJson
                \cup Plain("ping", {"good"}) \cup Plain("other", {"good"})
ServoLegacy  == Plain("servo", Fits \cup {"zero", "stop"})
LegacyLines  == ServoLegacy \cup WifiJson \cup Plain("ping", {"good"}) \cup Plain("other", {"good"})

\* Commands in transit: where they came from and what they say
Command(i, via, m) == [id |-> i, via |-> via, msg |-> m]
Source(c) == IF c.via = "ws" THEN "ws" ELSE "ble"

-----------------------------------------------------------------------------
(* Arrival *)

Idle(s) == lines[s] = << >> /\ last[s] = 0
Queueing(m) == m.kind \in {"state", "status", "text"} /\ m.fit = "good"
Arrive(s, via, ms) ==
    /\ Idle(s) /\ count + Len(ms) <= MaxCommands
    /\ others' = IF \A i \in DOMAIN ms : Queueing(ms[i]) THEN others ELSE others + 1
    /\ others' + changes <= MaxOther
    /\ lines' = [lines EXCEPT ![s] = [i \in DOMAIN ms |-> Command(count + i, via, ms[i])]]
    /\ count' = count + Len(ms)
    /\ UNCHANGED <<ingress, bleVars, reply, last, after, cached, accepted, served, answer>>

WsMessage == \E m \in WsMessages : Arrive("ws", "ws", <<m>>)
BleWrite == /\ connected /\ BtQuiet
            /\ \/ \E m \in JsonMessages : Arrive("ble", "json", <<m>>)
               \/ \E n \in 1..MaxLines : \E ms \in [1..n -> LegacyLines] : Arrive("ble", "legacy", ms)

-----------------------------------------------------------------------------
(* One command is carried out: c is the next of its message, r the answer. *)

Ready(s) == lines[s] # << >> /\ (s = "ble" => BtQuiet)
Replied(s, r) ==
    /\ reply' = [reply EXCEPT ![s] = r]
    /\ last' = [last EXCEPT ![s] = Head(lines[s]).id]
    /\ lines' = [lines EXCEPT ![s] = Tail(@)]
    /\ UNCHANGED <<count, others, answer>>
Reply(c, r) == Replied(Source(c), r)
Serve(c) == served' = served \cup {c.id}

\* The server gets no answer to events, a legacy client "OK" for a servo
\* command whatever became of it, unless the servo was busy.
Unanswered(c) == c.via = "ws" /\ c.msg.kind \in {"status", "text", "other"}
Answered(c, r) == IF Unanswered(c) THEN "none"
                  ELSE IF c.via = "legacy" /\ c.msg.kind = "servo" /\ r # "busy" THEN "ok"
                  ELSE r

\* States, texts and AI statuses
QueueIt(c) ==
    /\ Queueing(c.msg)
    /\ Submit(c)
    /\ accepted' = Append(accepted, c.id)
    /\ Reply(c, Answered(c, "ack"))
    /\ UNCHANGED <<bleVars, after, cached, served>>
\* Mutant: the result of the submission is not looked at.
QueueFullAcked(c) ==
    /\ Queueing(c.msg) /\ ~Room
    /\ Reply(c, Answered(c, "ack"))
    /\ UNCHANGED <<ingress, bleVars, after, cached, accepted, served>>
QueueFull(c) ==
    /\ Queueing(c.msg) /\ ~Room
    /\ Reply(c, Answered(c, "busy"))
    /\ UNCHANGED <<ingress, bleVars, after, cached, accepted, served>>

\* Servo commands.  "bad" is found by the handler, "zero" is a duration of
\* 0, which the BLE parsers let pass, "stop" is SERVO_MOVE with direction 0.
Servo(c) == c.msg.kind = "servo" /\ c.msg.fit \in {"good", "zero"}
Moved(c) ==
    /\ Servo(c) /\ MoveServo(c)
    /\ Reply(c, Answered(c, "ack"))
    /\ UNCHANGED <<bleVars, after, cached, accepted, served>>
MoveBusy(c) ==
    /\ Servo(c) /\ ServoBusy(c)
    /\ Reply(c, Answered(c, "busy"))
    /\ UNCHANGED <<bleVars, after, cached, accepted, served>>
MoveRefused(c) ==
    /\ Servo(c) /\ ServoRefuses(c)
    /\ Reply(c, Answered(c, "nack"))
    /\ UNCHANGED <<bleVars, after, cached, accepted, served>>

\* What the handler itself refuses, does not know or has no use for
Unfit(c) ==
    /\ c.msg.fit \in {"bad", "stop"}
    /\ Reply(c, Answered(c, "nack"))
    /\ UNCHANGED <<ingress, bleVars, after, cached, accepted, served>>
Unknown(c) ==
    /\ c.msg.kind = "other"
    /\ Reply(c, Answered(c, "nack"))
    /\ UNCHANGED <<ingress, bleVars, after, cached, accepted, served>>
Transfer(c) ==
    /\ c.msg.kind = "transfer"
    /\ Reply(c, "nack")
    /\ UNCHANGED <<ingress, bleVars, after, cached, accepted, served>>

Ping(c) ==
    /\ c.msg.kind = "ping"
    /\ Reply(c, "pong")
    /\ UNCHANGED <<ingress, bleVars, after, cached, accepted, served>>

\* Wi-Fi.  Storing and clearing credentials set the status, and so notify
\* the client before it is answered.
WifiBecomes(s) == /\ status' = s /\ Begin("bt")
                  /\ UNCHANGED <<link, note, told, changes, sessions>>
WifiSet(c) ==
    /\ c.msg.kind = "wifi_set" /\ c.msg.fit = "good"
    /\ WifiBecomes("disconnected")
    /\ Serve(c) /\ Reply(c, "ack")
    /\ UNCHANGED <<ingress, after, cached, accepted>>
WifiClear(c) ==
    /\ c.msg.kind = "wifi_clear"
    /\ WifiBecomes("unconfigured")
    /\ after' = (c.via = "json")
    /\ Serve(c) /\ Reply(c, "ack")
    /\ UNCHANGED <<ingress, cached, accepted>>
WifiGet(c) ==
    /\ c.msg.kind = "wifi_get"
    /\ after' = (c.via = "json")
    /\ Serve(c) /\ Reply(c, "ack")
    /\ UNCHANGED <<ingress, bleVars, cached, accepted>>
\* The flash, or credentials that are too long
WifiFails(c) ==
    /\ c.msg.kind \in {"wifi_set", "wifi_clear"} /\ c.msg.fit = "good"
    /\ Reply(c, "nack")
    /\ UNCHANGED <<ingress, bleVars, after, cached, accepted, served>>

\* ctrl.camera.video_config: what is absent is as it was.
Width(c)  == IF c.msg.want.w > 0 THEN c.msg.want.w ELSE cached.w
Height(c) == IF c.msg.want.h > 0 THEN c.msg.want.h ELSE cached.h
\* Mutant: width and height need not come together.
PairedAlways(c) == TRUE
Paired(c) == (Width(c) > 0) <=> (Height(c) > 0)
Configure(c) ==
    /\ c.msg.kind = "config" /\ Paired(c)
    /\ (Width(c) > 0 /\ Height(c) > 0) => <<Width(c), Height(c)>> \in Supported
    /\ cached' = [w |-> Width(c), h |-> Height(c),
                  fps |-> IF c.msg.want.fps > 0 THEN c.msg.want.fps ELSE cached.fps]
    /\ Serve(c) /\ Reply(c, "ack")
    /\ UNCHANGED <<ingress, bleVars, after, accepted>>
\* Not a pair, a size the camera does not have, or a camera that is busy
ConfigRefused(c) ==
    /\ c.msg.kind = "config" /\ (Paired(c) => Width(c) > 0)
    /\ Reply(c, "nack")
    /\ UNCHANGED <<ingress, bleVars, after, cached, accepted, served>>

CarryOut(c) ==
    \/ QueueIt(c) \/ QueueFull(c)
    \/ Moved(c) \/ MoveBusy(c) \/ MoveRefused(c)
    \/ Unfit(c) \/ Unknown(c) \/ Transfer(c) \/ Ping(c)
    \/ WifiSet(c) \/ WifiClear(c) \/ WifiGet(c) \/ WifiFails(c)
    \/ Configure(c) \/ ConfigRefused(c)
Perform(s) == Ready(s) /\ CarryOut(Head(lines[s]))

\* The message is answered; what was asked for after the answer follows.
Answer(s) ==
    /\ lines[s] = << >> /\ last[s] # 0 /\ (s = "ble" => BtQuiet)
    /\ answer' = [answer EXCEPT ![last[s]] = reply[s]]
    /\ last' = [last EXCEPT ![s] = 0] /\ reply' = [reply EXCEPT ![s] = "none"]
    /\ noteAt' = IF s = "ble" /\ after /\ subscribed THEN [noteAt EXCEPT !["bt"] = "read"] ELSE noteAt
    /\ after' = IF s = "ble" THEN FALSE ELSE after
    /\ UNCHANGED <<ingress, link, status, note, told, changes, sessions,
                   lines, cached, count, others, accepted, served>>

-----------------------------------------------------------------------------

\* The BLE stack runs its callbacks one after another.
LinkEvent == /\ Idle("ble")
             /\ Connect \/ Disconnect \/ Subscribe \/ Unsubscribe
             /\ UNCHANGED <<ingress, handler, cached, history>>
StatusEvent == /\ StatusChanges /\ others + changes < MaxOther
               /\ UNCHANGED <<ingress, handler, cached, history>>
Notification(t) == /\ Notify(t)
                   /\ UNCHANGED <<ingress, handler, cached, history>>
ControlStep == /\ ControlTask
               /\ UNCHANGED <<bleVars, handler, cached, history>>

Next == \/ WsMessage \/ BleWrite
        \/ \E s \in Sources : Perform(s) \/ Answer(s)
        \/ LinkEvent \/ StatusEvent
        \/ \E t \in Tasks : Notification(t)
        \/ ControlStep

\* The control task runs when it can.  What it owes does not depend on the
\* other tasks, so nothing is asked of them.
Spec == /\ Init /\ [][Next]_vars
        /\ WF_vars(ControlStep)

-----------------------------------------------------------------------------
(* Properties *)

IdsOf(q) == [i \in DOMAIN q |-> q[i].id]
InHand == IF applying = Nothing THEN << >> ELSE <<applying.id>>

\* Types; a camera size is configured as a pair.
TypeOK ==
    /\ Len(queue) <= QueueDepth /\ Len(accepted) <= MaxCommands
    /\ status \in Statuses /\ told \in Statuses \cup {Untold, Unsure}
    /\ noteAt \in [Tasks -> {"none", "read", "alone", "overlapped"}]
    /\ \A s \in Sources : Len(lines[s]) <= MaxLines + 1 /\ last[s] \in 0..MaxCommands
    /\ count \in 0..MaxCommands /\ (after => ~Idle("ble"))
    /\ (cached.w > 0) <=> (cached.h > 0)
    /\ subscribed => connected

\* Every message the queue took is applied once, in the order it was taken,
\* whichever task gave it.
AppliedInOrder == accepted = handed \o InHand \o IdsOf(queue)

\* An acknowledged command was taken or carried out; a refused one never is,
\* and leaves Wi-Fi and the camera as they were.
AnswersTrue ==
    LET effects == {accepted[i] : i \in DOMAIN accepted} \cup moved \cup served
    IN  \A i \in Ids : /\ answer[i] = "ack" => i \in effects
                       /\ answer[i] \in {"nack", "busy"} => i \notin effects

\* What the queue took takes effect in the end.
TakenApplied == <>[](Len(handed) = Len(accepted))

\* What is acknowledged happens, now or in the end, and what is refused does not.
AnswersKept == [](AppliedInOrder /\ AnswersTrue) /\ TakenApplied

=============================================================================

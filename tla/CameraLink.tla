----------------------------- MODULE CameraLink -----------------------------
(***************************************************************************)
(* How hal_camera.c brings up the vision chip and sets its sensor, over    *)
(* the client of SscmaClient.  hal_camera_init comes before everything the *)
(* HAL does: before a configuration by the WebSocket task and before each  *)
(* picture of the stream task; one of them initialises, the other waits    *)
(* for it.  What becomes of the pictures is CameraStream's.                *)
(***************************************************************************)
EXTENDS SscmaClient

CONSTANTS
    MaxCalls    \* bound: calls of hal_camera_init

ASSUME CallsAssumption == MaxCalls \in Nat

VARIABLES
    pc,             \* where each client is
    goal,           \* the profile it is about to set
    connected, connectSem, initialized, initInProgress, initStatus,
    clientStarted, registered,      \* s_ctx of hal_camera.c
    sensor,         \* sensor_opt_id
    calls,
    doubt,          \* history: a command about the sensor has gone without an answer,
                    \* or the chip has restarted, since the catalogue was last read
    stale           \* history: commands that have gone without an answer

hal     == <<connected, connectSem, initialized, initInProgress, initStatus,
             clientStarted, registered>>
history == <<doubt, stale>>
vars    == <<client, pc, goal, hal, sensor, calls, history>>

Init ==
    /\ ClientInit
    /\ pc = [c \in Clients |-> "idle"] /\ goal = [c \in Clients |-> Power]
    /\ connected = FALSE /\ connectSem = FALSE /\ initialized = FALSE
    /\ initInProgress = FALSE /\ initStatus = "ok"
    /\ clientStarted = FALSE /\ registered = FALSE
    /\ sensor = Power /\ calls = 0
    /\ doubt = FALSE /\ stale = {}

Goto(c, l) == pc' = [pc EXCEPT ![c] = l]

-----------------------------------------------------------------------------
(* hal_camera_init *)

\* A call
Call(c) ==
    /\ pc[c] = "idle" /\ calls < MaxCalls /\ calls' = calls + 1
    /\ Goto(c, "enter")
    /\ UNCHANGED <<client, goal, hal, sensor, history>>

\* Already connected.  That another client has just initialised is never seen: the mark
\* goes as initStatus becomes "ok".
EnterDone(c) ==
    /\ pc[c] = "enter" /\ initialized /\ connected
    /\ Goto(c, "ready")
    /\ UNCHANGED <<client, goal, hal, sensor, calls, history>>

\* Another client initialises: it is waited for, up to a time.
EnterTimeout(c) ==
    /\ pc[c] = "enter"
    /\ ~(initialized /\ connected) /\ initInProgress
    /\ Goto(c, "idle")
    /\ UNCHANGED <<client, goal, hal, sensor, calls, history>>

\* The start of the chip is left out when an earlier attempt has started the client and
\* its report has come in since.
EnterInit(c) ==
    /\ pc[c] = "enter"
    /\ ~(initialized /\ connected) /\ ~initInProgress
    /\ initInProgress' = TRUE /\ initStatus' = "timeout"
    /\ connected' = FALSE
    /\ registered' = TRUE
    /\ Goto(c, IF ~clientStarted \/ ~connected THEN "start" ELSE "finish")
    /\ UNCHANGED <<client, goal, connectSem, initialized, clientStarted, sensor, calls, history>>

Start(c) ==
    /\ pc[c] = "start"
    /\ connectSem' = FALSE
    /\ Goto(c, "reset")
    /\ UNCHANGED <<client, goal, connected, initialized, initInProgress, initStatus,
                   clientStarted, registered, sensor, calls, history>>

Reset(c) ==
    /\ pc[c] = "reset"
    /\ ResetChip
    /\ clientStarted' = TRUE
    /\ Goto(c, "wait")
    /\ UNCHANGED <<goal, connected, connectSem, initialized, initInProgress, initStatus,
                   registered, sensor, calls, history>>

Connect(c) ==
    /\ pc[c] = "wait" /\ connectSem
    /\ connectSem' = FALSE
    /\ Goto(c, "finish")
    /\ UNCHANGED <<client, goal, connected, initialized, initInProgress, initStatus,
                   clientStarted, registered, sensor, calls, history>>

\* Mutant: the mark of an initialisation under way stays.
TimeoutKeepsMark(c) ==
    /\ pc[c] = "wait" /\ ~connectSem
    /\ initStatus' = "timeout"
    /\ Goto(c, "idle")
    /\ UNCHANGED <<client, goal, connected, connectSem, initialized, initInProgress,
                   clientStarted, registered, sensor, calls, history>>

\* Mutant: the wait for the chip has no end.
TimeoutNever(c) == FALSE /\ UNCHANGED vars

ConnectTimeout(c) ==
    /\ pc[c] = "wait" /\ ~connectSem
    /\ initInProgress' = FALSE /\ initStatus' = "timeout"
    /\ Goto(c, "idle")
    /\ UNCHANGED <<client, goal, connected, connectSem, initialized,
                   clientStarted, registered, sensor, calls, history>>

Finish(c) ==
    /\ pc[c] = "finish"
    /\ initialized' = TRUE /\ initInProgress' = FALSE /\ initStatus' = "ok"
    /\ Goto(c, "ready")
    /\ UNCHANGED <<client, goal, connected, connectSem, clientStarted, registered, sensor, calls, history>>

-----------------------------------------------------------------------------
(* What follows: hal_camera_configure by "ws", a picture by "stream" *)

\* A picture is asked for.
Invoke(c) ==
    /\ pc[c] = "ready" /\ c # "ws"
    /\ Give(c, "INVOKE", Power)
    /\ Goto(c, "ask")
    /\ UNCHANGED <<goal, hal, sensor, calls, history>>

Configure(c, p) ==
    /\ pc[c] = "ready" /\ c = "ws"
    /\ Give(c, "SENSOR", p)
    /\ goal' = [goal EXCEPT ![c] = p]
    /\ Goto(c, "ask")
    /\ UNCHANGED <<hal, sensor, calls, history>>

\* hal_camera_configure refuses while pictures are taken.
Busy(c) ==
    /\ pc[c] = "ready" /\ c = "ws"
    /\ Goto(c, "idle")
    /\ UNCHANGED <<client, goal, hal, sensor, calls, history>>

\* The profile the HAL takes over from an answer: the one asked for, when the chip has
\* agreed, and the one the catalogue tells
TakenOver(c, m) ==
    CASE m.cmd = "SENSOR"   -> IF m.ok THEN goal[c] ELSE sensor
      [] m.cmd = "SENSORS?" -> IF m.ok THEN m.profile ELSE sensor
      [] OTHER              -> sensor

\* The answer to a command.  A profile that was set is followed by a query.
Answer(c) ==
    /\ pc[c] = "ask" /\ Answered(c)
    /\ LET m == listed[c].box[1] IN
       /\ sensor' = TakenOver(c, m)
       /\ Goto(c, IF m.cmd = "SENSOR" /\ m.ok THEN "query" ELSE "idle")
       /\ doubt' = (doubt /\ (m.cmd # "SENSORS?" \/ ~m.ok \/ m.cmd \in stale))
    /\ Unlist(c)
    /\ UNCHANGED <<goal, hal, calls, stale>>

AnswerTimeout(c) ==
    /\ pc[c] = "ask" /\ ~Answered(c)
    /\ Goto(c, "idle")
    /\ stale' = stale \cup {listed[c].cmd}
    /\ doubt' = (doubt \/ listed[c].cmd # "INVOKE")
    /\ Unlist(c)
    /\ UNCHANGED <<goal, hal, sensor, calls>>

\* hal_camera_refresh_sensor_catalog
Query(c) ==
    /\ pc[c] = "query"
    /\ Give(c, "SENSORS?", Power)
    /\ Goto(c, "ask")
    /\ UNCHANGED <<goal, hal, sensor, calls, history>>

\* No command is left to give: the bound of SscmaClient.
Spent(c) ==
    /\ pc[c] \in {"ready", "query"} /\ requests = MaxRequests
    /\ Goto(c, "idle")
    /\ doubt' = (doubt \/ pc[c] = "query")
    /\ UNCHANGED <<client, goal, hal, sensor, calls, stale>>

\* The monitor task, with hal_camera_on_connect for the report of the chip
Monitor ==
    /\ TakeReply
    /\ IF replies[1].kind = "init"
       THEN connected' = TRUE /\ connectSem' = TRUE
       ELSE UNCHANGED <<connected, connectSem>>
    /\ UNCHANGED <<pc, goal, initialized, initInProgress, initStatus, clientStarted,
                   registered, sensor, calls, history>>

Initialise(c) ==
    \/ EnterDone(c) \/ EnterTimeout(c) \/ EnterInit(c) \/ Start(c) \/ Reset(c)
    \/ Connect(c) \/ ConnectTimeout(c) \/ Finish(c)

Use(c) ==
    \/ Invoke(c) \/ Query(c) \/ Busy(c) \/ Spent(c) \/ Answer(c) \/ AnswerTimeout(c)
    \/ \E p \in Profiles : Configure(c, p)

Environment ==
    /\ ChipStep \/ Read
    /\ UNCHANGED <<pc, goal, hal, sensor, calls, history>>

Fault ==
    /\ LoseMessage \/ ChipCrashes
    /\ IF chip' = chip THEN UNCHANGED <<doubt, stale>>
       ELSE doubt' = TRUE /\ stale' = (stale \cup {listed[c].cmd : c \in Clients}) \ {"none"}
    /\ UNCHANGED <<pc, goal, hal, sensor, calls>>

Next ==
    \/ \E c \in Clients : Call(c) \/ Initialise(c) \/ Use(c)
    \/ Monitor \/ Environment \/ Fault

Spec == Init /\ [][Next]_vars

\* The tasks of the firmware go on; waits end by their timeouts at the latest.
FairSpec ==
    /\ Spec
    /\ \A c \in Clients : WF_vars(Initialise(c)) /\ WF_vars(Use(c))
    /\ WF_vars(Monitor) /\ WF_vars(Environment)

-----------------------------------------------------------------------------

TypeOK ==
    /\ ClientTypeOK
    /\ pc \in [Clients -> {"idle", "enter", "start", "reset", "wait", "finish", "ready",
                           "ask", "query"}]
    /\ goal \in [Clients -> Profiles] /\ sensor \in Profiles
    /\ {connected, connectSem, initialized, initInProgress, clientStarted, registered,
        doubt} \subseteq BOOLEAN
    /\ initStatus \in {"ok", "timeout"} /\ calls \in 0 .. MaxCalls
    /\ stale \subseteq Commands

Initialising == {c \in Clients : pc[c] \in {"start", "reset", "wait", "finish"}}

\* The chip is brought up by one task at a time, and the mark that keeps the others out
\* is there exactly as long, whatever way the attempt ends.
OneInitialiser ==
    Cardinality(Initialising) = IF initInProgress THEN 1 ELSE 0

\* What the HAL holds to be the profile of the sensor is that of the chip, whenever no
\* command about it is on the way; unless one has gone without an answer, or the chip
\* has restarted, and no catalogue was read since.
SensorTrue ==
    ~doubt /\ ~(\E c \in Clients : pc[c] = "ask" /\ listed[c].cmd = "SENSOR")
        => sensor = profile

\* Whoever calls the HAL gets an answer, however the chip behaves.
CallsReturn == \A c \in Clients : pc[c] # "idle" ~> pc[c] = "idle"

\* The marks of the HAL are true: the one that keeps others out, and the profile.
MarksTrue == OneInitialiser /\ SensorTrue

=============================================================================

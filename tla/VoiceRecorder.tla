--------------------------- MODULE VoiceRecorder ----------------------------
(***************************************************************************)
(* The voice recorder (voice_fsm.c): a task that polls the button and,     *)
(* while it is held, sends what the microphone hears; and the main loop of *)
(* app_main.c, which starts the recorder with the cloud runtime and, when  *)
(* memory runs low, stops the WebSocket client and the recorder, whatever  *)
(* it is doing.  A stop waits 300 ms for the task to leave its loop and    *)
(* then goes on without it.  Left out: the wake word, which is not         *)
(* compiled in, the pictures and texts, the statistics, and the codec,     *)
(* whose troubles show as a recording that does not begin and as reads     *)
(* that bring nothing.  What becomes of the frames is AudioUplink's.       *)
(***************************************************************************)
EXTENDS Button

CONSTANTS
    MaxSessions,    \* bound: sessions with the server
    MaxSuspends     \* bound: times memory runs low

ASSUME RecorderAssumption == {MaxSessions, MaxSuspends} \subseteq Nat

VARIABLES
    state,          \* g_state
    running,        \* g_task_running
    task,           \* where the task is; "none": no task, g_voice_task_handle = NULL
    main,           \* where the main loop is
    cloud,          \* s_cloud_runtime_started
    sessions, ready,    \* sessions so far; ws_client_is_session_ready
    suspends,
    owing,          \* history: the session that has been sent speech, but not its end
    untold,         \* history: the session whose last end could not be sent
    slow,           \* history: a wait for the task has run out of time
    deaf,           \* history: the button has failed when the recorder was started
    unborn          \* history: the task could not be created at the last start

recorderVars == <<button, state, running, task, main, cloud, sessions, ready, suspends,
                  owing, untold, slow, deaf, unborn>>

RecorderInit ==
    /\ ButtonInit
    /\ state = "IDLE" /\ running = FALSE /\ task = "none" /\ main = "idle" /\ cloud = FALSE
    /\ sessions = 0 /\ ready = FALSE /\ suspends = 0
    /\ owing = 0 /\ untold = 0 /\ slow = FALSE /\ deaf = FALSE /\ unborn = FALSE

-----------------------------------------------------------------------------
(* The session, as the recorder sees it *)

Opens ==
    /\ ~ready /\ main = "idle" /\ sessions < MaxSessions
    /\ sessions' = sessions + 1 /\ ready' = TRUE
    /\ UNCHANGED <<button, state, running, task, main, cloud, suspends,
                   owing, untold, slow, deaf, unborn>>

Closes ==
    /\ ready /\ ready' = FALSE
    /\ UNCHANGED <<button, state, running, task, main, cloud, sessions, suspends,
                   owing, untold, slow, deaf, unborn>>

-----------------------------------------------------------------------------
(* voice_recorder_task *)

\* button_callback: a press starts a recording if there is a session; while one goes on,
\* a press ends it as a release does.
React(now) ==
    CASE now /\ state = "IDLE" /\ ready -> "start"
      [] state = "RECORDING"            -> "stop"
      [] OTHER                          -> "tick"

Poll ==
    /\ task = "poll"
    /\ PollSkips \/ PollFails \/ PollReads
    /\ task' = IF pressed' # pressed THEN React(pressed') ELSE "tick"
    /\ UNCHANGED <<state, running, main, cloud, sessions, ready, suspends,
                   owing, untold, slow, deaf, unborn>>

\* start_recording looks at the session again, and freezes the picture; hal_audio_start
\* may fail.
Start ==
    /\ task = "start"
    /\ task' = IF ready THEN "freeze" ELSE "tick"
    /\ UNCHANGED <<button, state, running, main, cloud, sessions, ready, suspends,
                   owing, untold, slow, deaf, unborn>>

Begin ==
    /\ task = "freeze"
    /\ state' \in {state, "RECORDING"} /\ task' = "tick"
    /\ UNCHANGED <<button, running, main, cloud, sessions, ready, suspends,
                   owing, untold, slow, deaf, unborn>>

\* Mutant: the server is not told.
StopSilently ==
    /\ task = "stop"
    /\ state' = "IDLE" /\ task' = "tick"
    /\ UNCHANGED <<button, running, main, cloud, sessions, ready, suspends,
                   owing, untold, slow, deaf, unborn>>

\* stop_recording: the server is told, if there is a session and ws_send_audio_end succeeds.
StopRecording ==
    /\ task = "stop"
    /\ state' = "IDLE" /\ task' = "tick"
    /\ \/ ~ready /\ UNCHANGED <<owing, untold>>
       \/ ready /\ owing' = 0 /\ untold' = 0
       \/ ready /\ untold' = sessions /\ UNCHANGED owing
    /\ UNCHANGED <<button, running, main, cloud, sessions, ready, suspends,
                   slow, deaf, unborn>>

\* voice_recorder_tick: a frame is read and sent; the microphone may bring none, and
\* without a session it is dropped.
Tick ==
    /\ task = "tick" /\ task' = "sleep"
    /\ \/ UNCHANGED owing
       \/ state = "RECORDING" /\ ready /\ owing' = sessions
    /\ UNCHANGED <<button, state, running, main, cloud, sessions, ready, suspends,
                   untold, slow, deaf, unborn>>

\* Mutant: the task leaves when the session does.
LoopWithSession ==
    /\ task = "sleep"
    /\ task' = IF running /\ ready THEN "poll" ELSE "none"
    /\ UNCHANGED <<button, state, running, main, cloud, sessions, ready, suspends,
                   owing, untold, slow, deaf, unborn>>

Loop ==
    /\ task = "sleep"
    /\ task' = IF running THEN "poll" ELSE "none"
    /\ UNCHANGED <<button, state, running, main, cloud, sessions, ready, suspends,
                   owing, untold, slow, deaf, unborn>>

Task == Poll \/ Start \/ Begin \/ StopRecording \/ Tick \/ Loop

-----------------------------------------------------------------------------
(* The main loop *)

\* Mutant: the state of the recorder before is kept.
ResumeAsIs ==
    /\ main = "idle" /\ ready /\ ~cloud
    /\ main' = "wake"
    /\ UNCHANGED <<button, state, running, task, cloud, sessions, ready, suspends,
                   owing, untold, slow, deaf, unborn>>

\* ensure_cloud_runtime_started, with a session and memory enough, and voice_recorder_init
Resume ==
    /\ main = "idle" /\ ready /\ ~cloud
    /\ state' = "IDLE" /\ main' = "wake"
    /\ UNCHANGED <<button, running, task, cloud, sessions, ready, suspends,
                   owing, untold, slow, deaf, unborn>>

\* voice_recorder_start gives up on a task that is still stopping, and is not called again.
StillStopping ==
    /\ main = "wake" /\ task # "none"
    /\ main' = "idle" /\ cloud' = TRUE /\ slow' = TRUE
    /\ UNCHANGED <<button, state, running, task, sessions, ready, suspends,
                   owing, untold, deaf, unborn>>

\* Without the button the recorder is started all the same.
StartTask ==
    /\ main = "wake" /\ task = "none"
    /\ Attach \/ ProbeFails \/ AttachFails \/ AttachSkipped
    /\ deaf' = ~backend' /\ unborn' = FALSE
    /\ running' = TRUE /\ task' = "poll" /\ main' = "idle" /\ cloud' = TRUE
    /\ UNCHANGED <<state, sessions, ready, suspends, owing, untold, slow>>

\* xTaskCreate fails: there is no recorder, and ensure_cloud_runtime_started only logs it.
StartTaskFails ==
    /\ main = "wake" /\ task = "none"
    /\ Attach \/ ProbeFails \/ AttachFails \/ AttachSkipped
    /\ deaf' = ~backend' /\ unborn' = TRUE
    /\ running' = FALSE /\ main' = "idle" /\ cloud' = TRUE
    /\ UNCHANGED <<state, task, sessions, ready, suspends, owing, untold, slow>>

\* transport_suspend_cloud_runtime_for_low_memory stops the WebSocket client first.
Suspend ==
    /\ main = "idle" /\ suspends < MaxSuspends /\ suspends' = suspends + 1
    /\ ready' = FALSE /\ running' = FALSE /\ main' = "stop"
    /\ UNCHANGED <<button, state, task, cloud, sessions,
                   owing, untold, slow, deaf, unborn>>

\* Mutant: the cloud runtime stays marked as started.
StoppedKeepsMark ==
    /\ main = "stop"
    /\ slow' = (slow \/ task # "none")
    /\ Detach
    /\ main' = "idle"
    /\ UNCHANGED <<state, running, task, cloud, sessions, ready, suspends,
                   owing, untold, deaf, unborn>>

\* The end of voice_recorder_stop, with the task or without
Stopped ==
    /\ main = "stop"
    /\ slow' = (slow \/ task # "none")
    /\ Detach
    /\ cloud' = FALSE /\ main' = "idle"
    /\ UNCHANGED <<state, running, task, sessions, ready, suspends,
                   owing, untold, deaf, unborn>>

MainLoop == Resume \/ StillStopping \/ StartTask \/ StartTaskFails \/ Stopped

UserTurns ==
    /\ User
    /\ UNCHANGED <<state, running, task, main, cloud, sessions, ready, suspends,
                   owing, untold, slow, deaf, unborn>>

RecorderNext == Task \/ MainLoop \/ Suspend \/ Opens \/ Closes \/ UserTurns

RecorderSpec == RecorderInit /\ [][RecorderNext]_recorderVars

\* The voice task goes on, and a poll reads the expander once a cooldown is over; the main
\* loop goes on.  The user, the session and the memory do as they like.
RecorderFairSpec ==
    /\ RecorderSpec
    /\ WF_recorderVars(Task) /\ SF_recorderVars(Poll /\ PollReads) /\ WF_recorderVars(MainLoop)

-----------------------------------------------------------------------------

RecorderTypeOK ==
    /\ ButtonTypeOK
    /\ state \in {"IDLE", "RECORDING"}
    /\ task \in {"none", "poll", "start", "freeze", "stop", "tick", "sleep"}
    /\ running => task # "none"
    /\ main \in {"idle", "wake", "stop"}
    /\ {running, cloud, ready, slow, deaf, unborn} \subseteq BOOLEAN
    /\ {sessions, owing, untold} \subseteq 0 .. MaxSessions
    /\ suspends \in 0 .. MaxSuspends

\* The firmware listens only to a user who holds the button, as far as the driver knows:
\* no reading that failed, and no recorder stopped in the middle of a recording and
\* started again, leaves it recording on its own; unless a stop has not waited for the
\* task to end.
OnlyWhileHeld ==
    state = "RECORDING" /\ running /\ task # "stop" /\ ~slow => pressed

\* The recorder is idle in a session that is open, and no stop has gone on without the task.
IdleInSession == state = "IDLE" /\ ready /\ ~slow

\* The session has been told the end of the speech it was sent, if it was sent any; unless
\* its last end could not be sent, which nothing repeats.
Told == owing = 0 \/ owing # sessions \/ untold = sessions

\* Once the cloud runtime has been started, also after memory ran low, the recorder runs
\* and hears its button; unless the button failed at that moment, the old task was still
\* there or a new one could not be created: in these the code goes on without a recorder,
\* or without its button, until memory runs low again.
ListensAgain ==
    cloud /\ main = "idle" /\ ~slow /\ ~unborn =>
        running /\ task # "none" /\ (deaf \/ backend)

\* A recording comes to its end when the user lets go of the button and leaves it so,
\* with the session or without.
RecordingEnds ==
    (state = "RECORDING" /\ task # "none" /\ ~held /\ ~slow) ~>
        (state = "IDLE" \/ task = "none" \/ held \/ slow)

\* A session that has been sent speech is told when the speech is over, before the
\* recorder is idle again; and every recording comes to its end.
TalkEnds == [](IdleInSession => Told) /\ RecordingEnds

=============================================================================

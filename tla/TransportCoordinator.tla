------------------------ MODULE TransportCoordinator ------------------------
(***************************************************************************)
(* The transport coordinator of app_main.c: the main loop, which brings up *)
(* Wi-Fi, discovery and the WebSocket client in turn; the BLE task, whose  *)
(* callback shuts them down as soon as a phone connects; the discovery     *)
(* task; and the event tasks of Wi-Fi and of the WebSocket client.  The    *)
(* main loop's tick is cut where it blocks or reads what other tasks       *)
(* write.                                                                  *)
(***************************************************************************)
EXTENDS WifiManager, FiniteSets

CONSTANTS
    Urls,         \* the endpoints discovery may return
    WifiResumeDefers, WsStartDefers, \* *_LOW_MEMORY_RECOVERY_DEFERS
    Bounds        \* bound: what the environment does in a behaviour (one of these)

ASSUME UrlsAssumption == Urls # {} /\ Cardinality(Urls) \in Nat
ASSUME DefersAssumption == {WifiResumeDefers, WsStartDefers} \subseteq Nat \ {0}

\* What may go wrong
Kinds == {"loss", "drop", "moved", "search", "heap", "init", "start", "store", "radio",
          "connect", "postponed", "early"}

\* where the server may be; what goes wrong, and how often; how many BLE
\* connections there are, and changes of the credentials over BLE
ASSUME TransportBounds ==
    Bounds \subseteq [servers : SUBSET Urls, kinds : SUBSET Kinds, mishaps : Nat,
                     sessions : Nat, edits : Nat]

None   == "none"
Failed == "failed"
Stale  == "stale"
ASSUME UrlNames == {None, Failed, Stale} \cap Urls = {}

VARIABLES
    \* BLE: s_connected, and where the BLE task is in its connection callback
    ble, caller,
    \* the coordinator
    state,      \* s_transport_state
    lastBle,    \* s_last_ble_connected
    retryDue,   \* transport_retry_due()
    cached,     \* s_cached_ws_url
    attempted,  \* s_cached_ws_attempted_since_wifi_restore
    resuming,   \* s_cached_ws_connect_inflight
    recovery,   \* s_low_memory_recovery_active
    wifiDefers, wsDefers,   \* s_consecutive_wifi_resume_defers, ..._ws_start_defers
    advPaused,  \* s_ble_advertising_paused_for_recovery
    runtime,    \* s_cloud_runtime_started, whatever has become of the recorder
    \* the tick: where it is, its ble_connected, and the endpoint it is starting
    pc, tickBle, via, target,
    \* discovery: s_discovery_inflight, the task, whether its generation is the
    \* current one, and the result queue
    searching, searcher, current, result,
    \* ws_client.c: s_ws_client, s_ws_stack_ready, s_ws_server_url, s_ws_started
    \* and the client's connection
    client, stackReady, wsUrl, started, ws,
    \* the environment: where the server is, and what may still happen: the
    \* kinds of mishaps and how many, BLE connections, changes of credentials
    server, mishaps, sessions, edits,
    \* history: the BLE session began in the middle of a tick or of a Wi-Fi
    \* event; the search in hand was running when it began
    raced, old

bleVars == <<ble, caller>>
mode    == <<state, retryDue>>
resume  == <<cached, attempted, resuming>>
lowMem  == <<recovery, wifiDefers, wsDefers, advPaused>>
tick    == <<pc, tickBle, via, target>>
search  == <<searching, searcher, current, result>>
wsVars  == <<client, stackReady, wsUrl, started, ws>>
bounds  == <<server, mishaps, sessions, edits>>
ghosts  == <<raced, old>>
vars    == <<wifiVars, bleVars, mode, lastBle, resume, lowMem, runtime, tick, search, wsVars,
             bounds, ghosts>>

Connected == ws \in {"open", "ready"}
Ready     == ws = "ready"

\* Something of kind k goes wrong, if anything still may; NoMishap: nothing does.
Mishap(k) == k \in mishaps.kinds /\ mishaps.left > 0 /\ mishaps' = [mishaps EXCEPT !.left = @ - 1]
NoMishap  == UNCHANGED mishaps

-----------------------------------------------------------------------------
\* transport_sync_boot_state, when the boot sequence is over
Init ==
    /\ WifiInit
    /\ ble = FALSE /\ caller = "idle" /\ lastBle = FALSE
    /\ state = IF creds THEN "CLOUD_SUSPENDED" ELSE "NO_CREDENTIALS"
    /\ retryDue = TRUE
    /\ cached = None /\ attempted = FALSE /\ resuming = FALSE
    /\ recovery = FALSE /\ wifiDefers = 0 /\ wsDefers = 0 /\ advPaused = FALSE
    /\ runtime = FALSE
    /\ pc = "idle" /\ tickBle = FALSE /\ via = None /\ target = None
    /\ searching = FALSE /\ searcher = "none" /\ current = FALSE /\ result = None
    /\ client = FALSE /\ stackReady = FALSE /\ wsUrl = None /\ started = FALSE /\ ws = "none"
    /\ \E b \in Bounds :
          /\ server \in b.servers
          /\ mishaps = [kinds |-> b.kinds, left |-> b.mishaps]
          /\ sessions = b.sessions /\ edits = b.edits
    /\ raced = FALSE /\ old = FALSE

-----------------------------------------------------------------------------
(* Helpers of the coordinator *)

\* transport_reset_cached_ws_resume_state
ResetResume == attempted' = FALSE /\ resuming' = FALSE

\* transport_reset_low_memory_recovery
ResetLowMemory == recovery' = FALSE /\ wifiDefers' = 0 /\ wsDefers' = 0 /\ advPaused' = FALSE

\* transport_schedule_retry of a delay, and the state that goes with it
RetryLater == retryDue' = FALSE /\ state' = "CLOUD_SUSPENDED"

\* What becomes of a result in the queue when the generation advances
PastResult == IF result = None THEN None ELSE Stale

\* transport_cancel_discovery: the search in flight belongs to a past generation.
CancelDiscovery ==
    IF searching
    THEN current' = FALSE /\ result' = PastResult
    ELSE UNCHANGED <<current, result>>

\* transport_stop_ws: ws_client_stop when there is something to stop
StopWs ==
    /\ started' = FALSE
    /\ ws' = IF started THEN "none" ELSE ws

\* ws_client_deinit: the handle is destroyed, and its connection with it, unless
\* the audio worker does not exit in time.
Deinit ==
    /\ started' = FALSE
    /\ \/ client' = FALSE /\ ws' = "none"
       \/ "postponed" \in mishaps.kinds /\ client' = client /\ ws' = (IF started THEN "none" ELSE ws)

\* transport_enter_low_memory_recovery, the suspension of the runtime included
EnterRecovery ==
    /\ recovery' = TRUE
    /\ advPaused' = ~ble
    /\ CancelDiscovery
    /\ Deinit /\ stackReady' = FALSE
    /\ runtime' = FALSE

\* transport_suspend_for_ble in four steps: the coordinator's own state, ...
SuspendState ==
    /\ ResetResume /\ ResetLowMemory /\ CancelDiscovery
    /\ old' = (old \/ searcher = "busy")

\* ... the WebSocket client, Wi-Fi (SuspendForBle) and the new state.
SuspendDone == retryDue' = TRUE /\ state' = "BLE_ACTIVE"

\* The coordinator when BLE is gone
BleGone == ResetResume /\ retryDue' = TRUE /\ state' = "CLOUD_SUSPENDED"

-----------------------------------------------------------------------------
(* The BLE task *)

BleConnect ==
    /\ caller = "idle" /\ ~ble /\ ~advPaused /\ sessions > 0
    /\ sessions' = sessions - 1
    /\ ble' = TRUE /\ caller' = "callback"
    /\ raced' = (pc # "idle" \/ joiner # "idle")
    /\ UNCHANGED <<wifiVars, mode, lastBle, resume, lowMem, runtime, tick, search, wsVars,
                   server, mishaps, edits, old>>

\* on_ble_connection_changed(true)
BleSuspend ==
    /\ caller = "callback"
    /\ lastBle' = TRUE /\ caller' = "ws"
    /\ SuspendState
    /\ UNCHANGED <<wifiVars, ble, mode, cached, runtime, tick, searching, searcher, wsVars, bounds, raced>>

BleStopWs ==
    /\ caller = "ws"
    /\ caller' = "wifi"
    /\ StopWs
    /\ UNCHANGED <<wifiVars, ble, mode, lastBle, resume, lowMem, runtime, tick, search,
                   client, stackReady, wsUrl, bounds, ghosts>>

BleStopWifi ==
    /\ caller = "wifi"
    /\ caller' = "state"
    /\ SuspendForBle
    /\ raced' = (raced \/ joiner # "idle")
    /\ UNCHANGED <<radio, creds, staOn, startReq, joiner, ble, mode, lastBle, resume, lowMem, runtime,
                   tick, search, wsVars, bounds, old>>

BleActive ==
    /\ caller = "state"
    /\ caller' = "idle"
    /\ SuspendDone
    /\ UNCHANGED <<wifiVars, ble, lastBle, resume, lowMem, runtime, tick, search, wsVars, bounds, ghosts>>

BleDisconnect ==
    /\ caller = "idle" /\ ble
    /\ ble' = FALSE /\ caller' = "gone" /\ raced' = FALSE
    /\ UNCHANGED <<wifiVars, mode, lastBle, resume, lowMem, runtime, tick, search, wsVars, bounds, old>>

\* on_ble_connection_changed(false)
BleResume ==
    /\ caller = "gone"
    /\ lastBle' = FALSE /\ caller' = "idle"
    /\ BleGone
    /\ UNCHANGED <<wifiVars, ble, cached, lowMem, runtime, tick, search, wsVars, bounds, ghosts>>

\* The credentials are not stored, the Wi-Fi station does not start.
BleSetCredentialsFails ==
    /\ caller = "idle" /\ ble /\ edits > 0
    /\ edits' = edits - 1
    /\ StoreCredentialsFails /\ Mishap("store")
    /\ UNCHANGED <<bleVars, mode, lastBle, resume, lowMem, runtime, tick, search, wsVars,
                   server, sessions, ghosts>>

\* The commands that set and clear the credentials; clearing them reports the
\* status WIFI_STATUS_UNCONFIGURED to on_wifi_status_changed.
BleSetCredentials ==
    /\ caller = "idle" /\ ble /\ edits > 0
    /\ edits' = edits - 1
    /\ StoreCredentials
    /\ UNCHANGED <<bleVars, mode, lastBle, resume, lowMem, runtime, tick, search, wsVars,
                   server, mishaps, sessions, ghosts>>

BleClearCredentials ==
    /\ caller = "idle" /\ ble /\ edits > 0
    /\ edits' = edits - 1
    /\ ClearCredentials
    /\ ResetLowMemory
    /\ UNCHANGED <<bleVars, mode, lastBle, resume, runtime, tick, search, wsVars,
                   server, mishaps, sessions, ghosts>>

-----------------------------------------------------------------------------
(* The tick: transport_coordinator_tick *)

TickBegin ==
    /\ pc = "idle"
    /\ tickBle' = ble /\ pc' = "results"
    /\ UNCHANGED <<wifiVars, bleVars, mode, lastBle, resume, lowMem, runtime, via, target,
                   search, wsVars, bounds, ghosts>>

(* transport_handle_discovery_results *)

TickNoResult ==
    /\ pc = "results" /\ result = None
    /\ pc' = "edge"
    /\ UNCHANGED <<wifiVars, bleVars, mode, lastBle, resume, lowMem, runtime, tickBle, via, target,
                   search, wsVars, bounds, ghosts>>

\* A result of a past generation, or one that comes while BLE is active.
TickIgnoreResult ==
    /\ pc = "results" /\ result # None /\ (result = Stale \/ tickBle)
    /\ result' = None /\ old' = FALSE
    /\ UNCHANGED <<wifiVars, bleVars, mode, lastBle, resume, lowMem, runtime, tick,
                   searching, searcher, current, wsVars, bounds, raced>>

\* The search failed, or found a server of another protocol version; or the endpoint of the
\* server that was found cannot be built.
TickSearchFailed ==
    /\ pc = "results" /\ ~tickBle
    /\ \/ result = Failed /\ NoMishap
       \/ result \in Urls /\ Mishap("search")
    /\ result' = None /\ old' = FALSE
    /\ RetryLater
    /\ UNCHANGED <<wifiVars, bleVars, lastBle, resume, lowMem, runtime, tick,
                   searching, searcher, current, wsVars, server, sessions, edits, raced>>

\* Mutant of TickFound: the status of the result is not looked at.
FoundAnything ==
    /\ pc = "results" /\ result \in Urls \cup {Failed} /\ ~tickBle
    /\ result' = None
    /\ pc' = "prepare" /\ via' = "found" /\ target' = result
    /\ UNCHANGED <<wifiVars, bleVars, mode, lastBle, resume, lowMem, runtime, tickBle,
                   searching, searcher, current, wsVars, bounds, ghosts>>

TickFound ==
    /\ pc = "results" /\ result \in Urls /\ ~tickBle
    /\ result' = None
    /\ pc' = "prepare" /\ via' = "found" /\ target' = result
    /\ UNCHANGED <<wifiVars, bleVars, mode, lastBle, resume, lowMem, runtime, tickBle,
                   searching, searcher, current, wsVars, bounds, ghosts>>

-----------------------------------------------------------------------------
(* transport_prepare_ws_client, in transport_start_ws_transport and in        *)
(* transport_try_cached_ws_resume                                             *)

\* The locals of an attempt that is over
AttemptOver == via' = None /\ target' = None

\* The client is there already, and for the same endpoint.
PrepareSame ==
    /\ pc = "prepare" /\ stackReady /\ wsUrl = target
    /\ pc' = "headroom"
    /\ UNCHANGED <<wifiVars, bleVars, mode, lastBle, resume, lowMem, runtime, tickBle, via, target,
                   search, wsVars, bounds, ghosts>>

\* There is none, or one for another endpoint that can be destroyed.
Renewable == (~stackReady => ~client) /\ (stackReady => wsUrl # target)

PrepareNew ==
    /\ pc = "prepare" /\ Renewable
    /\ client' = TRUE /\ stackReady' = TRUE /\ wsUrl' = target
    /\ started' = FALSE /\ ws' = "none"
    /\ pc' = "headroom"
    /\ UNCHANGED <<wifiVars, bleVars, mode, lastBle, resume, lowMem, runtime, tickBle, via, target,
                   search, bounds, ghosts>>

\* An endpoint that was found is looked for again later; instead of one that was
\* remembered, another is looked for at once.
GiveUp ==
    /\ IF via = "found"
       THEN RetryLater /\ pc' = "results" /\ UNCHANGED cached
       ELSE cached' = None /\ pc' = "launch" /\ UNCHANGED mode
    /\ AttemptOver

\* ws_client_set_server_url refuses as long as an old client has not been destroyed.
PrepareFails ==
    /\ pc = "prepare"
    /\ \/ ~stackReady /\ client /\ UNCHANGED <<stackReady, started, ws>>
       \/ /\ stackReady /\ wsUrl # target /\ "postponed" \in mishaps.kinds
          /\ stackReady' = FALSE /\ started' = FALSE /\ ws' = (IF started THEN "none" ELSE ws)
    /\ GiveUp
    /\ UNCHANGED <<wifiVars, bleVars, lastBle, attempted, resuming, lowMem, runtime,
                   tickBle, search, client, wsUrl, bounds, ghosts>>

\* ws_client_init has no memory for the client or its lock.
InitFails ==
    /\ pc = "prepare" /\ Renewable /\ Mishap("init")
    /\ client' = FALSE /\ stackReady' = FALSE /\ wsUrl' = target
    /\ started' = FALSE /\ ws' = "none"
    /\ GiveUp
    /\ UNCHANGED <<wifiVars, bleVars, lastBle, attempted, resuming, lowMem, runtime,
                   tickBle, search, server, sessions, edits, ghosts>>

\* The attempt is put off: the next discovery result, or the end of the tick.
AfterAttempt == IF via = "found" THEN "results" ELSE "idle"

StartHeadroom ==
    /\ pc \in {"headroom", "recovered"}
    /\ pc' = "start"
    /\ UNCHANGED <<wifiVars, bleVars, mode, lastBle, resume, lowMem, runtime, tickBle, via, target,
                   search, wsVars, bounds, ghosts>>

\* Too little memory, not too often yet; or still, in recovery.
StartDeferred ==
    /\ wsDefers' = IF pc = "headroom" THEN wsDefers + 1 ELSE wsDefers
    /\ RetryLater
    /\ pc' = AfterAttempt /\ AttemptOver
    /\ UNCHANGED <<wifiVars, bleVars, lastBle, resume, recovery, wifiDefers, advPaused, runtime,
                   tickBle, search, wsVars, server, sessions, edits, ghosts>>

\* Too often: recovery begins, which destroys the client that was just prepared.
StartRecovery ==
    /\ wsDefers' = wsDefers + 1
    /\ EnterRecovery
    /\ pc' = "recovered"
    /\ UNCHANGED <<wifiVars, bleVars, mode, lastBle, resume, wifiDefers, tickBle, via, target,
                   searching, searcher, wsUrl, server, sessions, edits, ghosts>>

\* With the limit of the code it never is too often: StartsNeverRecover.
StartShort ==
    /\ pc \in {"headroom", "recovered"} /\ Mishap("heap")
    /\ IF pc = "headroom" /\ ~recovery /\ wsDefers + 1 >= WsStartDefers
       THEN StartRecovery ELSE StartDeferred

-----------------------------------------------------------------------------
(* ws_client_start, after the display has settled *)

\* There is no client (recovery has destroyed it), or it does not start.
StartFails ==
    /\ pc = "start"
    /\ \/ ~client /\ NoMishap
       \/ client /\ ~started /\ Mishap("start")
    /\ StopWs
    /\ GiveUp
    /\ UNCHANGED <<wifiVars, bleVars, lastBle, attempted, resuming, lowMem, runtime,
                   tickBle, search, client, stackReady, wsUrl, server, sessions, edits, ghosts>>

\* The client's task is created; it runs at a higher priority than the tick.
StartClient ==
    /\ pc = "start" /\ client /\ ~started
    /\ ws' = "trying" /\ pc' = "started"
    /\ UNCHANGED <<wifiVars, bleVars, mode, lastBle, resume, lowMem, runtime, tickBle, via, target,
                   search, client, stackReady, wsUrl, started, bounds, ghosts>>

\* What follows a successful start, in both callers.
StartSucceeded ==
    /\ ResetLowMemory
    /\ retryDue' = TRUE /\ state' = "WS_CONNECTING"
    /\ attempted' = TRUE /\ resuming' = (via = "cached")
    /\ cached' = IF via = "found" THEN target ELSE cached
    /\ pc' = AfterAttempt /\ AttemptOver
    /\ UNCHANGED <<wifiVars, bleVars, lastBle, runtime, tickBle, search,
                   client, stackReady, wsUrl, ws, bounds, ghosts>>

StartDone ==
    /\ pc = "started"
    /\ started' = TRUE
    /\ StartSucceeded

\* ws_client_start returns at once when the client is started already.
StartAgain ==
    /\ pc = "start" /\ client /\ started
    /\ UNCHANGED started
    /\ StartSucceeded

-----------------------------------------------------------------------------
(* The rest of the tick *)

\* The tick itself sees that BLE has come, before the callback has said so, ...
TickSuspend ==
    /\ pc = "edge" /\ tickBle # lastBle /\ tickBle
    /\ lastBle' = TRUE /\ pc' = "suspendws" /\ tickBle' = FALSE
    /\ SuspendState
    /\ UNCHANGED <<wifiVars, bleVars, mode, cached, runtime, via, target,
                   searching, searcher, wsVars, bounds, raced>>

TickStopWs ==
    /\ pc = "suspendws"
    /\ pc' = "suspendwifi"
    /\ StopWs
    /\ UNCHANGED <<wifiVars, bleVars, mode, lastBle, resume, lowMem, runtime, tickBle, via, target,
                   search, client, stackReady, wsUrl, bounds, ghosts>>

TickStopWifi ==
    /\ pc = "suspendwifi"
    /\ pc' = "suspended"
    /\ SuspendForBle
    /\ UNCHANGED <<radio, creds, staOn, startReq, joiner, bleVars, mode, lastBle, resume, lowMem,
                   runtime, tickBle, via, target, search, wsVars, bounds, ghosts>>

TickSuspended ==
    /\ pc = "suspended"
    /\ pc' = "idle"
    /\ SuspendDone
    /\ UNCHANGED <<wifiVars, bleVars, lastBle, resume, lowMem, runtime, tickBle, via, target,
                   search, wsVars, bounds, ghosts>>

\* ... or that it has gone.
TickBleGone ==
    /\ pc = "edge" /\ tickBle # lastBle /\ ~tickBle
    /\ lastBle' = FALSE /\ pc' = "policy"
    /\ BleGone
    /\ UNCHANGED <<wifiVars, bleVars, cached, lowMem, runtime, tickBle, via, target,
                   search, wsVars, bounds, ghosts>>

TickBleActive ==
    /\ pc = "edge" /\ tickBle /\ lastBle
    /\ state' = "BLE_ACTIVE" /\ pc' = "idle" /\ tickBle' = FALSE
    /\ UNCHANGED <<wifiVars, bleVars, retryDue, lastBle, resume, lowMem, runtime, via, target,
                   search, wsVars, bounds, ghosts>>

TickBleIdle ==
    /\ pc = "edge" /\ ~tickBle /\ ~lastBle
    /\ pc' = "policy"
    /\ UNCHANGED <<wifiVars, bleVars, mode, lastBle, resume, lowMem, runtime, tickBle, via, target,
                   search, wsVars, bounds, ghosts>>

TickNoCredentials ==
    /\ pc = "policy" /\ ~creds
    /\ ResetResume /\ cached' = None
    /\ ResetLowMemory
    /\ StopWs
    /\ state' = "NO_CREDENTIALS" /\ pc' = "idle"
    /\ UNCHANGED <<wifiVars, bleVars, retryDue, lastBle, runtime, tickBle, via, target, search,
                   client, stackReady, wsUrl, bounds, ghosts>>

TickWifiDown ==
    /\ pc = "policy" /\ creds /\ ~wifiUp
    /\ ResetResume
    /\ StopWs
    /\ IF retryDue THEN pc' = "resume" /\ UNCHANGED state ELSE pc' = "idle" /\ state' = "CLOUD_SUSPENDED"
    /\ UNCHANGED <<wifiVars, bleVars, retryDue, lastBle, cached, lowMem, runtime, tickBle, via, target,
                   search, client, stackReady, wsUrl, bounds, ghosts>>

\* Mutant of TickWifiUp: the deferrals are counted on.
TickWifiUpCounts ==
    /\ pc = "policy" /\ creds /\ wifiUp
    /\ UNCHANGED lowMem
    /\ pc' = "cloud"
    /\ UNCHANGED <<wifiVars, bleVars, mode, lastBle, resume, runtime, tickBle, via, target,
                   search, wsVars, bounds, ghosts>>

TickWifiUp ==
    /\ pc = "policy" /\ creds /\ wifiUp
    /\ IF recovery THEN UNCHANGED lowMem ELSE ResetLowMemory
    /\ pc' = "cloud"
    /\ UNCHANGED <<wifiVars, bleVars, mode, lastBle, resume, runtime, tickBle, via, target,
                   search, wsVars, bounds, ghosts>>

-----------------------------------------------------------------------------
(* transport_begin_wifi_resume *)

ResumeNoCredentials ==
    /\ pc = "resume" /\ ~creds
    /\ ResetLowMemory
    /\ StopWs
    /\ state' = "NO_CREDENTIALS" /\ pc' = "idle"
    /\ UNCHANGED <<wifiVars, bleVars, retryDue, lastBle, resume, runtime, tickBle, via, target, search,
                   client, stackReady, wsUrl, bounds, ghosts>>

ResumeNotNeeded ==
    /\ pc = "resume" /\ creds /\ wifiUp
    /\ ResetLowMemory
    /\ pc' = "idle"
    /\ UNCHANGED <<wifiVars, bleVars, mode, lastBle, resume, runtime, tickBle, via, target, search,
                   wsVars, bounds, ghosts>>

WifiState == IF staOn THEN "WIFI_CONNECTING" ELSE "WIFI_STARTING"

\* A connection has been requested already: the tick leaves it to the manager.
ResumeRequested ==
    /\ pc = "resume" /\ creds /\ ~wifiUp /\ connectReq
    /\ state' = WifiState /\ pc' = "idle"
    /\ UNCHANGED <<wifiVars, bleVars, retryDue, lastBle, resume, lowMem, runtime, tickBle, via, target,
                   search, wsVars, bounds, ghosts>>

Resumes == pc = "resume" /\ creds /\ ~wifiUp /\ ~connectReq

ResumeDeferred ==
    /\ \/ Resumes /\ (recovery \/ wifiDefers + 1 < WifiResumeDefers) /\ wifiDefers' = wifiDefers + 1
       \/ pc = "rejoin" /\ UNCHANGED wifiDefers
    /\ Mishap("heap")
    /\ RetryLater /\ pc' = "idle"
    /\ UNCHANGED <<wifiVars, bleVars, lastBle, resume, recovery, wsDefers, advPaused, runtime,
                   tickBle, via, target, search, wsVars, server, sessions, edits, ghosts>>

ResumeRecovery ==
    /\ Resumes /\ ~recovery /\ wifiDefers + 1 >= WifiResumeDefers /\ Mishap("heap")
    /\ wifiDefers' = wifiDefers + 1
    /\ EnterRecovery
    /\ pc' = "rejoin"
    /\ UNCHANGED <<wifiVars, bleVars, mode, lastBle, resume, wsDefers, tickBle, via, target,
                   searching, searcher, wsUrl, server, sessions, edits, ghosts>>

\* wifi_resume_background, first half, ...
ResumeWifi ==
    /\ Resumes \/ pc = "rejoin"
    /\ ResumeBegin
    /\ wifiDefers' = 0 /\ pc' = "join"
    /\ UNCHANGED <<link, posted, creds, staOn, inProgress, wifiUp, joiner, bleVars, mode, lastBle, resume,
                   recovery, wsDefers, advPaused, runtime, tickBle, via, target, search, wsVars,
                   bounds, ghosts>>

\* ... which ends there when the Wi-Fi station does not start: the retry that is scheduled
\* finds the connection requested already, ...
ResumeNotStarted ==
    /\ Resumes \/ pc = "rejoin"
    /\ ResumeBeginFails /\ Mishap("radio")
    /\ wifiDefers' = 0 /\ RetryLater /\ pc' = "idle"
    /\ UNCHANGED <<link, posted, creds, staOn, inProgress, wifiUp, joiner, bleVars, lastBle, resume,
                   recovery, wsDefers, advPaused, runtime, tickBle, via, target, search, wsVars,
                   server, sessions, edits, ghosts>>

\* ... and second half, with its two outcomes.
ResumeJoins ==
    /\ pc = "join" /\ creds
    /\ RequestConnect
    /\ state' = WifiState /\ pc' = "idle"
    /\ UNCHANGED <<radio, posted, creds, staOn, startReq, connectReq, wifiUp, joiner, bleVars, retryDue,
                   lastBle, resume, lowMem, runtime, tickBle, via, target, search, wsVars, bounds, ghosts>>

ResumeFails ==
    /\ \/ pc = "join" /\ RequestConnectFails /\ (IF creds THEN Mishap("connect") ELSE NoMishap)
       \/ pc = "rejoin" /\ ~creds /\ UNCHANGED <<inProgress, link, mishaps>>
    /\ RetryLater /\ pc' = "idle"
    /\ UNCHANGED <<radio, posted, creds, staOn, startReq, connectReq, wifiUp, joiner, bleVars,
                   lastBle, resume, lowMem, runtime, tickBle, via, target, search, wsVars,
                   server, sessions, edits, ghosts>>

-----------------------------------------------------------------------------
(* The end of the tick: Wi-Fi is up *)

\* The session is ready: its endpoint is remembered and the voice runtime
\* started, unless memory is short.
CloudReady ==
    /\ pc = "cloud" /\ Ready
    /\ cached' = wsUrl /\ attempted' = FALSE /\ resuming' = FALSE
    /\ \/ runtime' = TRUE /\ NoMishap
       \/ ~runtime /\ runtime' = FALSE /\ Mishap("heap")
    /\ state' = "CLOUD_READY" /\ pc' = "idle"
    /\ UNCHANGED <<wifiVars, bleVars, retryDue, lastBle, lowMem, tickBle, via, target, search, wsVars,
                   server, sessions, edits, ghosts>>

\* The cached endpoint did not answer, ...
CloudResumeFailed ==
    /\ pc = "cloud" /\ ~Ready /\ resuming /\ ~Connected /\ ~started
    /\ resuming' = FALSE /\ retryDue' = TRUE /\ pc' = "link"
    /\ UNCHANGED <<wifiVars, bleVars, state, lastBle, cached, attempted, lowMem, runtime, tickBle, via,
                   target, search, wsVars, bounds, ghosts>>

\* ... not in CACHED_WS_CONNECT_TIMEOUT_MS, ...
CloudResumeTimeout ==
    /\ pc = "cloud" /\ ~Ready /\ resuming /\ (Connected \/ started)
    /\ StopWs
    /\ resuming' = FALSE /\ retryDue' = TRUE /\ pc' = "link"
    /\ UNCHANGED <<wifiVars, bleVars, state, lastBle, cached, attempted, lowMem, runtime, tickBle, via,
                   target, search, client, stackReady, wsUrl, bounds, ghosts>>

\* ... or not yet.
CloudResumeWaits ==
    /\ pc = "cloud" /\ ~Ready /\ resuming /\ (Connected \/ started)
    /\ state' = "WS_CONNECTING" /\ pc' = "idle"
    /\ UNCHANGED <<wifiVars, bleVars, retryDue, lastBle, resume, lowMem, runtime, tickBle, via, target,
                   search, wsVars, bounds, ghosts>>

CloudNotResuming ==
    /\ pc = "cloud" /\ ~Ready /\ ~resuming
    /\ pc' = "link"
    /\ UNCHANGED <<wifiVars, bleVars, mode, lastBle, resume, lowMem, runtime, tickBle, via, target,
                   search, wsVars, bounds, ghosts>>

\* A connection or a search is under way, or the retry is not due.
CloudWaits ==
    /\ pc = "link"
    /\ Connected \/ started \/ searching \/ ~retryDue
    /\ state' = IF Connected \/ started THEN "WS_CONNECTING"
                ELSE IF searching THEN "DISCOVERING" ELSE "CLOUD_SUSPENDED"
    /\ pc' = "idle"
    /\ UNCHANGED <<wifiVars, bleVars, retryDue, lastBle, resume, lowMem, runtime, tickBle, via, target,
                   search, wsVars, bounds, ghosts>>

Idle == pc = "link" /\ ~Connected /\ ~started /\ ~searching /\ retryDue

\* transport_try_cached_ws_resume
CloudResume ==
    /\ Idle /\ cached # None /\ ~attempted
    /\ pc' = "prepare" /\ via' = "cached" /\ target' = cached
    /\ UNCHANGED <<wifiVars, bleVars, mode, lastBle, resume, lowMem, runtime, tickBle,
                   search, wsVars, bounds, ghosts>>

CloudSearch ==
    /\ Idle /\ (cached = None \/ attempted)
    /\ pc' = "launch"
    /\ UNCHANGED <<wifiVars, bleVars, mode, lastBle, resume, lowMem, runtime, tickBle, via, target,
                   search, wsVars, bounds, ghosts>>

\* transport_launch_discovery: a new generation
LaunchDiscovery ==
    /\ pc = "launch"
    /\ IF searching THEN UNCHANGED <<search, state, old>>
       ELSE /\ searching' = TRUE /\ searcher' = "busy" /\ current' = TRUE
            /\ result' = PastResult
            /\ state' = "DISCOVERING" /\ old' = FALSE
    /\ pc' = "idle"
    /\ UNCHANGED <<wifiVars, bleVars, retryDue, lastBle, resume, lowMem, runtime, tickBle, via, target,
                   wsVars, bounds, raced>>

\* No memory for the task or its generation.
LaunchFails ==
    /\ pc = "launch" /\ ~searching /\ Mishap("search")
    /\ RetryLater /\ pc' = "idle"
    /\ UNCHANGED <<wifiVars, bleVars, lastBle, resume, lowMem, runtime, tickBle, via, target,
                   search, wsVars, server, sessions, edits, ghosts>>

\* transport_schedule_retry's delay has passed.
RetryExpires ==
    /\ ~retryDue
    /\ retryDue' = TRUE
    /\ UNCHANGED <<wifiVars, bleVars, state, lastBle, resume, lowMem, runtime, tick, search, wsVars,
                   bounds, ghosts>>

-----------------------------------------------------------------------------
(* transport_discovery_task *)

\* discovery_start_with_timeout returns and the result overwrites the queue's.
SearcherPosts ==
    /\ searcher = "busy"
    /\ \/ link = "up" /\ result' = (IF current THEN server ELSE Stale) /\ NoMishap
       \/ /\ result' = (IF current THEN Failed ELSE Stale)
          /\ IF link = "up" THEN Mishap("search") ELSE NoMishap
    /\ searcher' = "posted" /\ current' = FALSE
    /\ UNCHANGED <<wifiVars, bleVars, mode, lastBle, resume, lowMem, runtime, tick, searching,
                   wsVars, server, sessions, edits, ghosts>>

\* Mutant of SearcherEnds: the search stays marked as under way.
SearcherEndsMarked ==
    /\ searcher = "posted"
    /\ searcher' = "none"
    /\ UNCHANGED <<wifiVars, bleVars, mode, lastBle, resume, lowMem, runtime, tick, searching, current,
                   result, wsVars, bounds, ghosts>>

SearcherEnds ==
    /\ searcher = "posted"
    /\ searching' = FALSE /\ searcher' = "none"
    /\ UNCHANGED <<wifiVars, bleVars, mode, lastBle, resume, lowMem, runtime, tick, current, result,
                   wsVars, bounds, ghosts>>

-----------------------------------------------------------------------------
(* The WebSocket client's task and the server *)

WsOpen ==
    /\ ws = "trying" /\ link = "up" /\ wsUrl = server
    /\ ws' = "open" /\ started' = TRUE
    /\ UNCHANGED <<wifiVars, bleVars, mode, lastBle, resume, lowMem, runtime, tick, search,
                   client, stackReady, wsUrl, bounds, ghosts>>

\* The hello is acknowledged.
WsReady ==
    /\ ws = "open" /\ link = "up"
    /\ ws' = "ready"
    /\ UNCHANGED <<wifiVars, bleVars, mode, lastBle, resume, lowMem, runtime, tick, search,
                   client, stackReady, wsUrl, started, bounds, ghosts>>

\* The connection fails or is lost: WEBSOCKET_EVENT_DISCONNECTED.  It comes before
\* ws_client_start has written s_ws_started only as a mishap of its own.
WsLost ==
    /\ ws # "none"
    /\ pc = "started" => "early" \in mishaps.kinds
    /\ IF link # "up" \/ wsUrl # server THEN NoMishap ELSE Mishap("drop")
    /\ ws' = "none" /\ started' = FALSE
    /\ UNCHANGED <<wifiVars, bleVars, mode, lastBle, resume, lowMem, runtime, tick, search,
                   client, stackReady, wsUrl, server, sessions, edits, ghosts>>

ServerMoves ==
    /\ Mishap("moved")
    /\ \E u \in Urls \ {server} : server' = u
    /\ UNCHANGED <<wifiVars, bleVars, mode, lastBle, resume, lowMem, runtime, tick, search, wsVars,
                   sessions, edits, ghosts>>

-----------------------------------------------------------------------------
(* Wi-Fi, with what on_wifi_status_changed does to the coordinator *)

OthersUnchanged == UNCHANGED <<bleVars, mode, lastBle, resume, runtime, tick, search, wsVars,
                               server, sessions, edits, ghosts>>

WifiStarted == DriverStarted /\ NoMishap /\ UNCHANGED lowMem /\ OthersUnchanged
WifiJoined  == DriverJoined /\ NoMishap /\ UNCHANGED lowMem /\ OthersUnchanged
WifiLost    == DriverLost /\ Mishap("loss") /\ UNCHANGED lowMem /\ OthersUnchanged

OnStaStart == EventStaStart /\ NoMishap /\ UNCHANGED lowMem /\ OthersUnchanged

\* WIFI_STATUS_UNCONFIGURED ends the recovery, ...
OnStaDisconnected ==
    /\ EventStaDisconnected
    /\ IF creds THEN UNCHANGED lowMem ELSE ResetLowMemory
    /\ NoMishap /\ OthersUnchanged

\* ... WIFI_STATUS_CONNECTED only clears the counters.
OnGotIp ==
    /\ EventGotIp
    /\ IF recovery THEN UNCHANGED lowMem ELSE ResetLowMemory
    /\ NoMishap /\ OthersUnchanged

OnJoin == EventJoin /\ NoMishap /\ UNCHANGED lowMem /\ OthersUnchanged

OnJoinFails ==
    /\ EventJoinFails
    /\ IF creds THEN Mishap("connect") ELSE NoMishap
    /\ UNCHANGED lowMem /\ OthersUnchanged

-----------------------------------------------------------------------------
BleCallback == BleSuspend \/ BleStopWs \/ BleStopWifi \/ BleActive \/ BleResume
Phone       == \/ BleConnect \/ BleDisconnect
               \/ BleSetCredentials \/ BleSetCredentialsFails \/ BleClearCredentials

Results == TickNoResult \/ TickIgnoreResult \/ TickSearchFailed \/ TickFound

Start == \/ PrepareSame \/ PrepareNew \/ PrepareFails \/ InitFails
         \/ StartHeadroom \/ StartShort
         \/ StartFails \/ StartClient \/ StartDone \/ StartAgain

Edges == \/ TickSuspend \/ TickStopWs \/ TickStopWifi \/ TickSuspended
         \/ TickBleGone \/ TickBleActive \/ TickBleIdle
         \/ TickNoCredentials \/ TickWifiDown \/ TickWifiUp

Resume == \/ ResumeNoCredentials \/ ResumeNotNeeded \/ ResumeRequested
          \/ ResumeDeferred \/ ResumeRecovery \/ ResumeWifi \/ ResumeNotStarted
          \/ ResumeJoins \/ ResumeFails

Cloud == \/ CloudReady \/ CloudResumeFailed \/ CloudResumeTimeout \/ CloudResumeWaits
         \/ CloudNotResuming \/ CloudWaits \/ CloudResume \/ CloudSearch \/ LaunchDiscovery
         \/ LaunchFails

Tick == TickBegin \/ Results \/ Start \/ Edges \/ Resume \/ Cloud

Searcher == SearcherPosts \/ SearcherEnds

WifiEvents == OnStaStart \/ OnStaDisconnected \/ OnGotIp \/ OnJoin \/ OnJoinFails

Next == \/ BleCallback \/ Phone \/ Tick \/ RetryExpires \/ Searcher
        \/ WsOpen \/ WsReady \/ WsLost \/ ServerMoves
        \/ WifiStarted \/ WifiJoined \/ WifiLost \/ WifiEvents

Spec == Init /\ [][Next]_vars

(***************************************************************************)
(* Fairness: the main loop ticks, the BLE callback, the discovery task and *)
(* the event tasks run to their end, delays pass; an access point and a    *)
(* server that are there answer, and a connection to one that is not fails.*)
(* The main loop sleeps between its ticks: a search does not end within a  *)
(* tick every time.                                                        *)
(***************************************************************************)
FairSpec ==
    /\ Spec
    /\ WF_vars(Tick) /\ WF_vars(RetryExpires)
    /\ WF_vars(BleCallback) /\ WF_vars(Searcher) /\ SF_vars(pc = "idle" /\ SearcherPosts)
    /\ WF_vars(WsOpen \/ WsReady \/ WsLost)
    /\ WF_vars(WifiStarted \/ WifiJoined) /\ WF_vars(WifiEvents)

-----------------------------------------------------------------------------
(* Properties *)

BleTypes ==
    /\ ble \in BOOLEAN /\ lastBle \in BOOLEAN
    /\ caller \in {"idle", "callback", "ws", "wifi", "state", "gone"}
    /\ sessions \in Nat /\ edits \in Nat

CoordinatorTypes ==
    /\ state \in {"BLE_ACTIVE", "NO_CREDENTIALS", "WIFI_STARTING", "WIFI_CONNECTING", "DISCOVERING",
                  "WS_CONNECTING", "CLOUD_READY", "CLOUD_SUSPENDED"}
    /\ retryDue \in BOOLEAN /\ cached \in Urls \cup {None}
    /\ attempted \in BOOLEAN /\ resuming \in BOOLEAN
    /\ recovery \in BOOLEAN /\ advPaused \in BOOLEAN /\ runtime \in BOOLEAN
    /\ wifiDefers \in Nat /\ wsDefers \in Nat
    /\ mishaps \in [kinds : SUBSET Kinds, left : Nat]

TickTypes ==
    /\ pc \in {"idle", "results", "prepare", "headroom", "recovered", "start", "started", "edge",
               "suspendws", "suspendwifi", "suspended", "policy", "resume", "rejoin", "join",
               "cloud", "link", "launch"}
    /\ tickBle \in BOOLEAN /\ via \in {None, "found", "cached"} /\ target \in Urls \cup {None}

LinkTypes ==
    /\ searching \in BOOLEAN /\ searcher \in {"none", "busy", "posted"} /\ current \in BOOLEAN
    /\ result \in Urls \cup {None, Failed, Stale}
    /\ client \in BOOLEAN /\ stackReady \in BOOLEAN /\ wsUrl \in Urls \cup {None}
    /\ started \in BOOLEAN /\ ws \in {"none", "trying", "open", "ready"}
    /\ server \in Urls /\ raced \in BOOLEAN /\ old \in BOOLEAN

(***************************************************************************)
(* Every variable of the coordinator, the manager and the facade of the    *)
(* WebSocket client has its type.                                          *)
(***************************************************************************)
TypeOK == WifiTypes /\ BleTypes /\ CoordinatorTypes /\ TickTypes /\ LinkTypes

(***************************************************************************)
(* While BLE is connected and its callback has finished, the background    *)
(* link is paused: no WebSocket client is started, no Wi-Fi connection is  *)
(* requested, under way or up (an address that was already posted may set  *)
(* is_connected once more, until the event of the disconnection behind it  *)
(* is handled).                                                            *)
(***************************************************************************)
BleExclusive ==
    ble /\ caller = "idle" =>
        /\ ~started /\ ws = "none"
        /\ ~connectReq /\ ~inProgress /\ link = "down" /\ (posted = <<>> => ~wifiUp)

\* ... as long as the connection did not come in the middle of a tick that has
\* read the flag already.
BleQuiet == ~raced => BleExclusive

(***************************************************************************)
(* A search that was running when a BLE session began never leads to a     *)
(* connection, whenever its result arrives.                                *)
(***************************************************************************)
StaleSearchIgnored == pc = "prepare" /\ via = "found" => ~old

(***************************************************************************)
(* With credentials and without a phone the device comes back to the cloud *)
(* with its voice runtime, whatever went wrong before, if it is of a kind  *)
(* that the code tries again; and BLE stays reachable: advertising paused  *)
(* by a low-memory recovery comes back, as nothing else resumes it.        *)
(***************************************************************************)
Retried == mishaps.kinds \cap {"radio", "connect", "postponed", "early"} = {}

\* ... or the manager has forgotten a link that is up: credentials were stored in a session
\* that the link came up in, after a race (see BleQuiet), and no event tells of the link again.
Forgotten == link = "up" /\ ~wifiUp /\ posted = <<>>

Back == state = "CLOUD_READY" /\ Ready /\ runtime

Recovers ==
    /\ []<>(Retried => ble \/ ~creds \/ Back \/ Forgotten)
    /\ []<>(Retried => ~advPaused)

(***************************************************************************)
(* Short memory puts the start of the WebSocket client off, but never so   *)
(* often in a row that it begins a low-memory recovery: each tick with     *)
(* Wi-Fi up forgets the count.                                             *)
(***************************************************************************)
StartsNeverRecover == pc = "headroom" /\ ~recovery => wsDefers + 1 < WsStartDefers

\* The two things a BLE session is owed: the background link is paused, and what was looked for
\* before it is forgotten.
BleGoesFirst == BleQuiet /\ StaleSearchIgnored

=============================================================================

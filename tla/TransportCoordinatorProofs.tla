--------------------- MODULE TransportCoordinatorProofs ---------------------
(***************************************************************************)
(* Proofs about TransportCoordinator for every set of endpoints, every     *)
(* number of deferrals and every environment: a BLE session that does not  *)
(* begin in the middle of a tick or of a Wi-Fi event has the device to     *)
(* itself, and no search that was running when it began ever leads to a    *)
(* connection.                                                             *)
(***************************************************************************)
EXTENDS TransportCoordinator, TLAPS

-----------------------------------------------------------------------------
(* The strengthening. *)

\* The BLE task is in its callback for a connection only while there is one.
CallerFits == /\ caller \in {"callback", "ws", "wifi", "state"} => ble
              /\ caller = "gone" => ~ble

\* A tick during a session that did not begin in the middle of one knows of
\* the session, so it goes no further than its own suspension.
QuietPcs == {"idle", "results", "edge", "suspendws", "suspendwifi", "suspended"}
TickKnows == ble /\ ~raced => /\ pc \in QuietPcs
                              /\ pc \in {"results", "edge"} => tickBle

\* The client runs only if s_ws_started says so, or is about to.
StartedFits == ws # "none" => started \/ pc = "started"

\* What the callback has done stays done.
WsStopped == ble /\ ~raced /\ caller \in {"wifi", "state", "idle"} => ~started /\ ws = "none"
WifiStopped == ble /\ ~raced /\ caller \in {"state", "idle"} =>
                 ~connectReq /\ ~inProgress /\ link = "down" /\ joiner = "idle"

\* A link that is not up has its loss in the queue behind every address, and
\* is_connected is set only as long as that loss has not been handled.
LossPosted(q) == \E j \in DOMAIN q : q[j] = "lost"
AddressesLost(q) == \A i \in DOMAIN q : q[i] = "ip" => \E j \in DOMAIN q : i < j /\ q[j] = "lost"
LinkPosted == link # "up" => AddressesLost(posted) /\ (wifiUp => LossPosted(posted))

\* A result with an endpoint is of the search that was launched last, which is
\* over, and no session has begun since then.
Fresh == result \in Urls \cup {Failed}
SearchFits == /\ searcher # "none" => searching
              /\ Fresh => searcher # "busy"
              /\ old => ~current /\ ~Fresh
              /\ pc = "prepare" /\ via = "found" => searcher # "busy" /\ ~old

\* What the tasks know, ...
Control == CallerFits /\ TickKnows /\ StartedFits /\ WsStopped /\ WifiStopped /\ SearchFits

\* The types: of the flags, and of the variables that are none.
Flags ==
    /\ creds \in BOOLEAN /\ staOn \in BOOLEAN /\ startReq \in BOOLEAN /\ connectReq \in BOOLEAN
    /\ inProgress \in BOOLEAN /\ wifiUp \in BOOLEAN
    /\ ble \in BOOLEAN /\ lastBle \in BOOLEAN
    /\ retryDue \in BOOLEAN /\ attempted \in BOOLEAN /\ resuming \in BOOLEAN
    /\ recovery \in BOOLEAN /\ advPaused \in BOOLEAN /\ runtime \in BOOLEAN
    /\ tickBle \in BOOLEAN /\ searching \in BOOLEAN /\ current \in BOOLEAN
    /\ client \in BOOLEAN /\ stackReady \in BOOLEAN /\ started \in BOOLEAN
    /\ raced \in BOOLEAN /\ old \in BOOLEAN

Values ==
    /\ radio \in {"off", "starting", "on"} /\ link \in {"down", "joining", "up"}
    /\ posted \in Seq({"start", "lost", "ip"}) /\ joiner \in {"idle", "retry"}
    /\ caller \in {"idle", "callback", "ws", "wifi", "state", "gone"}
    /\ sessions \in Nat /\ edits \in Nat
    /\ state \in {"BLE_ACTIVE", "NO_CREDENTIALS", "WIFI_STARTING", "WIFI_CONNECTING",
       "DISCOVERING",
                  "WS_CONNECTING", "CLOUD_READY", "CLOUD_SUSPENDED"}
    /\ cached \in Urls \cup {None} /\ wifiDefers \in Nat /\ wsDefers \in Nat
    /\ mishaps \in [kinds : SUBSET Kinds, left : Nat]
    /\ pc \in {"idle", "results", "prepare", "headroom", "recovered", "start", "started", "edge",
               "suspendws", "suspendwifi", "suspended", "policy", "resume", "rejoin", "join",
               "cloud", "link", "launch"}
    /\ via \in {None, "found", "cached"} /\ target \in Urls \cup {None}
    /\ searcher \in {"none", "busy", "posted"} /\ result \in Urls \cup {None, Failed, Stale}
    /\ wsUrl \in Urls \cup {None} /\ ws \in {"none", "trying", "open", "ready"}
    /\ server \in Urls

\* ... with the types and the queue of events: this is inductive.
Inv == Flags /\ Values /\ Control /\ LinkPosted

\* The steps of Next that no definition of the model groups.
OtherSteps == TickBegin \/ RetryExpires \/ WsOpen \/ WsReady \/ WsLost \/ ServerMoves
DriverSteps == WifiStarted \/ WifiJoined \/ WifiLost

\* The words that stand for no endpoint are none.
LEMMA Names ==
  /\ Urls \cap {None, Failed, Stale} = {}
  /\ None # Failed /\ None # Stale /\ Failed # Stale
  BY UrlNames DEF None, Failed, Stale

\* A result that was overtaken is not taken for a new one.
LEMMA PastFits == PastResult \in {None, Stale}
  BY DEF PastResult

\* What goes wrong is one of the kinds, and one less is left.
LEMMA MishapTyped ==
  ASSUME mishaps \in [kinds : SUBSET Kinds, left : Nat], NEW k, Mishap(k)
  PROVE mishaps' \in [kinds : SUBSET Kinds, left : Nat]
<1>1. mishaps = [kinds |-> mishaps.kinds, left |-> mishaps.left]
  OBVIOUS
<1>2. mishaps' = [kinds |-> mishaps.kinds, left |-> mishaps.left - 1]
  BY <1>1 DEF Mishap
<1>3. mishaps.left > 0
  BY DEF Mishap
<1>q. QED
  BY <1>2, <1>3

-----------------------------------------------------------------------------
(* Each step keeps the types and what the tasks know; a group of Next at a *)
(* time.  A flag that is assigned a condition is shown to be one first.    *)

LEMMA BleCallbackKeeps == ASSUME Inv, BleCallback PROVE Flags' /\ Values' /\ Control'
<1> USE DEF Inv, Flags, Values, Control, CallerFits, TickKnows, QuietPcs, StartedFits,
   WsStopped, WifiStopped, SearchFits, Fresh, wifiVars, driver, manager, bleVars, mode, resume,
   lowMem, tick, search, wsVars, bounds, ghosts
<1>1. CASE BleSuspend
  <2>1. /\ {attempted', resuming', recovery', advPaused', current', old'} \subseteq BOOLEAN
        /\ (old' <=> old \/ searcher = "busy")
    BY <1>1, Zenon DEF BleSuspend, SuspendState, ResetResume, ResetLowMemory, CancelDiscovery
  <2>q. QED
    BY <1>1, <2>1, PastFits, Names, SMT DEF BleSuspend, SuspendState, ResetResume,
       ResetLowMemory, CancelDiscovery
<1>2. CASE BleStopWs
  <2>1. started' \in BOOLEAN
    BY <1>2, Zenon DEF BleStopWs, StopWs
  <2>q. QED
    BY <1>2, <2>1, SMT DEF BleStopWs, StopWs
<1>3. CASE BleStopWifi
  <2>1. /\ {connectReq', inProgress', wifiUp', raced'} \subseteq BOOLEAN
        /\ (raced' <=> raced \/ joiner # "idle")
    BY <1>3, Zenon DEF BleStopWifi, SuspendForBle
  <2>q. QED
    BY <1>3, <2>1, SMT DEF BleStopWifi, SuspendForBle, Disconnect
<1>4. CASE BleActive
  BY <1>4, SMT DEF BleActive, SuspendDone
<1>5. CASE BleResume
  <2>1. {lastBle', attempted', resuming'} \subseteq BOOLEAN
    BY <1>5, Zenon DEF BleResume, BleGone, ResetResume
  <2>q. QED
    BY <1>5, <2>1, SMT DEF BleResume, BleGone, ResetResume
<1>q. QED
  BY <1>1, <1>2, <1>3, <1>4, <1>5 DEF BleCallback

LEMMA PhoneKeeps == ASSUME Inv, Phone PROVE Flags' /\ Values' /\ Control'
<1> USE DEF Inv, Flags, Values, Control, CallerFits, TickKnows, QuietPcs, StartedFits,
   WsStopped, WifiStopped, SearchFits, Fresh, wifiVars, driver, manager, bleVars, mode, resume,
   lowMem, tick, search, wsVars, bounds, ghosts
<1>1. CASE BleConnect
  <2>1. raced' \in BOOLEAN /\ (raced' <=> pc # "idle" \/ joiner # "idle")
    BY <1>1, Zenon DEF BleConnect
  <2>q. QED
    BY <1>1, <2>1, SMT DEF BleConnect
<1>2. CASE BleDisconnect
  <2>1. {ble', raced'} \subseteq BOOLEAN
    BY <1>2, Zenon DEF BleDisconnect
  <2>q. QED
    BY <1>2, <2>1, SMT DEF BleDisconnect
<1>3. CASE BleSetCredentials
  <2>1. {startReq', connectReq', inProgress', wifiUp'} \subseteq BOOLEAN
    BY <1>3, Zenon DEF BleSetCredentials, StoreCredentials, StartIfNeeded
  <2>q. QED
    BY <1>3, <2>1, SMT DEF BleSetCredentials, StoreCredentials, StartIfNeeded
<1>4. CASE BleClearCredentials
  <2>1. {creds', connectReq', inProgress', wifiUp', recovery', advPaused'} \subseteq BOOLEAN
    BY <1>4, Zenon DEF BleClearCredentials, ClearCredentials, ResetLowMemory
  <2>q. QED
    BY <1>4, <2>1, SMT DEF BleClearCredentials, ClearCredentials, ResetLowMemory
<1>5. CASE BleSetCredentialsFails
  <2>1. {startReq', connectReq', inProgress', wifiUp'} \subseteq BOOLEAN
    BY <1>5, Zenon DEF BleSetCredentialsFails, StoreCredentialsFails, StartIfNeededFails
  <2>q. QED
    BY <1>5, <2>1, MishapTyped, SMT DEF BleSetCredentialsFails, StoreCredentialsFails,
       StartIfNeededFails
<1>q. QED
  BY <1>1, <1>2, <1>3, <1>4, <1>5 DEF Phone

LEMMA ResultsKeeps == ASSUME Inv, Results PROVE Flags' /\ Values' /\ Control'
<1> USE DEF Inv, Flags, Values, Control, CallerFits, TickKnows, QuietPcs, StartedFits,
   WsStopped, WifiStopped, SearchFits, Fresh, wifiVars, driver, manager, bleVars, mode, resume,
   lowMem, tick, search, wsVars, bounds, ghosts
<1>1. CASE TickNoResult
  BY <1>1, SMT DEF TickNoResult
<1>2. CASE TickIgnoreResult
  <2>1. old' \in BOOLEAN
    BY <1>2, Zenon DEF TickIgnoreResult
  <2>q. QED
    BY <1>2, <2>1, Names, SMT DEF TickIgnoreResult
<1>3. CASE TickSearchFailed
  <2>1. {retryDue', old'} \subseteq BOOLEAN
    BY <1>3, Zenon DEF TickSearchFailed, RetryLater
  <2>q. QED
    BY <1>3, <2>1, MishapTyped, Names, SMT DEF TickSearchFailed, NoMishap, RetryLater
<1>4. CASE TickFound
  BY <1>4, Names, SMT DEF TickFound
<1>q. QED
  BY <1>1, <1>2, <1>3, <1>4 DEF Results

LEMMA StartKeeps == ASSUME Inv, Start PROVE Flags' /\ Values' /\ Control'
<1> USE DEF Inv, Flags, Values, Control, CallerFits, TickKnows, QuietPcs, StartedFits,
   WsStopped, WifiStopped, SearchFits, Fresh, wifiVars, driver, manager, bleVars, mode, resume,
   lowMem, tick, search, wsVars, bounds, ghosts
<1>1. CASE PrepareSame
  BY <1>1, SMT DEF PrepareSame
<1>2. CASE PrepareNew
  <2>1. started' \in BOOLEAN
    BY <1>2, Zenon DEF PrepareNew
  <2>q. QED
    BY <1>2, <2>1, SMT DEF PrepareNew
<1>3. CASE PrepareFails
  <2>1. {retryDue', stackReady', started'} \subseteq BOOLEAN
    BY <1>3, Zenon DEF PrepareFails, GiveUp, RetryLater
  <2>q. QED
    BY <1>3, <2>1, Names, SMT DEF PrepareFails, GiveUp, RetryLater, AttemptOver
<1>11. CASE InitFails
  <2>1. {retryDue', client', stackReady', started'} \subseteq BOOLEAN
    BY <1>11, Zenon DEF InitFails, GiveUp, RetryLater
  <2>q. QED
    BY <1>11, <2>1, MishapTyped, Names, SMT DEF InitFails, GiveUp, RetryLater, AttemptOver
<1>4. CASE StartHeadroom
  BY <1>4, SMT DEF StartHeadroom
<1>5. CASE StartShort /\ StartDeferred
  <2>1. retryDue' \in BOOLEAN
    BY <1>5, Zenon DEF StartDeferred, RetryLater
  <2>q. QED
    BY <1>5, <2>1, MishapTyped, Names, SMT DEF StartShort, StartDeferred, RetryLater,
       AfterAttempt, AttemptOver
<1>6. CASE StartShort /\ StartRecovery
  <2>1. {advPaused', runtime', current', client', stackReady', started'} \subseteq BOOLEAN
    BY <1>6, Zenon DEF StartRecovery, EnterRecovery, CancelDiscovery, Deinit
  <2>q. QED
    BY <1>6, <2>1, MishapTyped, PastFits, Names, SMT DEF StartShort, StartRecovery,
       EnterRecovery, CancelDiscovery, Deinit
<1>7. CASE StartFails
  <2>1. {retryDue', started'} \subseteq BOOLEAN
    BY <1>7, Zenon DEF StartFails, GiveUp, StopWs, RetryLater
  <2>q. QED
    BY <1>7, <2>1, MishapTyped, Names, SMT DEF StartFails, NoMishap, StopWs, GiveUp,
       RetryLater, AttemptOver
<1>8. CASE StartClient
  BY <1>8, SMT DEF StartClient
<1>9. CASE StartDone
  <2>1. {retryDue', attempted', resuming', recovery', advPaused'} \subseteq BOOLEAN
    BY <1>9, Zenon DEF StartDone, StartSucceeded, ResetLowMemory
  <2>q. QED
    BY <1>9, <2>1, SMT DEF StartDone, StartSucceeded, ResetLowMemory, AfterAttempt, AttemptOver
<1>10. CASE StartAgain
  <2>1. {retryDue', attempted', resuming', recovery', advPaused'} \subseteq BOOLEAN
    BY <1>10, Zenon DEF StartAgain, StartSucceeded, ResetLowMemory
  <2>q. QED
    BY <1>10, <2>1, SMT DEF StartAgain, StartSucceeded, ResetLowMemory, AfterAttempt,
       AttemptOver
<1>q. QED
  BY <1>1, <1>2, <1>3, <1>4, <1>5, <1>6, <1>7, <1>8, <1>9, <1>10, <1>11 DEF Start, StartShort

LEMMA EdgesKeeps == ASSUME Inv, Edges PROVE Flags' /\ Values' /\ Control'
<1> USE DEF Inv, Flags, Values, Control, CallerFits, TickKnows, QuietPcs, StartedFits,
   WsStopped, WifiStopped, SearchFits, Fresh, wifiVars, driver, manager, bleVars, mode, resume,
   lowMem, tick, search, wsVars, bounds, ghosts
<1>1. CASE TickSuspend
  <2>1. /\ {attempted', resuming', recovery', advPaused', tickBle', current', old'} \subseteq BOOLEAN
        /\ (old' <=> old \/ searcher = "busy")
    BY <1>1, Zenon DEF TickSuspend, SuspendState, ResetResume, ResetLowMemory, CancelDiscovery
  <2>q. QED
    BY <1>1, <2>1, PastFits, Names, SMT DEF TickSuspend, SuspendState, ResetResume,
       ResetLowMemory, CancelDiscovery
<1>2. CASE TickStopWs
  <2>1. started' \in BOOLEAN
    BY <1>2, Zenon DEF TickStopWs, StopWs
  <2>q. QED
    BY <1>2, <2>1, SMT DEF TickStopWs, StopWs
<1>3. CASE TickStopWifi
  <2>1. {connectReq', inProgress', wifiUp'} \subseteq BOOLEAN
    BY <1>3, Zenon DEF TickStopWifi, SuspendForBle
  <2>q. QED
    BY <1>3, <2>1, SMT DEF TickStopWifi, SuspendForBle, Disconnect
<1>4. CASE TickSuspended
  BY <1>4, SMT DEF TickSuspended, SuspendDone
<1>5. CASE TickBleGone
  <2>1. {lastBle', attempted', resuming'} \subseteq BOOLEAN
    BY <1>5, Zenon DEF TickBleGone, BleGone, ResetResume
  <2>q. QED
    BY <1>5, <2>1, SMT DEF TickBleGone, BleGone, ResetResume
<1>6. CASE TickBleActive
  <2>1. tickBle' \in BOOLEAN
    BY <1>6, Zenon DEF TickBleActive
  <2>q. QED
    BY <1>6, <2>1, SMT DEF TickBleActive
<1>7. CASE TickBleIdle
  BY <1>7, SMT DEF TickBleIdle
<1>8. CASE TickNoCredentials
  <2>1. {attempted', resuming', recovery', advPaused', started'} \subseteq BOOLEAN
    BY <1>8, Zenon DEF TickNoCredentials, ResetResume, ResetLowMemory, StopWs
  <2>q. QED
    BY <1>8, <2>1, SMT DEF TickNoCredentials, ResetResume, ResetLowMemory, StopWs
<1>9. CASE TickWifiDown
  <2>1. {attempted', resuming', started'} \subseteq BOOLEAN
    BY <1>9, Zenon DEF TickWifiDown, ResetResume, StopWs
  <2>q. QED
    BY <1>9, <2>1, SMT DEF TickWifiDown, ResetResume, StopWs
<1>10. CASE TickWifiUp
  <2>1. {recovery', advPaused'} \subseteq BOOLEAN
    BY <1>10, Zenon DEF TickWifiUp, ResetLowMemory
  <2>q. QED
    BY <1>10, <2>1, SMT DEF TickWifiUp, ResetLowMemory
<1>q. QED
  BY <1>1, <1>2, <1>3, <1>4, <1>5, <1>6, <1>7, <1>8, <1>9, <1>10 DEF Edges

LEMMA ResumeKeeps == ASSUME Inv, Resume PROVE Flags' /\ Values' /\ Control'
<1> USE DEF Inv, Flags, Values, Control, CallerFits, TickKnows, QuietPcs, StartedFits,
   WsStopped, WifiStopped, SearchFits, Fresh, wifiVars, driver, manager, bleVars, mode, resume,
   lowMem, tick, search, wsVars, bounds, ghosts
<1>1. CASE ResumeNoCredentials
  <2>1. {recovery', advPaused', started'} \subseteq BOOLEAN
    BY <1>1, Zenon DEF ResumeNoCredentials, ResetLowMemory, StopWs
  <2>q. QED
    BY <1>1, <2>1, SMT DEF ResumeNoCredentials, ResetLowMemory, StopWs
<1>2. CASE ResumeNotNeeded
  <2>1. {recovery', advPaused'} \subseteq BOOLEAN
    BY <1>2, Zenon DEF ResumeNotNeeded, ResetLowMemory
  <2>q. QED
    BY <1>2, <2>1, SMT DEF ResumeNotNeeded, ResetLowMemory
<1>3. CASE ResumeRequested
  BY <1>3, SMT DEF ResumeRequested, WifiState
<1>4. CASE ResumeDeferred
  <2>1. retryDue' \in BOOLEAN
    BY <1>4, Zenon DEF ResumeDeferred, RetryLater
  <2>q. QED
    BY <1>4, <2>1, MishapTyped, Names, SMT DEF ResumeDeferred, Resumes, RetryLater
<1>5. CASE ResumeRecovery
  <2>1. {advPaused', runtime', current', client', stackReady', started'} \subseteq BOOLEAN
    BY <1>5, Zenon DEF ResumeRecovery, EnterRecovery, CancelDiscovery, Deinit
  <2>q. QED
    BY <1>5, <2>1, MishapTyped, PastFits, Names, SMT DEF ResumeRecovery, Resumes, EnterRecovery,
       CancelDiscovery, Deinit
<1>6. CASE ResumeWifi
  <2>1. startReq' \in BOOLEAN
    BY <1>6, Zenon DEF ResumeWifi, ResumeBegin, StartIfNeeded
  <2>q. QED
    BY <1>6, <2>1, SMT DEF ResumeWifi, Resumes, ResumeBegin, StartIfNeeded
<1>7. CASE ResumeJoins
  <2>1. inProgress' \in BOOLEAN
    BY <1>7, Zenon DEF ResumeJoins, RequestConnect
  <2>q. QED
    BY <1>7, <2>1, SMT DEF ResumeJoins, RequestConnect, Connects, WifiState
<1>8. CASE ResumeFails
  <2>1. {inProgress', retryDue'} \subseteq BOOLEAN
    BY <1>8, Zenon DEF ResumeFails, RequestConnectFails, RetryLater
  <2>q. QED
    BY <1>8, <2>1, MishapTyped, Names, SMT DEF ResumeFails, RequestConnectFails, Connects,
       NoMishap, RetryLater
<1>9. CASE ResumeNotStarted
  <2>1. {connectReq', startReq', retryDue'} \subseteq BOOLEAN
    BY <1>9, Zenon DEF ResumeNotStarted, ResumeBeginFails, StartIfNeededFails, RetryLater
  <2>q. QED
    BY <1>9, <2>1, MishapTyped, Names, SMT DEF ResumeNotStarted, Resumes, ResumeBeginFails,
       StartIfNeededFails, RetryLater
<1>q. QED
  BY <1>1, <1>2, <1>3, <1>4, <1>5, <1>6, <1>7, <1>8, <1>9 DEF Resume

LEMMA CloudKeeps == ASSUME Inv, Cloud PROVE Flags' /\ Values' /\ Control'
<1> USE DEF Inv, Flags, Values, Control, CallerFits, TickKnows, QuietPcs, StartedFits,
   WsStopped, WifiStopped, SearchFits, Fresh, wifiVars, driver, manager, bleVars, mode, resume,
   lowMem, tick, search, wsVars, bounds, ghosts
<1>1. CASE CloudReady
  <2>1. {attempted', resuming', runtime'} \subseteq BOOLEAN
    BY <1>1, Zenon DEF CloudReady
  <2>q. QED
    BY <1>1, <2>1, MishapTyped, SMT DEF CloudReady, Ready, NoMishap
<1>2. CASE CloudResumeFailed
  <2>1. resuming' \in BOOLEAN
    BY <1>2, Zenon DEF CloudResumeFailed
  <2>q. QED
    BY <1>2, <2>1, SMT DEF CloudResumeFailed, Ready, Connected
<1>3. CASE CloudResumeTimeout
  <2>1. {resuming', started'} \subseteq BOOLEAN
    BY <1>3, Zenon DEF CloudResumeTimeout, StopWs
  <2>q. QED
    BY <1>3, <2>1, SMT DEF CloudResumeTimeout, Ready, Connected, StopWs
<1>4. CASE CloudResumeWaits
  BY <1>4, SMT DEF CloudResumeWaits, Ready, Connected
<1>5. CASE CloudNotResuming
  BY <1>5, SMT DEF CloudNotResuming, Ready
<1>6. CASE CloudWaits
  BY <1>6, SMT DEF CloudWaits, Connected
<1>7. CASE CloudResume
  BY <1>7, SMT DEF CloudResume, Idle, Connected
<1>8. CASE CloudSearch
  BY <1>8, SMT DEF CloudSearch, Idle, Connected
<1>9. CASE LaunchDiscovery
  <2>1. {searching', current', old'} \subseteq BOOLEAN
    BY <1>9, Zenon DEF LaunchDiscovery
  <2>q. QED
    BY <1>9, <2>1, PastFits, Names, SMT DEF LaunchDiscovery
<1>10. CASE LaunchFails
  <2>1. retryDue' \in BOOLEAN
    BY <1>10, Zenon DEF LaunchFails, RetryLater
  <2>q. QED
    BY <1>10, <2>1, MishapTyped, Names, SMT DEF LaunchFails, RetryLater
<1>q. QED
  BY <1>1, <1>2, <1>3, <1>4, <1>5, <1>6, <1>7, <1>8, <1>9, <1>10 DEF Cloud

LEMMA SearcherKeeps == ASSUME Inv, Searcher PROVE Flags' /\ Values' /\ Control'
<1> USE DEF Inv, Flags, Values, Control, CallerFits, TickKnows, QuietPcs, StartedFits,
   WsStopped, WifiStopped, SearchFits, Fresh, wifiVars, driver, manager, bleVars, mode, resume,
   lowMem, tick, search, wsVars, bounds, ghosts
<1>1. CASE SearcherPosts
  <2>1. current' \in BOOLEAN
    BY <1>1, Zenon DEF SearcherPosts
  <2>q. QED
    BY <1>1, <2>1, MishapTyped, Names, SMT DEF SearcherPosts, NoMishap
<1>2. CASE SearcherEnds
  <2>1. searching' \in BOOLEAN
    BY <1>2, Zenon DEF SearcherEnds
  <2>q. QED
    BY <1>2, <2>1, SMT DEF SearcherEnds
<1>q. QED
  BY <1>1, <1>2 DEF Searcher

LEMMA WifiEventsKeeps == ASSUME Inv, WifiEvents PROVE Flags' /\ Values' /\ Control'
<1> USE DEF Inv, Flags, Values, Control, CallerFits, TickKnows, QuietPcs, StartedFits,
   WsStopped, WifiStopped, SearchFits, Fresh, wifiVars, driver, manager, bleVars, mode, resume,
   lowMem, tick, search, wsVars, bounds, ghosts
<1>1. CASE OnStaStart
  <2>1. {staOn', startReq'} \subseteq BOOLEAN
    BY <1>1, Zenon DEF OnStaStart, EventStaStart
  <2>q. QED
    BY <1>1, <2>1, SMT DEF OnStaStart, EventStaStart, Event, NoMishap, OthersUnchanged
<1>2. CASE OnStaDisconnected
  <2>1. {inProgress', wifiUp', recovery', advPaused'} \subseteq BOOLEAN
    BY <1>2, Zenon DEF OnStaDisconnected, EventStaDisconnected, ResetLowMemory
  <2>q. QED
    BY <1>2, <2>1, SMT DEF OnStaDisconnected, EventStaDisconnected, Event, ResetLowMemory,
       NoMishap, OthersUnchanged
<1>3. CASE OnGotIp
  <2>1. {connectReq', inProgress', recovery', advPaused'} \subseteq BOOLEAN
    BY <1>3, Zenon DEF OnGotIp, EventGotIp, ResetLowMemory
  <2>q. QED
    BY <1>3, <2>1, SMT DEF OnGotIp, EventGotIp, Event, ResetLowMemory, NoMishap, OthersUnchanged
<1>4. CASE OnJoin
  <2>1. inProgress' \in BOOLEAN
    BY <1>4, Zenon DEF OnJoin, EventJoin, RequestConnect
  <2>q. QED
    BY <1>4, <2>1, SMT DEF OnJoin, EventJoin, RequestConnect, Connects, NoMishap,
       OthersUnchanged
<1>5. CASE OnJoinFails
  <2>1. inProgress' \in BOOLEAN
    BY <1>5, Zenon DEF OnJoinFails, EventJoinFails, RequestConnectFails
  <2>q. QED
    BY <1>5, <2>1, MishapTyped, Names, SMT DEF OnJoinFails, EventJoinFails, RequestConnectFails,
       Connects, NoMishap, OthersUnchanged
<1>q. QED
  BY <1>1, <1>2, <1>3, <1>4, <1>5 DEF WifiEvents

LEMMA OtherStepsKeeps == ASSUME Inv, OtherSteps PROVE Flags' /\ Values' /\ Control'
<1> USE DEF Inv, Flags, Values, Control, CallerFits, TickKnows, QuietPcs, StartedFits,
   WsStopped, WifiStopped, SearchFits, Fresh, wifiVars, driver, manager, bleVars, mode, resume,
   lowMem, tick, search, wsVars, bounds, ghosts
<1>1. CASE TickBegin
  <2>1. tickBle' \in BOOLEAN
    BY <1>1, Zenon DEF TickBegin
  <2>q. QED
    BY <1>1, <2>1, SMT DEF TickBegin
<1>2. CASE RetryExpires
  BY <1>2, SMT DEF RetryExpires
<1>3. CASE WsOpen
  BY <1>3, SMT DEF WsOpen
<1>4. CASE WsReady
  BY <1>4, SMT DEF WsReady
<1>5. CASE WsLost
  <2>1. started' \in BOOLEAN
    BY <1>5, Zenon DEF WsLost
  <2>q. QED
    BY <1>5, <2>1, MishapTyped, SMT DEF WsLost, NoMishap
<1>6. CASE ServerMoves
  BY <1>6, MishapTyped, SMT DEF ServerMoves
<1>q. QED
  BY <1>1, <1>2, <1>3, <1>4, <1>5, <1>6 DEF OtherSteps

LEMMA DriverStepsKeeps == ASSUME Inv, DriverSteps PROVE Flags' /\ Values' /\ Control'
<1> USE DEF Inv, Flags, Values, Control, CallerFits, TickKnows, QuietPcs, StartedFits,
   WsStopped, WifiStopped, SearchFits, Fresh, wifiVars, driver, manager, bleVars, mode, resume,
   lowMem, tick, search, wsVars, bounds, ghosts
<1>1. CASE WifiStarted
  BY <1>1, SMT DEF WifiStarted, DriverStarted, NoMishap, OthersUnchanged
<1>2. CASE WifiJoined
  BY <1>2, SMT DEF WifiJoined, DriverJoined, NoMishap, OthersUnchanged
<1>3. CASE WifiLost
  BY <1>3, MishapTyped, SMT DEF WifiLost, DriverLost, OthersUnchanged
<1>q. QED
  BY <1>1, <1>2, <1>3 DEF DriverSteps

-----------------------------------------------------------------------------
(* The queue of the driver's events *)

\* Behind a loss no address remains that it does not take back, ...
LEMMA LostAppended ==
  ASSUME NEW S, NEW q \in Seq(S)
  PROVE AddressesLost(Append(q, "lost")) /\ LossPosted(Append(q, "lost"))
<1> DEFINE r == Append(q, "lost")
<1>1. /\ Len(r) = Len(q) + 1 /\ DOMAIN r = 1 .. Len(q) + 1
      /\ r[Len(q) + 1] = "lost" /\ \A i \in 1 .. Len(q) : r[i] = q[i]
  OBVIOUS
<1>2. Len(q) \in Nat
  OBVIOUS
<1> HIDE DEF r
<1>3. LossPosted(r)
  BY <1>1, <1>2 DEF LossPosted
<1>4. AddressesLost(r)
  BY <1>1, <1>2 DEF AddressesLost
<1>q. QED
  BY <1>3, <1>4 DEF r

\* ... the start of the station changes nothing of this, ...
LEMMA StartAppended ==
  ASSUME NEW S, NEW q \in Seq(S)
  PROVE /\ AddressesLost(q) => AddressesLost(Append(q, "start"))
        /\ LossPosted(q) => LossPosted(Append(q, "start"))
<1> DEFINE r == Append(q, "start")
<1>1. /\ DOMAIN q = 1 .. Len(q) /\ DOMAIN r = 1 .. Len(q) + 1
      /\ r[Len(q) + 1] = "start" /\ \A i \in 1 .. Len(q) : r[i] = q[i]
  OBVIOUS
<1>2. Len(q) \in Nat
  OBVIOUS
<1> HIDE DEF r
<1>3. LossPosted(q) => LossPosted(r)
  BY <1>1, <1>2 DEF LossPosted
<1>4. AddressesLost(q) => AddressesLost(r)
  BY <1>1, <1>2 DEF AddressesLost
<1>q. QED
  BY <1>3, <1>4 DEF r

\* ... and handling an event keeps the losses behind it.
LEMMA EventTaken ==
  ASSUME NEW S, NEW q \in Seq(S), q # <<>>
  PROVE /\ AddressesLost(q) => AddressesLost(Tail(q))
        /\ Head(q) # "lost" /\ LossPosted(q) => LossPosted(Tail(q))
        /\ Head(q) = "ip" /\ AddressesLost(q) => LossPosted(Tail(q))
<1> DEFINE r == Tail(q)
<1>1. /\ DOMAIN q = 1 .. Len(q) /\ DOMAIN r = 1 .. Len(q) - 1 /\ Head(q) = q[1]
      /\ \A i \in 1 .. Len(q) - 1 : r[i] = q[i + 1]
  OBVIOUS
<1>2. Len(q) \in Nat /\ Len(q) > 0
  OBVIOUS
<1> HIDE DEF r
<1>3. AddressesLost(q) => AddressesLost(r)
  <2> SUFFICES ASSUME AddressesLost(q), NEW i \in DOMAIN r, r[i] = "ip"
               PROVE \E j \in DOMAIN r : i < j /\ r[j] = "lost"
    BY DEF AddressesLost
  <2>1. i + 1 \in DOMAIN q /\ q[i + 1] = "ip"
    BY <1>1, <1>2
  <2>2. PICK k \in DOMAIN q : i + 1 < k /\ q[k] = "lost"
    BY <2>1 DEF AddressesLost
  <2>3. k - 1 \in DOMAIN r /\ i < k - 1 /\ r[k - 1] = q[(k - 1) + 1] /\ (k - 1) + 1 = k
    BY <1>1, <1>2, <2>2
  <2>q. QED
    BY <2>2, <2>3
<1>4. ASSUME NEW k \in DOMAIN q, k > 1, q[k] = "lost" PROVE LossPosted(r)
  <2>1. k - 1 \in DOMAIN r /\ r[k - 1] = q[(k - 1) + 1] /\ (k - 1) + 1 = k
    BY <1>1, <1>2, <1>4
  <2>q. QED
    BY <1>4, <2>1 DEF LossPosted
<1>5. Head(q) # "lost" /\ LossPosted(q) => LossPosted(r)
  BY <1>1, <1>2, <1>4 DEF LossPosted
<1>6. Head(q) = "ip" /\ AddressesLost(q) => LossPosted(r)
  BY <1>1, <1>2, <1>4 DEF AddressesLost
<1>q. QED
  BY <1>3, <1>5, <1>6 DEF r

-----------------------------------------------------------------------------
(* What a step can do to the link *)

\* Nothing, or at most that a connection is asked for; or esp_wifi_disconnect.
LinkStays == posted' = posted /\ (link' # "up" => link # "up") /\ (wifiUp' => wifiUp)
LinkCut == Disconnect /\ (wifiUp' => wifiUp)

LEMMA LinkSteps ==
  ASSUME Values, LinkPosted, LinkStays \/ LinkCut PROVE LinkPosted'
<1>1. CASE LinkStays
  BY <1>1 DEF LinkStays, LinkPosted
<1>2. CASE LinkCut /\ link = "down"
  BY <1>2 DEF LinkCut, Disconnect, LinkPosted
<1>3. CASE LinkCut /\ link # "down"
  <2>1. posted' = Append(posted, "lost")
    BY <1>3 DEF LinkCut, Disconnect
  <2>2. AddressesLost(posted') /\ LossPosted(posted')
    BY <2>1, LostAppended DEF Values
  <2>q. QED
    BY <2>2 DEF LinkPosted
<1>q. QED
  BY <1>1, <1>2, <1>3

LEMMA CoordinatorPosted ==
  ASSUME Values, LinkPosted, BleCallback \/ Phone \/ Results \/ Start \/ Edges \/ Resume
     \/ Cloud \/ Searcher \/ OtherSteps
  PROVE LinkPosted'
<1> USE DEF wifiVars, driver, manager
<1>1. CASE BleCallback
  <2>1. LinkStays \/ LinkCut
    BY <1>1, SMT DEF BleCallback, BleSuspend, BleStopWs, BleStopWifi, BleActive, BleResume,
       SuspendForBle, LinkStays, LinkCut, Disconnect
  <2>q. QED
    BY <2>1, LinkSteps
<1>2. CASE Phone
  <2>1. LinkStays
    BY <1>2, SMT DEF Phone, BleConnect, BleDisconnect, BleSetCredentials, BleSetCredentialsFails,
       BleClearCredentials, StoreCredentials, StoreCredentialsFails, ClearCredentials, LinkStays
  <2>q. QED
    BY <2>1, LinkSteps
<1>3. CASE Results \/ Start
  <2>1. LinkStays
    BY <1>3, SMT DEF Results, Start, TickNoResult, TickIgnoreResult, TickSearchFailed,
       TickFound, PrepareSame, PrepareNew, PrepareFails, InitFails, StartHeadroom, StartShort,
       StartDeferred, StartRecovery, StartFails, StartClient, StartDone, StartAgain, StartSucceeded, LinkStays
  <2>q. QED
    BY <2>1, LinkSteps
<1>4. CASE Edges
  <2>1. LinkStays \/ LinkCut
    BY <1>4, SMT DEF Edges, TickSuspend, TickStopWs, TickStopWifi, TickSuspended, TickBleGone,
       TickBleActive, TickBleIdle, TickNoCredentials, TickWifiDown, TickWifiUp, SuspendForBle,
       LinkStays, LinkCut, Disconnect
  <2>q. QED
    BY <2>1, LinkSteps
<1>5. CASE Resume
  <2>1. LinkStays
    BY <1>5, SMT DEF Resume, ResumeNoCredentials, ResumeNotNeeded, ResumeRequested,
       ResumeDeferred, ResumeRecovery, ResumeWifi, ResumeNotStarted, ResumeBeginFails,
       ResumeJoins, ResumeFails, RequestConnect,
       RequestConnectFails, LinkStays
  <2>q. QED
    BY <2>1, LinkSteps
<1>6. CASE Cloud \/ Searcher \/ OtherSteps
  <2>1. LinkStays
    BY <1>6, SMT DEF Cloud, CloudReady, CloudResumeFailed, CloudResumeTimeout, CloudResumeWaits,
       CloudNotResuming, CloudWaits, CloudResume, CloudSearch, LaunchDiscovery, LaunchFails,
       Searcher, SearcherPosts, SearcherEnds, OtherSteps, TickBegin, RetryExpires, WsOpen,
       WsReady, WsLost, ServerMoves, LinkStays
  <2>q. QED
    BY <2>1, LinkSteps
<1>q. QED
  BY <1>1, <1>2, <1>3, <1>4, <1>5, <1>6

LEMMA DriverPosted ==
  ASSUME Values, LinkPosted, DriverSteps PROVE LinkPosted'
<1> USE DEF manager
<1>1. CASE WifiStarted
  <2>1. posted' = Append(posted, "start") /\ link' = link /\ wifiUp' = wifiUp
    BY <1>1 DEF WifiStarted, DriverStarted
  <2>q. QED
    BY <2>1, StartAppended DEF LinkPosted, Values
<1>2. CASE WifiJoined
  BY <1>2 DEF WifiJoined, DriverJoined, LinkPosted
<1>3. CASE WifiLost
  <2>1. LinkCut
    BY <1>3 DEF WifiLost, DriverLost, LinkCut, Disconnect
  <2>q. QED
    BY <2>1, LinkSteps
<1>q. QED
  BY <1>1, <1>2, <1>3 DEF DriverSteps

LEMMA EventPosted ==
  ASSUME Values, LinkPosted, WifiEvents PROVE LinkPosted'
<1>1. CASE OnStaStart \/ OnStaDisconnected \/ OnGotIp
  <2>1. /\ posted # <<>> /\ posted' = Tail(posted) /\ link' = link
        /\ \/ Head(posted) # "lost" /\ (wifiUp' => wifiUp)
           \/ ~wifiUp'
           \/ Head(posted) = "ip"
    BY <1>1 DEF OnStaStart, OnStaDisconnected, OnGotIp, EventStaStart, EventStaDisconnected,
       EventGotIp, Event
  <2>2. AddressesLost(posted) => AddressesLost(posted')
    BY <2>1, EventTaken DEF Values
  <2>3. Head(posted) # "lost" /\ LossPosted(posted) => LossPosted(posted')
    BY <2>1, EventTaken DEF Values
  <2>4. Head(posted) = "ip" /\ AddressesLost(posted) => LossPosted(posted')
    BY <2>1, EventTaken DEF Values
  <2>q. QED
    BY <2>1, <2>2, <2>3, <2>4 DEF LinkPosted
<1>2. CASE OnJoin \/ OnJoinFails
  <2>1. LinkStays
    BY <1>2 DEF OnJoin, OnJoinFails, EventJoin, EventJoinFails, RequestConnect,
       RequestConnectFails, LinkStays
  <2>q. QED
    BY <2>1, LinkSteps
<1>q. QED
  BY <1>1, <1>2 DEF WifiEvents

-----------------------------------------------------------------------------
(* The invariant *)

LEMMA InitInv == ASSUME Init PROVE Inv
<1> USE Names DEF Init, WifiInit
<1>1. Flags
  BY Zenon DEF Flags
<1>2. Values
  <2>1. PICK b \in Bounds : /\ server \in b.servers
                            /\ mishaps = [kinds |-> b.kinds, left |-> b.mishaps]
                            /\ sessions = b.sessions /\ edits = b.edits
    OBVIOUS
  <2>2. b \in [servers : SUBSET Urls, kinds : SUBSET Kinds, mishaps : Nat, sessions : Nat,
     edits : Nat]
    BY TransportBounds
  <2>q. QED
    BY <2>1, <2>2 DEF Values
<1>3. Control
  BY DEF Control, CallerFits, TickKnows, StartedFits, WsStopped, WifiStopped, SearchFits, Fresh
<1>4. LinkPosted
  BY DEF LinkPosted, AddressesLost
<1>q. QED
  BY <1>1, <1>2, <1>3, <1>4 DEF Inv

LEMMA Unchanged == ASSUME Inv, UNCHANGED vars PROVE Inv'
<1> USE DEF vars, wifiVars, driver, manager, bleVars, mode, resume, lowMem, tick, search,
   wsVars, bounds, ghosts
<1>1. Flags' /\ Values' 
  BY DEF Inv, Flags, Values
<1>2. Control'
  BY DEF Inv, Control, CallerFits, TickKnows, QuietPcs, StartedFits, WsStopped, WifiStopped,
     SearchFits, Fresh
<1>3. LinkPosted'
  BY DEF Inv, LinkPosted
<1>q. QED
  BY <1>1, <1>2, <1>3 DEF Inv

(***************************************************************************)
(* Types, the knowledge of the tasks and the queue of the Wi-Fi events hold *)
(* together in every behaviour: the strengthening of what is owed to BLE.  *)
(***************************************************************************)
THEOREM Invariant == Spec => []Inv
<1>1. Init => Inv
  BY InitInv
<1>2. Inv /\ [Next]_vars => Inv'
  <2> SUFFICES ASSUME Inv, [Next]_vars PROVE Inv'
    OBVIOUS
  <2>1. CASE UNCHANGED vars
    BY <2>1, Unchanged
  <2>2. CASE BleCallback \/ Phone \/ Results \/ Start \/ Edges \/ Resume \/ Cloud
     \/ Searcher \/ OtherSteps
    <3>1. Flags' /\ Values' /\ Control'
      BY <2>2, BleCallbackKeeps, PhoneKeeps, ResultsKeeps, StartKeeps, EdgesKeeps, ResumeKeeps,
         CloudKeeps, SearcherKeeps, OtherStepsKeeps
    <3>2. LinkPosted'
      BY <2>2, CoordinatorPosted DEF Inv
    <3>q. QED
      BY <3>1, <3>2 DEF Inv
  <2>3. CASE DriverSteps \/ WifiEvents
    <3>1. Flags' /\ Values' /\ Control'
      BY <2>3, DriverStepsKeeps, WifiEventsKeeps
    <3>2. LinkPosted'
      BY <2>3, DriverPosted, EventPosted DEF Inv
    <3>q. QED
      BY <3>1, <3>2 DEF Inv
  <2>q. QED
    BY <2>1, <2>2, <2>3 DEF Next, Tick, OtherSteps, DriverSteps
<1>q. QED
  BY <1>1, <1>2, PTL DEF Spec

(***************************************************************************)
(* Every variable keeps its type.                                          *)
(***************************************************************************)
THEOREM TypeCorrect == Spec => []TypeOK
<1>1. Inv => TypeOK
  BY DEF Inv, Flags, Values, TypeOK, WifiTypes, BleTypes, CoordinatorTypes, TickTypes, LinkTypes
<1>q. QED
  BY <1>1, Invariant, PTL

(***************************************************************************)
(* While a phone is connected, and its callback is over, no WebSocket      *)
(* client is started and no Wi-Fi connection is requested, under way or up,*)
(* unless the session began in the middle of a tick or of a Wi-Fi event;   *)
(* and what a search that was running then finds is never connected to.    *)
(***************************************************************************)
THEOREM PhoneFirst == Spec => []BleGoesFirst
<1>1. Inv => BleGoesFirst
  <2> SUFFICES ASSUME Inv PROVE BleGoesFirst
    OBVIOUS
  <2>1. link = "down" /\ posted = <<>> => ~wifiUp
    BY DEF Inv, LinkPosted, LossPosted
  <2>2. BleQuiet
    BY <2>1 DEF Inv, Control, WsStopped, WifiStopped, BleQuiet, BleExclusive
  <2>3. StaleSearchIgnored
    BY DEF Inv, Control, SearchFits, StaleSearchIgnored
  <2>q. QED
    BY <2>2, <2>3 DEF BleGoesFirst
<1>q. QED
  BY <1>1, Invariant, PTL

-----------------------------------------------------------------------------
(* How often the start of the WebSocket client is put off in a row *)

\* A search that may still lead to an attempt
Awaited == Fresh \/ (searcher = "busy" /\ current)

Attempt == {"prepare", "headroom", "recovered", "start", "started"}

\* Outside a recovery an attempt at a remembered endpoint comes after the count was forgotten, in
\* the same tick, and one at an endpoint that was found uses up the search, of which there is one.
Counted ==
    /\ pc \in Attempt => via # None
    /\ pc \in Attempt /\ via = "found" => ~Awaited
    /\ ~recovery =>
         /\ wsDefers <= 2 /\ (Awaited => wsDefers <= 1)
         /\ pc \in Attempt /\ via = "found" => wsDefers <= 1
         /\ pc \in Attempt /\ via = "cached" => wsDefers = 0
         /\ pc \in {"cloud", "link", "launch"} => wsDefers = 0

LEMMA CountedBle ==
  ASSUME Inv, Counted, BleCallback \/ Phone
  PROVE Counted'
<1> USE DEF Counted, Awaited, Fresh, Attempt, lowMem, tick, search
<1>1. CASE BleSuspend
  BY <1>1, PastFits, Names, SMT DEF BleSuspend, SuspendState, ResetLowMemory, CancelDiscovery, Inv,
     Values
<1>2. CASE BleStopWs \/ BleStopWifi \/ BleActive \/ BleResume
  BY <1>2, SMT DEF BleStopWs, BleStopWifi, BleActive, BleResume
<1>3. CASE Phone
  BY <1>3, SMT DEF Phone, BleConnect, BleDisconnect, BleSetCredentials, BleSetCredentialsFails,
     BleClearCredentials, ResetLowMemory, Inv, Values
<1>q. QED
  BY <1>1, <1>2, <1>3 DEF BleCallback

LEMMA CountedResults ==
  ASSUME Inv, Counted, Results \/ Edges
  PROVE Counted'
<1> USE Names DEF Counted, Awaited, Fresh, Attempt, lowMem, tick, search
<1>1. CASE Results
  BY <1>1, SMT DEF None, Results, TickNoResult, TickIgnoreResult, TickSearchFailed, TickFound, Inv, Control,
     SearchFits
<1>2. CASE TickSuspend
  BY <1>2, PastFits, SMT DEF TickSuspend, SuspendState, ResetLowMemory, CancelDiscovery
<1>3. CASE TickStopWs \/ TickStopWifi \/ TickSuspended \/ TickBleGone \/ TickBleActive \/ TickBleIdle
           \/ TickWifiDown
  BY <1>3, SMT DEF TickStopWs, TickStopWifi, TickSuspended, TickBleGone, TickBleActive, TickBleIdle,
     TickWifiDown
<1>4. CASE TickNoCredentials \/ TickWifiUp
  BY <1>4, SMT DEF TickNoCredentials, TickWifiUp, ResetLowMemory
<1>q. QED
  BY <1>1, <1>2, <1>3, <1>4 DEF Edges

LEMMA CountedStart ==
  ASSUME Inv, Counted, Start
  PROVE Counted'
<1> USE Names DEF Counted, Awaited, Fresh, Attempt, lowMem, tick, search, Inv, Values
<1>1. CASE PrepareSame \/ PrepareNew \/ StartHeadroom \/ StartClient
  BY <1>1, SMT DEF PrepareSame, PrepareNew, StartHeadroom, StartClient
<1>2. CASE PrepareFails \/ InitFails \/ StartFails
  BY <1>2, SMT DEF PrepareFails, InitFails, StartFails, GiveUp, AttemptOver
<1>3. CASE StartShort /\ StartDeferred
  BY <1>3, SMT DEF StartShort, StartDeferred, AfterAttempt, AttemptOver
<1>4. CASE StartShort /\ StartRecovery
  <2>1. pc \in {"headroom", "recovered"} /\ recovery' /\ UNCHANGED via
    BY <1>4, Zenon DEF StartShort, StartRecovery, EnterRecovery
  <2>2. result' \in {result, None, Stale} /\ UNCHANGED searcher /\ (current' => current)
    BY <1>4, PastFits, Zenon DEF StartRecovery, EnterRecovery, CancelDiscovery
  <2>q. QED
    BY <2>1, <2>2, SMT
<1>5. CASE StartDone \/ StartAgain
  BY <1>5, SMT DEF StartDone, StartAgain, StartSucceeded, ResetLowMemory, AfterAttempt, AttemptOver
<1>q. QED
  BY <1>1, <1>2, <1>3, <1>4, <1>5 DEF Start, StartShort

LEMMA CountedResume ==
  ASSUME Inv, Counted, Resume \/ Cloud
  PROVE Counted'
<1> USE Names DEF Counted, Awaited, Fresh, Attempt, lowMem, tick, search
<1>1. CASE ResumeNoCredentials \/ ResumeNotNeeded
  BY <1>1, SMT DEF ResumeNoCredentials, ResumeNotNeeded, ResetLowMemory
<1>2. CASE ResumeRecovery
  BY <1>2, PastFits, SMT DEF ResumeRecovery, EnterRecovery, CancelDiscovery
<1>3. CASE Resume /\ ~(ResumeNoCredentials \/ ResumeNotNeeded \/ ResumeRecovery)
  BY <1>3, SMT DEF Resume, ResumeRequested, ResumeDeferred, ResumeWifi, ResumeNotStarted, ResumeJoins,
     ResumeFails
<1>4. CASE LaunchDiscovery
  BY <1>4, PastFits, SMT DEF LaunchDiscovery
<1>5. CASE Cloud /\ ~LaunchDiscovery
  <2>1. CASE CloudResume
    <3>1. /\ pc = "link" /\ pc' = "prepare" /\ via' = "cached"
          /\ UNCHANGED <<recovery, wsDefers, searching, searcher, current, result>>
      BY <2>1, Zenon DEF CloudResume, Idle
    <3>2. via' # None
      BY <3>1, SMT DEF None
    <3>3. ~recovery' => wsDefers' = 0
      BY <3>1, Zenon
    <3>4. via' # "found" /\ (wsDefers' = 0 => wsDefers' <= 2 /\ wsDefers' <= 1)
      BY <3>1, SMT
    <3>q. QED
      BY <3>2, <3>3, <3>4, Zenon
  <2>2. CASE ~CloudResume
    BY <1>5, <2>2, SMT DEF Cloud, CloudReady, CloudResumeFailed, CloudResumeTimeout,
       CloudResumeWaits, CloudNotResuming, CloudWaits, CloudSearch, Idle, LaunchFails
  <2>q. QED
    BY <2>1, <2>2
<1>q. QED
  BY <1>1, <1>2, <1>3, <1>4, <1>5

LEMMA CountedOther ==
  ASSUME Inv, Counted, Searcher \/ OtherSteps \/ DriverSteps \/ WifiEvents \/ UNCHANGED vars
  PROVE Counted'
<1> USE Names DEF Counted, Awaited, Fresh, Attempt, lowMem, tick, search
<1>1. CASE Searcher
  BY <1>1, SMT DEF Searcher, SearcherPosts, SearcherEnds, Inv, Values
<1>2. CASE OtherSteps
  BY <1>2, SMT DEF OtherSteps, TickBegin, RetryExpires, WsOpen, WsReady, WsLost, ServerMoves
<1>3. CASE DriverSteps \/ WifiEvents
  BY <1>3, SMT DEF DriverSteps, WifiEvents, WifiStarted, WifiJoined, WifiLost, OnStaStart,
     OnStaDisconnected, OnGotIp, OnJoin, OnJoinFails, OthersUnchanged, ResetLowMemory
<1>4. CASE UNCHANGED vars
  BY <1>4 DEF vars
<1>q. QED
  BY <1>1, <1>2, <1>3, <1>4

(***************************************************************************)
(* With the limit of three that app_main.c sets, or a higher one, an       *)
(* attempt to start the WebSocket client that is put off for want of       *)
(* memory never begins a low-memory recovery, in whatever environment.     *)
(***************************************************************************)
THEOREM StartsCounted ==
  ASSUME WsStartDefers >= 3 PROVE Spec => []StartsNeverRecover
<1>1. Init => Counted
  BY Names DEF Init, Counted, Awaited, Fresh, Attempt
<1>2. Inv /\ Counted /\ [Next]_vars => Counted'
  BY CountedBle, CountedResults, CountedStart, CountedResume, CountedOther
     DEF Next, Tick, OtherSteps, DriverSteps
<1>3. Inv /\ Counted => StartsNeverRecover
  BY DefersAssumption, SMT DEF Inv, Values, Counted, Attempt, StartsNeverRecover
<1>q. QED
  BY <1>1, <1>2, <1>3, Invariant, PTL DEF Spec

=============================================================================

---------------------------- MODULE WifiManager ----------------------------
(***************************************************************************)
(* wifi_manager.c and the Wi-Fi driver under it.  The driver posts events  *)
(* to the queue of the system event task, which runs wifi_event_handler    *)
(* for each of them in turn; the coordinator and the BLE task call the     *)
(* functions of the manager in between.  An action leaves the variables of *)
(* its callers to the module that composes them.                           *)
(***************************************************************************)
EXTENDS Integers, Sequences

VARIABLES
    \* the driver: is the station started, its link, the events it has posted
    radio,      \* "off", "starting" or "on"
    link,       \* "down", "joining" or "up"
    posted,     \* a sequence of "start", "lost" and "ip"
    \* wifi_manager.c
    creds,      \* credentials in flash, of which s_credentials_present is a copy
    staOn,      \* s_wifi_started
    startReq,   \* s_wifi_start_requested
    connectReq, \* s_connect_requested
    inProgress, \* s_connection_in_progress
    wifiUp,     \* is_connected
    joiner      \* "retry" while the event handler is about to request a connection

driver   == <<radio, link, posted>>
manager  == <<creds, staOn, startReq, connectReq, inProgress, wifiUp, joiner>>
wifiVars == <<driver, manager>>

WifiInit ==
    /\ radio = "off" /\ link = "down" /\ posted = <<>>
    /\ creds \in BOOLEAN
    /\ staOn = FALSE /\ startReq = FALSE /\ connectReq = FALSE
    /\ inProgress = FALSE /\ wifiUp = FALSE /\ joiner = "idle"

WifiTypes ==
    /\ radio \in {"off", "starting", "on"} /\ link \in {"down", "joining", "up"}
    /\ posted \in Seq({"start", "lost", "ip"})
    /\ creds \in BOOLEAN /\ staOn \in BOOLEAN /\ startReq \in BOOLEAN /\ connectReq \in BOOLEAN
    /\ inProgress \in BOOLEAN /\ wifiUp \in BOOLEAN /\ joiner \in {"idle", "retry"}

-----------------------------------------------------------------------------
(* The driver *)

DriverStarted ==
    /\ radio = "starting"
    /\ radio' = "on" /\ posted' = Append(posted, "start")
    /\ UNCHANGED <<link, manager>>

DriverJoined ==
    /\ link = "joining"
    /\ link' = "up" /\ posted' = Append(posted, "ip")
    /\ UNCHANGED <<radio, manager>>

\* The access point refuses the station or is lost.
DriverLost ==
    /\ link # "down"
    /\ link' = "down" /\ posted' = Append(posted, "lost")
    /\ UNCHANGED <<radio, manager>>

\* esp_wifi_disconnect
Disconnect ==
    /\ link' = "down"
    /\ posted' = IF link = "down" THEN posted ELSE Append(posted, "lost")

-----------------------------------------------------------------------------
(* Functions of the manager *)

\* wifi_start_if_needed
StartIfNeeded ==
    IF staOn \/ startReq THEN UNCHANGED <<radio, startReq>>
    ELSE startReq' = TRUE /\ radio' = IF radio = "off" THEN "starting" ELSE radio

\* ... where esp_wifi_start may fail.
StartIfNeededFails == ~staOn /\ ~startReq /\ UNCHANGED <<radio, startReq>>

\* wifi_request_connect reaches esp_wifi_connect only when there is something to do.
Connects == creds /\ ~wifiUp /\ ~inProgress /\ staOn

\* ... and it succeeds,
RequestConnect ==
    /\ inProgress' = (Connects \/ (inProgress /\ ~wifiUp))
    /\ link' = IF Connects /\ link = "down" THEN "joining" ELSE link

\* ... or it fails: there are no credentials, or esp_wifi_connect returns an error.
RequestConnectFails ==
    /\ ~creds \/ Connects
    /\ inProgress' = (inProgress /\ ~Connects)
    /\ UNCHANGED link

\* wifi_resume_background up to its call of wifi_request_connect
ResumeBegin ==
    /\ creds
    /\ connectReq' = TRUE
    /\ StartIfNeeded

\* ... which ends there when the station does not start; the connection stays requested.
ResumeBeginFails ==
    /\ creds
    /\ connectReq' = TRUE
    /\ StartIfNeededFails

\* Mutant of SuspendForBle: a connection that was requested stays requested.
SuspendForgetsRequest ==
    /\ inProgress' = FALSE /\ wifiUp' = FALSE
    /\ UNCHANGED connectReq
    /\ Disconnect

\* wifi_suspend_for_ble
SuspendForBle ==
    /\ connectReq' = FALSE /\ inProgress' = FALSE /\ wifiUp' = FALSE
    /\ Disconnect

\* wifi_store_credentials: the link, if there is one, is left as it is.
StoreCredentials ==
    /\ creds' = TRUE
    /\ connectReq' = FALSE /\ inProgress' = FALSE /\ wifiUp' = FALSE
    /\ StartIfNeeded
    /\ UNCHANGED <<link, posted, staOn, joiner>>

\* ... which changes nothing when the station does not start.
StoreCredentialsFails ==
    /\ StartIfNeededFails
    /\ UNCHANGED <<link, posted, creds, staOn, connectReq, inProgress, wifiUp, joiner>>

\* wifi_clear_credentials
ClearCredentials ==
    /\ creds' = FALSE
    /\ connectReq' = FALSE /\ inProgress' = FALSE /\ wifiUp' = FALSE
    /\ UNCHANGED <<driver, staOn, startReq, joiner>>

-----------------------------------------------------------------------------
(* wifi_event_handler, in the system event task *)

Event(e) ==
    /\ joiner = "idle" /\ posted # <<>> /\ Head(posted) = e
    /\ posted' = Tail(posted)

EventStaStart ==
    /\ Event("start")
    /\ staOn' = TRUE /\ startReq' = FALSE
    /\ joiner' = IF connectReq /\ creds THEN "retry" ELSE "idle"
    /\ UNCHANGED <<radio, link, creds, connectReq, inProgress, wifiUp>>

EventStaDisconnected ==
    /\ Event("lost")
    /\ wifiUp' = FALSE /\ inProgress' = FALSE
    /\ joiner' = IF connectReq /\ creds THEN "retry" ELSE "idle"
    /\ UNCHANGED <<radio, link, creds, staOn, startReq, connectReq>>

EventGotIp ==
    /\ Event("ip")
    /\ wifiUp' = TRUE /\ inProgress' = FALSE /\ connectReq' = FALSE
    /\ UNCHANGED <<radio, link, creds, staOn, startReq, joiner>>

\* The request at the end of the first two, with its two outcomes.
EventJoin ==
    /\ joiner = "retry"
    /\ joiner' = "idle"
    /\ RequestConnect
    /\ UNCHANGED <<radio, posted, creds, staOn, startReq, connectReq, wifiUp>>

EventJoinFails ==
    /\ joiner = "retry"
    /\ joiner' = "idle"
    /\ RequestConnectFails
    /\ UNCHANGED <<radio, posted, creds, staOn, startReq, connectReq, wifiUp>>

=============================================================================

----------------------------- MODULE BleService -----------------------------
(***************************************************************************)
(* The connection of ble_service.c and what its client is told of Wi-Fi.   *)
(* A change of s_status calls ble_wifi_status_callback in the task that    *)
(* made it: the system event task, the coordinator ("wifi" stands for      *)
(* them) or the BLE stack's own task "bt".  "bt" also tells the client of  *)
(* the status when it subscribes and after some commands.  None of this is *)
(* under a lock.  The format of a message follows s_protocol_mode and is   *)
(* left out, as is the copy in the attribute that a read returns.          *)
(***************************************************************************)
EXTENDS Naturals

CONSTANTS
    Statuses,       \* wifi_status_t
    MaxSessions     \* bound: connections

Tasks == {"bt", "wifi"}
Untold == "untold"
Unsure == "unsure"

ASSUME StatusAssumption == /\ {"unconfigured", "disconnected"} \subseteq Statuses
                           /\ {Untold, Unsure} \cap Statuses = {}

VARIABLES
    connected,      \* s_connected
    subscribed,     \* s_notify_enabled
    status,         \* s_status of the Wi-Fi manager
    noteAt,         \* where each task is with its notification
    note,           \* the status it tells
    told,           \* history: the last status the client was told; Unsure when that
                    \* notification overlapped another task's, or was lost
    changes, sessions

link == <<connected, subscribed>>
notes == <<noteAt, note, told>>
bleVars == <<link, status, notes, changes, sessions>>

BleInit == /\ connected = FALSE /\ subscribed = FALSE
           /\ status = "unconfigured"
           /\ noteAt = [t \in Tasks |-> "none"] /\ note = [t \in Tasks |-> Untold]
           /\ told = Untold /\ changes = 0 /\ sessions = 0

BtQuiet == noteAt["bt"] = "none"

-----------------------------------------------------------------------------
(* Notifications *)

Busy(t) == \E u \in Tasks \ {t} : noteAt[u] # "none"
Begin(t) == noteAt' = [noteAt EXCEPT ![t] = "read"]

\* The Wi-Fi manager calls back with s_status, or "bt" reads it itself.
ReadStatus(t) ==
    /\ noteAt[t] = "read"
    /\ note' = [note EXCEPT ![t] = status]
    /\ noteAt' = [u \in Tasks |->
                     IF u = t THEN IF Busy(t) THEN "overlapped" ELSE "alone"
                     ELSE IF noteAt[u] = "alone" THEN "overlapped" ELSE noteAt[u]]
    /\ UNCHANGED <<link, status, told, changes, sessions>>

\* ble_send_text_notification
Notifiable == connected /\ subscribed
SendNote(t) ==
    /\ noteAt[t] \in {"alone", "overlapped"}
    /\ told' = IF ~Notifiable THEN told ELSE IF noteAt[t] = "alone" THEN note[t] ELSE Unsure
    /\ noteAt' = [noteAt EXCEPT ![t] = "none"]
    /\ note' = [note EXCEPT ![t] = Untold]
    /\ UNCHANGED <<link, status, changes, sessions>>

\* esp_ble_gatts_send_indicate fails: the note is lost, and nobody sends it again.
LoseNote(t) ==
    /\ noteAt[t] \in {"alone", "overlapped"} /\ Notifiable
    /\ told' = Unsure
    /\ noteAt' = [noteAt EXCEPT ![t] = "none"]
    /\ note' = [note EXCEPT ![t] = Untold]
    /\ UNCHANGED <<link, status, changes, sessions>>

Notify(t) == ReadStatus(t) \/ SendNote(t) \/ LoseNote(t)

\* wifi_set_status outside the BLE task
StatusChanges ==
    /\ noteAt["wifi"] = "none"
    /\ status' \in Statuses \ {status}
    /\ changes' = changes + 1
    /\ Begin("wifi")
    /\ UNCHANGED <<link, note, told, sessions>>

-----------------------------------------------------------------------------
(* Events of the BLE stack *)

Connect ==
    /\ ~connected /\ BtQuiet /\ sessions < MaxSessions
    /\ connected' = TRUE /\ subscribed' = FALSE /\ told' = Untold
    /\ sessions' = sessions + 1
    /\ UNCHANGED <<status, noteAt, note, changes>>

Disconnect ==
    /\ connected /\ BtQuiet
    /\ connected' = FALSE /\ subscribed' = FALSE /\ told' = Untold
    /\ UNCHANGED <<status, noteAt, note, changes, sessions>>

\* Mutant: the subscriber waits for the next change.
SubscribeSilently ==
    /\ connected /\ BtQuiet
    /\ subscribed' = TRUE
    /\ UNCHANGED <<connected, status, noteAt, note, told, changes, sessions>>
\* A write of the CCCD: who subscribes is told the status at once.
Subscribe ==
    /\ connected /\ BtQuiet
    /\ subscribed' = TRUE
    /\ Begin("bt")
    /\ UNCHANGED <<connected, status, note, told, changes, sessions>>

Unsubscribe ==
    /\ connected /\ BtQuiet /\ subscribed
    /\ subscribed' = FALSE /\ told' = Untold
    /\ UNCHANGED <<connected, status, noteAt, note, changes, sessions>>

\* The client has been told the status as it is, unless notifications of two
\* tasks overlapped, so that the older one may have gone out last, or the last one was
\* lost by the BLE stack, which is only logged.
StatusTold == (Notifiable /\ (\A t \in Tasks : noteAt[t] = "none") /\ told # Unsure) => told = status
=============================================================================

---------------------------- MODULE SscmaClient -----------------------------
(***************************************************************************)
(* The client of the vision chip (sscma_client_ops.c), and the chip at the *)
(* other end of the SPI bus.  A task that wants an answer lists a request; *)
(* the process task hands each response to the request listed under the    *)
(* same command, or else, like every event, to the queue of the monitor    *)
(* task, which runs the callbacks.  Answers carry no number, and one that  *)
(* comes after its request has timed out is taken for the answer to the    *)
(* next request of that command.  Left out: the text around and within a   *)
(* message, its logs, AT+BREAK and other commands that are never given, and *)
(* failed allocations.                                                     *)
(***************************************************************************)
EXTENDS Integers, Sequences, FiniteSets

CONSTANTS
    Clients,        \* tasks that give commands
    Profiles,       \* sensor profiles, the opt_id of AT+SENSOR
    Power,          \* the profile the chip starts with
    EventQueue,     \* event_queue_size
    MaxRequests,    \* bound: commands given
    MaxLosses,      \* bound: messages of the chip that get lost
    MaxCrashes      \* bound: resets the chip makes on its own

ASSUME ClientAssumption ==
    Power \in Profiles /\ EventQueue \in Nat \ {0}
    /\ {MaxRequests, MaxLosses, MaxCrashes} \subseteq Nat

Commands == {"SENSOR", "SENSORS?", "INVOKE"}
Nobody   == "nobody"

ASSUME NobodyAssumption == Nobody \notin Clients

VARIABLES
    inited,     \* client->inited
    chip,       \* external: "off" until the client resets it, "down" while it starts
    profile,    \* external: the profile of the chip
    orders,     \* external: commands it has yet to carry out
    wire,       \* its messages the client has yet to read
    listed,     \* request_list: the request of each client
    replies,    \* reply_queue
    requests,   \* bound: commands given
    losses, crashes

client == <<inited, chip, profile, orders, wire, listed, replies, requests, losses, crashes>>

\* A message of the chip: its report of a start, the answer to a command, or a result
Messages == [kind : {"init", "response", "event"}, cmd : Commands \cup {"none"},
             ok : BOOLEAN, profile : Profiles]

Message(kind, cmd, ok, p) == [kind |-> kind, cmd |-> cmd, ok |-> ok, profile |-> p]

NoRequest == [cmd |-> "none", box |-> <<>>]

ClientInit ==
    /\ inited = FALSE /\ chip = "off" /\ profile = Power
    /\ orders = <<>> /\ wire = <<>> /\ replies = <<>>
    /\ listed = [c \in Clients |-> NoRequest]
    /\ requests = 0 /\ losses = 0 /\ crashes = 0

-----------------------------------------------------------------------------
(* sscma_client_init and sscma_client_request, by client c *)

\* The chip is reset the first time only.
ResetChip ==
    IF inited THEN UNCHANGED client
    ELSE /\ inited' = TRUE /\ chip' = "down" /\ profile' = Power
         /\ orders' = <<>> /\ wire' = <<>>
         /\ UNCHANGED <<listed, replies, requests, losses, crashes>>

\* A command is listed before it is written to the chip.
Give(c, cmd, p) ==
    /\ requests < MaxRequests /\ requests' = requests + 1
    /\ listed' = [listed EXCEPT ![c] = [cmd |-> cmd, box |-> <<>>]]
    /\ orders' = IF chip = "up"
                 THEN Append(orders, [cmd |-> cmd, profile |-> p])
                 ELSE orders
    /\ UNCHANGED <<inited, chip, profile, wire, replies, losses, crashes>>

\* The answer has come, or the time is up.
Unlist(c) ==
    /\ listed' = [listed EXCEPT ![c] = NoRequest]
    /\ UNCHANGED <<inited, chip, profile, orders, wire, replies, requests, losses, crashes>>

Answered(c) == listed[c].box # <<>>

-----------------------------------------------------------------------------
(* The chip *)

ChipBoots ==
    /\ chip = "down"
    /\ chip' = "up" /\ wire' = Append(wire, Message("init", "none", TRUE, Power))
    /\ UNCHANGED <<inited, profile, orders, listed, replies, requests, losses, crashes>>

\* A command is carried out, or refused; an invocation that is accepted is followed by
\* its result.
ChipObeys ==
    /\ chip = "up" /\ orders # <<>>
    /\ LET o == orders[1] IN
       /\ orders' = Tail(orders)
       /\ \E ok \in BOOLEAN :
             /\ profile' = IF o.cmd = "SENSOR" /\ ok THEN o.profile ELSE profile
             /\ wire' = wire \o <<Message("response", o.cmd, ok, profile')>>
                             \o (IF o.cmd = "INVOKE" /\ ok
                                 THEN <<Message("event", o.cmd, TRUE, profile')>> ELSE <<>>)
    /\ UNCHANGED <<inited, chip, listed, replies, requests, losses, crashes>>

LoseMessage ==
    /\ wire # <<>> /\ losses < MaxLosses /\ losses' = losses + 1
    /\ wire' = Tail(wire)
    /\ UNCHANGED <<inited, chip, profile, orders, listed, replies, requests, crashes>>

ChipCrashes ==
    /\ chip = "up" /\ crashes < MaxCrashes /\ crashes' = crashes + 1
    /\ chip' = "down" /\ profile' = Power /\ orders' = <<>>
    /\ UNCHANGED <<inited, wire, listed, replies, requests, losses>>

ChipStep == ChipBoots \/ ChipObeys

-----------------------------------------------------------------------------
(* The process and the monitor task *)

\* The clients a response may be for: those that wait for an answer to that command
Waiting(m) ==
    {c \in Clients : m.kind = "response" /\ listed[c].cmd = m.cmd}

\* Mutant: the queue has no end.
QueuedAlways(m) == IF m.kind = "init" THEN <<m>> ELSE Append(replies, m)

\* The report of a start empties the queue before; what finds no room is discarded.
Queued(m) ==
    CASE m.kind = "init"           -> <<m>>
      [] m.kind # "init" /\ Len(replies) < EventQueue -> Append(replies, m)
      [] OTHER                     -> replies

\* sscma_client_process
Read ==
    /\ inited /\ wire # <<>>
    /\ wire' = Tail(wire)
    /\ LET m == wire[1] IN
       IF Waiting(m) # {}
       THEN /\ \E c \in Waiting(m) :
                  listed' = [listed EXCEPT ![c].box = IF @ = <<>> THEN <<m>> ELSE @]
            /\ UNCHANGED replies
       ELSE replies' = Queued(m) /\ UNCHANGED listed
    /\ UNCHANGED <<inited, chip, profile, orders, requests, losses, crashes>>

\* sscma_client_monitor takes the next reply; what its callback does is up to the HAL.
TakeReply ==
    /\ replies # <<>>
    /\ replies' = Tail(replies)
    /\ UNCHANGED <<inited, chip, profile, orders, wire, listed, requests, losses, crashes>>

ClientTypeOK ==
    /\ inited \in BOOLEAN /\ chip \in {"off", "down", "up"} /\ profile \in Profiles
    /\ \A i \in DOMAIN orders :
          orders[i] \in [cmd : Commands, profile : Profiles]
    /\ \A i \in DOMAIN wire : wire[i] \in Messages
    /\ \A i \in DOMAIN replies : replies[i] \in Messages
    /\ Len(replies) <= EventQueue
    /\ \A c \in Clients :
          /\ listed[c].cmd \in Commands \cup {"none"}
          /\ Len(listed[c].box) <= 1
          /\ \A i \in DOMAIN listed[c].box : listed[c].box[i] \in Messages

=============================================================================

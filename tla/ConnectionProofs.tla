-------------------------- MODULE ConnectionProofs --------------------------
(***************************************************************************)
(* Proofs about the two peers that the firmware has to find. CameraLink,   *)
(* for any number of calls and requests: what the HAL holds to be true of  *)
(* the chip on the other end of the wire is true. Discovery, for any       *)
(* servers and versions, any number of broadcasts and any length of the    *)
(* rest: which server is connected to, and what a search does in its time. *)
(* The two share no state.                                                 *)
(***************************************************************************)
EXTENDS CameraLink, Discovery, FiniteSetTheorems, TLAPS

-----------------------------------------------------------------------------
(* The inductive invariant *)

\* Commands about the sensor, which only the WebSocket task gives
About == {"SENSOR", "SENSORS?"}

Asks(cmd) == "ws" \in Clients /\ pc["ws"] = "ask" /\ listed["ws"].cmd = cmd
Box       == listed["ws"].box

ReplyTo(i, cmds) == wire[i].kind = "response" /\ wire[i].cmd \in cmds
NoOrder(cmds)    == \A i \in DOMAIN orders : orders[i].cmd \notin cmds
NoReply(cmds)    == \A i \in DOMAIN wire : ~ReplyTo(i, cmds)

\* The variables of the client and of the HAL have their types.
Orders   == [cmd : Commands, profile : Profiles]
Requests == [cmd : Commands \cup {"none"}, box : Seq(Messages)]

ChannelTypes ==
    /\ orders \in Seq(Orders) /\ wire \in Seq(Messages) /\ replies \in Seq(Messages)
    /\ listed \in [Clients -> Requests]
    /\ Len(replies) <= EventQueue /\ \A c \in Clients : Len(listed[c].box) <= 1
    /\ profile \in Profiles

HalTypes ==
    /\ sensor \in Profiles /\ goal \in [Clients -> Profiles]
    /\ pc \in [Clients -> {"idle", "enter", "start", "reset", "wait", "finish", "ready",
                           "ask", "query"}]
    /\ stale \subseteq Commands

Marks ==
    /\ inited \in BOOLEAN /\ connected \in BOOLEAN /\ connectSem \in BOOLEAN
    /\ initialized \in BOOLEAN /\ initInProgress \in BOOLEAN /\ clientStarted \in BOOLEAN
    /\ registered \in BOOLEAN /\ doubt \in BOOLEAN
    /\ chip \in {"off", "down", "up"} /\ initStatus \in {"ok", "timeout"}

Counts == calls \in 0 .. MaxCalls /\ requests \in 0 .. MaxRequests

\* A request is listed while its client waits for the answer, and boxed is an answer to it.
Listed ==
    \A c \in Clients :
        /\ listed[c].cmd # "none" <=> pc[c] = "ask"
        /\ listed[c].cmd \in (IF c = "ws" THEN About ELSE {"INVOKE"}) \cup {"none"}
        /\ \A i \in DOMAIN listed[c].box : listed[c].box[i].cmd = listed[c].cmd
        /\ pc[c] = "query" => c = "ws"

\* Before the chip is reset for the first time nothing has been asked of it.
Untouched ==
    /\ clientStarted => inited
    /\ ~inited => /\ ~initialized /\ ~connected /\ ~connectSem
                  /\ orders = <<>> /\ wire = <<>> /\ replies = <<>>
                  /\ sensor = Power /\ profile = Power /\ chip = "off"
                  /\ \A c \in Clients : pc[c] \in {"idle", "enter", "start", "reset"}
    /\ \A c \in Clients : pc[c] = "finish" => inited

\* Every response names the command it answers.
Answers == \A i \in DOMAIN wire : wire[i].kind = "response" => wire[i].cmd \in Commands

\* The answer m agrees with the chip.
Right(m) ==
    /\ m.cmd = "SENSOR"   => (m.ok => profile = goal["ws"]) /\ (~m.ok => profile = sensor)
    /\ m.cmd = "SENSORS?" => m.profile = profile

\* Without doubt, of the commands about the sensor only the one that is waited for is on
\* the way.
OrdersAlone ==
    \A i \in DOMAIN orders : orders[i].cmd \in About =>
        /\ Asks(orders[i].cmd) /\ Box = <<>> /\ NoReply(About)
        /\ \A j \in DOMAIN orders : orders[j].cmd \in About => j = i
        /\ orders[i].cmd = "SENSOR" => orders[i].profile = goal["ws"]
        /\ sensor = profile

RepliesAlone ==
    \A i \in DOMAIN wire : ReplyTo(i, About) =>
        /\ Asks(wire[i].cmd) /\ Box = <<>> /\ NoOrder(About)
        /\ \A j \in DOMAIN wire : ReplyTo(j, About) => j = i
        /\ Right(wire[i])

BoxAlone ==
    "ws" \in Clients /\ Box # <<>> => NoOrder(About) /\ NoReply(About) /\ Right(Box[1])

Alone == ~doubt => OrdersAlone /\ RepliesAlone /\ BoxAlone

\* A catalogue that is read tells the profile as it is, and after it no command about the
\* sensor is on the way; unless a query that was given up may still come.
OrdersFresh ==
    \A i \in DOMAIN orders : orders[i].cmd = "SENSORS?" =>
        /\ Asks("SENSORS?") /\ Box = <<>> /\ NoReply({"SENSORS?"})
        /\ \A j \in DOMAIN orders : orders[j].cmd \in About => j <= i

RepliesFresh ==
    \A i \in DOMAIN wire : ReplyTo(i, {"SENSORS?"}) =>
        /\ Asks("SENSORS?") /\ Box = <<>> /\ NoOrder(About)
        /\ \A j \in DOMAIN wire : ReplyTo(j, About) => j <= i
        /\ wire[i].profile = profile

BoxFresh ==
    Asks("SENSORS?") /\ Box # <<>> =>
        NoOrder(About) /\ NoReply(About) /\ Box[1].profile = profile

Fresh == "SENSORS?" \notin stale => OrdersFresh /\ RepliesFresh /\ BoxFresh

\* OneInitialiser without counting
OneMark ==
    /\ initInProgress => \E c \in Clients : Initialising = {c}
    /\ ~initInProgress => Initialising = {}

-----------------------------------------------------------------------------
(* Sequences *)

LEMMA Tailed ==
    ASSUME NEW S, NEW q \in Seq(S), q # <<>>
    PROVE  /\ Tail(q) \in Seq(S) /\ q[1] \in S /\ 1 \in DOMAIN q /\ Len(Tail(q)) = Len(q) - 1
           /\ \A i \in DOMAIN Tail(q) : i \in Nat /\ i + 1 \in DOMAIN q /\ Tail(q)[i] = q[i + 1]
  OBVIOUS

LEMMA Appended ==
    ASSUME NEW S, NEW q \in Seq(S), NEW e \in S
    PROVE  /\ Append(q, e) \in Seq(S) /\ DOMAIN Append(q, e) = 1 .. Len(q) + 1
           /\ DOMAIN q = 1 .. Len(q) /\ Len(q) \in Nat
           /\ \A i \in DOMAIN q : Append(q, e)[i] = q[i]
           /\ Append(q, e)[Len(q) + 1] = e
  OBVIOUS

LEMMA Wired ==
    ASSUME NEW S, NEW q \in Seq(S), NEW r \in S, NEW e \in S, NEW b \in BOOLEAN
    PROVE  LET n == q \o <<r>> \o (IF b THEN <<e>> ELSE <<>>) IN
           /\ n \in Seq(S)
           /\ \A i \in DOMAIN n : \/ i \in DOMAIN q /\ n[i] = q[i]
                                  \/ i = Len(q) + 1 /\ n[i] = r
                                  \/ n[i] = e
           /\ \A i \in DOMAIN q : i \in Nat /\ i <= Len(q)
  <1>1. CASE b
    BY <1>1
  <1>2. CASE ~b
    BY <1>2
  <1> QED
    BY <1>1, <1>2

-----------------------------------------------------------------------------
(* Types *)

LEMMA MarksStep ==
    ASSUME Marks, [Next]_vars
    PROVE  Marks'
  <1> USE DEF Marks, client, hal, history, Initialise, Use, Goto
  <1>1. ASSUME NEW c \in Clients, Call(c) PROVE Marks'
    BY <1>1 DEF Call
  <1>2. ASSUME NEW c \in Clients, \/ EnterDone(c) \/ EnterTimeout(c) \/ EnterInit(c) \/ Start(c)
                                  \/ Connect(c) \/ ConnectTimeout(c) \/ Finish(c)
        PROVE  Marks'
    <2>1. CASE EnterDone(c) \/ EnterTimeout(c)
      BY <2>1 DEF EnterDone, EnterTimeout
    <2>2. CASE EnterInit(c)
      BY <2>2 DEF EnterInit
    <2>3. CASE Start(c) \/ Connect(c)
      BY <2>3, ZenonT(40) DEF Start, Connect
    <2>4. CASE ConnectTimeout(c) \/ Finish(c)
      BY <2>4 DEF ConnectTimeout, Finish
    <2> QED
      BY <1>2, <2>1, <2>2, <2>3, <2>4
  <1>3. ASSUME NEW c \in Clients, Reset(c) PROVE Marks'
    BY <1>3 DEF Reset, ResetChip
  <1>4. ASSUME NEW c \in Clients, Invoke(c) \/ Query(c) \/ Busy(c) \/ Spent(c)
                                  \/ \E p \in Profiles : Configure(c, p)
        PROVE  Marks'
    <2>1. CASE Invoke(c) \/ Query(c)
      BY <2>1 DEF Invoke, Query, Give
    <2>4. ASSUME NEW p \in Profiles, Configure(c, p) PROVE Marks'
      BY <2>4 DEF Configure, Give
    <2>2. CASE Busy(c)
      BY <2>2 DEF Busy
    <2>3. CASE Spent(c)
      <3>1. doubt' \in BOOLEAN
        BY <2>3, Zenon DEF Spent
      <3> QED
        BY <2>3, <3>1 DEF Spent
    <2> QED
      BY <1>4, <2>1, <2>2, <2>3, <2>4
  <1>5. ASSUME NEW c \in Clients, Answer(c) \/ AnswerTimeout(c) PROVE Marks'
    <2>1. doubt' \in BOOLEAN
      BY <1>5 DEF Answer, AnswerTimeout
    <2> QED
      BY <1>5, <2>1 DEF Answer, AnswerTimeout, Unlist
  <1>6. CASE Monitor
    BY <1>6 DEF Monitor, TakeReply
  <1>7. CASE Environment
    BY <1>7, ZenonT(40) DEF Environment, ChipStep, Read, ChipBoots, ChipObeys
  <1>8. CASE Fault
    BY <1>8 DEF Fault, LoseMessage, ChipCrashes
  <1>9. CASE UNCHANGED vars
    BY <1>9 DEF vars
  <1> QED
    BY <1>1, <1>2, <1>3, <1>4, <1>5, <1>6, <1>7, <1>8, <1>9 DEF Next

LEMMA CountsStep ==
    ASSUME Counts, [Next]_vars
    PROVE  Counts'
  <1> USE ClientAssumption, CallsAssumption
      DEF Counts, client, hal, history, Initialise, Use
  <1>1. ASSUME NEW c \in Clients, Call(c) PROVE Counts'
    BY <1>1 DEF Call
  <1>2. ASSUME NEW c \in Clients, Initialise(c) PROVE Counts'
    BY <1>2 DEF EnterDone, EnterTimeout, EnterInit, Start, Reset, ResetChip, Connect,
                ConnectTimeout, Finish
  <1>3. ASSUME NEW c \in Clients, Use(c) PROVE Counts'
    <2>1. UNCHANGED calls
      BY <1>3 DEF Invoke, Query, Busy, Spent, Configure, Answer, AnswerTimeout
    <2>2. requests' = requests \/ (requests < MaxRequests /\ requests' = requests + 1)
      <3>1. CASE Invoke(c) \/ Query(c) \/ \E p \in Profiles : Configure(c, p)
        BY <3>1 DEF Invoke, Query, Configure, Give
      <3>2. CASE Busy(c) \/ Spent(c)
        <4>1. UNCHANGED client
          BY <3>2, Zenon DEF Busy, Spent
        <4> QED
          BY <4>1
      <3>3. CASE Answer(c) \/ AnswerTimeout(c)
        <4>1. Unlist(c)
          BY <3>3, Zenon DEF Answer, AnswerTimeout
        <4> QED
          BY <4>1 DEF Unlist
      <3> QED
        BY <1>3, <3>1, <3>2, <3>3
    <2> QED
      BY <2>1, <2>2
  <1>4. CASE Monitor \/ Environment \/ Fault \/ UNCHANGED vars
    BY <1>4 DEF Monitor, TakeReply, Environment, ChipStep, Read, ChipBoots, ChipObeys, Fault,
                LoseMessage, ChipCrashes, vars
  <1> QED
    BY <1>1, <1>2, <1>3, <1>4 DEF Next

LEMMA NoRequestTyped ==
    ASSUME NEW cmd \in Commands \cup {"none"}
    PROVE  [cmd |-> cmd, box |-> <<>>] \in Requests
  BY DEF Requests

LEMMA GiveTypes ==
    ASSUME ChannelTypes, NEW c \in Clients, NEW cmd \in Commands, NEW p \in Profiles, Give(c, cmd, p)
    PROVE  ChannelTypes'
  <1> USE DEF ChannelTypes, Give
  <1>1. [cmd |-> cmd, profile |-> p] \in Orders
    BY DEF Orders
  <1>2. orders' \in Seq(Orders)
    BY <1>1
  <1>3. listed' \in [Clients -> Requests] /\ \A d \in Clients : Len(listed'[d].box) <= 1
    <2>1. DEFINE r == [cmd |-> cmd, box |-> <<>>]
    <2>2. r \in Requests /\ Len(r.box) <= 1 /\ listed' = [listed EXCEPT ![c] = r]
      BY NoRequestTyped
    <2> QED
      BY <2>2
  <1> QED
    BY <1>2, <1>3

LEMMA UnlistTypes ==
    ASSUME ChannelTypes, NEW c \in Clients, Unlist(c)
    PROVE  ChannelTypes'
  <1> USE DEF ChannelTypes, Unlist
  <1>1. NoRequest \in Requests /\ Len(NoRequest.box) <= 1
    BY NoRequestTyped DEF NoRequest
  <1> QED
    BY <1>1

LEMMA MessageTyped ==
    ASSUME NEW kind \in {"init", "response", "event"}, NEW cmd \in Commands \cup {"none"},
           NEW ok \in BOOLEAN, NEW p \in Profiles
    PROVE  /\ Message(kind, cmd, ok, p) \in Messages
           /\ Message(kind, cmd, ok, p).kind = kind /\ Message(kind, cmd, ok, p).cmd = cmd
           /\ Message(kind, cmd, ok, p).profile = p
           /\ Message(kind, cmd, ok, p).ok = ok
  BY SMTT(30) DEF Message, Messages

\* What is on the wire when the chip has carried out a command
LEMMA Obeyed ==
    ASSUME ChannelTypes, ChipObeys
    PROVE  \E ok \in BOOLEAN :
             LET r == Message("response", orders[1].cmd, ok, profile')
                 e == Message("event", orders[1].cmd, TRUE, profile')
             IN  /\ orders # <<>> /\ orders[1] \in Orders /\ orders' = Tail(orders)
                 /\ profile' = IF orders[1].cmd = "SENSOR" /\ ok THEN orders[1].profile ELSE profile
                 /\ profile' \in Profiles
                 /\ r \in Messages /\ e \in Messages
                 /\ wire' = wire \o <<r>> \o (IF orders[1].cmd = "INVOKE" /\ ok THEN <<e>> ELSE <<>>)
                 /\ wire' \in Seq(Messages)
                 /\ \A i \in DOMAIN wire' : \/ i \in DOMAIN wire /\ wire'[i] = wire[i]
                                            \/ i = Len(wire) + 1 /\ wire'[i] = r
                                            \/ wire'[i] = e
                 /\ \A i \in DOMAIN wire : i \in Nat /\ i <= Len(wire)
  <1>1. orders # <<>> /\ orders[1] \in Orders
    BY Tailed DEF ChannelTypes, ChipObeys
  <1>2. PICK ok \in BOOLEAN :
          /\ profile' = IF orders[1].cmd = "SENSOR" /\ ok THEN orders[1].profile ELSE profile
          /\ wire' = wire \o <<Message("response", orders[1].cmd, ok, profile')>>
                          \o (IF orders[1].cmd = "INVOKE" /\ ok
                              THEN <<Message("event", orders[1].cmd, TRUE, profile')>> ELSE <<>>)
    BY DEF ChipObeys
  <1>3. profile' \in Profiles
    BY <1>1, <1>2 DEF ChannelTypes, Orders
  <1>4. orders[1].cmd \in Commands
    BY <1>1 DEF Orders
  <1> DEFINE r == Message("response", orders[1].cmd, ok, profile')
             e == Message("event", orders[1].cmd, TRUE, profile')
  <1>5. r \in Messages /\ e \in Messages
    BY <1>3, <1>4, MessageTyped, ZenonT(40)
  <1>6. (orders[1].cmd = "INVOKE" /\ ok) \in BOOLEAN
    OBVIOUS
  <1>7. /\ wire' \in Seq(Messages)
        /\ \A i \in DOMAIN wire' : \/ i \in DOMAIN wire /\ wire'[i] = wire[i]
                                   \/ i = Len(wire) + 1 /\ wire'[i] = r
                                   \/ wire'[i] = e
        /\ \A i \in DOMAIN wire : i \in Nat /\ i <= Len(wire)
    <2> HIDE DEF r, e
    <2>1. wire \in Seq(Messages)
      BY DEF ChannelTypes
    <2>2. wire' = wire \o <<r>> \o (IF orders[1].cmd = "INVOKE" /\ ok THEN <<e>> ELSE <<>>)
      BY <1>2 DEF r, e
    <2> QED
      BY <1>5, <1>6, <2>1, <2>2, Wired
  <1> WITNESS ok \in BOOLEAN
  <1> QED
    BY <1>1, <1>2, <1>3, <1>5, <1>7 DEF ChipObeys

\* What the process task has made of a message
LEMMA ReadMessage ==
    ASSUME ChannelTypes, Read
    PROVE  /\ wire # <<>> /\ wire[1] \in Messages /\ wire' = Tail(wire)
           /\ \/ /\ Waiting(wire[1]) = {} /\ listed' = listed
                 /\ replies' = Queued(wire[1])
              \/ \E c \in Waiting(wire[1]) :
                    /\ listed' = [listed EXCEPT ![c].box = IF @ = <<>> THEN <<wire[1]>> ELSE @]
                    /\ replies' = replies
  BY Tailed DEF ChannelTypes, Read

LEMMA ReadTypes ==
    ASSUME ChannelTypes, Read
    PROVE  ChannelTypes'
  <1>0. /\ wire # <<>> /\ wire[1] \in Messages /\ wire' = Tail(wire)
        /\ \/ listed' = listed /\ replies' = Queued(wire[1])
           \/ \E c \in Waiting(wire[1]) :
                 /\ listed' = [listed EXCEPT ![c].box = IF @ = <<>> THEN <<wire[1]>> ELSE @]
                 /\ replies' = replies
    BY ReadMessage
  <1> USE DEF ChannelTypes
  <1>1. wire' \in Seq(Messages) /\ wire[1] \in Messages
    BY <1>0, Tailed
  <1>2. CASE listed' = listed /\ replies' = Queued(wire[1])
    BY <1>1, <1>2, ClientAssumption DEF Queued, Read
  <1>3. ASSUME NEW c \in Waiting(wire[1]), replies' = replies,
               listed' = [listed EXCEPT ![c].box = IF @ = <<>> THEN <<wire[1]>> ELSE @]
        PROVE  ChannelTypes'
    <2>1. c \in Clients /\ <<wire[1]>> \in Seq(Messages) /\ Len(<<wire[1]>>) = 1
      BY <1>1 DEF Waiting
    <2>2. listed[c] \in Requests /\ listed[c].box \in Seq(Messages) /\ Len(listed[c].box) <= 1
      BY <2>1 DEF Requests
    <2>3. DEFINE b == IF listed[c].box = <<>> THEN <<wire[1]>> ELSE listed[c].box
    <2>4. b \in Seq(Messages) /\ Len(b) <= 1
      BY <2>1, <2>2
    <2>5. /\ listed'[c] = [listed[c] EXCEPT !.box = b]
          /\ DOMAIN listed' = Clients /\ \A d \in Clients \ {c} : listed'[d] = listed[d]
      BY <1>3, <2>1
    <2>6. listed'[c] \in Requests /\ Len(listed'[c].box) <= 1
      <3> HIDE DEF b
      <3> QED
        BY <2>2, <2>4, <2>5 DEF Requests
    <2>7. listed' \in [Clients -> Requests]
      <3> HIDE DEF b
      <3> QED
        BY <1>3, <2>5, <2>6
    <2> QED
      BY <1>1, <1>3, <2>5, <2>6, <2>7 DEF Read
  <1> QED
    BY <1>0, <1>2, <1>3

LEMMA ChannelStep ==
    ASSUME ChannelTypes, [Next]_vars
    PROVE  ChannelTypes'
  <1>1. ASSUME UNCHANGED client PROVE ChannelTypes'
    BY <1>1 DEF ChannelTypes, client
  <1>2. ASSUME NEW c \in Clients, Reset(c) PROVE ChannelTypes'
    <2>1. CASE inited
      BY <1>1, <1>2, <2>1 DEF Reset, ResetChip
    <2>2. CASE ~inited
      BY <1>2, <2>2, ClientAssumption DEF Reset, ResetChip, ChannelTypes
    <2> QED
      BY <2>1, <2>2
  <1>3. ASSUME NEW c \in Clients, Use(c) PROVE ChannelTypes'
    <2>1. ASSUME NEW cmd \in Commands, NEW p \in Profiles, Give(c, cmd, p) PROVE ChannelTypes'
      BY <2>1, GiveTypes
    <2>2. CASE Invoke(c)
      BY <2>1, <2>2, ClientAssumption DEF Invoke, Commands
    <2>3. CASE Query(c)
      BY <2>1, <2>3, ClientAssumption DEF Query, Commands
    <2>4. CASE \E p \in Profiles : Configure(c, p)
      BY <2>1, <2>4 DEF Configure, Commands
    <2>5. CASE Answer(c) \/ AnswerTimeout(c)
      BY <2>5, UnlistTypes DEF Answer, AnswerTimeout
    <2>6. CASE Busy(c) \/ Spent(c)
      BY <1>1, <2>6 DEF Busy, Spent
    <2> QED
      BY <1>3, <2>2, <2>3, <2>4, <2>5, <2>6 DEF Use
  <1>4. CASE Monitor
    <2>1. replies # <<>> /\ replies' = Tail(replies) /\ UNCHANGED <<orders, wire, listed, profile>>
      BY <1>4 DEF Monitor, TakeReply
    <2> QED
      BY <2>1, Tailed, ClientAssumption DEF ChannelTypes
  <1>5. CASE Read
    BY <1>5, ReadTypes
  <1>6. CASE ChipBoots
    <2>1. Message("init", "none", TRUE, Power) \in Messages
      BY MessageTyped, ClientAssumption DEF Commands
    <2>2. wire' \in Seq(Messages)
      BY <1>6, <2>1, Appended DEF ChipBoots, ChannelTypes
    <2> QED
      BY <1>6, <2>2 DEF ChipBoots, ChannelTypes
  <1>7. CASE ChipObeys
    <2>1. orders' \in Seq(Orders) /\ wire' \in Seq(Messages) /\ profile' \in Profiles
      BY <1>7, Obeyed, Tailed DEF ChannelTypes
    <2> QED
      BY <1>7, <2>1 DEF ChipObeys, ChannelTypes
  <1>8. CASE LoseMessage
    BY <1>8, Tailed DEF LoseMessage, ChannelTypes
  <1>9. CASE ChipCrashes
    BY <1>9, ClientAssumption DEF ChipCrashes, ChannelTypes
  <1>10. ASSUME NEW c \in Clients, Call(c) \/ (Initialise(c) /\ ~Reset(c)) PROVE UNCHANGED client
    BY <1>10 DEF Call, Initialise, EnterDone, EnterTimeout, EnterInit, Start, Connect,
                 ConnectTimeout, Finish
  <1> QED
    BY <1>1, <1>2, <1>3, <1>4, <1>5, <1>6, <1>7, <1>8, <1>9, <1>10
       DEF Next, Environment, ChipStep, Fault, vars

LEMMA HalStep ==
    ASSUME ChannelTypes, Listed, HalTypes, [Next]_vars
    PROVE  HalTypes'
  <1> USE DEF HalTypes, Goto, hal, history
  <1>1. ASSUME NEW c \in Clients, Call(c) \/ Initialise(c) PROVE HalTypes'
    <2>1. UNCHANGED <<sensor, goal, stale>>
      BY <1>1 DEF Call, Initialise, EnterDone, EnterTimeout, EnterInit, Start, Reset, Connect,
                  ConnectTimeout, Finish
    <2>2. \E l \in {"idle", "enter", "start", "reset", "wait", "finish", "ready"} : Goto(c, l)
      BY <1>1 DEF Call, Initialise, EnterDone, EnterTimeout, EnterInit, Start, Reset, Connect,
                  ConnectTimeout, Finish
    <2> QED
      BY <2>1, <2>2
  <1>2. ASSUME NEW c \in Clients, Invoke(c) \/ Query(c) \/ Busy(c) \/ Spent(c) PROVE HalTypes'
    BY <1>2 DEF Invoke, Query, Busy, Spent
  <1>3. ASSUME NEW c \in Clients, NEW p \in Profiles, Configure(c, p) PROVE HalTypes'
    BY <1>3 DEF Configure
  <1>4. ASSUME NEW c \in Clients, Answer(c) PROVE HalTypes'
    <2>1. listed[c].box[1] \in Messages
      BY <1>4, Tailed DEF Answer, Answered, ChannelTypes, Requests
    <2>2. sensor' \in Profiles
      BY <1>4, <2>1 DEF Answer, TakenOver, Messages
    <2> QED
      BY <1>4, <2>2 DEF Answer
  <1>5. ASSUME NEW c \in Clients, AnswerTimeout(c) PROVE HalTypes'
    <2>1. listed[c].cmd \in Commands
      BY <1>5 DEF AnswerTimeout, Listed, ChannelTypes, Requests
    <2> QED
      BY <1>5, <2>1 DEF AnswerTimeout
  <1>6. CASE Monitor \/ Environment \/ UNCHANGED vars
    BY <1>6 DEF Monitor, Environment, vars
  <1>7. CASE Fault
    <2>1. {listed[c].cmd : c \in Clients} \subseteq Commands \cup {"none"}
      BY DEF ChannelTypes, Requests
    <2> QED
      BY <1>7, <2>1 DEF Fault
  <1> QED
    BY <1>1, <1>2, <1>3, <1>4, <1>5, <1>6, <1>7 DEF Next, Use

-----------------------------------------------------------------------------
(* Who is listed, and what has been touched *)

LEMMA ListedStep ==
    ASSUME ChannelTypes, HalTypes, Listed, [Next]_vars
    PROVE  Listed'
  <1> USE DEF HalTypes, Listed, Goto, About
  <1>1. ASSUME UNCHANGED listed,
               \A c \in Clients : (pc'[c] = "ask" <=> pc[c] = "ask") /\ (pc'[c] = "query" => pc[c] = "query")
        PROVE  Listed'
    BY <1>1
  <1>2. ASSUME NEW c \in Clients, NEW cmd \in Commands, NEW p \in Profiles, Give(c, cmd, p),
               Goto(c, "ask"), IF c = "ws" THEN cmd \in About ELSE cmd = "INVOKE"
        PROVE  Listed'
    <2>1. /\ listed'[c].cmd = cmd /\ listed'[c].box = <<>>
          /\ \A d \in Clients \ {c} : listed'[d] = listed[d]
      BY <1>2 DEF Give, ChannelTypes
    <2> QED
      BY <1>2, <2>1 DEF Commands
  <1>3. ASSUME NEW c \in Clients, Unlist(c), pc[c] = "ask",
               Goto(c, "idle") \/ (Goto(c, "query") /\ c = "ws")
        PROVE  Listed'
    <2>1. /\ listed'[c].cmd = "none" /\ listed'[c].box = <<>>
          /\ \A d \in Clients \ {c} : listed'[d] = listed[d]
      BY <1>3 DEF Unlist, ChannelTypes, NoRequest
    <2> QED
      BY <1>3, <2>1
  <1>4. ASSUME NEW c \in Clients, Call(c) \/ Initialise(c) PROVE Listed'
    <2>1. UNCHANGED listed
      BY <1>4 DEF Call, Initialise, EnterDone, EnterTimeout, EnterInit, Start, Reset, ResetChip,
                  Connect, ConnectTimeout, Finish, client
    <2>2. pc[c] # "ask" /\ \E l \in {"idle", "enter", "start", "reset", "wait", "finish", "ready"} : Goto(c, l)
      BY <1>4 DEF Call, Initialise, EnterDone, EnterTimeout, EnterInit, Start, Reset, Connect,
                  ConnectTimeout, Finish
    <2> QED
      BY <1>1, <2>1, <2>2
  <1>5. ASSUME NEW c \in Clients, Use(c) PROVE Listed'
    <2>1. CASE Invoke(c)
      BY <1>2, <2>1, ClientAssumption DEF Invoke, Commands
    <2>2. CASE Query(c)
      BY <1>2, <2>2, ClientAssumption DEF Query, Commands
    <2>3. ASSUME NEW p \in Profiles, Configure(c, p) PROVE Listed'
      BY <1>2, <2>3 DEF Configure, Commands
    <2>4. CASE Busy(c) \/ Spent(c)
      BY <1>1, <2>4 DEF Busy, Spent, client
    <2>5. CASE Answer(c)
      <3>1. c # "ws" => listed[c].box[1].cmd # "SENSOR"
        BY <2>5, Tailed DEF Answer, Answered, ChannelTypes, Requests
      <3>2. /\ Unlist(c) /\ pc[c] = "ask"
            /\ Goto(c, IF listed[c].box[1].cmd = "SENSOR" /\ listed[c].box[1].ok THEN "query" ELSE "idle")
        BY <2>5, Zenon DEF Answer
      <3>3. CASE Goto(c, "idle")
        BY <1>3, <3>2, <3>3
      <3>4. CASE ~Goto(c, "idle")
        BY <1>3, <3>1, <3>2, <3>4
      <3> QED
        BY <3>3, <3>4
    <2>6. CASE AnswerTimeout(c)
      <3>1. Unlist(c) /\ pc[c] = "ask" /\ Goto(c, "idle")
        BY <2>6, Zenon DEF AnswerTimeout
      <3> QED
        BY <1>3, <3>1, Zenon
    <2> QED
      BY <1>5, <2>1, <2>2, <2>3, <2>4, <2>5, <2>6 DEF Use
  <1>6. CASE Monitor \/ UNCHANGED vars
    BY <1>1, <1>6 DEF Monitor, TakeReply, vars, client
  <1>7. CASE Environment
    <2>1. CASE ChipStep
      BY <1>1, <1>7, <2>1 DEF Environment, ChipStep, ChipBoots, ChipObeys
    <2>2. ASSUME NEW c \in Waiting(wire[1]),
                 listed' = [listed EXCEPT ![c].box = IF @ = <<>> THEN <<wire[1]>> ELSE @]
          PROVE  Listed'
      <3>1. c \in Clients /\ listed[c].cmd = wire[1].cmd
        BY <2>2 DEF Waiting
      <3>2. DEFINE b == IF listed[c].box = <<>> THEN <<wire[1]>> ELSE listed[c].box
      <3>3. \A i \in DOMAIN b : b[i].cmd = listed[c].cmd
        BY <3>1
      <3>4. /\ listed'[c].cmd = listed[c].cmd /\ listed'[c].box = b
            /\ \A d \in Clients \ {c} : listed'[d] = listed[d]
        <4> HIDE DEF b
        <4>1. listed' = [listed EXCEPT ![c].box = b]
          BY <2>2 DEF b
        <4> QED
          BY <3>1, <4>1 DEF ChannelTypes, Requests
      <3> HIDE DEF b
      <3> QED
        BY <1>7, <3>1, <3>3, <3>4 DEF Environment
    <2> QED
      BY <1>1, <1>7, <2>1, <2>2, ReadMessage DEF Environment
  <1>8. CASE Fault
    BY <1>1, <1>8 DEF Fault, LoseMessage, ChipCrashes
  <1> QED
    BY <1>4, <1>5, <1>6, <1>7, <1>8 DEF Next

LEMMA UntouchedStep ==
    ASSUME HalTypes, Listed, Untouched, [Next]_vars
    PROVE  Untouched'
  <1> USE DEF HalTypes, Untouched, Goto, client, hal, history
  <1>1. ASSUME NEW c \in Clients, Call(c) \/ Initialise(c) PROVE Untouched'
    <2>1. CASE Call(c) \/ EnterDone(c) \/ EnterTimeout(c)
      BY <2>1 DEF Call, EnterDone, EnterTimeout
    <2>2. CASE EnterInit(c)
      BY <2>2 DEF EnterInit
    <2>3. CASE Start(c)
      BY <2>3 DEF Start
    <2>4. CASE Reset(c)
      BY <2>4 DEF Reset, ResetChip
    <2>5. CASE Connect(c)
      BY <2>5 DEF Connect
    <2>6. CASE ConnectTimeout(c)
      BY <2>6 DEF ConnectTimeout
    <2>7. CASE Finish(c)
      BY <2>7 DEF Finish
    <2> QED
      BY <1>1, <2>1, <2>2, <2>3, <2>4, <2>5, <2>6, <2>7 DEF Initialise
  <1>2. ASSUME NEW c \in Clients, Use(c) PROVE Untouched'
    <2>1. inited
      BY <1>2 DEF Use, Invoke, Query, Busy, Spent, Configure, Answer, AnswerTimeout
    <2>2. UNCHANGED <<clientStarted, inited>>
      BY <1>2, Zenon
           DEF Use, Invoke, Query, Busy, Spent, Configure, Answer, AnswerTimeout, Give, Unlist
    <2>3. \E l \in {"idle", "ask", "query"} : Goto(c, l)
      BY <1>2 DEF Use, Invoke, Query, Busy, Spent, Configure, Answer, AnswerTimeout
    <2> QED
      BY <2>1, <2>2, <2>3
  <1>3. CASE Monitor
    BY <1>3 DEF Monitor, TakeReply
  <1>4. CASE Environment
    BY <1>4 DEF Environment, ChipStep, ChipBoots, ChipObeys, Read
  <1>5. CASE Fault
    <2>1. inited /\ UNCHANGED <<inited, pc, clientStarted>>
      BY <1>5 DEF Fault, LoseMessage, ChipCrashes
    <2> QED
      BY <2>1
  <1>6. CASE UNCHANGED vars
    BY <1>6 DEF vars
  <1> QED
    BY <1>1, <1>2, <1>3, <1>4, <1>5, <1>6 DEF Next

LEMMA AnswersStep ==
    ASSUME ChannelTypes, Untouched, Answers, [Next]_vars
    PROVE  Answers'
  <1>1. ASSUME UNCHANGED wire PROVE Answers'
    BY <1>1 DEF Answers
  <1>2. ASSUME wire # <<>>, wire' = Tail(wire) PROVE Answers'
    <2>1. \A i \in DOMAIN wire' : i + 1 \in DOMAIN wire /\ wire'[i] = wire[i + 1]
      BY <1>2, Tailed DEF ChannelTypes
    <2> QED
      BY <2>1 DEF Answers
  <1>3. CASE ChipBoots
    <2> DEFINE e == Message("init", "none", TRUE, Power)
    <2>1. e \in Messages /\ e.kind = "init"
      BY MessageTyped, ClientAssumption DEF Commands, Message
    <2>2. wire' = Append(wire, e)
      BY <1>3 DEF ChipBoots
    <2> HIDE DEF e
    <2>3. \A i \in DOMAIN wire' : \/ i \in DOMAIN wire /\ wire'[i] = wire[i]
                                  \/ wire'[i] = e
      BY <2>1, <2>2, Appended DEF ChannelTypes
    <2> QED
      BY <2>1, <2>3 DEF Answers
  <1>4. CASE ChipObeys
    <2>1. PICK ok \in BOOLEAN :
            /\ orders[1] \in Orders
            /\ \A i \in DOMAIN wire' :
                  \/ i \in DOMAIN wire /\ wire'[i] = wire[i]
                  \/ wire'[i] = Message("response", orders[1].cmd, ok, profile')
                  \/ wire'[i] = Message("event", orders[1].cmd, TRUE, profile')
      BY <1>4, Obeyed
    <2> QED
      BY <2>1 DEF Answers, Message, Orders
  <1>5. ASSUME NEW c \in Clients, Call(c) \/ Initialise(c) \/ Use(c) PROVE UNCHANGED wire
    <2>1. CASE Reset(c)
      BY <2>1 DEF Reset, ResetChip, Untouched, client
    <2>2. CASE Call(c) \/ (Initialise(c) /\ ~Reset(c))
      BY <2>2 DEF Call, Initialise, EnterDone, EnterTimeout, EnterInit, Start, Connect,
                  ConnectTimeout, Finish, client
    <2>3. CASE Use(c)
      BY <2>3, Zenon DEF Use, Invoke, Query, Busy, Spent, Configure, Answer, AnswerTimeout, Give,
                  Unlist, client
    <2> QED
      BY <1>5, <2>1, <2>2, <2>3
  <1> QED
    BY <1>1, <1>2, <1>3, <1>4, <1>5
       DEF Next, Environment, ChipStep, Read, Fault, LoseMessage, ChipCrashes, Monitor, TakeReply,
           vars, client

-----------------------------------------------------------------------------
(* Who initialises *)

LEMMA OneMarkStep ==
    ASSUME HalTypes, OneMark, [Next]_vars
    PROVE  OneMark'
  <1> USE DEF HalTypes, OneMark, Initialising, Goto, hal, history
  <1>1. ASSUME UNCHANGED initInProgress, Initialising' = Initialising PROVE OneMark'
    BY <1>1
  <1>2. ASSUME NEW c \in Clients, EnterInit(c) PROVE OneMark'
    <2>1. Initialising = {} /\ initInProgress'
      BY <1>2 DEF EnterInit
    <2>2. \E l \in {"start", "finish"} : Goto(c, l)
      BY <1>2 DEF EnterInit
    <2> QED
      BY <2>1, <2>2
  <1>3. ASSUME NEW c \in Clients, ConnectTimeout(c) \/ Finish(c) PROVE OneMark'
    <2>1. ~initInProgress' /\ c \in Initialising
      BY <1>3 DEF ConnectTimeout, Finish
    <2>2. \E l \in {"idle", "ready"} : Goto(c, l)
      BY <1>3 DEF ConnectTimeout, Finish
    <2> QED
      BY <2>1, <2>2
  <1>4. ASSUME NEW c \in Clients, Start(c) \/ Reset(c) \/ Connect(c) PROVE OneMark'
    BY <1>1, <1>4 DEF Start, Reset, Connect
  <1>5. ASSUME NEW c \in Clients, Call(c) \/ EnterDone(c) \/ EnterTimeout(c) \/ Use(c)
        PROVE  OneMark'
    <2>1. /\ pc[c] \notin {"start", "reset", "wait", "finish"} /\ initInProgress' = initInProgress
          /\ \E l \in {"idle", "enter", "ready", "ask", "query"} : Goto(c, l)
      BY <1>5 DEF Call, EnterDone, EnterTimeout, Use, Invoke, Query, Busy, Spent, Configure,
                  Answer, AnswerTimeout
    <2> QED
      BY <1>1, <2>1
  <1>6. CASE Monitor \/ Environment \/ Fault \/ UNCHANGED vars
    BY <1>1, <1>6 DEF Monitor, Environment, Fault, vars
  <1> QED
    BY <1>2, <1>3, <1>4, <1>5, <1>6 DEF Next, Initialise

LEMMA OneCounted ==
    ASSUME Marks, OneMark
    PROVE  OneInitialiser
  <1>1. CASE initInProgress
    <2>1. PICK c \in Clients : Initialising = {c}
      BY <1>1 DEF OneMark
    <2>2. Cardinality({c}) = 1
      BY FS_Singleton
    <2> QED
      BY <1>1, <2>1, <2>2 DEF OneInitialiser
  <1>2. CASE ~initInProgress
    BY <1>2, FS_EmptySet DEF OneMark, OneInitialiser
  <1> QED
    BY <1>1, <1>2 DEF Marks

-----------------------------------------------------------------------------
(* The profile *)

\* Of the clients only "ws" asks about the sensor.
LEMMA SensorSeen ==
    ASSUME Listed
    PROVE  SensorTrue <=> (~doubt /\ ~Asks("SENSOR") => sensor = profile)
  BY DEF Listed, SensorTrue, Asks, About

Told == Alone /\ Fresh /\ (~doubt /\ ~Asks("SENSOR") => sensor = profile)

\* Steps after which no more is on the way than before, as the WebSocket task sees it
LEMMA Fewer ==
    ASSUME Told, NEW k \in {0, 1}, NEW m \in {0, 1},
           DOMAIN orders \subseteq Nat, DOMAIN wire \subseteq Nat,
           DOMAIN orders' \subseteq Nat, DOMAIN wire' \subseteq Nat,
           \A i \in DOMAIN orders' : orders'[i].cmd \in About =>
               i + k \in DOMAIN orders /\ orders'[i] = orders[i + k],
           \A i \in DOMAIN wire' : ReplyTo(i, About)' =>
               i + m \in DOMAIN wire /\ wire'[i] = wire[i + m],
           "ws" \in Clients => (pc'["ws"] = "ask" <=> pc["ws"] = "ask"),
           listed'["ws"] = listed["ws"], goal'["ws"] = goal["ws"],
           UNCHANGED <<profile, sensor>>, stale \subseteq stale', doubt => doubt'
    PROVE  Told'
  <1>1. Asks("SENSOR")' = Asks("SENSOR") /\ Asks("SENSORS?")' = Asks("SENSORS?") /\ Box' = Box
    BY DEF Asks, Box
  <1>2. \A cmd : Asks(cmd)' <=> Asks(cmd)
    BY DEF Asks
  <1>3. \A cmds \in {About, {"SENSORS?"}} :
            (NoOrder(cmds) => NoOrder(cmds)') /\ (NoReply(cmds) => NoReply(cmds)')
    BY DEF NoOrder, NoReply, ReplyTo, About
  <1>4. Alone'
    <2>1. SUFFICES ASSUME ~doubt' PROVE OrdersAlone' /\ RepliesAlone' /\ BoxAlone'
      BY DEF Alone
    <2>2. OrdersAlone /\ RepliesAlone /\ BoxAlone
      BY <2>1 DEF Told, Alone
    <2>3. OrdersAlone'
      <3> SUFFICES ASSUME NEW i \in DOMAIN orders', orders'[i].cmd \in About
                   PROVE  /\ "ws" \in Clients /\ pc'["ws"] = "ask"
                          /\ listed'["ws"].cmd = orders'[i].cmd /\ Box' = <<>> /\ NoReply(About)'
                          /\ \A j \in DOMAIN orders' : orders'[j].cmd \in About => j = i
                          /\ orders'[i].cmd = "SENSOR" => orders'[i].profile = goal'["ws"]
                          /\ sensor' = profile'
        BY DEF OrdersAlone, Asks
      <3>1. i + k \in DOMAIN orders /\ orders'[i] = orders[i + k]
        OBVIOUS
      <3>2. /\ Asks(orders[i + k].cmd) /\ Box = <<>> /\ NoReply(About)
            /\ \A j \in DOMAIN orders : orders[j].cmd \in About => j = i + k
            /\ orders[i + k].cmd = "SENSOR" => orders[i + k].profile = goal["ws"]
            /\ sensor = profile
        BY <2>2, <3>1 DEF OrdersAlone
      <3>3. \A j \in DOMAIN orders' : orders'[j].cmd \in About => j = i
        BY <3>2
      <3> QED
        BY <1>1, <1>3, <3>1, <3>2, <3>3 DEF Asks
    <2>4. RepliesAlone'
      BY <1>1, <1>2, <1>3, <2>2 DEF RepliesAlone, ReplyTo, Right, About
    <2>5. BoxAlone'
      BY <1>1, <1>3, <2>2 DEF BoxAlone, Right
    <2> QED
      BY <2>3, <2>4, <2>5
  <1>5. Fresh'
    <2>1. SUFFICES ASSUME "SENSORS?" \notin stale'
                   PROVE  OrdersFresh' /\ RepliesFresh' /\ BoxFresh'
      BY DEF Fresh
    <2>2. OrdersFresh /\ RepliesFresh /\ BoxFresh
      BY <2>1 DEF Told, Fresh
    <2>3. OrdersFresh'
      BY <1>1, <1>3, <2>2 DEF OrdersFresh, About
    <2>4. RepliesFresh'
      BY <1>1, <1>3, <2>2 DEF RepliesFresh, ReplyTo, About
    <2>5. BoxFresh'
      BY <1>1, <1>3, <2>2 DEF BoxFresh
    <2> QED
      BY <2>3, <2>4, <2>5
  <1> QED
    BY <1>1, <1>4, <1>5 DEF Told

LEMMA Indexed ==
    ASSUME ChannelTypes
    PROVE  DOMAIN orders \subseteq Nat /\ DOMAIN wire \subseteq Nat
  BY DEF ChannelTypes

\* Steps that leave the channel alone
LEMMA Quiet ==
    ASSUME ChannelTypes, Told, UNCHANGED <<orders, wire, profile, sensor, goal>>,
           listed'["ws"] = listed["ws"], stale \subseteq stale', doubt => doubt',
           "ws" \in Clients => (pc'["ws"] = "ask" <=> pc["ws"] = "ask")
    PROVE  Told'
  <1>1. /\ \A i \in DOMAIN orders' : orders'[i].cmd \in About =>
               i + 0 \in DOMAIN orders /\ orders'[i] = orders[i + 0]
        /\ \A i \in DOMAIN wire' : ReplyTo(i, About)' =>
               i + 0 \in DOMAIN wire /\ wire'[i] = wire[i + 0]
    BY DEF ChannelTypes
  <1>2. DOMAIN orders' \subseteq Nat /\ DOMAIN wire' \subseteq Nat /\ goal'["ws"] = goal["ws"]
    BY Indexed
  <1> QED
    BY <1>1, <1>2, Indexed, Fewer

LEMMA InitialiseTold ==
    ASSUME ChannelTypes, HalTypes, Untouched, Told,
           NEW c \in Clients, Call(c) \/ Initialise(c)
    PROVE  Told'
  <1> USE DEF Goto, hal, history, client
  <1>1. /\ pc[c] # "ask" /\ UNCHANGED <<goal, sensor, doubt, stale>>
        /\ \E l \in {"idle", "enter", "start", "reset", "wait", "finish", "ready"} : Goto(c, l)
    BY DEF Call, Initialise, EnterDone, EnterTimeout, EnterInit, Start, Reset, Connect,
           ConnectTimeout, Finish
  <1>2. "ws" \in Clients => (pc'["ws"] = "ask" <=> pc["ws"] = "ask")
    BY <1>1 DEF HalTypes
  <1>3. UNCHANGED <<orders, wire, profile, listed>>
    <2>1. CASE Reset(c)
      BY <2>1 DEF Reset, ResetChip, Untouched
    <2>2. CASE ~Reset(c)
      BY <2>2 DEF Call, Initialise, EnterDone, EnterTimeout, EnterInit, Start, Connect,
                  ConnectTimeout, Finish
    <2> QED
      BY <2>1, <2>2
  <1> QED
    BY <1>1, <1>2, <1>3, Quiet

\* What a command adds to those on their way
LEMMA Given ==
    ASSUME ChannelTypes, NEW c \in Clients, NEW cmd \in Commands, NEW p \in Profiles,
           Give(c, cmd, p)
    PROVE  /\ UNCHANGED <<wire, profile>>
           /\ listed'[c].cmd = cmd /\ listed'[c].box = <<>>
           /\ \A d : d # c => listed'[d] = listed[d]
           /\ DOMAIN orders' \subseteq Nat
           /\ \A i \in DOMAIN orders' :
                 \/ i \in DOMAIN orders /\ orders'[i] = orders[i]
                 \/ /\ orders'[i] = [cmd |-> cmd, profile |-> p]
                    /\ \A j \in DOMAIN orders' : j <= i
                    /\ i \notin DOMAIN orders
           /\ \A i, j \in DOMAIN orders' : i \notin DOMAIN orders /\ j \notin DOMAIN orders => i = j
  <1> DEFINE o == [cmd |-> cmd, profile |-> p]
  <1>1. o \in Orders
    BY DEF Orders
  <1>2. /\ orders' = orders \/ orders' = Append(orders, o)
        /\ UNCHANGED <<wire, profile>> /\ listed' = [listed EXCEPT ![c] = [cmd |-> cmd, box |-> <<>>]]
    BY DEF Give
  <1>3. orders \in Seq(Orders) /\ DOMAIN listed = Clients
    BY DEF ChannelTypes
  <1>4. /\ listed'[c].cmd = cmd /\ listed'[c].box = <<>>
        /\ \A d : d # c => listed'[d] = listed[d]
    BY <1>2, <1>3
  <1> HIDE DEF o
  <1>5. CASE orders' = orders
    BY <1>2, <1>3, <1>4, <1>5
  <1>6. CASE orders' = Append(orders, o)
    <2>1. /\ DOMAIN orders' = 1 .. Len(orders) + 1
          /\ DOMAIN orders = 1 .. Len(orders) /\ Len(orders) \in Nat
          /\ \A i \in DOMAIN orders : orders'[i] = orders[i]
          /\ orders'[Len(orders) + 1] = o
      BY <1>1, <1>3, <1>6, Appended
    <2>2. \A i \in DOMAIN orders' : i \notin DOMAIN orders => i = Len(orders) + 1
      BY <2>1
    <2> QED
      BY <1>2, <1>4, <2>1, <2>2 DEF o
  <1> QED
    BY <1>2, <1>5, <1>6

LEMMA InvokeTold ==
    ASSUME ChannelTypes, HalTypes, Told, NEW c \in Clients, Invoke(c)
    PROVE  Told'
  <1>1. c # "ws" /\ Give(c, "INVOKE", Power) /\ UNCHANGED <<goal, sensor, doubt, stale>>
    BY DEF Invoke, history
  <1>2. "ws" \in Clients => pc'["ws"] = pc["ws"]
    BY <1>1 DEF Invoke, Goto, HalTypes
  <1>3. /\ UNCHANGED <<wire, profile>> /\ listed'["ws"] = listed["ws"]
        /\ DOMAIN orders' \subseteq Nat
        /\ \A i \in DOMAIN orders' :
              \/ i \in DOMAIN orders /\ orders'[i] = orders[i]
              \/ orders'[i].cmd = "INVOKE"
    BY <1>1, Given, ClientAssumption DEF Commands
  <1>4. \A i \in DOMAIN orders' : orders'[i].cmd \in About =>
            i + 0 \in DOMAIN orders /\ orders'[i] = orders[i + 0]
    BY <1>3, Indexed DEF About
  <1>5. \A i \in DOMAIN wire' : ReplyTo(i, About)' =>
            i + 0 \in DOMAIN wire /\ wire'[i] = wire[i + 0]
    BY <1>3, Indexed
  <1> QED
    BY <1>1, <1>2, <1>3, <1>4, <1>5, Indexed, Fewer

LEMMA ConfigureTold ==
    ASSUME ChannelTypes, HalTypes, Told, NEW c \in Clients, NEW p \in Profiles, Configure(c, p)
    PROVE  Told'
  <1>1. /\ c = "ws" /\ pc["ws"] = "ready" /\ Give("ws", "SENSOR", p) /\ UNCHANGED <<sensor, doubt, stale>>
        /\ goal'["ws"] = p /\ pc'["ws"] = "ask"
    BY DEF Configure, history, Goto, HalTypes
  <1>2. /\ UNCHANGED <<wire, profile>>
        /\ listed'["ws"].cmd = "SENSOR" /\ listed'["ws"].box = <<>>
        /\ \A i \in DOMAIN orders' :
              \/ i \in DOMAIN orders /\ orders'[i] = orders[i]
              \/ orders'[i].cmd = "SENSOR" /\ orders'[i].profile = p /\ i \notin DOMAIN orders
        /\ \A i, j \in DOMAIN orders' : i \notin DOMAIN orders /\ j \notin DOMAIN orders => i = j
    BY <1>1, Given DEF Commands
  <1>3. ~Asks("SENSOR") /\ ~Asks("SENSORS?")
    BY <1>1 DEF Asks
  <1>4. Asks("SENSOR")' /\ ~Asks("SENSORS?")' /\ Box' = <<>>
    BY <1>1, <1>2 DEF Asks, Box
  <1>5. ASSUME ~doubt PROVE OrdersAlone' /\ RepliesAlone' /\ BoxAlone'
    <2>1. OrdersAlone /\ RepliesAlone /\ sensor = profile
      BY <1>3, <1>5 DEF Told, Alone
    <2>2. NoOrder(About)
      BY <1>1, <2>1 DEF OrdersAlone, NoOrder, Asks
    <2>3. NoReply(About)
      BY <1>1, <2>1 DEF RepliesAlone, NoReply, Asks
    <2>4. NoReply(About)'
      BY <1>2, <2>3 DEF NoReply, ReplyTo
    <2>5. OrdersAlone'
      <3>1. \A i \in DOMAIN orders' : orders'[i].cmd \in About =>
                orders'[i].cmd = "SENSOR" /\ orders'[i].profile = p /\ i \notin DOMAIN orders
        BY <1>2, <2>2 DEF NoOrder
      <3> QED
        BY <1>1, <1>2, <1>4, <2>1, <2>4, <3>1 DEF OrdersAlone, Asks
    <2> QED
      BY <1>4, <2>4, <2>5 DEF RepliesAlone, BoxAlone, NoReply
  <1>6. ASSUME "SENSORS?" \notin stale PROVE OrdersFresh' /\ RepliesFresh' /\ BoxFresh'
    <2>1. OrdersFresh /\ RepliesFresh
      BY <1>6 DEF Told, Fresh
    <2>2. OrdersFresh'
      BY <1>2, <1>3, <2>1 DEF OrdersFresh
    <2>3. RepliesFresh'
      BY <1>2, <1>3, <2>1 DEF RepliesFresh, ReplyTo
    <2> QED
      BY <1>4, <2>2, <2>3 DEF BoxFresh
  <1> QED
    BY <1>1, <1>4, <1>5, <1>6 DEF Told, Alone, Fresh

LEMMA QueryTold ==
    ASSUME ChannelTypes, HalTypes, Listed, Told, NEW c \in Clients, Query(c)
    PROVE  Told'
  <1>1. /\ c = "ws" /\ pc["ws"] = "query" /\ Give("ws", "SENSORS?", Power)
        /\ UNCHANGED <<sensor, doubt, stale, goal>> /\ pc'["ws"] = "ask"
    BY DEF Query, history, Goto, HalTypes, Listed
  <1>2. /\ UNCHANGED <<wire, profile>>
        /\ listed'["ws"].cmd = "SENSORS?" /\ listed'["ws"].box = <<>>
        /\ \A i \in DOMAIN orders' :
              \/ i \in DOMAIN orders /\ orders'[i] = orders[i]
              \/ /\ orders'[i].cmd = "SENSORS?" /\ i \notin DOMAIN orders
                 /\ \A j \in DOMAIN orders' : j <= i
        /\ \A i, j \in DOMAIN orders' : i \notin DOMAIN orders /\ j \notin DOMAIN orders => i = j
    BY <1>1, Given, ClientAssumption DEF Commands
  <1>3. ~Asks("SENSOR") /\ ~Asks("SENSORS?")
    BY <1>1 DEF Asks
  <1>4. Asks("SENSORS?")' /\ ~Asks("SENSOR")' /\ Box' = <<>>
    BY <1>1, <1>2 DEF Asks, Box
  <1>5. ASSUME ~doubt PROVE sensor = profile /\ OrdersAlone' /\ RepliesAlone' /\ BoxAlone'
    <2>1. OrdersAlone /\ RepliesAlone /\ sensor = profile
      BY <1>3, <1>5 DEF Told, Alone
    <2>2. NoOrder(About)
      BY <1>1, <2>1 DEF OrdersAlone, NoOrder, Asks
    <2>3. NoReply(About)
      BY <1>1, <2>1 DEF RepliesAlone, NoReply, Asks
    <2>4. NoReply(About)'
      BY <1>2, <2>3 DEF NoReply, ReplyTo
    <2>5. OrdersAlone'
      <3>1. \A i \in DOMAIN orders' : orders'[i].cmd \in About =>
                orders'[i].cmd = "SENSORS?" /\ i \notin DOMAIN orders
        BY <1>2, <2>2 DEF NoOrder
      <3> QED
        BY <1>1, <1>2, <1>4, <2>1, <2>4, <3>1 DEF OrdersAlone, Asks
    <2> QED
      BY <1>4, <2>1, <2>4, <2>5 DEF RepliesAlone, BoxAlone, NoReply
  <1>6. ASSUME "SENSORS?" \notin stale PROVE OrdersFresh' /\ RepliesFresh' /\ BoxFresh'
    <2>1. OrdersFresh /\ RepliesFresh
      BY <1>6 DEF Told, Fresh
    <2>2. NoReply({"SENSORS?"})'
      BY <1>2, <1>3, <2>1 DEF RepliesFresh, ReplyTo, NoReply
    <2>3. OrdersFresh'
      <3>1. \A i \in DOMAIN orders : orders[i].cmd # "SENSORS?"
        BY <1>3, <2>1 DEF OrdersFresh
      <3> QED
        BY <1>2, <1>4, <2>2, <3>1 DEF OrdersFresh
    <2>4. RepliesFresh'
      BY <2>2 DEF RepliesFresh, NoReply
    <2> QED
      BY <1>4, <2>3, <2>4 DEF BoxFresh
  <1> QED
    BY <1>1, <1>2, <1>4, <1>5, <1>6 DEF Told, Alone, Fresh

LEMMA AnswerTold ==
    ASSUME ChannelTypes, HalTypes, Marks, Listed, Told, NEW c \in Clients, Answer(c)
    PROVE  Told'
  <1> DEFINE m == listed[c].box[1]
  <1>1. /\ pc[c] = "ask" /\ listed[c].box # <<>> /\ UNCHANGED <<goal, stale>>
        /\ sensor' = TakenOver(c, m) /\ doubt' = (doubt /\ (m.cmd # "SENSORS?" \/ ~m.ok \/ m.cmd \in stale))
        /\ UNCHANGED <<orders, wire, profile>> /\ listed' = [listed EXCEPT ![c] = NoRequest]
        /\ \E l \in {"query", "idle"} : Goto(c, l)
    BY Zenon DEF Answer, Answered, Unlist
  <1>2. m \in Messages /\ m.cmd = listed[c].cmd
    BY <1>1, Tailed DEF Listed, ChannelTypes, Requests
  <1>3. CASE c # "ws"
    <2>1. m.cmd = "INVOKE"
      BY <1>1, <1>2, <1>3 DEF Listed
    <2>2. sensor' = sensor /\ (doubt => doubt')
      BY <1>1, <2>1 DEF TakenOver
    <2>3. listed'["ws"] = listed["ws"] /\ ("ws" \in Clients => pc'["ws"] = pc["ws"])
      BY <1>1, <1>3 DEF ChannelTypes, HalTypes, Goto
    <2> QED
      BY <1>1, <2>2, <2>3, Quiet
  <1>4. CASE c = "ws"
    <2>1. m = Box[1] /\ Box # <<>> /\ Asks(m.cmd) /\ m.cmd \in About
      BY <1>1, <1>2, <1>4 DEF Box, Asks, Listed
    <2>2. pc'["ws"] # "ask" /\ Box' = <<>>
      BY <1>1, <1>4 DEF ChannelTypes, HalTypes, Goto, Box, NoRequest
    <2>3. ASSUME ~doubt' PROVE NoOrder(About) /\ NoReply(About) /\ sensor' = profile
      <3>1. CASE doubt
        <4>1. m.cmd = "SENSORS?" /\ m.ok /\ "SENSORS?" \notin stale
          BY <1>1, <1>2, <2>3, <3>1 DEF Messages
        <4> QED
          BY <1>1, <2>1, <4>1 DEF Told, Fresh, BoxFresh, TakenOver
      <3>2. CASE ~doubt
        <4>1. NoOrder(About) /\ NoReply(About) /\ Right(m)
          BY <1>4, <2>1, <3>2 DEF Told, Alone, BoxAlone
        <4>2. m.cmd = "SENSORS?" => sensor = profile
          BY <2>1, <3>2 DEF Told, Asks
        <4>3. sensor' = profile
          BY <1>1, <1>4, <2>1, <4>1, <4>2 DEF TakenOver, Right, About
        <4> QED
          BY <4>1, <4>3
      <3> QED
        BY <3>1, <3>2 DEF Marks
    <2>4. Alone'
      <3> SUFFICES ASSUME ~doubt' PROVE OrdersAlone' /\ RepliesAlone' /\ BoxAlone'
        BY DEF Alone
      <3>1. NoOrder(About)' /\ NoReply(About)'
        BY <1>1, <2>3 DEF NoOrder, NoReply, ReplyTo
      <3> QED
        BY <2>2, <3>1 DEF OrdersAlone, RepliesAlone, BoxAlone, NoOrder, NoReply
    <2>5. Fresh'
      <3> SUFFICES ASSUME "SENSORS?" \notin stale PROVE OrdersFresh' /\ RepliesFresh' /\ BoxFresh'
        BY <1>1 DEF Fresh
      <3>1. OrdersFresh /\ RepliesFresh
        BY DEF Told, Fresh
      <3>2. OrdersFresh'
        BY <1>1, <2>1, <3>1 DEF OrdersFresh
      <3>3. RepliesFresh'
        BY <1>1, <2>1, <3>1 DEF RepliesFresh, ReplyTo
      <3> QED
        BY <2>2, <3>2, <3>3 DEF BoxFresh
    <2> QED
      BY <1>1, <2>3, <2>4, <2>5 DEF Told
  <1> QED
    BY <1>3, <1>4

LEMMA AnswerTimeoutTold ==
    ASSUME ChannelTypes, HalTypes, Marks, Listed, Told, NEW c \in Clients, AnswerTimeout(c)
    PROVE  Told'
  <1>1. /\ pc[c] = "ask" /\ UNCHANGED <<goal, sensor>>
        /\ stale' = stale \cup {listed[c].cmd} /\ doubt' = (doubt \/ listed[c].cmd # "INVOKE")
        /\ UNCHANGED <<orders, wire, profile>> /\ listed' = [listed EXCEPT ![c] = NoRequest]
        /\ Goto(c, "idle")
    BY Zenon DEF AnswerTimeout, Unlist
  <1>2. CASE c # "ws"
    <2>1. stale \subseteq stale' /\ (doubt => doubt')
      BY <1>1
    <2>2. listed'["ws"] = listed["ws"] /\ ("ws" \in Clients => pc'["ws"] = pc["ws"])
      BY <1>1, <1>2 DEF ChannelTypes, HalTypes, Goto
    <2> QED
      BY <1>1, <2>1, <2>2, Quiet
  <1>3. CASE c = "ws"
    <2>1. listed["ws"].cmd \in About
      BY <1>1, <1>3 DEF Listed
    <2>2. doubt' /\ pc'["ws"] # "ask"
      BY <1>1, <1>3, <2>1 DEF About, HalTypes, Goto
    <2>3. Fresh'
      <3> SUFFICES ASSUME "SENSORS?" \notin stale'
                   PROVE  OrdersFresh' /\ RepliesFresh' /\ BoxFresh'
        BY DEF Fresh
      <3>1. OrdersFresh /\ RepliesFresh /\ ~Asks("SENSORS?")
        BY <1>1, <1>3 DEF Told, Fresh, Asks
      <3>2. OrdersFresh'
        BY <1>1, <3>1 DEF OrdersFresh
      <3>3. RepliesFresh'
        BY <1>1, <3>1 DEF RepliesFresh, ReplyTo
      <3> QED
        BY <2>2, <3>2, <3>3 DEF BoxFresh, Asks
    <2> QED
      BY <2>2, <2>3 DEF Told, Alone
  <1> QED
    BY <1>2, <1>3

\* A command that the chip carries out
LEMMA ObeyTold ==
    ASSUME ChannelTypes, HalTypes, Told, ChipObeys,
           UNCHANGED <<pc, goal, sensor, doubt, stale>>
    PROVE  Told'
  <1> DEFINE o == orders[1]
  <1>1. PICK ok \in BOOLEAN :
          /\ orders # <<>> /\ o \in Orders /\ orders' = Tail(orders)
          /\ profile' = IF o.cmd = "SENSOR" /\ ok THEN o.profile ELSE profile
          /\ wire' \in Seq(Messages)
          /\ \A i \in DOMAIN wire' :
                \/ i \in DOMAIN wire /\ wire'[i] = wire[i]
                \/ i = Len(wire) + 1 /\ wire'[i] = Message("response", o.cmd, ok, profile')
                \/ wire'[i] = Message("event", o.cmd, TRUE, profile')
          /\ \A i \in DOMAIN wire : i \in Nat /\ i <= Len(wire)
    BY Obeyed
  <1>2. /\ 1 \in DOMAIN orders /\ DOMAIN orders \subseteq Nat /\ DOMAIN orders' \subseteq Nat
        /\ \A i \in DOMAIN orders' : i + 1 \in DOMAIN orders /\ orders'[i] = orders[i + 1]
    BY <1>1, Tailed, Indexed DEF ChannelTypes
  <1>3. \A i \in DOMAIN wire' :
           \/ i \in DOMAIN wire /\ wire'[i] = wire[i]
           \/ /\ i = Len(wire) + 1 /\ wire'[i].kind = "response" /\ wire'[i].cmd = o.cmd
              /\ wire'[i].ok = ok /\ wire'[i].profile = profile'
           \/ wire'[i].kind = "event"
    BY <1>1 DEF Message
  <1>4. /\ DOMAIN wire' \subseteq Nat /\ Len(wire) \in Nat
        /\ \A i \in DOMAIN wire : i \in Nat /\ i <= Len(wire)
    BY <1>1 DEF ChannelTypes
  <1>5. listed' = listed
    BY DEF ChipObeys
  <1>6. CASE o.cmd = "INVOKE"
    <2>1. /\ \A i \in DOMAIN orders' : orders'[i].cmd \in About =>
                 i + 1 \in DOMAIN orders /\ orders'[i] = orders[i + 1]
          /\ \A i \in DOMAIN wire' : ReplyTo(i, About)' =>
                 i + 0 \in DOMAIN wire /\ wire'[i] = wire[i + 0]
          /\ DOMAIN wire \subseteq Nat
      BY <1>2, <1>3, <1>4, <1>6, Indexed DEF ReplyTo, About
    <2>2. profile' = profile
      BY <1>1, <1>6
    <2> QED
      BY <1>2, <1>4, <1>5, <2>1, <2>2, Fewer
  <1>7. CASE o.cmd = "SENSOR"
    <2>1. Alone'
      <3> SUFFICES ASSUME ~doubt PROVE OrdersAlone' /\ RepliesAlone' /\ BoxAlone'
        BY DEF Alone
      <3>1. /\ Asks("SENSOR") /\ Box = <<>> /\ NoReply(About) /\ sensor = profile /\ o.profile = goal["ws"]
            /\ \A j \in DOMAIN orders : orders[j].cmd \in About => j = 1
        BY <1>2, <1>7 DEF Told, Alone, OrdersAlone, About
      <3>2. NoOrder(About)'
        <4>1. \A i \in DOMAIN orders' : i \in Nat /\ i >= 1
          BY <1>1 DEF ChannelTypes
        <4> QED
          BY <1>2, <3>1, <4>1 DEF NoOrder
      <3>3. \A i \in DOMAIN wire' : ReplyTo(i, About)' =>
                /\ i = Len(wire) + 1 /\ wire'[i].cmd = "SENSOR" /\ wire'[i].ok = ok
                /\ wire'[i].profile = profile'
        BY <1>3, <1>7, <3>1 DEF NoReply, ReplyTo
      <3>4. Asks("SENSOR")' /\ Box' = <<>>
        BY <1>5, <3>1 DEF Asks, Box
      <3>5. RepliesAlone'
        BY <1>1, <1>7, <3>1, <3>2, <3>3, <3>4 DEF RepliesAlone, Asks, Right
      <3>6. OrdersAlone'
        BY <3>2 DEF OrdersAlone, NoOrder
      <3> QED
        BY <3>4, <3>5, <3>6 DEF BoxAlone
    <2>2. Fresh'
      <3> SUFFICES ASSUME "SENSORS?" \notin stale PROVE OrdersFresh' /\ RepliesFresh' /\ BoxFresh'
        BY DEF Fresh
      <3>1. OrdersFresh /\ RepliesFresh /\ BoxFresh
        BY DEF Told, Fresh
      <3>2. Box' = Box /\ (Asks("SENSORS?")' <=> Asks("SENSORS?"))
        BY <1>5 DEF Asks, Box
      <3>3. \A i \in DOMAIN wire : ~ReplyTo(i, {"SENSORS?"})
        BY <1>2, <1>7, <3>1 DEF RepliesFresh, NoOrder, About
      <3>4. NoReply({"SENSORS?"})'
        BY <1>3, <1>7, <3>3 DEF NoReply, ReplyTo
      <3>5. OrdersFresh'
        BY <1>2, <3>1, <3>2, <3>4 DEF OrdersFresh
      <3>6. RepliesFresh'
        BY <3>4 DEF RepliesFresh, NoReply
      <3>7. ~(Asks("SENSORS?") /\ Box # <<>>)
        BY <1>2, <1>7, <3>1 DEF BoxFresh, NoOrder, About
      <3> QED
        BY <3>2, <3>5, <3>6, <3>7 DEF BoxFresh
    <2>3. ~doubt => Asks("SENSOR")
      BY <1>2, <1>7 DEF Told, Alone, OrdersAlone, About
    <2> QED
      BY <1>5, <2>1, <2>2, <2>3 DEF Told, Asks
  <1>8. CASE o.cmd = "SENSORS?"
    <2>1. Alone'
      <3> SUFFICES ASSUME ~doubt PROVE OrdersAlone' /\ RepliesAlone' /\ BoxAlone'
        BY DEF Alone
      <3>1. /\ Asks("SENSORS?") /\ Box = <<>> /\ NoReply(About) /\ sensor = profile
            /\ \A j \in DOMAIN orders : orders[j].cmd \in About => j = 1
        BY <1>2, <1>8 DEF Told, Alone, OrdersAlone, About
      <3>2. NoOrder(About)'
        <4>1. \A i \in DOMAIN orders' : i \in Nat /\ i >= 1
          BY <1>1 DEF ChannelTypes
        <4> QED
          BY <1>2, <3>1, <4>1 DEF NoOrder
      <3>3. \A i \in DOMAIN wire' : ReplyTo(i, About)' =>
                /\ i = Len(wire) + 1 /\ wire'[i].cmd = "SENSORS?" /\ wire'[i].ok = ok
                /\ wire'[i].profile = profile'
        BY <1>3, <1>8, <3>1 DEF NoReply, ReplyTo
      <3>4. Asks("SENSORS?")' /\ Box' = <<>>
        BY <1>5, <3>1 DEF Asks, Box
      <3>5. RepliesAlone'
        BY <1>1, <1>8, <3>1, <3>2, <3>3, <3>4 DEF RepliesAlone, Asks, Right
      <3>6. OrdersAlone'
        BY <3>2 DEF OrdersAlone, NoOrder
      <3> QED
        BY <3>4, <3>5, <3>6 DEF BoxAlone
    <2>2. Fresh'
      <3> SUFFICES ASSUME "SENSORS?" \notin stale PROVE OrdersFresh' /\ RepliesFresh' /\ BoxFresh'
        BY DEF Fresh
      <3>1. /\ Asks("SENSORS?") /\ Box = <<>> /\ NoReply({"SENSORS?"})
            /\ \A j \in DOMAIN orders : orders[j].cmd \in About => j <= 1
        BY <1>2, <1>8 DEF Told, Fresh, OrdersFresh
      <3>2. Asks("SENSORS?")' /\ Box' = <<>>
        BY <1>5, <3>1 DEF Asks, Box
      <3>3. NoOrder(About)'
        <4>1. \A i \in DOMAIN orders' : i \in Nat /\ i >= 1
          BY <1>1 DEF ChannelTypes
        <4> QED
          BY <1>2, <3>1, <4>1 DEF NoOrder
      <3>4. \A i \in DOMAIN wire' : i \in Nat /\ (ReplyTo(i, {"SENSORS?"})' =>
                i = Len(wire) + 1 /\ wire'[i].profile = profile')
        BY <1>3, <1>4, <3>1 DEF NoReply, ReplyTo
      <3>5. \A i \in DOMAIN wire' : ReplyTo(i, About)' => i <= Len(wire) + 1
        BY <1>3, <1>4 DEF ReplyTo
      <3>6. RepliesFresh'
        BY <3>2, <3>3, <3>4, <3>5 DEF RepliesFresh
      <3>7. OrdersFresh'
        BY <3>3 DEF OrdersFresh, NoOrder, About
      <3> QED
        BY <3>2, <3>6, <3>7 DEF BoxFresh
    <2>3. profile' = profile
      BY <1>1, <1>8
    <2> QED
      BY <1>5, <2>1, <2>2, <2>3 DEF Told, Asks
  <1> QED
    BY <1>1, <1>6, <1>7, <1>8 DEF Orders, Commands

\* A message that the process task reads
LEMMA ReadTold ==
    ASSUME ChannelTypes, HalTypes, Listed, Answers, Told, Read,
           UNCHANGED <<pc, goal, sensor, doubt, stale>>
    PROVE  Told'
  <1> DEFINE m == wire[1]
  <1>1. /\ wire # <<>> /\ m \in Messages /\ wire' = Tail(wire)
        /\ UNCHANGED <<orders, profile>>
        /\ \/ /\ Waiting(m) = {} /\ listed' = listed
           \/ \E c \in Waiting(m) :
                 listed' = [listed EXCEPT ![c].box = IF @ = <<>> THEN <<m>> ELSE @]
    BY ReadMessage DEF Read
  <1>2. /\ 1 \in DOMAIN wire /\ DOMAIN wire \subseteq Nat /\ DOMAIN wire' \subseteq Nat
        /\ \A i \in DOMAIN wire' : i \in Nat /\ i >= 1 /\ i + 1 \in DOMAIN wire /\ wire'[i] = wire[i + 1]
    BY <1>1, Tailed, Indexed DEF ChannelTypes
  <1>3. CASE listed'["ws"] = listed["ws"]
    <2>1. /\ \A i \in DOMAIN orders' : orders'[i].cmd \in About =>
                 i + 0 \in DOMAIN orders /\ orders'[i] = orders[i + 0]
          /\ \A i \in DOMAIN wire' : ReplyTo(i, About)' =>
                 i + 1 \in DOMAIN wire /\ wire'[i] = wire[i + 1]
          /\ DOMAIN orders \subseteq Nat /\ DOMAIN orders' \subseteq Nat
      BY <1>1, <1>2, Indexed
    <2> QED
      BY <1>1, <1>2, <1>3, <2>1, Fewer
  <1>4. CASE listed'["ws"] # listed["ws"]
    <2>1. /\ "ws" \in Waiting(m)
          /\ listed' = [listed EXCEPT !["ws"].box = IF @ = <<>> THEN <<m>> ELSE @]
      <3>1. PICK c \in Waiting(m) :
              listed' = [listed EXCEPT ![c].box = IF @ = <<>> THEN <<m>> ELSE @]
        BY <1>1, <1>4
      <3>2. c = "ws"
        <4> DEFINE b == IF listed[c].box = <<>> THEN <<m>> ELSE listed[c].box
        <4>1. listed' = [listed EXCEPT ![c].box = b]
          BY <3>1
        <4> HIDE DEF b
        <4> QED
          BY <1>4, <4>1 DEF ChannelTypes
      <3> QED
        BY <3>1, <3>2
    <2>2. /\ ReplyTo(1, About) /\ listed["ws"].cmd = m.cmd /\ Asks(m.cmd) /\ m.cmd \in About
      <3>1. "ws" \in Clients /\ m.kind = "response" /\ listed["ws"].cmd = m.cmd
        BY <2>1 DEF Waiting
      <3>2. m.cmd \in Commands
        BY <1>2, <3>1 DEF Answers
      <3>3. pc["ws"] = "ask" /\ m.cmd \in About
        BY <3>1, <3>2 DEF Listed, Commands, About
      <3> QED
        BY <3>1, <3>3 DEF ReplyTo, Asks
    <2>3. /\ listed'["ws"].cmd = m.cmd
          /\ Box = <<>> => Box' = <<m>> /\ Box' # <<>> /\ Box'[1] = m
      BY <2>1, <2>2 DEF ChannelTypes, Requests, Box, Waiting
    <2>4. Asks("SENSOR")' = Asks("SENSOR") /\ Asks("SENSORS?")' = Asks("SENSORS?")
      BY <2>2, <2>3 DEF Asks
    <2>5. Alone'
      <3> SUFFICES ASSUME ~doubt PROVE OrdersAlone' /\ RepliesAlone' /\ BoxAlone'
        BY DEF Alone
      <3>1. /\ Box = <<>> /\ NoOrder(About) /\ Right(m)
            /\ \A j \in DOMAIN wire : ReplyTo(j, About) => j = 1
        BY <1>2, <2>2 DEF Told, Alone, RepliesAlone
      <3>2. NoOrder(About)' /\ NoReply(About)'
        BY <1>1, <1>2, <3>1 DEF NoOrder, NoReply, ReplyTo
      <3>3. OrdersAlone' /\ RepliesAlone'
        BY <3>2 DEF OrdersAlone, RepliesAlone, NoOrder, NoReply
      <3>4. Right(m) => Right(Box[1])'
        BY <1>1, <2>3, <3>1 DEF Right
      <3> QED
        BY <3>1, <3>2, <3>3, <3>4 DEF BoxAlone
    <2>6. Fresh'
      <3> SUFFICES ASSUME "SENSORS?" \notin stale PROVE OrdersFresh' /\ RepliesFresh' /\ BoxFresh'
        BY DEF Fresh
      <3>1. CASE m.cmd = "SENSORS?"
        <4>1. /\ Box = <<>> /\ NoOrder(About) /\ m.profile = profile
              /\ \A j \in DOMAIN wire : ReplyTo(j, About) => j <= 1
          BY <1>2, <2>2, <3>1 DEF Told, Fresh, RepliesFresh, ReplyTo
        <4>2. NoOrder(About)' /\ NoReply(About)'
          BY <1>1, <1>2, <4>1 DEF NoOrder, NoReply, ReplyTo
        <4>3. OrdersFresh' /\ RepliesFresh'
          BY <4>2 DEF OrdersFresh, RepliesFresh, NoOrder, NoReply, ReplyTo, About
        <4>4. Box'[1].profile = profile'
          BY <1>1, <2>3, <4>1
        <4> QED
          BY <4>2, <4>3, <4>4 DEF BoxFresh
      <3>2. CASE m.cmd # "SENSORS?"
        <4>1. ~Asks("SENSORS?") /\ ~Asks("SENSORS?")'
          BY <2>2, <2>4, <3>2 DEF Asks
        <4>2. OrdersFresh /\ RepliesFresh
          BY DEF Told, Fresh
        <4>3. OrdersFresh' /\ RepliesFresh'
          BY <1>1, <1>2, <4>1, <4>2 DEF OrdersFresh, RepliesFresh, ReplyTo
        <4> QED
          BY <4>1, <4>3 DEF BoxFresh
      <3> QED
        BY <3>1, <3>2
    <2> QED
      BY <1>1, <2>4, <2>5, <2>6 DEF Told
  <1> QED
    BY <1>3, <1>4

LEMMA ToldStep ==
    ASSUME ChannelTypes, HalTypes, Marks, Listed, Untouched, Answers, Told, [Next]_vars
    PROVE  Told'
  <1>1. ASSUME NEW c \in Clients, Call(c) \/ Initialise(c) PROVE Told'
    BY <1>1, InitialiseTold
  <1>2. ASSUME NEW c \in Clients, Use(c) PROVE Told'
    <2>1. CASE Busy(c) \/ Spent(c)
      <3>1. /\ UNCHANGED <<orders, wire, profile, listed, sensor, goal, stale>>
            /\ pc[c] # "ask" /\ pc' = [pc EXCEPT ![c] = "idle"]
            /\ doubt' = doubt \/ doubt' = (doubt \/ pc[c] = "query")
        BY <2>1, Zenon DEF Busy, Spent, client, history, Goto
      <3>2. "ws" \in Clients => (pc'["ws"] = "ask" <=> pc["ws"] = "ask")
        BY <3>1 DEF HalTypes
      <3>3. doubt => doubt'
        BY <3>1
      <3> QED
        BY <3>1, <3>2, <3>3, Quiet
    <2> QED
      BY <1>2, <2>1, InvokeTold, QueryTold, AnswerTold, AnswerTimeoutTold, ConfigureTold DEF Use
  <1>3. CASE Monitor \/ UNCHANGED vars
    BY <1>3, Quiet DEF Monitor, TakeReply, vars, client, history
  <1>4. CASE Environment
    <2>1. UNCHANGED <<pc, goal, sensor, doubt, stale>>
      BY <1>4 DEF Environment, history
    <2>2. CASE ChipBoots
      <3> DEFINE e == Message("init", "none", TRUE, Power)
      <3>1. e \in Messages /\ e.kind = "init"
        BY MessageTyped, ClientAssumption DEF Commands, Message
      <3>2. wire' = Append(wire, e) /\ UNCHANGED <<orders, profile, listed>>
        BY <2>2 DEF ChipBoots
      <3> HIDE DEF e
      <3>3. /\ wire' \in Seq(Messages) /\ DOMAIN wire' \subseteq Nat
            /\ \A i \in DOMAIN wire' : \/ i \in DOMAIN wire /\ wire'[i] = wire[i]
                                       \/ wire'[i] = e
        BY <3>1, <3>2, Appended DEF ChannelTypes
      <3>4. /\ \A i \in DOMAIN wire' : ReplyTo(i, About)' =>
                   i + 0 \in DOMAIN wire /\ wire'[i] = wire[i + 0]
            /\ \A i \in DOMAIN orders' : orders'[i].cmd \in About =>
                   i + 0 \in DOMAIN orders /\ orders'[i] = orders[i + 0]
        BY <3>1, <3>2, <3>3, Indexed DEF ReplyTo
      <3> QED
        BY <2>1, <3>2, <3>3, <3>4, Indexed, Fewer
    <2> QED
      BY <1>4, <2>1, <2>2, ObeyTold, ReadTold DEF Environment, ChipStep
  <1>5. CASE Fault
    <2>0. UNCHANGED <<pc, goal, sensor>>
      BY <1>5 DEF Fault
    <2>1. CASE LoseMessage
      <3>1. wire # <<>> /\ wire' = Tail(wire) /\ UNCHANGED <<orders, profile, listed, chip>>
        BY <2>1 DEF LoseMessage
      <3>2. UNCHANGED <<doubt, stale>>
        BY <1>5, <3>1 DEF Fault
      <3>3. /\ DOMAIN wire' \subseteq Nat
            /\ \A i \in DOMAIN wire' : ReplyTo(i, About)' =>
                   i + 1 \in DOMAIN wire /\ wire'[i] = wire[i + 1]
            /\ \A i \in DOMAIN orders' : orders'[i].cmd \in About =>
                   i + 0 \in DOMAIN orders /\ orders'[i] = orders[i + 0]
        BY <3>1, Tailed, Indexed DEF ChannelTypes
      <3> QED
        BY <2>0, <3>1, <3>2, <3>3, Indexed, Fewer
    <2>2. CASE ChipCrashes
      <3>1. orders' = <<>> /\ UNCHANGED <<wire, listed>> /\ chip' # chip
        BY <2>2 DEF ChipCrashes
      <3>2. doubt' /\ stale' = (stale \cup {listed[c].cmd : c \in Clients}) \ {"none"}
        BY <1>5, <3>1 DEF Fault
      <3>3. Fresh'
        <4> SUFFICES ASSUME "SENSORS?" \notin stale'
                     PROVE  OrdersFresh' /\ RepliesFresh' /\ BoxFresh'
          BY DEF Fresh
        <4>1. RepliesFresh /\ ~Asks("SENSORS?")
          BY <3>2 DEF Told, Fresh, Asks
        <4>2. RepliesFresh' /\ ~Asks("SENSORS?")'
          BY <2>0, <3>1, <4>1 DEF RepliesFresh, ReplyTo, Asks
        <4> QED
          BY <3>1, <4>2 DEF OrdersFresh, BoxFresh
      <3> QED
        BY <3>2, <3>3 DEF Told, Alone
    <2> QED
      BY <1>5, <2>1, <2>2 DEF Fault
  <1> QED
    BY <1>1, <1>2, <1>3, <1>4, <1>5 DEF Next

-----------------------------------------------------------------------------
(* Theorems *)

Invariant ==
    /\ ChannelTypes /\ HalTypes /\ Marks /\ Counts
    /\ Listed /\ Untouched /\ Answers /\ OneMark /\ Told

LEMMA InvariantInit == Init => Invariant
  <1> SUFFICES ASSUME Init PROVE Invariant
    OBVIOUS
  <1> USE ClientAssumption, CallsAssumption DEF Init, ClientInit
  <1>1. ChannelTypes
    BY NoRequestTyped DEF ChannelTypes, NoRequest
  <1>2. HalTypes /\ Marks
    BY DEF HalTypes, Marks
  <1>5. Counts /\ Answers
    BY DEF Counts, Answers
  <1>6. Untouched
    BY DEF Untouched
  <1>3. Listed /\ OneMark
    BY DEF Listed, OneMark, Initialising, NoRequest
  <1>4. Told
    <2>1. \A i \in DOMAIN orders : FALSE
      OBVIOUS
    <2>2. \A i \in DOMAIN wire : FALSE
      OBVIOUS
    <2>3. "ws" \in Clients => Box = <<>> /\ ~Asks("SENSORS?")
      BY DEF Box, Asks, NoRequest
    <2>4. OrdersAlone /\ RepliesAlone /\ OrdersFresh /\ RepliesFresh
      BY <2>1, <2>2, Zenon DEF OrdersAlone, RepliesAlone, OrdersFresh, RepliesFresh
    <2>5. BoxAlone /\ BoxFresh
      BY <2>3, Zenon DEF BoxAlone, BoxFresh, Asks
    <2> QED
      BY <2>4, <2>5 DEF Told, Alone, Fresh
  <1> QED
    BY <1>1, <1>2, <1>3, <1>4, <1>5, <1>6 DEF Invariant

LEMMA InvariantStep == Invariant /\ [Next]_vars => Invariant'
  BY ChannelStep, HalStep, MarksStep, CountsStep, ListedStep, UntouchedStep, AnswersStep,
     OneMarkStep, ToldStep
     DEF Invariant

LEMMA InvariantTypes == Invariant => TypeOK
  <1> SUFFICES ASSUME Invariant PROVE TypeOK
    OBVIOUS
  <1>1. ClientTypeOK
    <2>1. \A c \in Clients : listed[c] \in Requests
      BY DEF Invariant, ChannelTypes
    <2>2. /\ \A i \in DOMAIN orders : orders[i] \in Orders
          /\ \A i \in DOMAIN wire : wire[i] \in Messages
          /\ \A i \in DOMAIN replies : replies[i] \in Messages
          /\ \A c \in Clients : \A i \in DOMAIN listed[c].box : listed[c].box[i] \in Messages
      BY <2>1 DEF Invariant, ChannelTypes, Requests
    <2> QED
      BY <2>1, <2>2 DEF Invariant, ChannelTypes, Marks, ClientTypeOK, Orders, Requests
  <1> QED
    BY <1>1 DEF TypeOK, Invariant, HalTypes, Marks, Counts

\* Every variable of the client, of the HAL and of the chip has its type, and the event queue and
\* the box of each request hold no more than they can.
THEOREM LinkTypes == Spec => []TypeOK
  BY InvariantInit, InvariantStep, InvariantTypes, PTL DEF Spec

\* One task at a time brings up the chip, and the mark that keeps the others out is there exactly
\* as long; and the profile that the HAL holds to be the one of the sensor is that of the chip, unless
\* a command about it is on the way, was given up, or the chip has restarted.
THEOREM MarksAreTrue == Spec => []MarksTrue
  <1>1. Invariant => MarksTrue
    BY OneCounted, SensorSeen DEF Invariant, MarksTrue, Told
  <1> QED
    BY <1>1, InvariantInit, InvariantStep, PTL DEF Spec

-----------------------------------------------------------------------------
-----------------------------------------------------------------------------
(* Discovery: the inductive invariant *)

\* Where the turns of a round are, and how long a wait may last.
Turns ==
    /\ phase = "check" => retry < Retries
    /\ phase \in {"read", "pause"} => retry >= 1
    /\ phase = "rest" => retry = 0 /\ sent = Retries
    /\ phase \in {"read", "pause", "rest"} => clock <= until
    /\ phase = "read" => until <= Timeout + 1
    /\ phase = "pause" => until <= Timeout + 2
    /\ clock <= Timeout + Interval - 1 /\ until <= Timeout + Interval - 1

\* The first round: as many turns as broadcasts, and each within its time.
FirstRound ==
    sent < Retries =>
        /\ phase \in {"check", "read", "pause"} => sent = retry
        /\ phase = "check" => clock <= 3 * retry
        /\ phase = "read" => until <= 3 * retry - 1
        /\ phase = "pause" => until <= 3 * retry

AllLate == \A i \in 1 .. Len(inbox) : inbox[i].late

\* A search that no other device disturbs: every turn takes its whole time, so there is one
\* round, and what came before its last second has been read.
Undisturbed ==
    ~disturbed =>
        /\ clock <= Timeout
        /\ phase = "check" => \/ clock = 3 * retry /\ sent = retry
                              \/ clock = Timeout /\ sent = Retries /\ AllLate
        /\ phase = "read" => until = 3 * retry - 1 /\ sent = retry
        /\ phase = "pause" => /\ until = 3 * retry /\ clock >= 3 * retry - 1 /\ sent = retry
                              /\ retry = Retries => AllLate
        /\ phase = "rest" => until = Timeout /\ clock >= Timeout - 1 /\ AllLate

\* The version that is held is of the server that is held, unless that one announces none.
Known ==
    /\ phase # "idle" => used = None
    /\ info.ip # None => Version[info.ip] \in {info.version, Silent}

SearchInv == SearchTypeOK /\ Turns /\ FirstRound /\ Undisturbed /\ Known /\ OtherVersionRefused

-----------------------------------------------------------------------------
(* Lemmas about the datagrams in the socket *)

LEMMA TailFacts ==
    ASSUME NEW q \in Seq(Datagrams), q # <<>>
    PROVE  /\ q[1] \in Datagrams
           /\ Tail(q) \in Seq(Datagrams)
           /\ Len(q) \in Nat \ {0} /\ Len(Tail(q)) = Len(q) - 1
  OBVIOUS

LEMMA AppendFacts ==
    ASSUME NEW q \in Seq(Datagrams), NEW d \in Datagrams
    PROVE  /\ Append(q, d) \in Seq(Datagrams)
           /\ Len(Append(q, d)) = Len(q) + 1
           /\ \A i \in 1 .. Len(Append(q, d)) :
                 Append(q, d)[i] = IF i = Len(q) + 1 THEN d ELSE q[i]
  OBVIOUS

\* What comes in the last second is late, and so is all that was.
LEMMA ArriveFacts ==
    ASSUME SearchTypeOK, NEW from \in Servers \cup {Other}, Arrive(from)
    PROVE  /\ inbox' \in Seq(Datagrams) /\ Len(inbox') <= Room
           /\ AllLate /\ clock >= Timeout - 2 => AllLate'
  <1> DEFINE d == [from |-> from, late |-> clock >= Timeout - Listen]
  <1>1. d \in Datagrams /\ inbox \in Seq(Datagrams) /\ inbox' = Append(inbox, d)
    BY DEF Arrive, Datagrams, SearchTypeOK
  <1>2. Len(inbox) \in Nat /\ Room \in Nat /\ Len(inbox) < Room
    BY <1>1, DiscoveryAssumption DEF Arrive
  <1>3. clock >= Timeout - 2 => d.late
    BY DEF Listen
  <1> HIDE DEF d
  <1>4. inbox' \in Seq(Datagrams) /\ Len(inbox') = Len(inbox) + 1
    BY <1>1, AppendFacts
  <1>5. ASSUME AllLate, clock >= Timeout - 2 PROVE AllLate'
    <2> SUFFICES ASSUME NEW i \in 1 .. Len(inbox') PROVE inbox'[i].late
      BY DEF AllLate
    <2>1. inbox'[i] = IF i = Len(inbox) + 1 THEN d ELSE inbox[i]
      BY <1>1, AppendFacts
    <2>2. CASE i = Len(inbox) + 1
      BY <2>1, <2>2, <1>3, <1>5
    <2>3. CASE i # Len(inbox) + 1
      <3>1. i \in 1 .. Len(inbox)
        BY <2>3, <1>2, <1>4
      <3> QED
        BY <2>1, <2>3, <3>1, <1>5 DEF AllLate
    <2> QED
      BY <2>2, <2>3
  <1> QED
    BY <1>2, <1>4, <1>5

-----------------------------------------------------------------------------
(* Type correctness *)

LEMMA Numbers ==
    /\ Timeout \in Nat /\ Retries \in Nat \ {0} /\ Interval \in Nat /\ Room \in Nat
    /\ MaxSearches \in Nat /\ MaxOther \in Nat /\ MaxAnswers \in Nat
    /\ Timeout = 3 * Retries + 1 /\ Interval >= 4
    /\ Listen = 2 /\ Pause = 1
  BY DiscoveryAssumption, RoundAssumption DEF Listen, Pause

LEMMA RestTimeFacts ==
    ASSUME clock \in Nat
    PROVE  /\ RestTime \in Nat /\ RestTime >= 1
           /\ RestTime <= Interval - 3
           /\ clock = Timeout - 1 => RestTime = 1
           /\ clock < Timeout => clock + RestTime <= Timeout
  BY Numbers DEF RestTime

LEMMA SearchTypeInit == SearchInit => SearchTypeOK
  <1>1. <<>> \in Seq(Datagrams) /\ Len(<<>>) = 0
    OBVIOUS
  <1>2. Unknown.ip = None /\ Unknown.version = Silent
    BY DEF Unknown
  <1>3. SearchInit => inbox \in Seq(Datagrams) /\ Len(inbox) <= Room
    BY <1>1, Numbers DEF SearchInit
  <1>4. SearchInit => info.ip \in Servers \cup {None}
    BY <1>2 DEF SearchInit
  <1>5. SearchInit => info.version \in {Version[s] : s \in Servers} \cup {Silent}
    BY <1>2 DEF SearchInit
  <1>6. SearchInit => /\ phase = "idle" /\ clock \in Nat /\ until \in Nat /\ retry \in 0 .. Retries
                      /\ sent \in 0 .. Retries /\ used = None
    BY Numbers DEF SearchInit
  <1>7. SearchInit => disturbed \in BOOLEAN
    BY DEF SearchInit
  <1>8. SearchInit => /\ searches \in 0 .. MaxSearches /\ others \in 0 .. MaxOther
                      /\ answers \in 0 .. MaxAnswers
    BY Numbers DEF SearchInit
  <1> QED
    BY <1>3, <1>4, <1>5, <1>6, <1>7, <1>8 DEF SearchTypeOK

LEMMA SearchTypeStep ==
    ASSUME SearchTypeOK, Turns, [SearchNext]_searchVars
    PROVE  SearchTypeOK'
  <1> USE DEF SearchTypeOK
  <1>1. ASSUME Begin PROVE SearchTypeOK'
    <2>1. <<>> \in Seq(Datagrams) /\ Len(<<>>) = 0
      OBVIOUS
    <2>2. disturbed' \in BOOLEAN
      BY <1>1 DEF Begin
    <2>3. searches' \in 0 .. MaxSearches
      BY <1>1, Numbers DEF Begin
    <2>4. phase' = "check" /\ clock' = 0 /\ until' = 0 /\ retry' = 0 /\ sent' = 0
      BY <1>1 DEF Begin
    <2>5. inbox' \in Seq(Datagrams) /\ Len(inbox') <= Room
      BY <1>1, <2>1, Numbers DEF Begin
    <2>6. used' = None /\ UNCHANGED <<info, others, answers>>
      BY <1>1 DEF Begin
    <2> QED
      BY <2>2, <2>3, <2>4, <2>5, <2>6, Numbers
  <1>2. ASSUME NEW s \in Servers, ServerAnswers(s) PROVE SearchTypeOK'
    <2>1. inbox' \in Seq(Datagrams) /\ Len(inbox') <= Room
      BY <1>2, ArriveFacts DEF ServerAnswers
    <2> QED
      BY <1>2, <2>1, Numbers DEF ServerAnswers
  <1>3. ASSUME OtherDevice PROVE SearchTypeOK'
    <2>1. inbox' \in Seq(Datagrams) /\ Len(inbox') <= Room
      BY <1>3, ArriveFacts DEF OtherDevice
    <2> QED
      BY <1>3, <2>1, Numbers DEF OtherDevice
  <1>4. ASSUME Broadcast PROVE SearchTypeOK'
    <2>1. retry + 1 \in 0 .. Retries /\ clock + Listen \in Nat
      BY <1>4, Numbers DEF Broadcast, Turns
    <2>2. sent' \in 0 .. Retries
      BY <1>4, Numbers, SMTT(30) DEF Broadcast
    <2>3. phase' = "read" /\ retry' \in 0 .. Retries /\ until' \in Nat
      BY <1>4, <2>1 DEF Broadcast
    <2>4. UNCHANGED <<clock, inbox, info, used, searches, others, answers, disturbed>>
      BY <1>4 DEF Broadcast
    <2> QED
      BY <2>2, <2>3, <2>4
  <1>5. ASSUME ReadAnnounce PROVE SearchTypeOK'
    <2>0. inbox[1] \in Datagrams /\ inbox[1].from # Other
      BY <1>5, TailFacts DEF ReadAnnounce
    <2>1. /\ inbox[1].from \in Servers
          /\ Tail(inbox) \in Seq(Datagrams) /\ Len(Tail(inbox)) <= Room
      <3>1. inbox[1].from \in Servers
        BY <2>0 DEF Datagrams
      <3> QED
        BY <1>5, <3>1, TailFacts, Numbers DEF ReadAnnounce
    <2>2. /\ info'.ip \in Servers \cup {None}
          /\ info'.version \in {Version[s] : s \in Servers} \cup {Silent}
      BY <1>5, <2>1 DEF ReadAnnounce, Announced
    <2> QED
      BY <1>5, <2>1, <2>2 DEF ReadAnnounce
  <1>6. ASSUME Turn, UNCHANGED clock
        PROVE  phase' \in {"check", "rest"} /\ retry' \in 0 .. Retries /\ until' \in Nat
    BY <1>6, RestTimeFacts, Numbers DEF Turn
  <1>7. ASSUME ReadOther PROVE SearchTypeOK'
    <2>1. Tail(inbox) \in Seq(Datagrams) /\ Len(Tail(inbox)) <= Room
      BY <1>7, TailFacts, Numbers DEF ReadOther
    <2> QED
      BY <1>6, <1>7, <2>1 DEF ReadOther
  <1>8. ASSUME ReadTimeout PROVE SearchTypeOK'
    BY <1>8, Numbers DEF ReadTimeout
  <1>9. ASSUME PauseEnds PROVE SearchTypeOK'
    BY <1>6, <1>9 DEF PauseEnds
  <1>10. ASSUME GiveUp \/ RestEnds PROVE SearchTypeOK'
    BY <1>10 DEF GiveUp, RestEnds
  <1>11. ASSUME Judge PROVE SearchTypeOK'
    BY <1>11 DEF Judge
  <1>12. ASSUME Tick PROVE SearchTypeOK'
    BY <1>12 DEF Tick
  <1>13. ASSUME UNCHANGED searchVars PROVE SearchTypeOK'
    BY <1>13 DEF searchVars
  <1> QED
    BY <1>1, <1>2, <1>3, <1>4, <1>5, <1>7, <1>8, <1>9, <1>10, <1>11, <1>12, <1>13
       DEF SearchNext, Search

-----------------------------------------------------------------------------
(* Which server is connected to *)

LEMMA VersionStep ==
    ASSUME SearchTypeOK, Known, OtherVersionRefused, [SearchNext]_searchVars
    PROVE  Known' /\ OtherVersionRefused'
  <1> USE DEF Known, OtherVersionRefused
  <1>1. ASSUME Begin PROVE Known' /\ OtherVersionRefused'
    BY <1>1 DEF Begin
  <1>2. ASSUME ReadAnnounce PROVE Known' /\ OtherVersionRefused'
    <2> DEFINE s == inbox[1].from
    <2>1. used' = None /\ info' = Announced(s)
      BY <1>2 DEF ReadAnnounce
    <2>2. info'.ip = s /\ Version[s] \in {info'.version, Silent}
      BY <2>1 DEF Announced
    <2> HIDE DEF s
    <2> QED
      BY <2>1, <2>2
  <1>3. ASSUME Judge PROVE Known' /\ OtherVersionRefused'
    BY <1>3 DEF Judge, Matches
  <1>4. ASSUME \/ GiveUp \/ Broadcast \/ ReadOther \/ ReadTimeout \/ PauseEnds \/ RestEnds \/ Tick
               \/ OtherDevice \/ \E s \in Servers : ServerAnswers(s)
        PROVE  Known' /\ OtherVersionRefused'
    <2>1. UNCHANGED <<info, used>>
      BY <1>4 DEF GiveUp, Broadcast, ReadOther, ReadTimeout, PauseEnds, RestEnds, Tick,
                  OtherDevice, ServerAnswers
    <2>2. phase' # "idle" => phase # "idle" \/ used = None
      BY <1>4 DEF GiveUp, Broadcast, ReadOther, ReadTimeout, PauseEnds, RestEnds, Tick, Turn,
                  OtherDevice, ServerAnswers
    <2> QED
      BY <2>1, <2>2
  <1>5. ASSUME UNCHANGED searchVars PROVE Known' /\ OtherVersionRefused'
    BY <1>5 DEF searchVars
  <1> QED
    BY <1>1, <1>2, <1>3, <1>4, <1>5 DEF SearchNext, Search

-----------------------------------------------------------------------------
(* What a search does in its time *)

Rounds == Turns /\ FirstRound /\ Undisturbed

\* The end of a turn: either the round goes on, or the rest begins.
LEMMA TurnFacts ==
    ASSUME SearchTypeOK, Turns, phase \in {"read", "pause"}, Turn, UNCHANGED <<clock, sent>>
    PROVE  \/ /\ phase' = "check" /\ retry < Retries /\ retry' = retry /\ until' = until
           \/ /\ phase' = "rest" /\ retry = Retries /\ retry' = 0
              /\ until' = clock + RestTime /\ clock <= until'
  BY RestTimeFacts, Numbers DEF SearchTypeOK, Turns, Turn

LEMMA RoundsStep ==
    ASSUME SearchTypeOK, Rounds, [SearchNext]_searchVars
    PROVE  Rounds'
  <1> USE Numbers DEF SearchTypeOK
  <1>1. ASSUME Begin PROVE Rounds'
    BY <1>1 DEF Begin, Rounds, Turns, FirstRound, Undisturbed
  <1>2. ASSUME NEW s \in Servers \cup {Other}, Arrive(s),
               UNCHANGED <<phase, clock, until, retry, sent, disturbed>>
        PROVE  Rounds'
    <2>1. Turns' /\ FirstRound'
      BY <1>2 DEF Rounds, Turns, FirstRound
    <2>2. AllLate /\ clock >= Timeout - 2 => AllLate'
      BY <1>2, ArriveFacts
    <2> QED
      BY <1>2, <2>1, <2>2 DEF Rounds, Undisturbed
  <1>3. ASSUME GiveUp \/ Judge \/ ReadAnnounce PROVE Rounds'
    BY <1>3 DEF GiveUp, Judge, ReadAnnounce, Rounds, Turns, FirstRound, Undisturbed
  <1>4. ASSUME Broadcast PROVE Rounds'
    BY <1>4 DEF Broadcast, Rounds, Turns, FirstRound, Undisturbed
  <1>5. ASSUME ReadTimeout PROVE Rounds'
    <2>1. Turns' /\ FirstRound'
      BY <1>5 DEF ReadTimeout, Rounds, Turns, FirstRound
    <2>2. AllLate'
      BY <1>5 DEF ReadTimeout, AllLate
    <2> QED
      BY <1>5, <2>1, <2>2 DEF ReadTimeout, Rounds, Undisturbed
  <1>6. ASSUME ReadOther PROVE Rounds'
    <2>1. disturbed' = TRUE /\ phase = "read" /\ Turn /\ UNCHANGED <<clock, sent>>
      BY <1>6 DEF ReadOther
    <2>2. \/ /\ phase' = "check" /\ retry < Retries /\ retry' = retry /\ until' = until
          \/ /\ phase' = "rest" /\ retry = Retries /\ retry' = 0
             /\ until' = clock + RestTime /\ clock <= until'
      BY <2>1, TurnFacts DEF Rounds
    <2>3. clock \in Nat /\ RestTime \in Nat /\ RestTime <= Interval - 3
      BY RestTimeFacts
    <2>4. Turns'
      <3>1. CASE phase' = "check"
        BY <2>1, <2>2, <2>3, <3>1 DEF Rounds, Turns
      <3>2. CASE phase' = "rest"
        <4>1. until' <= Timeout + Interval - 1 /\ clock <= Timeout + Interval - 1 /\ sent = Retries
          BY <2>1, <2>2, <2>3, <3>2 DEF Rounds, Turns, FirstRound
        <4> QED
          BY <2>1, <2>2, <3>2, <4>1 DEF Turns
      <3> QED
        BY <2>2, <3>1, <3>2
    <2>5. FirstRound'
      BY <2>1, <2>2 DEF Rounds, Turns, FirstRound
    <2> QED
      BY <2>1, <2>4, <2>5 DEF Rounds, Undisturbed
  <1>7. ASSUME PauseEnds PROVE Rounds'
    <2>1. phase = "pause" /\ clock = until /\ Turn /\ UNCHANGED <<clock, inbox, sent, disturbed>>
      BY <1>7 DEF PauseEnds
    <2>2. Turns' /\ FirstRound'
      BY <2>1, TurnFacts, RestTimeFacts DEF Rounds, Turns, FirstRound
    <2>3. AllLate' <=> AllLate
      BY <2>1 DEF AllLate
    <2>4. \/ /\ phase' = "check" /\ retry < Retries /\ retry' = retry /\ until' = until
          \/ /\ phase' = "rest" /\ retry = Retries /\ retry' = 0
             /\ until' = clock + RestTime /\ clock <= until'
      BY <2>1, TurnFacts DEF Rounds
    <2>5. Undisturbed'
      <3>1. CASE phase' = "check"
        BY <2>1, <2>3, <2>4, <3>1 DEF Rounds, Turns, Undisturbed
      <3>2. CASE phase' = "rest"
        BY <2>1, <2>3, <2>4, <3>2, RestTimeFacts DEF Rounds, Turns, Undisturbed
      <3> QED
        BY <2>4, <3>1, <3>2
    <2> QED
      BY <2>2, <2>5 DEF Rounds
  <1>8. ASSUME RestEnds PROVE Rounds'
    <2>1. AllLate' <=> AllLate
      BY <1>8 DEF RestEnds, AllLate
    <2> QED
      BY <1>8, <2>1 DEF RestEnds, Rounds, Turns, FirstRound, Undisturbed
  <1>9. ASSUME Tick PROVE Rounds'
    <2>1. AllLate' <=> AllLate
      BY <1>9 DEF Tick, AllLate
    <2> QED
      BY <1>9, <2>1 DEF Tick, Rounds, Turns, FirstRound, Undisturbed
  <1>10. ASSUME UNCHANGED searchVars PROVE Rounds'
    <2>1. AllLate' <=> AllLate
      BY <1>10 DEF searchVars, AllLate
    <2> QED
      BY <1>10, <2>1 DEF searchVars, Rounds, Turns, FirstRound, Undisturbed
  <1>11. ASSUME OtherDevice \/ \E s \in Servers : ServerAnswers(s) PROVE Rounds'
    BY <1>2, <1>11 DEF OtherDevice, ServerAnswers
  <1> QED
    BY <1>1, <1>3, <1>4, <1>5, <1>6, <1>7, <1>8, <1>9, <1>10, <1>11 DEF SearchNext, Search

-----------------------------------------------------------------------------
(* Theorems *)

LEMMA SearchInvariant == SearchSpec => []SearchInv
  <1>1. SearchInit => SearchInv
    <2>1. SearchInit => Rounds
      BY Numbers DEF SearchInit, Rounds, Turns, FirstRound, Undisturbed
    <2>2. SearchInit => Known /\ OtherVersionRefused
      BY DEF SearchInit, Known, OtherVersionRefused, Unknown
    <2> QED
      BY <2>1, <2>2, SearchTypeInit DEF SearchInv, Rounds
  <1>2. SearchInv /\ [SearchNext]_searchVars => SearchInv'
    BY SearchTypeStep, RoundsStep, VersionStep DEF SearchInv, Rounds
  <1> QED
    BY <1>1, <1>2, PTL DEF SearchSpec

\* Every variable has its type, for any number of servers, broadcasts and datagrams.
THEOREM SearchTypeCorrect == SearchSpec => []SearchTypeOK
  <1>1. SearchInv => SearchTypeOK
    BY DEF SearchInv
  <1> QED
    BY <1>1, SearchInvariant, PTL

\* Whatever announcements come in whatever order, a server that announces another version is not
\* connected to, and one that announces none only on the strength of an earlier announcement.
THEOREM VersionRespected == SearchSpec => []OtherVersionRefused
  <1>1. SearchInv => OtherVersionRefused
    BY DEF SearchInv
  <1> QED
    BY <1>1, SearchInvariant, PTL

\* A search takes its time and no more, but for the rest that another device brings about.
THEOREM TimeKept == SearchSpec => []EndsOnTime
  <1>1. SearchInv => EndsOnTime
    BY Numbers DEF SearchInv, SearchTypeOK, Turns, Undisturbed, EndsOnTime
  <1> QED
    BY <1>1, SearchInvariant, PTL

\* A search that fails has asked a round of times, and what it leaves unread came in its last
\* second unless another device was heard.
THEOREM WholeRoundAsked == SearchSpec => []HeardIsTaken
  <1>1. ASSUME SearchInv, phase = "check", clock >= Timeout PROVE sent >= Retries
    BY <1>1, Numbers DEF SearchInv, SearchTypeOK, Turns, FirstRound
  <1>2. ASSUME SearchInv, phase = "check", clock >= Timeout, ~disturbed
        PROVE  \A d \in Unread : d.late
    <2>1. AllLate
      BY <1>2, Numbers DEF SearchInv, SearchTypeOK, Turns, Undisturbed
    <2>2. DOMAIN inbox = 1 .. Len(inbox)
      BY <1>2 DEF SearchInv, SearchTypeOK
    <2> QED
      BY <2>1, <2>2 DEF AllLate, Unread
  <1>3. SearchInv => HeardIsTaken
    BY <1>1, <1>2 DEF HeardIsTaken
  <1> QED
    BY <1>3, SearchInvariant, PTL

=============================================================================

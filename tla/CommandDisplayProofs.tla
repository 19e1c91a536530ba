------------------------ MODULE CommandDisplayProofs ------------------------
(***************************************************************************)
(* Proofs about what a user asks for and what a user is shown. Commands,   *)
(* with ControlIngress and BleService, for any queue, any message and any  *)
(* number of commands: they are applied in order, answered truly, and the  *)
(* phone is told the status. Display and AnimPlayer, for every set of      *)
(* animations, every length of them and of the ring, every number of       *)
(* switches, failures, stops and calls: what is drawn is whole and in      *)
(* order, and what was asked for last is what is shown. The two share no   *)
(* state.                                                                  *)
(***************************************************************************)
EXTENDS Commands, Display, SequenceTheorems, TLAPS

-----------------------------------------------------------------------------
(* The inductive invariant *)

Messages == WsMessages \cup JsonMessages \cup LegacyLines
Transit  == [id : Nat \ {0}, via : {"ws", "json", "legacy"}, msg : Messages]
Replies  == {"none", "ack", "nack", "busy", "ok", "pong"}

QueueTypes ==
    /\ queue \in Seq(Transit) /\ applying \in Transit \cup {Nothing}
    /\ handed \in Seq(Nat) /\ accepted \in Seq(Nat)
    /\ Len(queue) <= QueueDepth

TaskTypes ==
    /\ lines \in [Sources -> Seq(Transit)] /\ reply \in [Sources -> Replies]
    /\ last \in [Sources -> Nat] /\ answer \in [Ids -> Replies]
    /\ count \in 0 .. MaxCommands
    /\ \A s \in Sources : Len(lines[s]) <= MaxLines + 1

NoteTypes ==
    /\ connected \in BOOLEAN /\ subscribed \in BOOLEAN
    /\ subscribed => connected
    /\ status \in Statuses /\ told \in Statuses \cup {Untold, Unsure}
    /\ note \in [Tasks -> Statuses \cup {Untold}]
    /\ noteAt \in [Tasks -> {"none", "read", "alone", "overlapped"}]

\* What is to be told after an answer is of the message under way.
AfterTypes == after \in BOOLEAN /\ (after => ~Idle("ble"))

\* A camera size is configured as a pair.
Sized == (cached.w > 0) <=> (cached.h > 0)

\* The identifiers of the commands a task has yet to carry out of its message
Pending(s) == {lines[s][i].id : i \in DOMAIN lines[s]}
Effects    == {accepted[i] : i \in DOMAIN accepted} \cup moved \cup served

\* Each task has commands of its own source.
Sourced ==
    \A s \in Sources : \A i \in DOMAIN lines[s] :
        /\ Source(lines[s][i]) = s
        /\ s = "ws" => lines[s][i].msg \in WsMessages

\* A command is in one place.
Distinct ==
    /\ \A s \in Sources : \A i \in DOMAIN lines[s] : lines[s][i].id <= count
    /\ \A s \in Sources : \A i, j \in DOMAIN lines[s] : lines[s][i].id = lines[s][j].id => i = j
    /\ \A s, t \in Sources : \A i \in DOMAIN lines[s] : \A j \in DOMAIN lines[t] :
          lines[s][i].id = lines[t][j].id => s = t
    /\ \A s, t \in Sources : \A i \in DOMAIN lines[s] : lines[s][i].id # last[t]
    /\ \A s \in Sources : last[s] <= count
    /\ last["ws"] = last["ble"] => last["ws"] = 0

\* What has not been carried out has neither effect nor answer.
Undone ==
    /\ \A e \in Effects : e \in 1 .. count
    /\ \A s \in Sources : \A i \in DOMAIN lines[s] : lines[s][i].id \notin Effects
    /\ \A k \in Ids : answer[k] # "none" =>
          /\ k <= count
          /\ \A s \in Sources : k # last[s] /\ \A i \in DOMAIN lines[s] : lines[s][i].id # k

\* The answer a task will give is true.
RepliesTrue ==
    \A s \in Sources : last[s] # 0 =>
        /\ reply[s] = "ack" => last[s] \in Effects
        /\ reply[s] \in {"nack", "busy"} => last[s] \notin Effects

\* Every command the queue took was one of a message.
Counted == Len(accepted) + Len(lines["ws"]) + Len(lines["ble"]) <= count

\* A notification that is alone tells the status as it is, unless another is to follow.
NoteCurrent ==
    \A t \in Tasks : noteAt[t] = "alone" =>
        note[t] = status \/ \E u \in Tasks \ {t} : noteAt[u] = "read"

-----------------------------------------------------------------------------
(* Sequences *)

LEMMA Headed ==
    ASSUME NEW S, NEW q \in Seq(S), q # <<>>
    PROVE  /\ Head(q) \in S /\ Head(q) = q[1] /\ 1 \in DOMAIN q
           /\ Tail(q) \in Seq(S) /\ Len(Tail(q)) = Len(q) - 1
           /\ \A i \in DOMAIN Tail(q) : i \in Nat /\ i >= 1 /\ i + 1 \in DOMAIN q /\ Tail(q)[i] = q[i + 1]
  OBVIOUS

LEMMA Appended ==
    ASSUME NEW S, NEW q \in Seq(S), NEW e \in S
    PROVE  /\ Append(q, e) \in Seq(S) /\ Len(Append(q, e)) = Len(q) + 1
           /\ DOMAIN Append(q, e) = 1 .. Len(q) + 1
           /\ DOMAIN q = 1 .. Len(q) /\ Len(q) \in Nat
           /\ \A i \in DOMAIN q : Append(q, e)[i] = q[i]
           /\ Append(q, e)[Len(q) + 1] = e
  OBVIOUS

\* The elements of a sequence that grows
LEMMA AppendedElements ==
    ASSUME NEW q \in Seq(Nat), NEW e \in Nat, NEW n, n = Append(q, e)
    PROVE  {n[i] : i \in DOMAIN n} = {q[i] : i \in DOMAIN q} \cup {e}
  <1>1. /\ DOMAIN n = 1 .. Len(q) + 1 /\ DOMAIN q = 1 .. Len(q) /\ Len(q) \in Nat
        /\ \A i \in DOMAIN q : n[i] = q[i]
        /\ n[Len(q) + 1] = e
    BY Appended
  <1>2. Len(q) + 1 \in DOMAIN n /\ DOMAIN q \subseteq DOMAIN n
    BY <1>1
  <1>3. \A i \in DOMAIN n : i \in DOMAIN q \/ i = Len(q) + 1
    BY <1>1
  <1> QED
    BY <1>1, <1>2, <1>3

LEMMA TransitId ==
    ASSUME NEW c \in Transit
    PROVE  c.id \in Nat /\ c.id # 0
  BY DEF Transit

LEMMA IdsTyped ==
    ASSUME NEW q \in Seq(Transit)
    PROVE  IdsOf(q) \in Seq(Nat) /\ Len(IdsOf(q)) = Len(q)
  <1>1. DOMAIN q = 1 .. Len(q) /\ Len(q) \in Nat /\ \A i \in DOMAIN q : q[i].id \in Nat
    <2>1. DOMAIN q = 1 .. Len(q) /\ Len(q) \in Nat /\ \A i \in DOMAIN q : q[i] \in Transit
      OBVIOUS
    <2>2. \A t \in Transit : t.id \in Nat
      BY DEF Transit
    <2> QED
      BY <2>1, <2>2
  <1>2. IdsOf(q) \in [1 .. Len(q) -> Nat]
    BY <1>1 DEF IdsOf
  <1> QED
    BY <1>1, <1>2, IsASeq

\* The message that is applied next, and the queue without it, are the queue.
LEMMA IdsTaken ==
    ASSUME NEW q \in Seq(Transit), q # <<>>
    PROVE  IdsOf(q) = <<Head(q).id>> \o IdsOf(Tail(q))
  <1>1. /\ IdsOf(q) \in Seq(Nat) /\ Len(IdsOf(q)) = Len(q)
        /\ IdsOf(Tail(q)) \in Seq(Nat) /\ Len(IdsOf(Tail(q))) = Len(q) - 1
    BY Headed, IdsTyped
  <1>2. Head(q).id \in Nat
    <2>1. Head(q) \in Transit
      BY Headed
    <2> QED
      BY <2>1 DEF Transit
  <1>3. /\ \A i \in 1 .. Len(q) : IdsOf(q)[i] = q[i].id
        /\ \A i \in 1 .. Len(q) - 1 : IdsOf(Tail(q))[i] = q[i + 1].id
        /\ Head(q) = q[1] /\ Len(q) \in Nat
    BY Headed DEF IdsOf
  <1> DEFINE a == IdsOf(q)   b == IdsOf(Tail(q))   h == Head(q).id   n == Len(q)
  <1>4. a \in Seq(Nat) /\ b \in Seq(Nat) /\ h \in Nat /\ Len(a) = n /\ Len(b) = n - 1
        /\ a[1] = h /\ \A i \in 1 .. n - 1 : b[i] = a[i + 1]
    BY <1>1, <1>2, <1>3
  <1> HIDE DEF a, b, h, n
  <1>5. a = <<h>> \o b
    BY <1>4, SMTT(30)
  <1> QED
    BY <1>5 DEF a, b, h

LEMMA IdsAppended ==
    ASSUME NEW q \in Seq(Transit), NEW c \in Transit
    PROVE  IdsOf(Append(q, c)) = Append(IdsOf(q), c.id)
  <1>1. /\ Append(q, c) \in Seq(Transit) /\ Len(Append(q, c)) = Len(q) + 1
        /\ DOMAIN Append(q, c) = 1 .. Len(q) + 1
        /\ DOMAIN q = 1 .. Len(q) /\ Len(q) \in Nat
        /\ \A i \in DOMAIN q : Append(q, c)[i] = q[i]
        /\ Append(q, c)[Len(q) + 1] = c
    BY Appended
  <1> DEFINE n == Append(q, c)   a == IdsOf(q)   b == IdsOf(n)
  <1>2. a \in Seq(Nat) /\ Len(a) = Len(q) /\ b \in Seq(Nat) /\ Len(b) = Len(q) + 1 /\ c.id \in Nat
    BY <1>1, IdsTyped DEF Transit
  <1>3. (\A i \in 1 .. Len(q) : b[i] = a[i]) /\ b[Len(q) + 1] = c.id
    BY <1>1 DEF IdsOf
  <1> HIDE DEF n, a, b
  <1>4. b = Append(a, c.id)
    BY <1>2, <1>3
  <1> QED
    BY <1>4 DEF a, b, n

LEMMA JoinedEnd ==
    ASSUME NEW p \in Seq(Nat), NEW q \in Seq(Nat), NEW r \in Seq(Nat), NEW e \in Nat
    PROVE  p \o q \o Append(r, e) = Append(p \o q \o r, e)
  <1>1. <<e>> \in Seq(Nat) /\ p \o q \in Seq(Nat) /\ p \o q \o r \in Seq(Nat)
    BY ConcatProperties
  <1>2. Append(r, e) = r \o <<e>> /\ Append(p \o q \o r, e) = (p \o q \o r) \o <<e>>
    BY <1>1, AppendIsConcat
  <1>3. (p \o q) \o (r \o <<e>>) = ((p \o q) \o r) \o <<e>>
    BY <1>1, ConcatAssociative
  <1> QED
    BY <1>2, <1>3

LEMMA JoinedNext ==
    ASSUME NEW p \in Seq(Nat), NEW r \in Seq(Nat), NEW e \in Nat
    PROVE  p \o <<>> \o (<<e>> \o r) = p \o <<e>> \o r
  <1>1. <<e>> \in Seq(Nat) /\ p \o <<>> = p
    BY ConcatEmptySeq
  <1>2. p \o (<<e>> \o r) = (p \o <<e>>) \o r
    BY <1>1, ConcatAssociative
  <1> QED
    BY <1>1, <1>2

LEMMA JoinedDone ==
    ASSUME NEW p \in Seq(Nat), NEW r \in Seq(Nat), NEW e \in Nat
    PROVE  Append(p, e) \o <<>> \o r = p \o <<e>> \o r
  <1>1. <<e>> \in Seq(Nat) /\ Append(p, e) = p \o <<e>> /\ p \o <<e>> \in Seq(Nat)
    BY AppendIsConcat, ConcatProperties
  <1>2. (p \o <<e>>) \o <<>> = p \o <<e>>
    BY <1>1, ConcatEmptySeq
  <1> QED
    BY <1>1, <1>2

-----------------------------------------------------------------------------
(* What a command that is carried out changes *)

LEMMA WsKinds ==
    ASSUME NEW m \in WsMessages
    PROVE  m.kind \notin {"wifi_set", "wifi_get", "wifi_clear"}
  <1>1. ASSUME NEW kind, NEW fits, m \in Plain(kind, fits) PROVE m.kind = kind
    BY <1>1 DEF Plain
  <1>2. m \in Shaped => m.kind = "status"
    BY DEF Shaped
  <1>3. ASSUME NEW st, m \in Text(st) PROVE m.kind = "text"
    BY <1>3 DEF Text
  <1>4. m \in ConfigWs => m.kind = "config"
    BY DEF ConfigWs
  <1>5. m \in ServoWs \cup StateWs \cup TransferWs \cup Plain("ping", {"good"}) \cup Plain("other", {"good"})
           \cup Plain("status", {"bad"})
        => m.kind \in {"servo", "state", "transfer", "ping", "other", "status"}
    BY <1>1 DEF ServoWs, StateWs, TransferWs
  <1>6. m \in AsrResult \cup Thinking \cup HelloNack => m.kind = "text"
    BY <1>3 DEF AsrResult, Thinking, HelloNack
  <1> QED
    BY <1>2, <1>4, <1>5, <1>6 DEF WsMessages, StatusWs

\* The answer of a command: whatever its client is told, r or nothing or OK
LEMMA AnsweredIs ==
    ASSUME NEW c, NEW r \in {"ack", "nack", "busy"}
    PROVE  /\ Answered(c, r) \in Replies
           /\ Answered(c, r) \in {"none", "ok", r}
  BY DEF Answered, Replies

\* The next command of a task is carried out, and has the effects it is acknowledged for.
Performed(s, c) ==
    /\ lines[s] # <<>> /\ c = Head(lines[s])
    /\ lines' = [lines EXCEPT ![s] = Tail(@)]
    /\ last' = [last EXCEPT ![s] = c.id]
    /\ UNCHANGED <<count, answer, handed, applying>>
    /\ \E r \in Replies :
          /\ reply' = [reply EXCEPT ![s] = r]
          /\ \/ /\ Room /\ queue' = Append(queue, c) /\ accepted' = Append(accepted, c.id)
                /\ UNCHANGED <<moved, served>> /\ r \notin {"nack", "busy"}
             \/ /\ UNCHANGED <<queue, accepted>>
                /\ \/ moved' = moved \cup {c.id} /\ UNCHANGED served /\ r \notin {"nack", "busy"}
                   \/ served' = served \cup {c.id} /\ UNCHANGED moved /\ r \notin {"nack", "busy"}
                   \/ UNCHANGED <<moved, served>> /\ r # "ack"

LEMMA PerformEffects ==
    ASSUME TaskTypes, Sourced, NEW s \in Sources, Perform(s)
    PROVE  Performed(s, Head(lines[s]))
  <1> DEFINE c == Head(lines[s])
  <1>1. lines[s] # <<>> /\ CarryOut(c)
    BY DEF Perform, Ready
  <1>2. Source(c) = s
    BY <1>1, Headed DEF Sourced, TaskTypes
  <1> HIDE DEF c
  <1> DEFINE Next1(r) ==
               /\ reply' = [reply EXCEPT ![s] = r]
               /\ last' = [last EXCEPT ![s] = Head(lines[s]).id]
               /\ lines' = [lines EXCEPT ![s] = Tail(@)]
               /\ UNCHANGED <<count, answer>>
  <1>3. \A r : Reply(c, r) => Next1(r)
    BY <1>2, Zenon DEF Reply, Replied
  <1> HIDE DEF Next1
  <1>4. CASE QueueIt(c)
    <2>1. PICK r \in Replies : Reply(c, r) /\ r \notin {"nack", "busy"}
      BY <1>4, AnsweredIs DEF QueueIt
    <2>2. /\ Room /\ queue' = Append(queue, c) /\ accepted' = Append(accepted, c.id)
          /\ UNCHANGED <<moved, served, handed, applying>>
      BY <1>4 DEF QueueIt, Submit
    <2> QED
      BY <1>1, <1>3, <2>1, <2>2 DEF Performed, Next1, c
  <1>5. CASE Moved(c)
    <2>1. PICK r \in Replies : Reply(c, r) /\ r \notin {"nack", "busy"}
      BY <1>5, AnsweredIs DEF Moved
    <2>2. moved' = moved \cup {c.id} /\ UNCHANGED <<queue, accepted, served, handed, applying>>
      BY <1>5 DEF Moved, MoveServo
    <2> QED
      BY <1>1, <1>3, <2>1, <2>2 DEF Performed, Next1, c
  <1>6. CASE WifiSet(c) \/ WifiClear(c) \/ WifiGet(c) \/ Configure(c)
    <2>1. PICK r \in Replies : Reply(c, r) /\ r \notin {"nack", "busy"}
      BY <1>6 DEF WifiSet, WifiClear, WifiGet, Configure, Replies
    <2>2. served' = served \cup {c.id} /\ UNCHANGED <<queue, accepted, moved, handed, applying>>
      BY <1>6, Zenon DEF WifiSet, WifiClear, WifiGet, Configure, Serve, ingress
    <2> QED
      BY <1>1, <1>3, <2>1, <2>2 DEF Performed, Next1, c
  <1>7. CASE \/ QueueFull(c) \/ MoveBusy(c) \/ MoveRefused(c) \/ Unfit(c) \/ Unknown(c)
             \/ Transfer(c) \/ Ping(c) \/ WifiFails(c) \/ ConfigRefused(c)
    <2>1. PICK r \in Replies : Reply(c, r) /\ r # "ack"
      BY <1>7, AnsweredIs
         DEF QueueFull, MoveBusy, MoveRefused, Unfit, Unknown, Transfer, Ping, WifiFails,
             ConfigRefused, Replies
    <2>2. UNCHANGED <<queue, accepted, moved, served, handed, applying>>
      BY <1>7, Zenon
         DEF QueueFull, MoveBusy, MoveRefused, ServoBusy, ServoRefuses, Unfit, Unknown, Transfer,
             Ping, WifiFails, ConfigRefused, ingress
    <2> QED
      BY <1>1, <1>3, <2>1, <2>2 DEF Performed, Next1, c
  <1> QED
    BY <1>1, <1>4, <1>5, <1>6, <1>7 DEF CarryOut, c

-----------------------------------------------------------------------------
(* Types *)

\* What an arriving message adds
LEMMA Arrived ==
    ASSUME TaskTypes, WsMessage \/ BleWrite
    PROVE  \E s \in Sources, new \in Seq(Transit) :
             /\ lines[s] = <<>> /\ last[s] = 0
             /\ lines' = [lines EXCEPT ![s] = new]
             /\ count' = count + Len(new) /\ count' \in 0 .. MaxCommands
             /\ Len(new) <= MaxLines + 1
             /\ \A i \in DOMAIN new : /\ new[i].id = count + i /\ Source(new[i]) = s
                                      /\ s = "ws" => new[i].msg \in WsMessages
             /\ UNCHANGED <<ingress, bleVars, reply, last, after, cached, accepted, served, answer>>
  <1>1. ASSUME NEW s \in Sources, NEW via \in {"ws", "json", "legacy"}, s = "ws" <=> via = "ws",
               NEW n \in Nat, n <= MaxLines + 1, NEW ms \in [1 .. n -> Messages], Arrive(s, via, ms),
               s = "ws" => \A i \in DOMAIN ms : ms[i] \in WsMessages
        PROVE  \E new \in Seq(Transit) :
                 /\ lines[s] = <<>> /\ last[s] = 0
                 /\ lines' = [lines EXCEPT ![s] = new]
                 /\ count' = count + Len(new) /\ count' \in 0 .. MaxCommands
                 /\ Len(new) <= MaxLines + 1
                 /\ \A i \in DOMAIN new : /\ new[i].id = count + i /\ Source(new[i]) = s
                                          /\ s = "ws" => new[i].msg \in WsMessages
                 /\ UNCHANGED <<ingress, bleVars, reply, last, after, cached, accepted, served, answer>>
    <2> DEFINE new == [i \in DOMAIN ms |-> Command(count + i, via, ms[i])]
    <2>1. Len(ms) = n /\ DOMAIN ms = 1 .. n /\ count \in Nat
      BY <1>1 DEF TaskTypes
    <2>2. \A i \in DOMAIN ms : Command(count + i, via, ms[i]) \in Transit
      BY <1>1, <2>1 DEF Command, Transit
    <2>3. new \in [1 .. n -> Transit]
      BY <2>1, <2>2
    <2>4. new \in Seq(Transit) /\ Len(new) = n /\ DOMAIN new = 1 .. n
      BY <2>3, IsASeq
    <2>5. \A i \in DOMAIN new : /\ new[i].id = count + i /\ Source(new[i]) = s
                                /\ s = "ws" => new[i].msg \in WsMessages
      <3>1. \A i \in DOMAIN new : new[i] = Command(count + i, via, ms[i])
        OBVIOUS
      <3> HIDE DEF new
      <3> QED
        BY <1>1, <2>1, <2>4, <3>1 DEF Command, Source, Sources
    <2>6. /\ lines[s] = <<>> /\ last[s] = 0 /\ count + Len(ms) <= MaxCommands
          /\ lines' = [lines EXCEPT ![s] = new] /\ count' = count + Len(ms)
          /\ UNCHANGED <<ingress, bleVars, reply, last, after, cached, accepted, served, answer>>
      BY <1>1, Zenon DEF Arrive, Idle
    <2> HIDE DEF new
    <2>7. count' \in 0 .. MaxCommands
      BY <2>1, <2>6, CommandBounds
    <2> QED
      BY <1>1, <2>1, <2>4, <2>5, <2>6, <2>7
  <1>2. CASE WsMessage
    <2>1. PICK m \in WsMessages : Arrive("ws", "ws", <<m>>)
      BY <1>2 DEF WsMessage
    <2>2. <<m>> \in [1 .. 1 -> Messages] /\ \A i \in DOMAIN <<m>> : <<m>>[i] \in WsMessages
      BY DEF Messages
    <2>3. 1 \in Nat /\ 1 <= MaxLines + 1 /\ "ws" \in Sources
      BY CommandBounds DEF Sources
    <2> QED
      BY <1>1, <2>1, <2>2, <2>3
  <1>3. CASE BleWrite
    <2>1. CASE \E m \in JsonMessages : Arrive("ble", "json", <<m>>)
      <3>1. PICK m \in JsonMessages : Arrive("ble", "json", <<m>>)
        BY <2>1
      <3>2. <<m>> \in [1 .. 1 -> Messages]
        BY DEF Messages
      <3>3. 1 \in Nat /\ 1 <= MaxLines + 1 /\ "ble" \in Sources
        BY CommandBounds DEF Sources
      <3> QED
        BY <1>1, <3>1, <3>2, <3>3
    <2>2. CASE \E n \in 1 .. MaxLines : \E ms \in [1 .. n -> LegacyLines] : Arrive("ble", "legacy", ms)
      <3>1. PICK n \in 1 .. MaxLines : \E ms \in [1 .. n -> LegacyLines] : Arrive("ble", "legacy", ms)
        BY <2>2
      <3>2. PICK ms \in [1 .. n -> LegacyLines] : Arrive("ble", "legacy", ms)
        BY <3>1
      <3>3. ms \in [1 .. n -> Messages]
        BY DEF Messages
      <3>4. n \in Nat /\ n <= MaxLines + 1 /\ "ble" \in Sources
        BY CommandBounds DEF Sources
      <3> QED
        BY <1>1, <3>2, <3>3, <3>4
    <2> QED
      BY <1>3, <2>1, <2>2 DEF BleWrite
  <1> QED
    BY <1>2, <1>3

\* Steps of the connection and of the control task leave the commands alone.
LEMMA Elsewhere ==
    ASSUME LinkEvent \/ StatusEvent \/ ControlStep \/ (\E t \in Tasks : Notification(t))
    PROVE  UNCHANGED <<handler, cached, history, moved>>
  BY Zenon
       DEF LinkEvent, StatusEvent, ControlStep, Notification, ControlTask, Take, Apply, ingress

LEMMA TaskStep ==
    ASSUME TaskTypes, Sourced, [Next]_vars
    PROVE  TaskTypes'
  <1>1. CASE WsMessage \/ BleWrite
    <2>1. PICK s \in Sources, new \in Seq(Transit) :
             /\ lines' = [lines EXCEPT ![s] = new]
             /\ count' \in 0 .. MaxCommands /\ Len(new) <= MaxLines + 1
             /\ UNCHANGED <<reply, last, answer>>
      BY <1>1, Arrived
    <2> QED
      BY <2>1 DEF TaskTypes
  <1>2. ASSUME NEW s \in Sources, Perform(s) PROVE TaskTypes'
    <2>1. PICK r \in Replies :
            /\ lines[s] # <<>> /\ reply' = [reply EXCEPT ![s] = r]
            /\ lines' = [lines EXCEPT ![s] = Tail(@)]
            /\ last' = [last EXCEPT ![s] = Head(lines[s]).id]
            /\ UNCHANGED <<count, answer>>
      BY <1>2, PerformEffects DEF Performed
    <2>2. lines[s] \in Seq(Transit) /\ Len(lines[s]) <= MaxLines + 1
      BY DEF TaskTypes
    <2>3. /\ Head(lines[s]).id \in Nat /\ Tail(lines[s]) \in Seq(Transit)
          /\ Len(Tail(lines[s])) <= MaxLines + 1
      <3>1. Head(lines[s]) \in Transit /\ Tail(lines[s]) \in Seq(Transit) /\ Len(Tail(lines[s])) = Len(lines[s]) - 1
        BY <2>1, <2>2, Headed
      <3> QED
        BY <2>2, <3>1, TransitId, CommandBounds
    <2> QED
      BY <2>1, <2>3 DEF TaskTypes
  <1>3. ASSUME NEW s \in Sources, Answer(s) PROVE TaskTypes'
    <2>1. /\ answer' = [answer EXCEPT ![last[s]] = reply[s]]
          /\ last' = [last EXCEPT ![s] = 0] /\ reply' = [reply EXCEPT ![s] = "none"]
          /\ UNCHANGED <<lines, count>>
      BY <1>3, Zenon DEF Answer
    <2> QED
      BY <2>1 DEF TaskTypes, Replies
  <1>4. CASE LinkEvent \/ StatusEvent \/ ControlStep \/ (\E t \in Tasks : Notification(t))
    BY <1>4, Elsewhere DEF TaskTypes, handler, history
  <1>5. CASE UNCHANGED vars
    BY <1>5 DEF TaskTypes, vars, handler, history
  <1> QED
    BY <1>1, <1>2, <1>3, <1>4, <1>5 DEF Next

LEMMA QueueStep ==
    ASSUME QueueTypes, TaskTypes, Sourced, [Next]_vars
    PROVE  QueueTypes'
  <1>1. ASSUME UNCHANGED <<ingress, accepted>> PROVE QueueTypes'
    BY <1>1 DEF QueueTypes, ingress
  <1>2. CASE WsMessage \/ BleWrite
    BY <1>1, <1>2, Arrived
  <1>3. ASSUME NEW s \in Sources, Perform(s) PROVE QueueTypes'
    <2> DEFINE c == Head(lines[s])
    <2>1. /\ lines[s] # <<>> /\ UNCHANGED <<handed, applying>>
          /\ \/ Room /\ queue' = Append(queue, c) /\ accepted' = Append(accepted, c.id)
             \/ UNCHANGED <<queue, accepted>>
      BY <1>3, PerformEffects DEF Performed
    <2>2. c \in Transit /\ c.id \in Nat
      <3>1. c \in Transit
        BY <2>1, Headed DEF TaskTypes
      <3> QED
        BY <3>1 DEF Transit
    <2> HIDE DEF c
    <2>3. CASE Room /\ queue' = Append(queue, c) /\ accepted' = Append(accepted, c.id)
      <3>1. queue' \in Seq(Transit) /\ Len(queue') = Len(queue) + 1 /\ accepted' \in Seq(Nat)
        BY <2>2, <2>3, Appended DEF QueueTypes
      <3> QED
        BY <2>1, <2>3, <3>1, QueueAssumption DEF QueueTypes, Room
    <2>4. CASE UNCHANGED <<queue, accepted>>
      BY <2>1, <2>4 DEF QueueTypes
    <2> QED
      BY <2>1, <2>3, <2>4
  <1>4. ASSUME NEW s \in Sources, Answer(s) PROVE UNCHANGED <<ingress, accepted>>
    BY <1>4, Zenon DEF Answer
  <1>5. CASE ControlStep
    <2>0. UNCHANGED accepted
      BY <1>5, Elsewhere DEF history
    <2>1. CASE Take
      <3>1. /\ queue # <<>> /\ applying' = Head(queue) /\ queue' = Tail(queue) /\ handed' = handed
        BY <2>1 DEF Take
      <3> QED
        BY <2>0, <3>1, Headed, QueueAssumption DEF QueueTypes
    <2>2. CASE Apply
      <3>1. applying.id \in Nat
        <4>1. applying \in Transit
          BY <2>2 DEF Apply, QueueTypes
        <4> QED
          BY <4>1 DEF Transit
      <3>2. handed' = Append(handed, applying.id) /\ applying' = Nothing /\ queue' = queue
        BY <2>2 DEF Apply
      <3> QED
        BY <2>0, <3>1, <3>2, Appended DEF QueueTypes
    <2> QED
      BY <1>5, <2>1, <2>2 DEF ControlStep, ControlTask
  <1>6. CASE LinkEvent \/ StatusEvent \/ (\E t \in Tasks : Notification(t)) \/ UNCHANGED vars
    BY <1>1, <1>6 DEF LinkEvent, StatusEvent, Notification, vars, history
  <1> QED
    BY <1>1, <1>2, <1>3, <1>4, <1>5, <1>6 DEF Next

-----------------------------------------------------------------------------
(* The order of the queue *)

LEMMA OrderStep ==
    ASSUME QueueTypes, TaskTypes, Sourced, AppliedInOrder, [Next]_vars
    PROVE  AppliedInOrder'
  <1>1. ASSUME UNCHANGED <<accepted, handed, applying, queue>> PROVE AppliedInOrder'
    BY <1>1 DEF AppliedInOrder, InHand, IdsOf
  <1>2. CASE WsMessage \/ BleWrite
    BY <1>1, <1>2, Arrived DEF ingress
  <1>3. ASSUME NEW s \in Sources, Perform(s) PROVE AppliedInOrder'
    <2> DEFINE c == Head(lines[s])
    <2>1. /\ lines[s] # <<>> /\ UNCHANGED <<handed, applying>>
          /\ \/ queue' = Append(queue, c) /\ accepted' = Append(accepted, c.id)
             \/ UNCHANGED <<queue, accepted>>
      BY <1>3, PerformEffects DEF Performed
    <2>2. c \in Transit
      BY <2>1, Headed DEF TaskTypes
    <2> HIDE DEF c
    <2>3. CASE queue' = Append(queue, c) /\ accepted' = Append(accepted, c.id)
      <3>1. IdsOf(queue') = Append(IdsOf(queue), c.id) /\ IdsOf(queue) \in Seq(Nat) /\ c.id \in Nat
        BY <2>2, <2>3, IdsAppended, IdsTyped, TransitId DEF QueueTypes
      <3>2. InHand \in Seq(Nat)
        BY TransitId DEF InHand, QueueTypes
      <3>3. handed \o InHand \o Append(IdsOf(queue), c.id) = Append(handed \o InHand \o IdsOf(queue), c.id)
        <4>1. handed \in Seq(Nat)
          BY DEF QueueTypes
        <4> QED
          BY <3>1, <3>2, <4>1, JoinedEnd
      <3>4. InHand' = InHand /\ IdsOf(queue)' = IdsOf(queue')
        BY <2>1 DEF InHand, IdsOf
      <3> QED
        BY <2>1, <2>3, <3>1, <3>3, <3>4 DEF AppliedInOrder
    <2> QED
      BY <1>1, <2>1, <2>3
  <1>4. ASSUME NEW s \in Sources, Answer(s) PROVE AppliedInOrder'
    <2>1. UNCHANGED <<accepted, handed, applying, queue>>
      BY <1>4, Zenon DEF Answer, ingress
    <2> QED
      BY <1>1, <2>1
  <1>5. CASE ControlStep
    <2>0. UNCHANGED accepted
      BY <1>5, Elsewhere DEF history
    <2>1. CASE Take
      <3> DEFINE h == Head(queue).id   r == IdsOf(Tail(queue))
      <3>1. /\ applying = Nothing /\ queue # <<>> /\ applying' = Head(queue) /\ queue' = Tail(queue)
            /\ handed' = handed
        BY <2>1 DEF Take
      <3>2. IdsOf(queue) = <<h>> \o r /\ Head(queue) \in Transit /\ r \in Seq(Nat)
        BY <3>1, IdsTaken, Headed, IdsTyped DEF QueueTypes
      <3>3. h \in Nat /\ h # 0
        BY <3>2, TransitId
      <3>4. InHand = <<>> /\ InHand' = <<h>> /\ IdsOf(queue)' = r
        BY <3>1, <3>3 DEF InHand, Nothing, IdsOf
      <3>5. handed \in Seq(Nat) /\ accepted = handed \o <<>> \o (<<h>> \o r)
        BY <3>2, <3>4 DEF QueueTypes, AppliedInOrder
      <3> HIDE DEF h, r
      <3>6. handed \o <<>> \o (<<h>> \o r) = handed \o <<h>> \o r
        BY <3>2, <3>3, <3>5, JoinedNext
      <3> QED
        BY <2>0, <3>1, <3>4, <3>5, <3>6 DEF AppliedInOrder
    <2>2. CASE Apply
      <3> DEFINE h == applying.id   r == IdsOf(queue)
      <3>1. /\ applying # Nothing /\ applying' = Nothing /\ handed' = Append(handed, h) /\ queue' = queue
        BY <2>2 DEF Apply
      <3>2. h \in Nat /\ handed \in Seq(Nat) /\ r \in Seq(Nat)
        BY <3>1, TransitId, IdsTyped DEF QueueTypes
      <3>3. InHand = <<h>> /\ InHand' = <<>> /\ IdsOf(queue)' = r
        BY <3>1 DEF InHand, IdsOf
      <3>4. accepted = handed \o <<h>> \o r
        BY <3>3 DEF AppliedInOrder
      <3> HIDE DEF h, r
      <3>5. Append(handed, h) \o <<>> \o r = handed \o <<h>> \o r
        BY <3>2, JoinedDone
      <3> QED
        BY <2>0, <3>1, <3>3, <3>4, <3>5 DEF AppliedInOrder
    <2> QED
      BY <1>5, <2>1, <2>2 DEF ControlStep, ControlTask
  <1>6. CASE LinkEvent \/ StatusEvent \/ (\E t \in Tasks : Notification(t)) \/ UNCHANGED vars
    BY <1>1, <1>6 DEF LinkEvent, StatusEvent, Notification, vars, history, ingress
  <1> QED
    BY <1>1, <1>2, <1>3, <1>4, <1>5, <1>6 DEF Next

-----------------------------------------------------------------------------
(* Each command is carried out once and answered once *)

\* The commands a task has left when it has carried one out
LEMMA Remaining ==
    ASSUME TaskTypes, NEW s \in Sources, lines[s] # <<>>,
           lines' = [lines EXCEPT ![s] = Tail(@)]
    PROVE  /\ lines[s][1] = Head(lines[s]) /\ Head(lines[s]).id \in Nat /\ Head(lines[s]).id # 0
           /\ 1 \in DOMAIN lines[s]
           /\ \A t \in Sources \ {s} : lines'[t] = lines[t]
           /\ \A i \in DOMAIN lines'[s] :
                 i \in Nat /\ i + 1 \in DOMAIN lines[s] /\ i + 1 # 1 /\ lines'[s][i] = lines[s][i + 1]
  <1>1. lines[s] \in Seq(Transit) /\ lines'[s] = Tail(lines[s]) /\ \A t \in Sources \ {s} : lines'[t] = lines[t]
    BY DEF TaskTypes
  <1>2. Head(lines[s]) \in Transit
    BY <1>1, Headed
  <1>3. /\ Head(lines[s]) = lines[s][1] /\ 1 \in DOMAIN lines[s]
        /\ \A i \in DOMAIN Tail(lines[s]) :
              i \in Nat /\ i >= 1 /\ i + 1 \in DOMAIN lines[s] /\ Tail(lines[s])[i] = lines[s][i + 1]
    BY <1>1, Headed, Zenon
  <1>4. Head(lines[s]).id \in Nat /\ Head(lines[s]).id # 0
    BY <1>2, TransitId
  <1> DEFINE q == lines[s]   u == Tail(lines[s])
  <1>5. \A i \in DOMAIN u : i \in Nat /\ i + 1 \in DOMAIN q /\ i + 1 # 1 /\ u[i] = q[i + 1]
    <2> HIDE DEF q, u
    <2>1. \A i \in DOMAIN u : i \in Nat /\ i >= 1 /\ i + 1 \in DOMAIN q /\ u[i] = q[i + 1]
      BY <1>3 DEF q, u
    <2> QED
      BY <2>1
  <1> QED
    BY <1>1, <1>3, <1>4, <1>5, Zenon

LEMMA SourcedStep ==
    ASSUME TaskTypes, Sourced, [Next]_vars
    PROVE  Sourced'
  <1>1. ASSUME UNCHANGED lines PROVE Sourced'
    BY <1>1 DEF Sourced
  <1>2. CASE WsMessage \/ BleWrite
    <2>1. PICK s \in Sources, new \in Seq(Transit) :
             /\ lines' = [lines EXCEPT ![s] = new]
             /\ \A i \in DOMAIN new : Source(new[i]) = s /\ (s = "ws" => new[i].msg \in WsMessages)
      BY <1>2, Arrived
    <2>2. lines'[s] = new /\ \A t \in Sources \ {s} : lines'[t] = lines[t]
      BY <2>1 DEF TaskTypes
    <2> QED
      BY <2>1, <2>2 DEF Sourced
  <1>3. ASSUME NEW s \in Sources, Perform(s) PROVE Sourced'
    <2>1. lines[s] # <<>> /\ lines' = [lines EXCEPT ![s] = Tail(@)]
      BY <1>3, PerformEffects DEF Performed
    <2>2. /\ \A t \in Sources \ {s} : lines'[t] = lines[t]
          /\ \A i \in DOMAIN lines'[s] : i + 1 \in DOMAIN lines[s] /\ lines'[s][i] = lines[s][i + 1]
      BY <2>1, Remaining
    <2> QED
      BY <2>2 DEF Sourced
  <1>4. ASSUME NEW s \in Sources, Answer(s) PROVE UNCHANGED lines
    BY <1>4, Zenon DEF Answer
  <1>5. CASE LinkEvent \/ StatusEvent \/ ControlStep \/ (\E t \in Tasks : Notification(t))
    BY <1>1, <1>5, Elsewhere DEF handler
  <1>6. CASE UNCHANGED vars
    BY <1>1, <1>6 DEF vars, handler
  <1> QED
    BY <1>1, <1>2, <1>3, <1>4, <1>5, <1>6 DEF Next

\* What has been carried out of the commands changes with them alone.
LEMMA EffectsKept ==
    ASSUME UNCHANGED <<accepted, moved, served>>
    PROVE  Effects' = Effects
  BY DEF Effects

LEMMA EffectsGrow ==
    ASSUME TaskTypes, QueueTypes, Sourced, NEW s \in Sources, Perform(s)
    PROVE  LET c == Head(lines[s]) IN
           /\ c.id \in Nat
           /\ \/ Effects' = Effects \cup {c.id} /\ reply'[s] \notin {"nack", "busy"}
              \/ Effects' = Effects /\ reply'[s] # "ack"
  <1> DEFINE c == Head(lines[s])
  <1>1. PICK r \in Replies :
          /\ lines[s] # <<>> /\ reply' = [reply EXCEPT ![s] = r]
          /\ \/ /\ accepted' = Append(accepted, c.id)
                /\ UNCHANGED <<moved, served>> /\ r \notin {"nack", "busy"}
             \/ /\ UNCHANGED accepted
                /\ \/ moved' = moved \cup {c.id} /\ UNCHANGED served /\ r \notin {"nack", "busy"}
                   \/ served' = served \cup {c.id} /\ UNCHANGED moved /\ r \notin {"nack", "busy"}
                   \/ UNCHANGED <<moved, served>> /\ r # "ack"
    BY PerformEffects DEF Performed
  <1>2. c.id \in Nat
    BY <1>1, Headed, TransitId DEF TaskTypes
  <1>3. reply'[s] = r
    BY <1>1 DEF TaskTypes
  <1> HIDE DEF c
  <1>4. accepted' = Append(accepted, c.id)
        => {accepted'[i] : i \in DOMAIN accepted'} = {accepted[i] : i \in DOMAIN accepted} \cup {c.id}
    <2>1. accepted \in Seq(Nat)
      BY DEF QueueTypes
    <2> DEFINE a == accepted   n == accepted'   e == c.id
    <2>2. a \in Seq(Nat) /\ e \in Nat
      BY <1>2, <2>1
    <2> HIDE DEF a, n, e
    <2>3. n = Append(a, e) => {n[i] : i \in DOMAIN n} = {a[i] : i \in DOMAIN a} \cup {e}
      BY <2>2, AppendedElements, SMTT(30)
    <2> QED
      BY <2>3 DEF a, n, e
  <1>5. CASE /\ accepted' = Append(accepted, c.id)
             /\ UNCHANGED <<moved, served>> /\ r \notin {"nack", "busy"}
    BY <1>2, <1>3, <1>4, <1>5 DEF Effects, c
  <1>6. CASE /\ UNCHANGED accepted
             /\ \/ moved' = moved \cup {c.id} /\ UNCHANGED served /\ r \notin {"nack", "busy"}
                \/ served' = served \cup {c.id} /\ UNCHANGED moved /\ r \notin {"nack", "busy"}
                \/ UNCHANGED <<moved, served>> /\ r # "ack"
    BY <1>2, <1>3, <1>6 DEF Effects, c
  <1> QED
    BY <1>1, <1>5, <1>6

LEMMA DistinctStep ==
    ASSUME TaskTypes, Sourced, Distinct, [Next]_vars
    PROVE  Distinct'
  <1> USE DEF Sources
  <1>1. ASSUME UNCHANGED <<lines, last, count>> PROVE Distinct'
    BY <1>1 DEF Distinct
  <1>2. CASE WsMessage \/ BleWrite
    <2>1. PICK s \in Sources, new \in Seq(Transit) :
             /\ lines[s] = <<>> /\ lines' = [lines EXCEPT ![s] = new]
             /\ count' = count + Len(new) /\ last' = last
             /\ \A i \in DOMAIN new : new[i].id = count + i
      BY <1>2, Arrived
    <2>2. /\ lines'[s] = new /\ \A t \in Sources \ {s} : lines'[t] = lines[t]
          /\ count \in Nat /\ Len(new) \in Nat /\ \A i \in DOMAIN new : i \in Nat /\ 1 <= i /\ i <= Len(new)
      BY <2>1 DEF TaskTypes
    <2>3. \A t \in Sources : last[t] \in Nat
      BY DEF TaskTypes
    <2>4. \A t \in Sources : \A i \in DOMAIN lines[t] : lines[t][i].id \in Nat
      BY TransitId DEF TaskTypes
    <2>5. \A i \in DOMAIN new : new[i].id > count /\ new[i].id <= count'
      BY <2>1, <2>2
    <2>6. \A i, j \in DOMAIN new : new[i].id = new[j].id => i = j
      BY <2>1, <2>2
    <2>7. \A t \in Sources \ {s} : \A i \in DOMAIN lines[t] : lines[t][i].id <= count
      BY DEF Distinct
    <2>8. \A t \in Sources : \A i \in DOMAIN lines'[t] : lines'[t][i].id <= count'
      BY <2>1, <2>2, <2>4, <2>5, <2>7
    <2>9. \A t, u \in Sources : \A i \in DOMAIN lines'[t] : \A j \in DOMAIN lines'[u] :
             lines'[t][i].id = lines'[u][j].id => t = u
      BY <2>2, <2>4, <2>5, <2>7
    <2>10. \A t \in Sources : \A i, j \in DOMAIN lines'[t] : lines'[t][i].id = lines'[t][j].id => i = j
      BY <2>2, <2>6 DEF Distinct
    <2>11. \A t, u \in Sources : \A i \in DOMAIN lines'[t] : lines'[t][i].id # last'[u]
      <3>1. \A u \in Sources : last[u] <= count
        BY DEF Distinct
      <3>2. \A t \in Sources \ {s}, u \in Sources : \A i \in DOMAIN lines[t] : lines[t][i].id # last[u]
        BY DEF Distinct
      <3> QED
        BY <2>1, <2>2, <2>3, <2>5, <3>1, <3>2
    <2>12. (\A t \in Sources : last'[t] <= count') /\ (last'["ws"] = last'["ble"] => last'["ws"] = 0)
      BY <2>1, <2>2, <2>3 DEF Distinct
    <2> QED
      BY <2>8, <2>9, <2>10, <2>11, <2>12 DEF Distinct
  <1>3. ASSUME NEW s \in Sources, Perform(s) PROVE Distinct'
    <2> DEFINE c == Head(lines[s])
    <2>1. /\ lines[s] # <<>> /\ lines' = [lines EXCEPT ![s] = Tail(@)]
          /\ last' = [last EXCEPT ![s] = c.id] /\ count' = count
      BY <1>3, PerformEffects DEF Performed
    <2>2. /\ lines[s][1] = c /\ c.id \in Nat /\ c.id # 0 /\ 1 \in DOMAIN lines[s]
          /\ \A t \in Sources \ {s} : lines'[t] = lines[t]
          /\ \A i \in DOMAIN lines'[s] :
                i \in Nat /\ i + 1 \in DOMAIN lines[s] /\ i + 1 # 1 /\ lines'[s][i] = lines[s][i + 1]
      BY <2>1, Remaining
    <2>3. last'[s] = c.id /\ \A t \in Sources \ {s} : last'[t] = last[t]
      BY <2>1 DEF TaskTypes
    <2> HIDE DEF c
    <2>4. \A t \in Sources : \A i \in DOMAIN lines'[t] :
             \E j \in DOMAIN lines[t] : lines'[t][i] = lines[t][j] /\ lines[t][j].id # c.id
      BY <2>2 DEF Distinct
    <2>5. \A t \in Sources : \A i \in DOMAIN lines'[t] : lines'[t][i].id <= count'
      BY <2>1, <2>4 DEF Distinct
    <2>6. \A t \in Sources : \A i, j \in DOMAIN lines'[t] : lines'[t][i].id = lines'[t][j].id => i = j
      <3>1. \A i, j \in DOMAIN lines'[s] : lines'[s][i].id = lines'[s][j].id => i + 1 = j + 1
        BY <2>2 DEF Distinct
      <3>2. \A i, j \in DOMAIN lines'[s] : i + 1 = j + 1 => i = j
        BY <2>2
      <3> QED
        BY <2>2, <3>1, <3>2 DEF Distinct
    <2>7. \A t, u \in Sources : \A i \in DOMAIN lines'[t] : \A j \in DOMAIN lines'[u] :
             lines'[t][i].id = lines'[u][j].id => t = u
      BY <2>4 DEF Distinct
    <2>8. \A t, u \in Sources : \A i \in DOMAIN lines'[t] : lines'[t][i].id # last'[u]
      BY <2>3, <2>4 DEF Distinct
    <2>9. \A t \in Sources : last'[t] <= count'
      BY <2>1, <2>2, <2>3 DEF Distinct
    <2>10. last'["ws"] = last'["ble"] => last'["ws"] = 0
      BY <2>2, <2>3 DEF Distinct
    <2> QED
      BY <2>5, <2>6, <2>7, <2>8, <2>9, <2>10 DEF Distinct
  <1>4. ASSUME NEW s \in Sources, Answer(s) PROVE Distinct'
    <2>1. last' = [last EXCEPT ![s] = 0] /\ UNCHANGED <<lines, count>>
      BY <1>4, Zenon DEF Answer
    <2>2. last'[s] = 0 /\ \A t \in Sources \ {s} : last'[t] = last[t]
      BY <2>1 DEF TaskTypes
    <2>3. \A t \in Sources : \A i \in DOMAIN lines[t] : lines[t][i].id # 0
      BY TransitId DEF TaskTypes
    <2>4. count \in Nat
      BY DEF TaskTypes
    <2> QED
      BY <2>1, <2>2, <2>3, <2>4 DEF Distinct
  <1>5. CASE LinkEvent \/ StatusEvent \/ ControlStep \/ (\E t \in Tasks : Notification(t))
    BY <1>1, <1>5, Elsewhere DEF handler, history
  <1>6. CASE UNCHANGED vars
    BY <1>1, <1>6 DEF vars, handler, history
  <1> QED
    BY <1>1, <1>2, <1>3, <1>4, <1>5, <1>6 DEF Next

\* The head of a message is no effect and no answer yet, and the last one of no task.
LEMMA UndoneStep ==
    ASSUME TaskTypes, QueueTypes, Sourced, Distinct, Undone, [Next]_vars
    PROVE  Undone'
  <1>1. ASSUME UNCHANGED <<lines, last, count, answer, accepted, moved, served>> PROVE Undone'
    <2>1. Effects' = Effects
      BY <1>1, EffectsKept
    <2> QED
      BY <1>1, <2>1 DEF Undone
  <1>2. CASE WsMessage \/ BleWrite
    <2>1. PICK s \in Sources, new \in Seq(Transit) :
             /\ lines[s] = <<>> /\ lines' = [lines EXCEPT ![s] = new]
             /\ count' = count + Len(new) /\ UNCHANGED <<last, answer, accepted, moved, served>>
             /\ \A i \in DOMAIN new : new[i].id = count + i
      BY <1>2, Arrived DEF ingress
    <2>2. /\ lines'[s] = new /\ \A t \in Sources \ {s} : lines'[t] = lines[t]
          /\ count \in Nat /\ Len(new) \in Nat /\ \A i \in DOMAIN new : i \in Nat /\ 1 <= i
      BY <2>1 DEF TaskTypes
    <2>3. Effects' = Effects
      BY <2>1, EffectsKept
    <2>4. \A i \in DOMAIN new : new[i].id > count /\ new[i].id \in Nat
      BY <2>1, <2>2
    <2>5. \A e \in Effects' : e \in 1 .. count'
      BY <2>1, <2>2, <2>3 DEF Undone
    <2>6. \A t \in Sources : \A i \in DOMAIN lines'[t] : lines'[t][i].id \notin Effects'
      BY <2>2, <2>3, <2>4 DEF Undone
    <2>7. ASSUME NEW k \in Ids, answer'[k] # "none"
          PROVE  /\ k <= count'
                 /\ \A t \in Sources : k # last'[t] /\ \A i \in DOMAIN lines'[t] : lines'[t][i].id # k
      <3>1. k \in Nat
        BY DEF Ids
      <3>2. /\ k <= count
            /\ \A t \in Sources : k # last[t] /\ \A i \in DOMAIN lines[t] : lines[t][i].id # k
        BY <2>1, <2>7 DEF Undone
      <3> QED
        BY <2>1, <2>2, <2>4, <3>1, <3>2
    <2> QED
      BY <2>5, <2>6, <2>7 DEF Undone
  <1>3. ASSUME NEW s \in Sources, Perform(s) PROVE Undone'
    <2> DEFINE c == Head(lines[s])
    <2>1. /\ lines[s] # <<>> /\ lines' = [lines EXCEPT ![s] = Tail(@)]
          /\ last' = [last EXCEPT ![s] = c.id] /\ UNCHANGED <<count, answer>>
      BY <1>3, PerformEffects DEF Performed
    <2>2. /\ lines[s][1] = c /\ c.id \in Nat /\ c.id # 0 /\ 1 \in DOMAIN lines[s]
          /\ \A t \in Sources \ {s} : lines'[t] = lines[t]
          /\ \A i \in DOMAIN lines'[s] :
                i \in Nat /\ i + 1 \in DOMAIN lines[s] /\ i + 1 # 1 /\ lines'[s][i] = lines[s][i + 1]
      BY <2>1, Remaining
    <2>3. last'[s] = c.id /\ \A t \in Sources \ {s} : last'[t] = last[t]
      BY <2>1 DEF TaskTypes
    <2>4. Effects' = Effects \/ Effects' = Effects \cup {c.id}
      BY <1>3, EffectsGrow
    <2> HIDE DEF c
    <2>5. \A t \in Sources : \A i \in DOMAIN lines'[t] :
             \E j \in DOMAIN lines[t] : lines'[t][i] = lines[t][j] /\ lines[t][j].id # c.id
      BY <2>2 DEF Distinct
    <2>6. c.id \in 1 .. count /\ count \in Nat
      BY <2>2 DEF Distinct, TaskTypes
    <2>7. \A e \in Effects' : e \in 1 .. count'
      BY <2>1, <2>4, <2>6 DEF Undone
    <2>8. \A t \in Sources : \A i \in DOMAIN lines'[t] : lines'[t][i].id \notin Effects'
      BY <2>4, <2>5 DEF Undone
    <2>9. ASSUME NEW k \in Ids, answer'[k] # "none"
          PROVE  /\ k <= count'
                 /\ \A t \in Sources : k # last'[t] /\ \A i \in DOMAIN lines'[t] : lines'[t][i].id # k
      <3>1. /\ k <= count
            /\ \A t \in Sources : k # last[t] /\ \A i \in DOMAIN lines[t] : lines[t][i].id # k
        BY <2>1, <2>9 DEF Undone
      <3>2. k # c.id
        BY <2>2, <3>1
      <3> QED
        BY <2>1, <2>3, <2>5, <3>1, <3>2
    <2> QED
      BY <2>7, <2>8, <2>9 DEF Undone
  <1>4. ASSUME NEW s \in Sources, Answer(s) PROVE Undone'
    <2>1. /\ answer' = [answer EXCEPT ![last[s]] = reply[s]] /\ last' = [last EXCEPT ![s] = 0]
          /\ last[s] # 0 /\ UNCHANGED <<lines, count, accepted, served, moved>>
      BY <1>4, Zenon DEF Answer, ingress
    <2>2. last'[s] = 0 /\ \A t \in Sources \ {s} : last'[t] = last[t]
      BY <2>1 DEF TaskTypes
    <2>3. Effects' = Effects
      BY <2>1, EffectsKept
    <2>4. ASSUME NEW k \in Ids, answer'[k] # "none"
          PROVE  /\ k <= count
                 /\ \A t \in Sources : k # last'[t] /\ \A i \in DOMAIN lines[t] : lines[t][i].id # k
      <3>1. CASE k = last[s]
        <4>1. k <= count /\ k # 0 /\ \A t \in Sources : \A i \in DOMAIN lines[t] : lines[t][i].id # k
          BY <2>1, <3>1 DEF Distinct
        <4>2. \A t \in Sources \ {s} : last[t] # last[s]
          BY <2>1 DEF Distinct, Sources
        <4> QED
          BY <2>2, <3>1, <4>1, <4>2
      <3>2. CASE k # last[s]
        <4>1. answer[k] # "none" /\ k # 0
          BY <2>1, <2>4, <3>2 DEF TaskTypes, Ids
        <4> QED
          BY <2>2, <4>1 DEF Undone
      <3> QED
        BY <3>1, <3>2
    <2> QED
      BY <2>1, <2>3, <2>4 DEF Undone
  <1>5. CASE LinkEvent \/ StatusEvent \/ ControlStep \/ (\E t \in Tasks : Notification(t))
    BY <1>1, <1>5, Elsewhere DEF handler, history
  <1>6. CASE UNCHANGED vars
    BY <1>1, <1>6 DEF vars, handler, history, ingress
  <1> QED
    BY <1>1, <1>2, <1>3, <1>4, <1>5, <1>6 DEF Next

LEMMA RepliesStep ==
    ASSUME TaskTypes, QueueTypes, Sourced, Distinct, Undone, RepliesTrue, AnswersTrue, [Next]_vars
    PROVE  RepliesTrue' /\ AnswersTrue'
  <1>0. AnswersTrue <=> \A i \in Ids : /\ answer[i] = "ack" => i \in Effects
                                       /\ answer[i] \in {"nack", "busy"} => i \notin Effects
    BY DEF AnswersTrue, Effects
  <1>1. ASSUME UNCHANGED <<last, reply, answer, accepted, moved, served>>
        PROVE  RepliesTrue' /\ AnswersTrue'
    BY <1>1 DEF RepliesTrue, AnswersTrue, Effects
  <1>2. CASE WsMessage \/ BleWrite
    BY <1>1, <1>2, Arrived DEF ingress
  <1>3. ASSUME NEW s \in Sources, Perform(s) PROVE RepliesTrue' /\ AnswersTrue'
    <2> DEFINE c == Head(lines[s])
    <2>1. /\ lines[s] # <<>> /\ lines' = [lines EXCEPT ![s] = Tail(@)] /\ answer' = answer
          /\ last' = [last EXCEPT ![s] = c.id] /\ \E r \in Replies : reply' = [reply EXCEPT ![s] = r]
      BY <1>3, PerformEffects DEF Performed
    <2>2. lines[s][1] = c /\ c.id \in Nat /\ c.id # 0 /\ 1 \in DOMAIN lines[s]
      BY <2>1, Remaining
    <2>3. last'[s] = c.id /\ \A t \in Sources \ {s} : last'[t] = last[t] /\ reply'[t] = reply[t]
      BY <2>1 DEF TaskTypes
    <2>4. \/ Effects' = Effects \cup {c.id} /\ reply'[s] \notin {"nack", "busy"}
          \/ Effects' = Effects /\ reply'[s] # "ack"
      BY <1>3, EffectsGrow
    <2> HIDE DEF c
    <2>5. c.id \notin Effects /\ \A t \in Sources : last[t] # c.id
      BY <2>2 DEF Undone, Distinct
    <2>6. \A t \in Sources : last'[t] # 0 =>
              /\ reply'[t] = "ack" => last'[t] \in Effects'
              /\ reply'[t] \in {"nack", "busy"} => last'[t] \notin Effects'
      <3>1. /\ reply'[s] = "ack" => c.id \in Effects'
            /\ reply'[s] \in {"nack", "busy"} => c.id \notin Effects'
        BY <2>4, <2>5
      <3>2. \A t \in Sources \ {s} : last[t] # 0 =>
              /\ reply[t] = "ack" => last[t] \in Effects'
              /\ reply[t] \in {"nack", "busy"} => last[t] \notin Effects'
        BY <2>4, <2>5 DEF RepliesTrue
      <3> QED
        BY <2>3, <3>1, <3>2
    <2>7. \A i \in Ids : /\ answer[i] = "ack" => i \in Effects'
                         /\ answer[i] \in {"nack", "busy"} => i \notin Effects'
      <3>1. \A i \in Ids : answer[i] # "none" => i # c.id
        BY <2>2 DEF Undone
      <3> QED
        BY <1>0, <2>4, <3>1
    <2>8. AnswersTrue'
      BY <2>1, <2>7 DEF AnswersTrue, Effects
    <2> QED
      BY <2>6, <2>8 DEF RepliesTrue
  <1>4. ASSUME NEW s \in Sources, Answer(s) PROVE RepliesTrue' /\ AnswersTrue'
    <2>1. /\ answer' = [answer EXCEPT ![last[s]] = reply[s]] /\ last' = [last EXCEPT ![s] = 0]
          /\ reply' = [reply EXCEPT ![s] = "none"]
          /\ last[s] # 0 /\ UNCHANGED <<accepted, served, moved>>
      BY <1>4, Zenon DEF Answer, ingress
    <2>2. last'[s] = 0 /\ \A t \in Sources \ {s} : last'[t] = last[t] /\ reply'[t] = reply[t]
      BY <2>1 DEF TaskTypes
    <2>3. Effects' = Effects
      BY <2>1, EffectsKept
    <2>4. RepliesTrue'
      BY <2>2, <2>3 DEF RepliesTrue
    <2>5. \A i \in Ids : answer'[i] = IF i = last[s] THEN reply[s] ELSE answer[i]
      BY <2>1 DEF TaskTypes
    <2>6. /\ reply[s] = "ack" => last[s] \in Effects
          /\ reply[s] \in {"nack", "busy"} => last[s] \notin Effects
      BY <2>1 DEF RepliesTrue
    <2>7. \A i \in Ids : /\ answer'[i] = "ack" => i \in Effects'
                         /\ answer'[i] \in {"nack", "busy"} => i \notin Effects'
      BY <1>0, <2>3, <2>5, <2>6
    <2> QED
      BY <2>4, <2>7 DEF AnswersTrue, Effects
  <1>5. CASE LinkEvent \/ StatusEvent \/ ControlStep \/ (\E t \in Tasks : Notification(t))
    BY <1>1, <1>5, Elsewhere DEF handler, history
  <1>6. CASE UNCHANGED vars
    BY <1>1, <1>6 DEF vars, handler, history, ingress
  <1> QED
    BY <1>1, <1>2, <1>3, <1>4, <1>5, <1>6 DEF Next

LEMMA CountedStep ==
    ASSUME TaskTypes, QueueTypes, Sourced, Counted, [Next]_vars
    PROVE  Counted'
  <1> USE DEF Sources
  <1>0. count \in Nat /\ Len(accepted) \in Nat /\ Len(lines["ws"]) \in Nat /\ Len(lines["ble"]) \in Nat
    BY DEF TaskTypes, QueueTypes
  <1>1. ASSUME UNCHANGED <<accepted, lines, count>> PROVE Counted'
    BY <1>1 DEF Counted
  <1>2. CASE WsMessage \/ BleWrite
    <2>1. PICK s \in Sources, new \in Seq(Transit) :
             /\ lines[s] = <<>> /\ lines' = [lines EXCEPT ![s] = new]
             /\ count' = count + Len(new) /\ accepted' = accepted
      BY <1>2, Arrived
    <2>2. /\ lines'[s] = new /\ \A t \in Sources \ {s} : lines'[t] = lines[t]
          /\ Len(new) \in Nat /\ Len(lines[s]) = 0
      BY <2>1 DEF TaskTypes
    <2>0. count' = count + Len(new) /\ Len(accepted') = Len(accepted) /\ Len(new) \in Nat
      BY <2>1, <2>2
    <2>3. CASE s = "ws"
      <3>1. Len(lines'["ws"]) = Len(new) /\ lines'["ble"] = lines["ble"] /\ Len(lines["ws"]) = 0
        BY <2>2, <2>3
      <3> QED
        <4> DEFINE a == Len(accepted)   w == Len(lines["ws"])   b == Len(lines["ble"])
                   a1 == Len(accepted')   w1 == Len(lines'["ws"])   b1 == Len(lines'["ble"])   n == Len(new)
        <4>1. a \in Nat /\ w \in Nat /\ b \in Nat /\ count \in Nat /\ b1 = b /\ w = 0 /\ w1 = n /\ a1 = a
              /\ n \in Nat /\ count' = count + n
          BY <1>0, <2>0, <3>1
        <4>2. a + w + b <= count
          BY DEF Counted
        <4> HIDE DEF a, w, b, a1, w1, b1, n
        <4>3. a1 + w1 + b1 <= count'
          BY <4>1, <4>2
        <4> QED
          BY <4>3 DEF Counted, a1, w1, b1
    <2>4. CASE s = "ble"
      <3>1. Len(lines'["ble"]) = Len(new) /\ lines'["ws"] = lines["ws"] /\ Len(lines["ble"]) = 0
        BY <2>2, <2>4
      <3> QED
        <4> DEFINE a == Len(accepted)   w == Len(lines["ws"])   b == Len(lines["ble"])
                   a1 == Len(accepted')   w1 == Len(lines'["ws"])   b1 == Len(lines'["ble"])   n == Len(new)
        <4>1. a \in Nat /\ w \in Nat /\ b \in Nat /\ count \in Nat /\ w1 = w /\ b = 0 /\ b1 = n /\ a1 = a
              /\ n \in Nat /\ count' = count + n
          BY <1>0, <2>0, <3>1
        <4>2. a + w + b <= count
          BY DEF Counted
        <4> HIDE DEF a, w, b, a1, w1, b1, n
        <4>3. a1 + w1 + b1 <= count'
          BY <4>1, <4>2
        <4> QED
          BY <4>3 DEF Counted, a1, w1, b1
    <2> QED
      BY <2>3, <2>4
  <1>3. ASSUME NEW s \in Sources, Perform(s) PROVE Counted'
    <2> DEFINE c == Head(lines[s])
    <2>1. /\ lines[s] # <<>> /\ lines' = [lines EXCEPT ![s] = Tail(@)] /\ count' = count
          /\ accepted' = accepted \/ accepted' = Append(accepted, c.id)
      BY <1>3, PerformEffects DEF Performed
    <2>2. /\ Len(lines'[s]) = Len(lines[s]) - 1 /\ \A t \in Sources \ {s} : lines'[t] = lines[t]
      BY <2>1, Headed DEF TaskTypes
    <2>3. c.id \in Nat
      BY <2>1, Headed, TransitId DEF TaskTypes
    <2> HIDE DEF c
    <2>0. count' = count
      BY <2>1
    <2>4. Len(accepted') = Len(accepted) \/ Len(accepted') = Len(accepted) + 1
      BY <2>1, <2>3, Appended DEF QueueTypes
    <2>5. CASE s = "ws"
      <3>1. Len(lines'["ws"]) = Len(lines["ws"]) - 1 /\ lines'["ble"] = lines["ble"]
        BY <2>2, <2>5
      <3> QED
        <4> DEFINE a == Len(accepted)   w == Len(lines["ws"])   b == Len(lines["ble"])
                   a1 == Len(accepted')   w1 == Len(lines'["ws"])   b1 == Len(lines'["ble"])
        <4>1. a \in Nat /\ w \in Nat /\ b \in Nat /\ count \in Nat /\ b1 = b /\ w1 = w - 1 /\ (a1 = a \/ a1 = a + 1)
              /\ count' = count
          BY <1>0, <2>0, <2>4, <3>1
        <4>2. a + w + b <= count
          BY DEF Counted
        <4> HIDE DEF a, w, b, a1, w1, b1
        <4>3. a1 + w1 + b1 <= count'
          BY <4>1, <4>2
        <4> QED
          BY <4>3 DEF Counted, a1, w1, b1
    <2>6. CASE s = "ble"
      <3>1. Len(lines'["ble"]) = Len(lines["ble"]) - 1 /\ lines'["ws"] = lines["ws"]
        BY <2>2, <2>6
      <3> QED
        <4> DEFINE a == Len(accepted)   w == Len(lines["ws"])   b == Len(lines["ble"])
                   a1 == Len(accepted')   w1 == Len(lines'["ws"])   b1 == Len(lines'["ble"])
        <4>1. a \in Nat /\ w \in Nat /\ b \in Nat /\ count \in Nat /\ w1 = w /\ b1 = b - 1 /\ (a1 = a \/ a1 = a + 1)
              /\ count' = count
          BY <1>0, <2>0, <2>4, <3>1
        <4>2. a + w + b <= count
          BY DEF Counted
        <4> HIDE DEF a, w, b, a1, w1, b1
        <4>3. a1 + w1 + b1 <= count'
          BY <4>1, <4>2
        <4> QED
          BY <4>3 DEF Counted, a1, w1, b1
    <2> QED
      BY <2>5, <2>6
  <1>4. ASSUME NEW s \in Sources, Answer(s) PROVE UNCHANGED <<accepted, lines, count>>
    BY <1>4, Zenon DEF Answer
  <1>5. CASE LinkEvent \/ StatusEvent \/ ControlStep \/ (\E t \in Tasks : Notification(t))
    BY <1>1, <1>5, Elsewhere DEF handler, history
  <1>6. CASE UNCHANGED vars
    BY <1>1, <1>6 DEF vars, handler, history, ingress
  <1> QED
    BY <1>1, <1>2, <1>3, <1>4, <1>5, <1>6 DEF Next

-----------------------------------------------------------------------------
(* What the phone is told of Wi-Fi *)

\* Only a command of the phone touches Wi-Fi, and none while a notification is under way.
LEMMA PerformNotes ==
    ASSUME TaskTypes, Sourced, NEW s \in Sources, Perform(s)
    PROVE  UNCHANGED bleVars \/ (BtQuiet /\ \E w \in Statuses : WifiBecomes(w))
  <1> DEFINE c == Head(lines[s])
  <1>1. lines[s] # <<>> /\ CarryOut(c) /\ (s = "ble" => BtQuiet)
    BY DEF Perform, Ready
  <1>2. s = "ws" => c.msg.kind \notin {"wifi_set", "wifi_get", "wifi_clear"}
    <2>1. 1 \in DOMAIN lines[s] /\ c = lines[s][1]
      BY <1>1, Headed DEF TaskTypes
    <2> QED
      BY <2>1, WsKinds DEF Sourced
  <1> HIDE DEF c
  <1>3. CASE WifiSet(c) \/ WifiClear(c)
    <2>1. BtQuiet
      BY <1>1, <1>2, <1>3 DEF WifiSet, WifiClear, Sources
    <2>2. WifiBecomes("disconnected") \/ WifiBecomes("unconfigured")
      BY <1>3, Zenon DEF WifiSet, WifiClear
    <2> QED
      BY <2>1, <2>2, StatusAssumption
  <1>4. CASE ~(WifiSet(c) \/ WifiClear(c))
    BY <1>1, <1>4, Zenon
       DEF CarryOut, QueueIt, QueueFull, Moved, MoveBusy, MoveRefused, Unfit, Unknown, Transfer, Ping,
           WifiGet, WifiFails, Configure, ConfigRefused
  <1> QED
    BY <1>3, <1>4

Told == NoteTypes /\ NoteCurrent /\ StatusTold

LEMMA ToldKept ==
    ASSUME Told, UNCHANGED bleVars
    PROVE  Told'
  BY DEF Told, NoteTypes, NoteCurrent, StatusTold, Notifiable, bleVars, link, notes

\* A task goes to notify: whatever has changed before is read after.
LEMMA NotesBegin ==
    ASSUME Told, NEW t \in Tasks, noteAt[t] = "none", Begin(t), status' \in Statuses,
           connected' = connected, subscribed' \in BOOLEAN, subscribed' => connected,
           UNCHANGED <<note, told>>
    PROVE  Told'
  <1>1. noteAt'[t] = "read" /\ \A u \in Tasks \ {t} : noteAt'[u] = noteAt[u]
    BY DEF Told, NoteTypes, Begin
  <1>2. NoteTypes'
    BY <1>1 DEF Told, NoteTypes, Begin
  <1>3. NoteCurrent'
    BY <1>1 DEF NoteCurrent
  <1>4. StatusTold'
    BY <1>1 DEF StatusTold
  <1> QED
    BY <1>2, <1>3, <1>4 DEF Told

LEMMA NotifyTold ==
    ASSUME Told, NEW t \in Tasks, Notify(t)
    PROVE  Told'
  <1> USE DEF Tasks
  <1>1. CASE ReadStatus(t)
    <2>1. /\ noteAt[t] = "read" /\ note' = [note EXCEPT ![t] = status]
          /\ noteAt' = [u \in Tasks |->
                           IF u = t THEN IF Busy(t) THEN "overlapped" ELSE "alone"
                           ELSE IF noteAt[u] = "alone" THEN "overlapped" ELSE noteAt[u]]
          /\ UNCHANGED <<connected, subscribed, status, told>>
      BY <1>1, Zenon DEF ReadStatus, link
    <2>2. NoteTypes'
      BY <2>1 DEF Told, NoteTypes
    <2>3. NoteCurrent'
      <3>1. note'[t] = status'
        BY <2>1 DEF Told, NoteTypes
      <3>2. \A u \in Tasks \ {t} : noteAt'[u] # "alone"
        BY <2>1
      <3> QED
        BY <3>1, <3>2 DEF NoteCurrent
    <2>4. noteAt'[t] # "none"
      BY <2>1
    <2> QED
      BY <2>2, <2>3, <2>4 DEF Told, StatusTold
  <1>2. CASE SendNote(t)
    <2>1. /\ noteAt[t] \in {"alone", "overlapped"}
          /\ told' = IF ~Notifiable THEN told ELSE IF noteAt[t] = "alone" THEN note[t] ELSE Unsure
          /\ noteAt' = [noteAt EXCEPT ![t] = "none"] /\ note' = [note EXCEPT ![t] = Untold]
          /\ UNCHANGED <<connected, subscribed, status>>
      BY <1>2, Zenon DEF SendNote, link
    <2>2. NoteTypes'
      BY <2>1 DEF Told, NoteTypes
    <2>3. noteAt'[t] = "none" /\ \A u \in Tasks \ {t} : noteAt'[u] = noteAt[u] /\ note'[u] = note[u]
      BY <2>1 DEF Told, NoteTypes
    <2>4. NoteCurrent'
      BY <2>1, <2>3 DEF Told, NoteCurrent
    <2>5. StatusTold'
      <3> SUFFICES ASSUME Notifiable', \A u \in Tasks : noteAt'[u] = "none", told' # Unsure
                   PROVE  told' = status'
        BY DEF StatusTold
      <3>1. noteAt[t] = "alone"
        BY <2>1 DEF Notifiable
      <3>2. note[t] = status
        BY <2>3, <3>1 DEF Told, NoteCurrent
      <3> QED
        BY <2>1, <3>2 DEF Notifiable
    <2> QED
      BY <2>2, <2>4, <2>5 DEF Told
  <1>3. CASE LoseNote(t)
    <2>1. /\ noteAt[t] \in {"alone", "overlapped"}
          /\ noteAt' = [noteAt EXCEPT ![t] = "none"] /\ note' = [note EXCEPT ![t] = Untold]
          /\ told' = Unsure /\ UNCHANGED <<connected, subscribed, status>>
      BY <1>3, Zenon DEF LoseNote, link
    <2>2. NoteTypes'
      BY <2>1 DEF Told, NoteTypes
    <2>3. noteAt'[t] = "none" /\ \A u \in Tasks \ {t} : noteAt'[u] = noteAt[u] /\ note'[u] = note[u]
      BY <2>1 DEF Told, NoteTypes
    <2>4. NoteCurrent'
      BY <2>1, <2>3 DEF Told, NoteCurrent
    <2>5. StatusTold'
      BY <2>1, Zenon DEF StatusTold
    <2> QED
      BY <2>2, <2>4, <2>5 DEF Told
  <1> QED
    BY <1>1, <1>2, <1>3 DEF Notify

LEMMA ToldStep ==
    ASSUME TaskTypes, Sourced, Told, [Next]_vars
    PROVE  Told'
  <1>1. CASE WsMessage \/ BleWrite
    BY <1>1, Arrived, ToldKept
  <1>2. ASSUME NEW s \in Sources, Perform(s) PROVE Told'
    <2>1. ASSUME NEW w \in Statuses, BtQuiet, WifiBecomes(w) PROVE Told'
      <3>1. "bt" \in Tasks /\ noteAt["bt"] = "none" /\ Begin("bt") /\ status' \in Statuses
            /\ UNCHANGED <<connected, subscribed, note, told>>
        BY <2>1 DEF BtQuiet, WifiBecomes, link, Tasks
      <3> QED
        BY <3>1, NotesBegin DEF Told, NoteTypes
    <2> QED
      BY <1>2, <2>1, PerformNotes, ToldKept
  <1>3. ASSUME NEW s \in Sources, Answer(s) PROVE Told'
    <2>1. /\ UNCHANGED <<connected, subscribed, status, note, told>>
          /\ s = "ble" => BtQuiet
          /\ noteAt' = IF s = "ble" /\ after /\ subscribed THEN [noteAt EXCEPT !["bt"] = "read"] ELSE noteAt
      BY <1>3, Zenon DEF Answer, link
    <2>2. CASE s = "ble" /\ after /\ subscribed
      BY <2>1, <2>2, NotesBegin DEF BtQuiet, Begin, Tasks, Told, NoteTypes
    <2>3. CASE ~(s = "ble" /\ after /\ subscribed)
      <3>1. noteAt' = noteAt
        BY <2>1, <2>3
      <3> QED
        BY <2>1, <3>1 DEF Told, NoteTypes, NoteCurrent, StatusTold, Notifiable
    <2> QED
      BY <2>2, <2>3
  <1>4. CASE LinkEvent
    <2>1. CASE Subscribe
      <3>1. "bt" \in Tasks /\ noteAt["bt"] = "none" /\ Begin("bt") /\ status' = status
            /\ connected /\ subscribed' = TRUE /\ UNCHANGED <<connected, note, told>>
        BY <2>1 DEF Subscribe, BtQuiet, Tasks
      <3> QED
        BY <3>1, NotesBegin DEF Told, NoteTypes
    <2>2. CASE Connect \/ Disconnect \/ Unsubscribe
      <3>1. /\ subscribed' = FALSE /\ connected' \in BOOLEAN /\ told' = Untold
            /\ UNCHANGED <<status, noteAt, note>>
        BY <2>2 DEF Connect, Disconnect, Unsubscribe, Told, NoteTypes
      <3> QED
        BY <3>1 DEF Told, NoteTypes, NoteCurrent, StatusTold, Notifiable
    <2> QED
      BY <1>4, <2>1, <2>2 DEF LinkEvent
  <1>5. CASE StatusEvent
    <2>1. "wifi" \in Tasks /\ noteAt["wifi"] = "none" /\ Begin("wifi") /\ status' \in Statuses
          /\ UNCHANGED <<connected, subscribed, note, told>>
      BY <1>5 DEF StatusEvent, StatusChanges, link, Tasks
    <2> QED
      BY <2>1, NotesBegin DEF Told, NoteTypes
  <1>6. ASSUME NEW t \in Tasks, Notification(t) PROVE Told'
    BY <1>6, NotifyTold DEF Notification
  <1>7. CASE ControlStep \/ UNCHANGED vars
    BY <1>7, ToldKept DEF ControlStep, vars
  <1> QED
    BY <1>1, <1>2, <1>3, <1>4, <1>5, <1>6, <1>7 DEF Next

-----------------------------------------------------------------------------
(* What a message leaves for after its answer, and the size of the picture *)

LEMMA AfterStep ==
    ASSUME TaskTypes, Sourced, AfterTypes, [Next]_vars
    PROVE  AfterTypes'
  <1>1. ASSUME UNCHANGED <<after, lines, last>> PROVE AfterTypes'
    BY <1>1 DEF AfterTypes, Idle
  <1>2. CASE WsMessage \/ BleWrite
    <2>1. PICK s \in Sources, new \in Seq(Transit) :
             /\ lines[s] = <<>> /\ last[s] = 0
             /\ lines' = [lines EXCEPT ![s] = new] /\ UNCHANGED <<last, after>>
      BY <1>2, Arrived
    <2>2. Idle("ble")' => Idle("ble")
      BY <2>1 DEF Idle, TaskTypes, Sources
    <2> QED
      BY <2>1, <2>2 DEF AfterTypes
  <1>3. ASSUME NEW s \in Sources, Perform(s) PROVE AfterTypes'
    <2> DEFINE c == Head(lines[s])
    <2>1. /\ lines[s] # <<>> /\ lines' = [lines EXCEPT ![s] = Tail(@)] /\ last' = [last EXCEPT ![s] = c.id]
      BY <1>3, PerformEffects DEF Performed
    <2>2. c.id # 0 /\ Source(c) = s
      BY <2>1, Headed, TransitId DEF TaskTypes, Sourced
    <2>3. CarryOut(c)
      BY <1>3 DEF Perform
    <2> HIDE DEF c
    <2>4. s = "ble" => ~Idle("ble")'
      BY <2>1, <2>2 DEF Idle, TaskTypes
    <2>5. s = "ws" => (Idle("ble")' <=> Idle("ble"))
      BY <2>1 DEF Idle, TaskTypes, Sources
    <2>6. after' = after \/ after' = (c.via = "json")
      BY <2>3, Zenon
         DEF CarryOut, QueueIt, QueueFull, Moved, MoveBusy, MoveRefused, Unfit, Unknown, Transfer, Ping,
             WifiSet, WifiClear, WifiGet, WifiFails, Configure, ConfigRefused
    <2>7. s = "ws" => after' = after \/ after' = FALSE
      BY <2>2, <2>6 DEF Source
    <2>8. after' \in BOOLEAN
      BY <2>6 DEF AfterTypes
    <2> QED
      BY <2>4, <2>5, <2>7, <2>8 DEF AfterTypes, Sources
  <1>4. ASSUME NEW s \in Sources, Answer(s) PROVE AfterTypes'
    <2>1. /\ last' = [last EXCEPT ![s] = 0] /\ lines' = lines
          /\ after' = IF s = "ble" THEN FALSE ELSE after
      BY <1>4, Zenon DEF Answer
    <2>2. s = "ws" => (Idle("ble")' <=> Idle("ble"))
      BY <2>1 DEF Idle, TaskTypes, Sources
    <2> QED
      BY <2>1, <2>2 DEF AfterTypes, Sources
  <1>5. CASE LinkEvent \/ StatusEvent \/ ControlStep \/ (\E t \in Tasks : Notification(t))
    BY <1>1, <1>5, Elsewhere DEF handler
  <1>6. CASE UNCHANGED vars
    BY <1>1, <1>6 DEF vars, handler
  <1> QED
    BY <1>1, <1>2, <1>3, <1>4, <1>5, <1>6 DEF Next

LEMMA SizedStep ==
    ASSUME Sized, [Next]_vars
    PROVE  Sized'
  <1>1. ASSUME UNCHANGED cached PROVE Sized'
    BY <1>1 DEF Sized
  <1>2. ASSUME NEW s \in Sources, Perform(s) PROVE Sized'
    <2> DEFINE c == Head(lines[s])
    <2>1. CarryOut(c)
      BY <1>2 DEF Perform
    <2> HIDE DEF c
    <2>2. CASE Configure(c)
      <3>1. Paired(c) /\ cached'.w = Width(c) /\ cached'.h = Height(c)
        BY <2>2 DEF Configure
      <3> QED
        BY <3>1 DEF Sized, Paired
    <2>3. CASE ~Configure(c)
      <3>1. UNCHANGED cached
        BY <2>1, <2>3, Zenon
           DEF CarryOut, QueueIt, QueueFull, Moved, MoveBusy, MoveRefused, Unfit, Unknown, Transfer,
               Ping, WifiSet, WifiClear, WifiGet, WifiFails, ConfigRefused
      <3> QED
        BY <1>1, <3>1
    <2> QED
      BY <2>2, <2>3
  <1>3. ASSUME NEW s \in Sources, Answer(s) PROVE UNCHANGED cached
    BY <1>3, Zenon DEF Answer
  <1>4. CASE WsMessage \/ BleWrite
    BY <1>1, <1>4, Zenon DEF WsMessage, BleWrite, Arrive
  <1>5. CASE LinkEvent \/ StatusEvent \/ ControlStep \/ (\E t \in Tasks : Notification(t))
    BY <1>1, <1>5, Elsewhere
  <1>6. CASE UNCHANGED vars
    BY <1>1, <1>6 DEF vars
  <1> QED
    BY <1>1, <1>2, <1>3, <1>4, <1>5, <1>6 DEF Next

-----------------------------------------------------------------------------
(* Theorems *)

Invariant ==
    /\ QueueTypes /\ TaskTypes /\ AfterTypes /\ Sized
    /\ Sourced /\ Distinct /\ Undone /\ RepliesTrue /\ AnswersTrue /\ Counted
    /\ AppliedInOrder /\ Told

LEMMA InvariantInit == Init => Invariant
  <1> SUFFICES ASSUME Init PROVE Invariant
    OBVIOUS
  <1> USE DEF Init, IngressInit, BleInit
  <1>1. QueueTypes /\ TaskTypes /\ AfterTypes /\ Sized
    <2>1. QueueTypes
      BY QueueAssumption DEF QueueTypes, Nothing
    <2>2. TaskTypes
      BY CommandBounds DEF TaskTypes, Replies
    <2> QED
      BY <2>1, <2>2 DEF AfterTypes, Sized
  <1>2. (\A s \in Sources : DOMAIN lines[s] = {} /\ last[s] = 0 /\ Len(lines[s]) = 0) /\ count = 0
    OBVIOUS
  <1>3. Effects = {}
    BY DEF Effects
  <1>4. Sourced /\ Distinct /\ RepliesTrue
    BY <1>2 DEF Sourced, Distinct, RepliesTrue, Sources
  <1>5. Undone /\ AnswersTrue
    BY <1>2, <1>3 DEF Undone, AnswersTrue
  <1>6. Counted
    BY <1>2 DEF Counted, Sources
  <1>7. AppliedInOrder
    <2>1. IdsOf(<<>>) = <<>>
      BY DEF IdsOf
    <2> QED
      BY <2>1, ConcatEmptySeq DEF AppliedInOrder, InHand
  <1>8. Told
    BY StatusAssumption DEF Told, NoteTypes, NoteCurrent, StatusTold, Notifiable
  <1> QED
    BY <1>1, <1>4, <1>5, <1>6, <1>7, <1>8 DEF Invariant

LEMMA InvariantStep == Invariant /\ [Next]_vars => Invariant'
  BY QueueStep, TaskStep, AfterStep, SizedStep, SourcedStep, DistinctStep, UndoneStep,
     RepliesStep,
     CountedStep, OrderStep, ToldStep
     DEF Invariant

LEMMA InvariantTypes == Invariant => TypeOK
  <1> SUFFICES ASSUME Invariant PROVE TypeOK
    OBVIOUS
  <1>1. Len(accepted) <= MaxCommands
    <2>1. /\ Len(accepted) \in Nat /\ Len(lines["ws"]) \in Nat /\ Len(lines["ble"]) \in Nat
          /\ count \in Nat /\ count <= MaxCommands /\ MaxCommands \in Nat
      BY CommandBounds DEF Invariant, QueueTypes, TaskTypes, Sources
    <2>2. Len(accepted) + Len(lines["ws"]) + Len(lines["ble"]) <= count
      BY DEF Invariant, Counted
    <2> DEFINE a == Len(accepted)
    <2> DEFINE w == Len(lines["ws"])
    <2> DEFINE b == Len(lines["ble"])
    <2>3. a \in Nat /\ w \in Nat /\ b \in Nat /\ a + w + b <= count
      BY <2>1, <2>2
    <2> HIDE DEF a, w, b
    <2>4. a <= MaxCommands
      BY <2>1, <2>3
    <2> QED
      BY <2>4 DEF a
  <1>2. \A s \in Sources : last[s] \in 0 .. MaxCommands
    BY CommandBounds DEF Invariant, TaskTypes, Distinct
  <1> QED
    BY <1>1, <1>2 DEF TypeOK, Invariant, QueueTypes, TaskTypes, AfterTypes, Sized, Told, NoteTypes

\* The queue, what it took, the lines of a message and the counts keep within their limits, the
\* status and its notifications are ones that there are, a camera size is configured as a pair, and
\* only a phone that is connected is subscribed.
THEOREM CommandTypes == Spec => []TypeOK
  BY InvariantInit, InvariantStep, InvariantTypes, PTL DEF Spec

\* A phone that can be notified, and to which no task is about to send anything, knows the status
\* as it is, unless notifications of two tasks overlapped or the last one was lost.
THEOREM PhoneTold == Spec => []StatusTold
  <1>1. Invariant => StatusTold
    BY DEF Invariant, Told
  <1> QED
    BY <1>1, InvariantInit, InvariantStep, PTL DEF Spec

\* What the queue took, from whichever task, is applied once and in that order; a command that is
\* acknowledged was taken or carried out, and one that is refused had no effect: the safety half of
\* AnswersKept.
THEOREM AnswersHonest == Spec => [](AppliedInOrder /\ AnswersTrue)
  <1>1. Invariant => AppliedInOrder /\ AnswersTrue
    BY DEF Invariant
  <1> QED
    BY <1>1, InvariantInit, InvariantStep, PTL DEF Spec

-----------------------------------------------------------------------------
(* Display *)

-----------------------------------------------------------------------------
(* The strengthening.  A number below twice its divisor has a remainder    *)
(* without a division, so the ring is described slot by slot.              *)

\* A remainder of numbers below twice the divisor
Wrapped(a, n) == IF a < n THEN a ELSE a - n

\* How far slot s is ahead of the current one of playback p
Ahead(p, s) == IF s >= p.slot THEN s - p.slot ELSE s - p.slot + p.slotCount

\* What is in slot s: the frame that follows as far behind the current one, or nothing
InSlot(p, s) ==
    IF Ahead(p, s) < p.buffered THEN Wrapped(p.frame + Ahead(p, s), FrameCount[p.type]) ELSE Empty

\* RingOf, slot by slot; an animation that does not loop has not been round.
RingFits(p) ==
    p.inUse =>
        /\ p.type \in Types
        /\ p.slotCount \in 1 .. Ring /\ p.slotCount <= FrameCount[p.type]
        /\ p.buffered <= p.slotCount /\ p.slot < p.slotCount
        /\ p.nextSlot = Wrapped(p.slot + p.buffered, p.slotCount)
        /\ \A s \in 0 .. p.slotCount - 1 : p.slots[s] = InSlot(p, s)
        /\ p.frame < FrameCount[p.type] /\ p.nextFrame <= FrameCount[p.type]
        /\ Wrapped(p.nextFrame, FrameCount[p.type])
             = Wrapped(p.frame + p.buffered, FrameCount[p.type])
        /\ p.type \notin Looping => p.nextFrame = p.frame + p.buffered

Rings == RingFits(active) /\ RingFits(pending)

\* The task fills a ring with room, for nobody changes it meanwhile.
FillFits == /\ filling = "active" => WantsFrame(active)
            /\ filling = "pending" => WantsFrame(pending)

\* The image in front is the current slot of the playback in front, which has a frame.
FrontFits ==
    /\ state = "playing" => active.inUse /\ ~pending.inUse /\ current = active.type
    /\ active.inUse => active.buffered >= 1 /\ front = active.slot

\* A playback that is being prepared is younger than the one in front: a switch changes the
\* generation of what is in front.
Generations ==
    /\ active.inUse => active.generation <= generation
    /\ pending.inUse => pending.generation <= generation
    /\ active.inUse /\ pending.inUse => active.generation < pending.generation

\* What holds of the player, whoever calls it
PlayerInv == PlayerTypeOK /\ Rings /\ FillFits /\ FrontFits /\ Generations

\* The types of the calls
CallTypes ==
    /\ pc \in [Callers -> {"boot", "idle", "label", "store", "emoji", "sync"}]
    /\ call \in [Callers -> [text : Texts \cup Notices \cup {None}, emoji : Types \cup {None},
                             changes : BOOLEAN]]
    /\ known \in Types
    /\ stored \in Texts \cup Notices \cup {""} /\ label \in Texts \cup Notices \cup {"Ready"}
    /\ stops \in 0 .. MaxStops /\ updates \in 0 .. MaxUpdates
    /\ overlapped \in BOOLEAN /\ wanted \in Types \cup {None}

\* Only the behaviour task asks for an emoji, and for nothing while it starts.
Arguments ==
    /\ \A t \in Callers : /\ Setting(t) => call[t].text # None
                          /\ call[t].changes \/ pc[t] = "emoji" => call[t].emoji # None
    /\ call["other"].emoji = None /\ pc["other"] # "boot"
    /\ pc["behavior"] = "boot" => wanted = None

\* One task sets the text, and what it has shown is what it will remember.
TextFits ==
    ~overlapped =>
        /\ \A t, u \in Callers : Setting(t) /\ Setting(u) => t = u
        /\ \A t \in Callers : pc[t] = "store" => label = call[t].text
        /\ (\A t \in Callers : pc[t] # "store") /\ stored # "" => label = stored

DisplayInv == PlayerInv /\ CallTypes /\ Arguments /\ TextFits /\ RequestHonoured

-----------------------------------------------------------------------------
(* Remainders *)

LEMMA Remainder ==
  ASSUME NEW n \in Nat \ {0}, NEW a \in Nat, a < 2 * n
  PROVE a % n = Wrapped(a, n)
<1>1. CASE a < n
  BY <1>1, Z3 DEF Wrapped
<1>2. CASE a >= n
  <2>1. a - n \in 0 .. n - 1 /\ a = 1 * n + (a - n)
    BY <1>2
  <2>q. QED
    BY <1>2, <2>1, Z3 DEF Wrapped
<1>q. QED
  BY <1>1, <1>2

-----------------------------------------------------------------------------
(* A playback, field by field *)

\* A record with these fields is nothing more: what a field-by-field proof ends with
IsRecord(q) ==
    q = [inUse |-> q.inUse, type |-> q.type, generation |-> q.generation, slots |-> q.slots,
         slotCount |-> q.slotCount, slot |-> q.slot, frame |-> q.frame,
         buffered |-> q.buffered, nextFrame |-> q.nextFrame, nextSlot |-> q.nextSlot]

LEMMA FilledFields ==
  ASSUME NEW p \in Playback, NEW q, q = Filled(p)
  PROVE /\ q.inUse = p.inUse /\ q.type = p.type /\ q.generation = p.generation
        /\ q.slots = [p.slots EXCEPT ![p.nextSlot] = NextFrame(p)] /\ q.slotCount = p.slotCount
        /\ q.slot = p.slot /\ q.frame = p.frame /\ q.buffered = p.buffered + 1
        /\ q.nextFrame = NextFrame(p) + 1 /\ q.nextSlot = (p.nextSlot + 1) % p.slotCount
        /\ IsRecord(q)
  BY DEF Filled, Playback, IsRecord

LEMMA AdvancedFields ==
  ASSUME NEW p \in Playback, NEW q, q = Advanced(p)
  PROVE /\ q.inUse = p.inUse /\ q.type = p.type /\ q.generation = p.generation
        /\ q.slots = [p.slots EXCEPT ![p.slot] = Empty] /\ q.slotCount = p.slotCount
        /\ q.slot = AfterSlot(p) /\ q.frame = p.slots[AfterSlot(p)] /\ q.buffered = p.buffered - 1
        /\ q.nextFrame = p.nextFrame /\ q.nextSlot = p.nextSlot
        /\ IsRecord(q)
  BY DEF Advanced, Playback, IsRecord

LEMMA OpenedFields ==
  ASSUME NEW t, NEW g, NEW q, q = Opened(t, g)
  PROVE /\ q.inUse /\ q.type = t /\ q.generation = g
        /\ q.slots = [s \in Slots |-> Empty]
        /\ q.slotCount = IF FrameCount[t] < Ring THEN FrameCount[t] ELSE Ring
        /\ q.slot = 0 /\ q.frame = 0 /\ q.buffered = 0 /\ q.nextFrame = 0 /\ q.nextSlot = 0
        /\ IsRecord(q)
  BY DEF Opened, Closed, IsRecord

-----------------------------------------------------------------------------
(* The ring *)

\* The ranges of a ring that is in order
LEMMA RingTypes ==
  ASSUME NEW p \in Playback, RingFits(p), p.inUse
  PROVE /\ p.type \in Types /\ FrameCount[p.type] \in Nat \ {0} /\ Ring \in Nat
        /\ p.slotCount \in 1 .. Ring /\ p.slotCount <= FrameCount[p.type]
        /\ p.buffered \in 0 .. p.slotCount /\ p.slot \in 0 .. p.slotCount - 1
        /\ p.frame \in 0 .. FrameCount[p.type] - 1 /\ p.nextFrame \in 0 .. FrameCount[p.type]
<1>1. p.type \in Types /\ FrameCount[p.type] \in Nat \ {0} /\ Ring \in Nat
  BY AnimAssumption DEF RingFits
<1>2. /\ p.slotCount \in 0 .. Ring /\ p.slot \in Slots /\ p.frame \in Nat
      /\ p.buffered \in 0 .. Ring /\ p.nextFrame \in Nat
  BY Zenon DEF Playback
<1>3. /\ p.slotCount \in 1 .. Ring /\ p.slotCount <= FrameCount[p.type]
      /\ p.buffered <= p.slotCount /\ p.slot < p.slotCount
      /\ p.frame < FrameCount[p.type] /\ p.nextFrame <= FrameCount[p.type]
  BY Zenon DEF RingFits
<1>q. QED
  BY <1>1, <1>2, <1>3, SMT DEF Slots

\* playback_fill_next: the ring stays in order, and the next frame follows.
LEMMA FilledRing ==
  ASSUME NEW p \in Playback, RingFits(p), WantsFrame(p), NEW q, q = Filled(p)
  PROVE q \in Playback /\ RingFits(q)
<1> DEFINE N == FrameCount[p.type]
           c == p.slotCount
           b == p.buffered
           ns == p.nextSlot
           nf == NextFrame(p)
<1>1. /\ p.inUse /\ p.type \in Types /\ N \in Nat \ {0} /\ c \in 1 .. Ring /\ c <= N
      /\ b \in 0 .. c - 1 /\ p.slot \in 0 .. c - 1 /\ p.frame \in 0 .. N - 1
      /\ p.nextFrame \in 0 .. N /\ Ring \in Nat
  <2>1. p.inUse /\ b < c
    BY DEF WantsFrame
  <2>q. QED
    BY <2>1, RingTypes, SMT
<1>2. ns = Wrapped(p.slot + b, c) /\ ns \in 0 .. c - 1
  BY <1>1, SMT DEF RingFits, Wrapped
<1>3. (ns + 1) % c = Wrapped(ns + 1, c)
  BY <1>1, <1>2, Remainder
<1>4. nf = Wrapped(p.frame + b, N) /\ nf \in 0 .. N - 1
  <2>1. N % N = Wrapped(N, N)
    BY <1>1, Remainder
  <2>2. nf = Wrapped(p.nextFrame, N)
    BY <1>1, <2>1, SMT DEF NextFrame, WantsFrame, Wrapped
  <2>q. QED
    BY <1>1, <2>2, SMT DEF RingFits, Wrapped
<1>5. p.type \notin Looping => nf = p.nextFrame
  BY DEF NextFrame
<1>6. /\ q.inUse = p.inUse /\ q.type = p.type /\ q.generation = p.generation
      /\ q.slots = [p.slots EXCEPT ![ns] = nf] /\ q.slotCount = c
      /\ q.slot = p.slot /\ q.frame = p.frame /\ q.buffered = b + 1
      /\ q.nextFrame = nf + 1 /\ q.nextSlot = (ns + 1) % c
  BY FilledFields
<1>7. q.nextSlot = Wrapped(p.slot + b + 1, c) /\ q.nextSlot \in 0 .. c - 1
  BY <1>1, <1>2, <1>3, <1>6, SMT DEF Wrapped
<1>8. ASSUME NEW s \in 0 .. c - 1 PROVE q.slots[s] = InSlot(q, s)
  <2>1. p.slots[s] = InSlot(p, s) /\ p.slots \in [Slots -> Int] /\ s \in Slots
    <3>1. s \in Slots
      BY <1>1, <1>8 DEF Slots
    <3>2. p.slots \in [Slots -> Int]
      BY SMT DEF Playback
    <3>q. QED
      BY <1>1, <1>8, <3>1, <3>2 DEF RingFits
  <2>2. Ahead(q, s) = Ahead(p, s) /\ Ahead(p, s) \in 0 .. c - 1
    BY <1>1, <1>6, <1>8, SMT DEF Ahead
  <2>3. (s = ns) <=> (Ahead(p, s) = b)
    BY <1>1, <1>2, <1>8, SMT DEF Ahead, Wrapped
  <2>4. q.slots[s] = IF s = ns THEN nf ELSE p.slots[s]
    BY <1>6, <2>1
  <2>q. QED
    BY <1>1, <1>4, <1>6, <2>1, <2>2, <2>3, <2>4, SMT DEF InSlot
<1>9. q \in Playback
  <2>1. q.slots \in [Slots -> Int]
    BY <1>4, <1>6, SMT DEF Playback
  <2>2. IsRecord(q) /\ p.generation \in 0 .. MaxStarts
    BY FilledFields DEF Playback
  <2>3. /\ q.inUse \in BOOLEAN /\ q.type \in Types \cup {NoType}
        /\ q.generation \in 0 .. MaxStarts
        /\ q.slotCount \in 0 .. Ring /\ q.slot \in Slots /\ q.frame \in Nat
        /\ q.buffered \in 0 .. Ring /\ q.nextFrame \in Nat /\ q.nextSlot \in Slots
    BY <1>1, <1>4, <1>6, <1>7, <2>2, SMT DEF Slots
  <2>q. QED
    BY <2>1, <2>2, <2>3, Zenon DEF Playback, IsRecord
<1>10. q.nextFrame <= N /\ Wrapped(q.nextFrame, N) = Wrapped(q.frame + q.buffered, N)
  <2>1. /\ p.frame + b < N => nf = p.frame + b
        /\ p.frame + b >= N => nf = p.frame + b - N
    BY <1>1, <1>4, SMT DEF Wrapped
  <2>q. QED
    BY <1>1, <1>6, <2>1, SMT DEF Wrapped
<1>11. p.type \notin Looping => q.nextFrame = q.frame + q.buffered
  <2>1. p.type \notin Looping => p.nextFrame = p.frame + b
    BY <1>1 DEF RingFits
  <2>q. QED
    BY <1>1, <1>5, <1>6, <2>1
<1>q. QED
  BY <1>1, <1>6, <1>7, <1>8, <1>9, <1>10, <1>11, SMT DEF RingFits

\* playback_advance: the ring stays in order, and the next frame is shown.
LEMMA AdvancedRing ==
  ASSUME NEW p \in Playback, RingFits(p), CanAdvance(p), NEW q, q = Advanced(p)
  PROVE /\ q \in Playback /\ RingFits(q)
        /\ q.frame = Wrapped(p.frame + 1, FrameCount[p.type])
        /\ p.type \notin Looping => q.frame = p.frame + 1
<1> DEFINE N == FrameCount[p.type]
           c == p.slotCount
           b == p.buffered
           at == AfterSlot(p)
<1>1. /\ p.inUse /\ p.type \in Types /\ N \in Nat \ {0} /\ c \in 1 .. Ring /\ c <= N
      /\ b \in 2 .. c /\ p.slot \in 0 .. c - 1 /\ p.frame \in 0 .. N - 1
      /\ p.nextFrame \in 0 .. N /\ Ring \in Nat
  <2>1. p.inUse /\ b > 1
    BY DEF CanAdvance
  <2>q. QED
    BY <2>1, RingTypes, SMT
<1>2. p.slots \in [Slots -> Int]
  BY SMT DEF Playback
<1>3. p.generation \in 0 .. MaxStarts
  BY SMT DEF Playback
<1>4. at = Wrapped(p.slot + 1, c) /\ at \in 0 .. c - 1
  <2>1. (p.slot + 1) % c = Wrapped(p.slot + 1, c)
    BY <1>1, Remainder
  <2>q. QED
    BY <1>1, <2>1, SMT DEF AfterSlot, Wrapped
<1>5. p.slots[at] = Wrapped(p.frame + 1, N) /\ p.slots[at] \in 0 .. N - 1
  <2>1. Ahead(p, at) = 1
    BY <1>1, <1>4, SMT DEF Ahead, Wrapped
  <2>2. p.slots[at] = InSlot(p, at)
    BY <1>1, <1>4 DEF RingFits
  <2>q. QED
    BY <1>1, <2>1, <2>2, SMT DEF InSlot, Wrapped
<1>6. /\ q.inUse = p.inUse /\ q.type = p.type /\ q.generation = p.generation
      /\ q.slots = [p.slots EXCEPT ![p.slot] = Empty] /\ q.slotCount = c
      /\ q.slot = at /\ q.frame = p.slots[at] /\ q.buffered = b - 1
      /\ q.nextFrame = p.nextFrame /\ q.nextSlot = p.nextSlot
  BY AdvancedFields
<1>7. p.nextSlot = Wrapped(at + (b - 1), c) /\ p.nextSlot \in 0 .. c - 1
  BY <1>1, <1>4, SMT DEF RingFits, Wrapped
<1>8. ASSUME NEW s \in 0 .. c - 1 PROVE q.slots[s] = InSlot(q, s)
  <2>1. p.slots[s] = InSlot(p, s) /\ s \in Slots
    BY <1>1, <1>8, SMT DEF RingFits, Slots
  <2>2. Ahead(p, s) \in 0 .. c - 1 /\ (s = p.slot <=> Ahead(p, s) = 0)
    BY <1>1, <1>8, SMT DEF Ahead
  <2>3. Ahead(q, s) = IF s = p.slot THEN c - 1 ELSE Ahead(p, s) - 1
    BY <1>1, <1>4, <1>6, <1>8, SMT DEF Ahead, Wrapped
  <2>4. q.slots[s] = IF s = p.slot THEN Empty ELSE p.slots[s]
    BY <1>2, <1>6, <2>1
  <2>5. CASE s = p.slot
    BY <1>1, <1>6, <2>3, <2>4, <2>5, SMT DEF InSlot
  <2>6. CASE s # p.slot
    <3>1. Wrapped(p.frame + Ahead(p, s), N) = Wrapped(q.frame + (Ahead(p, s) - 1), N)
            \/ ~(Ahead(p, s) < b)
      BY <1>1, <1>5, <1>6, <2>2, <2>6, SMT DEF Wrapped
    <3>q. QED
      BY <1>1, <1>6, <2>1, <2>2, <2>3, <2>4, <2>6, <3>1, SMT DEF InSlot
  <2>q. QED
    BY <2>5, <2>6
<1>9. q \in Playback
  <2>1. q.slots \in [Slots -> Int]
    <3>1. Empty \in Int /\ p.slot \in Slots
      BY <1>1, SMT DEF Empty, Slots
    <3>q. QED
      BY <1>2, <1>6, <3>1
  <2>2. /\ q.type \in Types \cup {NoType} /\ q.generation \in 0 .. MaxStarts
        /\ q.slotCount \in 0 .. Ring /\ q.slot \in Slots /\ q.frame \in Nat
        /\ q.buffered \in 0 .. Ring /\ q.nextFrame \in Nat /\ q.nextSlot \in Slots
    BY <1>1, <1>3, <1>4, <1>5, <1>6, <1>7, SMT DEF Slots
  <2>3. IsRecord(q)
    BY AdvancedFields
  <2>4. q.inUse \in BOOLEAN
    BY <1>6, Zenon DEF Playback
  <2>q. QED
    BY <2>1, <2>2, <2>3, <2>4, Zenon DEF Playback, IsRecord
<1>10. p.type \notin Looping => p.nextFrame = p.frame + b /\ q.frame = p.frame + 1
  BY <1>1, <1>5, <1>6, SMT DEF RingFits, Wrapped
<1>11. Wrapped(p.nextFrame, N) = Wrapped(q.frame + (b - 1), N)
  BY <1>1, <1>5, <1>6, SMT DEF RingFits, Wrapped
<1>q. QED
  BY <1>1, <1>4, <1>5, <1>6, <1>7, <1>8, <1>9, <1>10, <1>11, SMT DEF RingFits

\* A playback that was opened has an empty ring, and wants its first frame.
LEMMA OpenedRing ==
  ASSUME NEW t \in Types, NEW g \in 0 .. MaxStarts, NEW q, q = Opened(t, g)
  PROVE q \in Playback /\ RingFits(q) /\ WantsFrame(q)
<1>1. FrameCount[t] \in Nat \ {0} /\ Ring \in Nat \ {0}
  BY AnimAssumption
<1>2. /\ q.inUse = TRUE /\ q.type = t /\ q.generation = g
      /\ q.slots = [s \in Slots |-> Empty]
      /\ q.slotCount = IF FrameCount[t] < Ring THEN FrameCount[t] ELSE Ring
      /\ q.slot = 0 /\ q.frame = 0 /\ q.buffered = 0 /\ q.nextFrame = 0 /\ q.nextSlot = 0
  BY OpenedFields
<1>3. q \in Playback
  <2>1. q.slots \in [Slots -> Int]
    BY <1>2, SMT DEF Empty
  <2>2. /\ q.type \in Types \cup {NoType} /\ q.generation \in 0 .. MaxStarts
        /\ q.slotCount \in 0 .. Ring /\ q.slot \in Slots /\ q.frame \in Nat
        /\ q.buffered \in 0 .. Ring /\ q.nextFrame \in Nat /\ q.nextSlot \in Slots
    BY <1>1, <1>2, SMT DEF Slots
  <2>3. IsRecord(q)
    BY OpenedFields
  <2>4. q.inUse \in BOOLEAN
    BY <1>2, Zenon
  <2>q. QED
    BY <2>1, <2>2, <2>3, <2>4, Zenon DEF Playback, IsRecord
<1>4. RingFits(q)
  BY <1>1, <1>2, SMT DEF RingFits, Wrapped, InSlot, Ahead, Slots
<1>5. WantsFrame(q)
  BY <1>1, <1>2, SMT DEF WantsFrame, NextFrame
<1>q. QED
  BY <1>3, <1>4, <1>5

\* A playback that is closed has no ring.
LEMMA ClosedRing == Closed \in Playback /\ ~Closed.inUse /\ RingFits(Closed)
<1>1. MaxStarts \in Nat /\ Ring \in Nat \ {0}
  BY AnimAssumption, AnimBounds
<1>2. [s \in Slots |-> Empty] \in [Slots -> Int]
  BY SMT DEF Empty
<1>3. 0 \in Slots /\ 0 \in 0 .. MaxStarts /\ 0 \in 0 .. Ring /\ 0 \in Nat
  BY <1>1, SMT DEF Slots
<1>4. Closed \in Playback
  BY <1>2, <1>3, Zenon DEF Closed, Playback
<1>q. QED
  BY <1>4 DEF Closed, RingFits

\* The ring slot by slot is the ring as the property has it.
LEMMA RingInOrder ==
  ASSUME NEW p \in Playback, RingFits(p)
  PROVE RingOf(p)
<1> SUFFICES ASSUME p.inUse PROVE RingOf(p)
  BY DEF RingOf
<1> DEFINE N == FrameCount[p.type]
           c == p.slotCount
           b == p.buffered
<1>1. /\ p.type \in Types /\ N \in Nat \ {0} /\ c \in 1 .. Ring /\ c <= N
      /\ b \in 0 .. c /\ p.slot \in 0 .. c - 1 /\ p.frame \in 0 .. N - 1
      /\ p.nextFrame \in 0 .. N /\ Ring \in Nat
  BY RingTypes
<1>2. ASSUME NEW k \in 0 .. b
      PROVE /\ (p.slot + k) % c = Wrapped(p.slot + k, c)
            /\ (p.frame + k) % N = Wrapped(p.frame + k, N)
  <2>1. p.slot + k \in Nat /\ p.slot + k < 2 * c /\ p.frame + k \in Nat /\ p.frame + k < 2 * N
    BY <1>1
  <2>q. QED
    BY <1>1, <2>1, Remainder
<1>3. b \in 0 .. b /\ p.nextFrame % N = Wrapped(p.nextFrame, N)
  BY <1>1, Remainder
<1>4. p.nextSlot = (p.slot + b) % c /\ p.nextFrame % N = (p.frame + b) % N
  BY <1>2, <1>3 DEF RingFits
<1>5. ASSUME NEW k \in 0 .. b - 1
      PROVE /\ (p.slot + k) % c \in 0 .. c - 1
            /\ p.slots[(p.slot + k) % c] = (p.frame + k) % N
            /\ p.slots[(p.slot + k) % c] # Empty
  <2>1. k \in 0 .. b
    BY <1>1
  <2>2. (p.slot + k) % c = Wrapped(p.slot + k, c) /\ (p.frame + k) % N = Wrapped(p.frame + k, N)
    BY <1>2, <2>1
  <2>3. Wrapped(p.slot + k, c) \in 0 .. c - 1 /\ Wrapped(p.frame + k, N) \in 0 .. N - 1
    BY <1>1, <2>1, SMT DEF Wrapped
  <2>4. Ahead(p, Wrapped(p.slot + k, c)) = k
    BY <1>1, <2>1, SMT DEF Ahead, Wrapped
  <2>5. p.slots[Wrapped(p.slot + k, c)] = InSlot(p, Wrapped(p.slot + k, c))
    BY <2>3 DEF RingFits
  <2>q. QED
    BY <1>1, <2>2, <2>3, <2>4, <2>5, SMT DEF InSlot, Empty
<1>6. ASSUME NEW s \in 0 .. c - 1
      PROVE (p.slots[s] # Empty) <=> \E k \in 0 .. b - 1 : s = (p.slot + k) % c
  <2>1. ASSUME p.slots[s] # Empty PROVE \E k \in 0 .. b - 1 : s = (p.slot + k) % c
    <3>1. p.slots[s] = InSlot(p, s)
      BY <1>6 DEF RingFits
    <3>2. Ahead(p, s) \in 0 .. b - 1 /\ Ahead(p, s) \in 0 .. b
      BY <1>1, <1>6, <2>1, <3>1, SMT DEF InSlot, Ahead
    <3>3. Wrapped(p.slot + Ahead(p, s), c) = s
      BY <1>1, <1>6, SMT DEF Ahead, Wrapped
    <3>q. QED
      BY <1>2, <3>2, <3>3
  <2>q. QED
    BY <1>5, <2>1
<1>q. QED
  BY <1>1, <1>4, <1>5, <1>6 DEF RingOf

-----------------------------------------------------------------------------
(* The steps of the player *)

\* The playbacks are the same but for what is in their rings.
SamePlaybacks ==
    /\ active'.inUse = active.inUse /\ active'.type = active.type
    /\ active'.generation = active.generation
    /\ pending'.inUse = pending.inUse /\ pending'.type = pending.type
    /\ pending'.generation = pending.generation

LEMMA FillBeginKeeps ==
  ASSUME PlayerInv, FillBegin
  PROVE PlayerInv' /\ SamePlaybacks /\ active'.frame = active.frame
<1>1. /\ UNCHANGED <<state, active, pending, current, generation, front, failures>>
      /\ filling' \in {"pending", "active"}
      /\ filling' = "pending" => WantsFrame(pending)
      /\ filling' = "active" => WantsFrame(active)
  BY DEF FillBegin
<1>2. PlayerTypeOK'
  BY <1>1 DEF PlayerInv, PlayerTypeOK
<1>3. Rings' /\ FrontFits' /\ Generations'
  BY <1>1 DEF PlayerInv, Rings, FrontFits, Generations, RingFits
<1>4. FillFits'
  BY <1>1 DEF FillFits
<1>q. QED
  BY <1>1, <1>2, <1>3, <1>4 DEF PlayerInv, SamePlaybacks

LEMMA FillDoneKeeps ==
  ASSUME PlayerInv, FillDone
  PROVE PlayerInv' /\ SamePlaybacks /\ active'.frame = active.frame
<1>1. active \in Playback /\ pending \in Playback /\ RingFits(active) /\ RingFits(pending)
  BY DEF PlayerInv, PlayerTypeOK, Rings
<1>2. /\ filling' = "none" /\ UNCHANGED <<state, current, generation, front, failures>>
      /\ \/ active' = Filled(active) /\ WantsFrame(active) /\ pending' = pending
         \/ pending' = Filled(pending) /\ WantsFrame(pending) /\ active' = active
  BY DEF FillDone, PlayerInv, FillFits, PlayerTypeOK
<1>3. /\ active' \in Playback /\ RingFits(active') /\ pending' \in Playback /\ RingFits(pending')
      /\ SamePlaybacks /\ active'.frame = active.frame /\ active'.slot = active.slot
      /\ active'.buffered \in {active.buffered, active.buffered + 1}
  <2>1. CASE active' = Filled(active) /\ WantsFrame(active) /\ pending' = pending
    <3>1. active' \in Playback /\ RingFits(active')
      BY <1>1, <2>1, FilledRing
    <3>q. QED
      BY <1>1, <2>1, <3>1, FilledFields, ZenonT(40) DEF SamePlaybacks
  <2>2. CASE pending' = Filled(pending) /\ WantsFrame(pending) /\ active' = active
    <3>1. pending' \in Playback /\ RingFits(pending')
      BY <1>1, <2>2, FilledRing
    <3>q. QED
      BY <1>1, <2>2, <3>1, FilledFields DEF SamePlaybacks
  <2>q. QED
    BY <1>2, <2>1, <2>2
<1>4. PlayerTypeOK'
  BY <1>2, <1>3 DEF PlayerInv, PlayerTypeOK
<1>5. Rings' /\ FillFits'
  BY <1>2, <1>3 DEF Rings, FillFits
<1>6. FrontFits'
  BY <1>1, <1>2, <1>3 DEF PlayerInv, FrontFits, SamePlaybacks, Playback
<1>7. Generations'
  BY <1>2, <1>3 DEF PlayerInv, Generations, SamePlaybacks
<1>q. QED
  BY <1>3, <1>4, <1>5, <1>6, <1>7 DEF PlayerInv

LEMMA FillFailedKeeps ==
  ASSUME PlayerInv, FillFailed
  PROVE PlayerInv' /\ SamePlaybacks /\ active'.frame = active.frame
<1>1. UNCHANGED <<state, active, pending, current, generation, front>>
      /\ filling' = "none" /\ failures < MaxFailures /\ failures' = failures + 1
  BY DEF FillFailed, Fail
<1>2. PlayerTypeOK'
  BY <1>1, AnimBounds DEF PlayerInv, PlayerTypeOK
<1>3. Rings' /\ FrontFits' /\ Generations'
  BY <1>1 DEF PlayerInv, Rings, FrontFits, Generations, RingFits
<1>4. FillFits'
  BY <1>1 DEF FillFits
<1>q. QED
  BY <1>1, <1>2, <1>3, <1>4 DEF PlayerInv, SamePlaybacks

LEMMA FrameTimerKeeps ==
  ASSUME PlayerInv, FrameTimer
  PROVE /\ PlayerInv' /\ SamePlaybacks /\ active.inUse
        /\ active'.frame = Wrapped(active.frame + 1, FrameCount[active.type])
        /\ active.type \notin Looping => active'.frame = active.frame + 1
<1>1. active \in Playback /\ pending \in Playback /\ RingFits(active) /\ RingFits(pending)
  BY DEF PlayerInv, PlayerTypeOK, Rings
<1>2. /\ state = "playing" /\ filling = "none" /\ CanAdvance(active) /\ active.inUse
      /\ active' = Advanced(active) /\ front' = active'.slot /\ current' = active.type
      /\ UNCHANGED <<state, pending, generation, filling, failures>>
  BY DEF FrameTimer, MutexFree, CanAdvance
<1>3. /\ active' \in Playback /\ RingFits(active')
      /\ active'.frame = Wrapped(active.frame + 1, FrameCount[active.type])
      /\ active.type \notin Looping => active'.frame = active.frame + 1
  BY <1>1, <1>2, AdvancedRing
<1>4. SamePlaybacks /\ active'.buffered = active.buffered - 1
  BY <1>1, <1>2, AdvancedFields DEF SamePlaybacks
<1>5. active'.buffered >= 1
  BY <1>1, <1>2, <1>4 DEF CanAdvance, Playback
<1>6. PlayerTypeOK'
  BY <1>1, <1>2, <1>3 DEF PlayerInv, PlayerTypeOK, Playback
<1>7. Rings' /\ FillFits'
  BY <1>1, <1>2, <1>3 DEF Rings, FillFits
<1>8. FrontFits'
  BY <1>2, <1>4, <1>5 DEF PlayerInv, FrontFits, SamePlaybacks
<1>9. Generations'
  BY <1>2, <1>4 DEF PlayerInv, Generations, SamePlaybacks
<1>q. QED
  BY <1>2, <1>3, <1>4, <1>6, <1>7, <1>8, <1>9 DEF PlayerInv

\* A playback with a frame comes in front.
LEMMA CommitKeeps ==
  ASSUME PlayerInv, NEW p \in Playback, RingFits(p), p.inUse, p.buffered >= 1,
         p.generation <= generation', generation' \in 0 .. MaxStarts, filling = "none",
         filling' = "none", failures' \in 0 .. MaxFailures, Commit(p)
  PROVE PlayerInv'
<1>1. /\ active' = p /\ pending' = Closed /\ front' = p.slot /\ state' = "playing"
      /\ current' = p.type
  BY DEF Commit
<1>2. PlayerTypeOK'
  BY <1>1, ClosedRing DEF PlayerTypeOK, Playback
<1>3. Rings' /\ FillFits' /\ FrontFits' /\ Generations'
  BY <1>1, ClosedRing DEF Rings, FillFits, FrontFits, Generations
<1>q. QED
  BY <1>2, <1>3 DEF PlayerInv

LEMMA ServiceTimerKeeps ==
  ASSUME PlayerInv, ServiceTimer
  PROVE PlayerInv' /\ pending.inUse /\ active' = pending /\ ~pending'.inUse
<1>1. pending \in Playback /\ RingFits(pending) /\ pending.inUse
  BY DEF PlayerInv, PlayerTypeOK, Rings, ServiceTimer
<1>2. /\ filling = "none" /\ pending.buffered >= Required /\ Commit(pending)
      /\ UNCHANGED <<generation, filling, failures>>
  BY DEF ServiceTimer, MutexFree
<1>3. pending.buffered >= 1
  BY <1>1, <1>2, SMT DEF Required, RingFits, Playback
<1>4. generation' \in 0 .. MaxStarts /\ failures' \in 0 .. MaxFailures
      /\ pending.generation <= generation'
  BY <1>1, <1>2 DEF PlayerInv, PlayerTypeOK, Generations
<1>5. PlayerInv'
  BY <1>1, <1>2, <1>3, <1>4, CommitKeeps
<1>q. QED
  BY <1>1, <1>2, <1>5, ClosedRing DEF Commit

\* An animation is started: it is being prepared, or in front at once when nothing was.
LEMMA StartOpenedKeeps ==
  ASSUME PlayerInv, NEW t \in Types, MutexFree, StartOpened(t)
  PROVE /\ PlayerInv'
        /\ IF pending'.inUse THEN pending'.type = t ELSE active'.inUse /\ active'.type = t
        /\ active' = active \/ ~active.inUse
<1> DEFINE new == Opened(t, generation')
<1>1. /\ generation' = generation + 1 /\ generation' \in 0 .. MaxStarts
      /\ filling = "none" /\ filling' = "none"
      /\ failures' \in 0 .. MaxFailures
  BY AnimBounds DEF StartOpened, Fail, PlayerInv, PlayerTypeOK, MutexFree
<1>2. new \in Playback /\ RingFits(new) /\ WantsFrame(new)
  BY <1>1, OpenedRing
<1>3. new.inUse /\ new.type = t /\ new.generation = generation'
  BY OpenedFields
<1>4. CASE /\ pending' = new /\ state' = "preparing" /\ UNCHANGED <<active, current, front>>
  <2>1. PlayerTypeOK'
    BY <1>1, <1>2, <1>4 DEF PlayerInv, PlayerTypeOK
  <2>2. Rings' /\ FillFits' /\ FrontFits'
    BY <1>1, <1>2, <1>4 DEF PlayerInv, Rings, FillFits, FrontFits
  <2>3. Generations'
    BY <1>1, <1>3, <1>4 DEF PlayerInv, Generations, PlayerTypeOK, Playback
  <2>q. QED
    BY <1>3, <1>4, <2>1, <2>2, <2>3 DEF PlayerInv
<1>5. CASE ~active.inUse /\ Commit(Filled(new))
  <2>1. Filled(new) \in Playback /\ RingFits(Filled(new))
    BY <1>2, FilledRing
  <2>2. /\ Filled(new).inUse /\ Filled(new).type = t /\ Filled(new).generation = generation'
        /\ Filled(new).buffered = new.buffered + 1
    <3>1. ASSUME NEW q, q = Filled(new)
          PROVE /\ q.inUse = new.inUse /\ q.type = new.type /\ q.generation = new.generation
                /\ q.buffered = new.buffered + 1
      BY <1>2, <3>1, FilledFields
    <3>q. QED
      BY <1>3, <3>1
  <2>3. Filled(new).buffered >= 1 /\ Filled(new).generation <= generation'
    BY <1>1, <1>2, <2>2 DEF Playback
  <2>4. PlayerInv'
    BY <1>1, <1>5, <2>1, <2>2, <2>3, CommitKeeps
  <2>q. QED
    BY <1>5, <2>2, <2>4, ClosedRing DEF Commit
<1>q. QED
  BY <1>4, <1>5 DEF StartOpened

\* An animation is not started: the one in front stays.
LEMMA StartFailedKeeps ==
  ASSUME PlayerInv, NEW t, MutexFree, StartFailed(t)
  PROVE PlayerInv' /\ active' = active
<1>1. /\ generation' = generation + 1 /\ generation' \in 0 .. MaxStarts
      /\ filling = "none" /\ filling' = "none" /\ pending' = Closed
      /\ failures' \in 0 .. MaxFailures /\ UNCHANGED <<state, active, current, front>>
  BY AnimBounds DEF StartFailed, Fail, PlayerInv, PlayerTypeOK, MutexFree
<1>2. PlayerTypeOK'
  BY <1>1, ClosedRing DEF PlayerInv, PlayerTypeOK
<1>3. Rings' /\ FillFits' /\ FrontFits'
  BY <1>1, ClosedRing DEF PlayerInv, Rings, FillFits, FrontFits
<1>4. Generations'
  BY <1>1, ClosedRing DEF PlayerInv, Generations, PlayerTypeOK, Playback
<1>q. QED
  BY <1>1, <1>2, <1>3, <1>4 DEF PlayerInv

LEMMA StopKeeps ==
  ASSUME PlayerInv, Stop
  PROVE PlayerInv' /\ ~active'.inUse
<1>1. /\ filling = "none" /\ filling' = "none" /\ active' = Closed /\ pending' = Closed
      /\ state' = "idle" /\ current' = NoType /\ UNCHANGED <<generation, front, failures>>
  BY DEF Stop, MutexFree
<1>2. PlayerTypeOK'
  BY <1>1, ClosedRing DEF PlayerInv, PlayerTypeOK
<1>3. Rings' /\ FillFits' /\ FrontFits' /\ Generations'
  BY <1>1, ClosedRing DEF Rings, FillFits, FrontFits, Generations
<1>q. QED
  BY <1>1, <1>2, <1>3, ClosedRing DEF PlayerInv

-----------------------------------------------------------------------------
(* The steps of the calls *)

\* A step of the player
LEMMA CallsSame ==
  ASSUME DisplayInv, UNCHANGED calls
  PROVE CallTypes' /\ Arguments' /\ TextFits'
  BY DEF DisplayInv, calls, CallTypes, Arguments, TextFits, Setting

\* What is known of the animation in front is an animation.
LEMMA SyncedType ==
  ASSUME DisplayInv
  PROVE Synced \in Types
  BY DEF DisplayInv, CallTypes, PlayerInv, PlayerTypeOK, Synced

LEMMA Bounds == MaxStops \in Nat /\ MaxUpdates \in Nat
  BY DisplayBounds

LEMMA DisplayInitially ==
  ASSUME DisplayInit
  PROVE DisplayInv
<1>1. PlayerInv
  <2>1. 0 \in Slots /\ 0 \in 0 .. MaxStarts /\ 0 \in 0 .. MaxFailures
    BY AnimAssumption, AnimBounds DEF Slots
  <2>2. PlayerTypeOK
    BY <2>1, ClosedRing DEF DisplayInit, PlayerInit, PlayerTypeOK
  <2>q. QED
    BY <2>1, <2>2, ClosedRing
    DEF DisplayInit, PlayerInit, PlayerInv, Rings, FillFits, FrontFits, Generations
<1>2. CallTypes
  <2>1. overlapped \in BOOLEAN
    BY Zenon DEF DisplayInit
  <2>2. pc \in [Callers -> {"boot", "idle", "label", "store", "emoji", "sync"}]
    BY DEF DisplayInit
  <2>3. call \in [Callers -> [text : Texts \cup Notices \cup {None}, emoji : Types \cup {None},
                              changes : BOOLEAN]]
    BY DEF DisplayInit, NoCall
  <2>4. known \in Types /\ stored = "" /\ label = "Ready" /\ wanted = None
    BY DisplayAssumption DEF DisplayInit
  <2>5. stops \in 0 .. MaxStops /\ updates \in 0 .. MaxUpdates
    <3>1. stops = 0 /\ updates = 0
      BY Zenon DEF DisplayInit
    <3>q. QED
      BY <3>1, Bounds
  <2>q. QED
    BY <2>1, <2>2, <2>3, <2>4, <2>5 DEF CallTypes
<1>3. Arguments /\ TextFits /\ RequestHonoured
  BY DEF DisplayInit, NoCall, Arguments, TextFits, RequestHonoured, Setting, Callers
<1>q. QED
  BY <1>1, <1>2, <1>3 DEF DisplayInv

LEMMA BootKeeps ==
  ASSUME DisplayInv, Boot
  PROVE DisplayInv'
<1>1. /\ pc["behavior"] = "boot" /\ pc' = [pc EXCEPT !["behavior"] = "idle"] /\ wanted = None
      /\ UNCHANGED <<call, known, stored, label, stops, updates, overlapped, wanted>>
  BY DEF Boot, Goto, DisplayInv, Arguments, Callers
<1>2. PlayerInv'
  BY DisplayAssumption, StartOpenedKeeps, StartFailedKeeps DEF Boot, DisplayInv
<1>3. CallTypes' /\ Arguments' /\ TextFits' /\ RequestHonoured'
  BY <1>1 DEF DisplayInv, CallTypes, Arguments, TextFits, RequestHonoured, Setting, Callers
<1>q. QED
  BY <1>2, <1>3 DEF DisplayInv

LEMMA UpdateKeeps ==
  ASSUME DisplayInv, NEW t \in Callers, NEW text \in Texts \cup Notices \cup {None},
         NEW e \in Types \cup {None}, t = "other" => e = None, Update(t, text, e)
  PROVE DisplayInv'
<1> DEFINE changed == text # None /\ text # stored
           request == [text |-> text, emoji |-> e, changes |-> Changes(e)]
<1>1. /\ pc[t] = "idle" /\ updates < MaxUpdates /\ updates' = updates + 1
      /\ call' = [call EXCEPT ![t] = request] /\ known' = Synced
      /\ pc' = [pc EXCEPT ![t] = IF changed THEN "label" ELSE AfterText(request)]
      /\ overlapped' = (overlapped \/ (changed /\ \E u \in Callers \ {t} : Setting(u)))
      /\ wanted' = IF Changes(e) THEN None ELSE Honoured(e)
      /\ UNCHANGED <<player, stored, label, stops>>
  BY DEF Update, Goto
<1>2. Synced \in Types /\ UNCHANGED <<state, active, pending, current>>
  BY <1>1, SyncedType DEF player
<1>8. /\ AfterText(request) \in {"emoji", "idle"} /\ (AfterText(request) = "emoji" => Changes(e))
      /\ (Changes(e) => e # None) /\ Changes(e) \in BOOLEAN
  BY DEF AfterText, Changes
<1>3. PlayerInv'
  BY <1>1 DEF player, DisplayInv, PlayerInv, PlayerTypeOK, Rings, RingFits, FillFits, FrontFits,
     Generations
<1>4. CallTypes'
  <2>1. overlapped' \in BOOLEAN
    BY <1>1, Zenon
  <2>2. pc' \in [Callers -> {"boot", "idle", "label", "store", "emoji", "sync"}]
    BY <1>1, <1>8 DEF DisplayInv, CallTypes
  <2>3. call' \in [Callers -> [text : Texts \cup Notices \cup {None}, emoji : Types \cup {None},
                               changes : BOOLEAN]]
    BY <1>1, <1>8 DEF DisplayInv, CallTypes
  <2>4. wanted' \in Types \cup {None}
    BY <1>1 DEF DisplayInv, CallTypes, Honoured
  <2>5. updates' \in 0 .. MaxUpdates
    <3>1. updates \in 0 .. MaxUpdates /\ updates < MaxUpdates /\ updates' = updates + 1
      BY <1>1, Zenon DEF DisplayInv, CallTypes
    <3>q. QED
      BY <3>1, Bounds
  <2>q. QED
    BY <1>1, <1>2, <2>1, <2>2, <2>3, <2>4, <2>5 DEF DisplayInv, CallTypes
<1>5. Arguments'
  <2>1. ASSUME NEW u \in Callers, u # t
        PROVE pc'[u] = pc[u] /\ call'[u] = call[u]
    BY <1>1, <2>1 DEF DisplayInv, CallTypes
  <2>2. /\ pc'[t] = IF changed THEN "label" ELSE AfterText(request)
        /\ call'[t].text = text /\ call'[t].emoji = e /\ call'[t].changes = Changes(e)
    BY <1>1 DEF DisplayInv, CallTypes
  <2>3. ASSUME NEW u \in Callers
        PROVE /\ pc'[u] \in {"label", "store"} => call'[u].text # None
              /\ call'[u].changes \/ pc'[u] = "emoji" => call'[u].emoji # None
    BY <1>8, <2>1, <2>2 DEF DisplayInv, Arguments, Setting
  <2>4. call'["other"].emoji = None /\ pc'["other"] # "boot"
    BY <1>8, <2>1, <2>2 DEF DisplayInv, Arguments, Callers
  <2>5. pc'["behavior"] = "boot" => wanted' = None
    <3>1. CASE t = "behavior"
      BY <1>8, <2>2, <3>1
    <3>2. CASE t = "other"
      BY <1>1, <2>1, <3>2 DEF DisplayInv, Arguments, Callers, Honoured, Changes
    <3>q. QED
      BY <3>1, <3>2 DEF Callers
  <2>q. QED
    BY <2>3, <2>4, <2>5 DEF Arguments, Setting
<1>6. TextFits'
  BY <1>1, <1>2 DEF DisplayInv, CallTypes, TextFits, Setting, AfterText
<1>7. RequestHonoured'
  <2>1. CASE wanted' = None
    BY <2>1 DEF RequestHonoured
  <2>2. CASE wanted' = wanted
    BY <1>2, <2>2 DEF DisplayInv, RequestHonoured
  <2>3. CASE wanted' = e /\ e = Synced /\ state = "playing"
    <3>1. active.inUse /\ ~pending.inUse /\ current = active.type /\ active.type \in Types
      BY <2>3 DEF DisplayInv, PlayerInv, FrontFits, Rings, RingFits
    <3>2. e = active.type
      BY <2>3, <3>1, NoTypeAssumption DEF Synced
    <3>q. QED
      BY <1>2, <2>3, <3>1, <3>2 DEF RequestHonoured
  <2>q. QED
    BY <1>1, <2>1, <2>2, <2>3 DEF Honoured, Changes
<1>q. QED
  BY <1>3, <1>4, <1>5, <1>6, <1>7 DEF DisplayInv

LEMMA LabelMissingKeeps ==
  ASSUME DisplayInv, NEW t \in Callers, LabelMissing(t)
  PROVE DisplayInv'
<1>1. /\ pc[t] = "label" /\ pc' = [pc EXCEPT ![t] = "idle"]
      /\ UNCHANGED <<player, call, known, stored, label, stops, updates, overlapped, wanted>>
  BY DEF LabelMissing, Goto
<1>2. PlayerInv' /\ RequestHonoured'
  BY <1>1 DEF player, DisplayInv, PlayerInv, PlayerTypeOK, Rings, RingFits, FillFits, FrontFits,
     Generations, RequestHonoured
<1>3. pc'[t] = "idle" /\ \A u \in Callers : u # t => pc'[u] = pc[u]
  BY <1>1 DEF DisplayInv, CallTypes
<1>4. CallTypes'
  BY <1>1 DEF DisplayInv, CallTypes
<1>5. Arguments' /\ TextFits'
  BY <1>1, <1>3 DEF DisplayInv, Arguments, TextFits, Setting, Callers
<1>q. QED
  BY <1>2, <1>4, <1>5 DEF DisplayInv

LEMMA SetLabelKeeps ==
  ASSUME DisplayInv, NEW t \in Callers, SetLabel(t)
  PROVE DisplayInv'
<1>1. /\ pc[t] = "label" /\ label' = call[t].text /\ pc' = [pc EXCEPT ![t] = "store"]
      /\ UNCHANGED <<player, call, known, stored, stops, updates, overlapped, wanted>>
  BY DEF SetLabel, Goto
<1>2. PlayerInv' /\ RequestHonoured'
  BY <1>1 DEF player, DisplayInv, PlayerInv, PlayerTypeOK, Rings, RingFits, FillFits, FrontFits,
     Generations, RequestHonoured
<1>3. CallTypes' /\ Arguments'
  <2>1. CallTypes'
    <3>1. call[t].text # None
      BY <1>1 DEF DisplayInv, Arguments, Setting
    <3>q. QED
      BY <1>1, <3>1 DEF DisplayInv, CallTypes
  <2>2. pc'[t] = "store" /\ \A u \in Callers : u # t => pc'[u] = pc[u]
    BY <1>1 DEF DisplayInv, CallTypes
  <2>q. QED
    BY <1>1, <2>1, <2>2 DEF DisplayInv, Arguments, Setting, Callers
<1>4. TextFits'
  BY <1>1 DEF DisplayInv, CallTypes, TextFits, Setting
<1>q. QED
  BY <1>2, <1>3, <1>4 DEF DisplayInv

LEMMA StoreKeeps ==
  ASSUME DisplayInv, NEW t \in Callers, Store(t)
  PROVE DisplayInv'
<1>1. /\ pc[t] = "store" /\ stored' = call[t].text
      /\ pc' = [pc EXCEPT ![t] = AfterText(call[t])]
      /\ UNCHANGED <<player, call, known, label, stops, updates, overlapped, wanted>>
  BY DEF Store, Goto
<1>2. PlayerInv' /\ RequestHonoured'
  BY <1>1 DEF player, DisplayInv, PlayerInv, PlayerTypeOK, Rings, RingFits, FillFits, FrontFits,
     Generations, RequestHonoured
<1>3. CallTypes' /\ Arguments'
  <2>1. CallTypes'
    <3>1. call[t].text # None
      BY <1>1 DEF DisplayInv, Arguments, Setting
    <3>q. QED
      BY <1>1, <3>1 DEF DisplayInv, CallTypes, AfterText
  <2>2. pc'[t] = AfterText(call[t]) /\ \A u \in Callers : u # t => pc'[u] = pc[u]
    BY <1>1 DEF DisplayInv, CallTypes
  <2>q. QED
    BY <1>1, <2>1, <2>2 DEF DisplayInv, Arguments, Setting, Callers, AfterText
<1>4. TextFits'
  BY <1>1 DEF DisplayInv, CallTypes, TextFits, Setting, AfterText
<1>q. QED
  BY <1>2, <1>3, <1>4 DEF DisplayInv

LEMMA SetEmojiKeeps ==
  ASSUME DisplayInv, NEW t \in Callers, SetEmoji(t)
  PROVE DisplayInv'
<1> DEFINE e == call[t].emoji
<1>1. /\ pc[t] = "emoji" /\ MutexFree
      /\ UNCHANGED <<call, known, stored, label, stops, updates, overlapped>>
  BY DEF SetEmoji
<1>2. e \in Types
  BY <1>1 DEF DisplayInv, CallTypes, Arguments
<1>3. /\ PlayerInv' /\ RequestHonoured' /\ wanted' \in Types \cup {None}
      /\ pc' \in {[pc EXCEPT ![t] = "sync"], [pc EXCEPT ![t] = "idle"]}
  <2>1. CASE UnderWay(e) /\ UNCHANGED player /\ Goto(t, "sync") /\ wanted' = e
    <3>1. PlayerInv'
      BY <2>1
           DEF player, DisplayInv, PlayerInv, PlayerTypeOK, Rings, RingFits, FillFits, FrontFits,
         Generations
    <3>2. RequestHonoured'
      BY <2>1 DEF player, DisplayInv, PlayerInv, FrontFits, RequestHonoured, UnderWay
    <3>q. QED
      BY <1>2, <2>1, <3>1, <3>2 DEF Goto
  <2>2. CASE StartOpened(e) /\ Goto(t, "sync") /\ wanted' = e
    BY <1>1, <1>2, <2>2, StartOpenedKeeps DEF DisplayInv, RequestHonoured, Goto
  <2>3. CASE StartFailed(e) /\ Goto(t, "idle") /\ wanted' = None
    BY <1>1, <1>2, <2>3, StartFailedKeeps DEF DisplayInv, RequestHonoured, Goto
  <2>q. QED
    BY <2>1, <2>2, <2>3 DEF SetEmoji
<1>4. CallTypes'
  BY <1>1, <1>3 DEF DisplayInv, CallTypes
<1>6. Arguments'
  <2>1. ASSUME NEW u \in Callers, u # t
        PROVE pc'[u] = pc[u]
    BY <1>3, <2>1 DEF DisplayInv, CallTypes
  <2>2. pc'[t] \in {"sync", "idle"}
    BY <1>3 DEF DisplayInv, CallTypes
  <2>3. t = "behavior"
    BY <1>1 DEF DisplayInv, Arguments, Callers
  <2>q. QED
    BY <1>1, <2>1, <2>2, <2>3 DEF DisplayInv, Arguments, Setting, Callers
<1>5. TextFits'
  BY <1>1, <1>3 DEF DisplayInv, CallTypes, TextFits, Setting
<1>q. QED
  BY <1>3, <1>4, <1>5, <1>6 DEF DisplayInv

LEMMA SyncKeeps ==
  ASSUME DisplayInv, NEW t \in Callers, Sync(t)
  PROVE DisplayInv'
<1>1. /\ pc[t] = "sync" /\ known' = Synced /\ pc' = [pc EXCEPT ![t] = "idle"]
      /\ UNCHANGED <<player, call, stored, label, stops, updates, overlapped, wanted>>
  BY DEF Sync, Goto
<1>2. PlayerInv' /\ RequestHonoured'
  BY <1>1 DEF player, DisplayInv, PlayerInv, PlayerTypeOK, Rings, RingFits, FillFits, FrontFits,
     Generations, RequestHonoured
<1>3. CallTypes' /\ Arguments'
  <2>1. CallTypes'
    BY <1>1, SyncedType DEF DisplayInv, CallTypes
  <2>2. pc'[t] = "idle" /\ \A u \in Callers : u # t => pc'[u] = pc[u]
    BY <1>1 DEF DisplayInv, CallTypes
  <2>q. QED
    BY <1>1, <2>1, <2>2 DEF DisplayInv, Arguments, Setting, Callers
<1>4. TextFits'
  BY <1>1 DEF DisplayInv, CallTypes, TextFits, Setting
<1>q. QED
  BY <1>2, <1>3, <1>4 DEF DisplayInv

LEMMA FreezeKeeps ==
  ASSUME DisplayInv, Freeze
  PROVE DisplayInv'
<1>1. /\ pc["behavior"] # "boot" /\ stops < MaxStops /\ stops' = stops + 1 /\ wanted' = None
      /\ UNCHANGED <<pc, call, known, stored, label, updates, overlapped>>
  BY DEF Freeze
<1>2. PlayerInv'
  BY StopKeeps DEF Freeze, DisplayInv
<1>3. CallTypes'
  <2>1. stops' \in 0 .. MaxStops
    <3>1. stops \in 0 .. MaxStops /\ stops < MaxStops /\ stops' = stops + 1
      BY <1>1, Zenon DEF DisplayInv, CallTypes
    <3>q. QED
      BY <3>1, Bounds
  <2>q. QED
    BY <1>1, <2>1 DEF DisplayInv, CallTypes
<1>4. Arguments' /\ TextFits' /\ RequestHonoured'
  BY <1>1 DEF DisplayInv, CallTypes, Arguments, TextFits, RequestHonoured, Setting
<1>q. QED
  BY <1>2, <1>3, <1>4 DEF DisplayInv

LEMMA PlayerStepKeeps ==
  ASSUME DisplayInv, PlayerStep
  PROVE DisplayInv'
<1>1. UNCHANGED calls
  BY DEF PlayerStep, calls
<1>2. CallTypes' /\ Arguments' /\ TextFits' /\ wanted' = wanted
  BY <1>1, CallsSame DEF calls
<1>3. CASE FillBegin \/ FillDone \/ FillFailed \/ FrameTimer
  <2>1. PlayerInv' /\ SamePlaybacks
    BY <1>3, FillBeginKeeps, FillDoneKeeps, FillFailedKeeps, FrameTimerKeeps DEF DisplayInv
  <2>q. QED
    BY <1>2, <2>1 DEF DisplayInv, RequestHonoured, SamePlaybacks
<1>4. CASE ServiceTimer
  BY <1>2, <1>4, ServiceTimerKeeps DEF DisplayInv, RequestHonoured
<1>q. QED
  BY <1>3, <1>4 DEF PlayerStep, Fill

LEMMA DisplayStep ==
  ASSUME DisplayInv, [DisplayNext]_displayVars
  PROVE DisplayInv'
<1>1. CASE UNCHANGED displayVars
  <2>1. UNCHANGED calls /\ UNCHANGED player /\ wanted' = wanted
    BY <1>1 DEF displayVars, calls
  <2>2. PlayerInv' /\ RequestHonoured'
    BY <2>1 DEF player, DisplayInv, PlayerInv, PlayerTypeOK, Rings, RingFits, FillFits, FrontFits,
       Generations, RequestHonoured
  <2>q. QED
    BY <2>1, <2>2, CallsSame DEF DisplayInv
<1>2. ASSUME NEW text \in Texts \cup {None}, NEW e \in Types \cup {None},
             Update("behavior", text, e)
      PROVE DisplayInv'
  BY <1>2, UpdateKeeps DEF Callers
<1>3. ASSUME NEW text \in Notices, Update("other", text, None)
      PROVE DisplayInv'
  BY <1>3, UpdateKeeps DEF Callers
<1>4. ASSUME NEW t \in Callers, UpdateStep(t)
      PROVE DisplayInv'
  BY <1>4, LabelMissingKeeps, SetLabelKeeps, StoreKeeps, SetEmojiKeeps, SyncKeeps DEF UpdateStep
<1>q. QED
  BY <1>1, <1>2, <1>3, <1>4, BootKeeps, FreezeKeeps, PlayerStepKeeps DEF DisplayNext

(***************************************************************************)
(* The rings, the image in front, the calls under way and what they have   *)
(* been asked for fit together in every behaviour.                         *)
(***************************************************************************)
THEOREM DisplayInvariant == DisplaySpec => []DisplayInv
  BY DisplayInitially, DisplayStep, PTL DEF DisplaySpec

(***************************************************************************)
(* Every variable keeps its type.                                          *)
(***************************************************************************)
THEOREM DisplayTypeCorrect == DisplaySpec => []DisplayTypeOK
<1>1. DisplayInv => DisplayTypeOK
  BY DEF DisplayInv, PlayerInv, CallTypes, DisplayTypeOK
<1>q. QED
  BY <1>1, DisplayInvariant, PTL

(***************************************************************************)
(* The text display_ui.c holds to be shown is on the screen, unless two    *)
(* tasks have been setting texts at the same time; and the emoji asked for *)
(* last plays or is being prepared, except for the requests that are left  *)
(* out because of what was playing.                                        *)
(***************************************************************************)
THEOREM LastShown == DisplaySpec => []LastAskedShown
<1>1. DisplayInv => LastAskedShown
  BY DEF DisplayInv, TextFits, TextShown, LastAskedShown, Setting
<1>q. QED
  BY <1>1, DisplayInvariant, PTL

\* The task never writes the slot in front, for the ring has room when it fills.
LEMMA Intact ==
  ASSUME PlayerInv
  PROVE RingsInOrder /\ ShownIntact
<1>1. active \in Playback /\ pending \in Playback /\ RingFits(active) /\ RingFits(pending)
  BY DEF PlayerInv, PlayerTypeOK, Rings
<1>2. RingsInOrder
  BY <1>1, RingInOrder DEF RingsInOrder
<1>3. ASSUME active.inUse
      PROVE /\ active.buffered >= 1 /\ front = active.slot
            /\ active.slots[front] = active.frame
            /\ filling = "active" => active.nextSlot # front
  <2>1. active.buffered >= 1 /\ front = active.slot
    BY <1>3 DEF PlayerInv, FrontFits
  <2>2. /\ active.slot \in 0 .. active.slotCount - 1 /\ active.slotCount \in Nat
        /\ active.buffered \in 0 .. active.slotCount
        /\ active.nextSlot = Wrapped(active.slot + active.buffered, active.slotCount)
        /\ active.frame < FrameCount[active.type] /\ active.frame \in Nat
    BY <1>1, <1>3, RingTypes, SMT DEF RingFits
  <2>5. FrameCount[active.type] \in Nat
    BY <1>1, <1>3, AnimAssumption DEF RingFits
  <2>6. active.slots[active.slot] = InSlot(active, active.slot)
    BY <1>1, <1>3, <2>2 DEF RingFits
  <2>3. active.slots[front] = active.frame
    BY <2>1, <2>2, <2>5, <2>6, SMT DEF InSlot, Ahead, Wrapped
  <2>4. filling = "active" => active.nextSlot # front
    BY <2>1, <2>2, SMT DEF PlayerInv, FillFits, WantsFrame, Wrapped
  <2>q. QED
    BY <2>1, <2>3, <2>4
<1>4. ShownIntact
  BY <1>3 DEF ShownIntact, PlayerInv, FrontFits
<1>q. QED
  BY <1>2, <1>4

\* The step of FramesInOrder
FrameStep ==
    active.inUse /\ active'.inUse /\ active'.generation = active.generation
    /\ active'.frame # active.frame =>
       \/ active'.frame = active.frame + 1
       \/ /\ active.type \in Looping
          /\ active.frame = FrameCount[active.type] - 1 /\ active'.frame = 0

\* The frame in front changes by the frame timer alone, or with the generation.
LEMMA NextFrameFollows ==
  ASSUME DisplayInv, DisplayNext
  PROVE FrameStep
<1>1. CASE Boot
  BY <1>1, DisplayAssumption, StartOpenedKeeps, StartFailedKeeps DEF Boot, DisplayInv, FrameStep
<1>2. CASE active' = active
  BY <1>2 DEF FrameStep
<1>3. ASSUME NEW t \in Callers, SetEmoji(t) PROVE FrameStep
  <2>1. call[t].emoji \in Types /\ MutexFree
    BY <1>3 DEF SetEmoji, DisplayInv, CallTypes, Arguments
  <2>2. active' = active \/ ~active.inUse
    BY <1>3, <2>1, StartOpenedKeeps, StartFailedKeeps DEF SetEmoji, DisplayInv, player
  <2>q. QED
    BY <2>2 DEF FrameStep
<1>4. CASE Freeze
  BY <1>4, StopKeeps DEF Freeze, DisplayInv, FrameStep
<1>5. CASE Fill
  BY <1>5, FillBeginKeeps, FillDoneKeeps, FillFailedKeeps DEF Fill, DisplayInv, FrameStep
<1>6. CASE FrameTimer
  <2>1. /\ active.inUse /\ active'.frame = Wrapped(active.frame + 1, FrameCount[active.type])
        /\ active.type \notin Looping => active'.frame = active.frame + 1
    BY <1>6, FrameTimerKeeps DEF DisplayInv
  <2>2. /\ FrameCount[active.type] \in Nat \ {0}
        /\ active.frame \in 0 .. FrameCount[active.type] - 1
    BY <2>1, AnimAssumption DEF DisplayInv, PlayerInv, PlayerTypeOK, Rings, RingFits, Playback
  <2>q. QED
    BY <2>1, <2>2, SMT DEF FrameStep, Wrapped
<1>7. CASE ServiceTimer
  BY <1>7, ServiceTimerKeeps
       DEF DisplayInv, PlayerInv, Generations, PlayerTypeOK, Playback, FrameStep
<1>q. QED
  BY <1>1, <1>2, <1>3, <1>4, <1>5, <1>6, <1>7
  DEF DisplayNext, PlayerStep, UpdateStep, Update, LabelMissing, SetLabel, Store, Sync, player

(***************************************************************************)
(* Both rings hold the frames that come next, in order; the image in front *)
(* is a whole frame and the task writes another slot; and within a playback *)
(* a frame is followed by the next one, or by the first in a loop.         *)
(***************************************************************************)
THEOREM Drawn == DisplaySpec => DrawnRight
<1>1. DisplayInv => RingsInOrder /\ ShownIntact
  BY Intact DEF DisplayInv
<1>2. DisplayInv /\ [DisplayNext]_displayVars => [FrameStep]_player
  BY NextFrameFollows DEF displayVars
<1>3. DisplaySpec => [](RingsInOrder /\ ShownIntact)
  BY <1>1, DisplayInvariant, PTL
<1>4. DisplaySpec => [][FrameStep]_player
  BY <1>2, DisplayInvariant, PTL DEF DisplaySpec
<1>q. QED
  BY <1>3, <1>4 DEF DrawnRight, FramesInOrder, FrameStep

=============================================================================

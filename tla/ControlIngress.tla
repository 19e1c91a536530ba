--------------------------- MODULE ControlIngress ---------------------------
(***************************************************************************)
(* control_ingress.c: what the WebSocket and the BLE task ask of the       *)
(* robot.  States, texts and AI statuses go through s_state_queue to the   *)
(* control task, which hands them to the behaviour engine; a servo command *)
(* interrupts the running action and moves the head at once, past the      *)
(* queue.  The behaviour engine and the servo are modules Motion and       *)
(* Servo; here they take what they are given, or are busy.                 *)
(***************************************************************************)
EXTENDS Naturals, Sequences

CONSTANTS
    QueueDepth,     \* CONTROL_STATE_QUEUE_DEPTH
    Actions         \* names behavior_state_has_action() finds

ASSUME QueueAssumption == QueueDepth \in Nat \ {0}

VARIABLES
    queue,          \* s_state_queue
    applying,       \* the message control_state_task has taken, Nothing for none
    asked,          \* what the behaviour engine was last asked for
    handed,         \* history: the messages it was asked for, in order
    moved,          \* servo commands carried out
    interrupted     \* commands that stopped the running action

ingress == <<queue, applying, asked, handed, moved, interrupted>>

Nothing == [id |-> 0]
NoName == ""

IngressInit == /\ queue = << >> /\ applying = Nothing /\ asked = Nothing /\ handed = << >>
               /\ moved = {} /\ interrupted = {}

-----------------------------------------------------------------------------
(* The name of a state in an AI status.  A word of the status or of its   *)
(* message stands for the one it is a synonym of.                          *)

\* control_ai_status_to_fallback tries the words in this order.
Keywords == <<"bluetooth", "observing", "listening", "thinking", "processing",
              "speaking", "idle", "done", "error">>
Stands(word) == CASE word = "observing" -> "custom3"
                  [] word = "idle"      -> "standby"
                  [] word = "done"      -> "happy"
                  [] OTHER              -> word

Leading(names) == IF names = << >> THEN NoName ELSE Head(names)
Fallback(words) == LET hits == SelectSeq(Keywords, LAMBDA w : w \in words)
                   IN  IF hits = << >> THEN NoName ELSE Stands(Head(hits))

\* The action is the first of the names that has one.
Candidates(m) == <<m.action, m.status, Fallback(m.words)>>
ChosenAction(m) == Leading(SelectSeq(Candidates(m), LAMBDA n : n \in Actions))

\* The engine takes any state that is named, so the first name is asked for.
\* A status has one.
ChosenState(m) == Leading(SelectSeq(Candidates(m), LAMBDA n : n # NoName))

\* What the control task asks for: a state, its action, whether with a text
Request(c) ==
    [id |-> c.id,
     state  |-> IF c.msg.kind = "status" THEN ChosenState(c.msg) ELSE c.msg.state,
     action |-> IF c.msg.kind = "status" THEN ChosenAction(c.msg) ELSE NoName,
     text   |-> c.msg.text]

-----------------------------------------------------------------------------
(* Submission, in the task of the caller *)

\* control_submit_state_msg, with no time to wait
Room == Len(queue) < QueueDepth
Submit(c) == /\ Room
             /\ queue' = Append(queue, c)
             /\ UNCHANGED <<applying, asked, handed, moved, interrupted>>

\* control_ingress_submit_servo refuses a duration that is not positive
\* before it touches the action; a full servo queue refuses the move after.
ServoAccepts(c) == c.msg.fit = "good"
MoveServo(c) ==
    /\ ServoAccepts(c)
    /\ interrupted' = interrupted \cup {c.id}
    /\ moved' = moved \cup {c.id}
    /\ UNCHANGED <<queue, applying, asked, handed>>
ServoBusy(c) ==
    /\ ServoAccepts(c)
    /\ interrupted' = interrupted \cup {c.id}
    /\ UNCHANGED <<queue, applying, asked, handed, moved>>
\* The BLE task has interrupted the action before it asks.
ServoRefuses(c) ==
    /\ ~ServoAccepts(c)
    /\ interrupted' = IF c.via # "ws" THEN interrupted \cup {c.id} ELSE interrupted
    /\ UNCHANGED <<queue, applying, asked, handed, moved>>

-----------------------------------------------------------------------------
(* control_state_task *)

Take == /\ applying = Nothing /\ queue # << >>
        /\ applying' = Head(queue) /\ queue' = Tail(queue)
        /\ UNCHANGED <<asked, handed, moved, interrupted>>

Apply == /\ applying # Nothing
         /\ asked' = Request(applying)
         /\ handed' = Append(handed, applying.id)
         /\ applying' = Nothing
         /\ UNCHANGED <<queue, moved, interrupted>>

ControlTask == Take \/ Apply
=============================================================================

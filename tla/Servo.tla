------------------------------- MODULE Servo -------------------------------
(***************************************************************************)
(* hal_servo.c: the queue of smooth moves, the servo task that carries     *)
(* them out step by step, and hal_servo_cancel_all.  The calls of the      *)
(* module are cut at each operation on the queue and on the cancel         *)
(* generation; the module that composes them says which task makes them.   *)
(* A move is told apart by the pose it leads to, not by axes and angles.   *)
(***************************************************************************)
EXTENDS Integers, Sequences

CONSTANTS
    Poses,      \* where a move can lead
    Home,       \* SERVO_X_DEFAULT_DEG, SERVO_Y_DEFAULT_DEG
    Depth       \* SERVO_CMD_QUEUE_SIZE

ASSUME ServoAssumption == Depth \in Nat \ {0} /\ Home \in Poses

Between == "between"
Anywhere == "any"
ASSUME PoseNames == {Between, Anywhere} \cap Poses = {}

VARIABLES
    queue,  \* s_cmd_queue
    hand,   \* what servo_task has in hand, and what it knows of the generation
    pose,   \* s_angle: a pose, or between two of them
    goal    \* history: where the last move given leads, Anywhere when it may be lost

servoVars == <<queue, hand, pose, goal>>

\* old: given for an action or a state that has ended since
Moves(By) == [to : Poses, by : By, old : BOOLEAN]

Empty == [busy |-> FALSE, to |-> Anywhere, gen |-> "unread"]

ServoInit ==
    /\ queue = <<>> /\ hand = Empty
    /\ pose = Home /\ goal = Home

ServoTypes(By) ==
    /\ queue \in Seq(Moves(By)) /\ Len(queue) <= Depth
    /\ hand \in [busy : BOOLEAN, to : Poses \cup {Anywhere}, gen : {"unread", "same", "changed"}]
    /\ hand.busy <=> hand.to # Anywhere
    /\ pose \in Poses \cup {Between} /\ goal \in Poses \cup {Anywhere}

-----------------------------------------------------------------------------
(* What other tasks call *)

AtRest == queue = <<>> /\ ~hand.busy

\* Mutant of Push: xQueueSendToFront.
PushFront(m) == <<m>> \o queue

Push(m) == Append(queue, m)

\* Mutant of Full: the queue is taken to have room.
NeverFull == FALSE

Full == Len(queue) = Depth

\* xQueueSend
Queue(m) ==
    /\ ~Full
    /\ queue' = Push(m) /\ goal' = m.to
    /\ UNCHANGED <<hand, pose>>

\* xQueueReceive of another task than the servo's, which drops the oldest move
DropOldest ==
    /\ queue # <<>>
    /\ queue' = Tail(queue)
    /\ goal' = IF Len(queue) = 1 THEN Anywhere ELSE goal
    /\ UNCHANGED <<hand, pose>>

\* A move without duration: hal_servo_set_angle sets the pose at once, over
\* what the servo task is doing.
SetAngle(to) ==
    /\ pose' = to
    /\ goal' = IF AtRest THEN to ELSE Anywhere
    /\ UNCHANGED <<queue, hand>>

\* hal_servo_cancel_all advances the generation before it empties the queue.
AdvanceGeneration ==
    /\ hand' = IF hand.gen = "same" THEN [hand EXCEPT !.gen = "changed"] ELSE hand
    /\ goal' = IF AtRest THEN goal ELSE Anywhere
    /\ UNCHANGED <<queue, pose>>

-----------------------------------------------------------------------------
(* servo_task *)

Receive ==
    /\ ~hand.busy /\ queue # <<>>
    /\ hand' = [busy |-> TRUE, to |-> Head(queue).to, gen |-> "unread"]
    /\ queue' = Tail(queue)
    /\ UNCHANGED <<pose, goal>>

\* The generation is read after the move is taken and logged.
ReadGeneration ==
    /\ hand.busy /\ hand.gen = "unread"
    /\ hand' = [hand EXCEPT !.gen = "same"]
    /\ UNCHANGED <<queue, pose, goal>>

\* One step of the interpolation short of the last ...
Step ==
    /\ hand.gen = "same"
    /\ pose' = Between
    /\ UNCHANGED <<queue, hand, goal>>

\* ... the last one, or none when the head is there already, ...
Reach ==
    /\ hand.gen = "same"
    /\ pose' = hand.to /\ hand' = Empty
    /\ UNCHANGED <<queue, goal>>

\* ... and the check before each of them.
Abort ==
    /\ hand.gen = "changed"
    /\ hand' = Empty
    /\ UNCHANGED <<queue, pose, goal>>

ServoTask == Receive \/ ReadGeneration \/ Step \/ Reach \/ Abort

=============================================================================

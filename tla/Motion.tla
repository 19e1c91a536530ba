------------------------------- MODULE Motion -------------------------------
(***************************************************************************)
(* The movements of the robot: the behaviour task of                       *)
(* behavior_state_service.c plays the timelines of states and actions; the *)
(* control task and other tasks ask it for states (control_ingress.c); and *)
(* the WebSocket and the BLE task interrupt it to move the head themselves.*)
(* All of them drive the servo of module Servo.  Texts, pictures and the   *)
(* choice of sounds are left out; a sound matters for as long as it plays. *)
(***************************************************************************)
EXTENDS Servo

CONSTANTS
    States,     \* states.json: loop, hold_until_replaced, timeline_end, motion
    Actions,    \* the action files: total_duration, motion
    Default,    \* default_state
    Hold,       \* BEHAVIOR_DEFAULT_ONESHOT_HOLD_MS
    Asks,       \* requests other tasks make: a state and an action or None
    Statuses,   \* AI statuses, each with the ids that stand for it in turn
    MaxAge,     \* bound: a clock that gets there stays there
    MaxAsks,    \* bound: requests and statuses, all together
    MaxManual   \* bound: moves of the WebSocket and the BLE task, all together

None == "none"

NoAsk == [state |-> None, action |-> None]

\* A motion event; a move without duration is made at once.
Events == [at : Nat, to : Poses, quick : BOOLEAN]

ASSUME CatalogAssumption ==
    /\ \A s \in DOMAIN States :
          States[s] \in [loop : BOOLEAN, hold : BOOLEAN, end : Nat, motion : Seq(Events)]
    /\ \A a \in DOMAIN Actions : Actions[a] \in [total : Nat, motion : Seq(Events)]
    /\ None \notin DOMAIN States \cup DOMAIN Actions
ASSUME MotionBounds == {Hold, MaxAge, MaxAsks, MaxManual} \subseteq Nat

Manual    == {"ws", "ble"}
Producers == Manual \cup {"engine"}

VARIABLES
    pc,         \* where each task is
    out,        \* the move it is giving
    todo,       \* calls of behavior_state_interrupt_action it has yet to make
    lock,       \* s_ctx.lock: the task that holds it, or "free"
    ask,        \* request_queue, of depth 1
    taken,      \* the request the behaviour task carries out
    then,       \* what follows when no event is due
    cur,        \* current_state, None for NULL
    act,        \* current_action, None for NULL
    stateAge, actionAge,    \* the time since state_started_ms, action_started_ms
    nextMotion, nextAction, \* next_motion_index, next_action_motion_index, from 1
    waits,      \* wait_for_local_sfx_completion
    sounding,   \* sfx_service_is_busy()
    asks, manuals

engine == <<taken, then, cur, act, stateAge, actionAge, nextMotion, nextAction, waits>>
world  == <<sounding, asks, manuals>>
vars   == <<servoVars, pc, out, todo, lock, ask, engine, world>>

Goto(p, l) == pc' = [pc EXCEPT ![p] = l]

\* current_state_id
StateId == IF cur = None THEN Default ELSE cur

\* behavior_reset_runtime_locked, with the catalogue loaded
Init ==
    /\ ServoInit
    /\ pc = [p \in Producers |-> IF p = "engine" THEN "sleep" ELSE "idle"]
    /\ out = [p \in Producers |-> Anywhere] /\ todo = [p \in Manual |-> 0]
    /\ lock = "free" /\ ask = NoAsk /\ taken = NoAsk /\ then = "done"
    /\ cur = None /\ act = None
    /\ stateAge = 0 /\ actionAge = 0 /\ nextMotion = 1 /\ nextAction = 1
    /\ waits = FALSE /\ sounding = FALSE
    /\ asks = 0 /\ manuals = 0

-----------------------------------------------------------------------------
(* hal_servo_move_sync and hal_servo_move_smooth, in the hands of task p *)

Move(p) == [to |-> out[p], by |-> p, old |-> FALSE]

\* Where p goes on
Given(p) == IF p = "engine" THEN "events" ELSE "idle"

Give(p) ==
    /\ pc[p] \in {"send", "resend"}
    /\ Queue(Move(p))
    /\ Goto(p, Given(p)) /\ out' = [out EXCEPT ![p] = Anywhere]
    /\ UNCHANGED <<todo, lock, ask, engine, world>>

\* The queue is full: room is to be made, ...
GiveFull(p) ==
    /\ pc[p] = "send" /\ Full
    /\ Goto(p, "room")
    /\ UNCHANGED <<servoVars, out, todo, lock, ask, engine, world>>

MakeRoom(p) ==
    /\ pc[p] = "room"
    /\ \/ DropOldest
       \/ queue = <<>> /\ UNCHANGED servoVars
    /\ Goto(p, "resend")
    /\ UNCHANGED <<out, todo, lock, ask, engine, world>>

\* ... and if another task has taken it, the move is refused.
GiveUp(p) ==
    /\ pc[p] = "resend" /\ Full
    /\ Goto(p, Given(p)) /\ out' = [out EXCEPT ![p] = Anywhere]
    /\ UNCHANGED <<servoVars, todo, lock, ask, engine, world>>

(* hal_servo_cancel_all by task p, which holds the lock *)

CancelBegin(p) ==
    /\ pc[p] = "cancel"
    /\ AdvanceGeneration
    /\ Goto(p, "drain")
    /\ UNCHANGED <<out, todo, lock, ask, engine, world>>

CancelDrop(p) ==
    /\ pc[p] = "drain"
    /\ DropOldest
    /\ UNCHANGED <<pc, out, todo, lock, ask, engine, world>>

\* Where a task goes once it has interrupted the action
Interrupted(p) ==
    /\ todo' = [todo EXCEPT ![p] = @ - 1]
    /\ Goto(p, IF todo[p] = 1 THEN "send" ELSE "interrupt")

\* The mutant of CancelEnd: one move is dropped, not all of them.
CancelEndEarly(p) ==
    /\ pc[p] = "drain"
    /\ IF p = "engine"
       THEN Goto(p, "switch") /\ UNCHANGED <<todo, lock>>
       ELSE Interrupted(p) /\ lock' = "free"
    /\ UNCHANGED <<servoVars, out, ask, engine, world>>

CancelEnd(p) ==
    /\ pc[p] = "drain" /\ queue = <<>>
    /\ IF p = "engine"
       THEN Goto(p, "switch") /\ UNCHANGED <<todo, lock>>
       ELSE Interrupted(p) /\ lock' = "free"
    /\ UNCHANGED <<servoVars, out, ask, engine, world>>

\* What the engine has given becomes old when its action or state ends.
Outdate == queue' = [i \in DOMAIN queue |-> [queue[i] EXCEPT !.old = @ \/ queue[i].by = "engine"]]

-----------------------------------------------------------------------------
(* The WebSocket and the BLE task: control_ingress_submit_servo *)

\* The BLE task interrupts the action once before it submits the move.
Submit(p) ==
    /\ pc[p] = "idle" /\ manuals < MaxManual
    /\ manuals' = manuals + 1
    /\ \E to \in Poses : out' = [out EXCEPT ![p] = to]
    /\ todo' = [todo EXCEPT ![p] = IF p = "ble" THEN 2 ELSE 1]
    /\ Goto(p, "interrupt")
    /\ UNCHANGED <<servoVars, lock, ask, engine, sounding, asks>>

\* behavior_state_interrupt_action
InterruptNothing(p) ==
    /\ pc[p] = "interrupt" /\ lock = "free" /\ act = None
    /\ Interrupted(p)
    /\ UNCHANGED <<servoVars, out, lock, ask, engine, world>>

Interrupt(p) ==
    /\ pc[p] = "interrupt" /\ lock = "free" /\ act # None
    /\ lock' = p
    /\ act' = None /\ nextAction' = 1 /\ actionAge' = 0
    /\ Outdate /\ UNCHANGED <<hand, pose, goal>>
    /\ Goto(p, "cancel")
    /\ UNCHANGED <<out, todo, ask, taken, then, cur, stateAge, nextMotion, waits, world>>

-----------------------------------------------------------------------------
(* Requests for a state: behavior_submit_state_request overwrites the queue *)

Ask ==
    /\ asks < MaxAsks /\ asks' = asks + 1
    /\ ask' \in Asks
    /\ UNCHANGED <<servoVars, pc, out, todo, lock, engine, sounding, manuals>>

FirstOf(ids, known) ==
    IF \E i \in DOMAIN ids : ids[i] \in known
    THEN ids[CHOOSE i \in DOMAIN ids :
                ids[i] \in known /\ \A j \in 1 .. i - 1 : ids[j] \notin known]
    ELSE None

\* control_apply_ai_status: the action is the first that exists, but the state
\* is the first there is, for the service only queues the request and does not
\* say ESP_ERR_NOT_FOUND.
ApplyStatus ==
    /\ asks < MaxAsks /\ asks' = asks + 1
    /\ lock = "free"
    /\ \E ids \in Statuses :
          ask' = [state |-> ids[1], action |-> FirstOf(ids, DOMAIN Actions)]
    /\ UNCHANGED <<servoVars, pc, out, todo, lock, engine, sounding, manuals>>

-----------------------------------------------------------------------------
(* The timelines *)

State  == States[cur]
Action == Actions[act]

\* behavior_all_action_events_dispatched_locked
ActionDone == act # None => nextAction > Len(Action.motion)

\* Mutant of StateDone: the motion of the state counts although an action
\* plays in its place.
StateDoneAlways == nextMotion > Len(State.motion)

\* behavior_all_state_events_dispatched_locked
StateDone == act = None => nextMotion > Len(State.motion)

\* behavior_non_loop_done_at_ms_locked
DoneAt ==
    LET own == IF State.end > 0 THEN State.end ELSE Hold
    IN  IF act # None /\ Action.total > own THEN Action.total ELSE own

\* An action plays in place of the motion of the state.
MotionDue == act = None /\ nextMotion <= Len(State.motion) /\ State.motion[nextMotion].at <= stateAge
ActionDue == act # None /\ nextAction <= Len(Action.motion) /\ Action.motion[nextAction].at <= actionAge

LoopDue ==
    /\ act # None /\ (State.loop \/ State.hold)
    /\ Action.total > 0 /\ ActionDone /\ actionAge >= Action.total

RestartDue ==
    /\ State.loop /\ State.end > 0
    /\ StateDone /\ ActionDone /\ stateAge >= State.end
    /\ act # None => actionAge >= Action.total

FallbackDue ==
    /\ ~State.loop /\ ~State.hold
    /\ StateDone /\ ActionDone /\ stateAge >= DoneAt
    /\ ~(waits /\ sounding)

-----------------------------------------------------------------------------
(* behavior_task *)

TakeRequest ==
    /\ pc["engine"] = "sleep"
    /\ taken' = ask /\ ask' = NoAsk
    /\ Goto("engine", "lock")
    /\ UNCHANGED <<servoVars, out, todo, lock, then, cur, act, stateAge, actionAge, nextMotion, nextAction,
                   waits, world>>

\* The id of the state that a request leads to, and its action, if it exists
Effective(r)  == IF r.state \in DOMAIN States THEN r.state ELSE Default
ActionOf(r)   == IF r.action \in DOMAIN Actions THEN r.action ELSE None
Refused(r)    == r.state \notin DOMAIN States \cup {Default, "standby"}
Repeated(r)   == Effective(r) = StateId /\ ActionOf(r) = act

\* behavior_schedule_state_locked: nothing is done for an unknown state; a
\* repeated request can only change what is shown and heard; ...
Schedule(r) ==
    IF Refused(r)
    THEN Goto("engine", "events") /\ taken' = NoAsk /\ UNCHANGED <<waits, sounding>>
    ELSE IF Repeated(r)
    THEN /\ Goto("engine", "events") /\ taken' = NoAsk
         /\ \/ UNCHANGED <<waits, sounding>>
            \/ waits' = TRUE /\ sounding' = TRUE
    ELSE /\ Goto("engine", IF cur # None \/ act # None THEN "cancel" ELSE "switch")
         /\ taken' = r
         /\ UNCHANGED <<waits, sounding>>

\* ... any other puts the new state and action in place once the moves of the
\* old ones are cancelled.
Switch ==
    /\ pc["engine"] = "switch"
    /\ cur' = IF taken.state \in DOMAIN States THEN taken.state ELSE None
    /\ act' = ActionOf(taken)
    /\ stateAge' = 0 /\ actionAge' = 0 /\ nextMotion' = 1 /\ nextAction' = 1
    /\ \/ waits' = TRUE /\ sounding' = TRUE
       \/ waits' = FALSE /\ UNCHANGED sounding
    /\ Outdate /\ UNCHANGED <<hand, pose, goal>>
    /\ taken' = NoAsk
    /\ Goto("engine", "events")
    /\ UNCHANGED <<out, todo, lock, ask, then, asks, manuals>>

Lock ==
    /\ pc["engine"] = "lock" /\ lock = "free"
    /\ lock' = "engine" /\ then' = "loop"
    /\ IF taken = NoAsk
       THEN Goto("engine", "events") /\ UNCHANGED <<taken, waits, sounding>>
       ELSE Schedule(taken)
    /\ UNCHANGED <<servoVars, out, todo, ask, cur, act, stateAge, actionAge, nextMotion, nextAction, asks, manuals>>

\* behavior_dispatch_due_events_locked
Dispatch(event) ==
    IF event.quick
    THEN SetAngle(event.to) /\ UNCHANGED <<pc, out>>
    ELSE Goto("engine", "send") /\ out' = [out EXCEPT !["engine"] = event.to] /\ UNCHANGED servoVars

DispatchMotion ==
    /\ pc["engine"] = "events" /\ cur # None /\ MotionDue
    /\ Dispatch(State.motion[nextMotion]) /\ nextMotion' = nextMotion + 1
    /\ UNCHANGED <<todo, lock, ask, taken, then, cur, act, stateAge, actionAge, nextAction, waits, world>>

DispatchAction ==
    /\ pc["engine"] = "events" /\ cur # None /\ ActionDue
    /\ Dispatch(Action.motion[nextAction]) /\ nextAction' = nextAction + 1
    /\ UNCHANGED <<todo, lock, ask, taken, then, cur, act, stateAge, actionAge, nextMotion, waits, world>>

\* All events that are due have been dispatched.
Dispatched == pc["engine"] = "events" /\ cur # None /\ ~MotionDue /\ ~ActionDue

LoopAction ==
    /\ Dispatched /\ then = "loop"
    /\ then' = "repeat"
    /\ IF LoopDue THEN actionAge' = 0 /\ nextAction' = 1 ELSE UNCHANGED <<actionAge, nextAction>>
    /\ UNCHANGED <<servoVars, pc, out, todo, lock, ask, taken, cur, act, stateAge, nextMotion, waits, world>>

RestartState ==
    /\ Dispatched /\ then = "repeat" /\ RestartDue
    /\ then' = "done"
    /\ stateAge' = 0 /\ nextMotion' = 1
    /\ UNCHANGED <<servoVars, pc, out, todo, lock, ask, taken, cur, act, actionAge, nextAction, waits, world>>

FallBack ==
    /\ Dispatched /\ then = "repeat" /\ FallbackDue
    /\ then' = "done"
    /\ Schedule([state |-> Default, action |-> None])
    /\ UNCHANGED <<servoVars, out, todo, lock, ask, cur, act, stateAge, actionAge, nextMotion, nextAction,
                   asks, manuals>>

Unlock ==
    /\ \/ Dispatched /\ (then = "done" \/ (then = "repeat" /\ ~RestartDue /\ ~FallbackDue))
       \/ pc["engine"] = "events" /\ cur = None
    /\ lock' = "free" /\ Goto("engine", "sleep")
    /\ UNCHANGED <<servoVars, out, todo, ask, engine, world>>

-----------------------------------------------------------------------------
\* The clock, which the behaviour task reads when it has the lock
Pass ==
    /\ lock # "engine" /\ cur # None
    /\ stateAge' = IF stateAge < MaxAge THEN stateAge + 1 ELSE stateAge
    /\ actionAge' = IF actionAge < MaxAge THEN actionAge + 1 ELSE actionAge
    /\ UNCHANGED <<servoVars, pc, out, todo, lock, ask, taken, then, cur, act, nextMotion, nextAction, waits,
                   world>>

\* sfx_service has played a sound.
SoundEnds ==
    /\ sounding /\ sounding' = FALSE
    /\ UNCHANGED <<servoVars, pc, out, todo, lock, ask, engine, asks, manuals>>

ServoRuns == ServoTask /\ UNCHANGED <<pc, out, todo, lock, ask, engine, world>>

Calls(p) == Give(p) \/ GiveFull(p) \/ MakeRoom(p) \/ GiveUp(p) \/ CancelBegin(p) \/ CancelDrop(p) \/ CancelEnd(p)

Engine == \/ TakeRequest \/ Lock \/ Switch \/ DispatchMotion \/ DispatchAction
          \/ LoopAction \/ RestartState \/ FallBack \/ Unlock \/ Calls("engine")

MoveBy(p) == InterruptNothing(p) \/ Interrupt(p) \/ Calls(p)

Next == \/ Engine \/ \E p \in Manual : Submit(p) \/ MoveBy(p)
        \/ Ask \/ ApplyStatus \/ Pass \/ SoundEnds \/ ServoRuns

Spec == Init /\ [][Next]_vars

\* The tasks run, a sound ends, and time passes while the behaviour task sleeps.
FairSpec ==
    /\ Spec
    /\ WF_vars(Engine) /\ WF_vars(SoundEnds) /\ SF_vars(Pass)
    /\ \A p \in Manual : WF_vars(MoveBy(p))

-----------------------------------------------------------------------------
(* Properties *)

LockedPc == {"cancel", "drain", "switch", "events", "send", "room", "resend"}

\* Every variable has its type; the behaviour task holds the lock from its
\* schedule to its last event, another task for as long as it cancels.
TypeOK ==
    /\ ServoTypes(Producers)
    /\ DOMAIN pc = Producers /\ pc["engine"] \in {"sleep", "lock"} \cup LockedPc
    /\ \A p \in Manual : pc[p] \in {"idle", "interrupt", "cancel", "drain", "send", "room", "resend"}
    /\ out \in [Producers -> Poses \cup {Anywhere}] /\ todo \in [Manual -> 0 .. 2]
    /\ lock = "engine" <=> pc["engine"] \in LockedPc
    /\ \A p \in Manual : lock = p <=> pc[p] \in {"cancel", "drain"}
    /\ cur \in DOMAIN States \cup {None} /\ act \in DOMAIN Actions \cup {None}
    /\ stateAge \in 0 .. MaxAge /\ actionAge \in 0 .. MaxAge
    /\ then \in {"loop", "repeat", "done"}
    /\ cur # None => nextMotion \in 1 .. Len(State.motion) + 1
    /\ act # None => nextAction \in 1 .. Len(Action.motion) + 1
    /\ waits \in BOOLEAN /\ sounding \in BOOLEAN
    /\ asks \in 0 .. MaxAsks /\ manuals \in 0 .. MaxManual

\* Once an action is interrupted or a state replaced, none of the moves it had
\* queued starts any more: at most those the servo task has in hand escape the
\* cancellation, whatever other tasks queue, drop or cancel meanwhile
\* (behavior_state_service.h:36-38, hal_servo.h:98-104).
FreshQueue ==
    (\E i \in DOMAIN queue : queue[i].old) => \E p \in Producers : pc[p] \in {"cancel", "drain"}

\* When the servo comes to rest the head is where the last move given leads,
\* unless that move was cancelled, or made at once over another.
LastMoveWins == AtRest => goal \in {Anywhere, pose}

\* A state that is neither looped nor held gives way to another: whatever is
\* interrupted, repeated or heard meanwhile, the robot does not stay in it.
OneShot == {s \in DOMAIN States \ {Default} : ~States[s].loop /\ ~States[s].hold}

FallsBack == \A s \in OneShot : cur = s ~> cur # s

\* What is cancelled does not start, and what was given last is where the head stops.
MovesInOrder == FreshQueue /\ LastMoveWins

=============================================================================

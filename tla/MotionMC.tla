------------------------------ MODULE MotionMC ------------------------------
(***************************************************************************)
(* Instances of Motion with a catalogue of the shipped kinds: a looped     *)
(* state without motion, a one-shot and a looped one with motion, and an   *)
(* action whose last move has no duration; and the files that Catalog      *)
(* loads it from; and the numbers of a few smooth moves.                   *)
(***************************************************************************)
EXTENDS Motion, CatalogTest, ServoPulse

MCPoses == {"home", "side"}

At(t, to, quick) == [at |-> t, to |-> to, quick |-> quick]

MCStates ==
    [standby |-> [loop |-> TRUE,  hold |-> FALSE, end |-> 0, motion |-> <<>>],
     boot    |-> [loop |-> FALSE, hold |-> FALSE, end |-> 1, motion |-> <<At(0, "home", FALSE)>>],
     custom  |-> [loop |-> TRUE,  hold |-> FALSE, end |-> 1, motion |-> <<At(0, "side", FALSE)>>],
     happy   |-> [loop |-> FALSE, hold |-> TRUE,  end |-> 0, motion |-> <<>>]]

MCActions ==
    [standby |-> [total |-> 1, motion |-> <<At(0, "side", FALSE), At(1, "home", TRUE)>>]]

MCAsks == {[state |-> "boot", action |-> "standby"], [state |-> "custom", action |-> None]}

\* The action file of the first status is no state; "done" is none either, and
\* stands for happy.
MCKnown    == {<<"standby", "custom">>}
MCStatuses == MCKnown \cup {<<"done", "happy">>}

-----------------------------------------------------------------------------
(* The files *)

\* A state of states.json whose motion is one move, or none
RawState(loop, hold, moves) ==
    [loop |-> loop, hold |-> hold, motion |-> moves, expression |-> <<>>, sound |-> <<>>]

To(x) == <<[at |-> 0, x |-> x, y |-> DefaultY, duration |-> 1]>>

StatesFile ==
    [read |-> TRUE, default |-> "standby",
     states |-> [standby |-> RawState(TRUE, FALSE, <<>>),
                 boot    |-> RawState(FALSE, FALSE, To(90)),
                 custom  |-> RawState(TRUE, FALSE, To(45)),
                 happy   |-> RawState(FALSE, TRUE, <<>>)]]

\* A frame is a millisecond.
ActionsDir ==
    [standby |-> [read |-> TRUE, fps |-> 1000, start |-> 0, last |-> 1,
                  keys |-> Keys("z", {0}, {45}) \cup Keys("z", {1}, {90})]]

\* hal_servo_move_sync is asked for a move with a duration, hal_servo_set_angle otherwise.
Timeline(moves) ==
    [i \in DOMAIN moves |-> At(moves[i].at, IF moves[i].to[1] = DefaultX THEN "home" ELSE "side",
                               moves[i].duration = 0)]

ASSUME FilesAssumption ==
    LET found  == Loaded(StatesFile, ActionsDir)
        action == found.actions["standby"]
    IN /\ found.default = "standby" /\ DOMAIN found.states = DOMAIN MCStates
       /\ \A s \in DOMAIN MCStates :
             MCStates[s] = [loop |-> found.states[s].loop, hold |-> found.states[s].hold,
                            end |-> found.states[s].end, motion |-> Timeline(found.states[s].motion)]
       /\ MCActions = [standby |-> [total |-> action.total, motion |-> Timeline(action.motion)]]

\* One bad angle, and there are no actions; one bad state, and there is nothing.
ASSUME SpoiltAssumption ==
    LET bad == [ActionsDir["standby"] EXCEPT !.keys = @ \cup Keys("x", {1}, {181})]
    IN /\ Loaded(StatesFile, [standby |-> ActionsDir["standby"], happy |-> bad]).actions = <<>>
       /\ Loaded([StatesFile EXCEPT !.states["boot"].motion = <<[at |-> 0, x |-> 181, y |-> 0,
                                                                 duration |-> 0]>>],
                 ActionsDir).actions = <<>>

-----------------------------------------------------------------------------
(* Numbers of the servo *)

ASSUME AnglesAssumption ==
    /\ PulseWidth(0) = MinPulse /\ PulseWidth(90) = NeutralPulse /\ PulseWidth(180) = MaxPulse
    /\ \A a \in 0 .. 180 : PulseWidth(a) + PulseWidth(180 - a) = 2 * NeutralPulse
    /\ PulseWidth(-1) = MinPulse /\ PulseWidth(181) = MaxPulse

\* There is an angle for every step, and none is further than a degree from the straight way.
ASSUME WayAssumption ==
    \A s, t \in {0, 1, 89, 90, 180}, n \in {1, 2, 7, 30} : \A i \in 1 .. n :
        /\ StepAngles(s, t, n, i) # {}
        /\ \A a \in StepAngles(s, t, n, i) :
              LET off == (a - s) * n - (t - s) * i IN off \in -n .. n

=============================================================================

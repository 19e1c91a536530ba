------------------------------ MODULE Catalog ------------------------------
(***************************************************************************)
(* The catalogue of behaviours, as behavior_state_service.c reads it: the  *)
(* timelines of the states from states.json, and those of the actions from *)
(* keyframes that an animation program has exported, one file for each.    *)
(* A file is given by what its JSON says; entries that the code skips as   *)
(* incomplete are not in it, and numbers have their defaults.  An angle is *)
(* whole already.  Left out: the names of files, failed allocations, and   *)
(* times above 2^32 ms.                                                    *)
(***************************************************************************)
EXTENDS Integers, FiniteSets, SequencesExt

DefaultX == 90      \* BEHAVIOR_ACTION_DEFAULT_X_DEG
DefaultY == 120     \* BEHAVIOR_ACTION_DEFAULT_Y_DEG
Degrees  == 0 .. 180

-----------------------------------------------------------------------------
(* An action file: read (it is there, not too long, and JSON), fps, start,  *)
(* last, and its keys, each an axis, a frame and an angle.  Axis z turns   *)
(* the head, axis x tilts it, others count for the length alone.           *)

\* A single angle out of range spoils the file.
BadAction(file) ==
    \/ ~file.read \/ file.fps <= 0
    \/ \E k \in file.keys : k.axis \in {"z", "x"} /\ k.angle \notin Degrees

\* The keyframes of an axis, one to a frame: which of several at a frame stays is up to
\* qsort, which may swap equals.
Tracks(file, axis) ==
    LET keys == {k \in file.keys : k.axis = axis} IN
    {t \in [{k.frame : k \in keys} -> {k.angle : k \in keys}] :
        \A f \in DOMAIN t : [axis |-> axis, frame |-> f, angle |-> t[f]] \in keys}

\* The angle at a frame is that of the keyframe before, and before the first that of the
\* first.
AngleAt(track, f, default) ==
    LET before == {g \in DOMAIN track : g <= f} IN
    CASE DOMAIN track = {}                  -> default
      [] DOMAIN track # {} /\ before = {}   -> track[Min(DOMAIN track)]
      [] OTHER                              -> track[Max(before)]

FrameMs(f, start, fps) ==
    IF f <= start THEN 0 ELSE ((f - start) * 1000 + fps \div 2) \div fps

Frames(x, y) == DOMAIN x \cup DOMAIN y

\* Frames that are given lengthen the range the file states, on either side; frame 0 does
\* at its end.
FirstFrame(file, x, y) == Min(Frames(x, y) \cup {file.start})
LastFrame(file, x, y)  == Max({k.frame : k \in file.keys} \cup
                              {file.last, 0, FirstFrame(file, x, y)})

PoseAt(x, y, f) == <<AngleAt(x, f, DefaultX), AngleAt(y, f, DefaultY)>>

\* The frame after f, or the end of the action
FrameAfter(file, x, y, f) ==
    LET after == {g \in Frames(x, y) : g > f} IN
    IF after = {} THEN LastFrame(file, x, y) ELSE Min(after)

\* A frame at which the pose is that of the frame before is no move.
Moving(x, y) ==
    {f \in Frames(x, y) :
        LET before == {g \in Frames(x, y) : g < f} IN
        before = {} \/ PoseAt(x, y, f) # PoseAt(x, y, Max(before))}

AtMs(file, x, y, f) == FrameMs(f, FirstFrame(file, x, y), file.fps)

MoveAt(file, x, y, f) ==
    [at |-> AtMs(file, x, y, f), to |-> PoseAt(x, y, f),
     duration |-> AtMs(file, x, y, FrameAfter(file, x, y, f)) - AtMs(file, x, y, f)]

\* The total is 0 when all happens at one frame.
TotalMs(file, x, y) == AtMs(file, x, y, LastFrame(file, x, y))

ActionFrom(file, x, y) ==
    LET frames == SetToSortSeq(Moving(x, y), <) IN
    [total  |-> TotalMs(file, x, y),
     motion |-> [i \in DOMAIN frames |-> MoveAt(file, x, y, frames[i])]]

\* behavior_load_actions_from_dir: one bad file, and there are no actions at all.
ActionsFrom(dir) ==
    IF \E a \in DOMAIN dir : BadAction(dir[a]) THEN <<>>
    ELSE [a \in DOMAIN dir |->
            LET x == CHOOSE t \in Tracks(dir[a], "z") : TRUE
                y == CHOOSE t \in Tracks(dir[a], "x") : TRUE
            IN ActionFrom(dir[a], x, y)]

-----------------------------------------------------------------------------
(* states.json: read, default, and the states, each with its loop, hold,   *)
(* motion, expression and sound; an entry is good that names a picture or  *)
(* a text, or a sound.                                                     *)

BadState(s) ==
    \/ \E i \in DOMAIN s.motion : s.motion[i].x \notin Degrees \/ s.motion[i].y \notin Degrees
    \/ \E i \in DOMAIN s.expression : ~s.expression[i].good
    \/ \E i \in DOMAIN s.sound : ~s.sound[i].good

BadStates(file) == ~file.read \/ \E s \in DOMAIN file.states : BadState(file.states[s])

Times(events) == {events[i].at : i \in DOMAIN events}

\* The end of a timeline: a move counts until it is done.
EndOf(s) ==
    Max({0} \cup {s.motion[i].at + s.motion[i].duration : i \in DOMAIN s.motion}
            \cup Times(s.expression) \cup Times(s.sound))

\* Events stay in the order of the file.
StateFrom(s) ==
    [loop |-> s.loop, hold |-> s.hold, end |-> EndOf(s),
     motion |-> [i \in DOMAIN s.motion |->
                    [at |-> s.motion[i].at, to |-> <<s.motion[i].x, s.motion[i].y>>,
                     duration |-> s.motion[i].duration]]]

\* behavior_state_load: without states there are no actions either; without actions the
\* states stand alone.
Loaded(file, dir) ==
    IF BadStates(file)
    THEN [default |-> "standby", states |-> <<>>, actions |-> <<>>]
    ELSE [default |-> file.default,
          states  |-> [s \in DOMAIN file.states |-> StateFrom(file.states[s])],
          actions |-> ActionsFrom(dir)]

=============================================================================

---------------------------- MODULE CatalogTest ----------------------------
(***************************************************************************)
(* The moves of an action as behavior_parse_action_file computes them, one *)
(* frame after the other, for comparison with what Catalog says of them,   *)
(* and the comparison for small action files.                              *)
(***************************************************************************)
EXTENDS Catalog

\* The loop over the frames: last is the pose of the frame before, and a pose that the
\* last move has reached already is skipped.
Replayed(file, x, y) ==
    LET frames == SetToSortSeq(Frames(x, y), <)
        Ms(f)  == FrameMs(f, FirstFrame(file, x, y), file.fps)
        Step(done, i) ==
            LET pose == <<AngleAt(x, frames[i], done.last[1]), AngleAt(y, frames[i], done.last[2])>>
                next == IF i < Len(frames) THEN frames[i + 1] ELSE LastFrame(file, x, y)
                move == [at |-> Ms(frames[i]), to |-> pose,
                         duration |-> IF Ms(next) > Ms(frames[i])
                                      THEN Ms(next) - Ms(frames[i]) ELSE 0]
                same == done.moves # <<>> /\ done.moves[Len(done.moves)].to = pose
            IN [last |-> pose, moves |-> IF same THEN done.moves ELSE Append(done.moves, move)]
        start == [last  |-> <<IF DOMAIN x = {} THEN DefaultX ELSE x[Min(DOMAIN x)],
                              IF DOMAIN y = {} THEN DefaultY ELSE y[Min(DOMAIN y)]>>,
                  moves |-> <<>>]
    IN FoldLeft(Step, start, [i \in DOMAIN frames |-> i]).moves

Keys(axis, frames, angles) == [axis : {axis}, frame : frames, angle : angles]

SmallFiles ==
    {[read |-> TRUE, fps |-> n, start |-> s, last |-> l, keys |-> zs \cup xs \cup ys] :
        n \in {3, 1000}, s \in {0, 2}, l \in {0, 3},
        zs \in SUBSET Keys("z", {1, 3, 4}, {90, 91}), xs \in SUBSET Keys("x", {0, 3}, {120}),
        ys \in {{}, Keys("y", {5}, {0})}}

ASSUME ReplayAssumption ==
    \A file \in SmallFiles : \A x \in Tracks(file, "z"), y \in Tracks(file, "x") :
        Replayed(file, x, y) = ActionFrom(file, x, y).motion

=============================================================================

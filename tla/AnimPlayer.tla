----------------------------- MODULE AnimPlayer -----------------------------
(***************************************************************************)
(* The animation player (anim_player.c).  A playback streams the frames of *)
(* an animation from the SD card through a ring of frame buffers: one task *)
(* fills the ring under g_player_mutex, while the timers of LVGL and the   *)
(* callers, who hold the lock of LVGL, show the frames and switch to       *)
(* another playback.  LVGL draws the frame in front without the mutex.     *)
(* Left out: sizes, delays and deadlines, and the timer that is paused     *)
(* while there is a single frame, for that frame never changes.            *)
(***************************************************************************)
EXTENDS Integers, FiniteSets

CONSTANTS
    Types,          \* animations with a pack on the card
    FrameCount,     \* frames of each, stream.frame_count
    Looping,        \* those whose pack says loop
    Ring,           \* WATCHER_ANIM_RING_FRAMES
    MaxStarts,      \* bound: playbacks opened
    MaxFailures     \* bound: files that do not open, frames that cannot be read

ASSUME AnimAssumption ==
    /\ FrameCount \in [Types -> Nat \ {0}]
    /\ Looping \subseteq Types
    /\ Ring \in Nat \ {0}
ASSUME AnimBounds == {MaxStarts, MaxFailures} \subseteq Nat

NoType == "none"    \* EMOJI_ANIM_NONE
Empty  == -1        \* of slot_frame_index

ASSUME NoTypeAssumption == NoType \notin Types

VARIABLES
    state,      \* g_state
    active,     \* g_active_playback
    pending,    \* g_pending_playback
    current,    \* g_current_type
    generation, \* g_latest_generation
    front,      \* the slot of g_active_playback the image in front points to
    filling,    \* the playback whose next slot the task writes, with the mutex
    failures

player == <<state, active, pending, current, generation, front, filling, failures>>

Slots == 0 .. Ring - 1

\* anim_playback_t; every field is of use only while inUse.
Playback == [inUse : BOOLEAN, type : Types \cup {NoType}, generation : 0 .. MaxStarts,
             slots : [Slots -> Int], slotCount : 0 .. Ring, slot : Slots, frame : Nat,
             buffered : 0 .. Ring, nextFrame : Nat, nextSlot : Slots]

Closed == [inUse |-> FALSE, type |-> NoType, generation |-> 0,
           slots |-> [s \in Slots |-> Empty], slotCount |-> 0, slot |-> 0, frame |-> 0,
           buffered |-> 0, nextFrame |-> 0, nextSlot |-> 0]

\* playback_open
Opened(t, g) ==
    [Closed EXCEPT !.inUse = TRUE, !.type = t, !.generation = g,
                   !.slotCount = IF FrameCount[t] < Ring THEN FrameCount[t] ELSE Ring]

\* Mutant: the index of the frame after the last one does not wrap.
NextFrameNoWrap(p) == p.nextFrame

\* The frame playback_fill_next reads
NextFrame(p) ==
    IF p.nextFrame >= FrameCount[p.type] /\ p.type \in Looping
    THEN p.nextFrame % FrameCount[p.type] ELSE p.nextFrame

\* Mutant: a ring with all its slots loaded is filled on.
WantsFrameAlways(p) == p.inUse /\ NextFrame(p) < FrameCount[p.type]

\* There is room in the ring, and a frame to read.
WantsFrame(p) ==
    p.inUse /\ p.buffered < p.slotCount /\ NextFrame(p) < FrameCount[p.type]

\* playback_fill_next, when the frame could be read
Filled(p) ==
    [p EXCEPT !.slots[p.nextSlot] = NextFrame(p), !.buffered = @ + 1,
              !.nextFrame = NextFrame(p) + 1,
              !.nextSlot = (p.nextSlot + 1) % p.slotCount]

AfterSlot(p) == (p.slot + 1) % p.slotCount

\* playback_advance
CanAdvance(p) == p.inUse /\ p.buffered > 1 /\ p.slots[AfterSlot(p)] # Empty

Advanced(p) ==
    [p EXCEPT !.slots[p.slot] = Empty, !.slot = AfterSlot(p),
              !.frame = p.slots[AfterSlot(p)], !.buffered = @ - 1]

\* emoji_anim_init
PlayerInit ==
    /\ state = "idle" /\ active = Closed /\ pending = Closed /\ current = NoType
    /\ generation = 0 /\ front = 0 /\ filling = "none" /\ failures = 0

\* Nobody holds g_player_mutex.
MutexFree == filling = "none"

Fail == failures < MaxFailures /\ failures' = failures + 1

-----------------------------------------------------------------------------
(* anim_worker_task: the new playback comes first. *)

FillBegin ==
    /\ MutexFree
    /\ \/ WantsFrame(pending) /\ filling' = "pending"
       \/ ~(pending.inUse /\ pending.buffered < pending.slotCount)
          /\ WantsFrame(active) /\ filling' = "active"
    /\ UNCHANGED <<state, active, pending, current, generation, front, failures>>

FillDone ==
    /\ filling # "none"
    /\ IF filling = "pending" THEN pending' = Filled(pending) /\ UNCHANGED active
                              ELSE active' = Filled(active) /\ UNCHANGED pending
    /\ filling' = "none"
    /\ UNCHANGED <<state, current, generation, front, failures>>

\* Mutant: a frame that cannot be read is left out.
FillFailedSkips ==
    /\ filling # "none" /\ Fail
    /\ filling' = "none"
    /\ IF filling = "active" THEN active' = [active EXCEPT !.nextFrame = @ + 1]
                             ELSE UNCHANGED active
    /\ UNCHANGED <<state, pending, current, generation, front>>

\* All attempts at reading the frame have failed; it is read again later.
FillFailed ==
    /\ filling # "none" /\ Fail
    /\ filling' = "none"
    /\ UNCHANGED <<state, active, pending, current, generation, front>>

Fill == FillBegin \/ FillDone \/ FillFailed

(* The timers, with the lock of LVGL; both give up when the mutex is taken. *)

\* anim_frame_timer_cb
FrameTimer ==
    /\ state = "playing" /\ current # NoType /\ MutexFree
    /\ CanAdvance(active)
    /\ active' = Advanced(active)
    /\ front' = active'.slot
    /\ current' = active.type
    /\ UNCHANGED <<state, pending, generation, filling, failures>>

\* commit_pending_playback of the playback p
Commit(p) ==
    /\ active' = p /\ pending' = Closed
    /\ front' = p.slot
    /\ state' = "playing" /\ current' = p.type

\* required_frames
Required ==
    IF active.inUse THEN (IF pending.slotCount < 2 THEN pending.slotCount ELSE 2) ELSE 1

\* anim_service_timer_cb
ServiceTimer ==
    /\ state = "preparing" /\ MutexFree
    /\ pending.inUse /\ pending.buffered >= Required
    /\ Commit(pending)
    /\ UNCHANGED <<generation, filling, failures>>

(* emoji_anim_start and emoji_anim_stop, by a caller with the lock of LVGL *)

\* Mutant: nothing is started while a switch is under way.
UnderWayAny(t) ==
    \/ active.inUse /\ active.type = t /\ state = "playing"
    \/ pending.inUse

\* The early returns of emoji_anim_start
UnderWay(t) ==
    \/ active.inUse /\ active.type = t /\ state = "playing"
    \/ pending.inUse /\ pending.type = t

\* The new playback, and its first frame at once when nothing is shown yet
StartOpened(t) ==
    /\ ~UnderWay(t)
    /\ generation < MaxStarts /\ generation' = generation + 1
    /\ LET new == Opened(t, generation') IN
       \/ /\ active.inUse
          /\ pending' = new /\ state' = "preparing"
          /\ UNCHANGED <<active, current, front, failures>>
       \/ /\ ~active.inUse
          /\ Commit(Filled(new))
          /\ UNCHANGED failures
       \/ /\ ~active.inUse /\ Fail
          /\ pending' = new /\ state' = "preparing"
          /\ UNCHANGED <<active, current, front>>
    /\ UNCHANGED filling

\* The playback does not open: the one being prepared is gone all the same.
StartFailed(t) ==
    /\ ~UnderWay(t)
    /\ generation < MaxStarts /\ generation' = generation + 1 /\ Fail
    /\ pending' = Closed
    /\ UNCHANGED <<state, active, current, front, filling>>

\* emoji_anim_stop
Stop ==
    /\ MutexFree
    /\ active' = Closed /\ pending' = Closed
    /\ state' = "idle" /\ current' = NoType
    /\ UNCHANGED <<generation, front, filling, failures>>

-----------------------------------------------------------------------------

PlayerTypeOK ==
    /\ state \in {"idle", "preparing", "playing"}
    /\ {active, pending} \subseteq Playback
    /\ current \in Types \cup {NoType}
    /\ generation \in 0 .. MaxStarts
    /\ front \in Slots
    /\ filling \in {"none", "pending", "active"}
    /\ failures \in 0 .. MaxFailures

\* The loaded slots of a playback are the buffered ones from the current slot on, in
\* order; the next one to load follows them.
RingOf(p) ==
    p.inUse =>
        /\ p.type \in Types
        /\ p.slotCount \in 1 .. Ring /\ p.slotCount <= FrameCount[p.type]
        /\ p.buffered <= p.slotCount
        /\ p.slot < p.slotCount
        /\ p.nextSlot = (p.slot + p.buffered) % p.slotCount
        /\ \A s \in 0 .. p.slotCount - 1 :
              (p.slots[s] # Empty) <=> \E k \in 0 .. p.buffered - 1 :
                                           s = (p.slot + k) % p.slotCount
        /\ \A k \in 0 .. p.buffered - 1 :
              p.slots[(p.slot + k) % p.slotCount] = (p.frame + k) % FrameCount[p.type]
        /\ p.buffered > 0 =>
              p.nextFrame % FrameCount[p.type] = (p.frame + p.buffered) % FrameCount[p.type]

\* Both rings are in order.
RingsInOrder == RingOf(active) /\ RingOf(pending)

\* What LVGL draws is a whole frame of the animation in front: the slot in front is
\* loaded and shows the current frame, and the task writes another one, although LVGL
\* does not take the mutex.
ShownIntact ==
    /\ state = "playing" => active.inUse /\ ~pending.inUse /\ current = active.type
    /\ active.inUse =>
          /\ active.buffered >= 1 /\ front = active.slot
          /\ active.slots[front] = active.frame
          /\ filling = "active" => active.nextSlot # front

\* Frames are shown one after the other, without a gap: within a playback the image
\* changes only to the frame that follows, and an animation that does not loop ends
\* with its last one.
FramesInOrder ==
    [][active.inUse /\ active'.inUse /\ active'.generation = active.generation
       /\ active'.frame # active.frame =>
          \/ active'.frame = active.frame + 1
          \/ /\ active.type \in Looping
             /\ active.frame = FrameCount[active.type] - 1 /\ active'.frame = 0]_player

\* A switch comes to an end: a playback that is being prepared is shown sooner or later,
\* unless it is stopped or another one takes its place.
SwitchCompletes ==
    \A g \in 1 .. MaxStarts :
        (pending.inUse /\ pending.generation = g)
        ~> ~(pending.inUse /\ pending.generation = g)

\* The animation in front that has a frame to come
Moving ==
    active.inUse /\ FrameCount[active.type] > 1
    /\ (active.type \in Looping \/ active.frame < FrameCount[active.type] - 1)

\* An animation that plays goes on to its next frame as long as nobody stops or
\* replaces it: the task refills the ring, and the last frame is followed by the first.
KeepsMoving ==
    \A t \in Types : \A f \in 0 .. FrameCount[t] - 1 :
        (state = "playing" /\ Moving /\ active.type = t /\ active.frame = f)
        ~> ~(state = "playing" /\ active.type = t /\ active.frame = f)

=============================================================================

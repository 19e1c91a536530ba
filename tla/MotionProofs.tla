---------------------------- MODULE MotionProofs ----------------------------
(***************************************************************************)
(* Proofs about Motion for every catalogue of states and actions, every    *)
(* length of the queue and every number of requests: what is given to the  *)
(* servo last is where it comes to rest, and a move of the engine that was *)
(* cancelled is not left behind.  The second part is about the numbers the *)
(* servo is driven with, for every angle, every configuration of the       *)
(* limits and every move (ServoPulse).                                     *)
(***************************************************************************)
EXTENDS Motion, ServoPulse, TLAPS

-----------------------------------------------------------------------------
(* The strengthening. *)

\* The states a task can be in, and what it has then.
Pcs == {"sleep", "lock", "idle", "interrupt"} \cup LockedPc
Giving == {"send", "room", "resend"}

TasksFit ==
    /\ pc \in [Producers -> Pcs] /\ lock \in Producers \cup {"free"}
    /\ \A p \in Manual : pc[p] \in {"interrupt", "cancel", "drain"} => todo[p] # 0
    /\ \A p \in Manual : pc[p] # "idle" => out[p] \in Poses
    /\ pc["engine"] \in Giving => out["engine"] \in Poses /\ cur # None

\* The servo task's hand is empty when it has no move.
HandFits == ~hand.busy => hand = Empty

\* Moves of the engine wait only while it has a state, or cancels them.
OfEngine == \E i \in DOMAIN queue : queue[i].by = "engine"
EngineMoves == OfEngine => /\ pc["engine"] # "switch"
                           /\ cur # None \/ pc["engine"] \in {"cancel", "drain"}

\* Where the move that was given last is, and where it leads.
GoalFits == /\ queue # <<>> => goal \in {Anywhere, queue[Len(queue)].to}
            /\ queue = <<>> /\ hand.busy => goal \in {Anywhere, hand.to}
            /\ queue = <<>> /\ hand.gen = "changed" => goal = Anywhere

\* The servo's part
ServoInv == ServoTypes(Producers) /\ HandFits /\ GoalFits /\ LastMoveWins

\* The rest of the types, apart from the servo's.
EngineTypes ==
    /\ \A p \in Manual :
          pc[p] \in {"idle", "interrupt", "cancel", "drain", "send", "room", "resend"}
    /\ pc["engine"] \in {"sleep", "lock"} \cup LockedPc
    /\ out \in [Producers -> Poses \cup {Anywhere}] /\ todo \in [Manual -> 0 .. 2]
    /\ lock = "engine" <=> pc["engine"] \in LockedPc
    /\ \A p \in Manual : lock = p <=> pc[p] \in {"cancel", "drain"}

TimelineTypes ==
    /\ cur \in DOMAIN States \cup {None} /\ act \in DOMAIN Actions \cup {None}
    /\ stateAge \in 0 .. MaxAge /\ actionAge \in 0 .. MaxAge
    /\ then \in {"loop", "repeat", "done"}
    /\ cur # None => nextMotion \in 1 .. Len(State.motion) + 1
    /\ act # None => nextAction \in 1 .. Len(Action.motion) + 1
    /\ asks \in 0 .. MaxAsks /\ manuals \in 0 .. MaxManual

\* The flags have a type of their own; the provers handle them apart.
Flags == waits \in BOOLEAN /\ sounding \in BOOLEAN

\* A move that was due before a cancellation waits only while somebody cancels.
Old == \E i \in DOMAIN queue : queue[i].old
Cancelling == \E p \in Producers : pc[p] \in {"cancel", "drain"}
QueueFits == EngineMoves /\ (Old => Cancelling)

Inv == ServoInv /\ EngineTypes /\ TasksFit /\ TimelineTypes /\ Flags /\ QueueFits

-----------------------------------------------------------------------------
(* What the operations on the servo's queue do *)

\* A sequence with one more element
LEMMA Pushed ==
  ASSUME NEW S, NEW q \in Seq(S), NEW m \in S
  PROVE /\ Append(q, m) \in Seq(S) /\ Len(Append(q, m)) = Len(q) + 1 /\ Append(q, m) # <<>>
        /\ Append(q, m)[Len(q) + 1] = m
        /\ \A i \in DOMAIN Append(q, m) :
              \/ i \in DOMAIN q /\ Append(q, m)[i] = q[i]
              \/ Append(q, m)[i] = m
  OBVIOUS

\* An empty queue is one of length 0.
LEMMA NoneLeft == ASSUME NEW S, NEW q \in Seq(S) PROVE q = <<>> <=> Len(q) = 0
  OBVIOUS

\* A sequence without its first element
LEMMA Popped ==
  ASSUME NEW S, NEW q \in Seq(S), q # <<>>
  PROVE /\ Tail(q) \in Seq(S) /\ Len(Tail(q)) = Len(q) - 1 /\ Head(q) = q[1] /\ Head(q) \in S
        /\ Tail(q) # <<>> => Tail(q)[Len(q) - 1] = q[Len(q)] /\ Len(q) # 1
        /\ Tail(q) = <<>> => Len(q) = 1
        /\ \A i \in DOMAIN Tail(q) : i + 1 \in DOMAIN q /\ Tail(q)[i] = q[i + 1]
<1>1. Len(q) \in Nat \ {0} /\ Head(q) = q[1] /\ Head(q) \in S
  OBVIOUS
<1>2. Tail(q) \in Seq(S) /\ Len(Tail(q)) = Len(q) - 1
  OBVIOUS
<1>3. \A i \in 1 .. Len(q) - 1 : Tail(q)[i] = q[i + 1]
  OBVIOUS
<1> DEFINE r == Tail(q)
<1>4. r = <<>> <=> Len(r) = 0
  BY <1>2, NoneLeft
<1>5. DOMAIN r = 1 .. Len(q) - 1 /\ DOMAIN q = 1 .. Len(q)
  BY <1>2
<1> HIDE DEF r
<1>6. r # <<>> => Len(q) - 1 \in 1 .. Len(q) - 1 /\ (Len(q) - 1) + 1 = Len(q)
  BY <1>1, <1>2, <1>4 DEF r
<1>q. QED
  BY <1>1, <1>2, <1>3, <1>4, <1>5, <1>6 DEF r

\* A move is given to the servo.
LEMMA QueueKeeps ==
  ASSUME ServoInv, NEW m \in Moves(Producers), Queue(m)
  PROVE ServoInv' /\ (OfEngine' => OfEngine \/ m.by = "engine") /\ (Old' => Old \/ m.old)
<1> USE DEF ServoInv, ServoTypes, Queue, Push, Full
<1>1. queue \in Seq(Moves(Producers)) /\ queue' = Append(queue, m)
      /\ Len(queue) # Depth /\ Len(queue) <= Depth /\ Len(queue) \in Nat
  OBVIOUS
<1>2. /\ queue' \in Seq(Moves(Producers)) /\ Len(queue') = Len(queue) + 1 /\ queue' # <<>>
      /\ queue'[Len(queue) + 1] = m
      /\ \A i \in DOMAIN queue' : (i \in DOMAIN queue /\ queue'[i] = queue[i]) \/ queue'[i] = m
  BY <1>1, Pushed
<1>3. m.to \in Poses
  BY DEF Moves
<1>4. ServoTypes(Producers)'
  BY <1>1, <1>2, <1>3, ServoAssumption
<1>5. HandFits' /\ GoalFits' /\ LastMoveWins'
  BY <1>2 DEF HandFits, GoalFits, LastMoveWins, AtRest, Empty
<1>6. OfEngine' => OfEngine \/ m.by = "engine"
  BY <1>2 DEF OfEngine
<1>7. Old' => Old \/ m.old
  BY <1>2 DEF Old
<1>q. QED
  BY <1>4, <1>5, <1>6, <1>7

\* A move is taken out by another task.
LEMMA DropKeeps ==
  ASSUME ServoInv, DropOldest
  PROVE ServoInv' /\ (OfEngine' => OfEngine) /\ (Old' => Old)
<1> USE DEF ServoInv, ServoTypes, DropOldest
<1>1. queue \in Seq(Moves(Producers)) /\ queue' = Tail(queue)
      /\ queue # <<>> /\ Len(queue) \in Nat
  OBVIOUS
<1>2. /\ queue' \in Seq(Moves(Producers)) /\ Len(queue') = Len(queue) - 1
      /\ queue' # <<>> => queue'[Len(queue) - 1] = queue[Len(queue)] /\ Len(queue) # 1
      /\ queue' = <<>> => Len(queue) = 1
      /\ \A i \in DOMAIN queue' : i + 1 \in DOMAIN queue /\ queue'[i] = queue[i + 1]
  BY <1>1, Popped
<1>4. ServoTypes(Producers)'
  BY <1>1, <1>2, ServoAssumption
<1>5. HandFits' /\ GoalFits' /\ LastMoveWins'
  BY <1>1, <1>2 DEF HandFits, GoalFits, LastMoveWins, AtRest, Empty
<1>6. OfEngine' => OfEngine
  BY <1>2 DEF OfEngine
<1>7. Old' => Old
  BY <1>2 DEF Old
<1>q. QED
  BY <1>4, <1>5, <1>6, <1>7

\* hal_servo_set_angle: a move without a duration takes effect at once.
LEMMA AngleKeeps ==
  ASSUME ServoInv, NEW to \in Poses, SetAngle(to)
  PROVE ServoInv' /\ (OfEngine' => OfEngine) /\ (Old' => Old)
<1> USE DEF ServoInv, ServoTypes, SetAngle
<1>1. ServoTypes(Producers)'
  BY SMT DEF AtRest
<1>2. HandFits' /\ GoalFits' /\ LastMoveWins'
  BY SMT DEF HandFits, GoalFits, LastMoveWins, AtRest, Empty
<1>q. QED
  BY <1>1, <1>2 DEF OfEngine, Old

\* The move under way is cancelled, and where the last one leads is open.
LEMMA AdvanceKeeps ==
  ASSUME ServoInv, AdvanceGeneration
  PROVE ServoInv' /\ (OfEngine' => OfEngine) /\ (Old' => Old)
<1> USE DEF ServoInv, ServoTypes, AdvanceGeneration
<1>1. ServoTypes(Producers)'
  BY SMT DEF AtRest
<1>2. /\ hand'.busy = hand.busy /\ hand'.to = hand.to /\ (hand.gen # "same" => hand' = hand)
      /\ UNCHANGED queue /\ pose' = pose
      /\ goal' = IF queue = <<>> /\ ~hand.busy THEN goal ELSE Anywhere
  BY DEF AtRest
<1>3. ~hand.busy => hand.gen = "unread"
  BY DEF HandFits, Empty
<1>4. HandFits' /\ GoalFits' /\ LastMoveWins'
  BY <1>2, <1>3 DEF HandFits, GoalFits, LastMoveWins, AtRest, Empty
<1>q. QED
  BY <1>1, <1>4 DEF OfEngine, Old

\* The history marks the moves that are to be dropped; the queue is the same.
LEMMA OutdateKeeps ==
  ASSUME ServoInv, Outdate, UNCHANGED <<hand, pose, goal>>
  PROVE ServoInv' /\ (OfEngine' => OfEngine) /\ (Old' => Old \/ OfEngine)
<1> USE DEF ServoInv, ServoTypes
<1>1. queue \in Seq(Moves(Producers)) /\ Len(queue) \in Nat /\ DOMAIN queue = 1 .. Len(queue)
  OBVIOUS
<1>2. /\ DOMAIN queue' = DOMAIN queue
      /\ \A i \in DOMAIN queue :
            queue'[i] = [queue[i] EXCEPT !.old = queue[i].old \/ queue[i].by = "engine"]
  BY DEF Outdate
<1>3. ASSUME NEW i \in DOMAIN queue
      PROVE /\ queue'[i].to = queue[i].to /\ queue'[i].by = queue[i].by
            /\ queue'[i].old => queue[i].old \/ queue[i].by = "engine"
            /\ queue'[i] \in Moves(Producers)
  <2>1. queue[i] \in Moves(Producers)
    BY <1>1
  <2>2. queue'[i] = [queue[i] EXCEPT !.old = queue[i].old \/ queue[i].by = "engine"]
    BY <1>2
  <2>3. (queue[i].old \/ queue[i].by = "engine") \in BOOLEAN
    BY Zenon
  <2>q. QED
    BY <2>1, <2>2, <2>3 DEF Moves
<1>4. queue' \in Seq(Moves(Producers)) /\ Len(queue') = Len(queue)
  <2>1. queue' \in [1 .. Len(queue) -> Moves(Producers)]
    BY <1>1, <1>3 DEF Outdate
  <2>q. QED
    BY <1>1, <2>1
<1>5. ServoTypes(Producers)'
  BY <1>4
<1>6. HandFits' /\ GoalFits' /\ LastMoveWins'
  BY <1>1, <1>2, <1>3, <1>4 DEF HandFits, GoalFits, LastMoveWins, AtRest, Empty
<1>7. (OfEngine' => OfEngine) /\ (Old' => Old \/ OfEngine)
  BY <1>2, <1>3 DEF OfEngine, Old
<1>q. QED
  BY <1>5, <1>6, <1>7

\* The servo task takes a move, reads the generation, steps, arrives or gives up.
LEMMA ServoTaskKeeps ==
  ASSUME ServoInv, ServoTask
  PROVE ServoInv' /\ (OfEngine' => OfEngine) /\ (Old' => Old)
<1> USE DEF ServoInv, ServoTypes
<1>1. CASE Receive
  <2>1. /\ queue \in Seq(Moves(Producers)) /\ queue' = Tail(queue) /\ queue # <<>>
        /\ Len(queue) \in Nat
        /\ ~hand.busy /\ hand' = [busy |-> TRUE, to |-> Head(queue).to, gen |-> "unread"]
        /\ UNCHANGED <<pose, goal>>
    BY <1>1 DEF Receive
  <2>2. /\ queue' \in Seq(Moves(Producers)) /\ Len(queue') = Len(queue) - 1
        /\ Head(queue) = queue[1] /\ Head(queue) \in Moves(Producers)
        /\ queue' # <<>> => queue'[Len(queue) - 1] = queue[Len(queue)]
        /\ queue' = <<>> => Len(queue) = 1
        /\ \A i \in DOMAIN queue' : i + 1 \in DOMAIN queue /\ queue'[i] = queue[i + 1]
    BY <2>1, Popped
  <2>3. Head(queue).to \in Poses
    BY <2>2 DEF Moves
  <2>4. ServoTypes(Producers)'
    BY <2>1, <2>2, <2>3, ServoAssumption, PoseNames
  <2>5. HandFits' /\ GoalFits' /\ LastMoveWins'
    BY <2>1, <2>2 DEF HandFits, GoalFits, LastMoveWins, AtRest, Empty
  <2>q. QED
    BY <2>2, <2>4, <2>5 DEF OfEngine, Old
<1>2. CASE ReadGeneration \/ Step \/ Reach \/ Abort
  <2> USE DEF ReadGeneration, Step, Reach, Abort, Empty
  <2>1. ServoTypes(Producers)'
    <3>1. CASE ReadGeneration
      <4>1. hand = [busy |-> hand.busy, to |-> hand.to, gen |-> hand.gen]
        OBVIOUS
      <4>2. hand' = [busy |-> hand.busy, to |-> hand.to, gen |-> "same"]
        BY <3>1, <4>1
      <4>q. QED
        BY <3>1, <4>2
    <3>2. CASE Step
      BY <3>2
    <3>3. CASE Reach \/ Abort
      <4>1. hand.gen # "unread" => hand.busy
        BY DEF HandFits
      <4>2. hand' = [busy |-> FALSE, to |-> Anywhere, gen |-> "unread"]
        BY <3>3
      <4>3. hand' \in [busy : BOOLEAN, to : Poses \cup {Anywhere},
                     gen : {"unread", "same", "changed"}]
        BY <4>2
      <4>4. ~hand'.busy /\ hand'.to = Anywhere
        BY <4>2
      <4>5. pose' \in Poses \cup {Between}
        BY <3>3, <4>1
      <4>q. QED
        BY <3>3, <4>3, <4>4, <4>5
    <3>q. QED
      BY <1>2, <3>1, <3>2, <3>3
  <2>2. HandFits' /\ GoalFits' /\ LastMoveWins'
    BY <1>2, SMT DEF HandFits, GoalFits, LastMoveWins, AtRest
  <2>q. QED
    BY <1>2, <2>1, <2>2 DEF OfEngine, Old
<1>q. QED
  BY <1>1, <1>2 DEF ServoTask

\* A step of another part
LEMMA ServoRests ==
  ASSUME ServoInv, UNCHANGED servoVars
  PROVE ServoInv' /\ (OfEngine' => OfEngine) /\ (Old' => Old)
<1> USE DEF servoVars
<1>1. ServoInv'
  BY DEF ServoInv, ServoTypes, HandFits, GoalFits, LastMoveWins, AtRest, Empty
<1>q. QED
  BY <1>1 DEF OfEngine, Old

-----------------------------------------------------------------------------
(* The steps *)

\* What a step leaves alone that neither moves the engine's timeline nor a flag
LEMMA TimelineRests ==
  ASSUME TimelineTypes, Flags,
         UNCHANGED <<cur, act, stateAge, actionAge, then, nextMotion, nextAction, world, waits>>
  PROVE TimelineTypes' /\ Flags'
  BY DEF TimelineTypes, Flags, State, Action, world

\* One step of giving a move to the servo, or of cancelling moves
LEMMA CallsKeep ==
  ASSUME Inv, NEW p \in Producers, Calls(p)
  PROVE Inv'
<1> USE DEF Inv
<1>1. TimelineTypes' /\ Flags'
  <2>1. UNCHANGED <<engine, world>>
    BY DEF Calls, Give, GiveFull, MakeRoom, GiveUp, CancelBegin, CancelDrop, CancelEnd
  <2>q. QED
    BY <2>1, TimelineRests DEF engine, world
<1>2. CASE Give(p)
  <2>1. /\ pc[p] \in {"send", "resend"} /\ pc' = [pc EXCEPT ![p] = Given(p)]
        /\ out' = [out EXCEPT ![p] = Anywhere]
        /\ UNCHANGED <<todo, lock, cur>> /\ Queue(Move(p))
    BY <1>2 DEF Give, Goto, engine
  <2>2. out[p] \in Poses /\ (p = "engine" => cur # None)
    BY <2>1 DEF TasksFit, Giving, Producers, Manual
  <2>3. Move(p) \in Moves(Producers) /\ Move(p).by = p /\ ~Move(p).old
    BY <2>2 DEF Move, Moves
  <2>4. ServoInv' /\ (OfEngine' => OfEngine \/ p = "engine") /\ (Old' => Old)
    BY <2>1, <2>3, QueueKeeps
  <2>5. EngineTypes' /\ TasksFit'
    BY <2>1, SMT DEF EngineTypes, TasksFit, Given, Giving, Producers, Manual, Pcs, LockedPc
  <2>6. QueueFits'
    BY <2>1, <2>2, <2>4, SMT DEF QueueFits, EngineMoves, Cancelling, Given, Producers, Manual,
       TasksFit, Pcs
  <2>q. QED
    BY <1>1, <2>4, <2>5, <2>6
<1>3. CASE GiveFull(p) \/ GiveUp(p)
  <2>1. /\ UNCHANGED <<todo, lock, cur, servoVars>>
        /\ \/ pc[p] = "send" /\ pc' = [pc EXCEPT ![p] = "room"] /\ out' = out
           \/ /\ pc[p] = "resend" /\ pc' = [pc EXCEPT ![p] = Given(p)]
              /\ out' = [out EXCEPT ![p] = Anywhere]
    BY <1>3 DEF GiveFull, GiveUp, Goto, engine
  <2>4. ServoInv' /\ (OfEngine' => OfEngine) /\ (Old' => Old)
    BY <2>1, ServoRests
  <2>5. EngineTypes' /\ TasksFit'
    BY <2>1, SMT DEF EngineTypes, TasksFit, Given, Giving, Producers, Manual, Pcs, LockedPc
  <2>6. QueueFits'
    BY <2>1, <2>4, SMT DEF QueueFits, EngineMoves, Cancelling, Given, Producers, Manual,
       TasksFit, Pcs
  <2>q. QED
    BY <1>1, <2>4, <2>5, <2>6
<1>4. CASE MakeRoom(p)
  <2>1. /\ UNCHANGED <<todo, lock, cur, out>> /\ (DropOldest \/ UNCHANGED servoVars)
        /\ pc[p] = "room" /\ pc' = [pc EXCEPT ![p] = "resend"]
    BY <1>4 DEF MakeRoom, Goto, engine
  <2>4. ServoInv' /\ (OfEngine' => OfEngine) /\ (Old' => Old)
    BY <2>1, ServoRests, DropKeeps
  <2>5. EngineTypes' /\ TasksFit'
    BY <2>1, SMT DEF EngineTypes, TasksFit, Giving, Producers, Manual, Pcs, LockedPc
  <2>6. QueueFits'
    BY <2>1, <2>4, SMT DEF QueueFits, EngineMoves, Cancelling, Producers, Manual, TasksFit, Pcs
  <2>q. QED
    BY <1>1, <2>4, <2>5, <2>6
<1>5. CASE CancelBegin(p)
  <2>1. /\ UNCHANGED <<todo, lock, cur, out>> /\ AdvanceGeneration
        /\ pc[p] = "cancel" /\ pc' = [pc EXCEPT ![p] = "drain"]
    BY <1>5 DEF CancelBegin, Goto, engine
  <2>4. ServoInv' /\ (OfEngine' => OfEngine) /\ (Old' => Old)
    BY <2>1, AdvanceKeeps
  <2>5. EngineTypes' /\ TasksFit'
    BY <2>1, SMT DEF EngineTypes, TasksFit, Giving, Producers, Manual, Pcs, LockedPc
  <2>6. QueueFits'
    BY <2>1, <2>4, SMT DEF QueueFits, EngineMoves, Cancelling, Producers, Manual, TasksFit, Pcs
  <2>q. QED
    BY <1>1, <2>4, <2>5, <2>6
<1>6. CASE CancelDrop(p)
  <2>1. UNCHANGED <<todo, lock, cur, out, pc>> /\ DropOldest
    BY <1>6 DEF CancelDrop, Goto, engine
  <2>4. ServoInv' /\ (OfEngine' => OfEngine) /\ (Old' => Old)
    BY <2>1, DropKeeps
  <2>5. EngineTypes' /\ TasksFit'
    BY <2>1, SMT DEF EngineTypes, TasksFit
  <2>6. QueueFits'
    BY <2>1, <2>4, SMT DEF QueueFits, EngineMoves, Cancelling
  <2>q. QED
    BY <1>1, <2>4, <2>5, <2>6
\* The queue is empty at the end: nothing is left that is old, or the engine's.
<1>7. CASE CancelEnd(p)
  <2>1. /\ UNCHANGED <<cur, out, servoVars>> /\ pc[p] = "drain" /\ queue = <<>> /\ queue' = <<>>
        /\ \/ p = "engine" /\ pc' = [pc EXCEPT ![p] = "switch"] /\ UNCHANGED <<todo, lock>>
           \/ /\ p # "engine" /\ lock' = "free" /\ todo' = [todo EXCEPT ![p] = todo[p] - 1]
              /\ pc' = [pc EXCEPT ![p] = IF todo[p] = 1 THEN "send" ELSE "interrupt"]
    BY <1>7 DEF CancelEnd, Goto, engine, Interrupted, servoVars
  <2>4. ServoInv'
    BY <2>1, ServoRests
  <2>5. EngineTypes' /\ TasksFit'
    BY <2>1, SMT DEF EngineTypes, TasksFit, Giving, Producers, Manual, Pcs, LockedPc
  <2>6. QueueFits'
    BY <2>1 DEF QueueFits, EngineMoves, OfEngine, Old
  <2>q. QED
    BY <1>1, <2>4, <2>5, <2>6
<1>q. QED
  BY <1>2, <1>3, <1>4, <1>5, <1>6, <1>7 DEF Calls

\* A command by BLE or WebSocket, and its interruption of the engine
LEMMA ManualKeeps ==
  ASSUME Inv, NEW p \in Manual, Submit(p) \/ InterruptNothing(p) \/ Interrupt(p)
  PROVE Inv'
<1> USE DEF Inv
<1>1. CASE Submit(p)
  <2>1. /\ UNCHANGED <<servoVars, lock, cur, act, stateAge, actionAge, then, nextMotion,
                        nextAction, waits, sounding, asks>>
        /\ manuals < MaxManual /\ manuals' = manuals + 1 /\ pc[p] = "idle"
        /\ pc' = [pc EXCEPT ![p] = "interrupt"]
        /\ todo' = [todo EXCEPT ![p] = IF p = "ble" THEN 2 ELSE 1]
    BY <1>1 DEF Submit, Goto, engine
  <2>2. PICK to \in Poses : out' = [out EXCEPT ![p] = to]
    BY <1>1 DEF Submit
  <2>3. ServoInv' /\ (OfEngine' => OfEngine) /\ (Old' => Old)
    BY <2>1, ServoRests
  <2>4. TimelineTypes' /\ Flags'
    BY <2>1, MotionBounds, SMT DEF TimelineTypes, Flags, State, Action
  <2>5. EngineTypes' /\ TasksFit'
    BY <2>1, <2>2, SMT DEF EngineTypes, TasksFit, Giving, Producers, Manual, Pcs, LockedPc
  <2>6. QueueFits'
    BY <2>1, <2>3, SMT DEF QueueFits, EngineMoves, Cancelling, Producers, Manual, TasksFit, Pcs
  <2>q. QED
    BY <2>3, <2>4, <2>5, <2>6
<1>2. CASE InterruptNothing(p)
  <2>1. /\ UNCHANGED <<servoVars, out, lock, engine, world>>
        /\ pc[p] = "interrupt" /\ todo' = [todo EXCEPT ![p] = todo[p] - 1]
        /\ pc' = [pc EXCEPT ![p] = IF todo[p] = 1 THEN "send" ELSE "interrupt"]
    BY <1>2 DEF InterruptNothing, Goto, Interrupted
  <2>3. ServoInv' /\ (OfEngine' => OfEngine) /\ (Old' => Old)
    BY <2>1, ServoRests
  <2>4. TimelineTypes' /\ Flags'
    BY <2>1, TimelineRests DEF engine
  <2>5. EngineTypes' /\ TasksFit'
    BY <2>1, SMT DEF EngineTypes, TasksFit, Giving, Producers, Manual, Pcs, LockedPc, engine
  <2>6. QueueFits'
    BY <2>1, <2>3, SMT DEF QueueFits, EngineMoves, Cancelling, Producers, Manual, TasksFit, Pcs,
       engine
  <2>q. QED
    BY <2>3, <2>4, <2>5, <2>6
<1>3. CASE Interrupt(p)
  <2>1. /\ UNCHANGED <<out, todo, cur, then, stateAge, nextMotion, waits, world>>
        /\ Outdate /\ UNCHANGED <<hand, pose, goal>>
        /\ act' = None /\ nextAction' = 1 /\ actionAge' = 0
        /\ pc[p] = "interrupt" /\ lock = "free" /\ lock' = p
        /\ pc' = [pc EXCEPT ![p] = "cancel"]
    BY <1>3 DEF Interrupt, Goto
  <2>3. ServoInv' /\ (OfEngine' => OfEngine)
    BY <2>1, OutdateKeeps
  <2>4. TimelineTypes' /\ Flags'
    BY <2>1, MotionBounds, SMT DEF TimelineTypes, Flags, State, Action, world
  <2>5. EngineTypes' /\ TasksFit'
    BY <2>1, SMT DEF EngineTypes, TasksFit, Giving, Producers, Manual, Pcs, LockedPc
  <2>6. QueueFits'
    BY <2>1, <2>3, SMT DEF QueueFits, EngineMoves, Cancelling, Producers, Manual, TasksFit, Pcs
  <2>q. QED
    BY <2>3, <2>4, <2>5, <2>6
<1>q. QED
  BY <1>1, <1>2, <1>3

\* The steps of the behaviour task that leave the servo alone
Quiet == TakeRequest \/ Lock \/ LoopAction \/ RestartState \/ FallBack \/ Unlock

LEMMA QuietKeeps ==
  ASSUME Inv, Quiet
  PROVE Inv'
<1> USE DEF Inv
<1>1. ServoInv' /\ (OfEngine' => OfEngine) /\ (Old' => Old)
  <2>1. UNCHANGED servoVars
    BY DEF Quiet, TakeRequest, Lock, LoopAction, RestartState, FallBack, Unlock
  <2>q. QED
    BY <2>1, ServoRests
\* Where they go, and what that takes
<1>2. /\ UNCHANGED <<out, todo, cur, act>>
      /\ \/ pc["engine"] = "sleep" /\ pc' = [pc EXCEPT !["engine"] = "lock"] /\ UNCHANGED lock
         \/ /\ pc["engine"] = "lock" /\ lock = "free" /\ lock' = "engine"
            /\ \E l \in {"events", "cancel", "switch"} :
                  /\ pc' = [pc EXCEPT !["engine"] = l]
                  /\ l = "switch" => cur = None
         \/ pc["engine"] = "events" /\ UNCHANGED <<pc, lock>>
         \/ pc["engine"] = "events" /\ lock' = "free" /\ pc' = [pc EXCEPT !["engine"] = "sleep"]
         \/ /\ pc["engine"] = "events" /\ cur # None /\ UNCHANGED lock
            /\ \E l \in {"events", "cancel"} : pc' = [pc EXCEPT !["engine"] = l]
  BY SMT DEF Quiet, TakeRequest, Lock, LoopAction, RestartState, FallBack, Unlock, Schedule,
     Goto, engine, Dispatched
<1>3. EngineTypes' /\ TasksFit'
  BY <1>2, SMT DEF EngineTypes, TasksFit, Giving, Producers, Manual, Pcs, LockedPc
<1>4. QueueFits'
  BY <1>1, <1>2, SMT DEF QueueFits, EngineMoves, Cancelling, Producers, Manual, TasksFit, Pcs
<1>5. Flags'
  <2>1. /\ waits' = waits \/ waits' = TRUE
        /\ sounding' = sounding \/ sounding' = TRUE
    BY DEF Quiet, TakeRequest, Lock, LoopAction, RestartState, FallBack, Unlock, Schedule,
       engine, world
  <2>q. QED
    BY <2>1 DEF Flags
<1>6. TimelineTypes'
  <2>1. /\ UNCHANGED <<cur, act, asks, manuals>>
        /\ then' \in {then, "loop", "repeat", "done"}
        /\ \/ UNCHANGED <<stateAge, nextMotion>>
           \/ stateAge' = 0 /\ nextMotion' = 1
        /\ \/ UNCHANGED <<actionAge, nextAction>>
           \/ actionAge' = 0 /\ nextAction' = 1
    BY DEF Quiet, TakeRequest, Lock, LoopAction, RestartState, FallBack, Unlock, engine, world
  <2>q. QED
    BY <2>1, MotionBounds, CatalogAssumption, SMT DEF TimelineTypes, State, Action
<1>q. QED
  BY <1>1, <1>3, <1>4, <1>5, <1>6

\* The engine takes up a state.
LEMMA SwitchKeeps ==
  ASSUME Inv, Switch
  PROVE Inv'
<1> USE DEF Inv
<1>1. /\ pc["engine"] = "switch" /\ pc' = [pc EXCEPT !["engine"] = "events"]
      /\ Outdate /\ UNCHANGED <<hand, pose, goal, out, todo, lock, then, asks, manuals>>
      /\ stateAge' = 0 /\ actionAge' = 0 /\ nextMotion' = 1 /\ nextAction' = 1
      /\ cur' \in DOMAIN States \cup {None} /\ act' \in DOMAIN Actions \cup {None}
  BY DEF Switch, Goto, ActionOf
<1>2. ServoInv' /\ (OfEngine' => OfEngine) /\ (Old' => Old \/ OfEngine)
  BY <1>1, OutdateKeeps
<1>3. EngineTypes' /\ TasksFit'
  BY <1>1, SMT DEF EngineTypes, TasksFit, Giving, Producers, Manual, Pcs, LockedPc
<1>4. QueueFits'
  BY <1>1, <1>2, SMT DEF QueueFits, EngineMoves, Cancelling, Producers, Manual, TasksFit, Pcs
<1>5. Flags'
  <2>1. waits' \in BOOLEAN /\ (sounding' = TRUE \/ UNCHANGED sounding)
    BY Zenon DEF Switch
  <2>q. QED
    BY <2>1 DEF Flags
<1>6. TimelineTypes'
  BY <1>1, MotionBounds, CatalogAssumption, SMT DEF TimelineTypes, State, Action
<1>q. QED
  BY <1>2, <1>3, <1>4, <1>5, <1>6

\* The engine gives a move that is due.
LEMMA DispatchKeeps ==
  ASSUME Inv, DispatchMotion \/ DispatchAction
  PROVE Inv'
<1> USE DEF Inv
<1>1. /\ pc["engine"] = "events" /\ cur # None
      /\ UNCHANGED <<todo, lock, then, cur, act, stateAge, actionAge, waits, world>>
      /\ \E e \in Events : Dispatch(e)
  <2>1. CASE DispatchMotion
    <3>1. cur \in DOMAIN States /\ nextMotion \in 1 .. Len(State.motion)
      BY <2>1, CatalogAssumption, SMT DEF DispatchMotion, MotionDue, TimelineTypes, State
    <3>2. State.motion[nextMotion] \in Events
      BY <3>1, CatalogAssumption DEF State
    <3>q. QED
      BY <2>1, <3>2 DEF DispatchMotion
  <2>2. CASE DispatchAction
    <3>1. act \in DOMAIN Actions /\ nextAction \in 1 .. Len(Action.motion)
      BY <2>2, CatalogAssumption, SMT DEF DispatchAction, ActionDue, TimelineTypes, Action
    <3>2. Action.motion[nextAction] \in Events
      BY <3>1, CatalogAssumption DEF Action
    <3>q. QED
      BY <2>2, <3>2 DEF DispatchAction
  <2>q. QED
    BY <2>1, <2>2
<1>2. PICK e \in Events : Dispatch(e)
  BY <1>1
<1>3. e.to \in Poses
  BY DEF Events
<1>4. \/ SetAngle(e.to) /\ UNCHANGED <<pc, out>>
      \/ /\ pc' = [pc EXCEPT !["engine"] = "send"] /\ out' = [out EXCEPT !["engine"] = e.to]
         /\ UNCHANGED servoVars
  BY <1>2 DEF Dispatch, Goto
<1>5. ServoInv' /\ (OfEngine' => OfEngine) /\ (Old' => Old)
  BY <1>3, <1>4, AngleKeeps, ServoRests
<1>6. EngineTypes' /\ TasksFit'
  BY <1>1, <1>3, <1>4, SMT DEF EngineTypes, TasksFit, Giving, Producers, Manual, Pcs, LockedPc
<1>7. QueueFits'
  BY <1>1, <1>4, <1>5, SMT DEF QueueFits, EngineMoves, Cancelling, Producers, Manual, TasksFit,
     Pcs
<1>8. TimelineTypes' /\ Flags'
  <2>1. Flags'
    BY <1>1 DEF Flags, world
  <2>2. CASE DispatchMotion
    <3>1. /\ nextMotion <= Len(State.motion) /\ nextMotion' = nextMotion + 1
          /\ nextAction' = nextAction
          /\ cur # None /\ UNCHANGED <<cur, act, then, stateAge, actionAge, asks, manuals>>
      BY <1>1, <2>2 DEF DispatchMotion, MotionDue, world
    <3>2. Len(State.motion) \in Nat
      BY <3>1, CatalogAssumption DEF TimelineTypes, State
    <3>3. TimelineTypes'
      BY <3>1, <3>2, SMT DEF TimelineTypes, State, Action
    <3>q. QED
      BY <2>1, <3>3
  <2>3. CASE DispatchAction
    <3>1. /\ nextAction <= Len(Action.motion) /\ nextAction' = nextAction + 1
          /\ nextMotion' = nextMotion
          /\ act # None /\ UNCHANGED <<cur, act, then, stateAge, actionAge, asks, manuals>>
      BY <1>1, <2>3 DEF DispatchAction, ActionDue, world
    <3>2. Len(Action.motion) \in Nat
      BY <3>1, CatalogAssumption DEF TimelineTypes, Action
    <3>3. TimelineTypes'
      BY <3>1, <3>2, SMT DEF TimelineTypes, State, Action
    <3>q. QED
      BY <2>1, <3>3
  <2>q. QED
    BY <2>1, <2>2, <2>3
<1>q. QED
  BY <1>5, <1>6, <1>7, <1>8

\* Requests, time, the sound and the servo's own steps
LEMMA WorldKeeps ==
  ASSUME Inv, Ask \/ ApplyStatus \/ Pass \/ SoundEnds \/ ServoRuns \/ UNCHANGED vars
  PROVE Inv'
<1> USE DEF Inv
<1>1. UNCHANGED <<pc, out, todo, lock, cur, act, then, nextMotion, nextAction>>
      /\ (ServoTask \/ UNCHANGED servoVars)
  BY DEF Ask, ApplyStatus, Pass, SoundEnds, ServoRuns, vars, engine
<1>2. ServoInv' /\ (OfEngine' => OfEngine) /\ (Old' => Old)
  BY <1>1, ServoTaskKeeps, ServoRests
<1>3. EngineTypes' /\ TasksFit'
  BY <1>1 DEF EngineTypes, TasksFit
<1>4. QueueFits'
  BY <1>1, <1>2 DEF QueueFits, EngineMoves, Cancelling
<1>5. TimelineTypes'
  BY <1>1, MotionBounds, SMT DEF Ask, ApplyStatus, Pass, SoundEnds, ServoRuns, vars, engine,
     world, TimelineTypes, State, Action
<1>6. Flags'
  <2>1. UNCHANGED waits /\ (sounding' \in BOOLEAN \/ UNCHANGED sounding)
    <3>1. CASE SoundEnds
      BY <3>1, Zenon DEF SoundEnds, engine
    <3>2. CASE Ask \/ ApplyStatus \/ Pass \/ ServoRuns \/ UNCHANGED vars
      BY <3>2 DEF Ask, ApplyStatus, Pass, ServoRuns, vars, engine, world
    <3>q. QED
      BY <3>1, <3>2
  <2>q. QED
    BY <2>1 DEF Flags
<1>q. QED
  BY <1>2, <1>3, <1>4, <1>5, <1>6

\* The start
LEMMA InitInv == ASSUME Init PROVE Inv
<1> USE DEF Init, ServoInit
<1>1. ServoInv
  BY ServoAssumption, PoseNames DEF ServoInv, ServoTypes, HandFits, GoalFits, LastMoveWins,
     AtRest, Empty
<1>2. EngineTypes /\ TasksFit
  BY DEF EngineTypes, TasksFit, Giving, Producers, Manual, Pcs, LockedPc
<1>3. TimelineTypes
  BY MotionBounds DEF TimelineTypes
<1>4. Flags
  BY Zenon DEF Flags
<1>5. QueueFits
  BY DEF QueueFits, EngineMoves, OfEngine, Old
<1>q. QED
  BY <1>1, <1>2, <1>3, <1>4, <1>5 DEF Inv

(***************************************************************************)
(* The servo, its queue, the tasks that hold the lock of the engine and    *)
(* the engine's own timeline fit together in every behaviour.              *)
(***************************************************************************)
THEOREM Invariant == Spec => []Inv
<1>1. Init => Inv
  BY InitInv
<1>2. Inv /\ [Next]_vars => Inv'
  <2> SUFFICES ASSUME Inv, [Next]_vars PROVE Inv'
    OBVIOUS
  <2>1. CASE Engine
    BY <2>1, QuietKeeps, SwitchKeeps, DispatchKeeps, CallsKeep DEF Engine, Quiet, Producers
  <2>2. CASE \E p \in Manual : Submit(p) \/ MoveBy(p)
    BY <2>2, ManualKeeps, CallsKeep DEF MoveBy, Producers
  <2>3. CASE Ask \/ ApplyStatus \/ Pass \/ SoundEnds \/ ServoRuns \/ UNCHANGED vars
    BY <2>3, WorldKeeps
  <2>q. QED
    BY <2>1, <2>2, <2>3 DEF Next
<1>q. QED
  BY <1>1, <1>2, PTL DEF Spec

(***************************************************************************)
(* Every variable keeps its type.                                          *)
(***************************************************************************)
THEOREM TypeCorrect == Spec => []TypeOK
<1>1. Inv => TypeOK
  BY DEF Inv, ServoInv, EngineTypes, TasksFit, TimelineTypes, Flags, TypeOK
<1>q. QED
  BY <1>1, Invariant, PTL

(***************************************************************************)
(* When the head rests it is where the move that was given last leads,     *)
(* unless that move was cancelled or made at once over another; and no     *)
(* move the engine had queued when it was interrupted, or went on to       *)
(* another state, is still queued when the cancellation is over, although  *)
(* the other tasks queue and drop moves meanwhile without the lock.        *)
(***************************************************************************)
THEOREM InOrder == Spec => []MovesInOrder
<1>1. Inv => MovesInOrder
  BY DEF Inv, ServoInv, QueueFits, Old, Cancelling, MovesInOrder, FreshQueue
<1>q. QED
  BY <1>1, Invariant, PTL

-----------------------------------------------------------------------------
(* The pulse of an angle *)

\* p - 1500 is 1000 * (a - 90) / 90 rounded to the nearest whole number.
NearPulse(p, a) ==
    /\ p \in 500 .. 2500
    /\ 90 * (p - 1500) - 1000 * (a - 90) <= 45
    /\ -45 <= 90 * (p - 1500) - 1000 * (a - 90)

\* d is 16384 * p / 20000 rounded to the nearest whole number.
NearDuty(d, p) ==
    /\ d \in Int
    /\ 20000 * d - 16384 * p <= 10000
    /\ -10000 <= 20000 * d - 16384 * p

DutyRange == 410 .. 2048

\* Within the range of angles the pulse is the exact one rounded to the nearest microsecond:
\* the limits of logical_angle_to_pulse_width_us cut nothing.
LEMMA PulseNearest ==
    ASSUME NEW a \in 0 .. 180
    PROVE  NearPulse(PulseWidth(a), a)
<1> DEFINE n == (a - 90) * 1000
           w == Nearest(n, 90)
<1>1. w \in Int /\ 90 * w - n <= 45 /\ -45 <= 90 * w - n
  <2>1. CASE n >= 0
    <3>1. w = (n + 45) \div 90
      BY <2>1 DEF Nearest
    <3> QED
      BY <3>1
  <2>2. CASE n < 0
    <3>1. w = -((45 - n) \div 90)
      BY <2>2 DEF Nearest
    <3> QED
      BY <3>1
  <2> QED
    BY <2>1, <2>2
<1>2. PulseWidth(a) = Limited(1500 + w, 500, 2500)
  <2>1. Relative(a) = a - 90
    BY DEF Relative, Limited, Neutral
  <2> QED
    BY <2>1 DEF PulseWidth, MinPulse, MaxPulse, NeutralPulse, Neutral
<1>3. n \in Int /\ n = 1000 * (a - 90) /\ n <= 90000 /\ -90000 <= n
  OBVIOUS
<1> HIDE DEF n, w
<1>4. w <= 1000 /\ -1000 <= w
  BY <1>1, <1>3
<1>5. PulseWidth(a) = 1500 + w
  BY <1>1, <1>2, <1>4 DEF Limited
<1> QED
  BY <1>1, <1>3, <1>4, <1>5 DEF NearPulse

\* The duty cycle is the exact one rounded to the nearest count.
LEMMA DutyNearest ==
    ASSUME NEW a, NEW p, NearPulse(p, a)
    PROVE  NearDuty(Duty(p), p)
<1> p \in 500 .. 2500
  BY DEF NearPulse
<1>1. Duty(p) = (p * 16384 + 10000) \div 20000
  BY DEF Duty, Limited, Nearest, MinPulse, MaxPulse, Resolution, Period
<1> DEFINE n == p * 16384
<1>2. n \in Int /\ n = 16384 * p /\ Duty(p) = (n + 10000) \div 20000
  BY <1>1
<1> HIDE DEF n
<1> QED
  BY <1>2 DEF NearDuty

LEMMA DutyOrder ==
    ASSUME NEW a \in 0 .. 180, NEW b \in 0 .. 180, a < b, NEW p, NEW q, NearPulse(p, a),
           NearPulse(q, b), NEW x, NEW y, NearDuty(x, p), NearDuty(y, q)
    PROVE  x < y
<1>1. p \in Int /\ q \in Int /\ q - p >= 10
  BY DEF NearPulse
<1>2. x \in Int /\ 40000 * x <= 32768 * p + 20000
  BY <1>1 DEF NearDuty
<1>3. y \in Int /\ 32768 * q <= 40000 * y + 20000
  BY <1>1 DEF NearDuty
<1> QED
  BY <1>1, <1>2, <1>3

LEMMA DutyBounds ==
    ASSUME NEW a, NEW p, NearPulse(p, a), NEW x, NearDuty(x, p)
    PROVE  x \in DutyRange
<1>1. p \in 500 .. 2500
  BY DEF NearPulse
<1>2. x \in Int /\ 40000 * x <= 32768 * p + 20000 /\ 32768 * p <= 40000 * x + 20000
  BY <1>1 DEF NearDuty
<1>3. 32768 * p <= 81920000 /\ 16384000 <= 32768 * p
  BY <1>1, Z3
<1>4. x <= 2048 /\ 410 <= x
  BY <1>1, <1>2, <1>3, Z3
<1> QED
  BY <1>2, <1>4 DEF DutyRange

LEMMA AngleNearest ==
    ASSUME NEW a \in 0 .. 180
    PROVE  \E p : NearPulse(p, a) /\ NearDuty(AngleDuty(a), p)
<1>1. NearPulse(PulseWidth(a), a)
  BY PulseNearest
<1>2. NearDuty(Duty(PulseWidth(a)), PulseWidth(a))
  BY <1>1, DutyNearest, Zenon
<1> QED
  BY <1>1, <1>2 DEF AngleDuty

\* The 14 bits of the timer tell any two degrees apart, and a larger angle has a larger duty
\* cycle: a smooth move never stalls on a degree.
THEOREM DutyIncreases ==
    \A a, b \in 0 .. 180 : a < b => AngleDuty(a) < AngleDuty(b)
<1> SUFFICES ASSUME NEW a \in 0 .. 180, NEW b \in 0 .. 180, a < b
             PROVE  AngleDuty(a) < AngleDuty(b)
  OBVIOUS
<1>1. PICK p : NearPulse(p, a) /\ NearDuty(AngleDuty(a), p)
  BY AngleNearest, Zenon
<1>2. PICK q : NearPulse(q, b) /\ NearDuty(AngleDuty(b), q)
  BY AngleNearest, Zenon
<1> QED
  BY <1>1, <1>2, DutyOrder, Zenon

\* No angle, not even one out of range, drives the servo past its stops.
THEOREM DutyInRange ==
    \A a \in Int : AngleDuty(a) \in DutyRange
<1> SUFFICES ASSUME NEW a \in Int PROVE AngleDuty(a) \in DutyRange
  OBVIOUS
<1> DEFINE c == Limited(a, 0, 180)
<1>1. c \in 0 .. 180 /\ Limited(c, 0, 180) = c
  BY DEF Limited
<1>2. AngleDuty(a) = AngleDuty(c)
  <2>1. Relative(c) = Relative(a)
    BY <1>1, Zenon DEF Relative
  <2>2. PulseWidth(c) = PulseWidth(a)
    BY <2>1 DEF PulseWidth
  <2> QED
    BY <2>2 DEF AngleDuty
<1>3. PICK p : NearPulse(p, c) /\ NearDuty(AngleDuty(c), p)
  BY <1>1, AngleNearest, Zenon
<1> QED
  BY <1>2, <1>3, DutyBounds, Zenon

-----------------------------------------------------------------------------
(* Smooth moves *)

LEMMA Products ==
    ASSUME NEW n \in Nat \ {0}, NEW x \in Int, NEW y \in Int, x * n < y * n
    PROVE  x < y
<1> SUFFICES ASSUME x >= y PROVE FALSE
  OBVIOUS
<1>1. (x - y) * n >= 0
  OBVIOUS
<1>2. (x - y) * n = x * n - y * n
  OBVIOUS
<1>3. x * n \in Int /\ y * n \in Int
  OBVIOUS
<1> QED
  BY <1>1, <1>2, <1>3

LEMMA NoStepBack ==
    ASSUME NEW n \in Nat \ {0}, NEW d \in Nat \ {0}, NEW i \in Nat, NEW x \in Int, NEW y \in Int,
           x * n <= d * i, d * (i + 1) <= (y + 1) * n
    PROVE  x <= y
<1>1. d * i < d * (i + 1)
  <2>1. d * (i + 1) = d * i + d /\ d * i \in Int
    OBVIOUS
  <2> QED
    BY <2>1
<1>2. /\ x * n \in Int /\ (y + 1) * n \in Int
      /\ d * i \in Int /\ d * (i + 1) \in Int
  OBVIOUS
<1>3. x * n < (y + 1) * n
  BY <1>1, <1>2
<1>4. y + 1 \in Int
  OBVIOUS
<1>5. x < y + 1
  BY <1>3, <1>4, Products
<1> QED
  BY <1>5

\* A smooth move never turns back on its way, whatever the rounding of its steps: the angle at
\* a step is never behind the one at the step before.
THEOREM NoReversal ==
    ASSUME NEW s \in Int, NEW t \in Int, NEW n \in Nat \ {0}, NEW i \in 1 .. n - 1,
           NEW a \in StepAngles(s, t, n, i), NEW b \in StepAngles(s, t, n, i + 1)
    PROVE  /\ s <= t => a <= b
           /\ t <= s => b <= a
<1>1. CASE s = t
  <2>1. a = t /\ b = t
    BY <1>1 DEF StepAngles
  <2> QED
    BY <2>1
<1>2. CASE s < t
  <2>1. /\ a \in s .. t
        /\ (a - s) * n <= (t - s) * i
    BY <1>2 DEF StepAngles
  <2>2. CASE i + 1 = n
    <3>1. b = t
      BY <2>2 DEF StepAngles
    <3> QED
      BY <2>1, <3>1, <1>2
  <2>3. CASE i + 1 # n
    <3>1. /\ b \in s .. t
          /\ (t - s) * (i + 1) <= (b - s + 1) * n
      BY <1>2, <2>3 DEF StepAngles
    <3>2. t - s \in Nat \ {0} /\ i \in Nat /\ a - s \in Int /\ b - s \in Int
      BY <1>2, <2>1, <3>1
    <3>3. a - s <= b - s
      BY <2>1, <3>1, <3>2, NoStepBack
    <3> QED
      BY <1>2, <2>1, <3>1, <3>3
  <2> QED
    BY <2>2, <2>3
<1>3. CASE t < s
  <2>1. /\ a \in t .. s
        /\ (s - a) * n <= (s - t) * i
    BY <1>3 DEF StepAngles
  <2>2. CASE i + 1 = n
    <3>1. b = t
      BY <2>2 DEF StepAngles
    <3> QED
      BY <2>1, <3>1, <1>3
  <2>3. CASE i + 1 # n
    <3>1. /\ b \in t .. s
          /\ (s - t) * (i + 1) <= (s - b + 1) * n
      BY <1>3, <2>3 DEF StepAngles
    <3>2. s - t \in Nat \ {0} /\ i \in Nat /\ s - a \in Int /\ s - b \in Int
      BY <1>3, <2>1, <3>1
    <3>3. s - a <= s - b
      BY <2>1, <3>1, <3>2, NoStepBack
    <3> QED
      BY <1>3, <2>1, <3>1, <3>3
  <2> QED
    BY <2>2, <2>3
<1> QED
  BY <1>1, <1>2, <1>3

\* A smooth move that begins within the limits of axis y stays within them, wherever it was
\* asked to lead.
THEOREM LimitsKept ==
    ASSUME NEW s \in MinY .. MaxY, NEW angle \in Int, NEW n \in Nat \ {0}, NEW i \in 1 .. n
    PROVE  StepAngles(s, Target("y", angle), n, i) \subseteq MinY .. MaxY
<1> DEFINE t == Target("y", angle)
<1>1. t \in MinY .. MaxY
  BY PulseAssumption DEF Target, Limited
<1>2. StepAngles(s, t, n, i) \subseteq {t} \cup (s .. t) \cup (t .. s)
  BY DEF StepAngles
<1> QED
  BY <1>1, <1>2, PulseAssumption

=============================================================================

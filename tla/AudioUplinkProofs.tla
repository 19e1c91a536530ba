------------------------- MODULE AudioUplinkProofs -------------------------
(***************************************************************************)
(* Proofs about AudioUplink for every depth of the pool and every bound:   *)
(* type correctness, the ownership of the slots, and what the server may   *)
(* rely on (hello before audio, packets inside FIRST..LAST, all in order). *)
(***************************************************************************)
EXTENDS AudioUplink, TLAPS

-----------------------------------------------------------------------------
(* Lemmas about the queues *)

\* What is left of a non-empty queue when its head is taken.
LEMMA TailFacts ==
    ASSUME NEW q \in Seq(Slot), q # <<>>
    PROVE  /\ Head(q) \in Slot /\ Head(q) = q[1]
           /\ Tail(q) \in Seq(Slot)
           /\ Len(q) \in Nat \ {0} /\ Len(Tail(q)) = Len(q) - 1
           /\ \A i \in 1 .. Len(Tail(q)) : i + 1 \in 1 .. Len(q) /\ Tail(q)[i] = q[i + 1]
  OBVIOUS

\* What a queue holds when an element has been put at its end.
LEMMA AppendFacts ==
    ASSUME NEW q \in Seq(Slot), NEW s \in Slot
    PROVE  /\ Append(q, s) \in Seq(Slot)
           /\ Len(Append(q, s)) = Len(q) + 1
           /\ \A i \in 1 .. Len(Append(q, s)) :
                 Append(q, s)[i] = IF i = Len(q) + 1 THEN s ELSE q[i]
           /\ Append(q, s)[Len(q) + 1] = s
  OBVIOUS

\* The queue a reset builds holds every slot once, but not the one in flight.
LEMMA RefillFacts ==
    ASSUME inflight \in Slot \cup {NoSlot}
    PROVE  /\ Refill \in Seq(Slot)
           /\ Len(Refill) = (IF inflight \in Slot THEN Depth - 1 ELSE Depth)
           /\ Distinct(Refill)
           /\ \A i \in 1 .. Len(Refill) : Refill[i] # inflight
  <1> USE DepthAssumption DEF Slot, NoSlot
  <1>1. CASE inflight \in Slot
    <2> DEFINE f == [i \in 1 .. Depth - 1 |-> IF i < inflight THEN i ELSE i + 1]
    <2>1. Refill = f
      BY <1>1 DEF Refill
    <2>2. Depth - 1 \in Nat /\ \A i \in 1 .. Depth - 1 : f[i] \in Slot
      BY <1>1
    <2>3. f \in Seq(Slot) /\ Len(f) = Depth - 1
      BY <2>2
    <2>4. /\ \A i, j \in 1 .. Depth - 1 : i # j => f[i] # f[j]
          /\ \A i \in 1 .. Depth - 1 : f[i] # inflight
      BY <1>1
    <2> HIDE DEF f
    <2> QED
      BY <1>1, <2>1, <2>3, <2>4 DEF Distinct
  <1>2. CASE inflight \notin Slot
    <2> DEFINE g == [i \in 1 .. Depth |-> i]
    <2>1. Refill = g
      BY <1>2 DEF Refill
    <2>2. g \in Seq(Slot) /\ Len(g) = Depth
      OBVIOUS
    <2>3. /\ \A i, j \in 1 .. Depth : i # j => g[i] # g[j]
          /\ \A i \in 1 .. Depth : g[i] # inflight
      BY <1>2
    <2> HIDE DEF g
    <2> QED
      BY <1>2, <2>1, <2>2, <2>3 DEF Distinct
  <1> QED
    BY <1>1, <1>2

-----------------------------------------------------------------------------
(* Type correctness *)

\* What is spent at the start is a number.
LEMMA SpentInit == Init => captured \in Nat /\ conns \in Nat /\ stops \in Nat
  <1> SUFFICES ASSUME Init PROVE captured \in Nat /\ conns \in Nat /\ stops \in Nat
    OBVIOUS
  <1>1. \E s \in Spent : captured = s.frames /\ conns = s.conns /\ stops = s.stops
    BY Zenon DEF Init
  <1>2. PICK s \in Spent : captured = s.frames /\ conns = s.conns /\ stops = s.stops
    BY <1>1
  <1>3. s \in [frames : Nat, conns : Nat, stops : Nat]
    BY SpentAssumption
  <1> QED
    BY <1>2, <1>3

LEMMA TypeInit == Init => TypeOK
  <1> SUFFICES ASSUME Init PROVE TypeOK
    OBVIOUS
  <1> USE DEF Init, Slot, NoSlot
  <1>1. FlagTypes
    BY ZenonT(40) DEF FlagTypes
  <1>2. DataTypes
    BY SpentInit DEF DataTypes
  <1>3. PoolTypes
    BY DepthAssumption DEF PoolTypes, Count
  <1>4. ServerTypes
    BY DEF ServerTypes, Silent
  <1> QED
    BY <1>1, <1>2, <1>3, <1>4 DEF TypeOK

\* The flags stay Boolean.
LEMMA FlagStep == FlagTypes /\ Next => FlagTypes'
  <1> SUFFICES ASSUME FlagTypes, Next PROVE FlagTypes'
    OBVIOUS
  <1> USE DEF FlagTypes, session, stop, pool, flags, talk, task, work, hist
  <1>1. CASE LinkUp
    BY <1>1, ZenonT(40) DEF LinkUp
  <1>2. CASE LinkDown
    BY <1>2, ZenonT(40) DEF LinkDown
  <1>3. CASE EventConnected
    BY <1>3, ZenonT(40) DEF EventConnected
  <1>4. CASE EventDisconnected
    BY <1>4, ZenonT(40) DEF EventDisconnected
  <1>5. CASE HandlerReset
    BY <1>5, ZenonT(40) DEF HandlerReset, ResetPool
  <1>6. CASE HelloAcked
    BY <1>6, ZenonT(40) DEF HelloAcked
  <1>7. CASE StopBegin
    BY <1>7, ZenonT(40) DEF StopBegin
  <1>8. CASE StopClose
    BY <1>8, ZenonT(40) DEF StopClose
  <1>9. CASE StopWorkerGone
    BY <1>9, ZenonT(40) DEF StopWorkerGone
  <1>10. CASE StopTimeout
    BY <1>10, ZenonT(40) DEF StopTimeout
  <1>11. CASE StopReset
    BY <1>11, ZenonT(40) DEF StopReset, ResetPool
  <1>12. CASE StopSession
    BY <1>12, ZenonT(40) DEF StopSession
  <1>13. CASE StopMedia
    BY <1>13, ZenonT(40) DEF StopMedia, ResetPool
  <1>14. CASE Press
    BY <1>14, ZenonT(40) DEF Press
  <1>15. CASE Capture
    BY <1>15, ZenonT(40) DEF Capture, QueueInit
  <1>16. CASE Release
    BY <1>16, ZenonT(40) DEF Release, QueueInit
  <1>17. CASE ReleaseOffline
    BY <1>17, ZenonT(40) DEF ReleaseOffline
  <1>18. CASE QueueInitReset
    BY <1>18, ZenonT(40) DEF QueueInitReset, ResetPool
  <1>19. CASE SendAudioFree
    BY <1>19, ZenonT(40) DEF SendAudioFree, Enqueue
  <1>20. CASE SendAudioEvict
    BY <1>20, ZenonT(40) DEF SendAudioEvict, Enqueue
  <1>21. CASE SendAudioRefused
    BY <1>21, ZenonT(40) DEF SendAudioRefused
  <1>22. CASE SendAudioEnd
    BY <1>22, ZenonT(40) DEF SendAudioEnd
  <1>23. CASE WorkerTake
    BY <1>23, ZenonT(40) DEF WorkerTake
  <1>24. CASE WorkerNothing
    BY <1>24, ZenonT(40) DEF WorkerNothing
  <1>25. CASE WorkerFlag
    BY <1>25, ZenonT(40) DEF WorkerFlag
  <1>26. CASE WorkerRead
    BY <1>26, ZenonT(40) DEF WorkerRead
  <1>27. CASE WorkerPacket
    BY <1>27, ZenonT(40) DEF WorkerPacket, BuildPacket
  <1>28. CASE WorkerSendFrame
    BY <1>28, ZenonT(40) DEF WorkerSendFrame
  <1>29. CASE WorkerSendFails
    BY <1>29, ZenonT(40) DEF WorkerSendFails
  <1>30. CASE WorkerAfter
    BY <1>30, ZenonT(40) DEF WorkerAfter
  <1>31. CASE WorkerClear
    BY <1>31, ZenonT(40) DEF WorkerClear
  <1>32. CASE WorkerReturn
    BY <1>32, ZenonT(40) DEF WorkerReturn, LocalsEnd
  <1>33. CASE WorkerEndRead
    BY <1>33, ZenonT(40) DEF WorkerEndRead
  <1>34. CASE WorkerEndPacket
    BY <1>34, ZenonT(40) DEF WorkerEndPacket, BuildPacket
  <1>35. CASE WorkerSendEnd
    BY <1>35, ZenonT(40) DEF WorkerSendEnd
  <1>36. CASE WorkerEndAfter
    BY <1>36, ZenonT(40) DEF WorkerEndAfter, LocalsEnd
  <1>37. CASE WorkerExit
    BY <1>37, ZenonT(40) DEF WorkerExit
  <1>38. CASE WorkerGone
    BY <1>38, ZenonT(40) DEF WorkerGone
  <1> QED
    BY <1>1, <1>2, <1>3, <1>4, <1>5, <1>6, <1>7, <1>8, <1>9, <1>10, <1>11, <1>12, <1>13, <1>14, <1>15, <1>16, <1>17, <1>18, <1>19, <1>20, <1>21, <1>22, <1>23, <1>24, <1>25, <1>26, <1>27, <1>28, <1>29, <1>30, <1>31, <1>32, <1>33, <1>34, <1>35, <1>36, <1>37, <1>38 DEF Next, Transport, Stop, Voice, Worker

-----------------------------------------------------------------------------
(* The slot in the worker's hands *)

Covered == {"read", "packet", "send", "after", "clear"}

\* The worker's hands are full exactly in the steps between taking a slot and
\* giving it back, and the in-flight flag names the slot in all but the first
\* and the last of them.
Hands ==
    /\ Holding => wslot \in Slot
    /\ ~Holding => wslot = NoSlot
    /\ inflight = IF pc \in Covered THEN wslot ELSE NoSlot

LEMMA HandsStep == Hands /\ DataTypes /\ PoolTypes /\ Next => Hands'
  <1> SUFFICES ASSUME Hands, DataTypes, PoolTypes, Next PROVE Hands'
    OBVIOUS
  <1> USE DEF Hands, Holding, Covered, session, stop, pool, flags, talk, task, work, hist
  <1>1. CASE Transport
    BY <1>1 DEF Transport, LinkUp, LinkDown, EventConnected, EventDisconnected, HandlerReset,
                HelloAcked, ResetPool
  <1>2. CASE Stop
    BY <1>2 DEF Stop, StopBegin, StopClose, StopWorkerGone, StopTimeout, StopReset, StopSession,
                StopMedia, ResetPool
  <1>3. CASE Voice
    BY <1>3 DEF Voice, Press, Capture, Release, ReleaseOffline, QueueInit, QueueInitReset,
                SendAudioFree, SendAudioEvict, SendAudioRefused, SendAudioEnd, ResetPool
  <1>4. CASE WorkerTake
    BY <1>4, TailFacts DEF WorkerTake, PoolTypes
  <1>5. CASE WorkerNothing \/ WorkerFlag \/ WorkerRead \/ WorkerPacket \/ WorkerSendFrame
    BY <1>5 DEF WorkerNothing, WorkerFlag, WorkerRead, WorkerPacket, BuildPacket, WorkerSendFrame
  <1>6. CASE WorkerSendFails \/ WorkerAfter \/ WorkerClear \/ WorkerReturn
    BY <1>6 DEF WorkerSendFails, WorkerAfter, WorkerClear, WorkerReturn, LocalsEnd
  <1>7. CASE WorkerEndRead \/ WorkerEndPacket \/ WorkerSendEnd \/ WorkerEndAfter
    BY <1>7 DEF WorkerEndRead, WorkerEndPacket, BuildPacket, WorkerSendEnd, WorkerEndAfter, LocalsEnd
  <1>8. CASE WorkerExit \/ WorkerGone
    BY <1>8 DEF WorkerExit, WorkerGone
  <1> QED
    BY <1>1, <1>2, <1>3, <1>4, <1>5, <1>6, <1>7, <1>8 DEF Next, Worker

-----------------------------------------------------------------------------
(* Type correctness of the data *)

\* The scalar variables keep their types.
LEMMA DataStep == Hands /\ DataTypes /\ PoolTypes /\ Next => DataTypes'
  <1> SUFFICES ASSUME Hands, DataTypes, PoolTypes, Next PROVE DataTypes'
    OBVIOUS
  <1> USE DEF DataTypes, session, stop, pool, flags, talk, task, work, hist
  <1>1. CASE Transport
    BY <1>1 DEF Transport, LinkUp, LinkDown, EventConnected, EventDisconnected, HandlerReset,
                HelloAcked, ResetPool
  <1>2. CASE Stop
    <2>1. CASE StopBegin \/ StopClose
      BY <2>1 DEF StopBegin, StopClose
    <2>2. CASE StopWorkerGone \/ StopTimeout
      BY <2>2 DEF StopWorkerGone, StopTimeout
    <2>3. CASE StopReset \/ StopSession \/ StopMedia
      BY <2>3 DEF StopReset, StopSession, StopMedia, ResetPool
    <2> QED
      BY <1>2, <2>1, <2>2, <2>3 DEF Stop
  <1>3. CASE Voice
    <2>1. CASE Press \/ Capture \/ Release \/ ReleaseOffline
      BY <2>1 DEF Press, Capture, Release, ReleaseOffline, QueueInit
    <2>2. CASE QueueInitReset \/ SendAudioRefused \/ SendAudioEnd
      BY <2>2 DEF QueueInitReset, SendAudioRefused, SendAudioEnd, ResetPool
    <2>3. CASE SendAudioFree \/ SendAudioEvict
      BY <2>3 DEF SendAudioFree, SendAudioEvict
    <2> QED
      BY <1>3, <2>1, <2>2, <2>3 DEF Voice
  <1>4. CASE WorkerTake
    BY <1>4, TailFacts DEF WorkerTake, PoolTypes
  <1>5. CASE WorkerPacket \/ WorkerEndPacket
    BY <1>5, BoundAssumption DEF WorkerPacket, WorkerEndPacket, BuildPacket, PoolTypes, Hands, Holding
  <1>6. CASE WorkerNothing \/ WorkerFlag \/ WorkerRead \/ WorkerSendFrame \/ WorkerSendFails
    BY <1>6 DEF WorkerNothing, WorkerFlag, WorkerRead, WorkerSendFrame, WorkerSendFails
  <1>7. CASE WorkerAfter \/ WorkerClear \/ WorkerReturn
    BY <1>7 DEF WorkerAfter, WorkerClear, WorkerReturn, LocalsEnd, NoSlot
  <1>8. CASE WorkerEndRead \/ WorkerSendEnd \/ WorkerEndAfter \/ WorkerExit \/ WorkerGone
    BY <1>8 DEF WorkerEndRead, WorkerSendEnd, WorkerEndAfter, LocalsEnd, NoSlot, WorkerExit, WorkerGone
  <1> QED
    BY <1>1, <1>2, <1>3, <1>4, <1>5, <1>6, <1>7, <1>8 DEF Next, Worker

-----------------------------------------------------------------------------
(* The moves of the slots *)

\* What a step can do to the queues: every step outside of these leaves them,
\* the slot in hand and the history of resets alone.
Reset     == ResetPool /\ UNCHANGED <<pc, wslot>>
PoolStays == UNCHANGED <<free, pending, content, wslot, leaky>> /\ Holding' = Holding

LEMMA PoolMoves ==
    Hands /\ Next => Reset \/ SendAudioFree \/ SendAudioEvict \/ WorkerTake \/ WorkerReturn \/ PoolStays
  <1> SUFFICES ASSUME Hands, Next, ~SendAudioFree, ~SendAudioEvict, ~WorkerTake, ~WorkerReturn
               PROVE  Reset \/ PoolStays
    OBVIOUS
  <1> USE DEF Reset, PoolStays, Holding, session, stop, pool, flags, talk, task, work, hist
  <1>1. CASE Transport
    BY <1>1 DEF Transport, LinkUp, LinkDown, EventConnected, EventDisconnected, HandlerReset, HelloAcked
  <1>2. CASE Stop
    BY <1>2 DEF Stop, StopBegin, StopClose, StopWorkerGone, StopTimeout, StopReset, StopSession,
                StopMedia
  <1>3. CASE Voice
    BY <1>3 DEF Voice, Press, Capture, Release, ReleaseOffline, QueueInit, QueueInitReset,
                SendAudioRefused, SendAudioEnd
  <1>4. CASE WorkerNothing \/ WorkerFlag \/ WorkerRead \/ WorkerPacket \/ WorkerSendFrame
    BY <1>4 DEF WorkerNothing, WorkerFlag, WorkerRead, WorkerPacket, BuildPacket, WorkerSendFrame
  <1>5. CASE WorkerSendFails \/ WorkerAfter \/ WorkerClear
    BY <1>5 DEF WorkerSendFails, WorkerAfter, WorkerClear
  <1>6. CASE WorkerEndRead \/ WorkerEndPacket \/ WorkerSendEnd
    BY <1>6 DEF WorkerEndRead, WorkerEndPacket, BuildPacket, WorkerSendEnd
  <1>7. CASE WorkerExit \/ WorkerGone
    BY <1>7 DEF WorkerExit, WorkerGone
  <1>8. CASE WorkerEndAfter
    BY <1>8 DEF WorkerEndAfter, LocalsEnd, Hands
  <1> QED
    BY <1>1, <1>2, <1>3, <1>4, <1>5, <1>6, <1>7, <1>8 DEF Next, Worker

LEMMA PoolStep == Hands /\ DataTypes /\ PoolTypes /\ Next => PoolTypes'
  <1> SUFFICES ASSUME Hands, DataTypes, PoolTypes, Next PROVE PoolTypes'
    OBVIOUS
  <1> USE DepthAssumption DEF PoolTypes, Count
  <1>1. CASE Reset
    BY <1>1, RefillFacts DEF Reset, ResetPool, DataTypes
  <1>2. CASE SendAudioFree
    <2>1. Head(free) \in Slot /\ Tail(free) \in Seq(Slot) /\ Len(Tail(free)) = Len(free) - 1
      BY <1>2, TailFacts DEF SendAudioFree
    <2>2. content' \in [Slot -> Nat]
      BY <1>2, <2>1 DEF SendAudioFree, Enqueue, DataTypes
    <2>3. CASE Len(pending) < Depth
      <3>1. free' = Tail(free) /\ pending' = Append(pending, Head(free))
        BY <1>2, <2>3 DEF SendAudioFree
      <3>2. pending' \in Seq(Slot) /\ Len(pending') = Len(pending) + 1
        BY <2>1, <3>1, AppendFacts
      <3> QED
        BY <2>1, <2>2, <2>3, <3>1, <3>2
    <2>4. CASE ~(Len(pending) < Depth)
      <3>1. free' = Append(Tail(free), Head(free)) /\ pending' = pending
        BY <1>2, <2>4 DEF SendAudioFree
      <3>2. free' \in Seq(Slot) /\ Len(free') = Len(Tail(free)) + 1
        BY <2>1, <3>1, AppendFacts
      <3> QED
        BY <2>1, <2>2, <3>1, <3>2
    <2> QED
      BY <2>3, <2>4
  <1>3. CASE SendAudioEvict
    <2>1. Head(pending) \in Slot /\ Tail(pending) \in Seq(Slot) /\ Len(Tail(pending)) = Len(pending) - 1
      BY <1>3, TailFacts DEF SendAudioEvict
    <2>2. content' \in [Slot -> Nat]
      BY <1>3, <2>1 DEF SendAudioEvict, Enqueue, DataTypes
    <2> QED
      BY <1>3, <2>1, <2>2, AppendFacts DEF SendAudioEvict
  <1>4. CASE WorkerTake
    BY <1>4, TailFacts DEF WorkerTake
  <1>5. CASE WorkerReturn
    BY <1>5, AppendFacts DEF WorkerReturn, Hands, Holding
  <1>6. CASE PoolStays
    BY <1>6 DEF PoolStays
  <1> QED
    BY PoolMoves, <1>1, <1>2, <1>3, <1>4, <1>5, <1>6

\* The server's view keeps its type: only a new connection and a packet that
\* gets through change it.
LEMMA ServerMoves ==
    Next => LinkUp \/ WorkerSendFrame \/ WorkerSendEnd \/ srv' = srv
  <1> SUFFICES ASSUME Next, ~LinkUp, ~WorkerSendFrame, ~WorkerSendEnd
               PROVE  srv' = srv
    OBVIOUS
  <1>1. CASE Transport
    BY <1>1 DEF Transport, LinkDown, EventConnected, EventDisconnected, HandlerReset, HelloAcked
  <1>2. CASE Stop
    BY <1>2 DEF Stop, StopBegin, StopClose, StopWorkerGone, StopTimeout, StopReset, StopSession,
                StopMedia
  <1>3. CASE Voice
    BY <1>3 DEF Voice, Press, Capture, Release, ReleaseOffline, QueueInitReset,
                SendAudioFree, SendAudioEvict, SendAudioRefused, SendAudioEnd
  <1>4. CASE Worker
    BY <1>4 DEF Worker, WorkerTake, WorkerNothing, WorkerFlag, WorkerRead, WorkerPacket,
                WorkerSendFails, WorkerAfter, WorkerClear, WorkerReturn, WorkerEndRead,
                WorkerEndPacket, WorkerEndAfter, WorkerExit, WorkerGone
  <1> QED
    BY <1>1, <1>2, <1>3, <1>4 DEF Next

LEMMA ServerStep == FlagTypes /\ DataTypes /\ ServerTypes /\ Next => ServerTypes'
  <1> SUFFICES ASSUME FlagTypes, DataTypes, ServerTypes, Next PROVE ServerTypes'
    OBVIOUS
  <1> USE DEF ServerTypes
  <1>1. CASE LinkUp
    BY <1>1 DEF LinkUp, Silent
  <1>2. CASE WorkerSendFrame
    BY <1>2 DEF WorkerSendFrame, DataTypes
  <1>3. CASE WorkerSendEnd
    BY <1>3 DEF WorkerSendEnd, DataTypes
  <1>4. CASE srv' = srv
    BY <1>4
  <1> QED
    BY ServerMoves, <1>1, <1>2, <1>3, <1>4

LEMMA TypeStutter == TypeOK /\ Hands /\ UNCHANGED vars => TypeOK' /\ Hands'
  <1> SUFFICES ASSUME TypeOK, Hands, UNCHANGED vars PROVE TypeOK' /\ Hands'
    OBVIOUS
  <1> USE DEF vars, session, stop, pool, flags, talk, task, work, hist
  <1>1. FlagTypes'
    BY ZenonT(40) DEF TypeOK, FlagTypes
  <1>2. DataTypes' /\ PoolTypes' /\ ServerTypes'
    BY DEF TypeOK, DataTypes, PoolTypes, ServerTypes
  <1>3. Hands'
    BY DEF Hands, Holding
  <1> QED
    BY <1>1, <1>2, <1>3 DEF TypeOK

LEMMA TypeStep == TypeOK /\ Hands /\ [Next]_vars => TypeOK' /\ Hands'
  BY FlagStep, HandsStep, DataStep, PoolStep, ServerStep, TypeStutter DEF TypeOK

\* Every reachable state has the types of the program's variables, and no queue
\* of slots is ever longer than the pool.
THEOREM TypeCorrect == Spec => []TypeOK
  <1>1. Init => TypeOK /\ Hands
    BY TypeInit DEF Init, Hands, Holding, Covered
  <1>2. TypeOK /\ Hands /\ [Next]_vars => TypeOK' /\ Hands'
    BY TypeStep
  <1> QED
    BY <1>1, <1>2, PTL DEF Spec

-----------------------------------------------------------------------------
(* Ownership of the slots *)

LEMMA OwnershipStep ==
    TypeOK /\ Hands /\ SlotOwnership /\ Next => SlotOwnership'
  <1> SUFFICES ASSUME TypeOK, Hands, SlotOwnership, Next, ~leaky'
               PROVE  (Disjoint /\ Conserved)'
    BY DEF SlotOwnership
  <1> USE DepthAssumption DEF TypeOK, PoolTypes, Count
  <1>1. CASE Reset
    <2>1. ~Uncovered /\ ~leaky
      BY <1>1, ZenonT(40) DEF Reset, ResetPool
    <2>2. /\ Holding => inflight = wslot /\ wslot \in Slot
          /\ ~Holding => inflight = NoSlot /\ wslot = NoSlot
      BY <2>1 DEF Hands, Holding, Covered, Uncovered
    <2>3. free' = Refill /\ pending' = <<>> /\ wslot' = wslot /\ Holding' = Holding
      BY <1>1 DEF Reset, ResetPool, Holding
    <2>4. Disjoint'
      <3>1. inflight \in Slot \cup {NoSlot} /\ inflight = wslot
        BY <2>2
      <3>2. Distinct(Refill) /\ \A i \in 1 .. Len(Refill) : Refill[i] # wslot
        BY <3>1, RefillFacts
      <3>3. Distinct(free)' /\ Distinct(pending)'
        BY <2>3, <3>2 DEF Distinct
      <3>4. \A i \in 1 .. Len(free') : free'[i] # wslot'
        BY <2>3, <3>2
      <3>5. Len(pending') = 0
        BY <2>3
      <3> QED
        BY <3>3, <3>4, <3>5 DEF Disjoint
    <2>5. Conserved'
      BY <2>2, <2>3, RefillFacts DEF Conserved, NoSlot, Slot
    <2> QED
      BY <2>4, <2>5
  <1>2. CASE PoolStays
    <2>1. Disjoint /\ Conserved
      BY <1>2, ZenonT(40) DEF PoolStays, SlotOwnership
    <2> QED
      BY <1>2, <2>1 DEF PoolStays, Disjoint, Distinct, Conserved
  <1>3. CASE SendAudioFree
    <2>1. Disjoint /\ Conserved
      BY <1>3, ZenonT(40) DEF SendAudioFree, SlotOwnership, hist
    <2>2. Len(pending) < Depth
      BY <1>3, <2>1 DEF SendAudioFree, Conserved
    <2>3. /\ free' = Tail(free) /\ pending' = Append(pending, Head(free))
          /\ wslot' = wslot /\ Holding' = Holding
      BY <1>3, <2>2 DEF SendAudioFree, work, Holding
    <2>4. Disjoint'
      <3>1. /\ Head(free) \in Slot /\ Head(free) = free[1] /\ Len(free) \in Nat \ {0}
            /\ Len(Tail(free)) = Len(free) - 1
            /\ \A i \in 1 .. Len(free') : i + 1 \in 1 .. Len(free) /\ free'[i] = free[i + 1]
        BY <1>3, <2>3, TailFacts DEF SendAudioFree
      <3>2. Len(pending) \in Nat /\ Len(pending') = Len(pending) + 1
        BY <2>3, <3>1, AppendFacts
      <3>3. \A i \in 1 .. Len(pending') :
                pending'[i] = IF i = Len(pending) + 1 THEN free[1] ELSE pending[i]
        BY <2>3, <3>1, AppendFacts
      <3>4. Distinct(free)'
        BY <2>1, <3>1 DEF Disjoint, Distinct
      <3>5. Distinct(pending)'
        <4> SUFFICES ASSUME NEW i \in 1 .. Len(pending'), NEW j \in 1 .. Len(pending'), i # j
                     PROVE  pending'[i] # pending'[j]
          BY DEF Distinct
        <4>1. /\ i \in 1 .. Len(pending) \/ i = Len(pending) + 1
              /\ j \in 1 .. Len(pending) \/ j = Len(pending) + 1
          BY <3>2
        <4>2. /\ i = Len(pending) + 1 => pending'[i] = free[1]
              /\ j = Len(pending) + 1 => pending'[j] = free[1]
              /\ i # Len(pending) + 1 => pending'[i] = pending[i]
              /\ j # Len(pending) + 1 => pending'[j] = pending[j]
          BY <3>3
        <4>3. \A k \in 1 .. Len(pending) : free[1] # pending[k]
          BY <2>1, <3>1 DEF Disjoint
        <4>4. i # Len(pending) + 1 /\ j # Len(pending) + 1 => pending[i] # pending[j]
          BY <2>1, <4>1 DEF Disjoint, Distinct
        <4> QED
          BY <4>1, <4>2, <4>3, <4>4
      <3>6. \A i \in 1 .. Len(free'), j \in 1 .. Len(pending') : free'[i] # pending'[j]
        <4> SUFFICES ASSUME NEW i \in 1 .. Len(free'), NEW j \in 1 .. Len(pending')
                     PROVE  free'[i] # pending'[j]
          OBVIOUS
        <4>1. free'[i] = free[i + 1] /\ i + 1 \in 1 .. Len(free) /\ 1 \in 1 .. Len(free)
          BY <3>1
        <4>2. CASE j = Len(pending) + 1
          <5>1. pending'[j] = free[1]
            BY <3>3, <4>2
          <5>2. i + 1 # 1
            OBVIOUS
          <5> QED
            BY <2>1, <4>1, <5>1, <5>2 DEF Disjoint, Distinct
        <4>3. CASE j # Len(pending) + 1
          <5>1. j \in 1 .. Len(pending)
            BY <3>2, <4>3
          <5>2. pending'[j] = pending[j]
            BY <3>3, <4>3
          <5> QED
            BY <2>1, <4>1, <5>1, <5>2 DEF Disjoint
        <4> QED
          BY <4>2, <4>3
      <3>7. /\ \A i \in 1 .. Len(free') : free'[i] # wslot'
            /\ \A i \in 1 .. Len(pending') : pending'[i] # wslot'
        BY <2>1, <2>3, <3>1, <3>3, <3>2 DEF Disjoint
      <3> QED
        BY <3>4, <3>5, <3>6, <3>7 DEF Disjoint
    <2>5. Len(free') = Len(free) - 1 /\ Len(pending') = Len(pending) + 1
      BY <1>3, <2>3, TailFacts, AppendFacts DEF SendAudioFree
    <2>6. Len(free') + Len(pending') = Len(free) + Len(pending)
      BY <2>5
    <2>7. Conserved'
      BY <2>1, <2>3, <2>6 DEF Conserved
    <2> QED
      BY <2>4, <2>7
  <1>4. CASE SendAudioEvict
    <2>1. Disjoint /\ Conserved
      BY <1>4, ZenonT(40) DEF SendAudioEvict, SlotOwnership, hist
    <2>2. /\ free' = free /\ pending' = Append(Tail(pending), Head(pending))
          /\ wslot' = wslot /\ Holding' = Holding
      BY <1>4 DEF SendAudioEvict, work, Holding
    <2>3. Disjoint'
      BY <1>4, <2>1, <2>2, TailFacts, AppendFacts DEF SendAudioEvict, Disjoint, Distinct
    <2>4. Conserved'
      BY <1>4, <2>1, <2>2, TailFacts, AppendFacts DEF SendAudioEvict, Conserved
    <2> QED
      BY <2>3, <2>4
  <1>5. CASE WorkerTake
    <2>1. Disjoint /\ Conserved
      BY <1>5, ZenonT(40) DEF WorkerTake, SlotOwnership, hist
    <2>2. /\ free' = free /\ pending' = Tail(pending) /\ wslot' = Head(pending)
          /\ ~Holding /\ Holding'
      BY <1>5 DEF WorkerTake, Holding
    <2>3. Disjoint'
      <3>1. /\ pending # <<>> /\ Head(pending) = pending[1] /\ 1 \in 1 .. Len(pending)
            /\ \A i \in 1 .. Len(pending') : i + 1 \in 1 .. Len(pending) /\ pending'[i] = pending[i + 1]
            /\ \A i \in 1 .. Len(pending') : i \in Nat \ {0}
        BY <1>5, <2>2, TailFacts DEF WorkerTake
      <3>2. Distinct(free')
        BY <2>1, <2>2 DEF Disjoint, Distinct
      <3>3. Distinct(pending')
        BY <2>1, <3>1 DEF Disjoint, Distinct
      <3>4. /\ \A i \in 1 .. Len(free'), j \in 1 .. Len(pending') : free'[i] # pending'[j]
            /\ \A i \in 1 .. Len(free') : free'[i] # wslot'
        BY <2>1, <2>2, <3>1 DEF Disjoint
      <3>5. \A i \in 1 .. Len(pending') : pending'[i] # wslot'
        <4> TAKE i \in 1 .. Len(pending')
        <4> QED
          BY <2>1, <2>2, <3>1 DEF Disjoint, Distinct
      <3> QED
        BY <3>2, <3>3, <3>4, <3>5 DEF Disjoint, Distinct
    <2>4. Conserved'
      BY <1>5, <2>1, <2>2, TailFacts DEF WorkerTake, Conserved
    <2> QED
      BY <2>3, <2>4
  <1>6. CASE WorkerReturn
    <2>1. Disjoint /\ Conserved
      BY <1>6, ZenonT(40) DEF WorkerReturn, SlotOwnership, hist
    <2>2. Holding /\ wslot \in Slot /\ ~Holding' /\ wslot' = NoSlot /\ pending' = pending
      BY <1>6 DEF WorkerReturn, LocalsEnd, Holding, Hands
    <2>3. Len(free) < Depth
      BY <2>1, <2>2 DEF Conserved
    <2>4. free' = Append(free, wslot)
      BY <1>6, <2>3 DEF WorkerReturn
    <2>5. Disjoint'
      <3>1. /\ Len(free') = Len(free) + 1
            /\ \A i \in 1 .. Len(free') : free'[i] = IF i = Len(free) + 1 THEN wslot ELSE free[i]
        BY <2>2, <2>4, AppendFacts
      <3>2. \A i \in 1 .. Len(free') : free'[i] = wslot \/ (i \in 1 .. Len(free) /\ free'[i] = free[i])
        BY <3>1
      <3>3. Distinct(free')
        <4> SUFFICES ASSUME NEW i \in 1 .. Len(free'), NEW j \in 1 .. Len(free'), i # j
                     PROVE  free'[i] # free'[j]
          BY DEF Distinct
        <4>1. Len(free) \in Nat
          OBVIOUS
        <4>2. \A k \in 1 .. Len(free') :
                 k # Len(free) + 1 => k \in 1 .. Len(free) /\ free'[k] = free[k] /\ free[k] # wslot
          <5> TAKE k \in 1 .. Len(free')
          <5> HAVE k # Len(free) + 1
          <5>1. k \in 1 .. Len(free)
            BY <3>1, <4>1
          <5>2. free'[k] = free[k]
            BY <3>1
          <5>3. free[k] # wslot
            BY <2>1, <5>1 DEF Disjoint
          <5> QED
            BY <5>1, <5>2, <5>3
        <4>3. \A k \in 1 .. Len(free') : k = Len(free) + 1 => free'[k] = wslot
          BY <3>1
        <4>4. \A k, m \in 1 .. Len(free) : k # m => free[k] # free[m]
          BY <2>1 DEF Disjoint, Distinct
        <4> QED
          BY <4>2, <4>3, <4>4
      <3>4. \A i \in 1 .. Len(free'), j \in 1 .. Len(pending') : free'[i] # pending'[j]
        BY <2>1, <2>2, <3>2 DEF Disjoint
      <3>5. wslot' \notin Slot /\ free' \in Seq(Slot)
        BY <2>2, <2>4, AppendFacts DEF NoSlot, Slot
      <3>6. /\ \A i \in 1 .. Len(free') : free'[i] # wslot'
            /\ \A i \in 1 .. Len(pending') : pending'[i] # wslot'
        BY <2>2, <3>5
      <3> QED
        BY <2>1, <2>2, <3>3, <3>4, <3>6 DEF Disjoint, Distinct
    <2>6. Conserved'
      BY <2>1, <2>2, <2>4, AppendFacts DEF Conserved
    <2> QED
      BY <2>5, <2>6
  <1> QED
    BY PoolMoves, <1>1, <1>2, <1>3, <1>4, <1>5, <1>6

\* The inductive invariant behind the ownership of the slots.
PoolInv == TypeOK /\ Hands /\ SlotOwnership

LEMMA PoolInvStep == PoolInv /\ [Next]_vars => PoolInv'
  <1>1. ASSUME PoolInv, UNCHANGED vars PROVE SlotOwnership'
    BY <1>1 DEF PoolInv, SlotOwnership, Disjoint, Distinct, Conserved, Holding, vars, pool, work, hist
  <1> QED
    BY TypeStep, OwnershipStep, <1>1 DEF PoolInv

LEMMA PoolInvariant == Spec => []PoolInv
  <1>1. ASSUME Init PROVE SlotOwnership
    BY <1>1, DepthAssumption DEF Init, SlotOwnership, Disjoint, Distinct, Conserved, Holding, NoSlot
  <1>2. Init => PoolInv
    BY <1>1, TypeInit DEF Init, PoolInv, Hands, Holding, Covered
  <1> QED
    BY <1>2, PoolInvStep, PTL DEF Spec

\* As long as no reset has fallen into a window that the in-flight flag does not
\* cover, every slot of the pool is in exactly one place, whatever the depth.
THEOREM SlotsOwned == Spec => []SlotOwnership
  <1>1. PoolInv => SlotOwnership
    BY DEF PoolInv
  <1> QED
    BY <1>1, PoolInvariant, PTL

\* And then the voice task never writes into the slot the worker is sending.
THEOREM InFlightStable == Spec => StableInFlight
  <1>1. ASSUME PoolInv, Next, ~leaky, Holding
        PROVE  content'[wslot] = content[wslot]
    <2>1. Disjoint /\ wslot \in Slot /\ Hands
      BY <1>1 DEF PoolInv, SlotOwnership, Hands
    <2> USE <1>1 DEF PoolInv, TypeOK, PoolTypes
    <2>2. CASE SendAudioFree
      <3>1. free # <<>> /\ \E v : content' = [content EXCEPT ![Head(free)] = v]
        BY <2>2 DEF SendAudioFree, Enqueue
      <3>2. Head(free) # wslot
        BY <2>1, <3>1, TailFacts DEF Disjoint
      <3> QED
        BY <2>1, <3>1, <3>2
    <2>3. CASE SendAudioEvict
      <3>1. pending # <<>> /\ \E v : content' = [content EXCEPT ![Head(pending)] = v]
        BY <2>3 DEF SendAudioEvict, Enqueue
      <3>2. Head(pending) # wslot
        BY <2>1, <3>1, TailFacts DEF Disjoint
      <3> QED
        BY <2>1, <3>1, <3>2
    <2>4. CASE Reset \/ WorkerTake \/ WorkerReturn \/ PoolStays
      BY <2>4 DEF Reset, ResetPool, WorkerTake, WorkerReturn, PoolStays
    <2> QED
      BY <2>1, <2>2, <2>3, <2>4, PoolMoves
  <1>2. PoolInv /\ [Next]_vars => [~leaky /\ Holding /\ Holding' => content'[wslot] = content[wslot]]_vars
    BY <1>1
  <1> QED
    BY <1>2, PoolInvariant, PTL DEF Spec, StableInFlight

-----------------------------------------------------------------------------
(* What the server may rely on *)

Calm    == ~torn /\ ~overtaken
EndPath == {"endpacket", "endsend", "endafter"}
Sending == {"packet", "send", "after"} \cup EndPath

\* A session is ready only on a connection whose reset is over, and the reset
\* has closed whatever an earlier connection left open.
SessionInv ==
    /\ hello => connected /\ handler = "idle"
    /\ connected /\ ~hello /\ handler = "idle" => ~open
    /\ ~torn /\ pc \in Sending => Ready
    /\ ~torn => ~srv.early

\* While nothing disturbs the worker, frames belong to an open upload session,
\* an end marker leaves after the last of them, and an upload session whose
\* first frame is out is open at the server as well.
FramingInv ==
    Calm =>
        /\ pending # <<>> \/ pc \in {"flag", "read", "packet", "send", "after"} => open
        /\ pc \in EndPath => endp /\ pending = <<>>
        /\ pc \in {"packet", "send", "endpacket", "endsend"} /\ ~wfirst => srv.open
        /\ pc = "after" /\ wok => srv.open
        /\ Ready /\ open /\ ~first /\ ~(pc = "endafter" /\ wok) => srv.open
        /\ pc \in {"send", "endsend"} => ~wok
        /\ ~srv.stray

LEMMA SessionStep == TypeOK /\ SessionInv /\ Next => SessionInv'
  <1> SUFFICES ASSUME TypeOK, SessionInv, Next PROVE SessionInv'
    OBVIOUS
  <1> USE DEF SessionInv, Sending, EndPath, Ready, MidPacket, TypeOK, FlagTypes, DataTypes, ServerTypes,
              session, stop, pool, flags, talk, task, work, hist
  <1>1. CASE LinkUp
    BY <1>1 DEF LinkUp, Silent
  <1>2. CASE LinkDown
    BY <1>2 DEF LinkDown
  <1>3. CASE EventConnected
    BY <1>3 DEF EventConnected
  <1>4. CASE EventDisconnected
    BY <1>4 DEF EventDisconnected
  <1>5. CASE HandlerReset
    BY <1>5 DEF HandlerReset, ResetPool
  <1>6. CASE HelloAcked
    BY <1>6 DEF HelloAcked
  <1>7. CASE StopBegin
    BY <1>7 DEF StopBegin
  <1>8. CASE StopClose
    BY <1>8 DEF StopClose
  <1>9. CASE StopWorkerGone
    BY <1>9 DEF StopWorkerGone
  <1>10. CASE StopTimeout
    BY <1>10 DEF StopTimeout
  <1>11. CASE StopReset
    BY <1>11 DEF StopReset, ResetPool
  <1>12. CASE StopSession
    BY <1>12 DEF StopSession
  <1>13. CASE StopMedia
    BY <1>13 DEF StopMedia, ResetPool
  <1>14. CASE Press
    BY <1>14 DEF Press
  <1>15. CASE Capture
    BY <1>15 DEF Capture, QueueInit
  <1>16. CASE Release
    BY <1>16 DEF Release, QueueInit
  <1>17. CASE ReleaseOffline
    BY <1>17 DEF ReleaseOffline
  <1>18. CASE QueueInitReset
    BY <1>18 DEF QueueInitReset, ResetPool
  <1>19. CASE SendAudioFree
    BY <1>19 DEF SendAudioFree, Enqueue
  <1>20. CASE SendAudioEvict
    BY <1>20 DEF SendAudioEvict, Enqueue
  <1>21. CASE SendAudioRefused
    BY <1>21 DEF SendAudioRefused
  <1>22. CASE SendAudioEnd
    BY <1>22 DEF SendAudioEnd
  <1>23. CASE WorkerTake
    BY <1>23 DEF WorkerTake
  <1>24. CASE WorkerNothing
    BY <1>24 DEF WorkerNothing
  <1>25. CASE WorkerFlag
    BY <1>25 DEF WorkerFlag
  <1>26. CASE WorkerRead
    BY <1>26 DEF WorkerRead
  <1>27. CASE WorkerPacket
    BY <1>27 DEF WorkerPacket, BuildPacket
  <1>28. CASE WorkerSendFrame
    BY <1>28 DEF WorkerSendFrame
  <1>29. CASE WorkerSendFails
    BY <1>29 DEF WorkerSendFails
  <1>30. CASE WorkerAfter
    BY <1>30 DEF WorkerAfter
  <1>31. CASE WorkerClear
    BY <1>31 DEF WorkerClear
  <1>32. CASE WorkerReturn
    BY <1>32 DEF WorkerReturn, LocalsEnd
  <1>33. CASE WorkerEndRead
    BY <1>33 DEF WorkerEndRead
  <1>34. CASE WorkerEndPacket
    BY <1>34 DEF WorkerEndPacket, BuildPacket
  <1>35. CASE WorkerSendEnd
    BY <1>35 DEF WorkerSendEnd
  <1>36. CASE WorkerEndAfter
    BY <1>36 DEF WorkerEndAfter, LocalsEnd
  <1>37. CASE WorkerExit
    BY <1>37 DEF WorkerExit
  <1>38. CASE WorkerGone
    BY <1>38 DEF WorkerGone
  <1> QED
    BY <1>1, <1>2, <1>3, <1>4, <1>5, <1>6, <1>7, <1>8, <1>9, <1>10, <1>11, <1>12, <1>13, <1>14, <1>15, <1>16, <1>17, <1>18, <1>19, <1>20, <1>21, <1>22, <1>23, <1>24, <1>25, <1>26, <1>27, <1>28, <1>29, <1>30, <1>31, <1>32, <1>33, <1>34, <1>35, <1>36, <1>37, <1>38
       DEF Next, Transport, Stop, Voice, Worker

LEMMA FramingStep == TypeOK /\ SessionInv /\ FramingInv /\ Next => FramingInv'
  <1> SUFFICES ASSUME TypeOK, SessionInv, FramingInv, Next PROVE FramingInv'
    OBVIOUS
  <1> USE DEF SessionInv, FramingInv, Calm, Sending, EndPath, Ready, MidPacket, TypeOK, FlagTypes, DataTypes,
              ServerTypes, session, stop, pool, flags, talk, task, work, hist
  <1>1. CASE LinkUp
    BY <1>1 DEF LinkUp, Silent
  <1>2. CASE LinkDown
    BY <1>2 DEF LinkDown
  <1>3. CASE EventConnected
    BY <1>3 DEF EventConnected
  <1>4. CASE EventDisconnected
    BY <1>4 DEF EventDisconnected
  <1>5. CASE HandlerReset
    BY <1>5 DEF HandlerReset, ResetPool
  <1>6. CASE HelloAcked
    BY <1>6 DEF HelloAcked
  <1>7. CASE StopBegin
    BY <1>7 DEF StopBegin
  <1>8. CASE StopClose
    BY <1>8 DEF StopClose
  <1>9. CASE StopWorkerGone
    BY <1>9 DEF StopWorkerGone
  <1>10. CASE StopTimeout
    BY <1>10 DEF StopTimeout
  <1>11. CASE StopReset
    BY <1>11 DEF StopReset, ResetPool
  <1>12. CASE StopSession
    BY <1>12 DEF StopSession
  <1>13. CASE StopMedia
    BY <1>13 DEF StopMedia, ResetPool
  <1>14. CASE Press
    BY <1>14 DEF Press
  <1>15. CASE Capture
    BY <1>15 DEF Capture, QueueInit
  <1>16. CASE Release
    BY <1>16 DEF Release, QueueInit
  <1>17. CASE ReleaseOffline
    BY <1>17 DEF ReleaseOffline
  <1>18. CASE QueueInitReset
    BY <1>18 DEF QueueInitReset, ResetPool
  <1>19. CASE SendAudioFree
    BY <1>19 DEF SendAudioFree, Enqueue
  <1>20. CASE SendAudioEvict
    BY <1>20 DEF SendAudioEvict, Enqueue
  <1>21. CASE SendAudioRefused
    BY <1>21 DEF SendAudioRefused
  <1>22. CASE SendAudioEnd
    BY <1>22 DEF SendAudioEnd
  <1>23. CASE WorkerTake
    BY <1>23 DEF WorkerTake
  <1>24. CASE WorkerNothing
    BY <1>24 DEF WorkerNothing
  <1>25. CASE WorkerFlag
    BY <1>25 DEF WorkerFlag
  <1>26. CASE WorkerRead
    <2>1. CASE Ready
      <3>1. pc' = "packet" /\ (wfirst' <=> first)
        BY <1>26, <2>1 DEF WorkerRead
      <3>2. UNCHANGED <<connected, hello, handler, open, first, endp, pending, wok, srv, torn, overtaken>>
        BY <1>26 DEF WorkerRead
      <3> QED
        BY <1>26, <2>1, <3>1, <3>2 DEF WorkerRead
    <2>2. CASE ~Ready
      BY <1>26, <2>2 DEF WorkerRead
    <2> QED
      BY <2>1, <2>2
  <1>27. CASE WorkerPacket
    BY <1>27 DEF WorkerPacket, BuildPacket
  <1>28. CASE WorkerSendFrame
    BY <1>28 DEF WorkerSendFrame
  <1>29. CASE WorkerSendFails
    BY <1>29 DEF WorkerSendFails
  <1>30. CASE WorkerAfter
    BY <1>30 DEF WorkerAfter
  <1>31. CASE WorkerClear
    BY <1>31 DEF WorkerClear
  <1>32. CASE WorkerReturn
    BY <1>32 DEF WorkerReturn, LocalsEnd
  <1>33. CASE WorkerEndRead
    <2>1. CASE endp /\ Ready
      <3>1. pc' = "endpacket" /\ (wfirst' <=> first \/ ~open) /\ (~overtaken' => pending = <<>>)
        BY <1>33, <2>1 DEF WorkerEndRead
      <3>2. UNCHANGED <<connected, hello, handler, open, first, endp, pending, wok, srv, torn>>
        BY <1>33 DEF WorkerEndRead
      <3>3. Calm' => Calm
        BY <1>33, <2>1 DEF WorkerEndRead
      <3>4. Calm' /\ ~wfirst' => srv'.open
        BY <1>33, <2>1, <3>1, <3>2, <3>3 DEF WorkerEndRead
      <3>5. Calm' => endp' /\ pending' = <<>> /\ ~srv'.stray
        BY <1>33, <2>1, <3>1, <3>2, <3>3
      <3>6. Calm' /\ Ready' /\ open' /\ ~first' => srv'.open
        BY <1>33, <2>1, <3>1, <3>2, <3>3 DEF WorkerEndRead
      <3> QED
        BY <3>1, <3>4, <3>5, <3>6
    <2>2. CASE ~(endp /\ Ready)
      BY <1>33, <2>2 DEF WorkerEndRead
    <2> QED
      BY <2>1, <2>2
  <1>34. CASE WorkerEndPacket
    BY <1>34 DEF WorkerEndPacket, BuildPacket
  <1>35. CASE WorkerSendEnd
    BY <1>35 DEF WorkerSendEnd
  <1>36. CASE WorkerEndAfter
    BY <1>36 DEF WorkerEndAfter, LocalsEnd
  <1>37. CASE WorkerExit
    BY <1>37 DEF WorkerExit
  <1>38. CASE WorkerGone
    BY <1>38 DEF WorkerGone
  <1> QED
    BY <1>1, <1>2, <1>3, <1>4, <1>5, <1>6, <1>7, <1>8, <1>9, <1>10, <1>11, <1>12, <1>13, <1>14, <1>15, <1>16, <1>17, <1>18, <1>19, <1>20, <1>21, <1>22, <1>23, <1>24, <1>25, <1>26, <1>27, <1>28, <1>29, <1>30, <1>31, <1>32, <1>33, <1>34, <1>35, <1>36, <1>37, <1>38
       DEF Next, Transport, Stop, Voice, Worker

\* The inductive invariant behind what the server sees.
UplinkInv == PoolInv /\ SessionInv /\ FramingInv

LEMMA UplinkInvStep == UplinkInv /\ [Next]_vars => UplinkInv'
  <1>1. ASSUME SessionInv, FramingInv, UNCHANGED vars PROVE SessionInv' /\ FramingInv'
    BY <1>1 DEF SessionInv, FramingInv, Calm, Sending, EndPath, Ready, vars,
                session, stop, pool, flags, talk, task, work, hist
  <1> QED
    BY PoolInvStep, SessionStep, FramingStep, <1>1 DEF UplinkInv, PoolInv

LEMMA UplinkInit == Init => UplinkInv
  <1>1. Init => SessionInv /\ FramingInv
    BY DEF Init, SessionInv, FramingInv, Calm, Sending, EndPath, Ready, Silent
  <1>2. Init => SlotOwnership /\ Hands /\ TypeOK
    BY TypeInit, DepthAssumption DEF Init, SlotOwnership, Disjoint, Distinct, Conserved,
                                     Hands, Holding, Covered, NoSlot
  <1> QED
    BY <1>1, <1>2 DEF UplinkInv, PoolInv

LEMMA UplinkInvariant == Spec => []UplinkInv
  BY UplinkInit, UplinkInvStep, PTL DEF Spec

\* Unless the connection is replaced under a packet that is being sent, no audio
\* precedes the acknowledgement of the hello.
THEOREM AudioAfterHello == Spec => []HelloFirst
  <1>1. UplinkInv => HelloFirst
    BY DEF UplinkInv, SessionInv, HelloFirst, NoEarlyAudio
  <1> QED
    BY <1>1, UplinkInvariant, PTL

\* Unless a reset falls into a packet or an end marker overtakes a frame, all the
\* server receives lies between a packet marked FIRST and one marked LAST.
THEOREM PacketsFramed == Spec => []Framing
  <1>1. UplinkInv => Framing
    BY DEF UplinkInv, FramingInv, Calm, Framing, NoStrayPacket
  <1> QED
    BY <1>1, UplinkInvariant, PTL

\* Both at once: where the packets of a connection stand.
THEOREM PacketsPlaced == Spec => []PacketsInPlace
  <1>1. HelloFirst /\ Framing => PacketsInPlace
    BY DEF PacketsInPlace
  <1> QED
    BY <1>1, AudioAfterHello, PacketsFramed, PTL

-----------------------------------------------------------------------------
(* What is sent is in order *)

\* The newest frame that can be in the pool: the one the voice task holds is
\* not there yet.
Newest == IF voice \in {"frame", "resetframe"} THEN captured - 1 ELSE captured

\* The frame the worker is about to send, or else the last one the server got.
Unsent == pc \in {"flag", "read", "packet", "send"}
Latest ==
    IF pc \in {"flag", "read", "packet"} THEN content[wslot]
    ELSE IF pc = "send" THEN wframe ELSE srv.frame

\* From the server over the worker and along the queue to the voice task, every
\* frame is newer than the one before it.
Rising == \A i, j \in 1 .. Len(pending) : i < j => content[pending[i]] < content[pending[j]]
Between == \A i \in 1 .. Len(pending) : Latest < content[pending[i]] /\ content[pending[i]] <= Newest
AtEnds ==
    /\ srv.frame <= Latest /\ Latest <= Newest
    /\ Unsent => srv.frame < Latest

FramesInv == ~leaky => Rising /\ Between /\ AtEnds

\* The counter is ahead of the server while a connection is established, and a
\* packet carries a number the server has not seen, unless the counter stands.
NumbersInv ==
    /\ stopper \in {"wait", "reset", "session", "media"} => link = 0
    /\ ~torn =>
        /\ link # 0 /\ ~connected => srv.seq = 0
        /\ connected => srv.seq <= seq
        /\ pc \in {"send", "endsend"} => wseq <= seq /\ (srv.seq < MaxSeq => srv.seq < wseq)

\* Steps that put no frame into the pool and take none out only ever move what
\* the worker is about to send back, and the newest frame forward.
LEMMA AtEndsStep ==
    ASSUME DataTypes, PoolTypes, ServerTypes, Hands, AtEnds, Next,
           ~SendAudioFree, ~SendAudioEvict, ~WorkerTake, content' = content
    PROVE  AtEnds' /\ Latest' <= Latest /\ Newest <= Newest'
  <1>1. /\ srv.frame \in Nat /\ captured \in Nat /\ wframe \in Nat
        /\ pc \in {"flag", "read", "packet"} => content[wslot] \in Nat
    BY DEF DataTypes, PoolTypes, ServerTypes, Hands, Holding
  <1> USE <1>1 DEF AtEnds, Unsent, Latest, Newest, session, stop, pool, flags, talk, task, work, hist
  <1>2. CASE LinkUp
    BY <1>2 DEF LinkUp, Silent
  <1>3. CASE LinkDown \/ EventConnected \/ EventDisconnected \/ HandlerReset \/ HelloAcked
    BY <1>3 DEF LinkDown, EventConnected, EventDisconnected, HandlerReset, HelloAcked
  <1>4. CASE Stop
    BY <1>4 DEF Stop, StopBegin, StopClose, StopWorkerGone, StopTimeout, StopReset, StopSession, StopMedia
  <1>5. CASE Press \/ ReleaseOffline \/ QueueInitReset \/ SendAudioRefused \/ SendAudioEnd
    BY <1>5 DEF Press, ReleaseOffline, QueueInitReset, SendAudioRefused, SendAudioEnd
  <1>6. CASE Capture
    BY <1>6 DEF Capture, QueueInit
  <1>7. CASE Release
    BY <1>7 DEF Release, QueueInit
  <1>8. CASE WorkerNothing \/ WorkerFlag \/ WorkerRead
    BY <1>8 DEF WorkerNothing, WorkerFlag, WorkerRead
  <1>9. CASE WorkerPacket
    BY <1>9 DEF WorkerPacket, BuildPacket
  <1>10. CASE WorkerSendFrame
    BY <1>10 DEF WorkerSendFrame
  <1>11. CASE WorkerSendFails \/ WorkerAfter \/ WorkerClear \/ WorkerReturn
    BY <1>11 DEF WorkerSendFails, WorkerAfter, WorkerClear, WorkerReturn, LocalsEnd
  <1>12. CASE WorkerEndRead \/ WorkerEndPacket
    BY <1>12 DEF WorkerEndRead, WorkerEndPacket, BuildPacket
  <1>13. CASE WorkerSendEnd
    BY <1>13 DEF WorkerSendEnd
  <1>14. CASE WorkerEndAfter \/ WorkerExit \/ WorkerGone
    BY <1>14 DEF WorkerEndAfter, LocalsEnd, WorkerExit, WorkerGone
  <1> QED
    BY <1>2, <1>3, <1>4, <1>5, <1>6, <1>7, <1>8, <1>9, <1>10, <1>11, <1>12, <1>13, <1>14
       DEF Next, Transport, Voice, Worker

\* The newest frame goes to the end of a queue in which all are older.
LEMMA NewestLast ==
    ASSUME TypeOK, Hands, Disjoint, Rising, Between, AtEnds,
           NEW q \in Seq(Slot), NEW s \in Slot, NEW k \in Nat,
           voice = "frame", voice' = "idle",
           pending' = Append(q, s), content' = [content EXCEPT ![s] = captured],
           \A i \in 1 .. Len(q) : i + k \in 1 .. Len(pending) /\ q[i] = pending[i + k] /\ q[i] # s,
           s # wslot,
           UNCHANGED <<pc, wslot, wframe, srv, captured>>
    PROVE  (Rising /\ Between /\ AtEnds)'
  <1>1. /\ Len(q) \in Nat /\ Len(pending') = Len(q) + 1
        /\ pending'[Len(q) + 1] = s
        /\ \A i \in 1 .. Len(q) : pending'[i] = q[i]
    BY AppendFacts
  <1>2. /\ content'[s] = captured
        /\ \A t \in Slot : t # s => content'[t] = content[t]
    BY DEF TypeOK, PoolTypes
  <1>3. \A i \in 1 .. Len(pending) : pending[i] \in Slot /\ content[pending[i]] \in Nat
    BY DEF TypeOK, PoolTypes
  <1>4. Newest' = captured /\ Newest = captured - 1 /\ captured \in Nat
    BY DEF Newest, TypeOK, DataTypes
  <1>5. Latest' = Latest /\ Latest \in Nat
    <2>1. pc \in {"flag", "read", "packet"} => wslot \in Slot
      BY DEF Hands, Holding
    <2> QED
      BY <1>2, <2>1 DEF Latest, TypeOK, DataTypes, PoolTypes, ServerTypes
  <1>6. \A i \in 1 .. Len(q) :
            content'[pending'[i]] = content[pending[i + k]] /\ content[pending[i + k]] < captured
    <2> TAKE i \in 1 .. Len(q)
    <2>1. i + k \in 1 .. Len(pending) /\ pending'[i] = pending[i + k] /\ pending[i + k] # s
      BY <1>1
    <2>2. content'[pending[i + k]] = content[pending[i + k]] /\ content[pending[i + k]] \in Nat
      BY <1>2, <1>3, <2>1
    <2>3. content[pending[i + k]] <= Newest
      BY <2>1 DEF Between
    <2> QED
      BY <1>4, <2>1, <2>2, <2>3
  <1>7. \A i \in 1 .. Len(pending') : i = Len(q) + 1 \/ i \in 1 .. Len(q)
    <2>1. Len(q) \in Nat /\ Len(pending') = Len(q) + 1
      BY <1>1
    <2> QED
      BY <2>1
  <1>8. Rising'
    <2> SUFFICES ASSUME NEW i \in 1 .. Len(pending'), NEW j \in 1 .. Len(pending'), i < j
                 PROVE  content'[pending'[i]] < content'[pending'[j]]
      BY DEF Rising
    <2>1. i \in 1 .. Len(q)
      BY <1>1
    <2>2. CASE j = Len(q) + 1
      BY <1>1, <1>2, <1>6, <2>1, <2>2
    <2>3. CASE j \in 1 .. Len(q)
      <3>1. /\ i + k \in 1 .. Len(pending) /\ j + k \in 1 .. Len(pending)
            /\ i + k < j + k
        BY <2>1, <2>3
      <3>2. content[pending[i + k]] < content[pending[j + k]]
        BY <3>1 DEF Rising
      <3> QED
        BY <1>6, <2>1, <2>3, <3>2
    <2> QED
      BY <1>7, <2>2, <2>3
  <1>9. Between'
    <2> SUFFICES ASSUME NEW i \in 1 .. Len(pending')
                 PROVE  Latest' < content'[pending'[i]] /\ content'[pending'[i]] <= Newest'
      BY DEF Between
    <2>1. CASE i = Len(q) + 1
      BY <1>1, <1>2, <1>4, <1>5, <2>1 DEF AtEnds
    <2>2. CASE i \in 1 .. Len(q)
      <3>1. i + k \in 1 .. Len(pending)
        BY <2>2
      <3>2. Latest < content[pending[i + k]] /\ content[pending[i + k]] \in Nat
        BY <1>3, <3>1 DEF Between
      <3>3. content'[pending'[i]] = content[pending[i + k]] /\ content[pending[i + k]] < captured
        BY <1>6, <2>2
      <3> QED
        BY <1>4, <1>5, <3>2, <3>3
    <2> QED
      BY <1>7, <2>1, <2>2
  <1>10. AtEnds'
    BY <1>4, <1>5 DEF AtEnds, Unsent
  <1> QED
    BY <1>8, <1>9, <1>10

LEMMA FramesStep == PoolInv /\ FramesInv /\ Next => FramesInv'
  <1> SUFFICES ASSUME PoolInv, FramesInv, Next, ~leaky'
               PROVE  (Rising /\ Between /\ AtEnds)'
    BY DEF FramesInv
  <1>1. TypeOK /\ Hands /\ DataTypes /\ PoolTypes /\ ServerTypes
    BY DEF PoolInv, TypeOK
  <1>2. ~leaky
    BY PoolMoves, <1>1, ZenonT(40)
       DEF Reset, ResetPool, PoolStays, SendAudioFree, SendAudioEvict, WorkerTake, WorkerReturn, hist
  <1>3. Rising /\ Between /\ AtEnds /\ Disjoint /\ Conserved
    BY <1>2 DEF FramesInv, PoolInv, SlotOwnership
  <1>4. CASE SendAudioFree
    <2>1. /\ free # <<>> /\ voice = "frame" /\ voice' = "idle"
          /\ content' = [content EXCEPT ![Head(free)] = captured]
          /\ UNCHANGED <<pc, wslot, wframe, srv, captured>>
      BY <1>4 DEF SendAudioFree, Enqueue, work
    <2>2. Head(free) \in Slot /\ Head(free) = free[1] /\ 1 \in 1 .. Len(free)
      BY <1>1, <2>1, TailFacts DEF PoolTypes
    <2>3. Len(pending) < Depth
      BY <1>1, <1>3, <2>1, DepthAssumption DEF Conserved, PoolTypes, Count
    <2>4. pending' = Append(pending, Head(free))
      BY <1>4, <2>3 DEF SendAudioFree
    <2>5. Head(free) # wslot /\ \A i \in 1 .. Len(pending) : pending[i] # Head(free)
      BY <1>3, <2>2 DEF Disjoint
    <2>6. \A i \in 1 .. Len(pending) :
              i + 0 \in 1 .. Len(pending) /\ pending[i] = pending[i + 0] /\ pending[i] # Head(free)
      BY <2>5
    <2>7. pending \in Seq(Slot)
      BY <1>1 DEF PoolTypes
    <2> QED
      BY <1>1, <1>3, <2>1, <2>2, <2>4, <2>5, <2>6, <2>7, NewestLast
  <1>5. CASE SendAudioEvict
    <2>1. /\ pending # <<>> /\ voice = "frame" /\ voice' = "idle"
          /\ content' = [content EXCEPT ![Head(pending)] = captured]
          /\ pending' = Append(Tail(pending), Head(pending))
          /\ UNCHANGED <<pc, wslot, wframe, srv, captured>>
      BY <1>5 DEF SendAudioEvict, Enqueue, work
    <2>2. /\ Head(pending) \in Slot /\ Head(pending) = pending[1] /\ 1 \in 1 .. Len(pending)
          /\ Tail(pending) \in Seq(Slot)
          /\ \A i \in 1 .. Len(Tail(pending)) :
                i + 1 \in 1 .. Len(pending) /\ Tail(pending)[i] = pending[i + 1]
      BY <1>1, <2>1, TailFacts DEF PoolTypes
    <2>3. Head(pending) # wslot
      BY <1>3, <2>2 DEF Disjoint
    <2>4. \A i \in 1 .. Len(Tail(pending)) : Tail(pending)[i] # Head(pending)
      <3> TAKE i \in 1 .. Len(Tail(pending))
      <3>1. i + 1 # 1
        OBVIOUS
      <3> QED
        BY <1>3, <2>2, <3>1 DEF Disjoint, Distinct
    <2>5. \A i \in 1 .. Len(Tail(pending)) :
              i + 1 \in 1 .. Len(pending) /\ Tail(pending)[i] = pending[i + 1]
              /\ Tail(pending)[i] # Head(pending)
      BY <2>2, <2>4
    <2> QED
      BY <1>1, <1>3, <2>1, <2>2, <2>3, <2>5, NewestLast
  <1>6. CASE WorkerTake
    <2>1. /\ pending # <<>> /\ pending' = Tail(pending) /\ wslot' = Head(pending)
          /\ pc = "top" /\ pc' = "flag"
          /\ UNCHANGED <<content, voice, captured, srv>>
      BY <1>6 DEF WorkerTake, talk
    <2>2. /\ Head(pending) = pending[1] /\ 1 \in 1 .. Len(pending)
          /\ \A i \in 1 .. Len(pending') :
                i + 1 \in 1 .. Len(pending) /\ pending'[i] = pending[i + 1]
      BY <1>1, <2>1, TailFacts DEF PoolTypes
    <2>3. Latest = srv.frame /\ Latest' = content[pending[1]] /\ Newest' = Newest
      BY <2>1, <2>2 DEF Latest, Newest
    <2>4. Rising'
      <3> SUFFICES ASSUME NEW i \in 1 .. Len(pending'), NEW j \in 1 .. Len(pending'), i < j
                   PROVE  content'[pending'[i]] < content'[pending'[j]]
        BY DEF Rising
      <3>1. i + 1 \in 1 .. Len(pending) /\ j + 1 \in 1 .. Len(pending) /\ i + 1 < j + 1
        BY <2>2
      <3> QED
        BY <1>3, <2>1, <2>2, <3>1 DEF Rising
    <2>5. Between'
      <3> SUFFICES ASSUME NEW i \in 1 .. Len(pending')
                   PROVE  Latest' < content'[pending'[i]] /\ content'[pending'[i]] <= Newest'
        BY DEF Between
      <3>1. i + 1 \in 1 .. Len(pending) /\ 1 < i + 1
        BY <2>2
      <3>2. content[pending[1]] < content[pending[i + 1]]
        BY <1>3, <2>2, <3>1 DEF Rising
      <3>3. content[pending[i + 1]] <= Newest
        BY <1>3, <3>1 DEF Between
      <3> QED
        BY <2>1, <2>2, <2>3, <3>2, <3>3
    <2>6. AtEnds'
      <3>1. srv.frame < content[pending[1]] /\ content[pending[1]] <= Newest
        BY <1>3, <2>2, <2>3 DEF Between
      <3>2. srv.frame \in Nat /\ content[pending[1]] \in Nat
        BY <1>1, <2>2 DEF PoolTypes, ServerTypes
      <3> QED
        BY <2>1, <2>3, <3>1, <3>2 DEF AtEnds
    <2> QED
      BY <2>4, <2>5, <2>6
  <1>7. ASSUME ~SendAudioFree, ~SendAudioEvict, ~WorkerTake
        PROVE  (Rising /\ Between /\ AtEnds)'
    <2>1. content' = content /\ (pending' = pending \/ pending' = <<>>)
      BY <1>1, <1>7, PoolMoves DEF Reset, ResetPool, WorkerReturn, PoolStays
    <2>2. AtEnds' /\ Latest' <= Latest /\ Newest <= Newest'
      BY <1>1, <1>3, <1>7, <2>1, AtEndsStep
    <2>3. CASE pending' = <<>>
      BY <2>2, <2>3 DEF Rising, Between
    <2>4. CASE pending' = pending
      <3>1. Rising'
        BY <1>3, <2>1, <2>4 DEF Rising
      <3>2. Between'
        <4> SUFFICES ASSUME NEW i \in 1 .. Len(pending)
                     PROVE  Latest' < content[pending[i]] /\ content[pending[i]] <= Newest'
          BY <2>1, <2>4 DEF Between
        <4>1. Latest < content[pending[i]] /\ content[pending[i]] <= Newest
          BY <1>3 DEF Between
        <4>2. /\ content[pending[i]] \in Nat /\ Newest \in Int /\ Newest' \in Int
              /\ Latest \in Int /\ Latest' \in Int
          <5>1. DataTypes' /\ PoolTypes' /\ ServerTypes' /\ Hands'
            BY <1>1, TypeStep DEF TypeOK
          <5>2. Newest \in Int /\ Newest' \in Int
            <6>1. captured \in Nat /\ captured' \in Nat
              BY <1>1, <5>1 DEF DataTypes
            <6> QED
              BY <6>1 DEF Newest
          <5>3. /\ pc \in {"flag", "read", "packet"} => wslot \in Slot
                /\ pc' \in {"flag", "read", "packet"} => wslot' \in Slot
            BY <1>1, <5>1 DEF Hands, Holding
          <5>4. Latest \in Int
            BY <1>1, <5>3 DEF Latest, DataTypes, PoolTypes, ServerTypes
          <5>5. Latest' \in Int
            <6>1. wframe' \in Nat /\ srv'.frame \in Nat /\ content' \in [Slot -> Nat]
              BY <5>1 DEF DataTypes, PoolTypes, ServerTypes
            <6> QED
              BY <5>3, <6>1 DEF Latest
          <5> QED
            BY <1>1, <5>2, <5>4, <5>5 DEF PoolTypes
        <4> QED
          BY <2>2, <4>1, <4>2
      <3> QED
        BY <2>2, <3>1, <3>2
    <2> QED
      BY <2>1, <2>3, <2>4
  <1> QED
    BY <1>4, <1>5, <1>6, <1>7

LEMMA NumbersStep == TypeOK /\ SessionInv /\ NumbersInv /\ Next => NumbersInv'
  <1> SUFFICES ASSUME TypeOK, SessionInv, NumbersInv, Next PROVE NumbersInv'
    OBVIOUS
  <1> USE BoundAssumption
      DEF NumbersInv, SessionInv, Sending, EndPath, Ready, MidPacket, TypeOK, FlagTypes, DataTypes,
          ServerTypes, session, stop, pool, flags, talk, task, work, hist
  <1>1. CASE LinkUp
    BY <1>1 DEF LinkUp, Silent
  <1>2. CASE LinkDown \/ HelloAcked
    BY <1>2 DEF LinkDown, HelloAcked
  <1>3. CASE EventConnected
    BY <1>3 DEF EventConnected
  <1>4. CASE EventDisconnected
    BY <1>4 DEF EventDisconnected
  <1>5. CASE HandlerReset
    BY <1>5 DEF HandlerReset, ResetPool
  <1>6. CASE StopBegin \/ StopClose \/ StopWorkerGone
    BY <1>6 DEF StopBegin, StopClose, StopWorkerGone
  <1>7. CASE StopTimeout
    BY <1>7 DEF StopTimeout
  <1>8. CASE StopSession
    BY <1>8 DEF StopSession
  <1>9. CASE StopReset \/ StopMedia
    BY <1>9 DEF StopReset, StopMedia, ResetPool
  <1>10. CASE Press \/ ReleaseOffline \/ SendAudioRefused \/ SendAudioEnd
    BY <1>10 DEF Press, ReleaseOffline, SendAudioRefused, SendAudioEnd
  <1>11. CASE Capture \/ Release
    BY <1>11 DEF Capture, Release, QueueInit
  <1>12. CASE QueueInitReset
    BY <1>12 DEF QueueInitReset, ResetPool
  <1>13. CASE SendAudioFree \/ SendAudioEvict
    BY <1>13 DEF SendAudioFree, SendAudioEvict
  <1>14. CASE WorkerTake \/ WorkerNothing \/ WorkerFlag \/ WorkerRead
    BY <1>14 DEF WorkerTake, WorkerNothing, WorkerFlag, WorkerRead
  <1>15. CASE WorkerPacket \/ WorkerEndPacket
    BY <1>15 DEF WorkerPacket, WorkerEndPacket, BuildPacket
  <1>16. CASE WorkerSendFrame
    BY <1>16 DEF WorkerSendFrame
  <1>17. CASE WorkerSendEnd
    BY <1>17 DEF WorkerSendEnd
  <1>18. CASE WorkerSendFails \/ WorkerAfter \/ WorkerClear \/ WorkerReturn
    BY <1>18 DEF WorkerSendFails, WorkerAfter, WorkerClear, WorkerReturn, LocalsEnd
  <1>19. CASE WorkerEndRead \/ WorkerEndAfter
    BY <1>19 DEF WorkerEndRead, WorkerEndAfter, LocalsEnd
  <1>20. CASE WorkerExit \/ WorkerGone
    BY <1>20 DEF WorkerExit, WorkerGone
  <1> QED
    BY <1>1, <1>2, <1>3, <1>4, <1>5, <1>6, <1>7, <1>8, <1>9, <1>10, <1>11, <1>12, <1>13, <1>14,
       <1>15, <1>16, <1>17, <1>18, <1>19, <1>20 DEF Next, Transport, Stop, Voice, Worker

\* The inductive invariant behind the order of what is sent.
OrderInv == UplinkInv /\ FramesInv /\ NumbersInv

LEMMA OrderInvariant == Spec => []OrderInv
  <1>1. Init => UplinkInv
    BY UplinkInit
  <1>2. ASSUME Init PROVE FramesInv /\ NumbersInv
    <2>1. pending = <<>> /\ voice = "idle" /\ pc = "none" /\ srv.frame = 0 /\ stopper = "idle"
          /\ link = 0 /\ connected = FALSE
      BY <1>2 DEF Init, Silent
    <2>2. captured \in Nat
      BY <1>2, SpentInit
    <2>3. Latest = 0 /\ Newest = captured
      BY <2>1 DEF Latest, Newest
    <2> QED
      BY <2>1, <2>2, <2>3 DEF FramesInv, Rising, Between, AtEnds, Unsent, NumbersInv
  <1>3. ASSUME OrderInv, Next PROVE FramesInv' /\ NumbersInv'
    BY <1>3, FramesStep, NumbersStep DEF OrderInv, UplinkInv, PoolInv
  <1>4. ASSUME OrderInv, UNCHANGED vars PROVE FramesInv' /\ NumbersInv'
    BY <1>4 DEF OrderInv, FramesInv, Rising, Between, AtEnds, Unsent, Latest, Newest, NumbersInv,
                vars, session, stop, pool, talk, work, hist
  <1>5. OrderInv /\ [Next]_vars => OrderInv'
    BY <1>3, <1>4, UplinkInvStep DEF OrderInv
  <1> QED
    BY <1>1, <1>2, <1>5, PTL DEF Spec, OrderInv

\* However the queue overflows, sends fail and connections come and go, frames
\* reach the server in the order of their capture and packets in that of their
\* numbers; only a reset in one of the named windows can break it.
THEOREM SentOrdered == Spec => SentInOrder
  <1>1. ASSUME OrderInv, Next, ~leaky, srv'.kind = "frame", srv'.seq # srv.seq
        PROVE  srv'.frame > srv.frame
    <2>1. CASE LinkUp
      BY <1>1, <2>1 DEF LinkUp, Silent
    <2>2. CASE WorkerSendFrame
      <3>1. pc = "send" /\ srv'.frame = wframe
        BY <2>2, <1>1 DEF WorkerSendFrame, OrderInv, UplinkInv, PoolInv, TypeOK, ServerTypes
      <3>2. srv.frame < wframe
        BY <1>1, <3>1 DEF OrderInv, FramesInv, AtEnds, Unsent, Latest
      <3>3. srv.frame \in Nat /\ wframe \in Nat
        BY <1>1 DEF OrderInv, UplinkInv, PoolInv, TypeOK, ServerTypes, DataTypes
      <3> QED
        BY <3>1, <3>2, <3>3
    <2>3. CASE WorkerSendEnd
      BY <1>1, <2>3 DEF WorkerSendEnd, OrderInv, UplinkInv, PoolInv, TypeOK, ServerTypes
    <2>4. CASE srv' = srv
      BY <1>1, <2>4
    <2> QED
      BY <1>1, ServerMoves, <2>1, <2>2, <2>3, <2>4
  <1>2. ASSUME OrderInv, Next, ~torn, srv' # srv, srv'.kind # "none", srv.seq < MaxSeq
        PROVE  srv'.seq > srv.seq
    <2>1. CASE LinkUp
      BY <1>2, <2>1 DEF LinkUp, Silent
    <2>2. CASE WorkerSendFrame \/ WorkerSendEnd
      <3>1. pc \in {"send", "endsend"} /\ srv'.seq = wseq
        BY <2>2, <1>2 DEF WorkerSendFrame, WorkerSendEnd, OrderInv, UplinkInv, PoolInv, TypeOK, ServerTypes
      <3>2. srv.seq < wseq
        BY <1>2, <3>1 DEF OrderInv, NumbersInv
      <3>3. srv.seq \in Nat /\ wseq \in Nat
        BY <1>2 DEF OrderInv, UplinkInv, PoolInv, TypeOK, ServerTypes, DataTypes
      <3> QED
        BY <3>1, <3>2, <3>3
    <2> QED
      BY <1>2, ServerMoves, <2>1, <2>2
  <1>3. OrderInv /\ [Next]_vars
        => [~leaky /\ srv'.kind = "frame" /\ srv'.seq # srv.seq => srv'.frame > srv.frame]_vars
    BY <1>1
  <1>4. OrderInv /\ [Next]_vars
        => [~torn /\ srv' # srv /\ srv'.kind # "none" /\ srv.seq < MaxSeq => srv'.seq > srv.seq]_vars
    BY <1>2
  <1>5. Spec => FrameOrder
    BY <1>3, OrderInvariant, PTL DEF Spec, FrameOrder
  <1>6. Spec => SequenceOrder
    BY <1>4, OrderInvariant, PTL DEF Spec, SequenceOrder
  <1> QED
    BY <1>5, <1>6 DEF SentInOrder

=============================================================================

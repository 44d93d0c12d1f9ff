--------------------------- MODULE BattleRoomProofs ---------------------------
(***************************************************************************)
(* The invariants and action properties of BattleRoom, for every value of  *)
(* its constants.  RoomOK (BattleRoomLemmas) is kept by every method; what *)
(* is added here is the catch-up loop and the clock.                       *)
(***************************************************************************)
EXTENDS BattleRoom, BattleRoomLemmas

\* Inside the catch-up loop the game is running and nobody is away.
LoopInv ==
    due > 0 => room.phase = "playing" /\ ~IsWaitingForReconnect(room)

\* Every frame played is paid for by time up to lastTick, and the frames the
\* loop still has to play are paid for by time up to now.
ClockInv ==
    (backs = 0 /\ room.phase = "playing") =>
        /\ room.startedAt + room.frame * kFrameIntervalMs <= room.lastTick
        /\ room.lastTick + due * kFrameIntervalMs <= now

Inv ==
    /\ RoomOK(room)
    /\ now \in Nat /\ now >= kStart
    /\ due \in 0..kMaxCatchUpFrames
    /\ backs \in 0..MaxBacks
    /\ LoopInv
    /\ ClockInv
    /\ NeverAheadOfClock

\* The invariant holds of a room just created.
LEMMA InitInv == Init => Inv
<1> SUFFICES ASSUME Init
             PROVE  Inv
  OBVIOUS
<1>1. kStart \in Nat /\ kStart \in Int /\ MaxBacks \in Nat
      /\ kMaxCatchUpFrames \in Nat
  BY ClockAssumption, ConstantsAssumption
<1>2. RoomOK(room) /\ room.phase = "created" /\ room.frame = 0
  BY <1>1, NewRoomOK DEF Init
<1> QED
  BY <1>1, <1>2 DEF Init, Inv, LoopInv, ClockInv, NeverAheadOfClock

\* A step that keeps frame and start, and either keeps the phase and the time
\* base or ends the game, keeps both clock facts.
LEMMA StillClock ==
    ASSUME Inv, LockFree, UNCHANGED <<now, due, backs>>, RoomOK(room'),
           Still(room', room),
           \/ room'.phase # "playing"
           \/ room.phase = "playing" /\ room'.lastTick \in {room.lastTick, now}
    PROVE  Inv'
<1>1. /\ room.frame \in Nat /\ room.startedAt \in Int /\ now \in Int
      /\ room.lastTick \in Int /\ kFrameIntervalMs \in Nat
  BY ConstantsAssumption DEF Inv, RoomOK, RoomType
<1>2. room'.frame = room.frame /\ room'.startedAt = room.startedAt
  BY DEF Still
<1>3. due = 0 /\ due' = 0 /\ now' = now /\ backs' = backs
  BY DEF LockFree
<1>4. ClockInv'
  <2> SUFFICES ASSUME backs = 0, room'.phase = "playing"
               PROVE  /\ room.startedAt + room.frame * kFrameIntervalMs
                            <= room'.lastTick
                      /\ room'.lastTick + 0 * kFrameIntervalMs <= now
    BY <1>2, <1>3 DEF ClockInv
  <2>1. /\ room.startedAt + room.frame * kFrameIntervalMs <= room.lastTick
        /\ room.lastTick <= now
    BY <1>1, <1>3 DEF Inv, ClockInv
  <2>2. room.frame * kFrameIntervalMs \in Int /\ 0 * kFrameIntervalMs = 0
    BY <1>1
  <2> QED BY <1>1, <2>1, <2>2
<1>5. NeverAheadOfClock'
  BY <1>2, <1>3 DEF Inv, NeverAheadOfClock
<1>6. LoopInv'
  BY <1>3 DEF LoopInv
<1> QED
  BY <1>3, <1>4, <1>5, <1>6 DEF Inv

\* Every action keeps the invariant.
LEMMA StepInv == Inv /\ [Next]_vars => Inv'
<1> SUFFICES ASSUME Inv, [Next]_vars
             PROVE  Inv'
  OBVIOUS
<1> USE DEF Inv
<1>0. /\ room \in RoomType /\ now \in Int /\ room.frame \in Nat
      /\ room.startedAt \in Int /\ room.lastTick \in Int
      /\ kFrameIntervalMs \in Nat \ {0} /\ kMaxCatchUpFrames \in Nat
  BY ConstantsAssumption DEF RoomOK, RoomType
<1>1. ASSUME NEW i \in Slots, Join(i)
      PROVE  Inv'
  <2>1. RoomOK(room')
    BY <1>0, <1>1, JoinOK DEF Join
  <2>2. CASE room' = room
    BY <1>1, <2>2 DEF Join, LoopInv, ClockInv, NeverAheadOfClock,
                      IsWaitingForReconnect
  <2>3. CASE /\ room'.frame = 0
             /\ room'.phase = "playing" =>
                   room'.startedAt = now /\ room'.lastTick = now
    <3>1. due' = 0 /\ now' = now /\ backs' = backs /\ due = 0
      BY <1>1 DEF Join, LockFree
    <3>2. 0 * kFrameIntervalMs = 0
      BY <1>0
    <3> QED
      BY <1>0, <2>1, <2>3, <3>1, <3>2 DEF LoopInv, ClockInv, NeverAheadOfClock
  <2> QED BY <1>0, <1>1, <2>2, <2>3, JoinTiming DEF Join
<1>2. ASSUME NEW i \in Slots, SubmitInput(i)
      PROVE  Inv'
  <2>1. RoomOK(room')
    BY <1>2, SubmitOK DEF SubmitInput
  <2>2. /\ Still(room', room) /\ room'.phase = room.phase
        /\ room'.lastTick = room.lastTick
    BY <1>0, <1>2 DEF SubmitInput, SubmitAttack, Still, RoomType
  <2> QED BY <1>2, <2>1, <2>2, StillClock DEF SubmitInput
<1>3. ASSUME NEW i \in Slots, NEW on \in BOOLEAN, SetPresence(i, on)
      PROVE  Inv'
  <2>1. RoomOK(room')
    BY <1>0, <1>3, PresenceOK DEF SetPresence
  <2>2. /\ Still(room', room) /\ room'.phase = room.phase
        /\ room'.lastTick = room.lastTick
    BY <1>0, <1>3, PresenceStill DEF SetPresence
  <2> QED BY <1>3, <2>1, <2>2, StillClock DEF SetPresence
<1>4. CASE TickWaiting \/ AbortForShutdown
  <2>1. /\ room.phase \in Unfinished /\ room' = Abort(room, now)
        /\ LockFree /\ UNCHANGED <<now, due, backs>>
    BY <1>4 DEF TickWaiting, AbortForShutdown, Unfinished
  <2>2. RoomOK(room')
    BY <1>0, <2>1, AbortOK
  <2>3. Still(room', room) /\ room'.phase = "aborted"
    BY <1>0, <2>1, AbortStill
  <2> QED BY <2>1, <2>2, <2>3, StillClock
<1>5. CASE TickAway
  <2>1. RoomOK(room')
    BY <1>0, <1>5, PausedOK DEF TickAway
  <2>2. Still(room', room) /\ (room'.phase = "playing" => room'.lastTick = now)
    BY <1>0, <1>5, PausedStill DEF TickAway
  <2> QED BY <1>5, <2>1, <2>2, StillClock DEF TickAway
<1>6. CASE TickBegin
  <2> DEFINE n == ElapsedFrames(room, now)
             d == FramesDue(room, now)
  <2>1. /\ n \in Nat /\ d \in 0..kMaxCatchUpFrames /\ d <= n
        /\ now >= room.lastTick => n * kFrameIntervalMs <= now - room.lastTick
    BY <1>0, FramesFacts DEF FramesDue
  <2>2. RoomOK(room')
    BY <1>0, <1>6, <2>1, DropOK DEF TickBegin
  <2>3. now >= room.lastTick
    BY <1>0, <1>6, <2>1 DEF TickBegin, ElapsedFrames
  <2>4. room' = [room EXCEPT !.lastTick = @ + (n - d) * kFrameIntervalMs]
    BY <1>6 DEF TickBegin, DropExcess
  <2>5. due' = d /\ now' = now /\ backs' = backs /\ room.phase = "playing"
        /\ ~IsWaitingForReconnect(room) /\ due = 0
    BY <1>6 DEF TickBegin, LockFree
  <2> HIDE DEF n, d
  <2> DEFINE x == (n - d) * kFrameIntervalMs
  <2>6. x \in Int /\ x >= 0 /\ x + d * kFrameIntervalMs = n * kFrameIntervalMs
        /\ d * kFrameIntervalMs \in Int /\ n * kFrameIntervalMs \in Int
    BY <1>0, <2>1
  <2>7. room' = [room EXCEPT !.lastTick = @ + x]
    BY <2>4
  <2> HIDE DEF x
  <2>8. /\ room'.lastTick = room.lastTick + x /\ room'.frame = room.frame
        /\ room'.startedAt = room.startedAt /\ room'.phase = room.phase
        /\ room'.online = room.online
    BY <1>0, <2>7 DEF RoomType
  <2>9. ClockInv'
    <3> SUFFICES ASSUME backs = 0
                 PROVE  /\ room.startedAt + room.frame * kFrameIntervalMs
                              <= room.lastTick + x
                        /\ (room.lastTick + x) + d * kFrameIntervalMs <= now
      BY <2>5, <2>8 DEF ClockInv
    <3>1. room.startedAt + room.frame * kFrameIntervalMs <= room.lastTick
      BY <2>5 DEF ClockInv
    <3>2. room.frame * kFrameIntervalMs \in Int
      BY <1>0
    <3> QED BY <1>0, <2>1, <2>3, <2>6, <3>1, <3>2
  <2>10. NeverAheadOfClock' /\ LoopInv'
    BY <2>5, <2>8 DEF NeverAheadOfClock, LoopInv, IsWaitingForReconnect
  <2> QED BY <2>1, <2>2, <2>5, <2>9, <2>10
<1>7. CASE TickFrame
  <2>1. /\ due > 0 /\ due \in Nat /\ room.phase = "playing"
        /\ ~IsWaitingForReconnect(room)
    BY <1>0, <1>7 DEF TickFrame, LoopInv
  <2>2. RoomOK(room')
    BY <1>0, <1>7, <2>1, FrameOK DEF TickFrame
  <2>3. /\ room'.frame = room.frame + 1 /\ room'.startedAt = room.startedAt
        /\ room'.phase = "playing" =>
              /\ room'.lastTick = room.lastTick + kFrameIntervalMs
              /\ room'.online = room.online
    BY <1>0, <1>7, <2>1, FrameTiming DEF TickFrame
  <2>4. /\ now' = now /\ backs' = backs
        /\ due' = IF room'.phase = "playing" THEN due - 1 ELSE 0
    BY <1>7 DEF TickFrame
  <2>5. due' \in 0..kMaxCatchUpFrames
    BY <1>0, <2>1, <2>4
  <2>6. /\ (room.frame + 1) * kFrameIntervalMs
              = room.frame * kFrameIntervalMs + kFrameIntervalMs
        /\ (due - 1) * kFrameIntervalMs
              = due * kFrameIntervalMs - kFrameIntervalMs
        /\ room.frame * kFrameIntervalMs \in Int
        /\ due * kFrameIntervalMs \in Int
        /\ due * kFrameIntervalMs >= kFrameIntervalMs
    BY <1>0, <2>1
  <2>7. backs = 0 =>
          /\ room.startedAt + room.frame * kFrameIntervalMs <= room.lastTick
          /\ room.lastTick + due * kFrameIntervalMs <= now
    BY <2>1 DEF ClockInv
  <2>8. ClockInv'
    BY <1>0, <2>3, <2>4, <2>6, <2>7 DEF ClockInv
  <2>9. NeverAheadOfClock'
    BY <1>0, <2>3, <2>4, <2>6, <2>7 DEF NeverAheadOfClock
  <2>10. LoopInv'
    BY <2>1, <2>3, <2>4 DEF LoopInv, IsWaitingForReconnect
  <2> QED BY <2>2, <2>4, <2>5, <2>8, <2>9, <2>10
<1>8. CASE ResultPersisted \/ ResultFailed
  <2>1. /\ LockFree /\ UNCHANGED <<now, due, backs>>
        /\ \/ room' = MarkResultPersisted(room)
           \/ room' = MarkResultFailed(room, now)
    BY <1>8 DEF ResultPersisted, ResultFailed
  <2>2. RoomOK(room')
    BY <1>0, <2>1, MarkOK
  <2>3. /\ Still(room', room)
        /\ \/ room'.phase # "playing"
           \/ room.phase = "playing" /\ room'.lastTick = room.lastTick
    BY <1>0, <2>1
    DEF MarkResultPersisted, MarkResultFailed, Still, RoomType
  <2> QED BY <2>1, <2>2, <2>3, StillClock
<1>9. CASE ClockAdvances
  <2>1. now' = now + 1 /\ room' = room /\ due' = due /\ backs' = backs
        /\ due = 0
    BY <1>9 DEF ClockAdvances, LockFree
  <2>2. room.frame * kFrameIntervalMs \in Int /\ 0 * kFrameIntervalMs = 0
        /\ kStart \in Nat
    BY <1>0, ClockAssumption
  <2> QED
    BY <1>0, <2>1, <2>2
    DEF LoopInv, ClockInv, NeverAheadOfClock, IsWaitingForReconnect
<1>10. CASE ClockSetBack
  <2>1. /\ now' = now - 1 /\ now > kStart /\ room' = room /\ due' = due
        /\ backs' = backs + 1 /\ backs < MaxBacks /\ due = 0
    BY <1>10 DEF ClockSetBack, LockFree
  <2>2. kStart \in Nat /\ MaxBacks \in Nat /\ backs \in Nat
    BY ClockAssumption
  <2>3. now' \in Nat /\ now' >= kStart /\ backs' \in 0..MaxBacks
        /\ backs' # 0
    BY <2>1, <2>2
  <2> QED
    BY <2>1, <2>3
    DEF LoopInv, ClockInv, NeverAheadOfClock, IsWaitingForReconnect
<1>11. CASE UNCHANGED vars
  BY <1>11
  DEF vars, LoopInv, ClockInv, NeverAheadOfClock, IsWaitingForReconnect
<1> QED
  BY <1>1, <1>2, <1>3, <1>4, <1>5, <1>6, <1>7, <1>8, <1>9, <1>10, <1>11
  DEF Next

-----------------------------------------------------------------------------
\* Every reachable state of a room satisfies the inductive invariant.
THEOREM RoomInvariant == Spec => []Inv
<1>1. Init => Inv
  BY InitInv
<1>2. Inv /\ [Next]_vars => Inv'
  BY StepInv
<1> QED BY <1>1, <1>2, PTL DEF Spec

\* BattleRoom's fields keep their ranges: hit points and frames never go
\* below 0, the ring is never empty and never longer than kMaxSnapshotHistory.
THEOREM TypeCorrect == Spec => []TypeOK
<1>1. Inv => TypeOK
  BY DEF Inv, TypeOK, RoomOK, Ring
<1> QED BY <1>1, RoomInvariant, PTL

\* Whoever AdvanceOneFrame or ResolveReconnectGrace names the winner, the
\* state of the room says so too.
THEOREM Verdicts == Spec => []VerdictIsFair
<1>1. Inv => VerdictIsFair
  BY DEF Inv, RoomOK, VerdictIsFair
<1> QED BY <1>1, RoomInvariant, PTL

\* At most one attack per player lands in a frame, catch-up included.
THEOREM Damage == Spec => []OneHitPerFrame
<1>1. Inv => OneHitPerFrame
  BY DEF Inv, RoomOK, OneHitPerFrame
<1> QED BY <1>1, RoomInvariant, PTL

\* Tick never plays more frames than the clock has room for.
THEOREM Pace == Spec => []NeverAheadOfClock
<1>1. Inv => NeverAheadOfClock
  BY DEF Inv
<1> QED BY <1>1, RoomInvariant, PTL

\* What GetSnapshotsSince calls complete is complete, for every ring size.
THEOREM Backfill == Spec => []BackfillIsComplete
<1>1. Inv => BackfillIsComplete
  <2> SUFFICES ASSUME Inv, NEW since \in 0..room.frame
               PROVE  CompleteBackfill(room, since)
    BY DEF BackfillIsComplete
  <2>1. room.frame \in Nat
    BY DEF Inv, RoomOK, RoomType
  <2> QED BY <2>1, BackfillOK DEF Inv
<1> QED BY <1>1, RoomInvariant, PTL

\* Nothing moves while a player is away.
THEOREM Pause == Spec => PauseFreezesGame
<1>1. ASSUME Inv, [Next]_vars,
             room.phase = "playing", IsWaitingForReconnect(room)
      PROVE  room'.frame = room.frame /\ room'.hp = room.hp
  <2>0. /\ RoomOK(room) /\ room \in RoomType /\ now \in Int
        /\ \A i \in Slots : room.connected[i]
    BY <1>1 DEF Inv, RoomOK, Fresh
  <2>1. ASSUME NEW i \in Slots, Join(i)
        PROVE  Still(room', room)
    BY <2>0, <2>1 DEF Join, JoinRoom, Still
  <2>2. ASSUME NEW i \in Slots, SubmitInput(i)
        PROVE  Still(room', room)
    BY <2>0, <2>2 DEF SubmitInput, SubmitAttack, Still, RoomType
  <2>3. ASSUME NEW i \in Slots, NEW on \in BOOLEAN, SetPresence(i, on)
        PROVE  Still(room', room)
    BY <2>0, <2>3, PresenceStill DEF SetPresence
  <2>4. CASE TickWaiting \/ AbortForShutdown
    BY <2>0, <2>4, AbortStill DEF TickWaiting, AbortForShutdown, Still
  <2>5. CASE TickAway
    BY <2>0, <2>5, PausedStill DEF TickAway, Still
  <2>6. CASE TickBegin
    BY <1>1, <2>6 DEF TickBegin
  <2>7. CASE TickFrame
    BY <1>1, <2>7 DEF TickFrame, Inv, LoopInv
  <2>8. CASE ResultPersisted \/ ResultFailed
    BY <1>1, <2>8 DEF ResultPersisted, ResultFailed, MarkResultPersisted,
                      MarkResultFailed
  <2>9. CASE ClockAdvances \/ ClockSetBack \/ UNCHANGED vars
    BY <2>9 DEF ClockAdvances, ClockSetBack, vars
  <2> QED
    BY <1>1, <2>1, <2>2, <2>3, <2>4, <2>5, <2>6, <2>7, <2>8, <2>9
    DEF Next, Still
<1> QED BY <1>1, RoomInvariant, PTL DEF Spec, PauseFreezesGame

\* A finished game is only ever marked persisted, never changed.
THEOREM Final == Spec => OverIsFinal
<1> DEFINE Kept == /\ Snapshot(room') = [Snapshot(room) EXCEPT
                                            !.phase = room'.phase]
                   /\ room'.finishedAt = room.finishedAt
                   /\ \/ room'.phase = room.phase
                      \/ room.phase = "finishing" /\ room'.phase = "finished"
<1>1. ASSUME Inv, [Next]_vars, room.phase \in Over
      PROVE  Kept
  <2>0. /\ room \in RoomType
        /\ room.phase # "playing" /\ room.phase \notin Unfinished
    BY <1>1 DEF Inv, RoomOK, Over, Unfinished
  <2>1. CASE room' = room
    BY <2>0, <2>1 DEF Snapshot, RoomType
  <2>2. CASE ResultPersisted
    <3>1. \/ room' = room
          \/ /\ room.phase = "finishing"
             /\ room' = [room EXCEPT !.phase = "finished"]
      BY <2>2 DEF ResultPersisted, MarkResultPersisted
    <3>2. CASE room' = [room EXCEPT !.phase = "finished"]
      <4>1. /\ room'.phase = "finished" /\ room'.finishedAt = room.finishedAt
            /\ room'.frame = room.frame /\ room'.hp = room.hp
            /\ room'.connected = room.connected /\ room'.online = room.online
            /\ room'.reason = room.reason /\ room'.winner = room.winner
        BY <2>0, <3>2 DEF RoomType
      <4> QED BY <3>1, <4>1 DEF Snapshot
    <3> QED BY <2>1, <3>1, <3>2
  <2>3. CASE ResultFailed
    <3>1. room' = room \/ room' = [room EXCEPT !.lastPersist = now]
      BY <2>3 DEF ResultFailed, MarkResultFailed
    <3>2. CASE room' = [room EXCEPT !.lastPersist = now]
      <4>1. /\ room'.phase = room.phase /\ room'.finishedAt = room.finishedAt
            /\ room'.frame = room.frame /\ room'.hp = room.hp
            /\ room'.connected = room.connected /\ room'.online = room.online
            /\ room'.reason = room.reason /\ room'.winner = room.winner
        BY <2>0, <3>2 DEF RoomType
      <4> QED BY <4>1 DEF Snapshot
    <3> QED BY <2>1, <3>1, <3>2
  <2>4. ~TickFrame /\ ~TickWaiting /\ ~TickAway /\ ~TickBegin
        /\ ~AbortForShutdown
    BY <1>1, <2>0
    DEF TickFrame, TickWaiting, TickAway, TickBegin, AbortForShutdown, Inv,
        LoopInv, Unfinished
  <2>5. ASSUME NEW i \in Slots, Join(i)
        PROVE  room' = room
    BY <1>1, <2>5 DEF Join, JoinRoom
  <2>6. ASSUME NEW i \in Slots, SubmitInput(i)
        PROVE  room' = room
    BY <2>0, <2>6 DEF SubmitInput, SubmitAttack
  <2>7. ASSUME NEW i \in Slots, NEW on \in BOOLEAN, SetPresence(i, on)
        PROVE  room' = room
    BY <1>1, <2>7 DEF SetPresence, ReportPresence
  <2>8. CASE ClockAdvances \/ ClockSetBack \/ UNCHANGED vars
    BY <2>1, <2>8 DEF ClockAdvances, ClockSetBack, vars
  <2> HIDE DEF Kept
  <2> QED
    BY <1>1, <2>1, <2>2, <2>3, <2>4, <2>5, <2>6, <2>7, <2>8 DEF Next
<1> QED BY <1>1, RoomInvariant, PTL DEF Spec, OverIsFinal

=============================================================================

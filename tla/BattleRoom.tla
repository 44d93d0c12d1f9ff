------------------------------ MODULE BattleRoom ------------------------------
(***************************************************************************)
(* The life of one room under arbitrary requests, presence reports, ticks  *)
(* and a wall clock (system_clock) that may be set back.                   *)
(*                                                                         *)
(* BattleRoom::Tick may advance several frames while RoomManager holds its *)
(* mutex.  Here each pass of that loop is a step of its own: due counts    *)
(* the passes left, and while it is not 0 the lock is held, so no other    *)
(* action is enabled and the tick's now_ms does not move.                  *)
(***************************************************************************)
EXTENDS BattleRoomOps

CONSTANTS kStart,      \* wall clock when the room is created
          MaxTime,     \* bound: the clock stops here
          MaxBacks     \* bound: how often the clock may be set back

ASSUME ClockAssumption ==
    /\ kStart \in Nat
    /\ kStart >= kResultRetryIntervalMs
    /\ MaxTime \in Nat
    /\ MaxBacks \in Nat

VARIABLES room, now, due, backs
vars == <<room, now, due, backs>>

-----------------------------------------------------------------------------
Init ==
    /\ room = NewRoom(kStart)
    /\ now = kStart
    /\ due = 0
    /\ backs = 0

LockFree == due = 0

Join(i) ==
    /\ LockFree
    /\ room' = JoinRoom(room, i, now)
    /\ UNCHANGED <<now, due, backs>>

SubmitInput(i) ==
    /\ LockFree
    /\ room' = SubmitAttack(room, i)
    /\ UNCHANGED <<now, due, backs>>

SetPresence(i, online) ==
    /\ LockFree
    /\ room' = ReportPresence(room, i, online, now)
    /\ UNCHANGED <<now, due, backs>>

\* Tick of a room nobody, or only one player, has joined.
TickWaiting ==
    /\ LockFree
    /\ room.phase \in {"created", "waiting"}
    /\ WaitingTimedOut(room, now)
    /\ room' = Abort(room, now)
    /\ UNCHANGED <<now, due, backs>>

\* Tick of a game one of whose players is away.
TickAway ==
    /\ LockFree
    /\ room.phase = "playing"
    /\ IsWaitingForReconnect(room)
    /\ room' = TickPaused(room, now)
    /\ UNCHANGED <<now, due, backs>>

\* Mutant: frames are played although a player is away.
TickBeginWhileAway ==
    /\ LockFree
    /\ room.phase = "playing"
    /\ FramesDue(room, now) > 0
    /\ room' = DropExcess(room, now)
    /\ due' = FramesDue(room, now)
    /\ UNCHANGED <<now, backs>>

\* Tick of a running game: how many frames to play.
TickBegin ==
    /\ LockFree
    /\ room.phase = "playing"
    /\ ~IsWaitingForReconnect(room)
    /\ FramesDue(room, now) > 0
    /\ room' = DropExcess(room, now)
    /\ due' = FramesDue(room, now)
    /\ UNCHANGED <<now, backs>>

\* Mutant: the catch-up loop goes on after the game has ended.
TickFramePastTheEnd ==
    /\ due > 0
    /\ room' = AdvanceOneFrame(room, now)
    /\ due' = due - 1
    /\ UNCHANGED <<now, backs>>

\* One pass of the catch-up loop, which ends early when the game does.
TickFrame ==
    /\ due > 0
    /\ room' = AdvanceOneFrame(room, now)
    /\ due' = IF room'.phase = "playing" THEN due - 1 ELSE 0
    /\ UNCHANGED <<now, backs>>

\* RoomManager::Tick after the result was written, or could not be.
ResultPersisted ==
    /\ LockFree
    /\ room' = MarkResultPersisted(room)
    /\ UNCHANGED <<now, due, backs>>

ResultFailed ==
    /\ LockFree
    /\ ShouldRetryPersist(room, now)
    /\ room' = MarkResultFailed(room, now)
    /\ UNCHANGED <<now, due, backs>>

\* RoomManager::AbortUnfinishedGames when the process drains.
AbortForShutdown ==
    /\ LockFree
    /\ room.phase \in Unfinished
    /\ room' = Abort(room, now)
    /\ UNCHANGED <<now, due, backs>>

ClockAdvances ==
    /\ LockFree
    /\ now < MaxTime
    /\ now' = now + 1
    /\ UNCHANGED <<room, due, backs>>

ClockSetBack ==
    /\ LockFree
    /\ backs < MaxBacks
    /\ now > kStart
    /\ now' = now - 1
    /\ backs' = backs + 1
    /\ UNCHANGED <<room, due>>

Next ==
    \/ \E i \in Slots : Join(i) \/ SubmitInput(i)
    \/ \E i \in Slots, online \in BOOLEAN : SetPresence(i, online)
    \/ TickWaiting \/ TickAway \/ TickBegin \/ TickFrame
    \/ ResultPersisted \/ ResultFailed \/ AbortForShutdown
    \/ ClockAdvances \/ ClockSetBack

Spec == Init /\ [][Next]_vars

-----------------------------------------------------------------------------
\* Type invariant: hit points and frame numbers are never negative, the ring
\* is never empty and never over its size, and due is within the catch-up limit.
TypeOK ==
    /\ room \in RoomType
    /\ Len(room.history) \in 1..kMaxSnapshotHistory
    /\ now \in Nat
    /\ due \in 0..kMaxCatchUpFrames
    /\ backs \in 0..MaxBacks

\* A verdict agrees with the state it was reached in (AdvanceOneFrame,
\* ResolveReconnectGrace): somebody is at 0 and the winner is the only one
\* who is not; or the frames ran out with both alive and the winner leads; or
\* the winner stayed, and the loser had been away for the whole grace period.
\* A game without a verdict has both players alive and frames left.
VerdictIsFair == FairVerdict(room)

\* No player loses more than one attack per frame played, however many
\* attacks are submitted and however many frames one Tick catches up on.
OneHitPerFrame == DamageWithinFrames(room)

\* Frames are never played ahead of real time: as long as the clock was not
\* set back, a game has had at most one frame per kFrameIntervalMs since both
\* players joined, across late ticks, catch-up, dropped frames and pauses.
NeverAheadOfClock ==
    (backs = 0 /\ room.frame > 0)
        => room.frame * kFrameIntervalMs <= now - room.startedAt

\* What a reconnecting client is sent is complete: whenever GetSnapshotsSince
\* says kOk, the entries SnapshotsAfter picks are, in ring order, exactly one
\* for each frame after the one the client has, none missing, none twice.
BackfillIsComplete ==
    \A since \in 0..room.frame : CompleteBackfill(room, since)

\* While a player is away the game stands still: no step moves the frame or
\* any hit points (Tick settles the grace period and returns).
PauseFreezesGame ==
    [][(room.phase = "playing" /\ IsWaitingForReconnect(room))
          => (room'.frame = room.frame /\ room'.hp = room.hp)]_vars

\* Once a game is over nothing about it changes but finishing -> finished:
\* late joins, inputs, presence reports, ticks and the drain leave it alone.
OverIsFinal ==
    [][room.phase \in Over =>
          /\ Snapshot(room') = [Snapshot(room) EXCEPT !.phase = room'.phase]
          /\ room'.finishedAt = room.finishedAt
          /\ \/ room'.phase = room.phase
             \/ room.phase = "finishing" /\ room'.phase = "finished"]_vars
=============================================================================

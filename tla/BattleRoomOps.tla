---------------------------- MODULE BattleRoomOps ----------------------------
(***************************************************************************)
(* One battle room as a value, and what every method of class BattleRoom   *)
(* (src/room/battle_room.cpp) does to it.  The class has no lock of its    *)
(* own: RoomManager calls it with its mutex held, so a method is one       *)
(* operator from a room to a room.  BattleRoom runs a single room,         *)
(* RoomManager a registry of them.                                         *)
(*                                                                         *)
(* A player is its position in players_ (1 or 2); the winner 0 is the      *)
(* empty winner_id_ (a draw, or no winner).  Requests that name a          *)
(* stranger, an over-long id or an unknown input kind are refused before   *)
(* any state changes and are left out.                                     *)
(***************************************************************************)
EXTENDS Integers, Sequences

CONSTANTS
    kInitialHp, kAttackDamage, kMaxFrames, kMaxCatchUpFrames,
    kMaxSnapshotHistory,          \* entries of the snapshot ring
    kFrameIntervalMs, kWaitingTimeoutMs, kReconnectGraceMs,
    kResultRetryIntervalMs, kFinishedRetentionMs

ASSUME ConstantsAssumption ==
    /\ kInitialHp \in Nat \ {0}
    /\ kAttackDamage \in Nat \ {0}
    /\ kMaxFrames \in Nat \ {0}
    /\ kMaxCatchUpFrames \in Nat \ {0}
    /\ kMaxSnapshotHistory \in Nat \ {0}
    /\ kFrameIntervalMs \in Nat \ {0}
    /\ kWaitingTimeoutMs \in Nat
    /\ kReconnectGraceMs \in Nat
    /\ kResultRetryIntervalMs \in Nat
    /\ kFinishedRetentionMs \in Nat \ {0}

Slots == {1, 2}
Opponent(i) == 3 - i
NoWinner == 0

Unfinished == {"created", "waiting", "playing"}
Over == {"finishing", "finished", "aborted"}
RoomPhase == Unfinished \cup Over
FinishReason == {"none", "hp_zero", "timeout", "aborted", "disconnect"}

-----------------------------------------------------------------------------
(* The snapshot ring.                                                      *)

Snapshot(r) ==
    [phase |-> r.phase, frame |-> r.frame, hp |-> r.hp,
     connected |-> r.connected, online |-> r.online,
     reason |-> r.reason, winner |-> r.winner]

\* Mutant: the ring evicts one entry late.
PushSnapshotEvictsLate(r) ==
    LET longer == Append(r.history, Snapshot(r))
    IN  [r EXCEPT !.history = IF Len(longer) > kMaxSnapshotHistory + 1
                              THEN Tail(longer) ELSE longer]

PushSnapshot(r) ==
    LET longer == Append(r.history, Snapshot(r))
    IN  [r EXCEPT !.history = IF Len(longer) > kMaxSnapshotHistory
                              THEN Tail(longer) ELSE longer]

\* Smallest frame the ring still holds (SnapshotFrameRange().oldest).
OldestFrame(r) ==
    CHOOSE f \in {r.history[i].frame : i \in DOMAIN r.history} :
        \A i \in DOMAIN r.history : f <= r.history[i].frame

\* Positions SnapshotsAfter returns: past the requested frame, and the last
\* of a run of entries for one frame.
SnapshotsAfter(r, since) ==
    {i \in DOMAIN r.history :
        /\ r.history[i].frame > since
        /\ i < Len(r.history) => r.history[i + 1].frame # r.history[i].frame}

\* Mutant: a gap of one frame is not noticed.
SnapshotRangeMissesGap(r, since) ==
    IF since > r.frame THEN "ahead"
    ELSE IF since + 2 < OldestFrame(r) THEN "incomplete"
    ELSE "ok"

SnapshotRange(r, since) ==
    IF since > r.frame THEN "ahead"
    ELSE IF since + 1 < OldestFrame(r) THEN "incomplete"
    ELSE "ok"

-----------------------------------------------------------------------------
(* Construction, and reconstruction after a restart.                       *)

NewRoom(now) ==
    PushSnapshot(
        [phase |-> "created", reason |-> "none", winner |-> NoWinner,
         frame |-> 0,
         hp |-> [i \in Slots |-> kInitialHp],
         connected |-> [i \in Slots |-> FALSE],
         online |-> [i \in Slots |-> TRUE],
         offlineSince |-> [i \in Slots |-> 0],
         pending |-> [i \in Slots |-> FALSE],
         createdAt |-> now, startedAt |-> 0, finishedAt |-> 0,
         lastTick |-> 0, lastPersist |-> 0,
         history |-> <<>>])

\* rec is a row of table rooms.  Presence and pending attacks are not stored:
\* both players come back online, and down time is not played.
RestoreFrom(rec, now) ==
    PushSnapshot(
        [phase |-> rec.phase, reason |-> rec.reason, winner |-> rec.winner,
         frame |-> rec.frame,
         hp |-> rec.hp, connected |-> rec.joined,
         online |-> [i \in Slots |-> TRUE],
         offlineSince |-> [i \in Slots |-> 0],
         pending |-> [i \in Slots |-> FALSE],
         createdAt |-> IF rec.snapshotAt > 0 THEN rec.snapshotAt ELSE now,
         startedAt |-> rec.startedAt, finishedAt |-> rec.finishedAt,
         lastTick |-> now, lastPersist |-> now - kResultRetryIntervalMs,
         history |-> <<>>])

-----------------------------------------------------------------------------
(* Ways a game ends.                                                       *)

Finish(r, reason, winner, now) ==
    PushSnapshot([r EXCEPT !.phase = "finishing", !.reason = reason,
                           !.winner = winner, !.finishedAt = now,
                           !.lastPersist = 0])

Abort(r, now) ==
    PushSnapshot([r EXCEPT !.phase = "aborted", !.reason = "aborted",
                           !.winner = NoWinner, !.finishedAt = now])

-----------------------------------------------------------------------------
(* Requests.                                                               *)

\* Mutant: the game starts without a time base of its own.
JoinRoomKeepsTimeBase(r, i, now) ==
    IF r.phase \in Over \/ r.connected[i] THEN r
    ELSE LET joined == [r EXCEPT !.connected[i] = TRUE]
         IN  PushSnapshot(
               IF joined.connected[Opponent(i)]
               THEN [joined EXCEPT !.phase = "playing", !.startedAt = now]
               ELSE [joined EXCEPT !.phase = "waiting"])

JoinRoom(r, i, now) ==
    IF r.phase \in Over \/ r.connected[i] THEN r
    ELSE LET joined == [r EXCEPT !.connected[i] = TRUE]
         IN  PushSnapshot(
               IF joined.connected[Opponent(i)]
               THEN [joined EXCEPT !.phase = "playing", !.startedAt = now,
                                   !.lastTick = now, !.frame = 0]
               ELSE [joined EXCEPT !.phase = IF @ = "created" THEN "waiting"
                                             ELSE @])

\* Mutant: an attack strikes when it arrives, not when its frame is settled.
SubmitAttackStrikes(r, i) ==
    IF r.phase = "playing" /\ r.hp[Opponent(i)] > kAttackDamage
    THEN [r EXCEPT !.hp[Opponent(i)] = @ - kAttackDamage]
    ELSE r

SubmitAttack(r, i) ==
    IF r.phase = "playing" THEN [r EXCEPT !.pending[i] = TRUE] ELSE r

\* Coming back writes no snapshot; going away writes one.
ReportPresence(r, i, online, now) ==
    IF r.phase \in Over THEN r
    ELSE IF online
         THEN [r EXCEPT !.online[i] = TRUE, !.offlineSince[i] = 0]
    ELSE IF r.online[i]
         THEN PushSnapshot([r EXCEPT !.online[i] = FALSE,
                                     !.offlineSince[i] = now])
    ELSE r

-----------------------------------------------------------------------------
(* Tick, piece by piece.                                                   *)

IsWaitingForReconnect(r) == \E i \in Slots : ~r.online[i]

\* The loser is decided only once the player who left last has been away for
\* the whole grace period.
LatestOfflineAt(r) ==
    IF r.online[1] THEN r.offlineSince[2]
    ELSE IF r.online[2] THEN r.offlineSince[1]
    ELSE IF r.offlineSince[1] > r.offlineSince[2] THEN r.offlineSince[1]
    ELSE r.offlineSince[2]

GraceExpired(r, now) == now - LatestOfflineAt(r) >= kReconnectGraceMs

ResolveReconnectGrace(r, now) ==
    IF r.online[1] THEN Finish(r, "disconnect", 1, now)
    ELSE IF r.online[2] THEN Finish(r, "disconnect", 2, now)
    ELSE Abort(r, now)

\* Someone is away: settle the grace period or push the time base forward.
TickPaused(r, now) ==
    IF GraceExpired(r, now) THEN ResolveReconnectGrace(r, now)
    ELSE [r EXCEPT !.lastTick = now]

WaitingTimedOut(r, now) == now - r.createdAt >= kWaitingTimeoutMs

\* Whole frames since the last one; a clock that went back gives none.
ElapsedFrames(r, now) ==
    IF now < r.lastTick THEN 0 ELSE (now - r.lastTick) \div kFrameIntervalMs

FramesDue(r, now) ==
    IF ElapsedFrames(r, now) > kMaxCatchUpFrames THEN kMaxCatchUpFrames
    ELSE ElapsedFrames(r, now)

\* Frames beyond the catch-up limit are dropped by moving the time base.
DropExcess(r, now) ==
    [r EXCEPT !.lastTick =
        @ + (ElapsedFrames(r, now) - FramesDue(r, now)) * kFrameIntervalMs]

Struck(r, i) ==
    IF ~r.pending[Opponent(i)] THEN r.hp[i]
    ELSE IF r.hp[i] > kAttackDamage THEN r.hp[i] - kAttackDamage
    ELSE 0

Survivor(r) ==
    IF r.hp[1] > 0 THEN 1 ELSE IF r.hp[2] > 0 THEN 2 ELSE NoWinner

Leader(r) ==
    IF r.hp[1] > r.hp[2] THEN 1
    ELSE IF r.hp[2] > r.hp[1] THEN 2
    ELSE NoWinner

\* The state of a frame once its attacks are counted, before any verdict.
SettleInputs(r) ==
    [r EXCEPT !.lastTick = @ + kFrameIntervalMs,
              !.frame = @ + 1,
              !.hp = [i \in Slots |-> Struck(r, i)],
              !.pending = [i \in Slots |-> FALSE]]

\* Mutant: the frame limit is looked at before the hit points.
JudgeFrameLimitFirst(r, now) ==
    IF r.frame >= kMaxFrames
    THEN Finish(r, "timeout", Leader(r), now)
    ELSE IF \E i \in Slots : r.hp[i] = 0
    THEN Finish(r, "hp_zero", Survivor(r), now)
    ELSE PushSnapshot(r)

JudgeFrame(r, now) ==
    IF \E i \in Slots : r.hp[i] = 0
    THEN Finish(r, "hp_zero", Survivor(r), now)
    ELSE IF r.frame >= kMaxFrames
    THEN Finish(r, "timeout", Leader(r), now)
    ELSE PushSnapshot(r)

AdvanceOneFrame(r, now) == JudgeFrame(SettleInputs(r), now)

-----------------------------------------------------------------------------
(* What RoomManager asks of a room that is over.                           *)

MarkResultPersisted(r) ==
    IF r.phase = "finishing" THEN [r EXCEPT !.phase = "finished"] ELSE r

MarkResultFailed(r, now) ==
    IF r.phase = "finishing" THEN [r EXCEPT !.lastPersist = now] ELSE r

\* Mutant: a result is tried once only.
ShouldRetryPersistOnce(r, now) == r.phase = "finishing" /\ r.lastPersist = 0

ShouldRetryPersist(r, now) ==
    r.phase = "finishing" /\ now - r.lastPersist >= kResultRetryIntervalMs

IsExpired(r, now) ==
    /\ r.phase \in {"finished", "aborted"}
    /\ now - r.finishedAt >= kFinishedRetentionMs

-----------------------------------------------------------------------------
(* What must hold of a room; the modules that run rooms state it of theirs. *)

SnapshotType ==
    [phase : RoomPhase, frame : Nat, hp : [Slots -> Nat],
     connected : [Slots -> BOOLEAN], online : [Slots -> BOOLEAN],
     reason : FinishReason, winner : Slots \cup {NoWinner}]

RoomType ==
    [phase : RoomPhase, reason : FinishReason,
     winner : Slots \cup {NoWinner}, frame : Nat,
     hp : [Slots -> Nat], connected : [Slots -> BOOLEAN],
     online : [Slots -> BOOLEAN], offlineSince : [Slots -> Int],
     pending : [Slots -> BOOLEAN],
     createdAt : Int, startedAt : Int, finishedAt : Int,
     lastTick : Int, lastPersist : Int,
     history : Seq(SnapshotType)]

\* Somebody is at 0, and the winner is the only one who is not.
KnockOut(r) ==
    /\ r.reason = "hp_zero"
    /\ \E i \in Slots : r.hp[i] = 0
    /\ \A i \in Slots : r.winner = i <=> r.hp[i] > 0

\* The frames ran out with both alive, and the winner is ahead.
FramesRanOut(r) ==
    /\ r.reason = "timeout"
    /\ r.frame = kMaxFrames
    /\ \A i \in Slots : r.hp[i] > 0
    /\ \A i \in Slots : r.winner = i <=> r.hp[i] > r.hp[Opponent(i)]

\* The winner stayed; the loser had been away for the whole grace period.
Forfeit(r) ==
    /\ r.reason = "disconnect"
    /\ \A i \in Slots : r.hp[i] > 0
    /\ r.frame < kMaxFrames
    /\ \E i \in Slots :
          /\ r.winner = i
          /\ r.online[i]
          /\ ~r.online[Opponent(i)]
          /\ r.finishedAt - r.offlineSince[Opponent(i)] >= kReconnectGraceMs

FairVerdict(r) ==
    IF r.phase \in {"finishing", "finished"}
    THEN KnockOut(r) \/ FramesRanOut(r) \/ Forfeit(r)
    ELSE /\ r.winner = NoWinner
         /\ \A i \in Slots : r.hp[i] > 0
         /\ r.frame < kMaxFrames

DamageWithinFrames(r) ==
    \A i \in Slots : r.hp[i] >= kInitialHp - r.frame * kAttackDamage

CompleteBackfill(r, since) ==
    SnapshotRange(r, since) = "ok" =>
        LET sent == SnapshotsAfter(r, since)
        IN  /\ \A f \in since + 1 .. r.frame :
                  \E i \in sent : r.history[i].frame = f
            /\ \A i, j \in sent :
                  i < j => r.history[i].frame < r.history[j].frame
=============================================================================

-------------------------- MODULE RoomManagerProofs --------------------------
(***************************************************************************)
(* The theorems about the Room service: the registry under two ticking     *)
(* threads, MySQL calls that fail or take effect unnoticed, the drain,     *)
(* crashes and restores.                                                   *)
(***************************************************************************)
EXTENDS RoomManager, BattleRoomLemmas, WellFoundedInduction

-----------------------------------------------------------------------------
(* A tick of one room.                                                     *)

\* What a lock section working with time t may do to a room, short of marking
\* its result.
Moved(r, q, t) ==
    /\ RoomOK(q)
    /\ q.frame >= r.frame
    /\ r.phase \in Over =>
         q.phase = r.phase /\ q.winner = r.winner /\ q.frame = r.frame
    /\ r.phase \in Unfinished =>
         q.phase # "finished" /\ (q.phase = "aborted" => q.finishedAt = t)

\* No frame is played, and the game gets no verdict.
Calm(r, q) ==
    /\ q.frame = r.frame
    /\ r.phase \in Unfinished =>
         q.phase \in Unfinished \/ (q.phase = "aborted" /\ shutting_down')

\* Induction over the naturals, for a set.
LEMMA SetInduction ==
    ASSUME NEW S, 0 \in S, \A n \in Nat : n \in S => n + 1 \in S
    PROVE  Nat \subseteq S
<1> SUFFICES ASSUME Nat \ S # {}
             PROVE  FALSE
  OBVIOUS
<1>1. PICK x \in Nat \ S : \A y \in Nat \ S : ~(<<y, x>> \in OpToRel(<, Nat))
  BY WFMin, NatLessThanWellFounded
<1>2. x # 0 /\ x - 1 \in Nat /\ x - 1 < x
  OBVIOUS
<1>3. <<x - 1, x>> \in OpToRel(<, Nat)
  BY <1>2 DEF OpToRel
<1>4. x - 1 \in S
  BY <1>1, <1>2, <1>3
<1> QED BY <1>2, <1>4

\* The rooms of the catch-up loop, frame by frame.
Frames(r, f, n, t) ==
    f = [k \in 0..n |->
           IF k = 0 THEN DropExcess(r, t)
           ELSE IF f[k - 1].phase = "playing"
                THEN AdvanceOneFrame(f[k - 1], t)
                ELSE f[k - 1]]

\* The loop is well defined, however many frames it plays.
LEMMA FramesExist ==
    ASSUME NEW r, NEW n \in Nat, NEW t
    PROVE  \E f : Frames(r, f, n, t)
<1> DEFINE S == {k \in Nat : \E f : Frames(r, f, k, t)}
<1>1. 0 \in S
  <2> DEFINE f == [k \in 0..0 |-> DropExcess(r, t)]
  <2>1. Frames(r, f, 0, t)
    BY DEF Frames
  <2> QED BY <2>1
<1>2. ASSUME NEW k \in Nat, k \in S
      PROVE  k + 1 \in S
  <2>1. PICK f : Frames(r, f, k, t)
    BY <1>2
  <2> DEFINE g == [j \in 0..k + 1 |->
                     IF j = 0 THEN DropExcess(r, t)
                     ELSE IF f[j - 1].phase = "playing"
                          THEN AdvanceOneFrame(f[j - 1], t)
                          ELSE f[j - 1]]
  <2>2. \A j \in 0..k : g[j] = f[j]
    <3> TAKE j \in 0..k
    <3>1. j \in 0..k + 1
      OBVIOUS
    <3> QED BY <2>1, <3>1 DEF Frames
  <2>3. \A j \in 0..k + 1 : j # 0 => g[j - 1] = f[j - 1]
    BY <2>2
  <2>4. Frames(r, g, k + 1, t)
    BY <2>3 DEF Frames
  <2> QED BY <2>4
<1> HIDE DEF S
<1>3. Nat \subseteq S
  BY <1>1, <1>2, SetInduction
<1> QED BY <1>3 DEF S

\* The loop's result is the last of its rooms.
LEMMA CatchUpFrames ==
    ASSUME NEW r, NEW n \in Nat, NEW t
    PROVE  \E f : Frames(r, f, n, t) /\ CatchUp(r, n, t) = f[n]
<1> DEFINE g == CHOOSE f : Frames(r, f, n, t)
<1>1. CatchUp(r, n, t) = g[n]
  BY Zenon DEF CatchUp, Frames
<1>2. \E f : Frames(r, f, n, t)
  BY FramesExist
<1> HIDE DEF Frames
<1>3. Frames(r, g, n, t)
  BY <1>2, Zenon
<1> QED BY <1>1, <1>3

\* The catch-up loop never plays backwards, and stops when the game is over.
LEMMA CatchUpOK ==
    ASSUME NEW t \in Int, NEW r, RoomOK(r), r.phase = "playing"
    PROVE  Moved(r, CatchUp(r, FramesDue(r, t), t), t)
<1> DEFINE n == FramesDue(r, t)
           base == DropExcess(r, t)
<1>1. r \in RoomType /\ r.frame \in Nat
  BY DEF RoomOK, RoomType
<1>2. ElapsedFrames(r, t) \in Nat /\ n \in Nat
  BY <1>1, FramesFacts, ConstantsAssumption
<1>3. RoomOK(base)
  BY <1>2, DropOK
<1>4. base.phase = r.phase /\ base.frame = r.frame
  BY <1>1 DEF DropExcess, RoomType
<1>5. PICK f : Frames(r, f, n, t) /\ CatchUp(r, n, t) = f[n]
  BY <1>2, CatchUpFrames
<1> HIDE DEF n, base
<1> DEFINE Good(q) ==
             /\ RoomOK(q) /\ q.frame >= r.frame
             /\ q.phase \in {"playing", "finishing"}
           S == {k \in Nat : k <= n => Good(f[k])}
<1>6. 0 \in S
  <2>1. f[0] = base
    BY <1>2, <1>5 DEF Frames, base
  <2> QED BY <1>1, <1>3, <1>4, <2>1
<1>7. ASSUME NEW k \in Nat, k \in S
      PROVE  k + 1 \in S
  <2> SUFFICES ASSUME k + 1 <= n
               PROVE  Good(f[k + 1])
    OBVIOUS
  <2>1. Good(f[k])
    BY <1>2, <1>7
  <2>2. f[k + 1] = IF f[k].phase = "playing"
                   THEN AdvanceOneFrame(f[k], t) ELSE f[k]
    BY <1>2, <1>5 DEF Frames
  <2>3. CASE f[k].phase = "playing"
    <3> DEFINE q == AdvanceOneFrame(f[k], t)
    <3>1. RoomOK(q)
      BY <2>1, <2>3, FrameOK
    <3>2. q.frame = f[k].frame + 1 /\ q.phase \in {"playing", "finishing"}
      BY <2>1, <2>3, FrameTiming
    <3>3. f[k].frame \in Nat
      BY <2>1 DEF RoomOK, RoomType
    <3>4. f[k + 1] = q
      BY <2>2, <2>3
    <3> HIDE DEF q
    <3>5. q.frame >= r.frame
      BY <1>1, <2>1, <3>2, <3>3
    <3> QED BY <3>1, <3>2, <3>4, <3>5
  <2>4. CASE f[k].phase # "playing"
    BY <2>1, <2>2, <2>4
  <2> QED BY <2>3, <2>4
<1> HIDE DEF S
<1>8. n \in S
  BY <1>2, <1>6, <1>7, SetInduction
<1>9. Good(f[n])
  BY <1>2, <1>8 DEF S
<1>10. Moved(r, f[n], t)
  BY <1>9 DEF Moved, Unfinished, Over
<1> QED BY <1>5, <1>10 DEF n

\* A room that an operation leaves as it is has made a legal move.
LEMMA StaysMoved ==
    ASSUME NEW r, RoomOK(r), NEW t
    PROVE  Moved(r, r, t)
<1>1. r.frame \in Nat
  BY DEF RoomOK, RoomType
<1> QED BY <1>1 DEF Moved, Unfinished

\* Abort makes a legal move.
LEMMA AbortMoved ==
    ASSUME NEW r, RoomOK(r), r.phase \in Unfinished, NEW t \in Int
    PROVE  /\ Moved(r, Abort(r, t), t)
           /\ Abort(r, t).phase = "aborted" /\ Abort(r, t).frame = r.frame
<1>1. RoomOK(Abort(r, t)) /\ r.frame \in Nat
  BY AbortOK DEF RoomOK, RoomType
<1>2. /\ Abort(r, t).frame = r.frame /\ Abort(r, t).phase = "aborted"
      /\ Abort(r, t).finishedAt = t
  BY AbortStill DEF Still
<1> QED BY <1>1, <1>2 DEF Moved, Unfinished, Over

\* Join moves a room calmly.
LEMMA JoinMoved ==
    ASSUME NEW r, RoomOK(r), NEW i \in Slots, NEW t \in Int
    PROVE  Moved(r, JoinRoom(r, i, t), t) /\ Calm(r, JoinRoom(r, i, t))
<1> DEFINE q == JoinRoom(r, i, t)
<1>1. RoomOK(q)
  BY JoinOK
<1>2. CASE q = r
  BY <1>2, StaysMoved DEF Calm
<1>3. CASE q # r
  <2>1. /\ r.phase \in {"created", "waiting"} /\ q.frame = 0
        /\ q.phase \in {"waiting", "playing"}
    BY <1>3, JoinTiming
  <2>2. r.frame = 0
    BY <2>1 DEF RoomOK, Fresh
  <2> HIDE DEF q
  <2>3. r.phase \notin Over /\ q.phase \in Unfinished
    BY <2>1 DEF Over, Unfinished
  <2>4. q.phase \notin {"finished", "aborted"}
    BY <2>1
  <2> QED BY <1>1, <2>1, <2>2, <2>3, <2>4 DEF Moved, Calm, q
<1> QED BY <1>2, <1>3

\* So does SubmitInput.
LEMMA SubmitMoved ==
    ASSUME NEW r, RoomOK(r), NEW i \in Slots, NEW t \in Int
    PROVE  Moved(r, SubmitAttack(r, i), t) /\ Calm(r, SubmitAttack(r, i))
<1> DEFINE q == SubmitAttack(r, i)
<1>1. RoomOK(q)
  BY SubmitOK
<1>2. /\ q.phase = r.phase /\ q.winner = r.winner /\ q.frame = r.frame
      /\ r.frame \in Nat
  BY DEF SubmitAttack, RoomOK, RoomType
<1> HIDE DEF q
<1>3. r.phase \in Unfinished => q.phase \notin {"finished", "aborted"}
  BY <1>2 DEF Unfinished
<1> QED BY <1>1, <1>2, <1>3 DEF Moved, Calm, q

\* So does SetPresence.
LEMMA PresenceMoved ==
    ASSUME NEW r, RoomOK(r), NEW i \in Slots, NEW on \in BOOLEAN, NEW t \in Int
    PROVE  /\ Moved(r, ReportPresence(r, i, on, t), t)
           /\ Calm(r, ReportPresence(r, i, on, t))
<1> DEFINE q == ReportPresence(r, i, on, t)
<1>1. RoomOK(q)
  BY PresenceOK
<1>2. q.phase = r.phase /\ q.frame = r.frame
  BY PresenceStill DEF Still
<1>3. r.phase \in Over => q = r
  BY DEF ReportPresence
<1>4. r.frame \in Nat
  BY DEF RoomOK, RoomType
<1> HIDE DEF q
<1>5. r.phase \in Unfinished => q.phase \notin {"finished", "aborted"}
  BY <1>2 DEF Unfinished
<1> QED BY <1>1, <1>2, <1>3, <1>4, <1>5 DEF Moved, Calm, q

\* So does a tick, but it need not be calm.
LEMMA TickMoved ==
    ASSUME NEW t \in Int, NEW r, RoomOK(r)
    PROVE  Moved(r, TickRoom(r, t), t)
<1>1. r.phase \in RoomPhase /\ r.frame \in Nat
  BY DEF RoomOK, RoomType
<1>2. CASE r.phase \in {"created", "waiting"}
  <2>1. TickRoom(r, t) = IF WaitingTimedOut(r, t) THEN Abort(r, t) ELSE r
    BY <1>2 DEF TickRoom
  <2>2. Moved(r, Abort(r, t), t)
    BY <1>2, AbortMoved DEF Unfinished
  <2> QED BY <2>1, <2>2, StaysMoved
<1>3. CASE r.phase = "playing" /\ IsWaitingForReconnect(r)
  <2> DEFINE q == TickPaused(r, t)
  <2>1. TickRoom(r, t) = q
    BY <1>3 DEF TickRoom
  <2>2. RoomOK(q)
    BY <1>3, PausedOK
  <2>3. /\ q.frame = r.frame /\ q.phase \in {r.phase, "finishing", "aborted"}
        /\ q.phase = "aborted" /\ r.phase # "aborted" => q.finishedAt = t
    BY PausedStill DEF Still
  <2> HIDE DEF q
  <2> QED BY <1>1, <1>3, <2>1, <2>2, <2>3 DEF Moved, Unfinished, Over
<1>4. CASE r.phase = "playing" /\ ~IsWaitingForReconnect(r)
  <2>1. TickRoom(r, t) = CatchUp(r, FramesDue(r, t), t)
    BY <1>4 DEF TickRoom
  <2> QED BY <1>4, <2>1, CatchUpOK
<1>5. CASE r.phase \in Over
  <2>1. TickRoom(r, t) = r
    BY <1>5 DEF TickRoom, Over
  <2> QED BY <2>1, StaysMoved
<1> QED BY <1>1, <1>2, <1>3, <1>4, <1>5 DEF RoomPhase, Unfinished

\* Marking the result moves a FINISHING room only, and changes no verdict.
LEMMA MarkFacts ==
    ASSUME NEW r, RoomOK(r), NEW t \in Int
    PROVE  /\ LET q == MarkResultPersisted(r)
              IN  /\ RoomOK(q) /\ q.frame = r.frame /\ q.winner = r.winner
                  /\ q.phase = IF r.phase = "finishing" THEN "finished"
                               ELSE r.phase
           /\ Moved(r, MarkResultFailed(r, t), t)
           /\ Calm(r, MarkResultFailed(r, t))
<1>1. RoomOK(MarkResultPersisted(r)) /\ RoomOK(MarkResultFailed(r, t))
  BY MarkOK
<1>2. r \in RoomType /\ r.frame \in Nat
  BY DEF RoomOK, RoomType
<1>3. LET q == MarkResultPersisted(r)
      IN  /\ q.frame = r.frame /\ q.winner = r.winner
          /\ q.phase = IF r.phase = "finishing" THEN "finished" ELSE r.phase
  BY <1>2 DEF MarkResultPersisted, RoomType
<1>4. LET q == MarkResultFailed(r, t)
      IN  q.frame = r.frame /\ (r.phase # "finishing" => q = r)
          /\ q.winner = r.winner /\ q.phase = r.phase
  BY <1>2 DEF MarkResultFailed, RoomType
<1>5. Moved(r, MarkResultFailed(r, t), t) /\ Calm(r, MarkResultFailed(r, t))
  BY <1>1, <1>2, <1>4 DEF Moved, Calm, Unfinished
<1> QED BY <1>1, <1>3, <1>5

-----------------------------------------------------------------------------
(* Snapshots, and rooms made from them.                                    *)

Winner == Slots \cup {NoWinner}

RowType ==
    [phase : RoomPhase, frame : Nat, winner : Winner, reason : FinishReason,
     startedAt : Int, finishedAt : Int, snapshotAt : Int,
     hp : [Slots -> Nat], joined : [Slots -> BOOLEAN]]

\* A row from which a room can be restored.
Sound(w) ==
    /\ DamageWithinFrames(w)
    /\ w.phase \in {"created", "waiting"} => w.frame = 0
    /\ w.phase = "playing" => \A i \in Slots : w.joined[i]
    /\ IF w.phase = "finishing" THEN KnockOut(w) \/ FramesRanOut(w)
       ELSE /\ w.winner = NoWinner /\ w.frame < kMaxFrames
            /\ \A i \in Slots : w.hp[i] > 0

RowOK(w) ==
    /\ w \in RowType
    /\ w.phase \in Unfinished \cup {"finishing"} /\ w.reason \in ParsedReasons
          => Sound(w)

\* The row written for a room can be restored.
LEMMA SnapshotOK ==
    ASSUME NEW t \in Int, NEW r, RoomOK(r)
    PROVE  LET w == MakeSnapshotRecord(r, t)
           IN  RowOK(w) /\ w.frame = r.frame /\ w.phase = r.phase
<1> DEFINE w == MakeSnapshotRecord(r, t)
<1>1. /\ w.phase = r.phase /\ w.frame = r.frame /\ w.winner = r.winner
      /\ w.reason = r.reason /\ w.hp = r.hp
      /\ w.joined = r.connected
  BY DEF MakeSnapshotRecord
<1>2. w \in RowType
  BY DEF MakeSnapshotRecord, RowType, RoomOK, RoomType, Winner
<1>3. r.phase \in RoomPhase
  BY DEF RoomOK, RoomType
<1> HIDE DEF w
<1>4. ASSUME w.phase \in Unfinished \cup {"finishing"},
             w.reason \in ParsedReasons
      PROVE  Sound(w)
  <2>1. DamageWithinFrames(w)
    BY <1>1 DEF RoomOK, DamageWithinFrames
  <2>2. /\ w.phase \in {"created", "waiting"} => w.frame = 0
        /\ w.phase = "playing" => \A i \in Slots : w.joined[i]
    BY <1>1 DEF RoomOK, Fresh
  <2>3. CASE w.phase = "finishing"
    <3>1. KnockOut(r) \/ FramesRanOut(r) \/ Forfeit(r)
      BY <1>1, <2>3 DEF RoomOK, FairVerdict
    <3>2. ~Forfeit(r)
      BY <1>1, <1>4 DEF Forfeit, ParsedReasons
    <3>3. KnockOut(w) \/ FramesRanOut(w)
      BY <1>1, <3>1, <3>2 DEF KnockOut, FramesRanOut
    <3> QED BY <2>1, <2>2, <2>3, <3>3 DEF Sound
  <2>4. CASE w.phase # "finishing"
    <3>1. r.phase \notin {"finishing", "finished"}
      BY <1>1, <1>4, <2>4 DEF Unfinished
    <3>2. /\ w.winner = NoWinner /\ w.frame < kMaxFrames
          /\ \A i \in Slots : w.hp[i] > 0
      BY <1>1, <3>1 DEF RoomOK, FairVerdict
    <3> QED BY <2>1, <2>2, <2>4, <3>2 DEF Sound
  <2> QED BY <2>3, <2>4
<1> QED BY <1>1, <1>2, <1>4 DEF RowOK, w

\* A restored room is well formed, and starts where its row left off.
LEMMA RestoreOK ==
    ASSUME NEW w, RowOK(w), w.phase \in Unfinished \cup {"finishing"},
           w.reason \in ParsedReasons, NEW t \in Int
    PROVE  LET q == RestoreFrom(w, t)
           IN  RoomOK(q) /\ q.phase = w.phase /\ q.frame = w.frame
<1> DEFINE on == [i \in Slots |-> TRUE]
           zeros == [i \in Slots |-> 0]
           off == [i \in Slots |-> FALSE]
           at == IF w.snapshotAt > 0 THEN w.snapshotAt ELSE t
           lp == t - kResultRetryIntervalMs
           none == <<>>
           q == [phase |-> w.phase, reason |-> w.reason, winner |-> w.winner,
                 frame |-> w.frame, hp |-> w.hp, connected |-> w.joined,
                 online |-> on, offlineSince |-> zeros, pending |-> off,
                 createdAt |-> at, startedAt |-> w.startedAt,
                 finishedAt |-> w.finishedAt, lastTick |-> t,
                 lastPersist |-> lp, history |-> none]
           p == PushSnapshot(q)
<1>1. w \in RowType /\ Sound(w)
  BY DEF RowOK
<1>2. /\ on \in [Slots -> BOOLEAN] /\ zeros \in [Slots -> Int]
      /\ off \in [Slots -> BOOLEAN] /\ at \in Int /\ lp \in Int
      /\ none \in Seq(SnapshotType)
  BY <1>1, ConstantsAssumption DEF RowType
<1>3. RestoreFrom(w, t) = p
  BY DEF RestoreFrom
<1>4. Len(none) = 0
  OBVIOUS
<1> HIDE DEF on, zeros, off, at, lp, none
<1>5. q \in RoomType
  BY <1>1, <1>2 DEF RoomType, RowType, Winner
<1>6. /\ q.phase = w.phase /\ q.reason = w.reason /\ q.winner = w.winner
      /\ q.frame = w.frame /\ q.hp = w.hp /\ q.connected = w.joined
      /\ q.history = none
  OBVIOUS
<1> HIDE DEF q
<1>7. FairVerdict(q) /\ DamageWithinFrames(q) /\ Fresh(q)
  <2>1. DamageWithinFrames(q) /\ Fresh(q)
    BY <1>1, <1>6 DEF Sound, DamageWithinFrames, Fresh
  <2>2. CASE w.phase = "finishing"
    <3>1. KnockOut(w) \/ FramesRanOut(w)
      BY <1>1, <2>2 DEF Sound
    <3>2. KnockOut(q) \/ FramesRanOut(q)
      BY <1>6, <3>1 DEF KnockOut, FramesRanOut
    <3> QED BY <1>6, <2>1, <2>2, <3>2 DEF FairVerdict
  <2>3. CASE w.phase # "finishing"
    <3>1. q.phase \notin {"finishing", "finished"}
      BY <1>6, <2>3 DEF Unfinished
    <3>2. /\ q.winner = NoWinner /\ q.frame < kMaxFrames
          /\ \A i \in Slots : q.hp[i] > 0
      BY <1>1, <1>6, <2>3 DEF Sound
    <3> QED BY <2>1, <3>1, <3>2 DEF FairVerdict
  <2> QED BY <2>2, <2>3
<1>8. Len(q.history) <= kMaxSnapshotHistory
  BY <1>4, <1>6, ConstantsAssumption
<1>9. /\ p \in RoomType /\ p = [q EXCEPT !.history = p.history]
      /\ p.phase = q.phase /\ p.frame = q.frame
  BY <1>5, <1>8, PushFacts, PushKeeps
<1>10. Ring(p.history, p.frame)
  <2>1. p.history = <<Snapshot(q)>>
    <3>1. Append(q.history, Snapshot(q)) = <<Snapshot(q)>>
      BY <1>6, SnapshotTyped, <1>5 DEF none
    <3>2. Len(<<Snapshot(q)>>) = 1 /\ kMaxSnapshotHistory \in Nat \ {0}
      BY ConstantsAssumption
    <3>3. p = [q EXCEPT !.history = <<Snapshot(q)>>]
      BY <3>1, <3>2 DEF PushSnapshot, p
    <3> QED BY <1>5, <3>3 DEF RoomType
  <2>2. Snapshot(q).frame = p.frame /\ p.frame \in Nat
    BY <1>5, <1>9, SnapshotTyped DEF RoomType
  <2> DEFINE h == p.history
  <2>3. Len(h) = 1 /\ h[1].frame = p.frame
    BY <2>1, <2>2
  <2> HIDE DEF h
  <2>4. \A i, j \in 1..Len(h) : i <= j => h[i].frame <= h[j].frame
    BY <2>2, <2>3
  <2>5. \A f \in h[1].frame .. p.frame : LastFor(h, 1, f)
    BY <2>2, <2>3 DEF LastFor
  <2>6. Len(h) \in 1..kMaxSnapshotHistory /\ h[Len(h)].frame = p.frame
    BY <2>3, ConstantsAssumption
  <2>7. Ring(h, p.frame)
    BY <2>3, <2>4, <2>5, <2>6 DEF Ring
  <2> QED BY <2>7 DEF h
<1> HIDE DEF p
<1>11. Agree(p, q)
  BY <1>5, <1>9 DEF RoomType, Agree
<1>12. RoomOK(p)
  BY <1>7, <1>9, <1>10, <1>11, AgreeOK DEF RoomOK
<1> QED BY <1>3, <1>6, <1>9, <1>12

-----------------------------------------------------------------------------
(* The inductive invariant.                                                *)

RegistryInv ==
    /\ now \in Nat /\ restarts \in Nat
    /\ created \subseteq Match /\ DOMAIN rooms \subseteq created
    /\ \A m \in DOMAIN rooms : RoomOK(rooms[m])
    /\ DOMAIN snapState \subseteq DOMAIN rooms
    /\ DOMAIN rows \subseteq created
    /\ DOMAIN results \subseteq created
    /\ \A m \in DOMAIN results : results[m] \in Winner
    /\ DOMAIN thread = Threads

\* A process that is down holds nothing.
DownInv == ~Up => rooms = <<>> /\ \A t \in Threads : thread[t] = Idle

\* The result of match m, with this winner, is stored or may be.
Writable(m, winner) ==
    \/ m \in DOMAIN results
    \/ InPhase(m, {"finishing"}) /\ rooms[m].winner = winner

\* What a thread carries from one lock section to the next.
WorkOK(w) ==
    /\ w.pc \in {"idle", "flush", "pick", "write", "mark"}
    /\ w.pc # "idle" => w.at \in Int
    /\ w.pc = "flush" => DOMAIN w.snaps \subseteq created
    /\ w.pc = "write" => w.winner \in Winner /\ Writable(w.of, w.winner)
    /\ w.pc = "mark" => w.ok \in BOOLEAN /\ (w.ok => w.of \in DOMAIN results)

WorkInv == \A t \in Threads : WorkOK(thread[t])

\* The main thread has ended every game: it works for itself only after that.
GamesEnded == main \notin {"serving", "draining"}

EndInv ==
    /\ thread["main"].pc # "idle" => GamesEnded
    /\ GamesEnded => \A m \in DOMAIN rooms : rooms[m].phase \in Over

\* The snapshots of a match: the stored one and those on their way.
Flushing(m) ==
    {t \in Threads : thread[t].pc = "flush" /\ m \in DOMAIN thread[t].snaps}

Waiting(m) == {thread[t].snaps[m] : t \in Flushing(m)}

Versions(m) == {rows[x] : x \in DOMAIN rows \cap {m}} \cup Waiting(m)

\* No snapshot is ahead of its room.
Behind(v, r) ==
    /\ v.frame <= r.frame
    /\ v.phase \in Over => r.phase \in Over

\* A snapshot on its way shows the frame of its room, and its phase but for an
\* abort by the drain.
Abreast(v, r) ==
    /\ v.frame = r.frame
    /\ v.phase \in Unfinished =>
         r.phase \in Unfinished \/ (r.phase = "aborted" /\ shutting_down)

\* Snapshot v may be stored in the place of w.
Follows(w, v) ==
    /\ w.frame <= v.frame
    /\ w.phase \in Over /\ v.phase \in Unfinished =>
         w.phase = "aborted" /\ shutting_down

VersionInv ==
    \A m \in created :
        /\ \A v \in Versions(m) :
              RowOK(v) /\ (Known(m) => Behind(v, rooms[m]))
        /\ \A v \in Waiting(m) :
              /\ Known(m) => Abreast(v, rooms[m])
              /\ \A w \in Versions(m) : Follows(w, v)

Inv ==
    /\ RegistryInv /\ DownInv /\ WorkInv /\ EndInv
    /\ FinishedIsDurable /\ StoredIsReached /\ VersionInv

-----------------------------------------------------------------------------
(* What a lock section, and whatever else happens while the process is up, *)
(* does to the rooms.                                                      *)

Turns(m, r, q) ==
    /\ RoomOK(q) /\ q.frame >= r.frame
    /\ r.phase \in Over =>
         /\ q.winner = r.winner /\ q.frame = r.frame
         /\ \/ q.phase = r.phase
            \/ r.phase = "finishing" /\ q.phase = "finished" /\ m \in DOMAIN results
    /\ r.phase \in Unfinished => q.phase # "finished"

\* Every room becomes what next says or, being over, goes; rooms that come are new.
Progress(next) ==
    /\ now' = now /\ results' = results /\ restarts' = restarts
    /\ created \subseteq created' /\ (shutting_down => shutting_down')
    /\ \A m \in DOMAIN rooms : Turns(m, rooms[m], next[m])
    /\ \A m \in DOMAIN rooms \ DOMAIN rooms' :
         rooms[m].phase \in {"finished", "aborted"}
    /\ \A m \in DOMAIN rooms' :
         IF m \in DOMAIN rooms THEN rooms'[m] = next[m]
         ELSE /\ m \in created' \ created
              /\ RoomOK(rooms'[m]) /\ rooms'[m].phase = "created"

\* A legal move of a room is one that the registry may make.
LEMMA MovedTurns ==
    ASSUME NEW m, NEW r, NEW q, NEW t, Moved(r, q, t)
    PROVE  Turns(m, r, q)
BY DEF Moved, Turns

\* Verdicts, stored results and what the threads carry stay in step.
LEMMA ProgressInv ==
    ASSUME Inv, NEW next, Progress(next)
    PROVE  /\ \A m \in DOMAIN rooms' : RoomOK(rooms'[m])
           /\ FinishedIsDurable' /\ StoredIsReached'
           /\ \A w : WorkOK(w) => WorkOK(w)'
<1>1. \A m \in DOMAIN rooms' : RoomOK(rooms'[m])
  BY DEF Progress, Turns
<1>2. FinishedIsDurable'
  <2> SUFFICES ASSUME NEW m \in DOMAIN rooms', rooms'[m].phase = "finished"
               PROVE  m \in DOMAIN results'
    BY DEF FinishedIsDurable, InPhase, Known
  <2>1. m \in DOMAIN rooms /\ rooms'[m] = next[m] /\ Turns(m, rooms[m], next[m])
    BY DEF Progress
  <2>2. rooms[m].phase \in RoomPhase
    BY <2>1 DEF Inv, RegistryInv, RoomOK, RoomType
  <2>3. rooms[m].phase = "finished" => m \in DOMAIN results
    BY <2>1 DEF Inv, FinishedIsDurable, InPhase, Known
  <2> QED BY <2>1, <2>2, <2>3 DEF Turns, RoomPhase, Progress
<1>3. StoredIsReached'
  <2> SUFFICES ASSUME restarts' = 0, NEW m \in DOMAIN rooms'
               PROVE  /\ rooms'[m].phase \in {"finishing", "finished"}
                         /\ m \in DOMAIN results' => results'[m] = rooms'[m].winner
                      /\ rooms'[m].phase \in Unfinished \cup {"aborted"}
                         => m \notin DOMAIN results'
    BY DEF StoredIsReached, InPhase, Known
  <2>1. restarts = 0 /\ results' = results
    BY DEF Progress
  <2>2. CASE m \in DOMAIN rooms
    <3>1. rooms'[m] = next[m] /\ Turns(m, rooms[m], next[m])
      BY <2>2 DEF Progress
    <3>2. /\ rooms[m].phase \in RoomPhase /\ next[m].phase \in RoomPhase
      BY <2>2, <3>1 DEF Inv, RegistryInv, RoomOK, RoomType, Turns
    <3>3. /\ rooms[m].phase \in {"finishing", "finished"} /\ m \in DOMAIN results
               => results[m] = rooms[m].winner
          /\ rooms[m].phase \in Unfinished \cup {"aborted"} => m \notin DOMAIN results
      BY <2>1, <2>2 DEF Inv, StoredIsReached, InPhase, Known
    <3> QED BY <2>1, <3>1, <3>2, <3>3 DEF Turns, RoomPhase, Over, Unfinished
  <2>3. CASE m \notin DOMAIN rooms
    <3>1. m \notin created /\ rooms'[m].phase = "created"
      BY <2>3 DEF Progress
    <3> QED BY <2>1, <3>1 DEF Inv, RegistryInv
  <2> QED BY <2>2, <2>3
<1>4. ASSUME NEW m, NEW winner, Writable(m, winner)
      PROVE  Writable(m, winner)'
  <2>1. results' = results
    BY DEF Progress
  <2>2. CASE m \notin DOMAIN results
    <3>1. m \in DOMAIN rooms /\ rooms[m].phase = "finishing" /\ rooms[m].winner = winner
      BY <1>4, <2>2 DEF Writable, InPhase, Known
    <3>2. m \in DOMAIN rooms' /\ rooms'[m] = next[m] /\ Turns(m, rooms[m], next[m])
      BY <3>1 DEF Progress
    <3>3. rooms'[m].phase = "finishing" /\ rooms'[m].winner = winner
      BY <2>2, <3>1, <3>2 DEF Turns, Over
    <3> QED BY <3>2, <3>3 DEF Writable, InPhase, Known
  <2> QED BY <2>1, <2>2 DEF Writable
<1>5. ASSUME NEW w, WorkOK(w)
      PROVE  WorkOK(w)'
  <2>1. created \subseteq created' /\ results' = results
    BY DEF Progress
  <2>2. w.pc = "write" => Writable(w.of, w.winner)'
    BY <1>4, <1>5 DEF WorkOK
  <2> QED BY <1>5, <2>1, <2>2 DEF WorkOK
<1> QED BY <1>1, <1>2, <1>3, <1>5

\* A game that is over stays calm.
LEMMA OverCalm ==
    ASSUME NEW m, NEW r, NEW q, Turns(m, r, q), r.phase \in Over
    PROVE  Calm(r, q)
BY DEF Turns, Calm, Over, Unfinished

\* Snapshot v of match m was taken in this step.
Taken(m, v, next) ==
    m \in DOMAIN rooms /\ \E t \in Int : v = MakeSnapshotRecord(next[m], t)

\* Snapshot v of match m was on its way, and no frame was played meanwhile.
Kept(m, v, next) ==
    v \in Waiting(m) /\ (m \in DOMAIN rooms => Calm(rooms[m], next[m]))

\* A match never created has no snapshot anywhere.
LEMMA NoVersions ==
    ASSUME Inv, NEW m, m \notin created
    PROVE  Versions(m) = {}
BY DEF Inv, RegistryInv, WorkInv, WorkOK, Versions, Waiting, Flushing

\* The snapshots of a match stay behind its room, and those on their way may
\* still be stored over the others.
LEMMA VersionStep ==
    ASSUME Inv, NEW next, Progress(next),
           \A m \in created' : \A v \in Versions(m)' :
               v \in Versions(m) \/ Taken(m, v, next),
           \A m \in created' : \A v \in Waiting(m)' :
               Kept(m, v, next) \/ Taken(m, v, next)
    PROVE  VersionInv'
<1>1. ASSUME NEW m \in created', NEW v \in Versions(m)
      PROVE  /\ RowOK(v) /\ v.frame \in Nat
             /\ m \in DOMAIN rooms => Behind(v, rooms[m])
             /\ \A u \in Waiting(m) : Follows(v, u)
  <2>1. m \in created
    BY <1>1, NoVersions
  <2>2. /\ RowOK(v) /\ (m \in DOMAIN rooms => Behind(v, rooms[m]))
        /\ \A u \in Waiting(m) : Follows(v, u)
    BY <1>1, <2>1 DEF Inv, VersionInv, Known
  <2> QED BY <2>2 DEF RowOK, RowType
<1>2. ASSUME NEW m \in created', NEW v \in Waiting(m), m \in DOMAIN rooms
      PROVE  Abreast(v, rooms[m])
  <2>1. v \in Versions(m)
    BY <1>2 DEF Versions
  <2>2. m \in created
    BY <1>2, <2>1, NoVersions
  <2> QED BY <1>2, <2>2 DEF Inv, VersionInv, Known
<1>3. ASSUME NEW m \in DOMAIN rooms
      PROVE  /\ Turns(m, rooms[m], next[m]) /\ rooms[m].frame \in Nat
             /\ next[m].frame \in Nat /\ next[m].phase \in RoomPhase
             /\ rooms[m].phase \in Over => next[m].phase \in Over
  BY DEF Progress, Inv, RegistryInv, Turns, RoomOK, RoomType, Over
<1>4. ASSUME NEW m \in created', NEW v, Taken(m, v, next)
      PROVE  /\ RowOK(v) /\ v.frame = next[m].frame /\ v.phase = next[m].phase
             /\ m \in DOMAIN rooms
  BY <1>3, <1>4, SnapshotOK DEF Taken, Turns
<1>5. ASSUME NEW m \in created', NEW v \in Versions(m)'
      PROVE  RowOK(v) /\ (m \in DOMAIN rooms => Behind(v, next[m]))
  <2>1. CASE v \in Versions(m)
    <3>1. RowOK(v) /\ v.frame \in Nat /\ (m \in DOMAIN rooms => Behind(v, rooms[m]))
      BY <1>1, <2>1
    <3>2. ASSUME m \in DOMAIN rooms
          PROVE  Behind(v, next[m])
      BY <1>3, <3>1, <3>2 DEF Behind, Turns
    <3> QED BY <3>1, <3>2
  <2>2. CASE Taken(m, v, next)
    BY <1>3, <1>4, <2>2 DEF Behind
  <2> QED BY <1>5, <2>1, <2>2
<1>6. ASSUME NEW m \in created', NEW v \in Waiting(m)', m \in DOMAIN rooms
      PROVE  /\ v.frame = next[m].frame
             /\ v.phase \in Unfinished =>
                  \/ next[m].phase \in Unfinished
                  \/ next[m].phase = "aborted" /\ shutting_down'
  <2>1. CASE Kept(m, v, next)
    <3>1. Abreast(v, rooms[m]) /\ Calm(rooms[m], next[m])
      BY <1>2, <1>6, <2>1 DEF Kept
    <3>2. rooms[m].phase = "aborted" => next[m].phase = "aborted"
      BY <1>3, <1>6 DEF Turns, Over
    <3>3. shutting_down => shutting_down'
      BY DEF Progress
    <3> QED BY <3>1, <3>2, <3>3 DEF Abreast, Calm
  <2>2. CASE Taken(m, v, next)
    BY <1>4, <2>2
  <2> QED BY <1>6, <2>1, <2>2
<1>7. ASSUME NEW m \in created', NEW v \in Waiting(m)', NEW w \in Versions(m)'
      PROVE  Follows(w, v)'
  <2> DEFINE Passes == /\ w.frame <= v.frame
                       /\ w.phase \in Over /\ v.phase \in Unfinished =>
                            w.phase = "aborted" /\ shutting_down'
  <2>1. CASE m \in DOMAIN rooms
    <3>1. /\ v.frame = next[m].frame
          /\ v.phase \in Unfinished =>
               \/ next[m].phase \in Unfinished
               \/ next[m].phase = "aborted" /\ shutting_down'
      BY <1>6, <1>7, <2>1
    <3>2. Behind(w, next[m])
      BY <1>5, <1>7, <2>1
    <3>3. CASE Taken(m, w, next)
      <4>1. w.frame = next[m].frame /\ w.phase = next[m].phase
        BY <1>4, <1>7, <3>3
      <4>2. next[m].frame \in Nat
        BY <1>3, <2>1
      <4>3. Passes
        BY <3>1, <4>1, <4>2 DEF Unfinished, Over
      <4> QED BY <4>3 DEF Follows
    <3>4. CASE Taken(m, v, next)
      <4>1. v.phase = next[m].phase
        BY <1>4, <1>7, <3>4
      <4>2. Passes
        BY <3>1, <3>2, <4>1 DEF Behind, Unfinished, Over
      <4> QED BY <4>2 DEF Follows
    <3>5. CASE w \in Versions(m) /\ Kept(m, v, next)
      <4>1. Follows(w, v)
        BY <1>1, <3>5 DEF Kept
      <4>2. shutting_down => shutting_down'
        BY DEF Progress
      <4>3. Passes
        BY <4>1, <4>2 DEF Follows
      <4> QED BY <4>3 DEF Follows
    <3> QED BY <1>7, <3>3, <3>4, <3>5
  <2>2. CASE m \notin DOMAIN rooms
    <3>1. w \in Versions(m) /\ Kept(m, v, next)
      BY <1>7, <2>2 DEF Taken
    <3>2. Follows(w, v)
      BY <1>1, <3>1 DEF Kept
    <3>3. shutting_down => shutting_down'
      BY DEF Progress
    <3>4. Passes
      BY <3>2, <3>3 DEF Follows
    <3> QED BY <3>4 DEF Follows
  <2> QED BY <2>1, <2>2
<1>8. ASSUME NEW m \in created', NEW v \in Versions(m)', m \in DOMAIN rooms'
      PROVE  m \in DOMAIN rooms /\ rooms'[m] = next[m]
  <2>1. m \in DOMAIN rooms
    <3>1. m \notin DOMAIN rooms => m \notin created
      BY <1>8 DEF Progress
    <3>2. v \in Versions(m) \/ Taken(m, v, next)
      BY <1>8
    <3> QED BY <3>1, <3>2, NoVersions DEF Taken
  <2> QED BY <1>8, <2>1 DEF Progress
<1>9. ASSUME NEW m \in created', NEW v \in Versions(m)'
      PROVE  RowOK(v) /\ (Known(m)' => Behind(v, rooms[m])')
  <2>1. ASSUME m \in DOMAIN rooms'
        PROVE  Behind(v, rooms[m])'
    BY <1>5, <1>8, <1>9, <2>1 DEF Behind
  <2> QED BY <1>5, <1>9, <2>1 DEF Known
<1>10. ASSUME NEW m \in created', NEW v \in Waiting(m)', m \in DOMAIN rooms'
       PROVE  Abreast(v, rooms[m])'
  <2>1. v \in Versions(m)'
    BY <1>10 DEF Versions
  <2>2. m \in DOMAIN rooms /\ rooms'[m] = next[m]
    BY <1>8, <1>10, <2>1
  <2>3. /\ v.frame = next[m].frame
        /\ v.phase \in Unfinished =>
             \/ next[m].phase \in Unfinished
             \/ next[m].phase = "aborted" /\ shutting_down'
    BY <1>6, <1>10, <2>2
  <2> QED BY <2>2, <2>3 DEF Abreast
<1> QED BY <1>7, <1>9, <1>10 DEF VersionInv, Known

\* No game goes on once the main thread has ended them.
LEMMA EndKept ==
    ASSUME Inv, NEW next, Progress(next), GamesEnded' => GamesEnded,
           thread'["main"].pc # "idle" => GamesEnded',
           GamesEnded => DOMAIN rooms' \subseteq DOMAIN rooms
    PROVE  EndInv'
<1>1. ASSUME GamesEnded', NEW m \in DOMAIN rooms'
      PROVE  rooms'[m].phase \in Over
  <2>1. m \in DOMAIN rooms /\ rooms[m].phase \in Over
    BY <1>1 DEF Inv, EndInv
  <2>2. rooms'[m] = next[m] /\ Turns(m, rooms[m], next[m])
    BY <1>1, <2>1 DEF Progress
  <2> QED BY <2>1, <2>2 DEF Turns, Over
<1> QED BY <1>1 DEF EndInv

-----------------------------------------------------------------------------
(* The actions of a process that is up.                                    *)

\* What a thread carries stays right when verdicts and results only grow.
LEMMA WorkKept ==
    ASSUME Inv, NEW next, Progress(next), NEW t \in Threads,
           thread'[t] = thread[t]
    PROVE  WorkOK(thread[t])'
<1>1. PICK w : w = thread[t]
  OBVIOUS
<1>2. WorkOK(w)'
  BY <1>1, ProgressInv DEF Inv, WorkInv
<1> QED BY <1>1, <1>2 DEF WorkOK

\* What follows a lock section or a flushed row.
LEMMA WorkingOK ==
    ASSUME NEW at \in Int, NEW snaps, NEW todo,
           DOMAIN snaps \subseteq created'
    PROVE  /\ WorkOK(Working(at, snaps, todo))'
           /\ Working(at, snaps, todo).pc = "flush" =>
                Working(at, snaps, todo).snaps = snaps
BY DEF WorkOK, Working, Idle

\* A step of the running service keeps the whole invariant, given that the
\* snapshots in flight are old ones or were just taken.
LEMMA ProgressStep ==
    ASSUME Inv, NEW next, Progress(next), Up',
           created' \subseteq Match, DOMAIN rooms' \subseteq created',
           DOMAIN snapState' \subseteq DOMAIN rooms',
           DOMAIN rows' \subseteq created', DOMAIN thread' = Threads,
           \A t \in Threads : WorkOK(thread[t])',
           EndInv',
           \A m \in created' : \A v \in Versions(m)' :
               v \in Versions(m) \/ Taken(m, v, next),
           \A m \in created' : \A v \in Waiting(m)' :
               Kept(m, v, next) \/ Taken(m, v, next)
    PROVE  Inv'
<1>1. /\ \A m \in DOMAIN rooms' : RoomOK(rooms'[m])
      /\ FinishedIsDurable' /\ StoredIsReached'
  BY ProgressInv
<1>2. VersionInv'
  BY VersionStep
<1>3. RegistryInv'
  BY <1>1 DEF RegistryInv, Inv, Progress
<1> QED BY <1>1, <1>2, <1>3 DEF Inv, DownInv, WorkInv

\* A step that leaves the threads and the tables alone.
LEMMA QuietStep ==
    ASSUME Inv, NEW next, Progress(next), Up', UNCHANGED <<thread, rows>>,
           created' \subseteq Match, DOMAIN rooms' \subseteq created',
           DOMAIN snapState' \subseteq DOMAIN rooms',
           GamesEnded' <=> GamesEnded, GamesEnded => DOMAIN rooms' \subseteq DOMAIN rooms,
           \A m \in DOMAIN rooms : Calm(rooms[m], next[m])
    PROVE  Inv'
<1>1. \A m : Versions(m)' = Versions(m) /\ Waiting(m)' = Waiting(m)
  BY DEF Versions, Waiting, Flushing
<1>2. \A t \in Threads : WorkOK(thread[t])'
  BY WorkKept
<1>3. DOMAIN rows' \subseteq created' /\ DOMAIN thread' = Threads
  BY DEF Inv, RegistryInv, Progress
<1>4. EndInv'
  BY EndKept DEF Inv, EndInv
<1>5. \A m : \A v \in Waiting(m) : Kept(m, v, next)
  BY DEF Kept
<1> QED BY <1>1, <1>2, <1>3, <1>4, <1>5, ProgressStep

\* Nothing happens to the rooms.
LEMMA SameRooms ==
    ASSUME Inv, UNCHANGED <<now, rooms, created, results, restarts>>,
           shutting_down => shutting_down'
    PROVE  Progress(rooms) /\ \A m \in DOMAIN rooms : Calm(rooms[m], rooms[m])
<1>1. \A m \in DOMAIN rooms : Turns(m, rooms[m], rooms[m])
  BY StaysMoved, MovedTurns DEF Inv, RegistryInv
<1>2. \A m \in DOMAIN rooms : Calm(rooms[m], rooms[m])
  BY DEF Calm
<1> QED BY <1>1, <1>2 DEF Progress

\* CreateRoom.
LEMMA CreateProgress ==
    ASSUME Inv, NEW m \in Match, NEW at \in Int, Create(m, at)
    PROVE  Progress(rooms) /\ Inv'
<1>1. \A x \in DOMAIN rooms : /\ Turns(x, rooms[x], rooms[x])
                              /\ Calm(rooms[x], rooms[x])
  BY StaysMoved, MovedTurns DEF Inv, RegistryInv, Calm
<1>2. /\ m \notin created /\ created' = created \cup {m} /\ Up
      /\ rooms' = IF shutting_down THEN rooms ELSE Put(rooms, m, NewRoom(at))
      /\ UNCHANGED <<now, snapState, main, thread, rows, results, restarts>>
  BY DEF Create, disk, process
<1>3. /\ created \subseteq Match /\ DOMAIN rooms \subseteq created
      /\ DOMAIN snapState \subseteq DOMAIN rooms
  BY DEF Inv, RegistryInv
<1>4. RoomOK(NewRoom(at)) /\ NewRoom(at).phase = "created"
  BY NewRoomOK
<1>5. /\ DOMAIN rooms \subseteq DOMAIN rooms'
      /\ DOMAIN rooms' \subseteq DOMAIN rooms \cup {m}
      /\ \A x \in DOMAIN rooms : rooms'[x] = rooms[x]
      /\ m \in DOMAIN rooms' => rooms'[m] = NewRoom(at)
  BY <1>2, <1>3 DEF Put, Merge
<1>6. shutting_down' = shutting_down /\ (GamesEnded' <=> GamesEnded) /\ Up'
  BY <1>2 DEF shutting_down, GamesEnded, Up
<1>7. Progress(rooms)
  BY <1>1, <1>2, <1>3, <1>4, <1>5, <1>6 DEF Progress
<1>8. GamesEnded => DOMAIN rooms' \subseteq DOMAIN rooms
  <2>1. GamesEnded => shutting_down
    BY <1>2 DEF GamesEnded, shutting_down, Up
  <2> QED BY <1>2, <2>1
<1> QED BY <1>1, <1>2, <1>3, <1>5, <1>6, <1>7, <1>8, QuietStep

\* The requests that move one room.
LEMMA SetRoomProgress ==
    ASSUME Inv, NEW m \in DOMAIN rooms, NEW q, NEW t, Moved(rooms[m], q, t),
           Calm(rooms[m], q), Up, SetRoom(m, q),
           UNCHANGED <<now, snapState, created, main, thread, disk, process>>
    PROVE  Progress([rooms EXCEPT ![m] = q]) /\ Inv'
<1> DEFINE next == [rooms EXCEPT ![m] = q]
<1>1. \A x \in DOMAIN rooms : /\ Turns(x, rooms[x], rooms[x])
                              /\ Calm(rooms[x], rooms[x])
  BY StaysMoved, MovedTurns DEF Inv, RegistryInv, Calm
<1>2. Turns(m, rooms[m], q)
  BY MovedTurns
<1>3. rooms' = next /\ DOMAIN next = DOMAIN rooms
  BY DEF SetRoom
<1>4. \A x \in DOMAIN rooms : /\ Turns(x, rooms[x], next[x])
                              /\ Calm(rooms[x], next[x])
  BY <1>1, <1>2
<1> HIDE DEF next
<1>5. shutting_down' = shutting_down /\ (GamesEnded' <=> GamesEnded) /\ Up'
  BY DEF shutting_down, GamesEnded, Up
<1>6. Progress(next)
  BY <1>3, <1>4, <1>5 DEF Progress, disk, process
<1>7. created' \subseteq Match /\ DOMAIN rooms' \subseteq created'
      /\ DOMAIN snapState' \subseteq DOMAIN rooms' /\ UNCHANGED <<thread, rows>>
  BY <1>3 DEF Inv, RegistryInv, disk
<1>8. Inv'
  BY <1>3, <1>4, <1>5, <1>6, <1>7, QuietStep
<1> QED BY <1>6, <1>8 DEF next

\* JoinRoom, SubmitInput and SetPresence.
LEMMA RequestProgress ==
    ASSUME Inv, NEW m \in Match, NEW i \in Slots, NEW on \in BOOLEAN,
           NEW at \in Int,
           Join(m, i, at) \/ SubmitInput(m, i) \/ SetPresence(m, i, on, at)
    PROVE  (\E next : Progress(next)) /\ Inv'
<1>1. m \in DOMAIN rooms /\ RoomOK(rooms[m]) /\ Up
  BY DEF Join, SubmitInput, SetPresence, Known, Inv, RegistryInv
<1>2. PICK q : /\ SetRoom(m, q)
               /\ \/ q = JoinRoom(rooms[m], i, at)
                  \/ q = SubmitAttack(rooms[m], i)
                  \/ q = ReportPresence(rooms[m], i, on, at)
  BY DEF Join, SubmitInput, SetPresence
<1>3. Moved(rooms[m], q, at) /\ Calm(rooms[m], q)
  BY <1>1, <1>2, JoinMoved, SubmitMoved, PresenceMoved
<1>4. UNCHANGED <<now, snapState, created, main, thread, disk, process>>
  BY DEF Join, SubmitInput, SetPresence
<1> QED BY <1>1, <1>2, <1>3, <1>4, SetRoomProgress

\* GetState and the other queries, which reap.
LEMMA GetStateProgress ==
    ASSUME Inv, NEW at, GetState(at)
    PROVE  Progress(rooms) /\ Inv'
<1>1. \A x \in DOMAIN rooms : /\ Turns(x, rooms[x], rooms[x])
                              /\ Calm(rooms[x], rooms[x])
  BY StaysMoved, MovedTurns DEF Inv, RegistryInv, Calm
<1>2. /\ DOMAIN rooms' \subseteq DOMAIN rooms
      /\ \A m \in DOMAIN rooms' : rooms'[m] = rooms[m]
      /\ \A m \in DOMAIN rooms \ DOMAIN rooms' :
           rooms[m].phase \in {"finished", "aborted"}
  BY DEF GetState, ReapExpired, Restrict, IsExpired
<1>3. /\ Up /\ UNCHANGED <<now, created, main, thread, rows, results, restarts>>
      /\ DOMAIN snapState' = DOMAIN snapState \cap DOMAIN rooms'
  BY DEF GetState, Restrict, disk, process
<1>4. shutting_down' = shutting_down /\ (GamesEnded' <=> GamesEnded) /\ Up'
  BY <1>3 DEF shutting_down, GamesEnded, Up
<1>5. Progress(rooms)
  BY <1>1, <1>2, <1>3, <1>4 DEF Progress
<1>6. created' \subseteq Match /\ DOMAIN rooms' \subseteq created'
      /\ DOMAIN snapState' \subseteq DOMAIN rooms'
  BY <1>2, <1>3 DEF Inv, RegistryInv
<1> QED BY <1>1, <1>2, <1>3, <1>4, <1>5, <1>6, QuietStep

\* A step of a working thread leaves it to the main thread when games end.
LEMMA EndWork ==
    ASSUME Inv, NEW next, Progress(next), NEW t \in Threads, NEW w,
           thread[t].pc # "idle", thread' = [thread EXCEPT ![t] = w],
           main' = main, DOMAIN rooms' \subseteq DOMAIN rooms
    PROVE  EndInv'
<1>1. GamesEnded' <=> GamesEnded
  BY DEF GamesEnded
<1>2. thread["main"].pc # "idle" => GamesEnded
  BY DEF Inv, EndInv
<1>3. thread'["main"].pc # "idle" => GamesEnded
  BY <1>2 DEF Inv, RegistryInv, Threads
<1> QED BY <1>1, <1>3, EndKept

\* A step of one thread: while another has snapshots of a room in hand, the
\* room stays calm.
LEMMA ThreadStep ==
    ASSUME Inv, NEW next, Progress(next), NEW t \in Threads, NEW w,
           thread' = [thread EXCEPT ![t] = w], WorkOK(w)', Up', EndInv',
           created' = created, DOMAIN rooms' \subseteq created,
           DOMAIN snapState' \subseteq DOMAIN rooms',
           DOMAIN rows' \subseteq created,
           \A m \in DOMAIN rows' : rows'[m] \in Versions(m),
           \A m \in DOMAIN rooms : Flushing(m) # {} => Calm(rooms[m], next[m]),
           w.pc = "flush" => \A m \in DOMAIN w.snaps :
               w.snaps[m] \in Waiting(m) \/ Taken(m, w.snaps[m], next)
    PROVE  Inv'
<1>1. DOMAIN thread' = Threads /\ thread'[t] = w
      /\ \A u \in Threads \ {t} : thread'[u] = thread[u]
  BY DEF Inv, RegistryInv
<1>2. \A u \in Threads : WorkOK(thread[u])'
  <2> TAKE u \in Threads
  <2>1. CASE u = t
    BY <1>1, <2>1 DEF WorkOK
  <2>2. CASE u # t
    BY <1>1, <2>2, WorkKept
  <2> QED BY <2>1, <2>2
<1>3. ASSUME NEW m \in created', NEW v \in Waiting(m)'
      PROVE  v \in Waiting(m) \/ Taken(m, v, next)
  <2>1. PICK u \in Flushing(m)' : v = thread'[u].snaps[m]
    BY <1>3 DEF Waiting
  <2>2. u \in Threads /\ thread'[u].pc = "flush" /\ m \in DOMAIN thread'[u].snaps
    BY <2>1 DEF Flushing
  <2>3. CASE u = t
    BY <1>1, <2>1, <2>2, <2>3
  <2>4. CASE u # t
    <3>1. u \in Flushing(m) /\ v = thread[u].snaps[m]
      BY <1>1, <2>1, <2>2, <2>4 DEF Flushing
    <3> QED BY <3>1 DEF Waiting
  <2> QED BY <2>3, <2>4
<1>4. ASSUME NEW m \in created', NEW v \in Waiting(m)'
      PROVE  Kept(m, v, next) \/ Taken(m, v, next)
  <2>1. v \in Waiting(m) => Flushing(m) # {}
    BY DEF Waiting
  <2> QED BY <1>3, <1>4, <2>1 DEF Kept
<1>5. ASSUME NEW m \in created', NEW v \in Versions(m)'
      PROVE  v \in Versions(m) \/ Taken(m, v, next)
  <2>1. CASE v \in Waiting(m)'
    BY <1>3, <1>5, <2>1 DEF Versions
  <2>2. CASE v \notin Waiting(m)'
    BY <1>5, <2>2 DEF Versions
  <2> QED BY <2>1, <2>2
<1> QED BY <1>1, <1>2, <1>4, <1>5, ProgressStep DEF Inv, RegistryInv

\* The stored row is one of the versions of its match.
LEMMA StoredVersion ==
    \A m \in DOMAIN rows : rows[m] \in Versions(m)
BY DEF Versions

\* The lock section of a tick.
LEMMA TickProgress ==
    ASSUME Inv, NEW t \in Threads, NEW at \in Int, TickLocked(t, at)
    PROVE  (\E next : Progress(next)) /\ Inv'
<1> DEFINE ticked == [m \in DOMAIN rooms |-> TickRoom(rooms[m], at)]
           due == {m \in DOMAIN rooms : ShouldSnapshot(m, ticked[m].phase, at)}
           snaps == [m \in due |-> MakeSnapshotRecord(ticked[m], at)]
           todo == {m \in DOMAIN rooms : ShouldRetryPersist(ticked[m], at)}
           noted == [m \in due |-> [at |-> at, phase |-> ticked[m].phase]]
           kept == {m \in DOMAIN rooms : ~IsExpired(ticked[m], at)}
<1>1. /\ rooms' = Restrict(ticked, kept)
      /\ snapState' = Restrict(Merge(noted, snapState), kept)
      /\ thread' = [thread EXCEPT ![t] = Working(at, snaps, todo)]
      /\ main' = IF t = "main" THEN "joining" ELSE main
      /\ UNCHANGED <<now, created, rows, results, restarts>>
  BY DEF TickLocked, disk, process
<1>2. DOMAIN rooms \subseteq created /\ DOMAIN rows \subseteq created
  BY DEF Inv, RegistryInv
<1>3. \A m \in DOMAIN rooms :
        /\ ticked[m] = TickRoom(rooms[m], at) /\ RoomOK(rooms[m])
        /\ Moved(rooms[m], ticked[m], at)
  BY TickMoved DEF Inv, RegistryInv
<1>4. DOMAIN rooms' = kept /\ DOMAIN snapState' = kept
      /\ \A m \in kept : rooms'[m] = ticked[m]
  BY <1>1 DEF Restrict
<1>5. /\ DOMAIN snaps = due /\ due \subseteq DOMAIN rooms
      /\ \A m \in due : snaps[m] = MakeSnapshotRecord(ticked[m], at)
  OBVIOUS
<1>6. kept \subseteq DOMAIN rooms
      /\ \A m \in DOMAIN rooms \ kept : IsExpired(ticked[m], at)
  OBVIOUS
<1>7. PICK w : w = Working(at, snaps, todo)
  OBVIOUS
<1>8. PICK s : s = snaps
  OBVIOUS
<1>9. PICK d : d = todo
  OBVIOUS
<1> HIDE DEF ticked, due, snaps, todo, noted, kept
<1>10. ASSUME NEW m \in DOMAIN rooms \ kept
       PROVE  rooms[m].phase \in {"finished", "aborted"}
  <2>1. /\ ticked[m].phase \in {"finished", "aborted"}
        /\ at - ticked[m].finishedAt >= kFinishedRetentionMs
    BY <1>6, <1>10 DEF IsExpired
  <2>2. Moved(rooms[m], ticked[m], at) /\ rooms[m].phase \in RoomPhase
    BY <1>3, <1>10 DEF RoomOK, RoomType
  <2>3. rooms[m].phase \notin Unfinished
    <3> SUFFICES ASSUME rooms[m].phase \in Unfinished
                 PROVE  FALSE
      OBVIOUS
    <3>1. ticked[m].finishedAt = at
      BY <2>1, <2>2 DEF Moved
    <3> QED BY <2>1, <3>1, ConstantsAssumption
  <2> QED BY <2>1, <2>2, <2>3 DEF Moved, RoomPhase
<1>11. Progress(ticked)
  <2>1. \A m \in DOMAIN rooms : Turns(m, rooms[m], ticked[m])
    BY <1>3, MovedTurns
  <2>2. shutting_down => shutting_down'
    BY <1>1 DEF shutting_down
  <2> QED BY <1>1, <1>4, <1>6, <1>10, <2>1, <2>2 DEF Progress
<1>12. WorkOK(w)' /\ (w.pc = "flush" => w.snaps = s)
  <2>1. DOMAIN s \subseteq created'
    BY <1>1, <1>2, <1>5, <1>8
  <2>2. w = Working(at, s, d)
    BY <1>7, <1>8, <1>9
  <2>3. /\ WorkOK(Working(at, s, d))'
        /\ Working(at, s, d).pc = "flush" => Working(at, s, d).snaps = s
    BY <2>1, WorkingOK
  <2> QED BY <2>2, <2>3
<1>13. w.pc = "flush" => \A m \in DOMAIN w.snaps : Taken(m, w.snaps[m], ticked)
  BY <1>3, <1>5, <1>8, <1>12 DEF Taken
<1>14. Up'
  <2>1. MayTick(t)
    BY DEF TickLocked
  <2> QED BY <1>1, <2>1 DEF MayTick, Up
<1>15. thread' = [thread EXCEPT ![t] = w]
  BY <1>1, <1>7
<1>16. /\ DOMAIN rooms' \subseteq created /\ created' = created
       /\ DOMAIN snapState' \subseteq DOMAIN rooms'
       /\ DOMAIN rows' \subseteq created
       /\ \A m \in DOMAIN rows' : rows'[m] \in Versions(m)
  BY <1>1, <1>2, <1>4, <1>6, StoredVersion
<1>17. GamesEnded' => GamesEnded
  BY <1>1 DEF TickLocked, MayTick, GamesEnded
<1>18. EndInv'
  <2>1. thread'["main"].pc # "idle" => GamesEnded'
    <3>1. CASE t = "main"
      BY <1>1, <3>1 DEF GamesEnded
    <3>2. CASE t # "main"
      <4>1. thread'["main"] = thread["main"] /\ main' = main
        BY <1>1, <3>2 DEF Inv, RegistryInv, Threads
      <4> QED BY <4>1 DEF Inv, EndInv, GamesEnded
    <3> QED BY <3>1, <3>2
  <2> QED BY <1>4, <1>6, <1>11, <1>17, <2>1, EndKept
<1>19. ASSUME NEW m \in DOMAIN rooms, Flushing(m) # {}
       PROVE  Calm(rooms[m], ticked[m])
  <2>1. PICK u \in Threads : thread[u].pc = "flush"
    BY <1>19 DEF Flushing
  <2>2. u # t
    BY <2>1 DEF TickLocked, MayTick
  <2>3. GamesEnded
    <3>1. CASE t = "main"
      BY <3>1 DEF TickLocked, MayTick, GamesEnded
    <3>2. CASE t = "ticker"
      BY <2>1, <2>2, <3>2 DEF Threads, Inv, EndInv
    <3> QED BY <3>1, <3>2 DEF Threads
  <2>4. rooms[m].phase \in Over
    BY <1>19, <2>3 DEF Inv, EndInv
  <2>5. Turns(m, rooms[m], ticked[m])
    BY <1>3, <1>19, MovedTurns
  <2> QED BY <2>4, <2>5, OverCalm
<1>20. Inv'
  BY <1>11, <1>12, <1>13, <1>14, <1>15, <1>16, <1>18, <1>19, ThreadStep
<1> QED BY <1>11, <1>20

\* AbortUnfinishedGames.
LEMMA AbortProgress ==
    ASSUME Inv, NEW at \in Int, AbortUnfinishedGames(at)
    PROVE  (\E next : Progress(next)) /\ Inv'
<1> DEFINE aborted == [m \in UnfinishedGames |-> Abort(rooms[m], at)]
           noted == [m \in UnfinishedGames |-> [at |-> at,
                                                phase |-> "aborted"]]
           snaps == [m \in UnfinishedGames |->
                       MakeSnapshotRecord(aborted[m], at)]
           next == Merge(aborted, rooms)
<1>1. /\ main' = "aborting" /\ rooms' = next
      /\ snapState' = Merge(noted, snapState)
      /\ thread' = [thread EXCEPT !["main"] = Working(at, snaps, {})]
      /\ UNCHANGED <<now, created, rows, results, restarts>>
  BY DEF AbortUnfinishedGames, disk, process
<1>2. /\ DOMAIN rooms \subseteq created
      /\ DOMAIN rows \subseteq created /\ DOMAIN snapState \subseteq DOMAIN rooms
      /\ \A m \in DOMAIN rooms : RoomOK(rooms[m])
  BY DEF Inv, RegistryInv
<1>3. /\ UnfinishedGames \subseteq DOMAIN rooms
      /\ \A m \in UnfinishedGames : rooms[m].phase \in Unfinished
  BY DEF UnfinishedGames
<1>4. \A m \in UnfinishedGames :
        /\ aborted[m] = Abort(rooms[m], at) /\ next[m] = aborted[m]
        /\ Moved(rooms[m], aborted[m], at) /\ aborted[m].phase = "aborted"
        /\ aborted[m].frame = rooms[m].frame
        /\ snaps[m] = MakeSnapshotRecord(aborted[m], at)
  <2> TAKE m \in UnfinishedGames
  <2>1. aborted[m] = Abort(rooms[m], at) /\ next[m] = aborted[m]
        /\ snaps[m] = MakeSnapshotRecord(aborted[m], at)
    BY DEF Merge
  <2>2. Moved(rooms[m], Abort(rooms[m], at), at)
        /\ Abort(rooms[m], at).phase = "aborted"
        /\ Abort(rooms[m], at).frame = rooms[m].frame
    BY <1>2, <1>3, AbortMoved
  <2> QED BY <2>1, <2>2
<1>5. \A m \in DOMAIN rooms \ UnfinishedGames : next[m] = rooms[m]
  BY DEF Merge
<1>6. DOMAIN next = DOMAIN rooms /\ DOMAIN snaps = UnfinishedGames
      /\ DOMAIN snapState' \subseteq DOMAIN rooms
  BY <1>1, <1>2, <1>3 DEF Merge
<1>7. PICK w, s, none : w = Working(at, snaps, none) /\ s = snaps /\ none = {}
  OBVIOUS
<1> HIDE DEF aborted, noted, snaps, next
<1>8. Progress(next)
  <2>1. \A m \in DOMAIN rooms : Turns(m, rooms[m], next[m])
    BY <1>2, <1>4, <1>5, MovedTurns, StaysMoved
  <2>2. shutting_down'
    BY <1>1 DEF shutting_down
  <2> QED BY <1>1, <1>6, <2>1, <2>2 DEF Progress
<1>9. WorkOK(w)' /\ (w.pc = "flush" => w.snaps = s)
  <2>1. DOMAIN s \subseteq created'
    BY <1>1, <1>2, <1>3, <1>6, <1>7
  <2>2. /\ WorkOK(Working(at, s, none))'
        /\ Working(at, s, none).pc = "flush" => Working(at, s, none).snaps = s
    BY <2>1, WorkingOK
  <2> QED BY <1>7, <2>2
<1>10. w.pc = "flush" => \A m \in DOMAIN w.snaps : Taken(m, w.snaps[m], next)
  BY <1>3, <1>4, <1>6, <1>7, <1>9 DEF Taken
<1>11. PICK t \in Threads : thread' = [thread EXCEPT ![t] = w]
  BY <1>1, <1>7 DEF Threads
<1>12. Up'
  BY <1>1 DEF Up
<1>13. /\ DOMAIN rooms' \subseteq created /\ created' = created
       /\ DOMAIN snapState' \subseteq DOMAIN rooms'
       /\ DOMAIN rows' \subseteq created
       /\ \A m \in DOMAIN rows' : rows'[m] \in Versions(m)
  BY <1>1, <1>2, <1>6, StoredVersion
<1>14. EndInv'
  <2>1. GamesEnded'
    BY <1>1 DEF GamesEnded
  <2>2. ASSUME NEW m \in DOMAIN rooms'
        PROVE  rooms'[m].phase \in Over
    <3>1. m \in DOMAIN rooms /\ rooms'[m] = next[m]
      BY <1>1, <1>6, <2>2
    <3>2. CASE m \in UnfinishedGames
      BY <1>4, <3>1, <3>2 DEF Over
    <3>3. CASE m \notin UnfinishedGames
      <4>1. next[m] = rooms[m] /\ rooms[m].phase \notin Unfinished
        BY <1>5, <3>1, <3>3 DEF UnfinishedGames
      <4>2. rooms[m].phase \in RoomPhase
        BY <1>2, <3>1 DEF RoomOK, RoomType
      <4> QED BY <3>1, <4>1, <4>2 DEF RoomPhase
    <3> QED BY <3>2, <3>3
  <2> QED BY <2>1, <2>2 DEF EndInv
<1>15. ASSUME NEW m \in DOMAIN rooms
       PROVE  Calm(rooms[m], next[m])
  <2>1. shutting_down'
    BY <1>1 DEF shutting_down
  <2> QED BY <1>4, <1>5, <1>15, <2>1 DEF Calm
<1>16. Inv'
  BY <1>8, <1>9, <1>10, <1>11, <1>12, <1>13, <1>14, <1>15, ThreadStep
<1> QED BY <1>8, <1>16

\* A thread that works belongs to a process that is up.
LEMMA BusyUp ==
    ASSUME Inv, NEW t \in Threads, thread[t].pc # "idle", main' = main
    PROVE  Up'
BY DEF Inv, DownInv, Idle, Up

\* FlushSnapshots, one row.
LEMMA FlushProgress ==
    ASSUME Inv, NEW t \in Threads, FlushSnapshot(t)
    PROVE  Progress(rooms) /\ Inv'
<1>1. /\ thread[t].pc = "flush"
      /\ UNCHANGED <<now, rooms, snapState, created, main, results, restarts>>
  BY DEF FlushSnapshot, process
<1>2. PICK m \in DOMAIN thread[t].snaps :
        /\ \/ rows' = Save(rows, m, thread[t].snaps[m])
           \/ UNCHANGED rows
        /\ thread' = [thread EXCEPT ![t] =
             Working(thread[t].at,
                     Restrict(thread[t].snaps, DOMAIN thread[t].snaps \ {m}),
                     thread[t].todo)]
  BY DEF FlushSnapshot
<1>3. PICK n, s, d, w :
        /\ n = thread[t].at /\ d = thread[t].todo
        /\ s = Restrict(thread[t].snaps, DOMAIN thread[t].snaps \ {m})
        /\ w = Working(n, s, d)
  OBVIOUS
<1>4. /\ n \in Int /\ DOMAIN thread[t].snaps \subseteq created
      /\ DOMAIN rows \subseteq created
      /\ DOMAIN rooms \subseteq created /\ DOMAIN snapState \subseteq DOMAIN rooms
  BY <1>1, <1>3 DEF Inv, RegistryInv, WorkInv, WorkOK
<1>5. /\ DOMAIN s \subseteq DOMAIN thread[t].snaps
      /\ \A x \in DOMAIN s : s[x] = thread[t].snaps[x]
  BY <1>3 DEF Restrict
<1>6. \A x \in DOMAIN thread[t].snaps : /\ thread[t].snaps[x] \in Waiting(x)
                                         /\ thread[t].snaps[x] \in Versions(x)
  BY <1>1 DEF Versions, Waiting, Flushing
<1>7. Progress(rooms) /\ \A x \in DOMAIN rooms : Calm(rooms[x], rooms[x])
  BY <1>1, SameRooms DEF shutting_down
<1>8. WorkOK(w)' /\ (w.pc = "flush" => w.snaps = s)
  <2>1. DOMAIN s \subseteq created'
    BY <1>1, <1>4, <1>5
  <2> QED BY <1>3, <1>4, <2>1, WorkingOK
<1>9. w.pc = "flush" => \A x \in DOMAIN w.snaps : w.snaps[x] \in Waiting(x)
  BY <1>5, <1>6, <1>8
<1>10. DOMAIN rows' \subseteq created
       /\ \A x \in DOMAIN rows' : rows'[x] \in Versions(x)
  <2>1. CASE rows' = rows
    BY <1>4, <2>1, StoredVersion
  <2>2. CASE rows' = Put(rows, m, thread[t].snaps[m])
    <3>1. /\ DOMAIN rows' = DOMAIN rows \cup {m} /\ rows'[m] = thread[t].snaps[m]
          /\ \A x \in DOMAIN rows \ {m} : rows'[x] = rows[x]
      BY <2>2 DEF Put, Merge
    <3> QED BY <1>2, <1>4, <1>6, <3>1, StoredVersion
  <2> QED BY <1>2, <2>1, <2>2 DEF Save
<1>11. Up'
  BY <1>1, BusyUp
<1>12. thread' = [thread EXCEPT ![t] = w]
  BY <1>2, <1>3
<1>13. /\ DOMAIN rooms' \subseteq created /\ created' = created
       /\ DOMAIN snapState' \subseteq DOMAIN rooms'
  BY <1>1, <1>4
<1>14. EndInv'
  BY <1>1, <1>7, <1>12, EndWork
<1>15. Inv'
  BY <1>7, <1>8, <1>9, <1>10, <1>11, <1>12, <1>13, <1>14, ThreadStep
<1> QED BY <1>7, <1>15

\* The lock section before the INSERT.
LEMMA PickProgress ==
    ASSUME Inv, NEW t \in Threads, PickResult(t)
    PROVE  Progress(rooms) /\ Inv'
<1>1. /\ thread[t].pc = "pick"
      /\ UNCHANGED <<now, rooms, snapState, created, main, rows, results, restarts>>
  BY DEF PickResult, disk, process
<1>2. PICK m \in thread[t].todo : thread' = [thread EXCEPT ![t] =
        IF InPhase(m, {"finishing"})
        THEN [pc |-> "write", at |-> thread[t].at, todo |-> thread[t].todo \ {m},
              of |-> m, winner |-> rooms[m].winner]
        ELSE Working(thread[t].at, <<>>, thread[t].todo \ {m})]
  BY DEF PickResult
<1>3. PICK todo, at, none, w :
        /\ todo = thread[t].todo \ {m} /\ at = thread[t].at /\ none = <<>>
        /\ w = IF InPhase(m, {"finishing"})
               THEN [pc |-> "write", at |-> at, todo |-> todo, of |-> m,
                     winner |-> rooms[m].winner]
               ELSE Working(at, none, todo)
        /\ thread' = [thread EXCEPT ![t] = w]
  BY <1>2
<1>4. /\ at \in Int /\ DOMAIN rooms \subseteq created
      /\ DOMAIN rows \subseteq created
      /\ DOMAIN snapState \subseteq DOMAIN rooms
  BY <1>1, <1>3 DEF Inv, RegistryInv, WorkInv, WorkOK
<1>5. Progress(rooms) /\ \A x \in DOMAIN rooms : Calm(rooms[x], rooms[x])
  BY <1>1, SameRooms DEF shutting_down
<1>6. WorkOK(w)'
      /\ (w.pc = "flush" => w.snaps = none /\ DOMAIN w.snaps = {})
  <2>1. CASE InPhase(m, {"finishing"})
    <3>1. rooms[m].winner \in Winner
      BY <2>1 DEF InPhase, Known, Inv, RegistryInv, RoomOK, RoomType, Winner
    <3>2. /\ w.pc = "write" /\ w.at = at /\ w.of = m /\ w.winner = rooms[m].winner
      BY <1>3, <2>1
    <3>3. Writable(m, rooms[m].winner)
      BY <2>1 DEF Writable
    <3>4. Writable(w.of, w.winner)'
      BY <1>1, <3>2, <3>3 DEF Writable, InPhase, Known
    <3> QED BY <1>4, <3>1, <3>2, <3>4 DEF WorkOK
  <2>2. CASE ~InPhase(m, {"finishing"})
    <3>1. DOMAIN none = {}
      BY <1>3
    <3>2. /\ WorkOK(Working(at, none, todo))'
          /\ Working(at, none, todo).pc = "flush" =>
               Working(at, none, todo).snaps = none
      BY <1>4, <3>1, WorkingOK
    <3> QED BY <1>3, <2>2, <3>1, <3>2
  <2> QED BY <2>1, <2>2
<1>7. w.pc = "flush" => \A x \in DOMAIN w.snaps :
        w.snaps[x] \in Waiting(x) \/ Taken(x, w.snaps[x], rooms)
  BY <1>6
<1>8. Up'
  BY <1>1, BusyUp
<1>9. /\ DOMAIN rooms' \subseteq created /\ created' = created
      /\ DOMAIN snapState' \subseteq DOMAIN rooms' /\ DOMAIN rows' \subseteq created
      /\ \A x \in DOMAIN rows' : rows'[x] \in Versions(x)
  BY <1>1, <1>4, StoredVersion
<1>10. EndInv'
  BY <1>1, <1>3, <1>5, EndWork
<1>11. Inv'
  BY <1>3, <1>5, <1>6, <1>7, <1>8, <1>9, <1>10, ThreadStep
<1> QED BY <1>5, <1>11

\* The lock section after the INSERT.
LEMMA MarkProgress ==
    ASSUME Inv, NEW t \in Threads, MarkResult(t)
    PROVE  (\E next : Progress(next)) /\ Inv'
<1>1. /\ thread[t].pc = "mark"
      /\ UNCHANGED <<now, snapState, created, main, rows, results, restarts>>
  BY DEF MarkResult, disk, process
<1>2. PICK m, ok, at, todo, none, w :
        /\ m = thread[t].of /\ ok = thread[t].ok /\ at = thread[t].at
        /\ todo = thread[t].todo /\ none = <<>> /\ w = Working(at, none, todo)
  OBVIOUS
<1>3. rooms' = IF m \notin DOMAIN rooms THEN rooms
               ELSE [rooms EXCEPT ![m] = IF ok THEN MarkResultPersisted(rooms[m])
                                         ELSE MarkResultFailed(rooms[m], at)]
  BY <1>2 DEF MarkResult, Known
<1>4. thread' = [thread EXCEPT ![t] = w]
  BY <1>2 DEF MarkResult
<1>5. /\ at \in Int /\ DOMAIN rooms \subseteq created
      /\ DOMAIN rows \subseteq created /\ ok \in BOOLEAN
      /\ DOMAIN snapState \subseteq DOMAIN rooms
      /\ ok => m \in DOMAIN results
  BY <1>1, <1>2 DEF Inv, RegistryInv, WorkInv, WorkOK
<1>6. \A x \in DOMAIN rooms : /\ RoomOK(rooms[x]) /\ Turns(x, rooms[x], rooms[x])
                              /\ Calm(rooms[x], rooms[x])
  BY StaysMoved, MovedTurns DEF Inv, RegistryInv, Calm
<1>7. ASSUME m \in DOMAIN rooms
      PROVE  Turns(m, rooms[m], rooms'[m]) /\ Calm(rooms[m], rooms'[m])
  <2>1. CASE ok
    <3> DEFINE r == rooms[m]
               q == MarkResultPersisted(r)
    <3>1. rooms'[m] = q
      BY <1>3, <1>7, <2>1
    <3>2. /\ RoomOK(q) /\ q.frame = r.frame /\ q.winner = r.winner
          /\ q.phase = IF r.phase = "finishing" THEN "finished" ELSE r.phase
      BY <1>5, <1>6, <1>7, MarkFacts
    <3>3. r.frame \in Nat
      BY <1>6, <1>7 DEF RoomOK, RoomType
    <3> HIDE DEF q
    <3>4. r.phase \in Unfinished => q.phase # "finished"
      BY <3>2 DEF Unfinished
    <3>5. Turns(m, r, q)
      BY <1>5, <2>1, <3>2, <3>3, <3>4 DEF Turns
    <3>6. Calm(r, q)
      BY <3>2 DEF Calm, Unfinished
    <3> QED BY <3>1, <3>5, <3>6
  <2>2. CASE ~ok
    <3>1. rooms'[m] = MarkResultFailed(rooms[m], at)
      BY <1>3, <1>7, <2>2
    <3>2. /\ Moved(rooms[m], MarkResultFailed(rooms[m], at), at)
          /\ Calm(rooms[m], MarkResultFailed(rooms[m], at))
      BY <1>5, <1>6, <1>7, MarkFacts
    <3> QED BY <3>1, <3>2, MovedTurns
  <2> QED BY <2>1, <2>2, <1>5
<1>8. PICK next : next = rooms'
  OBVIOUS
<1>9. DOMAIN rooms' = DOMAIN rooms
      /\ \A x \in DOMAIN rooms : x # m => rooms'[x] = rooms[x]
  BY <1>3
<1>10. Progress(next) /\ \A x \in DOMAIN rooms : Calm(rooms[x], next[x])
  <2>1. shutting_down' = shutting_down
    BY <1>1 DEF shutting_down
  <2> QED BY <1>1, <1>6, <1>7, <1>8, <1>9, <2>1 DEF Progress
<1>11. WorkOK(w)' /\ (w.pc = "flush" => DOMAIN w.snaps = {})
  <2>1. DOMAIN none = {}
    BY <1>2
  <2>2. /\ WorkOK(Working(at, none, todo))'
        /\ Working(at, none, todo).pc = "flush" =>
             Working(at, none, todo).snaps = none
    BY <1>5, <2>1, WorkingOK
  <2> QED BY <1>2, <2>1, <2>2
<1>12. w.pc = "flush" => \A x \in DOMAIN w.snaps :
        w.snaps[x] \in Waiting(x) \/ Taken(x, w.snaps[x], next)
  BY <1>11
<1>13. Up'
  BY <1>1, BusyUp
<1>14. /\ DOMAIN rooms' \subseteq created /\ created' = created
       /\ DOMAIN snapState' \subseteq DOMAIN rooms' /\ DOMAIN rows' \subseteq created
       /\ \A x \in DOMAIN rows' : rows'[x] \in Versions(x)
  BY <1>1, <1>5, <1>9, StoredVersion
<1>15. EndInv'
  BY <1>1, <1>4, <1>9, <1>10, EndWork
<1>16. Inv'
  BY <1>4, <1>10, <1>11, <1>12, <1>13, <1>14, <1>15, ThreadStep
<1> QED BY <1>10, <1>16

\* Fewer snapshots of rooms that stay as they are.
LEMMA FewerVersions ==
    ASSUME Inv, UNCHANGED <<rooms, created>>, shutting_down => shutting_down',
           \A m : Versions(m)' \subseteq Versions(m),
           \A m : Waiting(m)' \subseteq Waiting(m)
    PROVE  VersionInv'
<1>1. ASSUME NEW m \in created, NEW v \in Versions(m)'
      PROVE  RowOK(v) /\ (m \in DOMAIN rooms => Behind(v, rooms[m]))
  BY <1>1 DEF Inv, VersionInv, Known
<1>2. ASSUME NEW m \in created, NEW v \in Waiting(m)', m \in DOMAIN rooms
      PROVE  Abreast(v, rooms[m])'
  BY <1>2 DEF Inv, VersionInv, Known, Abreast
<1>3. ASSUME NEW m \in created, NEW v \in Waiting(m)', NEW w \in Versions(m)'
      PROVE  Follows(w, v)'
  <2>1. Follows(w, v)
    BY <1>3 DEF Inv, VersionInv
  <2> QED BY <2>1 DEF Follows
<1> QED BY <1>1, <1>2, <1>3 DEF VersionInv, Known, Behind

\* The winner written is that of the room, or the first one stored stays.
LEMMA WriteInv ==
    ASSUME Inv, NEW t \in Threads, NEW ok \in BOOLEAN, WriteResult(t, ok)
    PROVE  Inv'
<1>1. /\ thread[t].pc = "write"
      /\ UNCHANGED <<now, rooms, snapState, created, main, rows, restarts>>
  BY DEF WriteResult, process
<1>2. PICK m, winner, at, todo, w :
        /\ m = thread[t].of /\ winner = thread[t].winner /\ at = thread[t].at
        /\ todo = thread[t].todo
        /\ w = [pc |-> "mark", at |-> at, todo |-> todo, of |-> m, ok |-> ok]
  OBVIOUS
<1>3. \/ results' = Write(results, m, winner)
      \/ ~ok /\ UNCHANGED results
  BY <1>2 DEF WriteResult
<1>4. thread' = [thread EXCEPT ![t] = w]
  BY <1>2 DEF WriteResult
<1>5. at \in Int /\ winner \in Winner /\ Writable(m, winner)
  BY <1>1, <1>2 DEF Inv, WorkInv, WorkOK
<1>6. m \in created
  BY <1>5 DEF Writable, InPhase, Known, Inv, RegistryInv
<1>7. /\ DOMAIN results \subseteq DOMAIN results'
      /\ DOMAIN results' \subseteq DOMAIN results \cup {m}
      /\ \A x \in DOMAIN results : results'[x] = results[x]
      /\ m \in DOMAIN results' \ DOMAIN results => results'[m] = winner
      /\ ok => m \in DOMAIN results'
  BY <1>3 DEF Write, Put, Merge
<1>8. \A x, y : Writable(x, y) => Writable(x, y)'
  BY <1>1, <1>7 DEF Writable, InPhase, Known
<1>9. WorkInv'
  <2> SUFFICES ASSUME NEW u \in Threads
               PROVE  WorkOK(thread[u])'
    BY DEF WorkInv
  <2>1. CASE u = t
    <3>1. thread'[u] = w
      BY <1>4, <2>1 DEF Inv, RegistryInv
    <3> QED BY <1>2, <1>5, <1>7, <3>1 DEF WorkOK
  <2>2. CASE u # t
    <3>1. PICK x : x = thread[u] /\ x = thread'[u]
      BY <1>4, <2>2 DEF Inv, RegistryInv
    <3>2. WorkOK(x)
      BY <3>1 DEF Inv, WorkInv
    <3>3. x.pc = "write" => Writable(x.of, x.winner)'
      BY <1>8, <3>2 DEF WorkOK
    <3>4. WorkOK(x)'
      BY <1>1, <1>7, <3>2, <3>3 DEF WorkOK
    <3> QED BY <3>1, <3>4 DEF WorkOK
  <2> QED BY <2>1, <2>2
<1>10. VersionInv'
  <2>1. \A x : Flushing(x)' \subseteq Flushing(x) \ {t}
    BY <1>2, <1>4 DEF Flushing, Inv, RegistryInv
  <2>2. \A u \in Threads \ {t} : thread'[u] = thread[u]
    BY <1>4 DEF Inv, RegistryInv
  <2>3. \A x : /\ Waiting(x)' \subseteq Waiting(x)
               /\ Versions(x)' \subseteq Versions(x)
    <3>1. ASSUME NEW x, NEW v \in Waiting(x)'
          PROVE  v \in Waiting(x)
      <4>1. PICK u \in Flushing(x) \ {t} : v = thread'[u].snaps[x]
        BY <2>1, <3>1 DEF Waiting
      <4>2. u \in Threads
        BY <4>1 DEF Flushing
      <4>3. thread'[u] = thread[u]
        BY <2>2, <4>1, <4>2
      <4> QED BY <4>1, <4>3 DEF Waiting
    <3> QED BY <1>1, <3>1 DEF Versions
  <2>4. shutting_down' = shutting_down
    BY <1>1 DEF shutting_down
  <2> QED BY <1>1, <2>3, <2>4, FewerVersions
<1>11. FinishedIsDurable'
  BY <1>1, <1>7 DEF Inv, FinishedIsDurable, InPhase, Known
<1>12. StoredIsReached'
  <2> SUFFICES ASSUME restarts = 0, NEW x \in DOMAIN rooms
               PROVE  /\ rooms[x].phase \in {"finishing", "finished"}
                         /\ x \in DOMAIN results' => results'[x] = rooms[x].winner
                      /\ rooms[x].phase \in Unfinished \cup {"aborted"}
                         => x \notin DOMAIN results'
    BY <1>1 DEF StoredIsReached, InPhase, Known
  <2>1. /\ rooms[x].phase \in {"finishing", "finished"} /\ x \in DOMAIN results
             => results[x] = rooms[x].winner
        /\ rooms[x].phase \in Unfinished \cup {"aborted"} => x \notin DOMAIN results
    BY DEF Inv, StoredIsReached, InPhase, Known
  <2>2. CASE x \in DOMAIN results
    BY <1>7, <2>1, <2>2
  <2>3. CASE x \notin DOMAIN results /\ x \in DOMAIN results'
    <3>1. x = m /\ results'[x] = winner
      BY <1>7, <2>3
    <3>2. rooms[x].phase = "finishing" /\ rooms[x].winner = winner
      BY <1>5, <2>3, <3>1 DEF Writable, InPhase
    <3> QED BY <3>1, <3>2 DEF Unfinished
  <2>4. CASE x \notin DOMAIN results'
    BY <2>4
  <2> QED BY <2>2, <2>3, <2>4
<1>13. RegistryInv'
  <2>1. \A x \in DOMAIN results' : results'[x] \in Winner
    BY <1>5, <1>7 DEF Inv, RegistryInv
  <2>2. DOMAIN results' \subseteq created /\ DOMAIN thread' = Threads
    BY <1>4, <1>6, <1>7 DEF Inv, RegistryInv
  <2> QED BY <1>1, <2>1, <2>2 DEF Inv, RegistryInv
<1>14. DownInv'
  BY <1>1, BusyUp DEF DownInv
<1>15. EndInv'
  <2>1. GamesEnded' <=> GamesEnded
    BY <1>1 DEF GamesEnded
  <2>2. thread'["main"].pc # "idle" => thread["main"].pc # "idle"
    BY <1>1, <1>4 DEF Inv, RegistryInv, Threads
  <2> QED BY <1>1, <2>1, <2>2 DEF Inv, EndInv
<1> QED BY <1>9, <1>10, <1>11, <1>12, <1>13, <1>14, <1>15 DEF Inv

\* The main thread goes from one phase of the drain to the next.
LEMMA DrainInv ==
    ASSUME Inv, BeginShutdown \/ AbortFlushed \/ StopTicker
    PROVE  Progress(rooms) /\ Inv'
<1>1. UNCHANGED <<now, rooms, snapState, thread, created, rows, results, restarts>>
  BY DEF BeginShutdown, AbortFlushed, StopTicker, memory, disk, process
<1>2. Up' /\ (shutting_down => shutting_down') /\ (GamesEnded' <=> GamesEnded)
  BY DEF BeginShutdown, AbortFlushed, StopTicker, Up, shutting_down, GamesEnded
<1>3. Progress(rooms) /\ \A x \in DOMAIN rooms : Calm(rooms[x], rooms[x])
  BY <1>1, <1>2, SameRooms
<1>4. /\ created' \subseteq Match /\ DOMAIN rooms' \subseteq created'
      /\ DOMAIN snapState' \subseteq DOMAIN rooms'
  BY <1>1 DEF Inv, RegistryInv
<1> QED BY <1>1, <1>2, <1>3, <1>4, QuietStep

-----------------------------------------------------------------------------
(* Going down and coming up.                                               *)

\* The empty map.
LEMMA EmptyMap == DOMAIN <<>> = {}
OBVIOUS

\* Idle threads carry nothing.
LEMMA IdleWork ==
    ASSUME \A t \in Threads : thread[t] = Idle
    PROVE  WorkInv /\ \A m : Flushing(m) = {} /\ Waiting(m) = {}
BY DEF WorkInv, WorkOK, Idle, Flushing, Waiting

\* The process ends or dies: only the tables are left.
LEMMA ForgetInv ==
    ASSUME Inv, Exit \/ Crash
    PROVE  Inv'
<1>1. /\ rooms' = <<>> /\ snapState' = <<>> /\ DOMAIN thread' = Threads
      /\ \A t \in Threads : thread'[t] = Idle
      /\ UNCHANGED <<now, created, rows, results, restarts>>
  BY DEF Exit, Crash, Forget, disk, process
<1>2. DOMAIN rooms' = {} /\ DOMAIN snapState' = {}
  BY <1>1, EmptyMap
<1>3. RegistryInv'
  BY <1>1, <1>2 DEF Inv, RegistryInv
<1>4. DownInv' /\ FinishedIsDurable' /\ StoredIsReached'
  BY <1>1, <1>2 DEF DownInv, FinishedIsDurable, StoredIsReached
<1>5. WorkInv' /\ \A m : Waiting(m)' = {}
  BY <1>1 DEF WorkInv, WorkOK, Idle, Flushing, Waiting
<1>6. \A m : Versions(m)' \subseteq Versions(m)
  BY <1>1, <1>5 DEF Versions
<1>7. VersionInv'
  <2>1. ASSUME NEW m \in created, NEW v \in Versions(m)'
        PROVE  RowOK(v)
    BY <1>6, <2>1 DEF Inv, VersionInv
  <2> QED BY <1>1, <1>2, <1>5, <2>1 DEF VersionInv, Known
<1>8. EndInv'
  BY <1>1, <1>2 DEF EndInv, Threads, Idle
<1> QED BY <1>3, <1>4, <1>5, <1>7, <1>8 DEF Inv

\* A row that does not parse, rewritten.
Rejected(w) ==
    [w EXCEPT !.phase = "aborted", !.reason = "aborted", !.winner = NoWinner,
              !.snapshotAt = now]

\* A rejected row, rewritten as ABORTED, is a sound row of the same frame.
LEMMA RejectedOK ==
    ASSUME now \in Int, NEW w, RowOK(w)
    PROVE  /\ RowOK(Rejected(w)) /\ Rejected(w).frame = w.frame
           /\ Rejected(w).phase = "aborted" /\ Rejected(w).snapshotAt = now
<1>1. w \in RowType
  BY DEF RowOK
<1>2. /\ "aborted" \in RoomPhase /\ "aborted" \in FinishReason
      /\ NoWinner \in Winner
  BY DEF RoomPhase, Over, FinishReason, Winner
<1>3. /\ Rejected(w) \in RowType /\ Rejected(w).frame = w.frame
      /\ Rejected(w).phase = "aborted" /\ Rejected(w).snapshotAt = now
  BY <1>1, <1>2 DEF RowType, Rejected
<1> QED BY <1>3 DEF RowOK, Unfinished

\* What Restart does to the tables and makes of them.
LEMMA RestartFacts ==
    ASSUME Inv, Restart
    PROVE  /\ DOMAIN rows' = DOMAIN rows
           /\ \A m \in DOMAIN rows :
                \/ rows'[m] = rows[m]
                \/ /\ m \notin DOMAIN rooms' /\ rows'[m] = Rejected(rows[m])
                   /\ rows[m].phase \notin {"finished", "aborted"}
           /\ \A m \in DOMAIN rooms' :
                /\ m \in DOMAIN rows /\ rows[m].reason \in ParsedReasons
                /\ rows[m].phase \in Unfinished \cup {"finishing"}
                /\ rooms'[m] = RestoreFrom(rows[m], now)
<1>1. DOMAIN rooms = {}
  BY EmptyMap DEF Inv, DownInv, Restart
<1>2. \A m \in DOMAIN rows : rows[m].phase \in RoomPhase
  BY StoredVersion DEF Inv, RegistryInv, VersionInv, RowOK, RowType
<1>3. CASE UNCHANGED <<rooms, rows>>
  BY <1>1, <1>3
<1>4. CASE ~UNCHANGED <<rooms, rows>>
  <2> DEFINE good == {m \in LoadUnfinished : rows[m].reason \in ParsedReasons}
  <2>1. PICK saved \in SUBSET (LoadUnfinished \ good) :
          /\ rooms' = [m \in good |-> RestoreFrom(rows[m], now)]
          /\ rows' = Merge([m \in saved |-> Rejected(rows[m])], rows)
    BY <1>4 DEF Restart, Rejected
  <2>2. /\ saved \subseteq DOMAIN rows
        /\ \A m \in saved : rows[m].phase \notin {"finished", "aborted"}
    BY <2>1 DEF LoadUnfinished
  <2>3. DOMAIN rows' = DOMAIN rows
        /\ \A m \in DOMAIN rows :
             rows'[m] = IF m \in saved THEN Rejected(rows[m]) ELSE rows[m]
    BY <2>1, <2>2 DEF Merge
  <2>4. DOMAIN rooms' = good /\ \A m \in good : rooms'[m] = RestoreFrom(rows[m], now)
    BY <2>1
  <2>5. \A m \in good :
          /\ m \in DOMAIN rows /\ rows[m].reason \in ParsedReasons
          /\ rows[m].phase \in Unfinished \cup {"finishing"}
    BY <1>2 DEF LoadUnfinished, RoomPhase, Over
  <2> QED BY <2>1, <2>2, <2>3, <2>4, <2>5
<1> QED BY <1>3, <1>4

\* A restart.
LEMMA RestartInv ==
    ASSUME Inv, Restart
    PROVE  Inv'
<1>1. /\ rooms = <<>> /\ \A t \in Threads : thread[t] = Idle
      /\ restarts' = restarts + 1 /\ main' = "serving"
      /\ UNCHANGED <<now, snapState, created, thread, results>>
  BY DEF Inv, DownInv, Restart
<1>2. DOMAIN snapState = {}
  BY <1>1, EmptyMap DEF Inv, RegistryInv
<1>3. now \in Int /\ restarts \in Nat /\ DOMAIN rows \subseteq created
  BY DEF Inv, RegistryInv
<1>4. \A m \in DOMAIN rows : RowOK(rows[m]) /\ rows[m].frame \in Nat
  BY <1>3, StoredVersion DEF Inv, VersionInv, RowOK, RowType
<1>5. ASSUME NEW m \in DOMAIN rooms'
      PROVE  /\ m \in DOMAIN rows /\ rows'[m] = rows[m]
             /\ RoomOK(rooms'[m]) /\ rooms'[m].phase = rows[m].phase
             /\ rooms'[m].frame = rows[m].frame
             /\ rooms'[m].phase \in Unfinished \cup {"finishing"}
  BY <1>3, <1>4, RestartFacts, RestoreOK
<1>6. RegistryInv'
  BY <1>1, <1>2, <1>3, <1>5, RestartFacts DEF Inv, RegistryInv
<1>7. DownInv'
  BY <1>1 DEF DownInv, Up
<1>8. WorkInv' /\ \A m : Waiting(m)' = {}
  BY <1>1 DEF WorkInv, WorkOK, Idle, Flushing, Waiting
<1>9. FinishedIsDurable'
  BY <1>5 DEF FinishedIsDurable, InPhase, Known, Unfinished
<1>10. StoredIsReached'
  BY <1>1, <1>3 DEF StoredIsReached
<1>11. ASSUME NEW m \in created, NEW v \in Versions(m)'
       PROVE  /\ m \in DOMAIN rows /\ v = rows'[m]
              /\ RowOK(v) /\ v.frame \in Nat
  <2>1. m \in DOMAIN rows /\ v = rows'[m]
    BY <1>8, <1>11, RestartFacts DEF Versions
  <2>2. RowOK(v)
    BY <1>3, <1>4, <2>1, RestartFacts, RejectedOK
  <2> QED BY <2>1, <2>2 DEF RowOK, RowType
<1>12. ASSUME NEW m \in created, NEW v \in Versions(m)', m \in DOMAIN rooms'
       PROVE  Behind(v, rooms[m])'
  <2>1. v = rows[m] /\ v.frame \in Nat
    BY <1>5, <1>11, <1>12
  <2> QED BY <1>1, <1>5, <1>12, <2>1 DEF Behind
<1>13. VersionInv'
  BY <1>1, <1>8, <1>11, <1>12 DEF VersionInv, Known
<1>14. EndInv'
  BY <1>1 DEF EndInv, GamesEnded, Threads, Idle
<1> QED BY <1>6, <1>7, <1>8, <1>9, <1>10, <1>13, <1>14 DEF Inv

\* Time passes.
LEMMA ClockInv ==
    ASSUME Inv, ClockAdvances
    PROVE  Inv'
<1>1. /\ now' = now + 1 /\ now \in Nat
      /\ UNCHANGED <<rooms, snapState, thread, created, main, rows, results,
                     restarts>>
  BY DEF ClockAdvances, memory, disk, process, Inv, RegistryInv
<1>2. RegistryInv' /\ DownInv' /\ FinishedIsDurable' /\ StoredIsReached'
  BY <1>1 DEF Inv, RegistryInv, DownInv, Up, FinishedIsDurable, StoredIsReached,
              InPhase, Known
<1>3. WorkInv'
  BY <1>1 DEF Inv, WorkInv, WorkOK, Writable, InPhase, Known
<1>4. VersionInv'
  <2>1. \A m : Versions(m)' = Versions(m) /\ Waiting(m)' = Waiting(m)
    BY <1>1 DEF Versions, Waiting, Flushing
  <2>2. shutting_down' = shutting_down
    BY <1>1 DEF shutting_down
  <2> QED BY <1>1, <2>1, <2>2, FewerVersions
<1>5. EndInv'
  BY <1>1 DEF Inv, EndInv, GamesEnded
<1> QED BY <1>2, <1>3, <1>4, <1>5 DEF Inv

\* Before the first request there is nothing.
LEMMA InitInv == Init => Inv
<1> SUFFICES ASSUME Init
             PROVE  Inv
  OBVIOUS
<1>1. /\ now \in Nat /\ restarts = 0 /\ created = {}
      /\ rooms = <<>> /\ snapState = <<>> /\ rows = <<>> /\ results = <<>>
      /\ DOMAIN thread = Threads /\ \A t \in Threads : thread[t] = Idle
  BY ManagerAssumption DEF Init
<1>2. WorkInv
  BY <1>1, IdleWork
<1>3. EndInv
  BY <1>1, EmptyMap DEF EndInv, Threads, Idle
<1> QED
  BY <1>1, <1>2, <1>3, EmptyMap
  DEF Inv, RegistryInv, DownInv, FinishedIsDurable, StoredIsReached, VersionInv

\* While the process is up, a step that writes no result moves the rooms on.
Lively ==
    \/ \E m \in Match, at \in Int : Create(m, at)
    \/ \E m \in Match, i \in Slots, on \in BOOLEAN, at \in Int :
          Join(m, i, at) \/ SubmitInput(m, i) \/ SetPresence(m, i, on, at)
    \/ \E at \in Int : GetState(at)
    \/ \E t \in Threads : \/ \E at \in Int : TickLocked(t, at)
                          \/ FlushSnapshot(t) \/ PickResult(t) \/ MarkResult(t)
    \/ \E at \in Int : AbortUnfinishedGames(at)
    \/ BeginShutdown \/ AbortFlushed \/ StopTicker

\* Every step of the running service but the INSERT of a result is progress.
LEMMA LivelyProgress ==
    ASSUME Inv, Lively
    PROVE  (\E next : Progress(next)) /\ Inv'
BY CreateProgress, RequestProgress, GetStateProgress, TickProgress,
   FlushProgress, PickProgress, MarkProgress, AbortProgress, DrainInv
DEF Lively

\* A step is one of the running service, of MySQL, of the process or of the clock.
LEMMA Steps ==
    ASSUME [Next]_vars
    PROVE  \/ Lively \/ (\E t \in Threads, ok \in BOOLEAN : WriteResult(t, ok))
           \/ Exit \/ Crash \/ Restart \/ ClockAdvances \/ UNCHANGED vars
<1>1. TimesSeen \subseteq Int
  BY DEF TimesSeen
<1>2. CASE Requests
  <2>1. TRUE \in BOOLEAN /\ Leavers \subseteq Slots /\ 0 \in Int
    BY ManagerAssumption
  <2> QED BY <1>1, <1>2, <2>1 DEF Requests, Lively
<1>3. ASSUME NEW t \in Threads, TickStep(t)
      PROVE  Lively \/ \E ok \in BOOLEAN : WriteResult(t, ok)
  BY <1>1, <1>3 DEF TickStep, Lively
<1>4. CASE Drain
  BY <1>1, <1>4 DEF Drain, Lively
<1> QED BY <1>2, <1>3, <1>4 DEF Next

\* The inductive step.
LEMMA StepInv == Inv /\ [Next]_vars => Inv'
<1> SUFFICES ASSUME Inv, [Next]_vars
             PROVE  Inv'
  OBVIOUS
<1>1. CASE UNCHANGED vars
  <2>1. \A m : Versions(m)' = Versions(m) /\ Waiting(m)' = Waiting(m)
    BY <1>1 DEF vars, Versions, Waiting, Flushing
  <2>2. VersionInv'
    BY <1>1, <2>1, FewerVersions DEF vars, shutting_down
  <2>3. RegistryInv' /\ DownInv' /\ FinishedIsDurable' /\ StoredIsReached'
    BY <1>1 DEF vars, Inv, RegistryInv, DownInv, Up, FinishedIsDurable,
                StoredIsReached, InPhase, Known
  <2>4. WorkInv'
    BY <1>1 DEF vars, Inv, WorkInv, WorkOK, Writable, InPhase, Known
  <2>5. EndInv'
    BY <1>1 DEF vars, Inv, EndInv, GamesEnded
  <2> QED BY <2>2, <2>3, <2>4, <2>5 DEF Inv
<1> QED BY <1>1, Steps, LivelyProgress, WriteInv, ForgetInv, RestartInv, ClockInv

-----------------------------------------------------------------------------
(* The theorems on the registry and the tables.                            *)

\* The inductive invariant holds in every reachable state, for any number of
\* matches and restarts and any timing.
THEOREM ServiceInvariant == Spec => []Inv
BY InitInv, StepInv, PTL DEF Spec

\* Type correctness of the Room service and its tables.
THEOREM TypeCorrect == Spec => []TypeOK
<1>1. Inv => TypeOK
  <2> SUFFICES ASSUME Inv
               PROVE  TypeOK
    OBVIOUS
  <2>1. \A m \in DOMAIN rooms : m \in Match /\ rooms[m] \in RoomType
    BY DEF Inv, RegistryInv, RoomOK
  <2>2. DOMAIN snapState \subseteq DOMAIN rooms
    BY DEF Inv, RegistryInv
  <2>3. Range(results) \subseteq Slots \cup {NoWinner}
    BY DEF Inv, RegistryInv, Range, Winner
  <2>4. \A m \in DOMAIN rows : rows[m].phase \in RoomPhase
    BY StoredVersion DEF Inv, RegistryInv, VersionInv, RowOK, RowType
  <2> QED BY <2>1, <2>2, <2>3, <2>4 DEF TypeOK, Inv, DownInv
<1> QED BY <1>1, ServiceInvariant, PTL

\* No room says FINISHED before its result is in match_results, whatever two
\* ticking threads, failing or half-failing INSERTs and restarts do.
THEOREM Durable == Spec => []FinishedIsDurable
<1>1. Inv => FinishedIsDurable
  BY DEF Inv
<1> QED BY <1>1, ServiceInvariant, PTL

\* Until the first restart, the winner in match_results is the one the room has,
\* and games under way or aborted have no result.
THEOREM Reached == Spec => []StoredIsReached
<1>1. Inv => StoredIsReached
  BY DEF Inv
<1> QED BY <1>1, ServiceInvariant, PTL

\* Every room of the registry, restored ones included, is well formed: its
\* verdict follows from its hit points, frames or absences, no frame took more
\* than one attack, and its ring of snapshots has no gap.
RoomsAreSound == \A m \in DOMAIN rooms : RoomOK(rooms[m])

\* Restoring from a snapshot and running under RoomManager keep every room as
\* sound as a single one is.
THEOREM SoundRooms == Spec => []RoomsAreSound
<1>1. Inv => RoomsAreSound
  BY DEF Inv, RegistryInv, RoomsAreSound
<1> QED BY <1>1, ServiceInvariant, PTL

\* What a step may do to a stored snapshot.
LEMMA RowSteps ==
    ASSUME Inv, [Next]_vars, NEW m \in DOMAIN rows
    PROVE  /\ m \in DOMAIN rows'
           /\ \/ rows'[m] = rows[m]
              \/ /\ rows'[m] \in Waiting(m)
                 /\ ~(rows'[m].snapshotAt < rows[m].snapshotAt)
              \/ rows'[m] = Rejected(rows[m])
<1>1. CASE rows' = rows
  BY <1>1
<1>2. CASE Restart
  BY <1>2, RestartFacts
<1>3. ASSUME NEW t \in Threads, FlushSnapshot(t)
      PROVE  /\ m \in DOMAIN rows'
             /\ \/ rows'[m] = rows[m]
                \/ /\ rows'[m] \in Waiting(m)
                   /\ ~(rows'[m].snapshotAt < rows[m].snapshotAt)
  <2>1. PICK x \in DOMAIN thread[t].snaps :
          rows' = Save(rows, x, thread[t].snaps[x]) \/ UNCHANGED rows
    BY <1>3 DEF FlushSnapshot
  <2>2. \A y \in DOMAIN thread[t].snaps : thread[t].snaps[y] \in Waiting(y)
    BY <1>3 DEF FlushSnapshot, Waiting, Flushing
  <2>3. CASE rows' = rows
    BY <2>3
  <2>4. CASE rows' # rows
    <3>1. /\ rows' = Put(rows, x, thread[t].snaps[x])
          /\ x \in DOMAIN rows =>
               ~(thread[t].snaps[x].snapshotAt < rows[x].snapshotAt)
      BY <2>1, <2>4 DEF Save
    <3>2. m \in DOMAIN rows'
          /\ rows'[m] = IF m = x THEN thread[t].snaps[x] ELSE rows[m]
      BY <3>1 DEF Put, Merge
    <3> QED BY <2>1, <2>2, <3>1, <3>2
  <2> QED BY <2>3, <2>4
<1>4. CASE \E i, on, x, at :
             Join(x, i, at) \/ SubmitInput(x, i) \/ SetPresence(x, i, on, at)
  BY <1>1, <1>4 DEF Join, SubmitInput, SetPresence, disk
<1>5. CASE \/ \E at : GetState(at)
           \/ \E t, at : TickLocked(t, at)
           \/ \E t \in Threads : PickResult(t) \/ MarkResult(t)
  BY <1>1, <1>5 DEF GetState, TickLocked, PickResult, MarkResult, disk
<1>6. CASE Drain
  BY <1>1, <1>6
  DEF Drain, AbortUnfinishedGames, BeginShutdown, AbortFlushed, StopTicker, Exit, disk
<1>7. CASE Crash \/ ClockAdvances \/ UNCHANGED vars
           \/ \E t \in Threads, ok \in BOOLEAN : WriteResult(t, ok)
  BY <1>1, <1>7 DEF Crash, ClockAdvances, vars, WriteResult, disk
<1>8. CASE \E x, at : Create(x, at)
  BY <1>1, <1>8 DEF Create, disk
<1> QED
  BY <1>2, <1>3, <1>4, <1>5, <1>6, <1>7, <1>8 DEF Next, Requests, TickStep

\* The stored snapshot of a game never goes back to an earlier frame, nor from
\* a verdict to the game under way, whatever times the two flushing threads
\* read and in whatever order their rows arrive, also across restarts.  What
\* the snapshot_at_ms condition of the upsert does not rule out is an abort by
\* the drain being written over with the game under way.
THEOREM Forward == Spec => RowsMoveForward
<1> DEFINE Onward(m) ==
             /\ m \in DOMAIN rows'
             /\ rows'[m].frame >= rows[m].frame
             /\ rows[m].phase \in Over /\ rows'[m].phase \in Unfinished
                   => /\ rows[m].phase = "aborted" /\ shutting_down
                      /\ rows'[m].snapshotAt >= rows[m].snapshotAt
<1>1. ASSUME Inv, [Next]_vars, NEW m \in DOMAIN rows
      PROVE  Onward(m)
  <2>1. m \in created /\ rows[m] \in Versions(m)
    BY <1>1, StoredVersion DEF Inv, RegistryInv
  <2>2. \A v \in Versions(m) :
          RowOK(v) /\ v.frame \in Nat /\ v.snapshotAt \in Int
    BY <1>1, <2>1 DEF Inv, VersionInv, RowOK, RowType
  <2>3. m \in DOMAIN rows'
    BY <1>1, RowSteps
  <2>4. CASE rows'[m] = rows[m]
    BY <2>1, <2>2, <2>3, <2>4 DEF Over, Unfinished
  <2>5. CASE rows'[m] = Rejected(rows[m])
    <3>1. now \in Int
      BY <1>1 DEF Inv, RegistryInv
    <3>2. rows'[m].frame = rows[m].frame /\ rows'[m].phase = "aborted"
      BY <2>1, <2>2, <2>5, <3>1, RejectedOK
    <3> QED BY <2>1, <2>2, <2>3, <3>2 DEF Unfinished
  <2>6. CASE /\ rows'[m] \in Waiting(m)
             /\ ~(rows'[m].snapshotAt < rows[m].snapshotAt)
    <3>1. Follows(rows[m], rows'[m]) /\ rows'[m] \in Versions(m)
      BY <1>1, <2>1, <2>6 DEF Inv, VersionInv, Versions
    <3>2. /\ rows'[m].frame \in Nat /\ rows[m].frame \in Nat
          /\ rows[m].snapshotAt \in Int /\ rows'[m].snapshotAt \in Int
      BY <2>1, <2>2, <3>1
    <3> QED BY <2>3, <2>6, <3>1, <3>2 DEF Follows
  <2> QED BY <1>1, <2>4, <2>5, <2>6, RowSteps
<1>2. Inv /\ [Next]_vars => [\A m \in DOMAIN rows : Onward(m)]_vars
  BY <1>1
<1> QED BY <1>2, ServiceInvariant, PTL DEF Spec, RowsMoveForward

-----------------------------------------------------------------------------
(* The service implements the ledger.                                      *)

\* What the outside sees of room r.
View(r) ==
    CASE r.phase \in Unfinished -> Ledger!Open
      [] r.phase = "aborted" -> Ledger!Abandoned
      [] r.phase = "finishing" -> Ledger!Decided(r.winner)
      [] r.phase = "finished" -> Ledger!Final(r.winner)

\* What is seen of a room, phase by phase.
LEMMA ViewCases ==
    ASSUME NEW r
    PROVE  /\ r.phase \in Unfinished => View(r) = Ledger!Open
           /\ r.phase = "aborted" => View(r) = Ledger!Abandoned
           /\ r.phase = "finishing" => View(r) = Ledger!Decided(r.winner)
           /\ r.phase = "finished" => View(r) = Ledger!Final(r.winner)
BY DEF View, Unfinished

\* The refinement mapping in terms of the room.
LEMMA SeenView ==
    ASSUME Inv, NEW m
    PROVE  Seen(m) = IF m \in DOMAIN rooms THEN View(rooms[m]) ELSE Ledger!Gone
<1>1. CASE m \notin DOMAIN rooms
  BY <1>1 DEF Seen, Known, InPhase, Ledger!Gone
<1>2. CASE m \in DOMAIN rooms
  <2>1. rooms[m].phase \in RoomPhase
    BY <1>2 DEF Inv, RegistryInv, RoomOK, RoomType
  <2>2. rooms[m].phase \in Unfinished \/ rooms[m].phase \in Over
    BY <2>1 DEF RoomPhase
  <2>3. CASE rooms[m].phase \in Unfinished
    BY <1>2, <2>3, ViewCases DEF Seen, Known, InPhase, Unfinished, Ledger!Open
  <2>4. CASE rooms[m].phase = "aborted"
    BY <1>2, <2>4, ViewCases DEF Seen, Known, InPhase, Unfinished, Ledger!Abandoned
  <2>5. CASE rooms[m].phase = "finishing"
    BY <1>2, <2>5, ViewCases DEF Seen, Known, InPhase, Unfinished, Ledger!Decided
  <2>6. CASE rooms[m].phase = "finished"
    BY <1>2, <2>6, ViewCases DEF Seen, Known, InPhase, Unfinished, Ledger!Final
  <2> QED BY <2>2, <2>3, <2>4, <2>5, <2>6 DEF Over
<1> QED BY <1>1, <1>2

\* The ledger's entry for a match.
Entry(m) == IF m \in DOMAIN results THEN {results[m]} ELSE {}

Shown ==
    {Ledger!Gone, Ledger!Open, Ledger!Abandoned}
    \cup {Ledger!Decided(w) : w \in Winner} \cup {Ledger!Final(w) : w \in Winner}

\* A sound room shows one of the things the ledger knows.
LEMMA ViewShown ==
    ASSUME NEW r, RoomOK(r)
    PROVE  View(r) \in Shown
<1>1. r.phase \in RoomPhase /\ r.winner \in Winner
  BY DEF RoomOK, RoomType, Winner
<1> QED BY <1>1, ViewCases DEF Shown, RoomPhase, Over

\* What the ledger sees of a match, before and after a step.
Sight(m) == Seen(m) = IF m \in DOMAIN rooms THEN View(rooms[m]) ELSE Ledger!Gone

\* The same after a step.
LEMMA SeenNext == Inv' => (\A m : Sight(m))'
<1>1. Inv => \A m : Sight(m)
  BY SeenView DEF Sight
<1> QED BY <1>1, PTL

\* One game in a step of the running service.
Move(m) ==
    \/ Ledger!Stay(m) \/ Ledger!Start(m) \/ Ledger!Abandon(m) \/ Ledger!Reap(m)
    \/ \E w \in Winner : Ledger!Decide(m, w) \/ Ledger!Enter(m, w) \/ Ledger!Close(m, w)

\* What is seen before and after a step tells which move of the ledger it is.
LEMMA Moves ==
    ASSUME NEW m \in Match, Entry(m)' = Entry(m)
    PROVE  /\ Seen(m)' = Seen(m) => Move(m)
           /\ Seen(m) = Ledger!Gone /\ Seen(m)' = Ledger!Open => Move(m)
           /\ Seen(m) = Ledger!Open /\ Seen(m)' = Ledger!Abandoned => Move(m)
           /\ Seen(m) = Ledger!Abandoned /\ Seen(m)' = Ledger!Gone => Move(m)
           /\ \A w \in Winner :
                /\ Seen(m) = Ledger!Final(w) /\ Seen(m)' = Ledger!Gone => Move(m)
                /\ Seen(m) = Ledger!Open /\ Seen(m)' = Ledger!Decided(w) => Move(m)
                /\ /\ Seen(m) = Ledger!Decided(w) /\ Seen(m)' = Ledger!Final(w)
                   /\ Entry(m) # {}
                   => Move(m)
<1>1. Seen(m)' = Seen(m) => Ledger!Stay(m)
  BY DEF Ledger!Stay, Ledger!Becomes, Entry
<1>2. Seen(m) = Ledger!Gone /\ Seen(m)' = Ledger!Open => Ledger!Start(m)
  BY DEF Ledger!Start, Ledger!Becomes, Entry
<1>3. Seen(m) = Ledger!Open /\ Seen(m)' = Ledger!Abandoned => Ledger!Abandon(m)
  BY DEF Ledger!Abandon, Ledger!Becomes, Entry
<1>4. /\ Seen(m)' = Ledger!Gone
      /\ Seen(m) = Ledger!Abandoned \/ \E w \in Winner : Seen(m) = Ledger!Final(w)
      => Ledger!Reap(m)
  BY DEF Ledger!Reap, Ledger!Becomes, Entry, Winner
<1>5. ASSUME NEW w \in Winner
      PROVE  /\ Seen(m) = Ledger!Open /\ Seen(m)' = Ledger!Decided(w)
                => Ledger!Decide(m, w)
             /\ /\ Seen(m) = Ledger!Decided(w) /\ Seen(m)' = Ledger!Final(w)
                /\ Entry(m) # {}
                => Ledger!Close(m, w)
  BY DEF Ledger!Decide, Ledger!Close, Ledger!Becomes, Entry
<1> QED BY <1>1, <1>2, <1>3, <1>4, <1>5 DEF Move

\* A step of the running service moves each game as the ledger may.
LEMMA ProgressMoves ==
    ASSUME Inv, Inv', NEW next, Progress(next), NEW m \in Match
    PROVE  Move(m)
<1>1. /\ Seen(m) = IF m \in DOMAIN rooms THEN View(rooms[m]) ELSE Ledger!Gone
      /\ Seen(m)' = IF m \in DOMAIN rooms' THEN View(rooms'[m]) ELSE Ledger!Gone
      /\ Entry(m)' = Entry(m)
  BY SeenView, SeenNext DEF Sight, View, Entry, Progress, Ledger!Gone,
     Ledger!Open, Ledger!Abandoned, Ledger!Decided, Ledger!Final
<1>2. CASE m \notin DOMAIN rooms
  <2>1. CASE m \notin DOMAIN rooms'
    BY <1>1, <1>2, <2>1, Moves
  <2>2. CASE m \in DOMAIN rooms'
    <3>1. rooms'[m].phase \in Unfinished
      BY <1>2, <2>2 DEF Progress, Unfinished
    <3> QED BY <1>1, <1>2, <2>2, <3>1, ViewCases, Moves
  <2> QED BY <2>1, <2>2
<1>3. CASE m \in DOMAIN rooms
  <2>1. /\ rooms[m].phase \in Unfinished \/ rooms[m].phase \in Over
        /\ rooms[m].winner \in Winner
    BY <1>3 DEF Inv, RegistryInv, RoomOK, RoomType, RoomPhase, Winner
  <2>2. CASE m \notin DOMAIN rooms'
    <3>1. rooms[m].phase \in {"finished", "aborted"}
      BY <1>3, <2>2 DEF Progress
    <3> QED BY <1>1, <1>3, <2>1, <2>2, <3>1, ViewCases, Moves
  <2>3. CASE m \in DOMAIN rooms'
    <3>1. PICK r, q : r = rooms[m] /\ q = rooms'[m]
      OBVIOUS
    <3>2. /\ Seen(m) = View(r) /\ Seen(m)' = View(q) /\ Turns(m, r, q)
          /\ r.phase \in Unfinished \/ r.phase \in Over
          /\ r.winner \in Winner
      BY <1>1, <1>3, <2>1, <2>3, <3>1 DEF Progress
    <3>3. /\ q.phase \in Unfinished \/ q.phase \in Over
          /\ q.winner \in Winner
      BY <3>2 DEF Turns, RoomOK, RoomType, RoomPhase, Winner
    <3>4. CASE r.phase \in Unfinished
      <4>1. q.phase \in Unfinished \/ q.phase = "finishing" \/ q.phase = "aborted"
        BY <3>2, <3>3, <3>4 DEF Turns, Over
      <4> QED BY <1>1, <3>2, <3>3, <3>4, <4>1, ViewCases, Moves
    <3>5. CASE r.phase \in Over /\ q.phase = r.phase
      <4>1. View(q) = View(r)
        BY <3>2, <3>5, ViewCases DEF Turns, Over
      <4> QED BY <1>1, <3>2, <4>1, Moves
    <3>6. CASE r.phase \in Over /\ q.phase # r.phase
      <4>1. /\ r.phase = "finishing" /\ q.phase = "finished"
            /\ q.winner = r.winner /\ m \in DOMAIN results
        BY <3>2, <3>6 DEF Turns
      <4>2. Entry(m) # {}
        BY <4>1 DEF Entry
      <4> QED BY <1>1, <3>2, <4>1, <4>2, ViewCases, Moves
    <3> QED BY <3>2, <3>4, <3>5, <3>6
  <2> QED BY <2>2, <2>3
<1> QED BY <1>2, <1>3

\* What the ledger sees of a match is always one of the things it knows.
LEMMA SeenShown == Inv => \A m : Seen(m) \in Shown
<1>1. ASSUME Inv, NEW m
      PROVE  Seen(m) \in Shown
  <2>1. CASE m \in DOMAIN rooms
    BY <1>1, <2>1, SeenView, ViewShown DEF Inv, RegistryInv
  <2>2. CASE m \notin DOMAIN rooms
    BY <1>1, <2>2, SeenView DEF Shown
  <2> QED BY <2>1, <2>2
<1> QED BY <1>1

\* The INSERT of a result: the room holds the verdict that is written.
LEMMA WriteMoves ==
    ASSUME Inv, NEW t \in Threads, NEW ok \in BOOLEAN, WriteResult(t, ok),
           NEW m \in Match
    PROVE  Move(m)
<1>1. Seen(m)' = Seen(m)
  BY DEF WriteResult, Seen, InPhase, Known
<1>2. CASE results' = results
  <2>1. Entry(m)' = Entry(m)
    BY <1>2 DEF Entry
  <2> QED BY <1>1, <2>1, Moves
<1>3. CASE results' # results
  <2>1. PICK of, w : of = thread[t].of /\ w = thread[t].winner
    OBVIOUS
  <2>2. /\ results' = Put(results, of, w) /\ of \notin DOMAIN results
        /\ w \in Winner /\ of \in DOMAIN rooms
        /\ rooms[of].phase = "finishing" /\ rooms[of].winner = w
    BY <1>3, <2>1 DEF WriteResult, Write, Inv, WorkInv, WorkOK, Writable, InPhase, Known
  <2>3. Entry(m)' = IF m = of THEN {w} ELSE Entry(m)
    BY <2>2 DEF Entry, Put, Merge
  <2>4. CASE m # of
    BY <1>1, <2>3, <2>4, Moves
  <2>5. CASE m = of
    <3>1. Seen(m) = Ledger!Decided(w) /\ Entry(m) = {}
      BY <2>2, <2>5, SeenView, ViewCases DEF Entry
    <3>2. Ledger!Enter(m, w)
      BY <1>1, <2>3, <2>5, <3>1 DEF Ledger!Enter, Entry
    <3> QED BY <2>2, <3>2 DEF Move
  <2> QED BY <2>4, <2>5
<1> QED BY <1>2, <1>3

\* The Room service implements the ledger of results.
THEOREM Refinement == Spec => KeepsLedger
<1>1. Init => Ledger!Init
  BY EmptyMap DEF Init, Ledger!Init, Seen, Known, InPhase, Ledger!Gone
<1>2. ASSUME Inv, [Next]_vars
      PROVE  [Ledger!Next]_(Ledger!vars)
  <2>1. Inv' /\ \A m : Sight(m)'
    BY <1>2, StepInv, SeenNext
  <2>2. \A m : Seen(m)' \in Shown
    <3>1. Inv' => (\A m : Seen(m) \in Shown)'
      BY SeenShown, PTL
    <3> QED BY <2>1, <3>1 DEF Shown, Ledger!Gone, Ledger!Open, Ledger!Abandoned,
               Ledger!Decided, Ledger!Final
  <2>3. [x \in Match |-> Seen(x)]' \in
          [Match -> {Ledger!Gone, Ledger!Open, Ledger!Abandoned}
                      \cup {Ledger!Decided(w) : w \in Slots \cup {NoWinner}}
                      \cup {Ledger!Final(w) : w \in Slots \cup {NoWinner}}]
    BY <2>2 DEF Shown, Winner
  <2>4. ASSUME \A m \in Match : Move(m)
        PROVE  Ledger!Next
    <3>1. Ledger!Play
      BY <2>4 DEF Move, Ledger!Play, Winner
    <3> QED BY <2>3, <3>1 DEF Ledger!Next
  <2>5. CASE Lively
    BY <1>2, <2>1, <2>4, <2>5, LivelyProgress, ProgressMoves
  <2>6. CASE \E t \in Threads, ok \in BOOLEAN : WriteResult(t, ok)
    BY <1>2, <2>4, <2>6, WriteMoves
  <2>7. CASE Exit \/ Crash
    <3>1. rooms' = <<>> /\ results' = results
      BY <2>7 DEF Exit, Crash, Forget, disk
    <3>2. \A m \in Match : Seen(m)' = Ledger!Gone /\ Entry(m)' = Entry(m)
      BY <3>1, EmptyMap DEF Seen, Known, InPhase, Entry, Ledger!Gone
    <3>3. Ledger!Crash
      BY <3>2 DEF Ledger!Crash, Ledger!Lose, Ledger!Becomes, Entry
    <3> QED BY <2>3, <3>3 DEF Ledger!Next
  <2>8. CASE Restart
    <3> SUFFICES ASSUME NEW m \in Match
                 PROVE  Ledger!Recover(m)
      BY <2>3 DEF Ledger!Next, Ledger!Restart
    <3>1. Seen(m) = Ledger!Gone /\ Entry(m)' = Entry(m)
      BY <2>8, <1>2, EmptyMap
      DEF Restart, Inv, DownInv, Seen, Known, InPhase, Entry, Ledger!Gone
    <3>2. Seen(m)' = IF m \in DOMAIN rooms' THEN View(rooms'[m]) ELSE Ledger!Gone
      BY <2>1 DEF Sight, View, Ledger!Gone, Ledger!Open, Ledger!Abandoned,
                  Ledger!Decided, Ledger!Final
    <3>3. \/ Seen(m)' = Ledger!Gone \/ Seen(m)' = Ledger!Open
          \/ \E w \in Winner : Seen(m)' = Ledger!Decided(w)
      <4>1. CASE m \notin DOMAIN rooms'
        BY <3>2, <4>1
      <4>2. CASE m \in DOMAIN rooms'
        <5>1. PICK w, q : w = rows[m] /\ q = rooms'[m]
          OBVIOUS
        <5>2. /\ w.phase \in Unfinished \cup {"finishing"}
              /\ w.reason \in ParsedReasons /\ q = RestoreFrom(w, now)
              /\ RowOK(w) /\ now \in Int
          BY <1>2, <2>8, <4>2, <5>1, RestartFacts, StoredVersion
          DEF Inv, RegistryInv, VersionInv
        <5>3. q.phase = w.phase /\ q.winner \in Winner
          BY <5>2, RestoreOK DEF RoomOK, RoomType, Winner
        <5> QED BY <3>2, <4>2, <5>1, <5>2, <5>3, ViewCases
      <4> QED BY <4>1, <4>2
    <3> QED BY <3>1, <3>3 DEF Ledger!Recover, Ledger!Becomes, Entry, Winner
  <2>9. CASE ClockAdvances \/ UNCHANGED vars
    <3>1. rooms' = rooms /\ results' = results
      BY <2>9 DEF ClockAdvances, vars, memory, disk
    <3> QED BY <3>1 DEF Ledger!vars, Seen, Known, InPhase
  <2> QED BY <1>2, <2>5, <2>6, <2>7, <2>8, <2>9, Steps
<1> QED BY <1>1, <1>2, ServiceInvariant, PTL DEF Spec, KeepsLedger, Ledger!Spec
=============================================================================

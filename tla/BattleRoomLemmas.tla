--------------------------- MODULE BattleRoomLemmas ---------------------------
(***************************************************************************)
(* Lemmas on the methods of BattleRoom: each takes a well formed room      *)
(* (RoomOK) to a well formed one, and does to the frame, the hit points    *)
(* and the time base what the clock argument of BattleRoomProofs needs.    *)
(***************************************************************************)
EXTENDS BattleRoomOps, TLAPS

\* Entry i is the last of the ring h for frame f.
LastFor(h, i, f) ==
    h[i].frame = f /\ (i < Len(h) => h[i + 1].frame # f)

\* The ring ends at the current frame, its frames never go down, and none
\* between its oldest and the current one is missing.
Ring(h, frame) ==
    /\ Len(h) \in 1..kMaxSnapshotHistory
    /\ h[Len(h)].frame = frame
    /\ \A i, j \in 1..Len(h) : i <= j => h[i].frame <= h[j].frame
    /\ \A f \in h[1].frame .. frame : \E i \in 1..Len(h) : LastFor(h, i, f)

\* A snapshot of a room is a snapshot, and carries the room's frame.
LEMMA SnapshotTyped ==
    ASSUME NEW r \in RoomType
    PROVE  Snapshot(r) \in SnapshotType /\ Snapshot(r).frame = r.frame
BY DEF Snapshot, SnapshotType, RoomType

\* PushSnapshot changes nothing but the ring, which it never lets grow past
\* its size or leaves empty.
LEMMA PushFacts ==
    ASSUME NEW r \in RoomType, Len(r.history) <= kMaxSnapshotHistory
    PROVE  /\ PushSnapshot(r) \in RoomType
           /\ Len(PushSnapshot(r).history) \in 1..kMaxSnapshotHistory
           /\ PushSnapshot(r) = [r EXCEPT !.history = PushSnapshot(r).history]
<1> DEFINE longer == Append(r.history, Snapshot(r))
           kept == IF Len(longer) > kMaxSnapshotHistory
                   THEN Tail(longer) ELSE longer
<1>1. r.history \in Seq(SnapshotType)
  BY DEF RoomType
<1>2. longer \in Seq(SnapshotType) /\ Len(longer) = Len(r.history) + 1
  BY <1>1, SnapshotTyped
<1>3. kept \in Seq(SnapshotType) /\ Len(kept) \in 1..kMaxSnapshotHistory
  BY <1>1, <1>2, ConstantsAssumption
<1>4. PushSnapshot(r) = [r EXCEPT !.history = kept]
  BY DEF PushSnapshot
<1> HIDE DEF longer, kept
<1> QED
  BY <1>3, <1>4 DEF RoomType

\* Pushing the snapshot of the ring's last frame or of the next one keeps the
\* ring without gaps, also when the oldest entry is evicted.
LEMMA PushRing ==
    ASSUME NEW r \in RoomType, NEW f0 \in Nat, Ring(r.history, f0),
           r.frame = f0 \/ r.frame = f0 + 1
    PROVE  Ring(PushSnapshot(r).history, r.frame)
<1> DEFINE h == r.history
           longer == Append(h, Snapshot(r))
           n == Len(h)
<1>1. h \in Seq(SnapshotType) /\ n \in Nat /\ n \in 1..kMaxSnapshotHistory
  BY DEF RoomType, Ring
<1>2. longer \in Seq(SnapshotType) /\ Len(longer) = n + 1
  BY <1>1, SnapshotTyped
<1>3. \A i \in 1..n : longer[i] = h[i] /\ h[i].frame \in Nat
  <2> TAKE i \in 1..n
  <2>1. h[i] \in SnapshotType
    BY <1>1
  <2>2. longer[i] = h[i]
    BY <1>1, SnapshotTyped
  <2> QED BY <2>1, <2>2 DEF SnapshotType
<1>4. longer[n + 1] = Snapshot(r) /\ longer[n + 1].frame = r.frame
  BY <1>1, SnapshotTyped
<1>5. r.frame \in Nat /\ kMaxSnapshotHistory \in Nat \ {0}
  BY ConstantsAssumption DEF RoomType
<1>6. \A i, j \in 1..n+1 : i <= j => longer[i].frame <= longer[j].frame
  <2> SUFFICES ASSUME NEW i \in 1..n+1, NEW j \in 1..n+1, i <= j
               PROVE  longer[i].frame <= longer[j].frame
    OBVIOUS
  <2> HIDE DEF longer
  <2>1. CASE j \in 1..n
    <3>1. i \in 1..n
      BY <2>1, <1>1
    <3> QED BY <2>1, <3>1, <1>3 DEF Ring
  <2>2. CASE j = n + 1 /\ i \in 1..n
    <3>1. h[i].frame <= h[n].frame /\ h[n].frame = f0
      BY <2>2, <1>1 DEF Ring
    <3> QED BY <3>1, <2>2, <1>3, <1>4, <1>5
  <2>3. CASE j = n + 1 /\ i = n + 1
    BY <2>3, <1>4, <1>5
  <2> QED BY <2>1, <2>2, <2>3, <1>1
<1>7. \A f \in h[1].frame .. r.frame : \E i \in 1..n+1 : LastFor(longer, i, f)
  <2> SUFFICES ASSUME NEW f \in h[1].frame .. r.frame
               PROVE  \E i \in 1..n+1 : LastFor(longer, i, f)
    OBVIOUS
  <2> HIDE DEF longer
  <2>1. CASE f = r.frame
    <3>1. LastFor(longer, n + 1, f)
      BY <2>1, <1>1, <1>2, <1>4 DEF LastFor
    <3> QED BY <3>1, <1>1
  <2>2. CASE f # r.frame
    <3>1. f \in h[1].frame .. f0
      BY <2>2, <1>1, <1>3, <1>5
    <3>2. PICK i \in 1..n : LastFor(h, i, f)
      BY <3>1 DEF Ring
    <3>3. longer[i].frame = f
      BY <3>2, <1>3 DEF LastFor
    <3>4. longer[i + 1].frame # f
      <4>1. CASE i = n
        BY <4>1, <2>2, <1>4
      <4>2. CASE i # n
        <5>1. i + 1 \in 1..n /\ i < n
          BY <4>2, <1>1
        <5> QED BY <5>1, <3>2, <1>3 DEF LastFor
      <4> QED BY <4>1, <4>2
    <3> QED BY <3>3, <3>4, <1>1 DEF LastFor
  <2> QED BY <2>1, <2>2
<1>8. CASE Len(longer) > kMaxSnapshotHistory
  <2> DEFINE t == Tail(longer)
  <2>1. PushSnapshot(r).history = t
    BY <1>8 DEF PushSnapshot, RoomType
  <2>2. Len(t) = n /\ \A i \in 1..n : t[i] = longer[i + 1]
    BY <1>1, <1>2
  <2>3. longer[1] = h[1] /\ h[1].frame \in Nat
    BY <1>1, <1>3
  <2> HIDE DEF t, longer
  <2>4. \A i, j \in 1..n : i <= j => t[i].frame <= t[j].frame
    <3> SUFFICES ASSUME NEW i \in 1..n, NEW j \in 1..n, i <= j
                 PROVE  t[i].frame <= t[j].frame
      OBVIOUS
    <3>1. i + 1 \in 1..n+1 /\ j + 1 \in 1..n+1 /\ i + 1 <= j + 1
      BY <1>1
    <3>2. longer[i + 1].frame <= longer[j + 1].frame
      BY <3>1, <1>6
    <3> QED BY <3>2, <2>2
  <2>5. \A f \in t[1].frame .. r.frame : \E i \in 1..n : LastFor(t, i, f)
    <3> SUFFICES ASSUME NEW f \in t[1].frame .. r.frame
                 PROVE  \E i \in 1..n : LastFor(t, i, f)
      OBVIOUS
    <3>1. t[1] = longer[2] /\ longer[1].frame <= longer[2].frame
      BY <2>2, <1>1, <1>6
    <3>2. t[1].frame \in Nat
      BY <3>1, <1>1, <1>3, <1>4, <1>5
    <3>3. f \in h[1].frame .. r.frame
      BY <3>1, <3>2, <2>3, <1>5
    <3>4. PICK i \in 1..n+1 : LastFor(longer, i, f)
      BY <3>3, <1>7
    <3>5. i # 1
      <4> SUFFICES ASSUME i = 1
                   PROVE  FALSE
        OBVIOUS
      <4>1. longer[1].frame = f /\ longer[2].frame # f
        BY <3>4, <1>1, <1>2 DEF LastFor
      <4> QED BY <4>1, <3>1, <3>2, <2>3
    <3>6. i - 1 \in 1..n /\ t[i - 1] = longer[i]
      BY <3>5, <2>2, <1>1
    <3>7. i - 1 < n => t[(i - 1) + 1] = longer[i + 1] /\ i < n + 1
      BY <3>5, <2>2, <1>1
    <3>8. LastFor(t, i - 1, f)
      BY <3>4, <3>6, <3>7, <2>2, <1>2 DEF LastFor
    <3> QED BY <3>6, <3>8
  <2>6. t[n].frame = r.frame
    BY <2>2, <1>1, <1>4
  <2> QED
    BY <2>1, <2>2, <2>4, <2>5, <2>6, <1>1 DEF Ring
<1>9. CASE ~(Len(longer) > kMaxSnapshotHistory)
  <2>1. PushSnapshot(r).history = longer
    BY <1>9 DEF PushSnapshot, RoomType
  <2>2. longer[1] = h[1]
    BY <1>1, <1>3
  <2> HIDE DEF longer
  <2> QED
    BY <2>1, <2>2, <1>1, <1>2, <1>4, <1>5, <1>6, <1>7, <1>9 DEF Ring
<1> QED
  BY <1>8, <1>9

-----------------------------------------------------------------------------
(* Every method keeps a room well formed.                                  *)

Fresh(r) ==
    /\ r.phase \in {"created", "waiting"} => r.frame = 0
    /\ r.phase = "playing" => \A i \in Slots : r.connected[i]

RoomOK(r) ==
    /\ r \in RoomType
    /\ Ring(r.history, r.frame)
    /\ FairVerdict(r)
    /\ DamageWithinFrames(r)
    /\ Fresh(r)

\* p and q agree on all that the facts about a room but its ring mention.
Agree(p, q) ==
    /\ p.phase = q.phase /\ p.reason = q.reason /\ p.winner = q.winner
    /\ p.frame = q.frame /\ p.hp = q.hp /\ p.online = q.online
    /\ p.offlineSince = q.offlineSince /\ p.finishedAt = q.finishedAt
    /\ p.connected = q.connected

\* Rooms that agree on those fields share the facts about them.
LEMMA AgreeOK ==
    ASSUME NEW p, NEW q, Agree(p, q),
           FairVerdict(q), DamageWithinFrames(q), Fresh(q)
    PROVE  FairVerdict(p) /\ DamageWithinFrames(p) /\ Fresh(p)
<1>1. KnockOut(p) <=> KnockOut(q)
  BY DEF Agree, KnockOut
<1>2. FramesRanOut(p) <=> FramesRanOut(q)
  BY DEF Agree, FramesRanOut
<1>3. Forfeit(p) <=> Forfeit(q)
  BY DEF Agree, Forfeit
<1>4. FairVerdict(p)
  BY <1>1, <1>2, <1>3 DEF Agree, FairVerdict
<1> QED
  BY <1>4 DEF Agree, DamageWithinFrames, Fresh

\* A room that is well formed but for the entry it is about to push is well
\* formed once it has pushed it.
LEMMA PushOK ==
    ASSUME NEW q \in RoomType, NEW f0 \in Nat, Ring(q.history, f0),
           q.frame = f0 \/ q.frame = f0 + 1,
           FairVerdict(q), DamageWithinFrames(q), Fresh(q)
    PROVE  RoomOK(PushSnapshot(q))
<1> DEFINE p == PushSnapshot(q)
<1>1. Len(q.history) <= kMaxSnapshotHistory
  BY ConstantsAssumption DEF Ring
<1>2. p \in RoomType /\ p = [q EXCEPT !.history = p.history]
  BY <1>1, PushFacts
<1>3. Ring(p.history, q.frame)
  BY PushRing
<1> HIDE DEF p
<1>4. Agree(p, q)
  BY <1>2 DEF RoomType, Agree
<1>5. FairVerdict(p) /\ DamageWithinFrames(p) /\ Fresh(p)
  BY <1>4, AgreeOK
<1>6. p.frame = q.frame
  BY <1>4 DEF Agree
<1> QED
  BY <1>2, <1>3, <1>5, <1>6 DEF RoomOK, p

\* Abort keeps a room well formed, from every phase before a verdict.
LEMMA AbortOK ==
    ASSUME NEW r, RoomOK(r), r.phase \in Unfinished, NEW t \in Int
    PROVE  RoomOK(Abort(r, t))
<1> DEFINE q == [r EXCEPT !.phase = "aborted", !.reason = "aborted",
                          !.winner = NoWinner, !.finishedAt = t]
<1>1. q \in RoomType /\ q.phase = "aborted" /\ q.winner = NoWinner
      /\ q.frame = r.frame /\ q.hp = r.hp /\ q.history = r.history
      /\ r.frame \in Nat
  BY DEF RoomOK, RoomType, RoomPhase, Over, Unfinished, FinishReason, NoWinner
<1>2. FairVerdict(q) /\ DamageWithinFrames(q) /\ Fresh(q)
  BY <1>1 DEF RoomOK, FairVerdict, DamageWithinFrames, Fresh, Unfinished
<1>3. Ring(q.history, r.frame)
  BY <1>1 DEF RoomOK
<1>4. Abort(r, t) = PushSnapshot(q)
  BY DEF Abort
<1> HIDE DEF q
<1> QED
  BY <1>1, <1>2, <1>3, <1>4, PushOK

\* Join keeps a room well formed; the second join, which sets the frame to 0,
\* finds it at 0.
LEMMA JoinOK ==
    ASSUME NEW r, RoomOK(r), NEW i \in Slots, NEW t \in Int
    PROVE  RoomOK(JoinRoom(r, i, t))
<1>1. CASE r.phase \in Over \/ r.connected[i]
  BY <1>1 DEF JoinRoom
<1>2. CASE ~(r.phase \in Over \/ r.connected[i])
  <2> DEFINE joined == [r EXCEPT !.connected[i] = TRUE]
             full == [joined EXCEPT !.phase = "playing", !.startedAt = t,
                                    !.lastTick = t, !.frame = 0]
             half == [joined EXCEPT !.phase = IF @ = "created" THEN "waiting"
                                              ELSE @]
  <2>0. r \in RoomType /\ r.phase \in Unfinished /\ r.frame \in Nat
        /\ Ring(r.history, r.frame)
    BY <1>2 DEF RoomOK, RoomType, RoomPhase
  <2>1. /\ joined \in RoomType /\ joined.phase = r.phase
        /\ joined.frame = r.frame /\ joined.hp = r.hp
        /\ joined.winner = r.winner /\ joined.history = r.history
    BY <2>0 DEF RoomType
  <2> HIDE DEF joined
  <2>2. CASE joined.connected[Opponent(i)]
    <3>0. i \in Slots /\ Opponent(i) \in Slots /\ Slots = {i, Opponent(i)}
      BY DEF Slots, Opponent
    <3>1. r.phase \in {"created", "waiting"} /\ r.frame = 0
      BY <1>2, <2>0 DEF RoomOK, Fresh, Unfinished
    <3>2. /\ full \in RoomType /\ full.frame = 0 /\ full.hp = r.hp
          /\ full.winner = r.winner /\ full.history = r.history
          /\ full.phase = "playing" /\ full.connected = joined.connected
      BY <2>0, <2>1 DEF RoomType, RoomPhase, Unfinished
    <3>3. joined.connected[i] = TRUE
      BY <2>0 DEF joined, RoomType
    <3>4. FairVerdict(full) /\ DamageWithinFrames(full) /\ Fresh(full)
      BY <3>0, <3>1, <3>2, <3>3, <2>0, <2>2
      DEF RoomOK, FairVerdict, DamageWithinFrames, Fresh
    <3>5. JoinRoom(r, i, t) = PushSnapshot(full)
      BY <1>2, <2>2 DEF JoinRoom, joined
    <3>6. Ring(full.history, 0)
      BY <3>1, <3>2, <2>0
    <3> HIDE DEF full
    <3> QED BY <3>2, <3>4, <3>5, <3>6, PushOK
  <2>3. CASE ~joined.connected[Opponent(i)]
    <3>1. /\ half \in RoomType /\ half.frame = r.frame /\ half.hp = r.hp
          /\ half.winner = r.winner /\ half.history = r.history
          /\ half.phase = IF r.phase = "created" THEN "waiting" ELSE r.phase
      BY <2>0, <2>1 DEF RoomType, RoomPhase, Unfinished
    <3>2. FairVerdict(half) /\ DamageWithinFrames(half) /\ Fresh(half)
      <4>1. r.phase \in {"created", "waiting"} /\ half.phase = "waiting"
        BY <1>2, <2>0, <3>1 DEF RoomOK, Fresh, Unfinished
      <4> QED
        BY <4>1, <3>1, <2>0 DEF RoomOK, FairVerdict, DamageWithinFrames, Fresh
    <3>3. JoinRoom(r, i, t) = PushSnapshot(half)
      BY <1>2, <2>3 DEF JoinRoom, joined
    <3> HIDE DEF half
    <3> QED BY <3>1, <3>2, <3>3, <2>0, PushOK
  <2> QED BY <2>2, <2>3
<1> QED BY <1>1, <1>2

\* Changes to fields the facts do not mention.
LEMMA QuietOK ==
    ASSUME NEW r, RoomOK(r), NEW q \in RoomType, Agree(q, r),
           q.history = r.history
    PROVE  RoomOK(q)
<1>1. FairVerdict(q) /\ DamageWithinFrames(q) /\ Fresh(q)
  BY AgreeOK DEF RoomOK
<1> QED
  BY <1>1 DEF RoomOK, Agree

\* SubmitInput keeps a room well formed.
LEMMA SubmitOK ==
    ASSUME NEW r, RoomOK(r), NEW i \in Slots
    PROVE  RoomOK(SubmitAttack(r, i))
<1> DEFINE q == [r EXCEPT !.pending[i] = TRUE]
<1>1. r \in RoomType
  BY DEF RoomOK
<1>2. q \in RoomType /\ Agree(q, r) /\ q.history = r.history
  BY <1>1 DEF RoomType, Agree
<1>3. RoomOK(q)
  BY <1>2, QuietOK
<1> QED
  BY <1>3 DEF SubmitAttack

\* SetPresence keeps a room well formed.
LEMMA PresenceOK ==
    ASSUME NEW r, RoomOK(r), NEW i \in Slots, NEW on \in BOOLEAN,
           NEW t \in Int
    PROVE  RoomOK(ReportPresence(r, i, on, t))
<1>1. r \in RoomType /\ r.frame \in Nat /\ Ring(r.history, r.frame)
  BY DEF RoomOK, RoomType
<1>2. CASE r.phase \in Over \/ (~on /\ ~r.online[i])
  BY <1>2 DEF ReportPresence
<1>3. CASE r.phase \notin Over /\ on
  <2> DEFINE q == [r EXCEPT !.online[i] = TRUE, !.offlineSince[i] = 0]
  <2>1. /\ q \in RoomType /\ q.phase = r.phase /\ q.winner = r.winner
        /\ q.frame = r.frame /\ q.hp = r.hp /\ q.connected = r.connected
        /\ q.history = r.history
    <3>1. /\ [r.online EXCEPT ![i] = TRUE] \in [Slots -> BOOLEAN]
          /\ [r.offlineSince EXCEPT ![i] = 0] \in [Slots -> Int]
      BY <1>1 DEF RoomType
    <3> QED BY <1>1, <3>1 DEF RoomType
  <2>2. ReportPresence(r, i, on, t) = q
    BY <1>3 DEF ReportPresence
  <2> HIDE DEF q
  <2> QED
    BY <1>3, <2>1, <2>2
    DEF RoomOK, FairVerdict, DamageWithinFrames, Fresh, Over
<1>4. CASE r.phase \notin Over /\ ~on /\ r.online[i]
  <2> DEFINE q == [r EXCEPT !.online[i] = FALSE, !.offlineSince[i] = t]
  <2>1. /\ q \in RoomType /\ q.phase = r.phase /\ q.winner = r.winner
        /\ q.frame = r.frame /\ q.hp = r.hp /\ q.connected = r.connected
        /\ q.history = r.history
    <3>1. /\ [r.online EXCEPT ![i] = FALSE] \in [Slots -> BOOLEAN]
          /\ [r.offlineSince EXCEPT ![i] = t] \in [Slots -> Int]
      BY <1>1 DEF RoomType
    <3> QED BY <1>1, <3>1 DEF RoomType
  <2>2. ReportPresence(r, i, on, t) = PushSnapshot(q)
    BY <1>4 DEF ReportPresence
  <2> HIDE DEF q
  <2>3. FairVerdict(q) /\ DamageWithinFrames(q) /\ Fresh(q)
    BY <1>4, <2>1
    DEF RoomOK, FairVerdict, DamageWithinFrames, Fresh, Over
  <2>4. Ring(q.history, r.frame)
    BY <1>1, <2>1
  <2> QED BY <1>1, <2>1, <2>2, <2>3, <2>4, PushOK
<1> QED BY <1>2, <1>3, <1>4

Ended(r, reason, w, t) ==
    [r EXCEPT !.phase = "finishing", !.reason = reason, !.winner = w,
              !.finishedAt = t, !.lastPersist = 0]

\* What Finish has set before it pushes the last snapshot.
LEMMA EndedFacts ==
    ASSUME NEW r \in RoomType, NEW reason \in FinishReason,
           NEW w \in Slots \cup {NoWinner}, NEW t \in Int
    PROVE  /\ Ended(r, reason, w, t) \in RoomType
           /\ Ended(r, reason, w, t).phase = "finishing"
           /\ Ended(r, reason, w, t).reason = reason
           /\ Ended(r, reason, w, t).winner = w
           /\ Ended(r, reason, w, t).finishedAt = t
           /\ Ended(r, reason, w, t).online = r.online
           /\ Ended(r, reason, w, t).offlineSince = r.offlineSince
           /\ Ended(r, reason, w, t).frame = r.frame
           /\ Ended(r, reason, w, t).hp = r.hp
           /\ Ended(r, reason, w, t).history = r.history
           /\ Finish(r, reason, w, t) = PushSnapshot(Ended(r, reason, w, t))
<1>1. "finishing" \in RoomPhase
  BY DEF RoomPhase, Over
<1>2. Ended(r, reason, w, t) \in RoomType
  <2> DEFINE e == [r EXCEPT !.phase = "finishing", !.reason = reason,
                            !.winner = w]
  <2>1. e \in RoomType
    BY <1>1 DEF RoomType
  <2>2. [e EXCEPT !.finishedAt = t, !.lastPersist = 0] \in RoomType
    <3> DEFINE z == 0
    <3>1. z \in Int
      OBVIOUS
    <3> HIDE DEF e, z
    <3>2. [e EXCEPT !.finishedAt = t, !.lastPersist = z] \in RoomType
      BY <2>1, <3>1 DEF RoomType
    <3> QED BY <3>2 DEF z
  <2>3. Ended(r, reason, w, t) = [e EXCEPT !.finishedAt = t, !.lastPersist = 0]
    BY DEF Ended, RoomType
  <2> QED BY <2>2, <2>3
<1>3. Finish(r, reason, w, t) = PushSnapshot(Ended(r, reason, w, t))
  BY DEF Ended, Finish
<1> QED
  BY <1>2, <1>3 DEF Ended, RoomType

\* A tick of a paused game keeps the room well formed: a forfeit names the
\* player who stayed, and only after the whole grace period.
LEMMA PausedOK ==
    ASSUME NEW r, RoomOK(r), r.phase = "playing", IsWaitingForReconnect(r),
           NEW t \in Int
    PROVE  RoomOK(TickPaused(r, t))
<1>1. r \in RoomType /\ r.frame \in Nat /\ Ring(r.history, r.frame)
  BY DEF RoomOK, RoomType
<1>2. CASE ~GraceExpired(r, t)
  <2> DEFINE q == [r EXCEPT !.lastTick = t]
  <2>1. q \in RoomType /\ Agree(q, r) /\ q.history = r.history
    BY <1>1 DEF RoomType, Agree
  <2> QED BY <1>2, <2>1, QuietOK DEF TickPaused
<1>3. ASSUME NEW w \in Slots, r.online[w], ~r.online[Opponent(w)],
             GraceExpired(r, t)
      PROVE  RoomOK(Finish(r, "disconnect", w, t))
  <2> DEFINE q == Ended(r, "disconnect", w, t)
  <2>1. /\ q \in RoomType /\ q.phase = "finishing" /\ q.winner = w
        /\ q.reason = "disconnect" /\ q.finishedAt = t
        /\ q.online = r.online /\ q.offlineSince = r.offlineSince
        /\ q.frame = r.frame /\ q.hp = r.hp /\ q.history = r.history
        /\ Finish(r, "disconnect", w, t) = PushSnapshot(q)
    <3>1. "disconnect" \in FinishReason /\ w \in Slots \cup {NoWinner}
      BY DEF FinishReason
    <3> QED BY <1>1, <3>1, EndedFacts
  <2>3. t - r.offlineSince[Opponent(w)] >= kReconnectGraceMs
    BY <1>3 DEF GraceExpired, LatestOfflineAt, Slots, Opponent
  <2> HIDE DEF q
  <2>4. Forfeit(q)
    BY <1>3, <2>1, <2>3 DEF Forfeit, RoomOK, FairVerdict
  <2>5. FairVerdict(q) /\ DamageWithinFrames(q) /\ Fresh(q)
    BY <2>1, <2>4 DEF RoomOK, FairVerdict, DamageWithinFrames, Fresh
  <2>6. Ring(q.history, r.frame)
    BY <1>1, <2>1
  <2> QED BY <1>1, <2>1, <2>5, <2>6, PushOK
<1>4. CASE GraceExpired(r, t)
  <2>1. CASE r.online[1]
    <3>1. ~r.online[2]
      BY <2>1 DEF IsWaitingForReconnect, Slots
    <3> QED
      BY <1>3, <1>4, <2>1, <3>1
      DEF TickPaused, ResolveReconnectGrace, Slots, Opponent
  <2>2. CASE ~r.online[1] /\ r.online[2]
    BY <1>3, <1>4, <2>2
    DEF TickPaused, ResolveReconnectGrace, Slots, Opponent
  <2>3. CASE ~r.online[1] /\ ~r.online[2]
    BY <1>4, <2>3, AbortOK DEF TickPaused, ResolveReconnectGrace, Unfinished
  <2> QED BY <2>1, <2>2, <2>3
<1> QED BY <1>2, <1>4

\* Dropping the frames beyond the catch-up limit keeps a room well formed.
LEMMA DropOK ==
    ASSUME NEW r, RoomOK(r), NEW t \in Int,
           ElapsedFrames(r, t) \in Nat, FramesDue(r, t) \in Nat
    PROVE  RoomOK(DropExcess(r, t))
<1> DEFINE d == (ElapsedFrames(r, t) - FramesDue(r, t)) * kFrameIntervalMs
           q == [r EXCEPT !.lastTick = @ + d]
<1>1. r \in RoomType
  BY DEF RoomOK
<1>2. d \in Int
  BY ConstantsAssumption
<1>3. DropExcess(r, t) = q
  BY DEF DropExcess
<1> HIDE DEF d
<1>4. q \in RoomType /\ Agree(q, r) /\ q.history = r.history
  <2>1. r.lastTick + d \in Int
    BY <1>1, <1>2 DEF RoomType
  <2> QED BY <1>1, <2>1 DEF RoomType, Agree
<1> QED BY <1>3, <1>4, QuietOK

\* Settling a frame takes at most one attack from each player.
LEMMA SettleFacts ==
    ASSUME NEW r, RoomOK(r), r.phase = "playing"
    PROVE  LET s == SettleInputs(r)
           IN  /\ s \in RoomType
               /\ s.frame = r.frame + 1 /\ s.phase = "playing"
               /\ s.winner = NoWinner /\ s.history = r.history
               /\ s.connected = r.connected /\ s.online = r.online
               /\ s.startedAt = r.startedAt
               /\ s.lastTick = r.lastTick + kFrameIntervalMs
               /\ DamageWithinFrames(s)
<1> DEFINE struck == [i \in Slots |-> Struck(r, i)]
           calm == [i \in Slots |-> FALSE]
           lt == r.lastTick + kFrameIntervalMs
           nf == r.frame + 1
           s == [r EXCEPT !.lastTick = lt, !.frame = nf, !.hp = struck,
                          !.pending = calm]
<1>1. /\ r \in RoomType /\ r.frame \in Nat /\ r.hp \in [Slots -> Nat]
      /\ r.lastTick \in Int /\ r.winner = NoWinner
      /\ r.pending \in [Slots -> BOOLEAN]
  BY DEF RoomOK, RoomType, FairVerdict
<1>2. /\ kAttackDamage \in Nat \ {0} /\ kFrameIntervalMs \in Nat \ {0}
      /\ kInitialHp \in Nat
  BY ConstantsAssumption
<1>3. \A i \in Slots : /\ Struck(r, i) \in Nat
                       /\ Struck(r, i) >= r.hp[i] - kAttackDamage
  BY <1>1, <1>2 DEF Struck
<1>4. /\ struck \in [Slots -> Nat] /\ calm \in [Slots -> BOOLEAN]
      /\ lt \in Int /\ nf \in Nat
  BY <1>1, <1>2, <1>3
<1>5. \A i \in Slots : struck[i] >= kInitialHp - nf * kAttackDamage
  <2> TAKE i \in Slots
  <2>1. r.hp[i] >= kInitialHp - r.frame * kAttackDamage
    BY DEF RoomOK, DamageWithinFrames
  <2>2. nf * kAttackDamage = r.frame * kAttackDamage + kAttackDamage
    BY <1>1, <1>2
  <2>3. r.frame * kAttackDamage \in Int /\ nf * kAttackDamage \in Int
    BY <1>1, <1>2, <1>4
  <2>4. struck[i] \in Nat /\ struck[i] >= r.hp[i] - kAttackDamage
    BY <1>3
  <2> HIDE DEF struck, nf
  <2> QED BY <2>1, <2>2, <2>3, <2>4, <1>1, <1>2
<1>6. SettleInputs(r) = s
  BY DEF SettleInputs
<1> HIDE DEF struck, calm, lt, nf
<1>7. s \in RoomType
  BY <1>1, <1>4 DEF RoomType
<1>8. /\ s.frame = nf /\ s.hp = struck /\ s.lastTick = lt
      /\ s.phase = r.phase /\ s.winner = r.winner
      /\ s.history = r.history /\ s.connected = r.connected
      /\ s.online = r.online /\ s.startedAt = r.startedAt
  BY <1>1 DEF RoomType
<1>9. DamageWithinFrames(s)
  <2> HIDE DEF s
  <2> QED BY <1>5, <1>8 DEF DamageWithinFrames
<1> QED
  BY <1>1, <1>6, <1>7, <1>8, <1>9 DEF nf, lt

\* AdvanceOneFrame keeps a running game well formed, whichever way it judges.
LEMMA FrameOK ==
    ASSUME NEW r, RoomOK(r), r.phase = "playing", NEW t \in Int
    PROVE  RoomOK(AdvanceOneFrame(r, t))
<1> DEFINE s == SettleInputs(r)
<1>1. /\ s \in RoomType
      /\ s.frame = r.frame + 1 /\ s.phase = "playing"
      /\ s.winner = NoWinner /\ s.history = r.history
      /\ s.connected = r.connected
      /\ DamageWithinFrames(s)
  BY SettleFacts
<1>2. /\ r.frame \in Nat /\ Ring(r.history, r.frame)
      /\ r.frame < kMaxFrames
  BY DEF RoomOK, RoomType, FairVerdict
<1>3. AdvanceOneFrame(r, t) = JudgeFrame(s, t)
  BY DEF AdvanceOneFrame
<1> HIDE DEF s
<1>4. s.hp \in [Slots -> Nat] /\ s.frame \in Nat
  BY <1>1 DEF RoomType
<1>5. ASSUME NEW reason \in FinishReason, NEW w \in Slots \cup {NoWinner},
             \A q : (/\ q.reason = reason /\ q.winner = w
                     /\ q.hp = s.hp /\ q.frame = s.frame)
                    => KnockOut(q) \/ FramesRanOut(q)
      PROVE  RoomOK(Finish(s, reason, w, t))
  <2> DEFINE q == Ended(s, reason, w, t)
  <2>1. /\ q \in RoomType /\ q.phase = "finishing" /\ q.winner = w
        /\ q.reason = reason /\ q.frame = s.frame /\ q.hp = s.hp
        /\ q.history = s.history
        /\ Finish(s, reason, w, t) = PushSnapshot(q)
    BY <1>1, EndedFacts
  <2> HIDE DEF q
  <2>2. FairVerdict(q) /\ DamageWithinFrames(q) /\ Fresh(q)
    BY <1>1, <1>5, <2>1 DEF FairVerdict, DamageWithinFrames, Fresh
  <2>3. Ring(q.history, r.frame)
    BY <1>1, <1>2, <2>1
  <2> QED BY <1>1, <1>2, <2>1, <2>2, <2>3, PushOK
<1>6. CASE \E i \in Slots : s.hp[i] = 0
  <2>1. /\ "hp_zero" \in FinishReason
        /\ Survivor(s) \in Slots \cup {NoWinner}
    BY DEF FinishReason, Survivor, Slots
  <2>2. \A i \in Slots : Survivor(s) = i <=> s.hp[i] > 0
    BY <1>4, <1>6 DEF Survivor, Slots, NoWinner
  <2>3. RoomOK(Finish(s, "hp_zero", Survivor(s), t))
    BY <1>5, <1>6, <2>1, <2>2 DEF KnockOut
  <2> QED BY <1>3, <1>6, <2>3 DEF JudgeFrame
<1>7. CASE (\A i \in Slots : s.hp[i] # 0) /\ s.frame >= kMaxFrames
  <2>1. /\ "timeout" \in FinishReason
        /\ Leader(s) \in Slots \cup {NoWinner}
    BY DEF FinishReason, Leader, Slots
  <2>2. \A i \in Slots : /\ s.hp[i] > 0
                         /\ Leader(s) = i <=> s.hp[i] > s.hp[Opponent(i)]
    BY <1>4, <1>7 DEF Leader, Slots, NoWinner, Opponent
  <2>3. s.frame = kMaxFrames
    BY <1>1, <1>2, <1>7, ConstantsAssumption
  <2>4. RoomOK(Finish(s, "timeout", Leader(s), t))
    BY <1>5, <2>1, <2>2, <2>3 DEF FramesRanOut
  <2> QED BY <1>3, <1>7, <2>4 DEF JudgeFrame
<1>8. CASE (\A i \in Slots : s.hp[i] # 0) /\ ~(s.frame >= kMaxFrames)
  <2>1. FairVerdict(s) /\ Fresh(s)
    BY <1>1, <1>4, <1>8, ConstantsAssumption DEF FairVerdict, Fresh, RoomOK
  <2>2. JudgeFrame(s, t) = PushSnapshot(s)
    BY <1>8 DEF JudgeFrame
  <2>3. Ring(s.history, r.frame)
    BY <1>1, <1>2
  <2> QED BY <1>1, <1>2, <1>3, <2>1, <2>2, <2>3, PushOK
<1> QED BY <1>6, <1>7, <1>8

\* What RoomManager tells a room after a write keeps it well formed.
LEMMA MarkOK ==
    ASSUME NEW r, RoomOK(r), NEW t \in Int
    PROVE  /\ RoomOK(MarkResultPersisted(r))
           /\ RoomOK(MarkResultFailed(r, t))
<1>1. r \in RoomType
  BY DEF RoomOK
<1>2. CASE r.phase # "finishing"
  BY <1>2 DEF MarkResultPersisted, MarkResultFailed
<1>3. CASE r.phase = "finishing"
  <2> DEFINE f == [r EXCEPT !.lastPersist = t]
             q == [r EXCEPT !.phase = "finished"]
  <2>1. RoomOK(f)
    <3>1. f \in RoomType /\ Agree(f, r) /\ f.history = r.history
      BY <1>1 DEF RoomType, Agree
    <3> QED BY <3>1, QuietOK
  <2>2. /\ q \in RoomType /\ q.phase = "finished" /\ q.reason = r.reason
        /\ q.winner = r.winner /\ q.frame = r.frame /\ q.hp = r.hp
        /\ q.online = r.online /\ q.offlineSince = r.offlineSince
        /\ q.finishedAt = r.finishedAt /\ q.history = r.history
    BY <1>1 DEF RoomType, RoomPhase, Over
  <2> HIDE DEF q
  <2>3. (KnockOut(r) => KnockOut(q)) /\ (FramesRanOut(r) => FramesRanOut(q))
    BY <2>2 DEF KnockOut, FramesRanOut
  <2>4. Forfeit(r) => Forfeit(q)
    BY <2>2 DEF Forfeit
  <2>5. FairVerdict(q)
    BY <1>3, <2>2, <2>3, <2>4 DEF RoomOK, FairVerdict
  <2>6. RoomOK(q)
    BY <2>2, <2>5 DEF RoomOK, DamageWithinFrames, Fresh
  <2> QED
    BY <1>3, <2>1, <2>6 DEF MarkResultPersisted, MarkResultFailed, q
<1> QED BY <1>2, <1>3

\* A new room is well formed.
LEMMA NewRoomOK ==
    ASSUME NEW t \in Int
    PROVE  /\ RoomOK(NewRoom(t))
           /\ NewRoom(t).phase = "created" /\ NewRoom(t).frame = 0
<1> DEFINE z == 0
           no == [i \in Slots |-> FALSE]
           q == [phase |-> "created", reason |-> "none", winner |-> NoWinner,
                 frame |-> z,
                 hp |-> [i \in Slots |-> kInitialHp],
                 connected |-> no,
                 online |-> [i \in Slots |-> TRUE],
                 offlineSince |-> [i \in Slots |-> z],
                 pending |-> no,
                 createdAt |-> t, startedAt |-> z, finishedAt |-> z,
                 lastTick |-> z, lastPersist |-> z,
                 history |-> <<>>]
<1>1. /\ z \in Nat /\ z \in Int
      /\ kInitialHp \in Nat \ {0} /\ kMaxFrames \in Nat \ {0}
      /\ kMaxSnapshotHistory \in Nat \ {0} /\ kAttackDamage \in Nat
  BY ConstantsAssumption
<1>2. "created" \in RoomPhase /\ "none" \in FinishReason
  BY DEF RoomPhase, Unfinished, FinishReason
<1>3. NewRoom(t) = PushSnapshot(q)
  BY DEF NewRoom
<1>4. q \in RoomType /\ q.history = <<>>
  <2> HIDE DEF z
  <2> QED BY <1>1, <1>2 DEF RoomType
<1>5. /\ q.phase = "created" /\ q.winner = NoWinner /\ q.frame = 0
      /\ \A i \in Slots : q.hp[i] = kInitialHp
  OBVIOUS
<1> HIDE DEF q
<1>6. Len(q.history) <= kMaxSnapshotHistory
  BY <1>1, <1>4
<1> DEFINE p == PushSnapshot(q)
<1>7. p \in RoomType /\ p = [q EXCEPT !.history = p.history]
  BY <1>4, <1>6, PushFacts
<1>8. p.history = <<Snapshot(q)>>
  BY <1>1, <1>4 DEF PushSnapshot, RoomType
<1>9. Ring(p.history, 0)
  BY <1>1, <1>4, <1>5, <1>8, SnapshotTyped DEF Ring, LastFor
<1> HIDE DEF p
<1>10. /\ p.phase = "created" /\ p.winner = NoWinner /\ p.frame = 0
       /\ p.hp = q.hp
  BY <1>4, <1>5, <1>7 DEF RoomType
<1>11. FairVerdict(p) /\ DamageWithinFrames(p) /\ Fresh(p)
  BY <1>1, <1>5, <1>10 DEF FairVerdict, DamageWithinFrames, Fresh
<1> QED
  BY <1>3, <1>7, <1>9, <1>10, <1>11 DEF RoomOK, p

\* A well formed room's ring has every frame a client lacks, once each,
\* whenever the request is called complete.
LEMMA BackfillOK ==
    ASSUME NEW r, RoomOK(r), NEW since \in Nat
    PROVE  CompleteBackfill(r, since)
<1> DEFINE h == r.history
           sent == SnapshotsAfter(r, since)
<1>1. /\ h \in Seq(SnapshotType) /\ DOMAIN h = 1..Len(h) /\ Len(h) \in Nat
      /\ 1 \in 1..Len(h) /\ r.frame \in Nat /\ Ring(h, r.frame)
  <2>1. h \in Seq(SnapshotType) /\ r.frame \in Nat /\ Ring(h, r.frame)
    BY DEF RoomOK, RoomType
  <2>2. Len(h) \in Nat /\ DOMAIN h = 1..Len(h)
    BY <2>1
  <2>3. 1 \in 1..Len(h)
    BY <2>1, <2>2 DEF Ring
  <2> QED BY <2>1, <2>2, <2>3
<1>2. \A i \in 1..Len(h) : h[i].frame \in Nat
  <2> TAKE i \in 1..Len(h)
  <2>1. h[i] \in SnapshotType
    BY <1>1
  <2> QED BY <2>1 DEF SnapshotType
<1>3. OldestFrame(r) = h[1].frame
  BY <1>1, <1>2 DEF OldestFrame, Ring
<1>4. SUFFICES ASSUME SnapshotRange(r, since) = "ok"
               PROVE  /\ \A f \in since + 1 .. r.frame :
                            \E i \in sent : h[i].frame = f
                      /\ \A i, j \in sent :
                            i < j => h[i].frame < h[j].frame
  BY DEF CompleteBackfill
<1>5. h[1].frame <= since + 1
  BY <1>1, <1>2, <1>3, <1>4 DEF SnapshotRange
<1>6. \A i \in 1..Len(h) :
        i \in sent <=> (/\ h[i].frame > since
                       /\ (i < Len(h) => h[i + 1].frame # h[i].frame))
  BY <1>1 DEF SnapshotsAfter
<1>7. sent \subseteq 1..Len(h)
  BY <1>1 DEF SnapshotsAfter
<1> HIDE DEF sent
<1>8. ASSUME NEW f \in since + 1 .. r.frame
      PROVE  \E i \in sent : h[i].frame = f
  <2>1. f \in h[1].frame .. r.frame
    BY <1>1, <1>2, <1>5
  <2>2. PICK i \in 1..Len(h) : LastFor(h, i, f)
    BY <1>1, <2>1 DEF Ring
  <2>3. h[i].frame = f /\ h[i].frame > since
    BY <2>2, <1>1 DEF LastFor
  <2>4. i \in sent
    BY <2>2, <2>3, <1>6 DEF LastFor
  <2> QED BY <2>3, <2>4
<1>9. ASSUME NEW i \in sent, NEW j \in sent, i < j
      PROVE  h[i].frame < h[j].frame
  <2>1. i \in 1..Len(h) /\ j \in 1..Len(h) /\ i + 1 \in 1..Len(h)
        /\ i < Len(h) /\ i + 1 <= j
    BY <1>1, <1>7, <1>9
  <2>2. h[i].frame <= h[i + 1].frame /\ h[i + 1].frame <= h[j].frame
    BY <1>1, <2>1 DEF Ring
  <2>3. h[i + 1].frame # h[i].frame
    BY <1>6, <2>1
  <2> QED BY <1>2, <2>1, <2>2, <2>3
<1> QED BY <1>8, <1>9

-----------------------------------------------------------------------------
(* What the methods do to the frame, the hit points and the time base.     *)

\* PushSnapshot keeps the fields the clock facts speak of.
LEMMA PushKeeps ==
    ASSUME NEW q \in RoomType, Len(q.history) <= kMaxSnapshotHistory
    PROVE  /\ PushSnapshot(q).phase = q.phase
           /\ PushSnapshot(q).frame = q.frame
           /\ PushSnapshot(q).hp = q.hp
           /\ PushSnapshot(q).online = q.online
           /\ PushSnapshot(q).startedAt = q.startedAt
           /\ PushSnapshot(q).lastTick = q.lastTick
           /\ PushSnapshot(q).finishedAt = q.finishedAt
<1> DEFINE p == PushSnapshot(q)
<1>1. p = [q EXCEPT !.history = p.history]
  BY PushFacts
<1> HIDE DEF p
<1>2. /\ p.phase = q.phase /\ p.frame = q.frame /\ p.hp = q.hp
      /\ p.online = q.online /\ p.startedAt = q.startedAt
      /\ p.lastTick = q.lastTick /\ p.finishedAt = q.finishedAt
  BY <1>1 DEF RoomType
<1> QED BY <1>2 DEF p

\* Same frame, same hit points, same start.
Still(q, r) ==
    q.frame = r.frame /\ q.hp = r.hp /\ q.startedAt = r.startedAt

\* Abort moves neither frame, hit points nor start.
LEMMA AbortStill ==
    ASSUME NEW r, RoomOK(r), NEW t \in Int
    PROVE  /\ Still(Abort(r, t), r) /\ Abort(r, t).phase = "aborted"
           /\ Abort(r, t).finishedAt = t
<1> DEFINE q == [r EXCEPT !.phase = "aborted", !.reason = "aborted",
                          !.winner = NoWinner, !.finishedAt = t]
<1>0. r \in RoomType /\ Len(r.history) <= kMaxSnapshotHistory
  BY ConstantsAssumption DEF RoomOK, Ring
<1>1. /\ q \in RoomType /\ q.phase = "aborted" /\ q.frame = r.frame
      /\ q.hp = r.hp /\ q.startedAt = r.startedAt /\ q.history = r.history
      /\ q.finishedAt = t
  BY <1>0
  DEF RoomType, RoomPhase, Over, Unfinished, FinishReason, NoWinner
<1>2. Abort(r, t) = PushSnapshot(q)
  BY DEF Abort
<1> HIDE DEF q
<1> QED BY <1>0, <1>1, <1>2, PushKeeps DEF Still

\* Finish moves neither frame, hit points nor start.
LEMMA FinishStill ==
    ASSUME NEW r \in RoomType, Len(r.history) <= kMaxSnapshotHistory,
           NEW reason \in FinishReason, NEW w \in Slots \cup {NoWinner},
           NEW t \in Int
    PROVE  /\ Still(Finish(r, reason, w, t), r)
           /\ Finish(r, reason, w, t).phase = "finishing"
<1> DEFINE q == Ended(r, reason, w, t)
<1>1. /\ q \in RoomType /\ q.phase = "finishing" /\ q.frame = r.frame
      /\ q.hp = r.hp /\ q.history = r.history
      /\ Finish(r, reason, w, t) = PushSnapshot(q)
  BY EndedFacts
<1>2. q.startedAt = r.startedAt
  BY DEF Ended, RoomType
<1> HIDE DEF q
<1> QED BY <1>1, <1>2, PushKeeps DEF Still

\* A join that starts a game sets its start and its time base to now.
LEMMA JoinTiming ==
    ASSUME NEW r, RoomOK(r), NEW i \in Slots, NEW t \in Int
    PROVE  LET q == JoinRoom(r, i, t)
           IN  \/ q = r
               \/ /\ r.phase \in {"created", "waiting"} /\ q.frame = 0
                  /\ q.phase \in {"waiting", "playing"}
                  /\ q.phase = "playing" => q.startedAt = t /\ q.lastTick = t
<1> DEFINE joined == [r EXCEPT !.connected[i] = TRUE]
           z == 0
           full == [joined EXCEPT !.phase = "playing", !.startedAt = t,
                                  !.lastTick = t, !.frame = z]
           half == [joined EXCEPT !.phase = IF @ = "created" THEN "waiting"
                                            ELSE @]
<1>0. /\ r \in RoomType /\ Len(r.history) <= kMaxSnapshotHistory /\ z \in Nat
  BY ConstantsAssumption DEF RoomOK, Ring
<1>1. CASE r.phase \in Over \/ r.connected[i]
  BY <1>1 DEF JoinRoom
<1>2. CASE ~(r.phase \in Over \/ r.connected[i])
  <2>1. r.phase \in {"created", "waiting"} /\ r.frame = 0
    BY <1>2 DEF RoomOK, RoomType, RoomPhase, Unfinished, Fresh
  <2>2. /\ joined \in RoomType /\ joined.phase = r.phase
        /\ joined.frame = r.frame /\ joined.history = r.history
    BY <1>0 DEF RoomType
  <2>3. JoinRoom(r, i, t) = PushSnapshot(IF joined.connected[Opponent(i)]
                                         THEN full ELSE half)
    BY <1>2 DEF JoinRoom
  <2> HIDE DEF joined, z
  <2>4. /\ full \in RoomType /\ full.frame = z /\ full.startedAt = t
        /\ full.phase = "playing" /\ full.lastTick = t /\ full.history = r.history
    BY <1>0, <2>2 DEF RoomType, RoomPhase, Unfinished
  <2>5. /\ half \in RoomType /\ half.frame = 0 /\ half.phase = "waiting"
        /\ half.history = r.history
    BY <2>1, <2>2 DEF RoomType, RoomPhase, Unfinished
  <2> HIDE DEF full, half
  <2>6. CASE joined.connected[Opponent(i)]
    BY <1>0, <2>1, <2>3, <2>4, <2>6, PushKeeps DEF z
  <2>7. CASE ~joined.connected[Opponent(i)]
    BY <1>0, <2>1, <2>3, <2>5, <2>7, PushKeeps
  <2> QED BY <2>6, <2>7
<1> QED BY <1>1, <1>2

\* A presence report moves nothing but presence.
LEMMA PresenceStill ==
    ASSUME NEW r, RoomOK(r), NEW i \in Slots, NEW on \in BOOLEAN,
           NEW t \in Int
    PROVE  LET q == ReportPresence(r, i, on, t)
           IN  Still(q, r) /\ q.phase = r.phase /\ q.lastTick = r.lastTick
<1> DEFINE z == 0
           back == [r EXCEPT !.online[i] = TRUE, !.offlineSince[i] = z]
           gone == [r EXCEPT !.online[i] = FALSE, !.offlineSince[i] = t]
<1>1. /\ r \in RoomType /\ Len(r.history) <= kMaxSnapshotHistory
  BY ConstantsAssumption DEF RoomOK, Ring
<1>2. /\ Still(back, r) /\ back.phase = r.phase
      /\ back.lastTick = r.lastTick
  BY <1>1 DEF RoomType, Still
<1>3. /\ Still(gone, r) /\ gone.phase = r.phase
      /\ gone.lastTick = r.lastTick /\ gone.history = r.history
  BY <1>1 DEF RoomType, Still
<1>4. gone \in RoomType
  <2>1. /\ [r.online EXCEPT ![i] = FALSE] \in [Slots -> BOOLEAN]
        /\ [r.offlineSince EXCEPT ![i] = t] \in [Slots -> Int]
    BY <1>1 DEF RoomType
  <2> QED BY <1>1, <2>1 DEF RoomType
<1>5. \/ ReportPresence(r, i, on, t) = r
      \/ ReportPresence(r, i, on, t) = back
      \/ ReportPresence(r, i, on, t) = PushSnapshot(gone)
  BY DEF ReportPresence
<1> HIDE DEF back, gone
<1> QED BY <1>1, <1>2, <1>3, <1>4, <1>5, PushKeeps DEF Still

\* A tick of a paused game moves its time base only.
LEMMA PausedStill ==
    ASSUME NEW r, RoomOK(r), NEW t \in Int
    PROVE  LET q == TickPaused(r, t)
           IN  /\ Still(q, r)
               /\ q.phase \in {r.phase, "finishing", "aborted"}
               /\ q.phase = "aborted" /\ r.phase # "aborted" => q.finishedAt = t
               /\ q.phase = "playing" => q.lastTick = t
<1> DEFINE p == [r EXCEPT !.lastTick = t]
<1>1. r \in RoomType /\ Len(r.history) <= kMaxSnapshotHistory
  BY ConstantsAssumption DEF RoomOK, Ring
<1>2. Still(p, r) /\ p.lastTick = t /\ p.phase = r.phase
  BY <1>1 DEF RoomType, Still
<1>3. /\ "disconnect" \in FinishReason /\ 1 \in Slots \cup {NoWinner}
      /\ 2 \in Slots \cup {NoWinner}
  BY DEF FinishReason, Slots
<1>4. \/ TickPaused(r, t) = p
      \/ TickPaused(r, t) = Finish(r, "disconnect", 1, t)
      \/ TickPaused(r, t) = Finish(r, "disconnect", 2, t)
      \/ TickPaused(r, t) = Abort(r, t)
  BY DEF TickPaused, ResolveReconnectGrace
<1> HIDE DEF p
<1>5. /\ Still(Finish(r, "disconnect", 1, t), r)
      /\ Finish(r, "disconnect", 1, t).phase = "finishing"
      /\ Still(Finish(r, "disconnect", 2, t), r)
      /\ Finish(r, "disconnect", 2, t).phase = "finishing"
  BY <1>1, <1>3, FinishStill
<1>6. /\ Still(Abort(r, t), r) /\ Abort(r, t).phase = "aborted"
      /\ Abort(r, t).finishedAt = t
  BY AbortStill
<1> QED BY <1>2, <1>4, <1>5, <1>6

\* The frames a tick plays are no more than the limit, and no more than the
\* time since the time base pays for.
LEMMA FramesFacts ==
    ASSUME NEW r \in RoomType, NEW t \in Int
    PROVE  /\ ElapsedFrames(r, t) \in Nat
           /\ FramesDue(r, t) \in 0..kMaxCatchUpFrames
           /\ t >= r.lastTick =>
                ElapsedFrames(r, t) * kFrameIntervalMs <= t - r.lastTick
<1>1. /\ kFrameIntervalMs \in Nat \ {0} /\ kMaxCatchUpFrames \in Nat
      /\ r.lastTick \in Int
  BY ConstantsAssumption DEF RoomType
<1>2. CASE t < r.lastTick
  BY <1>1, <1>2 DEF ElapsedFrames, FramesDue
<1>3. CASE ~(t < r.lastTick)
  <2> DEFINE e == t - r.lastTick
  <2>1. e \in Nat
    BY <1>1, <1>3
  <2>2. ElapsedFrames(r, t) = e \div kFrameIntervalMs
    BY <1>3 DEF ElapsedFrames
  <2> HIDE DEF e
  <2>3. e \div kFrameIntervalMs \in Nat
    BY <1>1, <2>1
  <2>4. (e \div kFrameIntervalMs) * kFrameIntervalMs <= e
    BY <1>1, <2>1
  <2> QED BY <1>1, <2>1, <2>2, <2>3, <2>4 DEF FramesDue, e
<1> QED BY <1>2, <1>3

\* A frame costs one interval of the time base.
LEMMA FrameTiming ==
    ASSUME NEW r, RoomOK(r), r.phase = "playing", NEW t \in Int
    PROVE  LET q == AdvanceOneFrame(r, t)
           IN  /\ q.frame = r.frame + 1 /\ q.startedAt = r.startedAt
               /\ q.phase \in {"playing", "finishing"}
               /\ q.phase = "playing" =>
                     /\ q.lastTick = r.lastTick + kFrameIntervalMs
                     /\ q.online = r.online
<1> DEFINE s == SettleInputs(r)
<1>1. /\ s \in RoomType /\ s.frame = r.frame + 1 /\ s.phase = "playing"
      /\ s.history = r.history /\ s.online = r.online
      /\ s.startedAt = r.startedAt
      /\ s.lastTick = r.lastTick + kFrameIntervalMs
  BY SettleFacts
<1>2. Len(s.history) <= kMaxSnapshotHistory
  BY <1>1, ConstantsAssumption DEF RoomOK, Ring
<1>3. /\ "hp_zero" \in FinishReason /\ "timeout" \in FinishReason
      /\ Survivor(s) \in Slots \cup {NoWinner}
      /\ Leader(s) \in Slots \cup {NoWinner}
  BY DEF FinishReason, Survivor, Leader, Slots
<1>4. \/ AdvanceOneFrame(r, t) = PushSnapshot(s)
      \/ AdvanceOneFrame(r, t) = Finish(s, "hp_zero", Survivor(s), t)
      \/ AdvanceOneFrame(r, t) = Finish(s, "timeout", Leader(s), t)
  BY DEF AdvanceOneFrame, JudgeFrame
<1> HIDE DEF s
<1>5. /\ Still(Finish(s, "hp_zero", Survivor(s), t), s)
      /\ Finish(s, "hp_zero", Survivor(s), t).phase = "finishing"
  BY <1>1, <1>2, <1>3, FinishStill
<1>6. /\ Still(Finish(s, "timeout", Leader(s), t), s)
      /\ Finish(s, "timeout", Leader(s), t).phase = "finishing"
  BY <1>1, <1>2, <1>3, FinishStill
<1>7. CASE AdvanceOneFrame(r, t) = PushSnapshot(s)
  BY <1>1, <1>2, <1>7, PushKeeps
<1>8. CASE AdvanceOneFrame(r, t) = Finish(s, "hp_zero", Survivor(s), t)
  BY <1>1, <1>5, <1>8 DEF Still
<1>9. CASE AdvanceOneFrame(r, t) = Finish(s, "timeout", Leader(s), t)
  BY <1>1, <1>6, <1>9 DEF Still
<1> QED BY <1>4, <1>7, <1>8, <1>9

=============================================================================

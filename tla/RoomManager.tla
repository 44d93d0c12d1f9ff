----------------------------- MODULE RoomManager -----------------------------
(***************************************************************************)
(* The Room service: the registry of rooms (src/room/room_manager.cpp),    *)
(* the ticker thread and the drain of the main thread                      *)
(* (src/room/room_main.cpp), the two MySQL tables, crashes and restarts.   *)
(*                                                                         *)
(* One mutex guards the registry and is never held across a MySQL call, so *)
(* a lock section is one action and a MySQL call another.  Every caller    *)
(* reads the clock before it waits for the mutex: a lock section works     *)
(* with a time that may be older than that of a section that ran before    *)
(* it.  rooms_ and match_index_ are always changed together under the      *)
(* mutex; they are one map here, from a match to its room.  A match id is  *)
(* allocated once by Match, so CreateRoom is repeated only while the room  *)
(* is known.                                                               *)
(***************************************************************************)
EXTENDS BattleRoomOps, FiniteSets, Functions

CONSTANTS
    Match,                 \* match ids
    kSnapshotIntervalMs,
    Leavers,               \* bound: the players whose presence is reported
    kStart, MaxTime,       \* bounds of the clock
    MaxRestarts            \* bound: how often the process is started again

ASSUME ManagerAssumption ==
    /\ kSnapshotIntervalMs \in Nat
    /\ Leavers \subseteq Slots
    /\ kStart \in Nat /\ MaxTime \in Nat /\ MaxRestarts \in Nat
    /\ kStart >= kResultRetryIntervalMs

Threads == {"ticker", "main"}

VARIABLES
    now,
    rooms,       \* match -> room, for the rooms in memory
    snapState,   \* match -> when and in which phase its last snapshot was taken
    created,     \* matches CreateRoom was ever called for
    main,        \* where the main thread is
    thread,      \* a Tick under way, per thread that runs one
    rows,        \* table rooms:         match -> row
    results,     \* table match_results: match -> winner
    started,     \* when this process was started
    restarts

process == <<started, restarts>>
memory == <<rooms, snapState, thread>>
disk == <<rows, results>>
vars == <<now, rooms, snapState, created, main, thread, rows,
          results, started, restarts>>

Idle == [pc |-> "idle"]

Init ==
    /\ now = kStart
    /\ rooms = <<>> /\ snapState = <<>> /\ created = {}
    /\ main = "serving"
    /\ thread = [t \in Threads |-> Idle]
    /\ rows = <<>> /\ results = <<>>
    /\ started = kStart /\ restarts = 0

Up == main \notin {"stopped", "crashed"}
shutting_down == main \notin {"serving", "stopped", "crashed"}

\* The map f with the entries of g written into it.
Merge(g, f) ==
    [x \in DOMAIN g \cup DOMAIN f |-> IF x \in DOMAIN g THEN g[x] ELSE f[x]]

Put(f, key, value) == Merge([x \in {key} |-> value], f)
Known(m) == m \in DOMAIN rooms
InPhase(m, phases) == Known(m) /\ rooms[m].phase \in phases

-----------------------------------------------------------------------------
(* MySQL, as the writers and the reader use it.                            *)

\* Mutant: an upsert without the snapshot_at_ms comparison.
SaveAlways(table, m, row) == Put(table, m, row)

\* INSERT ... ON DUPLICATE KEY UPDATE, every column under
\* IF(VALUES(snapshot_at_ms) >= snapshot_at_ms, ...).
Save(table, m, row) ==
    IF m \in DOMAIN table /\ row.snapshotAt < table[m].snapshotAt
    THEN table
    ELSE Put(table, m, row)

\* Mutant: REPLACE instead of keeping the first row.
WriteReplaces(table, m, winner) == Put(table, m, winner)

\* INSERT ... ON DUPLICATE KEY UPDATE match_id = match_id: the first stays.
Write(table, m, winner) ==
    IF m \in DOMAIN table THEN table ELSE Put(table, m, winner)

\* ParseFinishReason knows these; any other text makes the row a rejected one.
ParsedReasons == {"none", "hp_zero", "timeout", "aborted"}

-----------------------------------------------------------------------------
(* Requests: one lock section each, at a time the process has seen.        *)

\* What a caller may have read before it got the mutex.  Requests have no order
\* of their own; one thread's own reads go back only if the clock is set back.
TimesSeen == started .. now

ReapExpired(at) == Restrict(rooms, {m \in DOMAIN rooms : ~IsExpired(rooms[m], at)})

SetRoom(m, r) == rooms' = [rooms EXCEPT ![m] = r]

\* A new room, unless draining.  A repeated call for a known match changes
\* nothing; Match draws a new id for every call, so there is no other repeat.
Create(m, at) ==
    /\ Up
    /\ m \notin created
    /\ created' = created \cup {m}
    /\ rooms' = IF shutting_down THEN rooms ELSE Put(rooms, m, NewRoom(at))
    /\ UNCHANGED <<now, snapState, main, thread, disk, process>>

Join(m, i, at) ==
    /\ Up /\ Known(m)
    /\ SetRoom(m, JoinRoom(rooms[m], i, at))
    /\ UNCHANGED <<now, snapState, created, main, thread, disk, process>>

SubmitInput(m, i) ==
    /\ Up /\ Known(m)
    /\ SetRoom(m, SubmitAttack(rooms[m], i))
    /\ UNCHANGED <<now, snapState, created, main, thread, disk, process>>

SetPresence(m, i, online, at) ==
    /\ Up /\ Known(m)
    /\ SetRoom(m, ReportPresence(rooms[m], i, online, at))
    /\ UNCHANGED <<now, snapState, created, main, thread, disk, process>>

\* Mutant: a reaped room leaves its snapshot_state_ behind.
GetStateLeavesState(at) ==
    /\ Up
    /\ rooms' = ReapExpired(at)
    /\ UNCHANGED <<now, snapState, created, main, thread, disk, process>>

\* GetState, GetSnapshotsSince and GetResult only answer; what they change is
\* that expired rooms go.
GetState(at) ==
    /\ Up
    /\ rooms' = ReapExpired(at)
    /\ snapState' = Restrict(snapState, DOMAIN snapState \cap DOMAIN rooms')
    /\ UNCHANGED <<now, created, main, thread, disk, process>>

-----------------------------------------------------------------------------
(* RoomManager::Tick, as run by the ticker and once more by the main       *)
(* thread when it drains.                                                  *)

\* BattleRoom::Tick in one piece: the whole catch-up loop is under the lock.
CatchUp(r, n, at) ==
    LET after[k \in 0..n] ==
          IF k = 0 THEN DropExcess(r, at)
          ELSE IF after[k - 1].phase = "playing"
               THEN AdvanceOneFrame(after[k - 1], at)
               ELSE after[k - 1]
    IN  after[n]

TickRoom(r, at) ==
    CASE r.phase \in {"created", "waiting"} ->
            IF WaitingTimedOut(r, at) THEN Abort(r, at) ELSE r
      [] r.phase = "playing" /\ IsWaitingForReconnect(r) -> TickPaused(r, at)
      [] r.phase = "playing" /\ ~IsWaitingForReconnect(r) ->
            CatchUp(r, FramesDue(r, at), at)
      [] OTHER -> r

ShouldSnapshot(m, phase, at) ==
    \/ m \notin DOMAIN snapState
    \/ phase \in {"finished", "aborted"} /\ snapState[m].phase # phase
    \/ at - snapState[m].at >= kSnapshotIntervalMs

MakeSnapshotRecord(r, at) ==
    [phase |-> r.phase, frame |-> r.frame, winner |-> r.winner,
     reason |-> r.reason, startedAt |-> r.startedAt,
     finishedAt |-> r.finishedAt, snapshotAt |-> at,
     hp |-> r.hp, joined |-> r.connected]

\* Where a thread goes on once some snapshots and results are left to write.
Working(at, snaps, todo) ==
    IF snaps # <<>> THEN [pc |-> "flush", at |-> at, snaps |-> snaps,
                          todo |-> todo]
    ELSE IF todo # {} THEN [pc |-> "pick", at |-> at, todo |-> todo]
    ELSE Idle

MayTick(t) ==
    /\ thread[t].pc = "idle"
    /\ \/ t = "ticker" /\ Up /\ main # "stopping"
       \/ t = "main" /\ main = "lastTick"

\* The lock section of Tick(at): advance every room, note what is to be
\* written, reap.
TickLocked(t, at) ==
    /\ MayTick(t)
    /\ LET ticked == [m \in DOMAIN rooms |-> TickRoom(rooms[m], at)]
           due == {m \in DOMAIN rooms : ShouldSnapshot(m, ticked[m].phase, at)}
           snaps == [m \in due |-> MakeSnapshotRecord(ticked[m], at)]
           todo == {m \in DOMAIN rooms : ShouldRetryPersist(ticked[m], at)}
           noted == [m \in due |-> [at |-> at, phase |-> ticked[m].phase]]
           kept == {m \in DOMAIN rooms : ~IsExpired(ticked[m], at)}
       IN  /\ rooms' = Restrict(ticked, kept)
           /\ snapState' = Restrict(Merge(noted, snapState), kept)
           /\ thread' = [thread EXCEPT ![t] = Working(at, snaps, todo)]
    /\ main' = IF t = "main" THEN "joining" ELSE main
    /\ UNCHANGED <<now, created, disk, process>>

\* FlushSnapshots, one row at a time; a failed row is not tried again.  A call
\* that reports failure may still have been executed.
FlushSnapshot(t) ==
    /\ thread[t].pc = "flush"
    /\ \E m \in DOMAIN thread[t].snaps :
         LET left == Restrict(thread[t].snaps, DOMAIN thread[t].snaps \ {m})
         IN  /\ \/ rows' = Save(rows, m, thread[t].snaps[m])
                \/ UNCHANGED rows
             /\ thread' = [thread EXCEPT ![t] =
                             Working(thread[t].at, left, thread[t].todo)]
    /\ UNCHANGED <<now, rooms, snapState, created, main, results,
                   process>>

\* Under the lock again: is the result still wanted, and what is it?
PickResult(t) ==
    /\ thread[t].pc = "pick"
    /\ \E m \in thread[t].todo :
         LET todo == thread[t].todo \ {m}
         IN  thread' = [thread EXCEPT ![t] =
               IF InPhase(m, {"finishing"})
               THEN [pc |-> "write", at |-> @.at, todo |-> todo, of |-> m,
                     winner |-> rooms[m].winner]
               ELSE Working(@.at, <<>>, todo)]
    /\ UNCHANGED <<now, rooms, snapState, created, main, disk, process>>

\* Without the lock: the INSERT succeeds, fails, or fails after it took effect.
WriteResult(t, ok) ==
    /\ thread[t].pc = "write"
    /\ \/ results' = Write(results, thread[t].of, thread[t].winner)
       \/ ~ok /\ UNCHANGED results
    /\ thread' = [thread EXCEPT ![t] =
                    [pc |-> "mark", at |-> @.at, todo |-> @.todo,
                     of |-> @.of, ok |-> ok]]
    /\ UNCHANGED <<now, rooms, snapState, created, main, rows, process>>

\* Mutant: the outcome of the INSERT is not looked at.
MarkResultRegardless(t) ==
    /\ thread[t].pc = "mark"
    /\ LET m == thread[t].of
       IN  rooms' = IF ~Known(m) THEN rooms
                    ELSE [rooms EXCEPT ![m] = MarkResultPersisted(@)]
    /\ thread' = [thread EXCEPT ![t] = Working(@.at, <<>>, @.todo)]
    /\ UNCHANGED <<now, snapState, created, main, disk, process>>

\* Under the lock: the room, if it is still there, learns how it went.
MarkResult(t) ==
    /\ thread[t].pc = "mark"
    /\ LET m == thread[t].of
       IN  rooms' = IF ~Known(m) THEN rooms
                    ELSE [rooms EXCEPT ![m] =
                            IF thread[t].ok THEN MarkResultPersisted(@)
                            ELSE MarkResultFailed(@, thread[t].at)]
    /\ thread' = [thread EXCEPT ![t] = Working(@.at, <<>>, @.todo)]
    /\ UNCHANGED <<now, snapState, created, main, disk, process>>

-----------------------------------------------------------------------------
(* The main thread after SIGTERM.                                          *)

\* Mutant: a game that has its verdict but no stored result is aborted too.
UnfinishedGamesAndVerdicts ==
    {m \in DOMAIN rooms : rooms[m].phase \notin {"finished", "aborted"}}

UnfinishedGames == {m \in DOMAIN rooms : rooms[m].phase \in Unfinished}

BeginShutdown ==
    /\ main = "serving"
    /\ main' = "draining"
    /\ UNCHANGED <<now, memory, created, disk, process>>

\* Mutant: the drain has no deadline.
AbortUnfinishedGamesNever(at) ==
    /\ main = "draining" /\ UnfinishedGames = {}
    /\ main' = "aborting"
    /\ UNCHANGED <<now, memory, created, disk, process>>

\* Everything ended, or the deadline passed: whatever still runs is aborted
\* (a FINISHING room is not), and its terminal snapshot is flushed.
AbortUnfinishedGames(at) ==
    /\ main = "draining"
    /\ main' = "aborting"
    /\ LET aborted == [m \in UnfinishedGames |-> Abort(rooms[m], at)]
           noted == [m \in UnfinishedGames |-> [at |-> at,
                                                phase |-> "aborted"]]
           snaps == [m \in UnfinishedGames |->
                       MakeSnapshotRecord(aborted[m], at)]
       IN  /\ rooms' = Merge(aborted, rooms)
           /\ snapState' = Merge(noted, snapState)
           /\ thread' = [thread EXCEPT !["main"] = Working(at, snaps, {})]
    /\ UNCHANGED <<now, created, disk, process>>

\* Aborted games are flushed: one more Tick, to write terminal snapshots.
AbortFlushed ==
    /\ main = "aborting" /\ thread["main"].pc = "idle"
    /\ main' = "lastTick"
    /\ UNCHANGED <<now, memory, created, disk, process>>

\* g_ticker_stop: the ticker finishes the Tick it is in and starts no other.
StopTicker ==
    /\ main = "joining" /\ thread["main"].pc = "idle"
    /\ main' = "stopping"
    /\ UNCHANGED <<now, memory, created, disk, process>>

Forget ==
    /\ rooms' = <<>> /\ snapState' = <<>>
    /\ thread' = [t \in Threads |-> Idle]

Exit ==
    /\ main = "stopping" /\ thread["ticker"].pc = "idle"
    /\ main' = "stopped"
    /\ Forget
    /\ UNCHANGED <<now, created, disk, process>>

Crash ==
    /\ Up
    /\ main' = "crashed"
    /\ Forget
    /\ UNCHANGED <<now, created, disk, process>>

LoadUnfinished ==
    {m \in DOMAIN rows : rows[m].phase \notin {"finished", "aborted"}}

\* Start again.  Restore, before any request is served: every unfinished row
\* becomes a room, but for the rows that do not parse, which are rewritten as
\* ABORTED (each write may fail).  If the rows cannot be read, nothing is.
Restart ==
    /\ ~Up /\ restarts < MaxRestarts
    /\ restarts' = restarts + 1 /\ started' = now
    /\ main' = "serving"
    /\ LET found == LoadUnfinished
           good == {m \in found : rows[m].reason \in ParsedReasons}
       IN  \/ UNCHANGED <<rooms, rows>>
           \/ /\ rooms' = [m \in good |-> RestoreFrom(rows[m], now)]
              /\ \E saved \in SUBSET (found \ good) :
                   rows' = Merge([m \in saved |->
                                    [rows[m] EXCEPT !.phase = "aborted",
                                                    !.reason = "aborted",
                                                    !.winner = NoWinner,
                                                    !.snapshotAt = now]], rows)
    /\ UNCHANGED <<now, snapState, created, thread, results>>

ClockAdvances ==
    /\ now < MaxTime
    /\ now' = now + 1
    /\ UNCHANGED <<memory, created, main, disk, process>>

-----------------------------------------------------------------------------
Requests ==
    \/ \E at \in TimesSeen :
         \/ GetState(at)
         \/ \E m \in Match :
              \/ Create(m, at)
              \/ \E i \in Slots : Join(m, i, at)
              \/ \E i \in Leavers, online \in BOOLEAN :
                   SetPresence(m, i, online, at)
    \/ \E m \in Match, i \in Slots : SubmitInput(m, i)

TickStep(t) ==
    \/ \E at \in TimesSeen : TickLocked(t, at)
    \/ FlushSnapshot(t) \/ PickResult(t) \/ MarkResult(t)
    \/ \E ok \in BOOLEAN : WriteResult(t, ok)

Drain ==
    \/ BeginShutdown
    \/ \E at \in TimesSeen : AbortUnfinishedGames(at)
    \/ AbortFlushed \/ StopTicker \/ Exit

Next ==
    \/ Requests
    \/ \E t \in Threads : TickStep(t)
    \/ Drain
    \/ Crash \/ Restart \/ ClockAdvances

Spec == Init /\ [][Next]_vars

\* Both threads keep running and do not tick with old times only; and MySQL
\* accepts in the end an INSERT of the ticker that is tried again and again.
Fairness ==
    /\ \A t \in Threads :
          /\ WF_vars(TickLocked(t, now)) /\ WF_vars(FlushSnapshot(t))
          /\ WF_vars(PickResult(t)) /\ WF_vars(MarkResult(t))
          /\ WF_vars(\E ok \in BOOLEAN : WriteResult(t, ok))
    /\ SF_vars(WriteResult("ticker", TRUE))
    /\ WF_vars(\E at \in TimesSeen : AbortUnfinishedGames(at))
    /\ WF_vars(AbortFlushed)
    /\ WF_vars(StopTicker) /\ WF_vars(Exit)

FairSpec == Spec /\ Fairness

-----------------------------------------------------------------------------
\* Type invariant: a Tick under way belongs to a process that is up, and the
\* tables hold what the writers write.
TypeOK ==
    /\ \A m \in DOMAIN rooms : m \in Match /\ rooms[m] \in RoomType
    /\ DOMAIN snapState \subseteq DOMAIN rooms
    /\ Range(results) \subseteq Slots \cup {NoWinner}
    /\ \A m \in DOMAIN rows : rows[m].phase \in RoomPhase
    /\ ~Up => rooms = <<>> /\ \A t \in Threads : thread[t] = Idle

\* A room says FINISHED only when its match has a row in match_results, also
\* when two threads persist at once, a write fails after it took effect, or
\* the process is restarted in between.
FinishedIsDurable ==
    \A m \in DOMAIN rooms : InPhase(m, {"finished"}) => m \in DOMAIN results

\* Without a restart the stored winner is the one the room reached, and an
\* aborted game has no result: the winner copied under the lock and written
\* after it is never out of date.
StoredIsReached ==
    restarts = 0 =>
        \A m \in DOMAIN rooms :
            /\ InPhase(m, {"finishing", "finished"}) /\ m \in DOMAIN results
                  => results[m] = rooms[m].winner
            /\ InPhase(m, Unfinished \cup {"aborted"}) => m \notin DOMAIN results

\* Snapshots are stored without the lock, by two threads, under times read
\* before the lock.  Even so the stored row never shows an earlier frame than
\* before, nor a game under way once it has shown a verdict.  Only an abort by
\* the drain can be written over with the game under way, and only by a
\* snapshot whose time is not older.
RowsMoveForward ==
    [][\A m \in DOMAIN rows :
          /\ m \in DOMAIN rows'
          /\ rows'[m].frame >= rows[m].frame
          /\ rows[m].phase \in Over /\ rows'[m].phase \in Unfinished
                => /\ rows[m].phase = "aborted" /\ shutting_down
                   /\ rows'[m].snapshotAt >= rows[m].snapshotAt]_vars

\* The retry loop reaches its end: a game with a verdict gets its result
\* stored, unless the process goes down first.
VerdictIsStored ==
    \A m \in Match : InPhase(m, {"finishing"}) ~> m \in DOMAIN results \/ ~Up

\* The drain ends: whatever MySQL answers, and with both threads ticking, the
\* process comes down after SIGTERM.
DrainEnds == main = "draining" ~> ~Up

\* What the outside sees of a room.
Seen(m) ==
    CASE ~Known(m) -> [phase |-> "gone"]
      [] InPhase(m, Unfinished) -> [phase |-> "open"]
      [] InPhase(m, {"aborted"}) -> [phase |-> "abandoned"]
      [] InPhase(m, {"finishing"}) ->
           [phase |-> "decided", winner |-> rooms[m].winner]
      [] InPhase(m, {"finished"}) ->
           [phase |-> "final", winner |-> rooms[m].winner]

Ledger == INSTANCE ResultLedger WITH
    Winner <- Slots \cup {NoWinner},
    game <- [m \in Match |-> Seen(m)],
    stored <- [m \in Match |-> IF m \in DOMAIN results THEN {results[m]} ELSE {}]

\* Refinement: with two ticking threads, writes outside the lock that fail or
\* take effect unnoticed, a drain, crashes and restores, the service keeps the
\* ledger: the verdict of a game in memory does not change, no aborted game
\* gets a result, the row is the verdict held when it is written and is never
\* changed, and FINISHED comes after the row.
KeepsLedger == Ledger!Spec

-----------------------------------------------------------------------------
(* What the comments of the code say and the code does not keep.           *)

\* room_manager.hpp, Restore: a FINISHING room is put back and its result
\* written at once.  So no stored verdict is turned into an abort.
StoredVerdictSurvives ==
    [][\A m \in DOMAIN rows :
          rows[m].phase = "finishing" => rows'[m].phase # "aborted"]_vars

=============================================================================

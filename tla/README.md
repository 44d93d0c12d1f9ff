# A TLA+ verification of realtime-game-backend

The repository is the backend of a two-player real-time game: three C++
processes (Gateway, Match, Room) that talk brpc to each other, MySQL and Redis
behind them, and browsers in front. This directory holds TLA+ models of the
parts that carry state, the TLC configurations that check them, and proofs that
TLAPS checks. Paths below are relative to the repository.

## 1. Inventory

| Part | State | Operations | Talks to |
|---|---|---|---|
| `BattleRoom` (`src/room/battle_room.cpp`) | phase, frame, hit points, presence, pending attacks, time base, ring of snapshots | Join, SubmitInput, SetPresence, Tick, Abort, MarkResult*, SnapshotsAfter | called under `RoomManager`'s mutex |
| `RoomManager` (`src/room/room_manager.cpp`, `room_main.cpp`, the MySQL readers and writers) | rooms, index by match, when each snapshot was taken, `shutting_down_` | Create, Join, ..., GetResult, Tick, Restore, drain | MySQL tables `rooms`, `match_results` |
| `MatchQueue` (`src/match/match_queue.cpp`, `match_service.cpp`, `match_main.cpp`) | entries by player, FIFO queue, groups under allocation, dirty flag | Enqueue, Cancel, GetStatus, pairing, snapshot, Restore, drain | Room (`CreateRoom`), Redis list |
| `StreamHub` (`src/gateway/stream_hub.cpp`, `StreamEvents` in `gateway_service.cpp`, `gateway_main.cpp`) | subscriptions, last state pushed per room | Subscribe, Tick (four phases), presence reports, drain | Room (`GetRoomState`, `GetRoomSnapshotsSince`, `SetPresence`), SSE connections |
| Gateway's other handlers (`src/gateway/gateway_service.cpp`, `database_player_directory.cpp`, the brpc clients) | `shutting_down_` | Login, Logout, GetCurrentPlayer, the match and room calls | session store, MySQL, Match, Room |
| `RedisSessionStore` (`src/gateway/redis_session_store.cpp`) | in Redis: a hash per session, a mapping per login request; one connection and its mutex | CreateSession, GetSession, DeleteSession | Redis |
| `MysqlConnection` (`src/common/mysql_connection.cpp`) | one connection and its mutex | Query, Ping, connect on demand, one repetition | MySQL; used by Room's readers and writers and by the player directory |
| Common | metrics, logs, tokens | | |

A player logs in, enqueues at Match, is paired, Match creates a room at Room,
the players join it and subscribe at the Gateway, whose push thread polls Room
and writes state to their streams; whether a stream is open is reported back to
Room, which pauses the game for a grace period when somebody is away. Results
go to `match_results`; unfinished rooms are snapshotted and restored.

**What is hard here.** Every service holds one mutex and gives it up around
each remote call, so state is read, used without the lock, and committed later
(allocation at Match, result and snapshot writes at Room, the whole of Tick at
the hub). Room's Tick runs in two threads during the drain. Remote calls may
fail after they took effect, and a Redis command that timed out may take effect
while the next connection is already in use. Callers read the clock before
they wait for the mutex, so a lock section may work with an older time than the
one before it. Threads share one connection to
Redis and one to MySQL. Processes crash and restore from old snapshots.
Time is a wall clock. `PROJECT.json` lists each hazard at its line.

**What makes the parts correct.** *Room*: verdicts follow the rules, the game
never outruns the clock, stands still while somebody is away, a backfill has no
gap, an end is final. *Manager*: FINISHED means stored; a stored result and a
stored snapshot do not go back (but for an abort by the drain); every verdict
is stored in the end; the drain ends. *Match*: a player is in one place,
matches are whole and kept, cancels are honoured, a quiet process whose saves
were answered loses nobody by a crash. *Sessions*: a session belongs to the
player who logged in, there is one per login, it expires, it ends with the
logout, and a failing Redis is not taken for a session that is gone. *MySQL*: a
statement yields the rows of one execution and is repeated only after a lost
connection. *Hub*: every stream removed is reported once, a resumed stream has
no silent gap, dead peers are dropped (unless Room keeps their backfill
waiting), presence at Room is what the streams are, the drain ends.

## 2. Modules

* **BattleRoomOps** - the methods of `BattleRoom` as operators on a record (the
  object's members), and the predicates a room must satisfy. Hit points, frames
  and time are numbers; player ids are slots 1 and 2; room ids, request ids and
  logging are left out.
* **BattleRoom** - one room under arbitrary requests, ticks and a clock that may
  be set back. The catch-up loop of Tick is a step per frame; the mutex is held
  meanwhile (`due > 0`), so nothing else happens. `ElapsedFrames`, `FramesDue`
  and `DropExcess` are the arithmetic of `Tick`, `JudgeFrame` the tests at the
  end of `AdvanceOneFrame` in their order.
* **BattleRoomLemmas**, **BattleRoomProofs**, **MysqlConnectionProofs**,
  **GatewayLemmas**, **GatewayProofs**, **RoomManagerProofs**,
  **StreamHubProofs**, **MatchQueueProofs** - the theorems, see section 5.
* **RoomManager** - rooms (the same operators), the two tables, the ticker and
  the main thread. `RoomManager::Tick` is cut at its unlocks: `TickLocked`
  (advance, collect snapshots, reap), `FlushSnapshot` (one upsert, which may
  fail), `PickResult`, `WriteResult` (an INSERT that may fail before or after
  taking effect), `MarkResult`. `Crash` forgets memory, `Restart` is `Restore`
  with `RejectSnapshots`. Ticks, requests and the drain read the clock before
  they wait for the mutex: a lock section works with any time `at` the process
  has seen (`TimesSeen`), not with `now`, so times can come in any order. A
  match id is asked for once: Match draws a new one for each call and its
  channel has `max_retry = 0`; GetState, GetResult and GetSnapshotsSince change
  nothing but that expired rooms are reaped, and are one action.
* **ResultLedger** - what Room promises about results: open, decided, entered
  into the ledger once, final only when entered. `RoomManager` implements it
  (`KeepsLedger`): a room in WAITING or PLAYING is an open game, FINISHING a
  decided one, FINISHED a final one, ABORTED an abandoned one, the table
  `match_results` is the ledger. The promise is about the ledger: a game that is
  restored from an old snapshot may be played to another verdict, but the entry
  stays the first one.
* **MatchQueue** (TLC instance **MCMatchQueue**, which adds symmetry) - a
  request is a series of lock sections, `call[r]` says where thread r is; Room
  is called between `Pair` and `Commit`. `Pair` merges `RunPairingRound`'s look
  at the worker's queue with the section that takes groups: the worker's queue
  is always empty (`WorkerIsIdle`), so the looks cannot differ. A call to Room
  may fail with or without having created the room. `dirty`, the merge window
  and the write of the snapshot outside the lock are steps of their own. A save
  (`Send`) is answered, or gets no answer; then Redis has not executed it, has
  executed it, or will do so later (`late`, `LateSave`), perhaps after a newer
  save or a restart. `unsaved` records that the last save or load failed or
  that a late save came after it. `Arranged` is the sort of `Restore` (stable,
  by queued_at), and with a constant key the removal of players from a queue
  (`Filtered`).
* **Matchmaker** - what Match promises to players: out, waiting or in a match,
  whole groups only, from waiting only, and only matches that have a room.
  `MatchQueue` implements it (`Matchmaking`); queued and allocating players are
  waiting, and so honouring a cancel is part of the promise.
* **SessionStore** - `RedisSessionStore` as sequences of Redis commands. `Send`
  is a command and its execution by Redis, `Receive` reads the oldest reply on
  the connection, whoever it was for; that it is the right one is a consequence
  of `mutex_` and of dropping the connection after a failure, and is checked.
  `NoReply` is a command without an answer: not executed, executed, or to be
  executed later (`late`). `Expiry` is Redis's.
* **Gateway** (TLC instance **MCGateway**, which adds symmetry) - the handlers
  over that store. Each goes through shutdown check, validation, session,
  backend call and HTTP status; `Read` and `Write` are the two patterns and the
  handlers instances of them. Backends are their error codes; what a
  call does there is the subject of the other modules.
* **MysqlConnection** - `Query` and `Ping`, lock, parameter check, connect on
  demand, prepare, execute, fetch row by row, and the single repetition. A row
  is the number of the attempt it comes from, which is what its property tells
  apart.
* **Statement** - what the users of a connection may rely on: success means
  executed, failure means anything, at most two executions and the second only
  after a loss. `MysqlConnection` implements it (`KeepsContract`). RoomManager's
  `WriteResult`, which may fail after it took effect, is written to this
  contract.
* **StreamHub** (TLC instance **MCStreamHub**, which names the bounds on
  headers and frames) - one room, its connections, the push thread, the
  subscribing handlers, the main thread. Tick is cut into phase one
  (`TickCollect`), one call to Room or one write of the backfill at a time,
  `TickRoom`, `TickCommit` (ready and heartbeat writes, then the locked commit)
  and the offline reports. A peer that leaves makes later writes fail; nothing
  tells the hub. Room is reduced to what the hub sees: frames, an end, the
  ring, presence. `Unsubscribe` has no caller outside tests and is left out.

Definitions whose comment begins "Mutant" are deliberately broken variants of
the definition that follows; they are used only to see that the properties can
fail.

## 3. Runs

| Run | Checks | Bounds |
|---|---|---|
| `BattleRoom.cfg` | TypeOK, VerdictIsFair, OneHitPerFrame, NeverAheadOfClock, BackfillIsComplete, PauseFreezesGame, OverIsFinal | 3 frames, catch-up 2, ring 2, overkill damage (3-2-2), interval 2, one clock set-back; 857,060 states |
| `RoomManager.cfg` | TypeOK, FinishedIsDurable, StoredIsReached, RowsMoveForward; refinement KeepsLedger | one match, two ticking threads, one restart, one player whose presence is reported, times 1 and 2 in any order; 790,849 states |
| `RoomManagerLive.cfg` | VerdictIsStored, DrainEnds | the same without restart; 227,213 states |
| `MatchQueue.cfg` | TypeOK, OnePlacePerPlayer, WorkerIsIdle, MatchIsKept; refinement Matchmaking | 3 players, 2 request threads, queue of 2, 2 matches; 235,422 states |
| `MatchQueueRestart.cfg` | SnapshotIsCurrent; refinement Matchmaking | 2 players (symmetric), 1 thread, Redis, one save that may come late, crash or drain, one restart; 1,065,627 states |
| `StreamHub.cfg` | TypeOK, OneFarewell, ResumesWhereItLeft, DeadStreamIsDropped, DrainEnds | one connection with any header in a room of 2 frames, or two without a header in a room that plays none; ring 2, calls that fail; 558,882 states |
| `Gateway.cfg` | TypeOK, OneSessionPerRequest, ActsForItsPlayer, GivenSessionsExpire, LoggedOutStaysOut, UnauthenticatedMeansGone, NoStraySession, ConnectionIsHandedOver | 2 players, 2 threads, 3 requests, 2 faults; 421,822 states |
| `MysqlConnection.cfg` | TypeOK, RowsAreOneResult, OldOutageIsHealed, CallsReturn; refinement KeepsContract | 2 threads, results of 2 rows, 4 outages; 11,275 states |

What the newer properties say beyond a unit test: `OneSessionPerRequest` and
`LoggedOutStaysOut` hold although commands of an abandoned connection take
effect at any later time, because SET has NX and because a token is confirmed
only after its HSET and EXPIRE were answered. `NoStraySession` names what may
remain: sessions of logins that gave up. `SnapshotIsCurrent` says that when no
request and no save is under way, `dirty` is clear and the last save was
answered, a restart would bring back exactly the players who still wait and the
matches still shown, whatever became of the saves before it; only an old save
that Redis executes after it can undo that, and is excepted until the next one.
`RowsMoveForward` says that the row of a match never shows an earlier frame, nor
a game under way after a verdict, although snapshots are written by two threads
under times that need not follow the order of the lock sections; it excepts
exactly the abort of the drain, which the code does let be overwritten (below).
`DeadStreamIsDropped` says of every stream whose peer is gone that it is
dropped, or that a call to Room failed and put its backfill off, as long as the
push thread runs.
`OldOutageIsHealed` says that the one repetition is enough: whatever dead
connection earlier calls left, a call that begins when the server is up fails
only if there is a new outage.

Why these are enough: one match suffices for the manager because rooms share
only the mutex and the tables are keyed by match; two threads are all that
tick. Three players are the fewest with one left over when a group of two
fails. Three requests are a login, its repetition in another thread and a
logout or a use of its token; two faults are a command that comes late and a
second failure or a crash. The two TTLs are equal, as in production (seven
days), so that a mapping outlives its session. Four outages let both attempts
of two calls fail. One connection of the hub already meets the race of Tick
with the drain, and its headers and frames are bounded for that case (`Since`
and `MaxFrame` are given for each number of connections); with two, one may be
dead while the other lives on, in the same Tick, during the drain and after it.
The safety properties of the hub are proved for any number. One late save is
enough, as it replaces whatever is stored. `RoomManager` has two times because
only their order matters to a comparison; the two kinds of absence are
symmetric, so one player suffices.

Deadlock checking is off where the process may be down for good.

**Violations.** Four runs state what a comment, a test or a document says and
the code does not do; `PROJECT.json` quotes each.

* `RoomManagerRestore.cfg`, `StoredVerdictSurvives`: `ParseFinishReason` does
  not know `disconnect`, so a FINISHING game decided by absence is rewritten as
  ABORTED by a restart.
* `MatchQueueStranded.cfg`, `NobodyIsStranded`: a cancel during allocation puts
  the partner back without setting `retry_pairing_`.
* `StreamHubPresence.cfg`, `PresenceIsTrue`: presence is reported per player,
  so the late death of an old stream marks a reconnected player offline.
* `GatewayEmptyId.cfg`, `EmptyIdIsOneShot`: a login without `request_id` is not
  a one-off: all of them share one idempotency mapping, and the second player
  gets the first one's token.

Two more properties of `StreamHub` do not hold. To see it, put them into a copy
of `StreamHub.cfg` in place of the ones there:

* `DeadPeerIsDropped` (PROPERTY; `DeadStreamIsDropped` without its exceptions):
  a subscription whose backfill stays pending has its heartbeat clock reset in
  every tick and never gets one.
* `ResetHappensOnce` (INVARIANT): three of the four resets do not complete the
  backfill, so the stream is reset again in every tick and never gets to live
  events.

Also worth a reader's time, without a run of their own: the allocation worker
never gets a group (the passing `WorkerIsIdle`); the last flush of Match comes
before `server.Stop`, so what a request still under way changes is not saved; an
EXPIRE that fails leaves a session key without TTL; `GetCurrentPlayer` says 404
while MySQL is down; `Restore` does not set `retry_pairing_`, so restored
players wait for a newcomer; a login repeated after its logout gets the dead
token; a room that leaves FINISHING at the drain's timeout may
have no FINISHING snapshot, against the comment at `room_main.cpp:207`; after a
crash before the terminal snapshot `GetResult` may say "not found" of a result
it has returned (`room_manager.cpp:283`); `last_pushed_state_` is per room, so
a backfill can hide a state from the other streams. Further:

* The drain reads the clock before it waits for the mutex
  (`room_main.cpp:225`), as the ticker does (line 172). The ticker may have
  collected PLAYING with a later time before the abort; stored last, it passes
  the test `>=` and replaces ABORTED (or ABORTED, stored last, is dropped). The
  last Tick writes nothing more, and after a restart the aborted game goes on.
  To see it, put `rows'[m].snapshotAt = rows[m].snapshotAt` in the place of the
  last two lines of `RowsMoveForward`.
* A save of the match queue that timed out may be executed by Redis after a
  newer one; `dirty` is clear and nothing writes the newer one again until the
  queue changes. Nothing in the code notices it.
* Two players whose rooms cannot be created may wait for ever: each poll of one
  takes both into its hand (`match_queue.cpp:633-642`), a group in a hand is
  exempt from the sweep, and puts them back when the call failed. With two
  threads that poll, every sweep may find them in a hand, although their time is
  long over. No property here claims the contrary.
* A stream subscribed after `CloseAll` (`stream_hub.cpp:268`) is served by
  nobody: if its peer dies, nothing notices while another such stream holds
  `server.Join`.

## 4. Fairness

* RoomManager: both threads keep running (weak fairness of their steps), and
  MySQL accepts in the end an INSERT tried again and again (strong fairness of
  the successful write): without it no code can store anything. The ticker is
  not held up for ever between reading the clock and getting the mutex: it
  ticks again and again with a current time. `DrainEnds`
  does not need it. The retry interval is 0 there because the model's clock
  stops at its bound; requests, crashes and the clock get no fairness.
* MatchQueue: none; its properties are about safety.
* MysqlConnection: threads run, the services keep asking (Room saves snapshots
  all the time), the server is brought back (weak fairness), and a mutex lets a
  waiting thread in in the end (strong fairness of `Lock`). Outages are bounded.
* Gateway: none; its properties are about safety.
* StreamHub: the push thread, the handlers and the drain keep running; nothing
  is assumed of peers, of the room or of calls to it. `DrainEnds` excuses a
  stream subscribed after `CloseAll` by a handler that had passed the check of
  `draining_`, because `server.Join` waits for open streams.

## 5. Proofs

The theorems hold for **all** values of the constants that satisfy the ASSUMEs
of the modules: any number of threads, players, matches, connections, frames,
requests, faults and restarts. Each module has one inductive invariant, `Inv`,
checked with TLC before it was proved; `InitInv` and `StepInv` (`StepKinds` in
MatchQueueProofs) show that it holds, with a lemma per action, and the theorems
follow from it. The assumptions
on constants are that sizes and intervals are positive, that start times are not
below the retry interval, and that "none" values are no values. One says more:
a finished room is retained for a positive time (`kFinishedRetentionMs`, five
minutes in `room_types.hpp`). With 0 the tick that aborts a waiting room could
reap it in the same lock section, and the ledger's step from open to abandoned
would be missed.

**BattleRoom** (`BattleRoomProofs`): `TypeCorrect`, `Verdicts`, `Damage`,
`Pace`, `Backfill`, and the action properties `Pause` and `Final`: all of its
run. None is inductive alone: `BackfillIsComplete` needs that the ring's frames
are ordered, without a gap, and end at the current frame; `NeverAheadOfClock`
needs that every frame played is paid for by time up to `lastTick`, and that
the frames the loop has still to play are paid for by time up to `now`
(`ClockInv`); `VerdictIsFair` needs that inside the loop the game is running
and nobody is away (`LoopInv`). The part about the room alone, `RoomOK`, is
kept by every method: `BattleRoomLemmas` has a lemma per operator (`JoinOK`,
`PresenceOK`, `FrameOK`, ...), on top of `PushRing`, which shows that pushing a
snapshot keeps the ring gapless even when it evicts. RoomManagerProofs uses the
same lemmas.

**MysqlConnection** (`MysqlConnectionProofs`): `TypeCorrect`, `OneResult`,
`Healing` and `Refinement`: all of its run but liveness. A thread is between
lock and unlock if and only if it holds the mutex, so a step of another thread
cannot touch the call under way. `CallInv` says how far a call has got, in
terms of its attempt, its executions and its rows; `CalmInv` that the second
attempt of a call that met no new outage has an open connection to a server
that is up. `StepContract` maps each action to a step of Statement or a
stutter.

**Gateway** (`GatewayLemmas`, `GatewayProofs`): `TypeCorrect`, `Handover`,
`Expiring`, `LoggedOut`, `Unauthenticated`, `RightPlayer`, `OneSession` and
`NoStray`: all of its run. The difficulty is that a command of a dropped
connection may be executed at any later time. The invariant therefore describes
the fate of a token. It is `Pending` while its HSET may still be executed, by a
running call or late; only a token that is not pending and whose session, if
there is one, has its TTL (`Ready`) is ever put into a SET NX, given out or
confirmed as ended. It follows that no late HSET can revive a session
(`EndedInv`). A request id `Holds` the token it was answered with for as long
as that session lives, so a second login gets the same one. `LockInv` says that
a reply on the connection is the one its holder waits for, `ReplyOK` that the
reply fits the command; no action checks either. Two hypotheses appear in
theorems, not in ASSUMEs. `RightPlayer` assumes that logins carry a request id:
without one the code does give one player's token to another, which
`GatewayEmptyId.cfg` shows. `OneSession` and `NoStray` assume `LongMapping`,
that the mapping of a request id does not expire before the session; production
keeps both for seven days. The other theorems hold with and without either.

**RoomManager** (`RoomManagerProofs`): `TypeCorrect`, `Durable`, `Reached`,
`SoundRooms` (every room of the registry, restored ones included, satisfies
`RoomOK`), `Forward` and `Refinement`: all of `RoomManager.cfg`. What a thread
took out of a lock section and uses after it must still be good: `WorkInv` says
that a winner about to be written is that of a room still FINISHING, or that
the result is stored already (`Writable`), so `MarkResult` never marks a room
without a row. For the snapshots, `VersionInv` takes all versions of a match
together, the stored row and those in the hands of either thread. Since the
time of a lock section is not ordered with that of others, `snapshot_at_ms`
says nothing about which of two versions is newer. What does hold is that a
version on its way shows the frame of its room as it is, and its phase but for
an abort by the drain (`Abreast`): only the ticker plays frames, it plays none
while it still has snapshots to write, and the main thread works for itself
only when every game is over (`EndInv`). Hence it may be stored in the place of
every other version (`Follows`), whichever thread comes first. What a lock
section does to the registry is one relation, `Progress`, with `Turns` for each
room; requests and ticks are shown to satisfy it once, and the invariant and
the refinement use only that. The refinement looks at one match at a time: what
is seen of it (`View`) moves by at most one step of the ledger.

**StreamHub** (`StreamHubProofs`): `TypeCorrect`, `ToldOnce` and `Resumes`: all
of its run but liveness. `FarewellInv` says of every connection that its offline
report is not due, or owed by exactly one of push thread and main thread, or
made; the race is that both threads remove subscriptions and report without the
lock. For `Resumes`, Room's ring misses no frame and ends at the present
(`RoomInv`), from which `FirstFrame` concludes that the answer of
`GetRoomSnapshotsSince` starts with the frame after the one asked for (`Ranked`
says what taking the k-th smallest index means); a resuming connection to which
nothing was sent has its backfill pending (`SubsInv`) and is not among those a
Tick serves live (`TickInv`), although Tick works with an old copy of the table.

**MatchQueue** (`MatchQueueProofs`): `TypeCorrect`, `OnePlace`, `WorkerIdle`,
`KeptMatches`, `Current` and `Refinement`: all of its two runs. The
invariant has these parts.

* `QueueInv` and `HandInv`: the queue has exactly the queued players that are
  not being allocated, once each; the groups a request thread carries between
  `Pair` and `Commit` (`Hand`) have the players whose entry says "allocating"
  with that match id, and no match id is in two hands. `GroupOK` adds that Room
  can have a room for a group only after its thread asked for it, so that a
  room, once there, is never that of another group. `OnePlace` follows; it
  needs that `Commit` finds its players as `Pair` left them, although the lock
  was given up and Cancel, sweeps and other pairings came in between.
* `EntryInv`: of a match all players have the result, with one time stamp and
  with the room that Room has (`MatchOK`). Nothing in the code says so: it
  holds because results are written together and expire by the same stamp.
* `SnapshotInv`: in a snapshot, stored, on its way or late, nobody is named
  twice, and its matches have their rooms (`SnapshotOK`), whenever it was
  taken. It follows that the branches of `Restore` that drop duplicates
  (`match_queue.cpp:75-125`) are never taken for a snapshot the service has
  written (`RestoredOK`).
* `CurrentInv`: if `dirty` is clear and no thread has an unmarked change
  (`Unmarked`: one it has made, or a group in its hand), the latest snapshot,
  on its way or saved, has what is worth restoring (`Reflects`). Lines whose
  time is up are left out on both sides, because the clock and the sweep take
  them away without marking anything until a request comes.

What a step does to the matches is one of three relations: a sweep with Enqueue,
Cancel or GetStatus (`Turns`, at the time of its request: matches go as a whole
when their time is over, nobody gets one), a step that leaves them alone
(`KeepsMatches`), a commit that makes one (`MakesMatch`). `StepKinds` shows that
every step is one of these, the end of the process, or a restart; `KeptMatches`
and `Refinement` use only that. `KeptMatches` has to allow for a request that
waited: it sweeps with the time it captured when it started, which is not later
than `now` (`CallOK`). In the refinement a sweep is a step in which several
players move, and `MatchOK` is why each match stays or ends with all of its
players. The only lemmas about data are that ranks among finitely many indices
are a permutation (`Ranks`), hence that `Arranged` loses and repeats nobody.

**Only model-checked.** `VerdictIsStored`, `DrainEnds`,
`DeadStreamIsDropped` and `CallsReturn`, because liveness under fairness is out
of the prover's reach, as are induction over data and recursive operators (none
is used). Every safety property and every refinement of a passing run is proved.

## 6. Not modelled

Password hashing and token generation (no state; random tokens are taken not to
collide). The call counters of the brpc clients, metrics and logs. The format of
the match snapshot in Redis (text per entry, no state). PING and the health
probes. MySQL statements that the server executes after the client gave up on
them, a Redis that answers with an error or loses its data: the code has no
handling of its own for them. The composition of Gateway with Match and Room
over failed calls: each module takes arbitrary, hence also repeated, requests.
Web client, bench and chaos scripts. The unsynchronised use of
`ProgressiveAttachmentSink::attachment_` by the push thread and the drain is
taken as atomic.

## 7. Plan

1. *(done)* BattleRoom with proofs, RoomManager, MatchQueue, StreamHub.
2. *(done)* SessionStore with Gateway's handlers, MysqlConnection; the abstract
   specifications ResultLedger, Matchmaker and Statement and the refinements.
3. *(done)* Proofs for MysqlConnection, Gateway with SessionStore, RoomManager,
   StreamHub and MatchQueue with its refinement of Matchmaker.
4. A composition of hub and room for presence and pause; what a client may
   conclude from GetResult across a crash.

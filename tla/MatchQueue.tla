----------------------------- MODULE MatchQueue -----------------------------
(***************************************************************************)
(* The Match service: queue, pairing, room allocation and the queue's      *)
(* snapshot in Redis (src/match/match_queue.cpp), driven by request        *)
(* threads (match_service.cpp) and the main thread (match_main.cpp).       *)
(*                                                                         *)
(* One mutex guards the queue.  A request is a series of lock sections     *)
(* with the call to Room between two of them; each is an action here, and  *)
(* call[r] says where request thread r is.  Every request captures now_ms  *)
(* when it starts and uses that value to its end.  The handlers of         *)
(* EnqueueMatch and CancelMatch go on to call GetStatus for their answer;  *)
(* polls counts the calls a request still has to make.                     *)
(*                                                                         *)
(* Room ids are determined by match ids (CreateRoom is idempotent on them) *)
(* and request ids only label log lines.                                   *)
(***************************************************************************)
EXTENDS Integers, Sequences, FiniteSets, Functions

CONSTANTS
    Player, Thread,
    match_timeout_ms, result_ttl_ms, max_queue_size,
    max_pending_allocations,
    HasStore,              \* store_ # nullptr: the queue is kept in Redis
    kStart, MaxTime,       \* bounds of the clock
    MaxMatches,            \* bound: match ids; then the factory returns ""
    MaxRestarts,           \* bound: how often the process is started again
    MaxSignals,            \* bound: lives of the process SIGTERM may arrive in
    MaxLate                \* bound: saves without an answer still on their way

ASSUME MatchAssumption ==
    /\ match_timeout_ms \in Nat \ {0} /\ result_ttl_ms \in Nat \ {0}
    /\ max_queue_size \in Nat \ {0} /\ max_pending_allocations \in Nat \ {0}
    /\ HasStore \in BOOLEAN
    /\ kStart \in Nat \ {0} /\ MaxTime \in Nat
    /\ MaxMatches \in Nat /\ MaxRestarts \in Nat /\ MaxSignals \in Nat
    /\ MaxLate \in Nat

kPlayersPerMatch == 2
NoRoom == 0

VARIABLES
    now,
    entries,            \* entries_: player -> entry, for the players known
    queue,              \* queue_
    retry_pairing,
    allocation_queue,   \* groups handed to the allocation worker
    dirty,              \* snapshot_dirty_
    matches,            \* match ids drawn so far
    call,               \* request thread -> the request it is serving
    main,               \* where the main thread is
    flush,              \* snapshots the main thread has taken, not yet saved
    stored,             \* the snapshot in Redis
    late,               \* snapshots Redis has received and may yet store
    created,            \* Room's side: match -> players of its room
    unsaved,            \* the last save or load failed, or a late save came
    restarts

memory == <<entries, queue, retry_pairing, allocation_queue, dirty>>
room == <<matches, created>>
vars == <<now, memory, room, call, main, flush, stored, late, unsaved,
          restarts>>

Idle == [pc |-> "idle"]
Empty == [queued |-> <<>>, matched |-> {}]

Init ==
    /\ now = kStart
    /\ entries = <<>> /\ queue = <<>>
    /\ retry_pairing = FALSE /\ allocation_queue = <<>> /\ dirty = FALSE
    /\ matches = 0 /\ created = <<>>
    /\ call = [r \in Thread |-> Idle]
    /\ main = "serving" /\ flush = {} /\ stored = Empty /\ late = {}
    /\ unsaved = FALSE /\ restarts = 0

Up == main # "down"
Goto(r, c) == call' = [call EXCEPT ![r] = c]

-----------------------------------------------------------------------------
(* The queue, under the lock.                                              *)

\* Mutant: the state keeps its default, kIdle.
NewEntryIdle(at) ==
    [state |-> "idle", queuedAt |-> at, stamp |-> at,
     match |-> NoRoom, room |-> NoRoom, group |-> <<>>,
     allocating |-> FALSE, cancelRequested |-> FALSE]

NewEntry(at) ==
    [state |-> "queued", queuedAt |-> at, stamp |-> at,
     match |-> NoRoom, room |-> NoRoom, group |-> <<>>,
     allocating |-> FALSE, cancelRequested |-> FALSE]

With(es, changes) ==
    [p \in DOMAIN es \cup DOMAIN changes |->
        IF p \in DOMAIN changes THEN changes[p] ELSE es[p]]

Without(es, gone) == [p \in DOMAIN es \ gone |-> es[p]]

\* The members of s with their index in which, stably sorted by key.
Upto(which, key, i) ==
    {j \in which : key[j] < key[i] \/ (key[j] = key[i] /\ j <= i)}

Arranged(s, which, key) ==
    [k \in 1..Cardinality(which) |->
        s[CHOOSE i \in which : Cardinality(Upto(which, key, i)) = k]]

\* The members of s that are in S, in their order.
Filtered(s, S) ==
    Arranged(s, {i \in DOMAIN s : s[i] \in S}, [i \in DOMAIN s |-> 0])

\* SweepLocked: who has waited too long gets "timeout" and leaves the queue,
\* and results that were kept long enough are dropped.
TimedOut(at) ==
    {p \in Range(queue) : at - entries[p].queuedAt >= match_timeout_ms}

SweptEntries(at) ==
    LET marked == [p \in DOMAIN entries |->
                     IF p \in TimedOut(at)
                     THEN [entries[p] EXCEPT !.state = "timeout", !.stamp = at]
                     ELSE entries[p]]
    IN  Without(marked, {p \in DOMAIN marked :
                           /\ marked[p].state \in {"matched", "timeout"}
                           /\ at - marked[p].stamp >= result_ttl_ms})

SweptQueue(at) == Filtered(queue, Range(queue) \ TimedOut(at))

SweepChanges(at) == SweptEntries(at) # entries

\* A change matters to the rest of a request only if there is a store.
Noted(changed) == changed /\ HasStore

-----------------------------------------------------------------------------
(* Enqueue: refused while draining; the look at shutting_down_ is a lock   *)
(* section of its own.                                                     *)

Enqueue(r, p) ==
    /\ Up /\ call[r] = Idle
    /\ main = "serving"
    /\ Goto(r, [pc |-> "insert", player |-> p, at |-> now])
    /\ UNCHANGED <<now, memory, room, main, flush, stored, late, unsaved,
                   restarts>>

\* Mutant: a result not yet fetched is overwritten.
InsertsOverResult(p, es, q) ==
    /\ p \in DOMAIN es => es[p].state # "queued"
    /\ Len(q) < max_queue_size

\* A player who is queued, allocating or matched stays as he is.
Inserts(p, es, q) ==
    /\ p \in DOMAIN es => es[p].state = "timeout"
    /\ Len(q) < max_queue_size

Insert(r) ==
    /\ call[r].pc = "insert"
    /\ LET p == call[r].player
           at == call[r].at
           es == SweptEntries(at)
           q == SweptQueue(at)
           new == Inserts(p, es, q)
           known == p \in DOMAIN es /\ es[p].state # "timeout"
       IN  /\ entries' = IF new THEN With(es, [x \in {p} |-> NewEntry(at)])
                         ELSE es
           /\ queue' = IF new THEN Append(q, p) ELSE q
           /\ Goto(r, [pc |-> "pair", at |-> at,
                       changed |-> Noted(new \/ SweepChanges(at)),
                       polls |-> IF new THEN 2 ELSE IF known THEN 1 ELSE 0])
    /\ UNCHANGED <<now, retry_pairing, allocation_queue, dirty, room, main,
                   flush, stored, late, unsaved, restarts>>

-----------------------------------------------------------------------------
(* RunPairingRound.                                                        *)

\* A call of GetStatus is next, or the request is done.
Polling(at, polls) ==
    IF polls = 0 THEN Idle ELSE [pc |-> "status", at |-> at, polls |-> polls]

\* The end of a call: with a store, a change is marked in a lock section of
\* its own.
Closing(changed, at, polls) ==
    IF Noted(changed) THEN [pc |-> "dirty", at |-> at, polls |-> polls]
    ELSE Polling(at, polls)

\* Pairs are taken from the front as long as a match id can be drawn.
Pairs ==
    LET n == Len(queue) \div kPlayersPerMatch
    IN  IF n <= MaxMatches - matches THEN n ELSE MaxMatches - matches

TakePairGroups ==
    [k \in 1..Pairs |-> [match |-> matches + k,
                         players |-> SubSeq(queue, 2 * k - 1, 2 * k)]]

Allocating(groups) ==
    [p \in UNION {Range(groups[k].players) : k \in DOMAIN groups} |->
        LET g == CHOOSE g \in Range(groups) : p \in Range(g.players)
        IN  [entries[p] EXCEPT !.allocating = TRUE, !.match = g.match,
                               !.group = g.players]]

\* Mutant: the worker counts as busy because it runs.
worker_running == TRUE

worker_busy == allocation_queue # <<>>

\* Nobody is taken while the worker's queue is full.  The groups go to the
\* worker if it is busy; otherwise this thread allocates their rooms itself.
Pair(r) ==
    /\ call[r].pc = "pair"
    /\ LET full == Len(allocation_queue) >= max_pending_allocations
           groups == IF full THEN <<>> ELSE TakePairGroups
       IN  /\ entries' = With(entries, Allocating(groups))
           /\ queue' = SubSeq(queue, 2 * Len(groups) + 1, Len(queue))
           /\ matches' = matches + Len(groups)
           /\ allocation_queue' = IF worker_busy
                                  THEN allocation_queue \o groups
                                  ELSE allocation_queue
           /\ Goto(r, IF groups = <<>>
                      THEN Closing(call[r].changed, call[r].at, call[r].polls)
                      ELSE IF worker_busy
                      THEN Closing(TRUE, call[r].at, call[r].polls)
                      ELSE [pc |-> "allocate", at |-> call[r].at,
                            groups |-> groups, polls |-> call[r].polls])
    /\ UNCHANGED <<now, retry_pairing, dirty, created, main, flush, stored,
                   late, unsaved, restarts>>

\* BrpcRoomAllocator: what Room has and what Match is told after one CreateRoom
\* call.  A call that fails here (timeout, lost reply) may have created the room
\* all the same; it is not repeated (max_retry = 0).
CreateRoomOutcomes(g) ==
    LET made == [m \in DOMAIN created \cup {g.match} |->
                   IF m = g.match THEN g.players ELSE created[m]]
    IN  {[rooms |-> made, answer |-> g.match],
         [rooms |-> made, answer |-> NoRoom],
         [rooms |-> created, answer |-> NoRoom]}

\* The call is made without the lock.
Allocate(r) ==
    /\ call[r].pc = "allocate"
    /\ \E o \in CreateRoomOutcomes(Head(call[r].groups)) :
          /\ created' = o.rooms
          /\ Goto(r, [pc |-> "commit", at |-> call[r].at,
                      groups |-> call[r].groups, polls |-> call[r].polls,
                      room |-> o.answer])
    /\ UNCHANGED <<now, memory, matches, main, flush, stored, late, unsaved,
                   restarts>>

\* CommitGroupLocked: a match if there is a room and nobody cancelled; else
\* those who cancelled go, the others return to the front in their old order.
Cancelled(g) == {p \in Range(g.players) : entries[p].cancelRequested}

Matched(g, rm, at) ==
    [p \in Range(g.players) |->
        [entries[p] EXCEPT !.state = "matched", !.allocating = FALSE,
                           !.room = rm, !.group = g.players, !.stamp = at]]

\* Mutant: allocating is not reset.
RequeuedStillAllocating(g) ==
    [p \in Range(g.players) \ Cancelled(g) |->
        [entries[p] EXCEPT !.match = NoRoom, !.group = <<>>]]

Requeued(g) ==
    [p \in Range(g.players) \ Cancelled(g) |->
        [entries[p] EXCEPT !.allocating = FALSE, !.match = NoRoom,
                           !.group = <<>>]]

\* Mutant: a room is enough for a match.
CommitGroupDespiteCancel(g, rm, at) ==
    IF rm # NoRoom
    THEN /\ entries' = With(entries, Matched(g, rm, at))
         /\ UNCHANGED <<queue, retry_pairing>>
    ELSE /\ entries' = With(Without(entries, Cancelled(g)), Requeued(g))
         /\ queue' = Filtered(g.players, Range(g.players) \ Cancelled(g)) \o queue
         /\ retry_pairing' = TRUE

CommitGroup(g, rm, at) ==
    IF rm # NoRoom /\ Cancelled(g) = {}
    THEN /\ entries' = With(entries, Matched(g, rm, at))
         /\ UNCHANGED <<queue, retry_pairing>>
    ELSE /\ entries' = With(Without(entries, Cancelled(g)), Requeued(g))
         /\ queue' = Filtered(g.players, Range(g.players) \ Cancelled(g)) \o queue
         /\ retry_pairing' = (retry_pairing \/ rm = NoRoom)

Commit(r) ==
    /\ call[r].pc = "commit"
    /\ CommitGroup(Head(call[r].groups), call[r].room, call[r].at)
    /\ Goto(r, IF Len(call[r].groups) = 1
               THEN Closing(TRUE, call[r].at, call[r].polls)
               ELSE [pc |-> "allocate", at |-> call[r].at,
                     groups |-> Tail(call[r].groups), polls |-> call[r].polls])
    /\ UNCHANGED <<now, allocation_queue, dirty, room, main, flush, stored,
                   late, unsaved, restarts>>

MarkSnapshotDirty(r) ==
    /\ call[r].pc = "dirty"
    /\ dirty' = TRUE
    /\ Goto(r, Polling(call[r].at, call[r].polls))
    /\ UNCHANGED <<now, entries, queue, retry_pairing, allocation_queue, room,
                   main, flush, stored, late, unsaved, restarts>>

-----------------------------------------------------------------------------
(* Cancel and GetStatus.                                                   *)

\* While a room is being allocated the wish is only noted.
Cancel(r, p) ==
    /\ Up /\ call[r] = Idle
    /\ LET es == SweptEntries(now)
           noted == p \in DOMAIN es /\ es[p].allocating
           waiting == p \in DOMAIN es /\ es[p].state = "queued" /\ ~noted
       IN  /\ entries' = IF noted
                         THEN [es EXCEPT ![p].cancelRequested = TRUE]
                         ELSE IF waiting THEN Without(es, {p}) ELSE es
           /\ queue' = IF waiting
                       THEN Filtered(queue, Range(queue) \ (TimedOut(now) \cup {p}))
                       ELSE SweptQueue(now)
           /\ Goto(r, Closing(noted \/ waiting \/ SweepChanges(now), now, 1))
    /\ UNCHANGED <<now, retry_pairing, allocation_queue, dirty, room, main,
                   flush, stored, late, unsaved, restarts>>

\* The answer is the state after the sweep; then pairing is tried again if an
\* allocation has failed since.
StatusSection(r, at, polls) ==
    /\ entries' = SweptEntries(at)
    /\ queue' = SweptQueue(at)
    /\ Goto(r, [pc |-> "retry", at |-> at,
                changed |-> Noted(SweepChanges(at)), polls |-> polls])
    /\ UNCHANGED <<now, retry_pairing, allocation_queue, dirty, room, main,
                   flush, stored, late, unsaved, restarts>>

\* A client asks for his status.
GetStatus(r) ==
    /\ Up /\ call[r] = Idle
    /\ StatusSection(r, now, 0)

\* The handler of EnqueueMatch or CancelMatch does.
PollStatus(r) ==
    /\ call[r].pc = "status"
    /\ StatusSection(r, call[r].at, call[r].polls - 1)

RetryPairingIfNeeded(r) ==
    /\ call[r].pc = "retry"
    /\ retry_pairing' = FALSE
    /\ Goto(r, IF retry_pairing
               THEN [pc |-> "pair", at |-> call[r].at,
                     changed |-> call[r].changed, polls |-> call[r].polls]
               ELSE Closing(call[r].changed, call[r].at, call[r].polls))
    /\ UNCHANGED <<now, entries, queue, allocation_queue, dirty, room, main,
                   flush, stored, late, unsaved, restarts>>

-----------------------------------------------------------------------------
(* The main thread: it alone writes snapshots.                             *)

\* Queued players in queue order, then those being allocated (in the order of
\* a hash table) unless they cancelled, and one record per match.
Snapshots ==
    LET inAllocation == {p \in DOMAIN entries :
                           /\ entries[p].allocating
                           /\ ~entries[p].cancelRequested}
        line(p) == [player |-> p, queuedAt |-> entries[p].queuedAt]
        done == {p \in DOMAIN entries : entries[p].state = "matched"}
    IN  {[queued |-> [i \in DOMAIN (queue \o order) |->
                        line((queue \o order)[i])],
          matched |-> {[match |-> entries[p].match, room |-> entries[p].room,
                        group |-> entries[p].group, stamp |-> entries[p].stamp]
                        : p \in done}]
         : order \in Injection(1..Cardinality(inAllocation), inAllocation)}

\* Tick, and FlushSnapshotNow: take a snapshot if something changed.  The
\* merge window only delays this.
TakeSnapshot ==
    \E s \in Snapshots :
       /\ flush' = IF dirty THEN {s} ELSE {}
       /\ dirty' = FALSE

Tick ==
    /\ main \in {"serving", "draining"} /\ flush = {} /\ dirty
    /\ TakeSnapshot
    /\ UNCHANGED <<now, entries, queue, retry_pairing, allocation_queue, room,
                   call, main, stored, late, unsaved, restarts>>

\* MULTI/EXEC of snapshot s replaces the whole list.  Without an answer it was
\* not executed, was executed all the same, or is still in a socket that Redis
\* has yet to read; the connection is dropped and the save not repeated.
Send(s) ==
    \/ stored' = s /\ unsaved' = FALSE /\ UNCHANGED late
    \/ /\ unsaved' = TRUE
       /\ \/ UNCHANGED <<stored, late>>
          \/ stored' = s /\ UNCHANGED late
          \/ /\ Cardinality(late) < MaxLate
             /\ late' = late \cup {s} /\ UNCHANGED stored

\* Mutant: the mark is cleared when the snapshot is saved, not when it is taken.
SaveSnapshotClears ==
    /\ Up /\ \E s \in flush : Send(s)
    /\ flush' = {} /\ dirty' = FALSE
    /\ UNCHANGED <<now, entries, queue, retry_pairing, allocation_queue, room,
                   call, main, restarts>>

SaveSnapshot ==
    /\ Up /\ \E s \in flush : Send(s)
    /\ flush' = {}
    /\ UNCHANGED <<now, memory, room, call, main, restarts>>

\* Redis gets to it, perhaps after a newer snapshot or in the next life of the
\* process.
LateSave ==
    /\ \E s \in late : stored' = s /\ late' = late \ {s}
    /\ unsaved' = TRUE
    /\ UNCHANGED <<now, memory, room, call, main, flush, restarts>>

BeginShutdown ==
    /\ main = "serving" /\ restarts < MaxSignals
    /\ main' = "draining"
    /\ UNCHANGED <<now, memory, room, call, flush, stored, late, unsaved,
                   restarts>>

\* The grace period is over and the worker has been joined: one last write,
\* before the server stops.
FinalFlush ==
    /\ main = "draining" /\ flush = {}
    /\ main' = "final"
    /\ TakeSnapshot
    /\ UNCHANGED <<now, entries, queue, retry_pairing, allocation_queue, room,
                   call, stored, late, unsaved, restarts>>

Forget ==
    /\ main' = "down"
    /\ entries' = <<>> /\ queue' = <<>> /\ retry_pairing' = FALSE
    /\ allocation_queue' = <<>> /\ dirty' = FALSE /\ flush' = {}
    /\ call' = [r \in Thread |-> Idle]
    /\ unsaved' = FALSE

\* server.Join: the requests under way are finished first.
Exit ==
    /\ main = "final" /\ flush = {}
    /\ \A r \in Thread : call[r] = Idle
    /\ Forget
    /\ UNCHANGED <<now, room, stored, late, restarts>>

Crash ==
    /\ Up
    /\ Forget
    /\ UNCHANGED <<now, room, stored, late, restarts>>

\* Restore, before any request is served: the queue in the order of queued_at
\* (stable), without those whose time is up by now; and the matches still kept.
RestoredQueue ==
    LET s == stored.queued
    IN  Arranged(s, {i \in DOMAIN s : now - s[i].queuedAt < match_timeout_ms},
                 [i \in DOMAIN s |-> s[i].queuedAt])

\* Mutant: only the first player of a match gets an entry.
RestoredMatchedFirst ==
    LET kept == {m \in stored.matched : now - m.stamp < result_ttl_ms}
        of(p) == CHOOSE m \in kept : p = Head(m.group)
    IN  [p \in {Head(m.group) : m \in kept} |->
           [NewEntry(0) EXCEPT !.state = "matched", !.stamp = of(p).stamp,
                               !.match = of(p).match, !.room = of(p).room,
                               !.group = of(p).group]]

RestoredMatched ==
    LET kept == {m \in stored.matched : now - m.stamp < result_ttl_ms}
        of(p) == CHOOSE m \in kept : p \in Range(m.group)
    IN  [p \in UNION {Range(m.group) : m \in kept} |->
           [NewEntry(0) EXCEPT !.state = "matched", !.stamp = of(p).stamp,
                               !.match = of(p).match, !.room = of(p).room,
                               !.group = of(p).group]]

Restart ==
    /\ ~Up /\ restarts < MaxRestarts
    /\ restarts' = restarts + 1
    /\ main' = "serving"
    /\ \/ UNCHANGED <<entries, queue>> /\ unsaved' = TRUE
       \/ LET q == RestoredQueue
          IN  /\ unsaved' = FALSE
              /\ queue' = [i \in DOMAIN q |-> q[i].player]
              /\ entries' = With(RestoredMatched,
                   [p \in Range(queue') |->
                      NewEntry((CHOOSE e \in Range(q) : e.player = p).queuedAt)])
    /\ UNCHANGED <<now, retry_pairing, allocation_queue, dirty, room, call,
                   flush, stored, late>>

ClockAdvances ==
    /\ now < MaxTime
    /\ now' = now + 1
    /\ UNCHANGED <<memory, room, call, main, flush, stored, late, unsaved,
                   restarts>>

-----------------------------------------------------------------------------
Step(r) ==
    \/ Insert(r) \/ Pair(r) \/ Allocate(r) \/ Commit(r)
    \/ PollStatus(r) \/ RetryPairingIfNeeded(r) \/ MarkSnapshotDirty(r)

Next ==
    \/ \E r \in Thread :
         \/ \E p \in Player : Enqueue(r, p) \/ Cancel(r, p)
         \/ GetStatus(r) \/ Step(r)
    \/ Tick \/ SaveSnapshot \/ LateSave \/ BeginShutdown \/ FinalFlush \/ Exit
    \/ Crash \/ Restart \/ ClockAdvances

Spec == Init /\ [][Next]_vars

-----------------------------------------------------------------------------
\* The groups whose rooms are being allocated, by whichever thread.
InFlight ==
    Range(allocation_queue) \cup
    UNION {Range(call[r].groups) : r \in {x \in Thread :
                                     call[x].pc \in {"allocate", "commit"}}}

\* Type invariant.
TypeOK ==
    /\ DOMAIN entries \subseteq Player
    /\ queue \in Seq(Player)
    /\ \A p \in DOMAIN entries :
          /\ entries[p].state \in {"queued", "matched", "timeout"}
          /\ entries[p].match \in 0..matches
    /\ retry_pairing \in BOOLEAN /\ dirty \in BOOLEAN
    /\ matches \in 0..MaxMatches
    /\ Cardinality(flush) <= 1

\* A player is in one place only (match_queue.hpp, decision 2): queued players
\* that are not being allocated are in the queue, once; one being allocated is
\* in exactly one group under way, the one his entry names; nobody else is in
\* either.
OnePlacePerPlayer ==
    /\ IsInjective(queue)
    /\ Range(queue) = {p \in DOMAIN entries :
                         entries[p].state = "queued" /\ ~entries[p].allocating}
    /\ \A p \in Player :
         {g.match : g \in {x \in InFlight : p \in Range(x.players)}} =
            IF p \in DOMAIN entries /\ entries[p].allocating
            THEN {entries[p].match} ELSE {}

\* Nothing is forgotten by the snapshots: when no request is under way, nothing
\* is marked as changed or on its way to Redis, the last save was answered and
\* no older one was stored after it, a crash now would lose nobody.  Whether
\* the saves before it were executed, or still may be, makes no difference.
\* What Restore makes of the stored snapshot are
\* the players waiting, since the same time, and the matches not yet expired
\* (every change of the queue is marked, in a lock section of its own, and the
\* mark is cleared together with the copy that holds the change).
SnapshotIsCurrent ==
    LET fresh == {p \in Range(queue) :
                    now - entries[p].queuedAt < match_timeout_ms}
        paired == {p \in DOMAIN entries :
                     /\ entries[p].state = "matched"
                     /\ now - entries[p].stamp < result_ttl_ms}
    IN  (/\ HasStore /\ Up /\ ~dirty /\ flush = {} /\ ~unsaved
         /\ \A r \in Thread : call[r] = Idle)
        => /\ Range(RestoredQueue) =
                 {[player |-> p, queuedAt |-> entries[p].queuedAt] : p \in fresh}
           /\ DOMAIN RestoredMatched = paired
           /\ \A p \in paired : RestoredMatched[p].room = entries[p].room
                             /\ RestoredMatched[p].group = entries[p].group

\* What the service promises, and how this state keeps it: a player is out when
\* he has no entry, his time is up or his wish to cancel is noted; he waits
\* while queued, also during the allocation of his room.
PlaceOf(p) ==
    IF p \notin DOMAIN entries THEN [at |-> "out"]
    ELSE CASE entries[p].state = "timeout" -> [at |-> "out"]
           [] entries[p].state = "queued" /\ entries[p].cancelRequested ->
                [at |-> "out"]
           [] entries[p].state = "queued" /\ ~entries[p].cancelRequested ->
                [at |-> "waiting"]
           [] entries[p].state = "matched" ->
                [at |-> "match", match |-> [id |-> entries[p].room,
                                            players |-> Range(entries[p].group)]]

Abstract == INSTANCE Matchmaker WITH
    GroupSize <- kPlayersPerMatch,
    place <- [p \in Player |-> PlaceOf(p)],
    rooms <- {[id |-> m, players |-> Range(created[m])] : m \in DOMAIN created}

\* Refinement: every step of requests, allocation, snapshots, crashes and
\* restores is one the Matchmaker allows.  All players of a match enter it
\* together, from waiting, and leave it together; in particular a player whose
\* Cancel succeeded while his room was being allocated is not matched unless he
\* waits again, and no restored snapshot shows a match without a room or with
\* half of its players.
Matchmaking == Abstract!Spec

\* A match once made is not taken away or changed by any request until its
\* result_ttl_ms is over (Enqueue must not overwrite it, Cancel not drop it).
MatchIsKept ==
    [][\A p \in DOMAIN entries :
          entries[p].state = "matched" /\ main' # "down" =>
              \/ p \in DOMAIN entries' /\ entries'[p] = entries[p]
              \/ now - entries[p].stamp >= result_ttl_ms]_vars

\* The worker never gets a group: its queue fills only when it is not empty.
\* Its loop and the limit on it are therefore no actions of this module.
WorkerIsIdle == allocation_queue = <<>>

-----------------------------------------------------------------------------
(* What comments and tests say and the code does not keep.                 *)

\* match_queue.hpp, decision 5: pairing is tried again by GetStatus, so that
\* players back in the queue need neither a newcomer nor a new Enqueue.
NobodyIsStranded ==
    (main = "serving" /\ (\A r \in Thread : call[r] = Idle)
                      /\ matches < MaxMatches)
        => (Len(queue) >= kPlayersPerMatch => retry_pairing)
=============================================================================

------------------------------ MODULE StreamHub ------------------------------
(***************************************************************************)
(* The Gateway's push service: the table of SSE subscriptions, the thread  *)
(* that polls Room and writes to the connections                           *)
(* (src/gateway/stream_hub.cpp), the handler that subscribes               *)
(* (StreamEvents, src/gateway/gateway_service.cpp) and the drain of the    *)
(* main thread (src/gateway/gateway_main.cpp).                             *)
(*                                                                         *)
(* One mutex guards the table and is never held across a call to Room or a *)
(* write.  Rooms do not share state in the hub: there is one room here.    *)
(* A step of the push thread is one lock section or one call to Room, with *)
(* the writes that follow it.                                              *)
(*                                                                         *)
(* Time is counted in poll periods since a subscription was last written   *)
(* a heartbeat, or what counts as one (now_ms - last_heartbeat_ms).        *)
(***************************************************************************)
EXTENDS Integers, Sequences, FiniteSets

CONSTANTS
    Player,
    kMaxSnapshotHistory,   \* Room's ring
    kHeartbeat,            \* heartbeat_interval_ms, in poll periods
    RoomMayFail,           \* a call to Room may time out
    MaxConns,              \* bound: connections ever made
    Since,                 \* bound: what clients may send as Last-Event-ID
    MaxFrame,              \* bound: frames the room plays; this and Since for
                           \* each number of connections
    MaxLag                 \* bound: poll periods from one Tick to the next

\* Last-Event-ID: a frame, or no such header, or one that does not parse.
NoHeader == -1
Malformed == -2
Nothing == -1          \* no frame yet

ASSUME HubAssumption ==
    /\ Since \in [1..MaxConns -> SUBSET (Nat \cup {NoHeader, Malformed})]
    /\ MaxFrame \in [0..MaxConns -> Nat]
    /\ kMaxSnapshotHistory \in Nat \ {0} /\ kHeartbeat \in Nat \ {0}
    /\ RoomMayFail \in BOOLEAN
    /\ MaxConns \in Nat /\ MaxLag \in Nat \ {0}

Header == UNION {Since[n] : n \in 1..MaxConns}

VARIABLES
    room,           \* Room's side: the room all connections are about
    conn,           \* connection -> its request, its peer, the frame last sent
    subs,           \* subscriptions_: connection -> subscription
    lastPushed,     \* last_pushed_state_ of the room
    tick,           \* the Tick under way
    main,           \* where the main thread is
    taken           \* subscriptions the main thread took and has yet to close

vars == <<room, conn, subs, lastPushed, tick, main, taken>>

None == [state |-> "none", frame |-> Nothing, online |-> [p \in Player |-> FALSE]]
Idle == [pc |-> "idle"]
Terminal == {"finished", "aborted"}

Init ==
    /\ room = LET s == [state |-> "playing", frame |-> 0,
                        online |-> [p \in Player |-> TRUE]]
              IN  [now |-> s, ring |-> <<s>>]
    /\ conn = <<>> /\ subs = <<>>
    /\ lastPushed = None
    /\ tick = Idle
    /\ main = "serving" /\ taken = {}

-----------------------------------------------------------------------------
(* Room, as the hub sees it: frames, an end, a ring of snapshots.          *)

\* Mutant: nothing is ever dropped from the ring.
PushedUnbounded(s) == [now |-> s, ring |-> Append(room.ring, s)]

Pushed(s) ==
    LET longer == Append(room.ring, s)
    IN  [now |-> s, ring |-> IF Len(longer) > kMaxSnapshotHistory
                             THEN Tail(longer) ELSE longer]

RoomKnown == room.now.state # "gone"

\* A frame is played only while every player is online.
RoomFrame ==
    /\ room.now.state = "playing" /\ room.now.frame < MaxFrame[Len(conn)]
    /\ \A p \in Player : room.now.online[p]
    /\ room' = Pushed([room.now EXCEPT !.frame = @ + 1])
    /\ UNCHANGED <<conn, subs, lastPushed, tick, main, taken>>

RoomEnds ==
    /\ room.now.state = "playing"
    /\ \E state \in {"finishing", "aborted"} :
          room' = Pushed([room.now EXCEPT !.state = state])
    /\ UNCHANGED <<conn, subs, lastPushed, tick, main, taken>>

\* The result is stored, which adds nothing to the ring; then the room goes.
RoomSettles ==
    /\ \/ room.now.state = "finishing"
          /\ room' = [room EXCEPT !.now.state = "finished"]
       \/ room.now.state \in Terminal
          /\ room' = [room EXCEPT !.now.state = "gone"]
    /\ UNCHANGED <<conn, subs, lastPushed, tick, main, taken>>

\* SetPresence, if the call arrives: going away is a snapshot of its own.
SetPresence(p, online) ==
    \/ /\ room' = IF room.now.state # "playing" THEN room
                  ELSE IF online THEN [room EXCEPT !.now.online[p] = TRUE]
                  ELSE IF room.now.online[p]
                  THEN Pushed([room.now EXCEPT !.online[p] = FALSE])
                  ELSE room
    \/ RoomMayFail /\ UNCHANGED room

\* GetRoomSnapshotsSince: the last snapshot of every frame past the given one,
\* or a status that says why there are none to be had.
SnapshotsAfter(since) ==
    LET r == room.ring
        wanted == {i \in DOMAIN r :
                     /\ r[i].frame > since
                     /\ i < Len(r) => r[i + 1].frame # r[i].frame}
    IN  [k \in 1..Cardinality(wanted) |->
           r[CHOOSE i \in wanted : Cardinality({j \in wanted : j <= i}) = k]]

WindowIsReady(since) ==
    /\ since <= room.now.frame
    /\ \A i \in DOMAIN room.ring : i = 1 => since + 1 >= room.ring[i].frame

-----------------------------------------------------------------------------
(* A connection, and the handler that subscribes it.                       *)

NewConn(p, since) ==
    [req |-> "accepted", player |-> p, since |-> since, peer |-> "up",
     last |-> Nothing, farewells |-> 0]

\* Bound: a connection more, which asks for frames past the given one.
RoomForOne(since) ==
    LET n == Len(conn) + 1
    IN  /\ n <= MaxConns /\ room.now.frame <= MaxFrame[n]
        /\ {since} \cup {conn[c].since : c \in DOMAIN conn} \subseteq Since[n]

\* The room is looked up, and new subscriptions are refused while draining;
\* both before the lock is taken.
StreamEvents(p, since) ==
    /\ main = "serving" /\ RoomKnown
    /\ RoomForOne(since)
    /\ conn' = Append(conn, NewConn(p, since))
    /\ UNCHANGED <<room, subs, lastPushed, tick, main, taken>>

\* Subscribe, under the lock.  What was pushed is forgotten, for the newcomer.
Subscribe(c) ==
    /\ conn[c].req = "accepted"
    /\ conn' = [conn EXCEPT ![c].req = "reporting"]
    /\ subs' = [x \in DOMAIN subs \cup {c} |->
                  IF x = c THEN [pending |-> TRUE, ready |-> FALSE, idle |-> -1]
                  ELSE subs[x]]
    /\ lastPushed' = None
    /\ UNCHANGED <<room, tick, main, taken>>

\* After the unlock Room is told that the player is online.
ReportOnline(c) ==
    /\ conn[c].req = "reporting"
    /\ conn' = [conn EXCEPT ![c].req = "done"]
    /\ SetPresence(conn[c].player, TRUE)
    /\ UNCHANGED <<subs, lastPushed, tick, main, taken>>

\* The peer goes away; the hub is not told, its writes fail from now on.
PeerLeaves(c) ==
    /\ conn[c].peer = "up"
    /\ conn' = [conn EXCEPT ![c].peer = "down"]
    /\ UNCHANGED <<room, subs, lastPushed, tick, main, taken>>

Writable(c) == conn[c].peer = "up"

\* Connection c is sent state s of the room.
Sent(c, s) ==
    IF Writable(c) THEN [conn[c] EXCEPT !.last = s.frame] ELSE conn[c]

\* The offline report for c, which takes the connection's place in the room.
Farewell(c) ==
    /\ SetPresence(conn[c].player, FALSE)
    /\ conn' = [conn EXCEPT ![c].farewells = @ + 1, ![c].peer = "closed"]

-----------------------------------------------------------------------------
(* Tick, phase one: who is to be served, under the lock.                   *)

\* Mutant: a subscription with a backfill to come is served live as well.
LiveSubsAll(s) == DOMAIN s

\* Those with a usable or a malformed header are backfilled and nothing else.
NeedBackfill(s) ==
    {c \in DOMAIN s : s[c].pending /\ conn[c].since # NoHeader}

LiveSubs(s) == DOMAIN s \ NeedBackfill(s)

\* A subscription's clock starts with the first Tick that sees it.
Aged(sub, lag) ==
    [sub EXCEPT !.idle = IF @ = -1 THEN 0
                         ELSE IF @ + lag > kHeartbeat THEN kHeartbeat
                         ELSE @ + lag]

\* Mutant: only a subscription that is served live gets heartbeats.
HeartbeatDueNever(s) == {}

HeartbeatDue(s) ==
    {c \in DOMAIN s : /\ s[c].idle >= kHeartbeat
                      /\ c \in LiveSubs(s) => s[c].ready}

TickCollect ==
    /\ tick.pc = "idle" /\ main \in {"serving", "draining", "closing"}
    /\ DOMAIN subs # {}
    /\ \E lag \in 1..MaxLag :
         LET aged == [c \in DOMAIN subs |-> Aged(subs[c], lag)]
         IN  /\ subs' = aged
             /\ tick' = [pc |-> "backfill",
                         back |-> NeedBackfill(aged), live |-> LiveSubs(aged),
                         greet |-> {c \in LiveSubs(aged) : ~aged[c].ready},
                         beat |-> HeartbeatDue(aged),
                         failed |-> {}, filled |-> {}, kept |-> {}]
    /\ UNCHANGED <<room, conn, lastPushed, main, taken>>

-----------------------------------------------------------------------------
(* Phase two: backfill, one connection after the other, without the lock.  *)

\* The tick goes on to the next connection once c is dealt with.
Filed(c, field) ==
    [k \in DOMAIN tick \ {"of", "frames"} |->
        CASE k = "pc" -> "backfill"
          [] k = "back" -> tick.back \ {c}
          [] k = field -> tick[k] \cup {c}
          [] OTHER -> tick[k]]

Doing(pc, c, frames) ==
    [k \in DOMAIN tick \cup {"of", "frames"} |->
        CASE k = "pc" -> pc [] k = "of" -> c [] k = "frames" -> frames
          [] OTHER -> tick[k]]

\* BackfillSubscription up to the answer of GetRoomSnapshotsSince.
BackfillAsk ==
    /\ tick.pc = "backfill"
    /\ \E c \in tick.back :
         LET since == conn[c].since
             after == SnapshotsAfter(since)
         IN  \/ /\ since = Malformed
                /\ tick' = Doing("reset", c, <<>>)
             \/ /\ since # Malformed /\ RoomKnown
                /\ tick' = IF WindowIsReady(since) /\ after # <<>>
                           THEN Doing("frames", c, after)
                           ELSE Doing("reset", c, <<>>)
             \/ /\ since # Malformed /\ (RoomMayFail \/ ~RoomKnown)
                /\ tick' = Filed(c, "kept")
    /\ UNCHANGED <<room, conn, subs, lastPushed, main, taken>>

\* One missing frame is written, and noted as pushed to the room.
BackfillFrame ==
    /\ tick.pc = "frames"
    /\ LET c == tick.of
           s == Head(tick.frames)
       IN  /\ conn' = [conn EXCEPT ![c] = Sent(c, s)]
           /\ lastPushed' = IF ~Writable(c) THEN lastPushed
                            ELSE IF s.state \in Terminal THEN None
                            ELSE s
           /\ tick' = IF ~Writable(c) THEN Filed(c, "failed")
                      ELSE IF Len(tick.frames) > 1
                      THEN Doing("frames", c, Tail(tick.frames))
                      ELSE Filed(c, "filled")
    /\ UNCHANGED <<room, subs, main, taken>>

\* stream.reset with the state GetRoomState gives.  Only after a malformed
\* header does a reset count as the backfill.
BackfillReset ==
    /\ tick.pc = "reset"
    /\ LET c == tick.of
       IN  \/ /\ RoomKnown
              /\ conn' = [conn EXCEPT ![c] = Sent(c, room.now)]
              /\ lastPushed' = room.now
              /\ tick' = Filed(c, IF ~Writable(c) THEN "failed"
                                  ELSE IF conn[c].since = Malformed
                                  THEN "filled" ELSE "kept")
           \/ /\ RoomMayFail \/ ~RoomKnown
              /\ tick' = Filed(c, "kept")
              /\ UNCHANGED <<conn, lastPushed>>
    /\ UNCHANGED <<room, subs, main, taken>>

-----------------------------------------------------------------------------
(* Phases three and four: the live push, the greetings, the commit.        *)

\* TickRoom: one poll for all; a change is pushed, an end is always pushed
\* and closes the stream.
TickRoom ==
    /\ tick.pc = "backfill" /\ tick.back = {}
    /\ LET changed == room.now # lastPushed \/ room.now.state \in Terminal
           broken == {c \in tick.live : ~Writable(c)}
       IN  \/ /\ tick.live # {} /\ RoomKnown /\ changed
              /\ conn' = [c \in DOMAIN conn |->
                            IF c \in tick.live THEN Sent(c, room.now)
                            ELSE conn[c]]
              /\ lastPushed' = IF room.now.state \in Terminal THEN None
                               ELSE room.now
              /\ tick' = [tick EXCEPT !.pc = "commit",
                            !.failed = @ \cup (IF room.now.state \in Terminal
                                            THEN tick.live ELSE broken)]
           \/ /\ tick.live = {} \/ RoomMayFail \/ ~RoomKnown \/ ~changed
              /\ tick' = [tick EXCEPT !.pc = "commit"]
              /\ UNCHANGED <<conn, lastPushed>>
    /\ UNCHANGED <<room, subs, main, taken>>

\* Mutant: whatever failed is said goodbye to, subscribed still or not.
GoneAnyway(failed) == failed

\* Those the main thread took in the meantime are its business.
Gone(failed) == failed \cap DOMAIN subs

\* session.ready and the heartbeats are written; then, under the lock, the
\* results are noted and what failed is removed and closed.
TickCommit ==
    /\ tick.pc = "commit"
    /\ LET touched == tick.greet \cup tick.beat
           failed == tick.failed \cup {c \in touched : ~Writable(c)}
           rested == touched \cup tick.filled \cup tick.kept
           gone == Gone(failed)
       IN  /\ subs' = [c \in DOMAIN subs \ gone |->
                         [pending |-> subs[c].pending /\ c \notin tick.filled,
                          ready |-> subs[c].ready \/ c \in tick.greet,
                          idle |-> IF c \in rested THEN 0 ELSE subs[c].idle]]
           /\ conn' = [c \in DOMAIN conn |->
                         IF c \in gone THEN [conn[c] EXCEPT !.peer = "closed"]
                         ELSE conn[c]]
           /\ tick' = IF gone = {} THEN Idle
                      ELSE [pc |-> "report", gone |-> gone]
    /\ UNCHANGED <<room, lastPushed, main, taken>>

\* After the unlock Room is told who is offline, one call per connection.
ReportGone ==
    /\ tick.pc = "report"
    /\ \E c \in tick.gone :
         /\ Farewell(c)
         /\ tick' = IF tick.gone = {c} THEN Idle
                    ELSE [tick EXCEPT !.gone = @ \ {c}]
    /\ UNCHANGED <<subs, lastPushed, main, taken>>

-----------------------------------------------------------------------------
(* The main thread after SIGTERM.                                          *)

BeginShutdown ==
    /\ main = "serving"
    /\ main' = "draining"
    /\ UNCHANGED <<room, conn, subs, lastPushed, tick, taken>>

\* Mutant: the drain has no deadline.
CloseAllWhenEmpty ==
    /\ main = "draining" /\ DOMAIN subs = {}
    /\ main' = "closing"
    /\ UNCHANGED <<room, conn, subs, lastPushed, tick, taken>>

\* The deadline passed: stream.closed to everyone.  Or nobody is left.
CloseAllWithEvent ==
    /\ main = "draining"
    /\ main' = "closing"
    /\ \/ /\ taken' = DOMAIN subs
          /\ subs' = <<>>
          /\ lastPushed' = None
       \/ /\ DOMAIN subs = {}
          /\ UNCHANGED <<subs, taken, lastPushed>>
    /\ UNCHANGED <<room, conn, tick>>

\* Every connection taken is reported offline and closed.
CloseTaken ==
    /\ \E c \in taken :
         /\ Farewell(c)
         /\ taken' = taken \ {c}
    /\ UNCHANGED <<subs, lastPushed, tick, main>>

\* Stop waits for the Tick under way and starts no other.
Stop ==
    /\ main = "closing" /\ taken = {}
    /\ main' = "stopping"
    /\ UNCHANGED <<room, conn, subs, lastPushed, tick, taken>>

CloseAll ==
    /\ main = "stopping" /\ tick.pc = "idle"
    /\ main' = "leaving"
    /\ taken' = DOMAIN subs
    /\ subs' = <<>>
    /\ lastPushed' = None
    /\ UNCHANGED <<room, conn, tick>>

\* Streams that a handler past the check of draining_ subscribed after CloseAll.
LateStreams == {c \in DOMAIN subs : main = "leaving" /\ Writable(c)}

\* server.Join waits for the handlers, and for the streams still open
\* (gateway_main.cpp says so of brpc).
Exit ==
    /\ main = "leaving" /\ taken = {} /\ LateStreams = {}
    /\ \A c \in DOMAIN conn : conn[c].req = "done"
    /\ main' = "exited"
    /\ subs' = <<>>
    /\ conn' = [c \in DOMAIN conn |-> [conn[c] EXCEPT !.peer = "closed"]]
    /\ UNCHANGED <<room, lastPushed, tick, taken>>

-----------------------------------------------------------------------------
RoomStep == RoomFrame \/ RoomEnds \/ RoomSettles

Handler(c) == Subscribe(c) \/ ReportOnline(c)

TickStep ==
    \/ BackfillAsk \/ BackfillFrame \/ BackfillReset
    \/ TickRoom \/ TickCommit \/ ReportGone

Drain == CloseAllWithEvent \/ CloseTaken \/ Stop \/ CloseAll \/ Exit

Next ==
    \/ RoomStep
    \/ \E p \in Player, since \in Header :
          StreamEvents(p, since)
    \/ \E c \in DOMAIN conn : Handler(c) \/ PeerLeaves(c)
    \/ TickCollect \/ TickStep
    \/ BeginShutdown \/ Drain

Spec == Init /\ [][Next]_vars

\* The push thread, the handlers and the drain keep running; nothing is
\* assumed of the peers, of the room, or of the calls to it.
Fairness ==
    /\ WF_vars(TickCollect) /\ WF_vars(TickStep) /\ WF_vars(Drain)
    /\ \A c \in 1..MaxConns : WF_vars(c \in DOMAIN conn /\ Handler(c))

FairSpec == Spec /\ Fairness

-----------------------------------------------------------------------------
Subscribed(c) == c \in DOMAIN subs

\* Type invariant: a subscription belongs to a connection whose handler got
\* past the lock.
TypeOK ==
    /\ DOMAIN subs \subseteq {c \in DOMAIN conn : conn[c].req # "accepted"}
    /\ \A c \in DOMAIN subs : subs[c].idle \in -1..kHeartbeat
    /\ \A c \in DOMAIN conn : conn[c].peer \in {"up", "down", "closed"}
    /\ Len(room.ring) <= kMaxSnapshotHistory
    /\ taken \subseteq DOMAIN conn

\* A connection that names the last frame it has is first sent the next one,
\* or a reset: calls that fail or a room that moves on leave no silent gap.
ResumesWhereItLeft ==
    [][\A c \in DOMAIN conn :
          (/\ conn[c].since >= 0
           /\ conn[c].last = Nothing /\ conn'[c].last # Nothing)
             => tick.pc = "reset" \/ conn'[c].last = conn[c].since + 1]_vars

\* Tick and the drain remove subscriptions concurrently, and Room is told of
\* each removal exactly once: by whoever removed it.
OneFarewell ==
    \A c \in DOMAIN conn :
        LET owed == Cardinality({x \in {"tick", "main"} :
                       \/ x = "tick" /\ tick.pc = "report" /\ c \in tick.gone
                       \/ x = "main" /\ c \in taken})
            removed == conn[c].req # "accepted" /\ ~Subscribed(c)
        IN  main # "exited" =>
              conn[c].farewells + owed = IF removed THEN 1 ELSE 0

\* A call to Room that failed made this Tick put the backfill of c off.
PutOff(c) == tick.pc = "commit" /\ c \in tick.kept

\* A peer that went away is found out by a write that fails, although nothing
\* says that the room ever changes: a stream that is served live is dropped,
\* one with a backfill to come as well unless a call to Room fails.  Once the
\* main thread has stopped the push thread nobody is left to find it out.
DeadStreamIsDropped ==
    \A c \in 1..MaxConns :
        (Subscribed(c) /\ ~Writable(c) /\ main # "leaving")
            ~> (~Subscribed(c) \/ PutOff(c))

\* The drain comes to its end although clients still connect, peers hang and
\* the push thread runs on; all that can hold it up is a stream subscribed
\* after CloseAll.
DrainEnds == main = "draining" ~> (main = "exited" \/ LateStreams # {})

-----------------------------------------------------------------------------
(* What the comments and tests of the code say and the code does not keep. *)

\* stream_hub_test.cpp, PendingBackfillStillGetsHeartbeat...: a subscription
\* whose backfill cannot be done is written to now and then, so that a dead
\* peer is found out.
DeadPeerIsDropped ==
    \A c \in 1..MaxConns :
        (Subscribed(c) /\ ~Writable(c)) ~> ~Subscribed(c)

\* stream_hub.hpp, backfill_pending: a backfill is made once, when the
\* subscription begins; 05-api-and-data.md: one stream.reset, then live
\* events.  So only a connection that was sent nothing yet is reset.
ResetHappensOnce == tick.pc = "reset" => conn[tick.of].last = Nothing

\* 01-architecture.md: to reconnect clears the mark of being offline.  So once
\* every report has arrived, a player with an open stream is online.
PresenceIsTrue ==
    (/\ tick.pc = "idle" /\ main = "serving"
     /\ \A c \in DOMAIN conn : conn[c].req # "reporting"
     /\ room.now.state = "playing") =>
        \A c \in DOMAIN subs : Writable(c) => room.now.online[conn[c].player]
=============================================================================

--------------------------- MODULE StreamHubProofs ---------------------------
(***************************************************************************)
(* Proofs about the push hub, for any number of connections and frames and *)
(* any ring: Room is told of every removed subscription exactly once, and  *)
(* a client that resumes is sent the next frame or a reset.                *)
(***************************************************************************)
EXTENDS StreamHub, FiniteSetTheorems, WellFoundedInduction, TLAPS

-----------------------------------------------------------------------------
(* The invariant.                                                          *)

State == {"playing", "finishing", "aborted", "finished", "gone"}
Request == {"accepted", "reporting", "done"}
Peer == {"up", "down", "closed"}
Frame == Nat \cup {Nothing}
Online == [Player -> BOOLEAN]
Quiet == -1..kHeartbeat

Snap == [state : State, frame : Nat, online : Online]
ConnType == [req : Request, player : Player, since : Header, peer : Peer,
             last : Frame, farewells : Nat]
SubType == [pending : BOOLEAN, ready : BOOLEAN, idle : Quiet]

\* The ring misses no frame and ends with the present one.
RoomInv ==
    /\ room \in [now : Snap, ring : Seq(Snap)]
    /\ room.ring # <<>> /\ Len(room.ring) <= kMaxSnapshotHistory
    /\ room.ring[Len(room.ring)].frame = room.now.frame
    /\ \A i \in 1..(Len(room.ring) - 1) :
         room.ring[i + 1].frame <= room.ring[i].frame + 1

ConnInv == conn \in Seq(ConnType)

\* Connection c resumes and was sent nothing yet.
Waiting(c) == conn[c].since # NoHeader /\ conn[c].last = Nothing

\* A resuming connection is served live only after its backfill.
SubsInv ==
    \A c \in DOMAIN subs :
        /\ c \in DOMAIN conn /\ conn[c].req # "accepted"
        /\ subs[c] \in SubType
        /\ Waiting(c) => subs[c].pending

Base == {"pc", "back", "live", "greet", "beat", "failed", "filled", "kept"}
Serving == {"backfill", "frames", "reset", "commit"}
Asking == {"frames", "reset"}

\* What the push thread carries from one lock section to the other.
TickOK(t) ==
    /\ t.pc \in Serving \cup {"idle", "report"}
    /\ t.pc \in Serving =>
         /\ DOMAIN t = Base \cup (IF t.pc \in Asking THEN {"of", "frames"} ELSE {})
         /\ t.back \subseteq {c \in DOMAIN conn : conn[c].since # NoHeader}
         /\ \A c \in t.live \cup t.filled : c \in DOMAIN conn /\ ~Waiting(c)
    /\ t.pc \in Asking => t.of \in DOMAIN conn /\ conn[t.of].since # NoHeader
    /\ t.pc = "frames" =>
         /\ t.frames \in Seq(Snap) /\ t.frames # <<>>
         /\ conn[t.of].since # Malformed
         /\ Waiting(t.of) => Head(t.frames).frame = conn[t.of].since + 1
    /\ t.pc = "report" => t.gone \subseteq DOMAIN conn /\ DOMAIN t = {"pc", "gone"}

TickInv == TickOK(tick)

MainInv ==
    /\ main \in {"serving", "draining", "closing", "stopping", "leaving", "exited"}
    /\ taken \subseteq DOMAIN conn
    /\ main \notin {"closing", "leaving"} => taken = {}
    /\ main \in {"leaving", "exited"} => tick.pc = "idle"

OwedByTick(c) == tick.pc = "report" /\ c \in tick.gone

\* The offline report of a connection is not due, or owed by one thread, or made.
FarewellInv ==
    main # "exited" =>
        \A c \in DOMAIN conn :
            IF conn[c].req = "accepted" \/ Subscribed(c)
            THEN conn[c].farewells = 0 /\ ~OwedByTick(c) /\ c \notin taken
            ELSE \/ conn[c].farewells = 1 /\ ~OwedByTick(c) /\ c \notin taken
                 \/ conn[c].farewells = 0 /\ OwedByTick(c) /\ c \notin taken
                 \/ conn[c].farewells = 0 /\ ~OwedByTick(c) /\ c \in taken

Inv == RoomInv /\ ConnInv /\ SubsInv /\ TickInv /\ MainInv /\ FarewellInv

-----------------------------------------------------------------------------
(* Room and its ring.                                                      *)

\* One more snapshot, of the same frame or the next.
LEMMA PushedOK ==
    ASSUME RoomInv, NEW s \in Snap,
           s.frame = room.now.frame \/ s.frame = room.now.frame + 1,
           room' = Pushed(s)
    PROVE  RoomInv'
<1>1. PICK ring, n, k : ring = room.ring /\ n = Len(ring) /\ k = kMaxSnapshotHistory
  OBVIOUS
<1>2. /\ ring \in Seq(Snap) /\ n \in Nat \ {0} /\ n <= k /\ k \in Nat \ {0}
      /\ ring[n].frame = room.now.frame /\ room.now.frame \in Nat /\ s.frame \in Nat
      /\ \A i \in 1..n : ring[i].frame \in Nat
      /\ \A i \in 1..(n - 1) : ring[i + 1].frame <= ring[i].frame + 1
  <2>1. /\ ring \in Seq(Snap) /\ ring # <<>> /\ n <= k /\ room.now \in Snap
        /\ ring[n].frame = room.now.frame
        /\ \A i \in 1..(n - 1) : ring[i + 1].frame <= ring[i].frame + 1
    BY <1>1 DEF RoomInv
  <2>2. n \in Nat \ {0} /\ \A i \in 1..n : ring[i] \in Snap
    BY <1>1, <2>1
  <2>3. k \in Nat \ {0}
    BY <1>1, HubAssumption
  <2> QED BY <2>1, <2>2, <2>3 DEF Snap
<1>3. PICK longer : longer = Append(ring, s)
  OBVIOUS
<1>4. /\ longer \in Seq(Snap) /\ Len(longer) = n + 1 /\ longer[n + 1] = s
      /\ \A i \in 1..n : longer[i] = ring[i]
  BY <1>1, <1>2, <1>3
<1>5. \A i \in 1..n : longer[i + 1].frame <= longer[i].frame + 1
  <2> SUFFICES ASSUME NEW i \in 1..n
               PROVE  longer[i + 1].frame <= longer[i].frame + 1
    OBVIOUS
  <2>1. CASE i = n
    BY <1>2, <1>4, <2>1
  <2>2. CASE i \in 1..(n - 1)
    <3>1. longer[i + 1] = ring[i + 1] /\ longer[i] = ring[i]
      BY <1>2, <1>4, <2>2
    <3> QED BY <1>2, <2>2, <3>1
  <2> QED BY <1>2, <2>1, <2>2
<1>6. room' = [now |-> s, ring |-> IF n + 1 > k THEN Tail(longer) ELSE longer]
  BY <1>1, <1>3, <1>4 DEF Pushed
<1>7. CASE n + 1 > k
  <2>1. PICK rest : rest = Tail(longer)
    OBVIOUS
  <2>2. /\ rest \in Seq(Snap) /\ Len(rest) = n
        /\ \A i \in 1..n : rest[i] = longer[i + 1]
    BY <1>2, <1>4, <2>1
  <2>3. \A i \in 1..(n - 1) : rest[i + 1].frame <= rest[i].frame + 1
    <3> SUFFICES ASSUME NEW i \in 1..(n - 1)
                 PROVE  rest[i + 1].frame <= rest[i].frame + 1
      OBVIOUS
    <3>1. /\ i \in 1..n /\ i + 1 \in 1..n
      BY <1>2
    <3>2. rest[i] = longer[i + 1] /\ rest[i + 1] = longer[(i + 1) + 1]
      BY <2>2, <3>1
    <3> QED BY <1>5, <3>1, <3>2
  <2>4. room'.now = s /\ room'.ring = rest
    BY <1>6, <1>7, <2>1
  <2>5. room' \in [now : Snap, ring : Seq(Snap)]
    BY <1>6, <1>7, <2>1, <2>2
  <2>6. rest # <<>> /\ rest[n] = s
    BY <1>2, <1>4, <2>2
  <2> QED BY <1>1, <1>2, <2>2, <2>3, <2>4, <2>5, <2>6 DEF RoomInv
<1>8. CASE ~(n + 1 > k)
  <2>1. room'.now = s /\ room'.ring = longer
    BY <1>6, <1>8
  <2>2. room' \in [now : Snap, ring : Seq(Snap)]
    BY <1>4, <1>6, <1>8
  <2>3. longer # <<>> /\ n + 1 <= k /\ (n + 1) - 1 = n
    BY <1>2, <1>4, <1>8
  <2> QED BY <1>1, <1>4, <1>5, <2>1, <2>2, <2>3 DEF RoomInv
<1> QED BY <1>7, <1>8

\* A change that adds no snapshot.
LEMMA RoomKept ==
    ASSUME RoomInv, NEW s \in Snap, s.frame = room.now.frame,
           room' = [room EXCEPT !.now = s]
    PROVE  RoomInv'
<1>1. room'.now = s /\ room'.ring = room.ring
      /\ room' \in [now : Snap, ring : Seq(Snap)]
  BY DEF RoomInv
<1> QED BY <1>1 DEF RoomInv

\* A frame or an end keeps the room's ring complete up to the present.
LEMMA RoomStepOK ==
    ASSUME RoomInv, RoomStep
    PROVE  RoomInv'
<1>1. room \in [now : Snap, ring : Seq(Snap)] /\ room.now \in Snap
  BY DEF RoomInv
<1>2. CASE RoomFrame
  <2>1. PICK s : s = [room.now EXCEPT !.frame = @ + 1]
    OBVIOUS
  <2>2. s \in Snap /\ s.frame = room.now.frame + 1
    BY <1>1, <2>1 DEF Snap
  <2> QED BY <1>2, <2>1, <2>2, PushedOK DEF RoomFrame
<1>3. CASE RoomEnds
  <2>1. PICK state \in {"finishing", "aborted"} :
          room' = Pushed([room.now EXCEPT !.state = state])
    BY <1>3 DEF RoomEnds
  <2>2. PICK s : s = [room.now EXCEPT !.state = state]
    OBVIOUS
  <2>3. s \in Snap /\ s.frame = room.now.frame
    BY <1>1, <2>1, <2>2 DEF Snap, State
  <2> QED BY <2>1, <2>2, <2>3, PushedOK
<1>4. CASE RoomSettles
  <2>1. PICK state \in State : room' = [room EXCEPT !.now.state = state]
    BY <1>4 DEF RoomSettles, State
  <2>2. PICK s : s = [room.now EXCEPT !.state = state]
    OBVIOUS
  <2>3. s \in Snap /\ s.frame = room.now.frame
    BY <1>1, <2>1, <2>2 DEF Snap
  <2>4. room' = [room EXCEPT !.now = s]
    BY <1>1, <2>1, <2>2
  <2> QED BY <2>3, <2>4, RoomKept
<1> QED BY <1>2, <1>3, <1>4 DEF RoomStep

\* A presence report that Room takes keeps the room right, whatever it changes.
LEMMA PresenceOK ==
    ASSUME RoomInv, NEW p \in Player, NEW online \in BOOLEAN, SetPresence(p, online)
    PROVE  RoomInv'
<1>1. room \in [now : Snap, ring : Seq(Snap)] /\ room.now \in Snap
  BY DEF RoomInv
<1>2. CASE room' = room
  BY <1>2 DEF RoomInv
<1>3. CASE room' = [room EXCEPT !.now.online[p] = TRUE]
  <2>1. PICK s : s = [room.now EXCEPT !.online[p] = TRUE]
    OBVIOUS
  <2>2. s \in Snap /\ s.frame = room.now.frame
    BY <1>1, <2>1 DEF Snap, Online
  <2>3. room' = [room EXCEPT !.now = s]
    BY <1>1, <1>3, <2>1
  <2> QED BY <2>2, <2>3, RoomKept
<1>4. CASE room' = Pushed([room.now EXCEPT !.online[p] = FALSE])
  <2>1. PICK s : s = [room.now EXCEPT !.online[p] = FALSE]
    OBVIOUS
  <2>2. s \in Snap /\ s.frame = room.now.frame
    BY <1>1, <2>1 DEF Snap, Online
  <2> QED BY <1>4, <2>1, <2>2, PushedOK
<1> QED BY <1>2, <1>3, <1>4 DEF SetPresence

-----------------------------------------------------------------------------
(* What stays true of connections, subscriptions and the Tick under way    *)
(* while connections are written to, go and come.                          *)

\* Connections stay, keep their header and what was sent to them.
Carries ==
    /\ DOMAIN conn \subseteq DOMAIN conn'
    /\ \A c \in DOMAIN conn :
         /\ conn'[c].since = conn[c].since
         /\ conn[c].last # Nothing => conn'[c].last # Nothing
         /\ conn[c].req # "accepted" => conn'[c].req # "accepted"

\* The Tick under way stays right while connections carry on.
LEMMA TickKept ==
    ASSUME Carries, NEW t, TickOK(t)
    PROVE  TickOK(t)'
<1>1. \A c \in DOMAIN conn : Waiting(c)' => Waiting(c)
  BY DEF Carries, Waiting
<1>2. t.pc \in Serving =>
        t.back \subseteq {c \in DOMAIN conn' : conn'[c].since # NoHeader}
  BY DEF Carries, TickOK
<1>3. t.pc \in Serving =>
         \A c \in t.live \cup t.filled : c \in DOMAIN conn' /\ ~Waiting(c)'
  BY <1>1 DEF Carries, TickOK
<1>4. t.pc \in Asking =>
        t.of \in DOMAIN conn' /\ conn'[t.of].since # NoHeader
  BY DEF Carries, TickOK
<1>5. t.pc = "frames" =>
         /\ t.frames \in Seq(Snap) /\ t.frames # <<>>
         /\ conn'[t.of].since # Malformed
         /\ Waiting(t.of)' => Head(t.frames).frame = conn'[t.of].since + 1
  BY <1>1 DEF Carries, TickOK, Asking
<1>6. t.pc = "report" => t.gone \subseteq DOMAIN conn' /\ DOMAIN t = {"pc", "gone"}
  BY DEF Carries, TickOK
<1>7. /\ t.pc \in Serving \cup {"idle", "report"}
      /\ t.pc \in Serving =>
          DOMAIN t = Base \cup (IF t.pc \in Asking THEN {"of", "frames"} ELSE {})
  BY DEF TickOK
<1> QED BY <1>2, <1>3, <1>4, <1>5, <1>6, <1>7 DEF TickOK

\* In a state: the Tick that no step has touched.
LEMMA TickSame ==
    ASSUME Inv, Carries, tick' = tick
    PROVE  TickInv'
<1>1. PICK t : t = tick
  OBVIOUS
<1>2. TickOK(t)'
  BY <1>1, TickKept DEF Inv, TickInv
<1> QED BY <1>1, <1>2 DEF TickInv, TickOK, Waiting

\* Subscriptions nobody has touched stay right.
LEMMA SubsKept ==
    ASSUME Carries, SubsInv, subs' = subs
    PROVE  SubsInv'
BY DEF Carries, SubsInv, Waiting

\* No connection comes or goes.
LEMMA ConnKept ==
    ASSUME ConnInv, conn' \in [DOMAIN conn -> ConnType]
    PROVE  ConnInv' /\ DOMAIN conn' = DOMAIN conn
BY DEF ConnInv

\* No offline report is made, and none falls due.
LEMMA FarewellKept ==
    ASSUME FarewellInv, DOMAIN conn' = DOMAIN conn, taken' = taken,
           main' # "exited" => main # "exited",
           \A c \in DOMAIN conn :
             /\ conn'[c].farewells = conn[c].farewells
             /\ conn'[c].req = "accepted" \/ Subscribed(c)'
                  <=> conn[c].req = "accepted" \/ Subscribed(c)
             /\ OwedByTick(c)' <=> OwedByTick(c)
    PROVE  FarewellInv'
BY DEF FarewellInv

\* A step that touches neither connections nor subscriptions.
LEMMA QuietOK ==
    ASSUME Inv, UNCHANGED <<conn, subs, taken>>,
           main' # "exited" => main # "exited",
           tick' = tick
    PROVE  ConnInv' /\ SubsInv' /\ TickInv' /\ FarewellInv'
BY DEF Inv, ConnInv, SubsInv, Waiting, TickInv, TickOK, FarewellInv, OwedByTick,
       Subscribed

\* The room plays a frame or ends.
LEMMA RoomStepInv ==
    ASSUME Inv, RoomStep
    PROVE  Inv'
<1>1. UNCHANGED <<conn, subs, lastPushed, tick, main, taken>>
  BY DEF RoomStep, RoomFrame, RoomEnds, RoomSettles
<1>2. RoomInv'
  BY RoomStepOK DEF Inv
<1>3. MainInv'
  BY <1>1 DEF Inv, MainInv
<1> QED BY <1>1, <1>2, <1>3, QuietOK DEF Inv

-----------------------------------------------------------------------------
(* The handler that subscribes, and the peer.                              *)

\* A handler accepts a stream.
LEMMA StreamEventsInv ==
    ASSUME Inv, NEW p \in Player, NEW since \in Header, StreamEvents(p, since)
    PROVE  Inv'
<1>1. PICK new : new = NewConn(p, since)
  OBVIOUS
<1>2. /\ new \in ConnType /\ new.req = "accepted" /\ new.farewells = 0
  BY <1>1 DEF NewConn, ConnType, Request, Peer, Frame
<1>3. /\ conn' = Append(conn, new) /\ main = "serving"
      /\ UNCHANGED <<room, subs, lastPushed, tick, main, taken>>
  BY <1>1 DEF StreamEvents
<1>4. PICK n : n = Len(conn)
  OBVIOUS
<1>5. /\ n \in Nat /\ DOMAIN conn = 1..n /\ DOMAIN conn' = 1..(n + 1)
      /\ conn'[n + 1] = new /\ \A c \in 1..n : conn'[c] = conn[c]
      /\ ConnInv'
  BY <1>2, <1>3, <1>4 DEF Inv, ConnInv
<1>6. Carries
  BY <1>5 DEF Carries
<1>7. RoomInv'
  BY <1>3 DEF Inv, RoomInv
<1>8. SubsInv'
  BY <1>3, <1>6, SubsKept DEF Inv
<1>9. TickInv'
  BY <1>3, <1>6, TickSame
<1>10. MainInv'
  BY <1>3, <1>5 DEF Inv, MainInv
<1>11. FarewellInv'
  <2> SUFFICES ASSUME NEW c \in 1..(n + 1)
               PROVE  IF conn'[c].req = "accepted" \/ Subscribed(c)'
                      THEN conn'[c].farewells = 0 /\ ~OwedByTick(c)' /\ c \notin taken'
                      ELSE \/ conn'[c].farewells = 1 /\ ~OwedByTick(c)' /\ c \notin taken'
                           \/ conn'[c].farewells = 0 /\ OwedByTick(c)' /\ c \notin taken'
                           \/ conn'[c].farewells = 0 /\ ~OwedByTick(c)' /\ c \in taken'
    BY <1>5 DEF FarewellInv
  <2>1. (Subscribed(c)' <=> Subscribed(c)) /\ (OwedByTick(c)' <=> OwedByTick(c))
    BY <1>3 DEF Subscribed, OwedByTick
  <2>2. CASE c \in 1..n
    BY <1>3, <1>5, <2>1, <2>2 DEF Inv, FarewellInv
  <2>3. CASE c = n + 1
    <3>1. c \notin DOMAIN conn
      BY <1>5, <2>3
    <3>2. ~OwedByTick(c) /\ c \notin taken
      BY <3>1 DEF Inv, OwedByTick, TickInv, TickOK, MainInv
    <3> QED BY <1>2, <1>3, <1>5, <2>1, <2>3, <3>2
  <2> QED BY <1>5, <2>2, <2>3
<1> QED BY <1>5, <1>7, <1>8, <1>9, <1>10, <1>11 DEF Inv

\* One connection changes.
LEMMA OneConn ==
    ASSUME Inv, NEW c \in DOMAIN conn, NEW v \in ConnType,
           v.since = conn[c].since, conn[c].last # Nothing => v.last # Nothing,
           conn[c].req # "accepted" => v.req # "accepted",
           conn' = [conn EXCEPT ![c] = v]
    PROVE  /\ ConnInv' /\ DOMAIN conn' = DOMAIN conn /\ Carries
           /\ conn'[c] = v /\ \A x \in DOMAIN conn \ {c} : conn'[x] = conn[x]
<1>1. conn' \in [DOMAIN conn -> ConnType] /\ conn'[c] = v
      /\ \A x \in DOMAIN conn \ {c} : conn'[x] = conn[x]
  BY DEF Inv, ConnInv
<1>2. ConnInv' /\ DOMAIN conn' = DOMAIN conn
  BY <1>1, ConnKept DEF Inv
<1>3. Carries
  BY <1>1, <1>2 DEF Carries
<1> QED BY <1>1, <1>2, <1>3

\* The handler enters the subscription.
LEMMA SubscribeInv ==
    ASSUME Inv, NEW c \in DOMAIN conn, Subscribe(c)
    PROVE  Inv'
<1>1. PICK v : v = [conn[c] EXCEPT !.req = "reporting"]
  OBVIOUS
<1>2. conn[c] \in ConnType
  BY DEF Inv, ConnInv
<1>3. /\ v \in ConnType /\ v.since = conn[c].since /\ v.last = conn[c].last
      /\ v.req = "reporting" /\ v.farewells = conn[c].farewells
  BY <1>1, <1>2 DEF ConnType, Request
<1>4. /\ conn' = [conn EXCEPT ![c] = v] /\ conn[c].req = "accepted"
      /\ UNCHANGED <<room, tick, main, taken>>
  BY <1>1, <1>2 DEF Subscribe, ConnType
<1>5. /\ ConnInv' /\ DOMAIN conn' = DOMAIN conn /\ Carries
      /\ conn'[c] = v /\ \A x \in DOMAIN conn \ {c} : conn'[x] = conn[x]
  BY <1>3, <1>4, OneConn
<1>6. PICK new : new = [pending |-> TRUE, ready |-> FALSE, idle |-> -1]
  OBVIOUS
<1>7. new \in SubType /\ new.pending
  BY <1>6, HubAssumption DEF SubType, Quiet
<1>8. /\ DOMAIN subs' = DOMAIN subs \cup {c} /\ subs'[c] = new
      /\ \A x \in DOMAIN subs \ {c} : subs'[x] = subs[x]
  BY <1>6 DEF Subscribe
<1>9. SubsInv'
  <2> SUFFICES ASSUME NEW x \in DOMAIN subs'
               PROVE  /\ x \in DOMAIN conn' /\ conn'[x].req # "accepted"
                      /\ subs'[x] \in SubType
                      /\ Waiting(x)' => subs'[x].pending
    BY DEF SubsInv
  <2>1. CASE x = c
    BY <1>3, <1>5, <1>7, <1>8, <2>1
  <2>2. CASE x # c
    BY <1>5, <1>8, <2>2 DEF Inv, SubsInv, Waiting
  <2> QED BY <2>1, <2>2
<1>10. RoomInv' /\ MainInv'
  BY <1>4, <1>5 DEF Inv, RoomInv, MainInv
<1>11. TickInv'
  BY <1>4, <1>5, TickSame
<1>12. FarewellInv'
  <2>1. \A x \in DOMAIN conn :
          /\ conn'[x].farewells = conn[x].farewells
          /\ conn'[x].req = "accepted" \/ Subscribed(x)'
               <=> conn[x].req = "accepted" \/ Subscribed(x)
          /\ OwedByTick(x)' <=> OwedByTick(x)
    BY <1>3, <1>4, <1>5, <1>8 DEF Subscribed, OwedByTick
  <2> QED BY <1>4, <1>5, <2>1, FarewellKept DEF Inv
<1> QED BY <1>5, <1>9, <1>10, <1>11, <1>12 DEF Inv

\* A connection changes that no offline report is about.
LEMMA ConnStep ==
    ASSUME Inv, NEW c \in DOMAIN conn, NEW v \in ConnType,
           v.since = conn[c].since, conn[c].last # Nothing => v.last # Nothing,
           conn[c].req = "accepted" <=> v.req = "accepted",
           v.farewells = conn[c].farewells,
           conn' = [conn EXCEPT ![c] = v],
           UNCHANGED <<subs, main, taken>>,
           \A x : OwedByTick(x)' <=> OwedByTick(x)
    PROVE  ConnInv' /\ SubsInv' /\ Carries /\ FarewellInv' /\ DOMAIN conn' = DOMAIN conn
<1>1. /\ ConnInv' /\ DOMAIN conn' = DOMAIN conn /\ Carries
      /\ conn'[c] = v /\ \A x \in DOMAIN conn \ {c} : conn'[x] = conn[x]
  BY OneConn
<1>2. SubsInv'
  BY <1>1, SubsKept DEF Inv
<1>3. \A x \in DOMAIN conn :
          /\ conn'[x].farewells = conn[x].farewells
          /\ conn'[x].req = "accepted" \/ Subscribed(x)'
               <=> conn[x].req = "accepted" \/ Subscribed(x)
          /\ OwedByTick(x)' <=> OwedByTick(x)
  BY <1>1 DEF Subscribed
<1>4. FarewellInv'
  BY <1>1, <1>3, FarewellKept DEF Inv
<1> QED BY <1>1, <1>2, <1>4

\* The handler reports the player online and returns.
LEMMA ReportOnlineInv ==
    ASSUME Inv, NEW c \in DOMAIN conn, ReportOnline(c)
    PROVE  Inv'
<1>1. PICK v : v = [conn[c] EXCEPT !.req = "done"]
  OBVIOUS
<1>2. conn[c] \in ConnType /\ conn[c].player \in Player
  <2>1. conn[c] \in ConnType
    BY DEF Inv, ConnInv
  <2> QED BY <2>1 DEF ConnType
<1>3. /\ v \in ConnType /\ v.since = conn[c].since /\ v.last = conn[c].last
      /\ v.req = "done" /\ v.farewells = conn[c].farewells
  BY <1>1, <1>2 DEF ConnType, Request
<1>4. /\ conn' = [conn EXCEPT ![c] = v] /\ conn[c].req = "reporting"
      /\ UNCHANGED <<subs, tick, main, taken>>
      /\ SetPresence(conn[c].player, TRUE)
  BY <1>1, <1>2 DEF ReportOnline, ConnType
<1>5. \A x : OwedByTick(x)' <=> OwedByTick(x)
  BY <1>4 DEF OwedByTick
<1>6. ConnInv' /\ SubsInv' /\ Carries /\ FarewellInv' /\ DOMAIN conn' = DOMAIN conn
  BY <1>3, <1>4, <1>5, ConnStep
<1>7. RoomInv'
  BY <1>2, <1>4, PresenceOK DEF Inv
<1>8. MainInv'
  BY <1>4, <1>6 DEF Inv, MainInv
<1> QED BY <1>4, <1>6, <1>7, <1>8, TickSame DEF Inv

\* A peer leaves unnoticed.
LEMMA PeerLeavesInv ==
    ASSUME Inv, NEW c \in DOMAIN conn, PeerLeaves(c)
    PROVE  Inv'
<1>1. PICK v : v = [conn[c] EXCEPT !.peer = "down"]
  OBVIOUS
<1>2. conn[c] \in ConnType
  BY DEF Inv, ConnInv
<1>3. /\ v \in ConnType /\ v.since = conn[c].since /\ v.last = conn[c].last
      /\ v.req = conn[c].req /\ v.farewells = conn[c].farewells
  BY <1>1, <1>2 DEF ConnType, Peer
<1>4. /\ conn' = [conn EXCEPT ![c] = v]
      /\ UNCHANGED <<room, subs, tick, main, taken>>
  BY <1>1, <1>2 DEF PeerLeaves, ConnType
<1>5. \A x : OwedByTick(x)' <=> OwedByTick(x)
  BY <1>4 DEF OwedByTick
<1>6. ConnInv' /\ SubsInv' /\ Carries /\ FarewellInv' /\ DOMAIN conn' = DOMAIN conn
  BY <1>3, <1>4, <1>5, ConnStep
<1>7. RoomInv' /\ MainInv'
  BY <1>4, <1>6 DEF Inv, RoomInv, MainInv
<1> QED BY <1>4, <1>6, <1>7, TickSame DEF Inv

-----------------------------------------------------------------------------
(* The missed frames: what GetRoomSnapshotsSince answers.                  *)

\* A set of naturals that is not empty has a least member.
LEMMA Least ==
    ASSUME NEW S \in SUBSET Nat, S # {}
    PROVE  \E x \in S : \A y \in S : x <= y
<1>1. PICK x \in S : \A y \in S : ~(<<y, x>> \in OpToRel(<, Nat))
  BY WFMin, NatLessThanWellFounded
<1>2. \A y \in S : ~(y < x)
  BY <1>1 DEF OpToRel
<1>3. \A y \in S : x <= y
  BY <1>2
<1> QED BY <1>3

\* A bounded one has a greatest.
LEMMA Greatest ==
    ASSUME NEW n \in Nat, NEW S \in SUBSET (0..n), S # {}
    PROVE  \E x \in S : \A y \in S : y <= x
<1> DEFINE T == {n - x : x \in S}
<1>1. T \in SUBSET Nat /\ T # {}
  <2>1. \A x \in S : x \in Int /\ 0 <= x /\ x <= n
    OBVIOUS
  <2>2. \A x \in S : n - x \in Nat
    BY <2>1
  <2> QED BY <2>2
<1>2. PICK t \in T : \A y \in T : t <= y
  BY <1>1, Least
<1>3. PICK x \in S : t = n - x
  OBVIOUS
<1>4. ASSUME NEW y \in S
      PROVE  y <= x
  <2>1. n - y \in T
    OBVIOUS
  <2>2. n - x <= n - y
    BY <1>2, <1>3, <2>1
  <2>3. x \in 0..n /\ y \in 0..n
    BY <1>3, <1>4
  <2> QED BY <2>2, <2>3
<1> QED BY <1>4

\* A set of numbers up to n is finite.
LEMMA IntervalSubset ==
    ASSUME NEW n \in Nat, NEW S \in SUBSET (1..n)
    PROVE  IsFiniteSet(S) /\ Cardinality(S) \in Nat
<1>1. IsFiniteSet(1..n)
  BY FS_Interval
<1>2. IsFiniteSet(S)
  BY <1>1, FS_Subset
<1> QED BY <1>2, FS_CardinalityType

\* The k-th member of a finite set of naturals exists, for every k.
LEMMA Ranked ==
    ASSUME NEW n \in Nat, NEW W \in SUBSET (1..n), NEW k \in 1..Cardinality(W)
    PROVE  \E i \in W : Cardinality({j \in W : j <= i}) = k
<1> DEFINE Upto(i) == {j \in W : j <= i}
           S == {m \in Nat : m <= Cardinality(W) =>
                  \E i \in 0..n : /\ Cardinality(Upto(i)) = m
                                  /\ m # 0 => i \in W}
<1>1. /\ IsFiniteSet(W) /\ Cardinality(W) \in Nat
      /\ \A i : IsFiniteSet(Upto(i)) /\ Cardinality(Upto(i)) \in Nat
  <2>1. \A i : Upto(i) \in SUBSET (1..n)
    OBVIOUS
  <2> HIDE DEF Upto
  <2>2. ASSUME NEW i
        PROVE  IsFiniteSet(Upto(i)) /\ Cardinality(Upto(i)) \in Nat
    BY <2>1, IntervalSubset
  <2>3. IsFiniteSet(W) /\ Cardinality(W) \in Nat
    BY IntervalSubset
  <2> QED BY <2>2, <2>3
<1>2. 0 \in S
  <2>1. \A j \in W : ~(j <= 0)
    OBVIOUS
  <2>2. Upto(0) = {}
    BY <2>1
  <2> QED BY <2>2, FS_EmptySet
<1>3. ASSUME NEW m \in Nat, m \in S
      PROVE  m + 1 \in S
  <2> SUFFICES ASSUME m + 1 <= Cardinality(W)
               PROVE  \E i \in W : Cardinality(Upto(i)) = m + 1
    OBVIOUS
  <2>1. PICK i \in 0..n : Cardinality(Upto(i)) = m
    BY <1>1, <1>3
  <2>2. W \ Upto(i) # {}
    <3>1. CASE W \ Upto(i) = {}
      <4>1. W = Upto(i)
        BY <3>1
      <4> QED BY <1>1, <2>1, <4>1
    <3> QED BY <3>1
  <2>3. PICK x \in W \ Upto(i) : \A y \in W \ Upto(i) : x <= y
    <3> HIDE DEF Upto
    <3>1. W \in SUBSET Nat
      OBVIOUS
    <3>2. W \ Upto(i) \in SUBSET Nat
      BY <3>1
    <3> QED BY <2>2, <3>2, Least
  <2>4. Upto(x) = Upto(i) \cup {x} /\ x \notin Upto(i)
    <3>1. x \in Nat /\ i \in Nat /\ \A j \in W : j \in Nat
      BY <2>1, <2>3
    <3>2. x \notin Upto(i) /\ ~(x <= i)
      BY <2>3
    <3>3. ASSUME NEW j \in W
          PROVE  j <= x <=> j <= i \/ j = x
      <4>1. CASE j <= i
        BY <3>1, <3>2, <4>1
      <4>2. CASE ~(j <= i)
        <5>1. x <= j
          BY <2>3, <4>2
        <5> QED BY <3>1, <4>2, <5>1
      <4> QED BY <4>1, <4>2
    <3> QED BY <2>3, <3>2, <3>3
  <2>5. Cardinality(Upto(x)) = m + 1
    <3> HIDE DEF Upto
    <3> QED BY <1>1, <2>1, <2>4, FS_AddElement
  <2> QED BY <2>5
<1> HIDE DEF S
<1>4. k \in Nat
  BY <1>1
<1>5. k \in S
  <2>1. CASE Nat \ S = {}
    BY <1>4, <2>1
  <2>2. CASE Nat \ S # {}
    <3>1. PICK x \in Nat \ S : \A y \in Nat \ S : x <= y
      BY <2>2, Least
    <3>2. x - 1 \in Nat
      BY <1>2, <3>1
    <3>3. x - 1 \in S
      BY <3>1, <3>2
    <3> QED BY <1>3, <3>1, <3>2, <3>3
  <2> QED BY <2>1, <2>2
<1> QED BY <1>1, <1>4, <1>5 DEF S

\* When the window is good and there is something to send, the first of it is
\* the frame after the given one.
LEMMA FirstFrame ==
    ASSUME RoomInv, NEW since \in Nat, WindowIsReady(since),
           SnapshotsAfter(since) # <<>>
    PROVE  /\ SnapshotsAfter(since) \in Seq(Snap)
           /\ Head(SnapshotsAfter(since)).frame = since + 1
<1>1. PICK r, n : r = room.ring /\ n = Len(r)
  OBVIOUS
<1>2. /\ r \in Seq(Snap) /\ n \in Nat /\ DOMAIN r = 1..n
      /\ \A i \in 1..n : r[i] \in Snap /\ r[i].frame \in Nat
      /\ \A i \in 1..(n - 1) : r[i + 1].frame <= r[i].frame + 1
  <2>1. r \in Seq(Snap)
    BY <1>1 DEF RoomInv
  <2>2. n \in Nat /\ DOMAIN r = 1..n /\ \A i \in 1..n : r[i] \in Snap
    BY <1>1, <2>1
  <2>3. \A i \in 1..(n - 1) : r[i + 1].frame <= r[i].frame + 1
    BY <1>1 DEF RoomInv
  <2> QED BY <2>1, <2>2, <2>3 DEF Snap
<1>3. 1 \in 1..n => r[1].frame <= since + 1
  BY <1>1, <1>2 DEF WindowIsReady
<1> DEFINE W == {i \in DOMAIN r : /\ r[i].frame > since
                                  /\ i < Len(r) => r[i + 1].frame # r[i].frame}
           Nth(k) == CHOOSE i \in W : Cardinality({j \in W : j <= i}) = k
           after == [k \in 1..Cardinality(W) |-> r[Nth(k)]]
<1>4. SnapshotsAfter(since) = after
  BY <1>1 DEF SnapshotsAfter
<1>5. W \in SUBSET (1..n)
  BY <1>2
<1>6. Cardinality(W) \in Nat
  <2> HIDE DEF W
  <2> QED BY <1>2, <1>5, IntervalSubset
<1>7. \A k \in 1..Cardinality(W) :
        Nth(k) \in W /\ Cardinality({j \in W : j <= Nth(k)}) = k
  <2> HIDE DEF W
  <2>1. \A k \in 1..Cardinality(W) :
          \E i \in W : Cardinality({j \in W : j <= i}) = k
    BY <1>2, <1>5, Ranked
  <2> QED BY <2>1
<1> HIDE DEF W, Nth
<1>8. after \in Seq(Snap) /\ Len(after) = Cardinality(W)
  <2>1. \A k \in 1..Cardinality(W) : r[Nth(k)] \in Snap
    BY <1>2, <1>5, <1>7
  <2> QED BY <1>6, <2>1
<1>9. Cardinality(W) # 0
  <2>1. after # <<>>
    BY <1>4
  <2> HIDE DEF after
  <2> QED BY <1>8, <2>1
<1>10. PICK i : i = Nth(1)
  OBVIOUS
<1>11. Head(after) = r[i] /\ i \in W /\ Cardinality({j \in W : j <= i}) = 1
  <2>1. 1 \in 1..Cardinality(W)
    BY <1>6, <1>9
  <2>2. Head(after) = after[1]
    <3> HIDE DEF after
    <3> QED BY <1>8, <2>1
  <2>3. after[1] = r[Nth(1)]
    BY <2>1
  <2> QED BY <1>7, <1>10, <2>1, <2>2, <2>3
<1> HIDE DEF after
<1>12. r[i].frame = since + 1
  <2> SUFFICES ASSUME r[i].frame > since + 1
               PROVE  FALSE
    <3>1. r[i].frame > since /\ i \in 1..n
      BY <1>5, <1>11 DEF W
    <3> QED BY <1>2, <3>1
  <2> DEFINE A == {j \in 1..i : r[j].frame <= since + 1}
  <2>1. i \in 1..n
    BY <1>5, <1>11
  <2>2. A \in SUBSET (0..i) /\ i \in Nat
    BY <2>1
  <2>3. 1 \in A
    <3>1. 1 \in 1..i /\ 1 \in 1..n
      BY <1>2, <2>1
    <3> QED BY <1>3, <3>1
  <2>4. PICK j \in A : \A y \in A : y <= j
    BY <2>2, <2>3, Greatest
  <2>5. /\ j \in 1..n /\ j < i /\ j + 1 \in 1..i /\ j + 1 \notin A
    <3>1. j \in 1..i /\ j # i
      BY <1>2, <2>1, <2>4
    <3>2. j + 1 \in 1..i /\ ~(j + 1 <= j) /\ j \in 1..n /\ j < i
      BY <1>2, <2>1, <3>1
    <3> QED BY <2>4, <3>2
  <2>6. r[j + 1].frame > since + 1 /\ r[j + 1].frame <= r[j].frame + 1
    BY <1>2, <2>1, <2>5
  <2>7. r[j].frame = since + 1
    BY <1>2, <2>1, <2>4, <2>5, <2>6
  <2>8. j \in W
    BY <1>1, <1>2, <2>5, <2>6, <2>7 DEF W
  <2>9. {j, i} \subseteq {y \in W : y <= i}
    BY <1>11, <2>1, <2>5, <2>8
  <2>10. PICK x : {y \in W : y <= i} = {x}
    <3>1. {y \in W : y <= i} \in SUBSET (1..n)
      BY <1>5
    <3>2. IsFiniteSet({y \in W : y <= i})
      BY <1>2, <3>1, IntervalSubset
    <3> QED BY <1>11, <3>2, FS_Singleton
  <2> QED BY <2>1, <2>5, <2>9, <2>10
<1> QED BY <1>4, <1>8, <1>11, <1>12 DEF after

-----------------------------------------------------------------------------
(* The push thread.                                                        *)

\* Phase one of Tick: the copy of the subscriptions.
LEMMA TickCollectInv ==
    ASSUME Inv, TickCollect
    PROVE  Inv'
<1>1. PICK lag \in 1..MaxLag :
        LET aged == [c \in DOMAIN subs |-> Aged(subs[c], lag)]
        IN  /\ subs' = aged
            /\ tick' = [pc |-> "backfill",
                        back |-> NeedBackfill(aged), live |-> LiveSubs(aged),
                        greet |-> {c \in LiveSubs(aged) : ~aged[c].ready},
                        beat |-> HeartbeatDue(aged),
                        failed |-> {}, filled |-> {}, kept |-> {}]
  BY DEF TickCollect
<1> DEFINE aged == [c \in DOMAIN subs |-> Aged(subs[c], lag)]
<1>2. /\ tick.pc = "idle" /\ main \in {"serving", "draining", "closing"}
      /\ UNCHANGED <<room, conn, lastPushed, main, taken>>
  BY DEF TickCollect
<1>3. ASSUME NEW c \in DOMAIN subs
      PROVE  /\ aged[c] \in SubType /\ aged[c].pending = subs[c].pending
             /\ c \in DOMAIN conn /\ conn[c].req # "accepted"
             /\ Waiting(c) => aged[c].pending
  <2>1. PICK sub : sub = subs[c]
    OBVIOUS
  <2>2. /\ sub \in SubType /\ c \in DOMAIN conn /\ conn[c].req # "accepted"
        /\ Waiting(c) => sub.pending
    BY <2>1, <1>3 DEF Inv, SubsInv
  <2>3. sub.idle \in Int /\ -1 <= sub.idle /\ sub.idle <= kHeartbeat
        /\ lag \in Nat /\ kHeartbeat \in Nat
    BY <2>2, <1>1, HubAssumption DEF SubType, Quiet
  <2>4. PICK idle : idle = IF sub.idle = -1 THEN 0
                           ELSE IF sub.idle + lag > kHeartbeat THEN kHeartbeat
                           ELSE sub.idle + lag
    OBVIOUS
  <2>5. idle \in Quiet
    BY <2>3, <2>4 DEF Quiet
  <2>6. aged[c] = [sub EXCEPT !.idle = idle]
    BY <1>3, <2>1, <2>2, <2>4 DEF Aged, SubType
  <2>7. aged[c] \in SubType /\ aged[c].pending = sub.pending
    BY <2>2, <2>5, <2>6 DEF SubType
  <2> QED BY <2>1, <2>2, <2>7
<1>4. DOMAIN aged = DOMAIN subs /\ subs' = aged
  BY <1>1
<1>5. /\ tick'.pc = "backfill" /\ DOMAIN tick' = Base
      /\ tick'.back = NeedBackfill(aged) /\ tick'.live = LiveSubs(aged)
      /\ tick'.filled = {}
  BY <1>1 DEF Base
<1> HIDE DEF aged
<1>6. SubsInv'
  BY <1>2, <1>3, <1>4 DEF SubsInv, Waiting
<1>7. RoomInv' /\ ConnInv'
  BY <1>2 DEF Inv, RoomInv, ConnInv
<1>8. /\ NeedBackfill(aged) \subseteq {c \in DOMAIN conn : conn[c].since # NoHeader}
      /\ \A c \in LiveSubs(aged) : c \in DOMAIN conn /\ ~Waiting(c)
  BY <1>3, <1>4 DEF NeedBackfill, LiveSubs, Waiting
<1>9. TickInv'
  BY <1>2, <1>5, <1>8 DEF TickInv, TickOK, Serving, Asking, Waiting
<1>10. MainInv'
  BY <1>2 DEF Inv, MainInv
<1>11. FarewellInv'
  <2>1. \A c \in DOMAIN conn : /\ Subscribed(c)' <=> Subscribed(c)
                               /\ OwedByTick(c)' <=> OwedByTick(c)
    BY <1>2, <1>4, <1>5 DEF Subscribed, OwedByTick
  <2> QED BY <1>2, <2>1, FarewellKept DEF Inv
<1> QED BY <1>6, <1>7, <1>9, <1>10, <1>11 DEF Inv

\* The push thread writes, and has no offline report to make.
LEMMA WriteStep ==
    ASSUME Inv, tick.pc \in Serving, tick'.pc \in Serving, TickInv',
           conn' \in [DOMAIN conn -> ConnType], Carries,
           \A c \in DOMAIN conn : /\ conn'[c].req = conn[c].req
                                  /\ conn'[c].farewells = conn[c].farewells,
           UNCHANGED <<room, subs, main, taken>>
    PROVE  Inv'
<1>1. RoomInv'
  BY DEF Inv, RoomInv
<1>2. ConnInv' /\ DOMAIN conn' = DOMAIN conn
  BY ConnKept DEF Inv
<1>3. SubsInv'
  BY SubsKept DEF Inv
<1>4. MainInv'
  BY <1>2 DEF Inv, MainInv, Serving
<1>5. \A c \in DOMAIN conn : /\ Subscribed(c)' <=> Subscribed(c)
                             /\ OwedByTick(c)' <=> OwedByTick(c)
  BY DEF Subscribed, OwedByTick, Serving
<1>6. FarewellInv'
  BY <1>2, <1>5, FarewellKept DEF Inv
<1> QED BY <1>1, <1>2, <1>3, <1>4, <1>6 DEF Inv

\* The fields of the Tick once connection c is dealt with.
LEMMA FiledFields ==
    ASSUME tick.pc \in Serving, TickInv, NEW c,
           NEW field \in {"failed", "filled", "kept"}
    PROVE  LET t == Filed(c, field)
           IN  /\ t.pc = "backfill" /\ DOMAIN t = Base
               /\ t.back = tick.back \ {c} /\ t.live = tick.live
               /\ t.filled = IF field = "filled" THEN tick.filled \cup {c}
                             ELSE tick.filled
<1>1. DOMAIN tick \ {"of", "frames"} = Base
  BY DEF TickInv, TickOK, Base
<1> QED BY <1>1 DEF Filed, Base

Does(t, pc, c, frames) ==
    /\ t.pc = pc /\ DOMAIN t = Base \cup {"of", "frames"}
    /\ t.back = tick.back /\ t.live = tick.live
    /\ t.filled = tick.filled /\ t.of = c /\ t.frames = frames

\* Doing gives a Tick the connection and the frames it is busy with.
LEMMA DoingFields ==
    ASSUME tick.pc \in Serving, TickInv, NEW c, NEW pc \in Asking, NEW frames,
           NEW t, t = Doing(pc, c, frames)
    PROVE  Does(t, pc, c, frames)
<1>1. DOMAIN tick \cup {"of", "frames"} = Base \cup {"of", "frames"}
  BY DEF TickInv, TickOK, Base
<1> QED BY <1>1 DEF Doing, Base, Does

\* The Tick goes on to the next connection.
LEMMA FiledOK ==
    ASSUME TickInv, tick.pc \in Serving, NEW c \in DOMAIN conn, Carries,
           NEW field \in {"failed", "filled", "kept"}, tick' = Filed(c, field),
           field = "filled" => ~Waiting(c)'
    PROVE  TickInv' /\ tick'.pc = "backfill"
<1>1. /\ tick'.pc = "backfill" /\ DOMAIN tick' = Base
      /\ tick'.back = tick.back \ {c} /\ tick'.live = tick.live
      /\ tick'.filled = IF field = "filled" THEN tick.filled \cup {c}
                        ELSE tick.filled
  BY FiledFields
<1>2. \A x \in DOMAIN conn : Waiting(x)' => Waiting(x)
  BY DEF Carries, Waiting
<1>3. \A x \in tick.live \cup tick.filled : x \in DOMAIN conn /\ ~Waiting(x)
  BY DEF TickInv, TickOK
<1>4. tick.back \subseteq {x \in DOMAIN conn : conn[x].since # NoHeader}
  BY DEF TickInv, TickOK
<1>5. \A x \in tick'.live \cup tick'.filled : x \in DOMAIN conn' /\ ~Waiting(x)'
  BY <1>1, <1>2, <1>3 DEF Carries
<1>6. tick'.back \subseteq {x \in DOMAIN conn' : conn'[x].since # NoHeader}
  BY <1>1, <1>4 DEF Carries
<1> QED BY <1>1, <1>5, <1>6 DEF TickInv, TickOK, Serving, Asking

\* Something is to be written to connection c.
LEMMA DoingOK ==
    ASSUME TickInv, tick.pc \in Serving, NEW c \in DOMAIN conn, Carries,
           conn[c].since # NoHeader,
           NEW pc \in Asking, NEW frames, tick' = Doing(pc, c, frames),
           pc = "frames" =>
             /\ frames \in Seq(Snap) /\ frames # <<>> /\ conn[c].since # Malformed
             /\ Waiting(c)' => Head(frames).frame = conn[c].since + 1
    PROVE  TickInv' /\ tick'.pc = pc
<1>1. /\ tick'.pc = pc /\ DOMAIN tick' = Base \cup {"of", "frames"}
      /\ tick'.back = tick.back /\ tick'.live = tick.live
      /\ tick'.filled = tick.filled /\ tick'.of = c /\ tick'.frames = frames
  <2>1. PICK t : t = Doing(pc, c, frames)
    OBVIOUS
  <2>2. Does(t, pc, c, frames)
    BY <2>1, DoingFields
  <2> QED BY <2>1, <2>2 DEF Does
<1>2. \A x \in DOMAIN conn : Waiting(x)' => Waiting(x)
  BY DEF Carries, Waiting
<1>3. \A x \in tick.live \cup tick.filled : x \in DOMAIN conn /\ ~Waiting(x)
  BY DEF TickInv, TickOK
<1>4. tick.back \subseteq {x \in DOMAIN conn : conn[x].since # NoHeader}
  BY DEF TickInv, TickOK
<1>5. \A x \in tick'.live \cup tick'.filled : x \in DOMAIN conn' /\ ~Waiting(x)'
  BY <1>1, <1>2, <1>3 DEF Carries
<1>6. tick'.back \subseteq {x \in DOMAIN conn' : conn'[x].since # NoHeader}
  BY <1>1, <1>4 DEF Carries
<1>7. tick'.of \in DOMAIN conn' /\ conn'[tick'.of].since = conn[c].since
  BY <1>1 DEF Carries
<1>8. pc = "frames" => (Waiting(tick.of)' => Waiting(c)')
  BY <1>1 DEF Waiting
<1>9. pc \in Serving /\ pc # "report" /\ pc # "idle"
  BY DEF Serving, Asking
<1> QED BY <1>1, <1>5, <1>6, <1>7, <1>8, <1>9 DEF TickInv, TickOK

\* Nothing is changed but what the push thread carries.
LEMMA TickOnly ==
    ASSUME Inv, tick.pc \in Serving, tick'.pc \in Serving, TickInv', Carries,
           UNCHANGED <<room, conn, subs, main, taken>>
    PROVE  Inv'
<1>1. conn' \in [DOMAIN conn -> ConnType]
  BY DEF Inv, ConnInv
<1>2. \A c \in DOMAIN conn : /\ conn'[c].req = conn[c].req
                             /\ conn'[c].farewells = conn[c].farewells
  OBVIOUS
<1> QED BY <1>1, <1>2, WriteStep

\* A write changes what was sent and nothing else.
LEMMA SentOK ==
    ASSUME Inv, NEW c \in DOMAIN conn, NEW s \in Snap, NEW v, v = Sent(c, s)
    PROVE  /\ v \in ConnType /\ v.since = conn[c].since /\ v.req = conn[c].req
           /\ v.farewells = conn[c].farewells
           /\ v.last = IF Writable(c) THEN s.frame ELSE conn[c].last
           /\ s.frame # Nothing
<1>1. conn[c] \in ConnType
  BY DEF Inv, ConnInv
<1>2. s.frame \in Nat
  BY DEF Snap
<1>3. s.frame \in Frame /\ s.frame # Nothing
  BY <1>2 DEF Frame, Nothing
<1>4. CASE Writable(c)
  BY <1>1, <1>3, <1>4 DEF Sent, ConnType
<1>5. CASE ~Writable(c)
  BY <1>1, <1>3, <1>5 DEF Sent
<1> QED BY <1>4, <1>5

\* One call of GetRoomSnapshotsSince.
LEMMA BackfillAskInv ==
    ASSUME Inv, BackfillAsk
    PROVE  Inv'
<1>1. PICK c \in tick.back :
        LET since == conn[c].since
            after == SnapshotsAfter(since)
        IN  \/ /\ since = Malformed
               /\ tick' = Doing("reset", c, <<>>)
            \/ /\ since # Malformed /\ RoomKnown
               /\ tick' = IF WindowIsReady(since) /\ after # <<>>
                          THEN Doing("frames", c, after)
                          ELSE Doing("reset", c, <<>>)
            \/ /\ since # Malformed /\ (RoomMayFail \/ ~RoomKnown)
               /\ tick' = Filed(c, "kept")
  BY DEF BackfillAsk
<1>2. /\ tick.pc = "backfill" /\ tick.pc \in Serving
      /\ UNCHANGED <<room, conn, subs, lastPushed, main, taken>>
  BY DEF BackfillAsk, Serving
<1>3. c \in DOMAIN conn /\ conn[c].since # NoHeader
  BY <1>1, <1>2 DEF Inv, TickInv, TickOK
<1>4. Carries
  BY <1>2 DEF Carries
<1>5. PICK reset, frames, kept, none, after :
        /\ reset = "reset" /\ frames = "frames" /\ kept = "kept" /\ none = <<>>
        /\ after = SnapshotsAfter(conn[c].since)
  OBVIOUS
<1>6. /\ reset \in Asking /\ frames \in Asking /\ reset # "frames"
      /\ kept \in {"failed", "filled", "kept"} /\ kept # "filled"
      /\ Asking \subseteq Serving
  BY <1>5 DEF Asking, Serving
<1>7. CASE tick' = Doing(reset, c, none)
  <2>1. TickInv' /\ tick'.pc = reset
    BY <1>2, <1>3, <1>4, <1>6, <1>7, DoingOK DEF Inv
  <2> QED BY <1>2, <1>4, <1>6, <2>1, TickOnly
<1>8. CASE tick' = Filed(c, kept)
  <2>1. TickInv' /\ tick'.pc = "backfill"
    BY <1>2, <1>3, <1>4, <1>6, <1>8, FiledOK DEF Inv
  <2> QED BY <1>2, <1>4, <2>1, TickOnly DEF Serving
<1>9. CASE /\ tick' = Doing(frames, c, after) /\ conn[c].since # Malformed
           /\ WindowIsReady(conn[c].since) /\ after # <<>>
  <2>1. PICK since : since = conn[c].since
    OBVIOUS
  <2>2. since \in Header
    <3>1. conn[c] \in ConnType
      BY <1>3 DEF Inv, ConnInv
    <3> QED BY <2>1, <3>1 DEF ConnType
  <2>3. since \in Nat
    <3>1. PICK n \in 1..MaxConns : since \in Since[n]
      BY <2>2 DEF Header
    <3>2. Since[n] \subseteq Nat \cup {NoHeader, Malformed}
      BY HubAssumption
    <3> QED BY <1>3, <1>9, <2>1, <3>1, <3>2
  <2>4. after \in Seq(Snap) /\ Head(after).frame = since + 1
    BY <1>5, <1>9, <2>1, <2>3, FirstFrame DEF Inv
  <2>5. TickInv' /\ tick'.pc = frames
    BY <1>2, <1>3, <1>4, <1>6, <1>9, <2>1, <2>4, DoingOK DEF Inv
  <2> QED BY <1>2, <1>4, <1>6, <2>5, TickOnly
<1> QED BY <1>1, <1>5, <1>7, <1>8, <1>9

\* One write of a backfill.
LEMMA BackfillFrameInv ==
    ASSUME Inv, BackfillFrame
    PROVE  Inv'
<1>1. PICK c, all, s, v, f, failed, filled :
        /\ c = tick.of /\ all = tick.frames /\ s = Head(all) /\ v = Sent(c, s)
        /\ f = "frames" /\ failed = "failed" /\ filled = "filled"
  OBVIOUS
<1>2. /\ tick.pc = "frames" /\ tick.pc \in Serving
      /\ conn' = [conn EXCEPT ![c] = v]
      /\ UNCHANGED <<room, subs, main, taken>>
      /\ tick' = IF ~Writable(c) THEN Filed(c, failed)
                 ELSE IF Len(all) > 1 THEN Doing(f, c, Tail(all))
                 ELSE Filed(c, filled)
  BY <1>1 DEF BackfillFrame, Serving
<1>3. /\ c \in DOMAIN conn /\ all \in Seq(Snap) /\ all # <<>>
      /\ conn[c].since # NoHeader /\ conn[c].since # Malformed
  BY <1>1, <1>2 DEF Inv, TickInv, TickOK, Asking
<1>4. s \in Snap
  BY <1>1, <1>3
<1>5. /\ v \in ConnType /\ v.since = conn[c].since /\ v.req = conn[c].req
      /\ v.farewells = conn[c].farewells
      /\ v.last = IF Writable(c) THEN s.frame ELSE conn[c].last
      /\ s.frame # Nothing
  BY <1>1, <1>3, <1>4, SentOK
<1>6. /\ ConnInv' /\ DOMAIN conn' = DOMAIN conn /\ Carries
      /\ conn'[c] = v /\ \A x \in DOMAIN conn \ {c} : conn'[x] = conn[x]
  BY <1>2, <1>3, <1>5, OneConn
<1>7. conn' \in [DOMAIN conn -> ConnType]
  BY <1>6 DEF ConnInv
<1>8. Writable(c) => ~Waiting(c)'
  BY <1>5, <1>6 DEF Waiting
<1>9. \A x \in DOMAIN conn : /\ conn'[x].req = conn[x].req
                             /\ conn'[x].farewells = conn[x].farewells
  BY <1>5, <1>6
<1>10. TickInv' /\ tick'.pc \in Serving
  <2>1. CASE ~Writable(c)
    <3>1. failed \in {"failed", "filled", "kept"} /\ failed # "filled"
      BY <1>1
    <3>2. TickInv' /\ tick'.pc = "backfill"
      BY <1>2, <1>3, <1>6, <2>1, <3>1, FiledOK DEF Inv
    <3> QED BY <3>2 DEF Serving
  <2>2. CASE Writable(c) /\ Len(all) > 1
    <3>1. Tail(all) \in Seq(Snap) /\ Tail(all) # <<>>
      <4>1. Tail(all) \in Seq(Snap) /\ Len(Tail(all)) = Len(all) - 1
        BY <1>3
      <4>2. Len(all) \in Nat
        BY <1>3
      <4>3. Len(Tail(all)) # 0
        BY <2>2, <4>1, <4>2
      <4>4. Len(<<>>) = 0
        OBVIOUS
      <4>5. Tail(all) # <<>>
        BY <4>3, <4>4
      <4> QED BY <4>1, <4>5
    <3>2. f \in Asking /\ f \in Serving
      BY <1>1 DEF Asking, Serving
    <3>3. TickInv' /\ tick'.pc = f
      BY <1>2, <1>3, <1>6, <1>8, <2>2, <3>1, <3>2, DoingOK DEF Inv
    <3> QED BY <3>2, <3>3
  <2>3. CASE Writable(c) /\ ~(Len(all) > 1)
    <3>1. filled \in {"failed", "filled", "kept"}
      BY <1>1
    <3>2. TickInv' /\ tick'.pc = "backfill"
      BY <1>2, <1>3, <1>6, <1>8, <2>3, <3>1, FiledOK DEF Inv
    <3> QED BY <3>2 DEF Serving
  <2> QED BY <2>1, <2>2, <2>3
<1> QED BY <1>2, <1>6, <1>7, <1>9, <1>10, WriteStep

\* One write of a reset.
LEMMA BackfillResetInv ==
    ASSUME Inv, BackfillReset
    PROVE  Inv'
<1>1. PICK c, s, v, field :
        /\ c = tick.of /\ s = room.now /\ v = Sent(c, s)
        /\ field = IF ~Writable(c) THEN "failed"
                   ELSE IF conn[c].since = Malformed THEN "filled" ELSE "kept"
  OBVIOUS
<1>2. /\ tick.pc = "reset" /\ tick.pc \in Serving
      /\ UNCHANGED <<room, subs, main, taken>>
      /\ \/ conn' = [conn EXCEPT ![c] = v] /\ tick' = Filed(c, field)
         \/ tick' = Filed(c, "kept") /\ UNCHANGED conn
  BY <1>1 DEF BackfillReset, Serving
<1>3. c \in DOMAIN conn /\ s \in Snap
  BY <1>1, <1>2 DEF Inv, TickInv, TickOK, Asking, RoomInv
<1>4. CASE tick' = Filed(c, "kept") /\ UNCHANGED conn
  <2>1. Carries
    BY <1>4 DEF Carries
  <2>2. PICK kept : kept = "kept"
    OBVIOUS
  <2>3. kept \in {"failed", "filled", "kept"} /\ kept # "filled"
    BY <2>2
  <2>4. TickInv' /\ tick'.pc = "backfill"
    BY <1>2, <1>3, <1>4, <2>1, <2>2, <2>3, FiledOK DEF Inv
  <2> QED BY <1>2, <1>4, <2>1, <2>4, TickOnly DEF Serving
<1>5. CASE conn' = [conn EXCEPT ![c] = v] /\ tick' = Filed(c, field)
  <2>1. /\ v \in ConnType /\ v.since = conn[c].since /\ v.req = conn[c].req
        /\ v.farewells = conn[c].farewells
        /\ v.last = IF Writable(c) THEN s.frame ELSE conn[c].last
        /\ s.frame # Nothing
    BY <1>1, <1>3, SentOK
  <2>2. /\ ConnInv' /\ DOMAIN conn' = DOMAIN conn /\ Carries
        /\ conn'[c] = v /\ \A x \in DOMAIN conn \ {c} : conn'[x] = conn[x]
    BY <1>3, <1>5, <2>1, OneConn
  <2>3. conn' \in [DOMAIN conn -> ConnType]
    BY <2>2 DEF ConnInv
  <2>4. \A x \in DOMAIN conn : /\ conn'[x].req = conn[x].req
                               /\ conn'[x].farewells = conn[x].farewells
    BY <2>1, <2>2
  <2>5. field \in {"failed", "filled", "kept"} /\ (field = "filled" => Writable(c))
    BY <1>1
  <2>6. field = "filled" => ~Waiting(c)'
    BY <2>1, <2>2, <2>5 DEF Waiting
  <2>7. TickInv' /\ tick'.pc = "backfill"
    BY <1>2, <1>3, <1>5, <2>2, <2>5, <2>6, FiledOK DEF Inv
  <2> QED BY <1>2, <2>2, <2>3, <2>4, <2>7, WriteStep DEF Serving
<1> QED BY <1>2, <1>4, <1>5

\* A Tick that goes on to its commit.
LEMMA CommitNext ==
    ASSUME Inv, tick.pc = "backfill", Carries, NEW failed,
           tick' = [tick EXCEPT !.pc = "commit", !.failed = failed]
    PROVE  TickInv' /\ tick.pc \in Serving /\ tick'.pc \in Serving
<1>1. DOMAIN tick = Base
  BY DEF Inv, TickInv, TickOK, Serving, Asking
<1>2. /\ tick'.pc = "commit" /\ DOMAIN tick' = Base /\ tick'.back = tick.back
      /\ tick'.live = tick.live /\ tick'.filled = tick.filled
  BY <1>1 DEF Base
<1>3. \A x \in DOMAIN conn : Waiting(x)' => Waiting(x)
  BY DEF Carries, Waiting
<1>4. /\ \A x \in tick.live \cup tick.filled : x \in DOMAIN conn /\ ~Waiting(x)
      /\ tick.back \subseteq {x \in DOMAIN conn : conn[x].since # NoHeader}
  BY DEF Inv, TickInv, TickOK, Serving
<1>5. \A x \in tick'.live \cup tick'.filled : x \in DOMAIN conn' /\ ~Waiting(x)'
  BY <1>2, <1>3, <1>4 DEF Carries
<1>6. tick'.back \subseteq {x \in DOMAIN conn' : conn'[x].since # NoHeader}
  BY <1>2, <1>4 DEF Carries
<1>7. TickInv'
  BY <1>2, <1>5, <1>6 DEF TickInv, TickOK, Serving, Asking
<1> QED BY <1>2, <1>7 DEF Serving

\* One call of GetRoomState.
LEMMA TickRoomInv ==
    ASSUME Inv, TickRoom
    PROVE  Inv'
<1>1. tick.pc = "backfill" /\ UNCHANGED <<room, subs, main, taken>>
  BY DEF TickRoom
<1>2. DOMAIN tick = Base
  BY <1>1 DEF Inv, TickInv, TickOK, Serving, Asking
<1>3. CASE tick' = [tick EXCEPT !.pc = "commit"] /\ UNCHANGED conn
  <2>1. Carries
    BY <1>3 DEF Carries
  <2>2. PICK failed : failed = tick.failed
    OBVIOUS
  <2>3. tick' = [tick EXCEPT !.pc = "commit", !.failed = failed]
    BY <1>2, <1>3, <2>2 DEF Base
  <2>4. TickInv' /\ tick.pc \in Serving /\ tick'.pc \in Serving
    BY <1>1, <2>1, <2>3, CommitNext
  <2> QED BY <1>1, <1>3, <2>1, <2>4, TickOnly
<1>4. CASE \E failed :
             /\ conn' = [c \in DOMAIN conn |-> IF c \in tick.live THEN Sent(c, room.now)
                                               ELSE conn[c]]
             /\ tick' = [tick EXCEPT !.pc = "commit", !.failed = failed]
  <2>1. PICK failed, s :
             /\ s = room.now
             /\ conn' = [c \in DOMAIN conn |-> IF c \in tick.live THEN Sent(c, s)
                                               ELSE conn[c]]
             /\ tick' = [tick EXCEPT !.pc = "commit", !.failed = failed]
    BY <1>4
  <2>2. s \in Snap
    BY <2>1 DEF Inv, RoomInv
  <2>3. ASSUME NEW c \in DOMAIN conn
        PROVE  /\ conn'[c] \in ConnType /\ conn'[c].since = conn[c].since
               /\ conn'[c].req = conn[c].req
               /\ conn'[c].farewells = conn[c].farewells
               /\ conn[c].last # Nothing => conn'[c].last # Nothing
    <3>1. CASE c \in tick.live
      <4>1. PICK v : v = Sent(c, s)
        OBVIOUS
      <4>2. /\ v \in ConnType /\ v.since = conn[c].since /\ v.req = conn[c].req
            /\ v.farewells = conn[c].farewells
            /\ v.last = IF Writable(c) THEN s.frame ELSE conn[c].last
            /\ s.frame # Nothing
        BY <2>2, <2>3, <4>1, SentOK
      <4>3. conn'[c] = v
        BY <2>1, <2>3, <3>1, <4>1
      <4> QED BY <4>2, <4>3
    <3>2. CASE c \notin tick.live
      <4>1. conn'[c] = conn[c] /\ conn[c] \in ConnType
        BY <2>1, <2>3, <3>2 DEF Inv, ConnInv
      <4> QED BY <4>1
    <3> QED BY <3>1, <3>2
  <2>4. conn' \in [DOMAIN conn -> ConnType]
    BY <2>1, <2>3
  <2>5. Carries
    BY <2>3, <2>4 DEF Carries
  <2>6. TickInv' /\ tick.pc \in Serving /\ tick'.pc \in Serving
    BY <1>1, <2>1, <2>5, CommitNext
  <2> QED BY <1>1, <2>3, <2>4, <2>5, <2>6, WriteStep
<1>5. \/ tick' = [tick EXCEPT !.pc = "commit"] /\ UNCHANGED conn
      \/ \E failed :
             /\ conn' = [c \in DOMAIN conn |-> IF c \in tick.live THEN Sent(c, room.now)
                                               ELSE conn[c]]
             /\ tick' = [tick EXCEPT !.pc = "commit", !.failed = failed]
  <2>1. CASE tick' = [tick EXCEPT !.pc = "commit"] /\ UNCHANGED conn
    BY <2>1
  <2>2. CASE ~(tick' = [tick EXCEPT !.pc = "commit"] /\ UNCHANGED conn)
    <3>1. PICK failed : failed = tick.failed \cup
              (IF room.now.state \in Terminal THEN tick.live
               ELSE {c \in tick.live : ~Writable(c)})
      OBVIOUS
    <3>2. /\ conn' = [c \in DOMAIN conn |-> IF c \in tick.live THEN Sent(c, room.now)
                                            ELSE conn[c]]
          /\ tick' = [tick EXCEPT !.pc = "commit", !.failed = failed]
      BY <1>2, <2>2, <3>1 DEF TickRoom, Base
    <3> QED BY <3>2
  <2> QED BY <2>1, <2>2
<1> QED BY <1>3, <1>4, <1>5

\* The live writes and the locked commit, which removes what failed.
LEMMA TickCommitInv ==
    ASSUME Inv, TickCommit
    PROVE  Inv'
<1>1. PICK gone, rested :
        /\ gone \subseteq DOMAIN subs
        /\ subs' = [c \in DOMAIN subs \ gone |->
                      [pending |-> subs[c].pending /\ c \notin tick.filled,
                       ready |-> subs[c].ready \/ c \in tick.greet,
                       idle |-> IF c \in rested THEN 0 ELSE subs[c].idle]]
        /\ conn' = [c \in DOMAIN conn |->
                      IF c \in gone THEN [conn[c] EXCEPT !.peer = "closed"]
                      ELSE conn[c]]
        /\ tick' = IF gone = {} THEN Idle ELSE [pc |-> "report", gone |-> gone]
  <2>1. PICK failed, rest :
          /\ rest = tick.greet \cup tick.beat \cup tick.filled \cup tick.kept
          /\ failed = Gone(tick.failed \cup
                            {c \in tick.greet \cup tick.beat : ~Writable(c)})
    OBVIOUS
  <2>2. failed \subseteq DOMAIN subs
    BY <2>1 DEF Gone
  <2> QED BY <2>1, <2>2 DEF TickCommit
<1>2. tick.pc = "commit" /\ UNCHANGED <<room, main, taken>>
  BY DEF TickCommit
<1>3. ASSUME NEW c \in DOMAIN conn
      PROVE  /\ conn'[c] \in ConnType /\ conn'[c].since = conn[c].since
             /\ conn'[c].req = conn[c].req /\ conn'[c].last = conn[c].last
             /\ conn'[c].farewells = conn[c].farewells
  <2>1. conn[c] \in ConnType
    BY <1>3 DEF Inv, ConnInv
  <2>2. CASE c \in gone
    <3>1. conn'[c] = [conn[c] EXCEPT !.peer = "closed"]
      BY <1>1, <1>3, <2>2
    <3> QED BY <2>1, <3>1 DEF ConnType, Peer
  <2>3. CASE c \notin gone
    BY <1>1, <1>3, <2>1, <2>3
  <2> QED BY <2>2, <2>3
<1>4. conn' \in [DOMAIN conn -> ConnType]
  BY <1>1, <1>3
<1>5. ConnInv' /\ DOMAIN conn' = DOMAIN conn
  BY <1>4, ConnKept DEF Inv
<1>6. DOMAIN subs' = DOMAIN subs \ gone
  BY <1>1
<1>7. SubsInv'
  <2> SUFFICES ASSUME NEW c \in DOMAIN subs'
               PROVE  /\ c \in DOMAIN conn' /\ conn'[c].req # "accepted"
                      /\ subs'[c] \in SubType
                      /\ Waiting(c)' => subs'[c].pending
    BY DEF SubsInv
  <2>1. /\ c \in DOMAIN subs /\ c \in DOMAIN conn /\ conn[c].req # "accepted"
        /\ subs[c] \in SubType /\ (Waiting(c) => subs[c].pending)
    BY <1>6 DEF Inv, SubsInv
  <2>2. PICK pending, ready, idle :
          /\ pending = (subs[c].pending /\ c \notin tick.filled)
          /\ ready = (subs[c].ready \/ c \in tick.greet)
          /\ idle = IF c \in rested THEN 0 ELSE subs[c].idle
    OBVIOUS
  <2>3. subs'[c] = [pending |-> pending, ready |-> ready, idle |-> idle]
    BY <1>1, <1>6, <2>2
  <2>4. pending \in BOOLEAN /\ ready \in BOOLEAN
    BY <2>1, <2>2 DEF SubType
  <2>5. idle \in Quiet
    <3>1. subs[c].idle \in Quiet
      BY <2>1 DEF SubType
    <3>2. 0 \in Quiet
      BY HubAssumption DEF Quiet
    <3> QED BY <2>2, <3>1, <3>2
  <2>6. subs'[c] \in SubType /\ subs'[c].pending = pending
    BY <2>3, <2>4, <2>5 DEF SubType
  <2>7. Waiting(c)' <=> Waiting(c)
    BY <1>3, <2>1 DEF Waiting
  <2>8. Waiting(c) => c \notin tick.filled
    BY <1>2 DEF Inv, TickInv, TickOK, Serving
  <2>9. Waiting(c)' => pending
    BY <2>1, <2>2, <2>7, <2>8
  <2> QED BY <1>3, <1>5, <2>1, <2>6, <2>9
<1>8. gone \subseteq DOMAIN conn
  BY <1>1 DEF Inv, SubsInv
<1>9. /\ gone = {} => tick'.pc = "idle"
      /\ gone # {} => /\ tick'.pc = "report" /\ tick'.gone = gone
                      /\ DOMAIN tick' = {"pc", "gone"}
  BY <1>1 DEF Idle
<1>10. TickInv'
  BY <1>5, <1>8, <1>9 DEF TickInv, TickOK, Serving, Asking
<1>11. RoomInv' /\ MainInv'
  BY <1>2, <1>5 DEF Inv, RoomInv, MainInv
<1>12. FarewellInv'
  <2> SUFFICES ASSUME main # "exited", NEW c \in DOMAIN conn
               PROVE  IF conn'[c].req = "accepted" \/ Subscribed(c)'
                      THEN conn'[c].farewells = 0 /\ ~OwedByTick(c)' /\ c \notin taken'
                      ELSE \/ conn'[c].farewells = 1 /\ ~OwedByTick(c)' /\ c \notin taken'
                           \/ conn'[c].farewells = 0 /\ OwedByTick(c)' /\ c \notin taken'
                           \/ conn'[c].farewells = 0 /\ ~OwedByTick(c)' /\ c \in taken'
    BY <1>2, <1>5 DEF FarewellInv
  <2>1. /\ ~OwedByTick(c) /\ (OwedByTick(c)' <=> c \in gone)
        /\ Subscribed(c)' <=> Subscribed(c) /\ c \notin gone
        /\ c \in gone => Subscribed(c) /\ conn[c].req # "accepted"
    BY <1>1, <1>2, <1>6, <1>9 DEF OwedByTick, Subscribed, Inv, SubsInv
  <2>2. IF conn[c].req = "accepted" \/ Subscribed(c)
        THEN conn[c].farewells = 0 /\ c \notin taken
        ELSE \/ conn[c].farewells = 1 /\ c \notin taken
             \/ conn[c].farewells = 0 /\ c \in taken
    BY <2>1 DEF Inv, FarewellInv
  <2> QED BY <1>2, <1>3, <2>1, <2>2
<1> QED BY <1>5, <1>7, <1>10, <1>11, <1>12 DEF Inv

\* Connection c is reported offline and closed.
LEMMA FarewellFacts ==
    ASSUME Inv, NEW c \in DOMAIN conn, Farewell(c), conn[c].req # "accepted"
    PROVE  /\ RoomInv' /\ ConnInv' /\ DOMAIN conn' = DOMAIN conn /\ Carries
           /\ conn'[c].farewells = conn[c].farewells + 1
           /\ conn'[c].req # "accepted"
           /\ \A x \in DOMAIN conn \ {c} : conn'[x] = conn[x]
<1>1. conn[c] \in ConnType
  BY DEF Inv, ConnInv
<1>2. PICK v, p : /\ v = [conn[c] EXCEPT !.farewells = @ + 1, !.peer = "closed"]
                  /\ p = conn[c].player
  OBVIOUS
<1>3. /\ v \in ConnType /\ v.since = conn[c].since /\ v.req = conn[c].req
      /\ v.last = conn[c].last /\ v.farewells = conn[c].farewells + 1
      /\ p \in Player
  <2>1. PICK n : n = conn[c].farewells + 1
    OBVIOUS
  <2>2. n \in Nat
    BY <1>1, <2>1 DEF ConnType
  <2>3. v = [conn[c] EXCEPT !.farewells = n, !.peer = "closed"]
    BY <1>2, <2>1
  <2>4. "closed" \in Peer
    BY DEF Peer
  <2> QED BY <1>1, <1>2, <2>1, <2>2, <2>3, <2>4 DEF ConnType
<1>4. conn' = [conn EXCEPT ![c] = v]
  BY <1>1, <1>2 DEF Farewell, ConnType
<1>5. /\ ConnInv' /\ DOMAIN conn' = DOMAIN conn /\ Carries
      /\ conn'[c] = v /\ \A x \in DOMAIN conn \ {c} : conn'[x] = conn[x]
  BY <1>3, <1>4, OneConn
<1>6. SetPresence(p, FALSE)
  BY <1>2 DEF Farewell
<1>7. RoomInv'
  BY <1>3, <1>6, PresenceOK DEF Inv
<1> QED BY <1>3, <1>5, <1>7

\* Whoever owes the report makes it, and owes it no longer.
LEMMA FarewellMade ==
    ASSUME Inv, NEW c \in DOMAIN conn, main # "exited",
           OwedByTick(c) \/ c \in taken
    PROVE  /\ conn[c].req # "accepted" /\ ~Subscribed(c) /\ conn[c].farewells = 0
           /\ ~(OwedByTick(c) /\ c \in taken)
BY DEF Inv, FarewellInv

\* The push thread reports a removed stream offline.
LEMMA ReportGoneInv ==
    ASSUME Inv, ReportGone
    PROVE  Inv'
<1>1. PICK c \in tick.gone : /\ Farewell(c)
                             /\ tick' = IF tick.gone = {c} THEN Idle
                                        ELSE [tick EXCEPT !.gone = @ \ {c}]
  BY DEF ReportGone
<1>2. tick.pc = "report" /\ UNCHANGED <<subs, main, taken>>
  BY DEF ReportGone
<1>3. /\ c \in DOMAIN conn /\ main # "exited" /\ OwedByTick(c)
      /\ tick.gone \subseteq DOMAIN conn /\ DOMAIN tick = {"pc", "gone"}
  BY <1>1, <1>2 DEF Inv, TickInv, TickOK, MainInv, OwedByTick
<1>4. /\ conn[c].req # "accepted" /\ ~Subscribed(c) /\ conn[c].farewells = 0
      /\ c \notin taken
  BY <1>3, FarewellMade
<1>5. /\ RoomInv' /\ ConnInv' /\ DOMAIN conn' = DOMAIN conn /\ Carries
      /\ conn'[c].farewells = conn[c].farewells + 1
      /\ conn'[c].req # "accepted"
      /\ \A x \in DOMAIN conn \ {c} : conn'[x] = conn[x]
  BY <1>1, <1>3, <1>4, FarewellFacts
<1>6. /\ tick.gone = {c} => tick'.pc = "idle"
      /\ tick.gone # {c} => /\ tick'.pc = "report" /\ tick'.gone = tick.gone \ {c}
                            /\ DOMAIN tick' = {"pc", "gone"}
  BY <1>1, <1>2, <1>3 DEF Idle
<1>7. TickInv'
  BY <1>3, <1>5, <1>6 DEF TickInv, TickOK, Serving, Asking
<1>8. SubsInv'
  BY <1>2, <1>5, SubsKept DEF Inv
<1>9. MainInv'
  BY <1>2, <1>5 DEF Inv, MainInv
<1>10. \A x : /\ OwedByTick(x)' <=> OwedByTick(x) /\ x # c
              /\ Subscribed(x)' <=> Subscribed(x)
  BY <1>2, <1>6 DEF OwedByTick, Subscribed
<1>11. FarewellInv'
  BY <1>2, <1>4, <1>5, <1>10 DEF Inv, FarewellInv
<1> QED BY <1>5, <1>7, <1>8, <1>9, <1>11 DEF Inv

-----------------------------------------------------------------------------
(* The main thread.                                                        *)

\* The main thread closes one of the streams it took, and reports it.
LEMMA CloseTakenInv ==
    ASSUME Inv, CloseTaken
    PROVE  Inv'
<1>1. PICK c \in taken : Farewell(c) /\ taken' = taken \ {c}
  BY DEF CloseTaken
<1>2. UNCHANGED <<subs, tick, main>>
  BY DEF CloseTaken
<1>3. c \in DOMAIN conn /\ main # "exited"
  BY <1>1 DEF Inv, MainInv
<1>4. /\ conn[c].req # "accepted" /\ ~Subscribed(c) /\ conn[c].farewells = 0
      /\ ~OwedByTick(c)
  BY <1>1, <1>3, FarewellMade
<1>5. /\ RoomInv' /\ ConnInv' /\ DOMAIN conn' = DOMAIN conn /\ Carries
      /\ conn'[c].farewells = conn[c].farewells + 1
      /\ conn'[c].req # "accepted"
      /\ \A x \in DOMAIN conn \ {c} : conn'[x] = conn[x]
  BY <1>1, <1>3, <1>4, FarewellFacts
<1>6. SubsInv'
  BY <1>2, <1>5, SubsKept DEF Inv
<1>7. MainInv'
  BY <1>1, <1>2, <1>5 DEF Inv, MainInv
<1>8. \A x : /\ OwedByTick(x)' <=> OwedByTick(x)
             /\ Subscribed(x)' <=> Subscribed(x)
  BY <1>2 DEF OwedByTick, Subscribed
<1>9. FarewellInv'
  BY <1>1, <1>2, <1>4, <1>5, <1>8 DEF Inv, FarewellInv
<1> QED BY <1>2, <1>5, <1>6, <1>7, <1>9, TickSame DEF Inv

\* All subscriptions are taken at once, by a thread that has none to close.
LEMMA TakeAllInv ==
    ASSUME Inv, main' \in {"closing", "leaving"}, main # "exited", taken = {},
           main' = "leaving" => tick.pc = "idle",
           taken' = DOMAIN subs, subs' = <<>>, UNCHANGED <<room, conn, tick>>
    PROVE  Inv'
<1>1. DOMAIN subs' = {}
  OBVIOUS
<1>2. RoomInv' /\ ConnInv'
  BY DEF Inv, RoomInv, ConnInv
<1>3. SubsInv'
  BY <1>1 DEF SubsInv
<1>4. Carries
  BY DEF Carries
<1>5. TickInv'
  BY <1>4, TickSame
<1>6. DOMAIN subs \subseteq DOMAIN conn
      /\ \A c \in DOMAIN subs : conn[c].req # "accepted"
  BY DEF Inv, SubsInv
<1>7. MainInv'
  BY <1>6 DEF Inv, MainInv
<1>8. \A c : (OwedByTick(c)' <=> OwedByTick(c)) /\ ~Subscribed(c)'
  BY <1>1 DEF OwedByTick, Subscribed
<1>9. FarewellInv'
  BY <1>6, <1>8 DEF Inv, FarewellInv, Subscribed
<1> QED BY <1>2, <1>3, <1>5, <1>7, <1>9 DEF Inv

\* The steps of the drain that take all subscriptions, or none.
LEMMA CloseAllInv ==
    ASSUME Inv, CloseAllWithEvent \/ CloseAll \/ BeginShutdown \/ Stop
    PROVE  Inv'
<1>1. CASE CloseAll
  <2>1. taken = {}
    BY <1>1 DEF CloseAll, Inv, MainInv
  <2> QED BY <1>1, <2>1, TakeAllInv DEF CloseAll
<1>2. CASE CloseAllWithEvent /\ taken' = DOMAIN subs /\ subs' = <<>>
  <2>1. taken = {}
    BY <1>2 DEF CloseAllWithEvent, Inv, MainInv
  <2> QED BY <1>2, <2>1, TakeAllInv DEF CloseAllWithEvent
<1>3. CASE \/ BeginShutdown \/ Stop
           \/ CloseAllWithEvent /\ UNCHANGED <<subs, taken>>
  <2>1. UNCHANGED <<room, conn, subs, tick, taken>> /\ main # "exited"
    BY <1>3 DEF BeginShutdown, Stop, CloseAllWithEvent
  <2>2. RoomInv'
    BY <2>1 DEF Inv, RoomInv
  <2>3. MainInv'
    BY <1>3, <2>1 DEF Inv, MainInv, BeginShutdown, Stop, CloseAllWithEvent
  <2> QED BY <2>1, <2>2, <2>3, QuietOK DEF Inv
<1> QED BY <1>1, <1>2, <1>3 DEF CloseAllWithEvent

\* The process leaves, and the streams still there with it.
LEMMA ExitInv ==
    ASSUME Inv, Exit
    PROVE  Inv'
<1>1. /\ main = "leaving" /\ main' = "exited" /\ subs' = <<>> /\ taken = {}
      /\ conn' = [c \in DOMAIN conn |-> [conn[c] EXCEPT !.peer = "closed"]]
      /\ UNCHANGED <<room, tick, taken>>
  BY DEF Exit
<1>2. ASSUME NEW c \in DOMAIN conn
      PROVE  /\ conn'[c] \in ConnType /\ conn'[c].since = conn[c].since
             /\ conn'[c].last = conn[c].last /\ conn'[c].req = conn[c].req
  <2>1. conn[c] \in ConnType
    BY <1>2 DEF Inv, ConnInv
  <2>2. conn'[c] = [conn[c] EXCEPT !.peer = "closed"]
    BY <1>1, <1>2
  <2> QED BY <2>1, <2>2 DEF ConnType, Peer
<1>3. conn' \in [DOMAIN conn -> ConnType]
  BY <1>1, <1>2
<1>4. ConnInv' /\ DOMAIN conn' = DOMAIN conn
  BY <1>3, ConnKept DEF Inv
<1>5. Carries
  BY <1>2, <1>4 DEF Carries
<1>6. RoomInv' /\ MainInv'
  BY <1>1, <1>4 DEF Inv, RoomInv, MainInv
<1>7. SubsInv'
  BY <1>1 DEF SubsInv
<1>8. FarewellInv'
  BY <1>1 DEF FarewellInv
<1> QED BY <1>1, <1>4, <1>5, <1>6, <1>7, <1>8, TickSame DEF Inv

-----------------------------------------------------------------------------
(* The theorems.                                                           *)

\* No connection, no subscription, nothing due.
LEMMA InitInv == Init => Inv
<1> SUFFICES ASSUME Init
             PROVE  Inv
  OBVIOUS
<1>1. PICK s : s = [state |-> "playing", frame |-> 0,
                    online |-> [p \in Player |-> TRUE]]
  OBVIOUS
<1>2. s \in Snap
  BY <1>1 DEF Snap, State, Online
<1>3. room = [now |-> s, ring |-> <<s>>]
  BY <1>1 DEF Init
<1>4. RoomInv
  <2>1. room.now = s /\ room.ring = <<s>>
        /\ room \in [now : Snap, ring : Seq(Snap)]
    BY <1>2, <1>3
  <2>2. room.ring # <<>> /\ Len(room.ring) = 1 /\ room.ring[1] = s
    BY <2>1
  <2>3. kMaxSnapshotHistory >= 1
    BY HubAssumption
  <2> QED BY <2>1, <2>2, <2>3 DEF RoomInv
<1>5. conn = <<>> /\ subs = <<>> /\ DOMAIN conn = {} /\ DOMAIN subs = {}
  BY DEF Init
<1>6. ConnInv
  BY <1>5 DEF ConnInv
<1>7. tick.pc = "idle" /\ main = "serving" /\ taken = {}
  BY DEF Init, Idle
<1>8. SubsInv /\ MainInv /\ FarewellInv
  BY <1>5, <1>7 DEF SubsInv, MainInv, FarewellInv
<1>9. TickInv
  BY <1>7 DEF TickInv, TickOK, Serving, Asking
<1> QED BY <1>4, <1>6, <1>8, <1>9 DEF Inv

\* Every step keeps the invariant.
LEMMA StepInv == Inv /\ [Next]_vars => Inv'
<1> SUFFICES ASSUME Inv, [Next]_vars
             PROVE  Inv'
  OBVIOUS
<1>1. CASE RoomStep
  BY <1>1, RoomStepInv
<1>2. CASE \E p \in Player, since \in Header : StreamEvents(p, since)
  BY <1>2, StreamEventsInv
<1>3. CASE \E c \in DOMAIN conn : Handler(c) \/ PeerLeaves(c)
  BY <1>3, SubscribeInv, ReportOnlineInv, PeerLeavesInv DEF Handler
<1>4. CASE TickCollect \/ TickStep
  BY <1>4, TickCollectInv, BackfillAskInv, BackfillFrameInv, BackfillResetInv,
     TickRoomInv, TickCommitInv, ReportGoneInv DEF TickStep
<1>5. CASE BeginShutdown \/ Drain
  BY <1>5, CloseAllInv, CloseTakenInv, ExitInv DEF Drain
<1>6. CASE UNCHANGED vars
  <2>1. RoomInv' /\ MainInv'
    BY <1>6 DEF vars, Inv, RoomInv, MainInv
  <2> QED BY <1>6, <2>1, QuietOK DEF vars, Inv
<1> QED BY <1>1, <1>2, <1>3, <1>4, <1>5, <1>6 DEF Next

\* The invariant of the hub holds in every reachable state.
THEOREM HubInvariant == Spec => []Inv
BY InitInv, StepInv, PTL DEF Spec

\* Subscriptions, connections and the Tick under way have their types, and a
\* subscription belongs to a handler that got past the lock.
THEOREM TypeCorrect == Spec => []TypeOK
<1>1. Inv => TypeOK
  <2> SUFFICES ASSUME Inv
               PROVE  TypeOK
    OBVIOUS
  <2>1. \A c \in DOMAIN conn : conn[c] \in ConnType
    BY DEF Inv, ConnInv
  <2>2. \A c \in DOMAIN conn : conn[c].peer \in {"up", "down", "closed"}
    BY <2>1 DEF ConnType, Peer
  <2>3. \A c \in DOMAIN subs : subs[c].idle \in -1..kHeartbeat
    BY DEF Inv, SubsInv, SubType, Quiet
  <2>4. DOMAIN subs \subseteq {c \in DOMAIN conn : conn[c].req # "accepted"}
    BY DEF Inv, SubsInv
  <2> QED BY <2>2, <2>3, <2>4 DEF TypeOK, Inv, RoomInv, MainInv
<1> QED BY <1>1, HubInvariant, PTL

\* Room is told of every removal exactly once, whoever removes the
\* subscription: the push thread or the drain of the main thread.
THEOREM ToldOnce == Spec => []OneFarewell
<1>1. Inv => OneFarewell
  <2> SUFFICES ASSUME Inv, main # "exited", NEW c \in DOMAIN conn
               PROVE  conn[c].farewells +
                        Cardinality({x \in {"tick", "main"} :
                          \/ x = "tick" /\ tick.pc = "report" /\ c \in tick.gone
                          \/ x = "main" /\ c \in taken})
                      = IF conn[c].req # "accepted" /\ ~Subscribed(c) THEN 1 ELSE 0
    BY DEF OneFarewell
  <2>1. PICK owed : owed = {x \in {"tick", "main"} :
                          \/ x = "tick" /\ tick.pc = "report" /\ c \in tick.gone
                          \/ x = "main" /\ c \in taken}
    OBVIOUS
  <2>2. /\ ~OwedByTick(c) /\ c \notin taken => owed = {}
        /\ OwedByTick(c) /\ c \notin taken => owed = {"tick"}
        /\ ~OwedByTick(c) /\ c \in taken => owed = {"main"}
    BY <2>1 DEF OwedByTick
  <2>3. /\ ~OwedByTick(c) /\ c \notin taken => Cardinality(owed) = 0
        /\ OwedByTick(c) /\ c \notin taken => Cardinality(owed) = 1
        /\ ~OwedByTick(c) /\ c \in taken => Cardinality(owed) = 1
    BY <2>2, FS_EmptySet, FS_Singleton
  <2>4. IF conn[c].req = "accepted" \/ Subscribed(c)
        THEN conn[c].farewells = 0 /\ ~OwedByTick(c) /\ c \notin taken
        ELSE \/ conn[c].farewells = 1 /\ ~OwedByTick(c) /\ c \notin taken
             \/ conn[c].farewells = 0 /\ OwedByTick(c) /\ c \notin taken
             \/ conn[c].farewells = 0 /\ ~OwedByTick(c) /\ c \in taken
    BY DEF Inv, FarewellInv
  <2>5. conn[c].farewells + Cardinality(owed)
          = IF conn[c].req # "accepted" /\ ~Subscribed(c) THEN 1 ELSE 0
    BY <2>3, <2>4
  <2> QED BY <2>1, <2>5
<1> QED BY <1>1, HubInvariant, PTL

\* Who writes frames to a connection that resumes and was sent nothing yet.
LEMMA FirstWrite ==
    ASSUME Inv, Next, NEW c \in DOMAIN conn, Waiting(c),
           conn'[c].last # Nothing
    PROVE  tick.pc = "reset" \/ conn'[c].last = conn[c].since + 1
<1> SUFFICES ASSUME conn'[c].last # conn[c].last
             PROVE  tick.pc = "reset" \/ conn'[c].last = conn[c].since + 1
  BY DEF Waiting
<1>1. /\ DOMAIN conn = 1..Len(conn) /\ Len(conn) \in Nat
      /\ \A x \in DOMAIN conn : conn[x] \in ConnType
  BY DEF Inv, ConnInv
<1>2. ~UNCHANGED conn
  OBVIOUS
<1>3. ~RoomStep /\ ~TickCollect /\ ~BackfillAsk /\ ~BeginShutdown
      /\ ~CloseAllWithEvent /\ ~Stop /\ ~CloseAll
  BY <1>2 DEF RoomStep, RoomFrame, RoomEnds, RoomSettles, TickCollect, BackfillAsk,
     BeginShutdown, CloseAllWithEvent, Stop, CloseAll
<1>4. ASSUME NEW p \in Player, NEW since \in Header, StreamEvents(p, since)
      PROVE  FALSE
  <2>1. PICK new : conn' = Append(conn, new)
    BY <1>4 DEF StreamEvents
  <2>2. conn'[c] = conn[c]
    BY <1>1, <2>1 DEF Inv, ConnInv
  <2> QED BY <2>2
<1>5. ASSUME NEW x \in DOMAIN conn, Handler(x) \/ PeerLeaves(x) \/ Farewell(x)
      PROVE  FALSE
  <2>1. CASE c # x
    BY <1>1, <1>5, <2>1 DEF Handler, Subscribe, ReportOnline, PeerLeaves, Farewell
  <2>2. CASE c = x
    <3>1. conn[x] \in ConnType
      BY <1>1
    <3>2. conn'[x].last = conn[x].last
      <4>1. CASE Subscribe(x)
        BY <3>1, <4>1 DEF ConnType, Subscribe
      <4>2. CASE ReportOnline(x)
        BY <3>1, <4>2 DEF ConnType, ReportOnline
      <4>3. CASE PeerLeaves(x)
        BY <3>1, <4>3 DEF ConnType, PeerLeaves
      <4>4. CASE Farewell(x)
        BY <3>1, <4>4 DEF ConnType, Farewell
      <4> QED BY <1>5, <4>1, <4>2, <4>3, <4>4 DEF Handler
    <3> QED BY <2>2, <3>2
  <2> QED BY <2>1, <2>2
<1>6. CASE BackfillReset
  BY <1>6 DEF BackfillReset
<1>7. CASE BackfillFrame
  <2>1. PICK of, s, v : of = tick.of /\ s = Head(tick.frames) /\ v = Sent(of, s)
    OBVIOUS
  <2>2. conn' = [conn EXCEPT ![of] = v] /\ tick.pc = "frames"
    BY <1>7, <2>1 DEF BackfillFrame
  <2>3. c = of
    BY <2>2
  <2>4. conn'[c] = v
    BY <2>2, <2>3
  <2>5. s.frame = conn[c].since + 1
    BY <2>1, <2>2, <2>3 DEF Inv, TickInv, TickOK
  <2>6. tick.frames \in Seq(Snap) /\ tick.frames # <<>>
    BY <2>2 DEF Inv, TickInv, TickOK
  <2>7. s \in Snap
    BY <2>1, <2>6
  <2>8. v.last = IF Writable(c) THEN s.frame ELSE conn[c].last
    BY <2>1, <2>3, <2>7, SentOK
  <2> QED BY <2>4, <2>5, <2>8
<1>8. CASE TickRoom
  <2>1. c \notin tick.live
    BY <1>8 DEF TickRoom, Inv, TickInv, TickOK, Serving
  <2>2. conn'[c] = conn[c]
    BY <1>8, <2>1 DEF TickRoom
  <2> QED BY <2>2
<1>9. CASE TickCommit
  <2>1. conn[c] \in ConnType
    BY <1>1
  <2>2. conn'[c] = conn[c] \/ conn'[c] = [conn[c] EXCEPT !.peer = "closed"]
    BY <1>9 DEF TickCommit
  <2>3. conn'[c].last = conn[c].last
    BY <2>1, <2>2 DEF ConnType
  <2> QED BY <2>3
<1>10. CASE ReportGone \/ CloseTaken
  <2>1. PICK x \in DOMAIN conn : Farewell(x)
    BY <1>10 DEF ReportGone, CloseTaken, Inv, TickInv, TickOK, MainInv
  <2> QED BY <1>5, <2>1
<1>11. CASE Exit
  <2>1. conn[c] \in ConnType
    BY <1>1
  <2>2. conn'[c] = [conn[c] EXCEPT !.peer = "closed"]
    BY <1>11 DEF Exit
  <2>3. conn'[c].last = conn[c].last
    BY <2>1, <2>2 DEF ConnType
  <2> QED BY <2>3
<1> QED
  BY <1>3, <1>4, <1>5, <1>6, <1>7, <1>8, <1>9, <1>10, <1>11
  DEF Next, TickStep, Drain

\* A client that names the last frame it has is first sent the next one, or a
\* reset, whatever the room does between the poll and the write.
THEOREM Resumes == Spec => ResumesWhereItLeft
<1> DEFINE Resumed(c) ==
             (/\ conn[c].since >= 0
              /\ conn[c].last = Nothing /\ conn'[c].last # Nothing)
                => tick.pc = "reset" \/ conn'[c].last = conn[c].since + 1
<1>1. ASSUME Inv, Next, NEW c \in DOMAIN conn
      PROVE  Resumed(c)
  <2>1. conn[c].since >= 0 => conn[c].since # NoHeader
    BY DEF NoHeader
  <2> QED BY <1>1, <2>1, FirstWrite DEF Waiting
<1>2. Inv /\ [Next]_vars => [\A c \in DOMAIN conn : Resumed(c)]_vars
  BY <1>1
<1> QED BY <1>2, HubInvariant, PTL DEF Spec, ResumesWhereItLeft
=============================================================================

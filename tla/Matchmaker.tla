----------------------------- MODULE Matchmaker -----------------------------
(***************************************************************************)
(* What the Match service promises to players, without queue, locks, room  *)
(* allocation or snapshots.  A player is out, waiting, or in a match.  All *)
(* players of a match enter it in one step, each of them from waiting, and *)
(* leave it in one step.  Who has left, by a cancel or because his time    *)
(* was up, is not in a match unless he waits again.  The service may lose  *)
(* everything, and may take up an older state when it starts again, but    *)
(* every match it ever shows is one for which there is a room.             *)
(***************************************************************************)
EXTENDS Naturals, FiniteSets

CONSTANTS Player, GroupSize

VARIABLES
    place,      \* [Player -> where the player is]
    rooms       \* the matches for which there is a room

vars == <<place, rooms>>

Out == [at |-> "out"]
Waiting == [at |-> "waiting"]
In(m) == [at |-> "match", match |-> m]

Init ==
    /\ place = [p \in Player |-> Out]
    /\ rooms = {}

\* Each match of a new room is for a full group.
RoomsOpen ==
    /\ rooms \subseteq rooms'
    /\ \A m \in rooms' \ rooms :
          m.players \subseteq Player /\ Cardinality(m.players) = GroupSize

\* From one state of a match to the next it is whole: everybody in or nobody.
Enters(m) ==
    \A p \in m.players : place[p] = Waiting /\ place'[p] = In(m)

Stays(m) ==
    \A p \in m.players : place[p] = In(m) /\ place'[p] = In(m)

Ends(m) ==
    \A p \in m.players : place[p] = In(m) /\ place'[p] \in {Out, Waiting}

Moves(p) ==
    \/ place[p] \in {Out, Waiting} /\ place'[p] \in {Out, Waiting}
    \/ \E m \in rooms : p \in m.players /\ (Enters(m) \/ Stays(m) \/ Ends(m))

\* One lock section of the service may move several players.
Serve ==
    /\ RoomsOpen
    /\ \A p \in Player : Moves(p)

Crash ==
    /\ place' = [p \in Player |-> Out]
    /\ UNCHANGED rooms

Restart ==
    /\ place = [p \in Player |-> Out]
    /\ \A p \in Player :
          \/ place'[p] \in {Out, Waiting}
          \/ \E m \in rooms :
                p \in m.players /\ \A q \in m.players : place'[q] = In(m)
    /\ UNCHANGED rooms

Next == Serve \/ Crash \/ Restart

Spec == Init /\ [][Next]_vars
=============================================================================

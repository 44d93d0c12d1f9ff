---------------------------- MODULE ResultLedger ----------------------------
(***************************************************************************)
(* What the Room service promises about the results of its games, without  *)
(* threads, locks, snapshots or retries: a game is open until it gets a    *)
(* verdict or is abandoned; a verdict is entered into the ledger once and  *)
(* for all; a game is final only when the ledger has an entry for it.  The *)
(* service may lose its games and take them up again, then perhaps from an *)
(* earlier point and towards another verdict: the ledger keeps the first.  *)
(***************************************************************************)
CONSTANTS
    Match,
    Winner            \* possible winners, a draw included

VARIABLES
    game,             \* [Match -> what the service knows of the game]
    stored            \* [Match -> the entry in the ledger, a set of one, or {}]

vars == <<game, stored>>

Gone == [phase |-> "gone"]
Open == [phase |-> "open"]
Abandoned == [phase |-> "abandoned"]
Decided(w) == [phase |-> "decided", winner |-> w]
Final(w) == [phase |-> "final", winner |-> w]

Init ==
    /\ game = [m \in Match |-> Gone]
    /\ stored = [m \in Match |-> {}]

Becomes(m, g) == game'[m] = g /\ stored'[m] = stored[m]

Start(m) == game[m] = Gone /\ Becomes(m, Open)

Decide(m, w) == game[m] = Open /\ Becomes(m, Decided(w))

Abandon(m) == game[m] = Open /\ Becomes(m, Abandoned)

\* The entry is that of the verdict the service holds.
Enter(m, w) ==
    /\ game[m] = Decided(w) /\ stored[m] = {}
    /\ game'[m] = game[m] /\ stored'[m] = {w}

Close(m, w) ==
    /\ game[m] = Decided(w) /\ stored[m] # {}
    /\ Becomes(m, Final(w))

Reap(m) ==
    /\ game[m] = Abandoned \/ \E w \in Winner : game[m] = Final(w)
    /\ Becomes(m, Gone)

\* A crash, and what a restart finds.
Lose(m) == Becomes(m, Gone)

Recover(m) ==
    /\ game[m] = Gone
    /\ \E g \in {Gone, Open} \cup {Decided(w) : w \in Winner} : Becomes(m, g)

Stay(m) == Becomes(m, game[m])

\* One step may move several games: a tick does.
Play ==
    \A m \in Match :
        \/ Stay(m) \/ Start(m) \/ Abandon(m) \/ Reap(m)
        \/ \E w \in Winner : Decide(m, w) \/ Enter(m, w) \/ Close(m, w)

Crash == \A m \in Match : Lose(m)

Restart == \A m \in Match : Recover(m)

Next ==
    /\ game' \in [Match -> {Gone, Open, Abandoned}
                     \cup {Decided(w) : w \in Winner} \cup {Final(w) : w \in Winner}]
    /\ Play \/ Crash \/ Restart

Spec == Init /\ [][Next]_vars
=============================================================================

---------------------------- MODULE MCMatchQueue ----------------------------
(* MatchQueue for TLC: players and request threads are interchangeable.    *)
EXTENDS MatchQueue, TLC

Symmetry == Permutations(Player) \cup Permutations(Thread)
=============================================================================

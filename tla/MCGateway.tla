----------------------------- MODULE MCGateway ------------------------------
(* Gateway for TLC: threads, and players, are interchangeable.             *)
EXTENDS Gateway, TLC

Symmetry == Permutations(Thread) \cup Permutations(Player)
=============================================================================

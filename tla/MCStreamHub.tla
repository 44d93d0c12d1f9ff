----------------------------- MODULE MCStreamHub -----------------------------
(* The Last-Event-ID headers and the frames of each run of StreamHub: a lone *)
(* connection may send any header in a room that plays on, two are made      *)
(* without one, in a room that plays no frame.                               *)
EXTENDS StreamHub

AnyHeader == {NoHeader, Malformed, 0, 2}

AloneOrTwo == <<AnyHeader, {NoHeader}>>
FramesAlone == [n \in 0..2 |-> IF n = 2 THEN 0 ELSE 2]

FirstTimers == <<{NoHeader}, {NoHeader}>>
NoFrame == [n \in 0..2 |-> 0]
==============================================================================

---------------------------- MODULE MCConnection ----------------------------
(* Two requests of one user; the peer of the first one sends. *)
EXTENDS Connection

CONSTANTS c1, u1

MCUser   == [c \in Conns |-> u1]
MCFrames == [c \in Conns |-> IF c = c1 THEN 3 ELSE 0]
=============================================================================

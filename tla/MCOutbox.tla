------------------------------ MODULE MCOutbox ------------------------------
(* Outbox with two sessions of one host and an optional invalid payload. *)
EXTENDS Outbox, TLC

CONSTANTS s1, s2, host

MCHost == [s \in Sessions |-> host]
=============================================================================

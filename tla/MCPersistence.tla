--------------------------- MODULE MCPersistence ---------------------------
(* Two replicas and one business key: a message, its retry with an event id of its *)
(* own, a conflicting one and one that does not decode.                            *)
EXTENDS Persistence

CONSTANTS e1, e2, e3, e4, k1, w1, w2, c1, c2

MCKey == [e \in Events |-> k1]
MCContent == [e \in Events |-> IF e = e3 THEN "other" ELSE "text"]
MCOwner == [w \in Workers |-> IF w = w1 THEN c1 ELSE c2]
=============================================================================

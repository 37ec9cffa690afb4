--------------------------- MODULE MCChatAdmission ---------------------------
(* Three messages: two of one user and one of another. *)
EXTENDS ChatAdmission

CONSTANTS r3, u1, u2

MCUser == [r \in Requests |-> IF r = r3 THEN u2 ELSE u1]
=============================================================================

------------------------------- MODULE ChatLog -------------------------------
(***************************************************************************)
(* What durable Chat promises, without queues, workers or transactions:    *)
(* every accepted event ends either settled or dead-lettered; an event is  *)
(* settled only while its business key holds a message with its content;   *)
(* and a key is written once.                                              *)
(***************************************************************************)
CONSTANTS Events, Keys, Key, Content, None

VARIABLES
    accepted,  \* events the system took responsibility for
    log,       \* the message of each business key
    settled,   \* events whose effect is durable
    dead       \* events handed to an operator

vars == <<accepted, log, settled, dead>>

Init ==
    /\ accepted = {}
    /\ log = [k \in Keys |-> None]
    /\ settled = {}
    /\ dead = {}

Open == accepted \ (settled \cup dead)

Accept(e) ==
    /\ e \notin accepted
    /\ accepted' = accepted \cup {e}
    /\ UNCHANGED <<log, settled, dead>>

\* The first message of a key; its event may be dead-lettered later all the same.
Write(e) ==
    /\ e \in accepted
    /\ log[Key[e]] = None
    /\ log' = [log EXCEPT ![Key[e]] = e]
    /\ UNCHANGED <<accepted, settled, dead>>

Settle(e) ==
    /\ e \in Open
    /\ log[Key[e]] # None /\ Content[log[Key[e]]] = Content[e]
    /\ settled' = settled \cup {e}
    /\ UNCHANGED <<accepted, log, dead>>

DeadLetter(S) ==
    /\ S \subseteq Open
    /\ dead' = dead \cup S
    /\ UNCHANGED <<accepted, log, settled>>

Next ==
    \/ \E e \in Events : Accept(e) \/ Write(e) \/ Settle(e)
    \/ \E S \in SUBSET Events : DeadLetter(S)

Spec == Init /\ [][Next]_vars

\* Every accepted event is settled or dead-lettered in the end: again and again none is
\* open.  What is closed stays closed, so each event is by the next such moment.
EventuallyClosed == []<>(Open = {})
=============================================================================

------------------------------ MODULE MCProcess ------------------------------
(* The four migrations of the repository and two releases of them: the process's, *)
(* and one in which the fourth file was edited.                                   *)
EXTENDS Process

CONSTANTS j1, j2

MCTables == << <<"users">>, <<"live_sessions">>, <<"outbox_events">>,
               <<"chat_messages", "consumer_inbox">> >>

MCRefs == [t \in AllTables |->
    CASE t = "live_sessions" -> {"users"}
      [] t = "chat_messages" -> {"live_sessions", "users"}
      [] OTHER -> {}]

MCContent == [j \in Jobs |-> <<"f1", "f2", "f3", IF j = j1 THEN "f4" ELSE "edited">>]
=============================================================================

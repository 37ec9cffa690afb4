------------------------------- MODULE Process -------------------------------
(***************************************************************************)
(* cmd/server: a process of one release, from its start after the release's *)
(* migration job to its exit.  The state of its parts is reduced to whether *)
(* they run and publish; the parts themselves are the other modules.        *)
(***************************************************************************)
EXTENDS Migrations, FiniteSets

CONSTANT Release  \* the migration job of the process's release

ASSUME ProcessAssumption == Release \in Jobs

VARIABLES
    phase,    \* off, starting, serving, draining, closing, exited, dead
    started,  \* how many steps of Startup are done
    open,     \* the connections and publishers that are open
    state,    \* state[c]: off, running, told to stop, stopped, left at the deadline
    sending   \* the parts that are inside Publish

serverVars == <<phase, started, open, state, sending>>
vars       == <<migrationVars, serverVars>>

Components == {"http", "websocket", "relay", "subscriber", "consumer"}
Publishers == {"outboxPublisher", "chatPublisher"}
Resources  == {"mysql", "redis", "rabbit"} \cup Publishers

\* The steps of main that can fail or that start something, in order.
Startup == <<"mysql", "redis", "rabbit", "topology", "outboxPublisher", "chatPublisher",
             "subscriber", "consumer", "relay", "http">>

Uses(c) ==
    CASE c = "http"       -> {"mysql"}
      [] c = "websocket"  -> {"redis", "chatPublisher"}
      [] c = "relay"      -> {"mysql", "outboxPublisher"}
      [] c = "subscriber" -> {"rabbit"}
      [] c = "consumer"   -> {"mysql", "rabbit"}

ServerInit ==
    /\ phase = "off"
    /\ started = 0
    /\ open = {}
    /\ state = [c \in Components |-> "off"]
    /\ sending = {}

\* A deployment starts its processes when its migration job is complete.
Start ==
    /\ phase \in {"off", "dead"} /\ pc[Release] = "done"
    /\ phase' = "starting"
    /\ started' = 0
    /\ UNCHANGED <<open, state, sending>>

\* The HTTP server and the WebSocket handler behind it start together.
StartStep ==
    /\ phase = "starting"
    /\ LET s == Startup[started + 1] IN
          /\ started' = started + 1
          /\ open' = open \cup ({s} \cap Resources)
          /\ state' = [c \in Components |->
                IF c = s \/ (c = "websocket" /\ s = "http") THEN "running" ELSE state[c]]
    /\ phase' = IF started + 1 = Len(Startup) THEN "serving" ELSE phase
    /\ UNCHANGED <<sending>>

\* log.Fatal, or a signal before NotifyContext: the process ends where it is.
Dies ==
    /\ \/ phase = "starting"
       \/ phase = "serving" \* ListenAndServe failed
    /\ phase' = "dead"
    /\ open' = {}
    /\ state' = [c \in Components |-> "off"]
    /\ sending' = {}
    /\ UNCHANGED <<started>>

(***************************************************************************)
(* Publications of the parts.                                              *)
(***************************************************************************)
Active(c) == state[c] \in {"running", "told", "left"} /\ phase \notin {"dead", "exited"}

\* A closed publisher refuses the call at once, which changes nothing.
Publish(c) ==
    /\ Active(c) /\ c \notin sending
    /\ Uses(c) \cap Publishers \cap open # {}
    /\ sending' = sending \cup {c}
    /\ UNCHANGED <<phase, started, open, state>>

PublishEnds(c) ==
    /\ c \in sending
    /\ sending' = sending \ {c}
    /\ UNCHANGED <<phase, started, open, state>>

(***************************************************************************)
(* Shutdown.                                                               *)
(***************************************************************************)
\* SetDraining, and five goroutines that call the Shutdown of a part each.  A part
\* that was told to stop does until it stops what it did before.
Signal ==
    /\ phase = "serving"
    /\ phase' = "draining"
    /\ state' = [c \in Components |-> "told"]
    /\ UNCHANGED <<started, open, sending>>

\* The part has stopped and its Shutdown returns; one that was left may still stop.
Stops(c) ==
    /\ state[c] \in {"told", "left"} /\ c \notin sending /\ phase # "exited"
    /\ state' = [state EXCEPT ![c] = "stopped"]
    /\ UNCHANGED <<phase, started, open, sending>>

\* Faulty variant: Shutdown waits without its context.
LateKeepsWaiting(c) ==
    /\ phase = "draining" /\ state[c] = "told"
    /\ UNCHANGED serverVars

\* ProcessShutdownTimeout passes and Shutdown returns its error.  server.Close then
\* closes the connections of HTTP requests but does not wait for their handlers.
Late(c) ==
    /\ phase = "draining" /\ state[c] = "told"
    /\ state' = [state EXCEPT ![c] = "left"]
    /\ UNCHANGED <<phase, started, open, sending>>

\* Faulty variant: the wait group counts four goroutines.
WaitedForFour ==
    /\ phase = "draining"
    /\ Cardinality({c \in Components : state[c] # "told"}) >= 4
    /\ phase' = "closing"
    /\ UNCHANGED <<started, open, state, sending>>

Waited ==
    /\ phase = "draining" /\ \A c \in Components : state[c] # "told"
    /\ phase' = "closing"
    /\ UNCHANGED <<started, open, state, sending>>

\* Publisher.Close admits no further call and waits for those it has admitted.
CloseWaits == \E c \in sending : ~(Uses(c) \cap Publishers \subseteq open)

\* The deferred closes, last opened first.
ToClose == CHOOSE r \in open :
    \A i, j \in DOMAIN Startup : Startup[i] = r /\ Startup[j] \in open => j <= i

Close ==
    /\ phase = "closing" /\ open # {} /\ ~CloseWaits
    /\ open' = open \ {ToClose}
    /\ UNCHANGED <<phase, started, state, sending>>

Exit ==
    /\ phase = "closing" /\ open = {} /\ ~CloseWaits
    /\ phase' = "exited"
    /\ UNCHANGED <<started, open, state, sending>>

ServerNext ==
    \/ Start \/ StartStep \/ Dies \/ Signal \/ Waited \/ Close \/ Exit
    \/ \E c \in Components : Publish(c) \/ PublishEnds(c) \/ Stops(c) \/ Late(c)

Init == MigrationsInit /\ ServerInit

Next ==
    \/ MigrationsNext /\ UNCHANGED serverVars
    \/ ServerNext /\ UNCHANGED migrationVars

\* The shutdown's own steps are taken, every publication ends, by its timeout at the
\* latest, a session of a job goes on or is ended by the server, and a job that failed
\* is run again, by the Job's backoffLimit or by the next release step.  Nothing says
\* that a part comes to rest.
Fairness ==
    /\ WF_vars((\E c \in Components : Late(c)) /\ UNCHANGED migrationVars)
    /\ WF_vars((Waited \/ Close \/ Exit) /\ UNCHANGED migrationVars)
    /\ \A c \in {"websocket", "relay"} : WF_vars(PublishEnds(c) /\ UNCHANGED migrationVars)
    /\ \A j \in Jobs :
          WF_vars((Run(j) \/ SessionEnds(j) \/ JobStep(j)) /\ UNCHANGED serverVars)

Spec == Init /\ [][Next]_vars /\ Fairness

(***************************************************************************)
(* Properties.                                                             *)
(***************************************************************************)

\* Type invariant.
TypeOK ==
    /\ MigrationsTypeOK
    /\ phase \in {"off", "starting", "serving", "draining", "closing", "exited", "dead"}
    /\ started \in 0..Len(Startup)
    /\ open \subseteq Resources
    /\ state \in [Components -> {"off", "running", "told", "stopped", "left"}]
    /\ sending \subseteq Components

\* From its start on, a process finds the record its release was built for, whatever
\* jobs of other releases do at the same time: every version is recorded with its own
\* file, and every table was made by that file or by one that was broken off half-way
\* and never recorded.  That the file made it is what ChecksumStandsForFile refutes.
ProcessHasSchema ==
    phase # "off" =>
        \A v \in DOMAIN Content[Release] :
            /\ stored[v] = Content[Release][v]
            /\ \A t \in Range(Tables[v]) : schema[t] \in {Content[Release][v]} \cup broken

\* Shutdown pulls nothing from under a part that it did not have to leave at the
\* deadline, and even then a publication that was admitted gets its confirmation.
CallsAreNotCut ==
    \A c \in Components :
        /\ Active(c) /\ ~(Uses(c) \subseteq open) => state[c] = "left"
        /\ c \in sending => "rabbit" \in open

\* After a signal the process ends, even if no part ever comes to rest.
ProcessExits == phase = "draining" ~> phase = "exited"
=============================================================================

------------------------------ MODULE Realtime ------------------------------
(***************************************************************************)
(* The realtime path of one API instance: the Hub composed with the        *)
(* subscriber that feeds it from this instance's own RabbitMQ queue, and   *)
(* with the admission of WebSocket handlers by AuthorizeJoin.              *)
(*                                                                         *)
(* The status of a session lives in MySQL; a handler reads it once, before *)
(* the upgrade, and joins later.  The API learns of ENDED only from the    *)
(* event the Outbox relays (module Outbox), which is published at least    *)
(* once but is lost for this instance when its queue is gone: the queue is *)
(* exclusive and goes with the subscriber's channel.                       *)
(***************************************************************************)
EXTENDS Hub

CONSTANTS
    MaxChat,          \* bound: Chat and foreign events the exchange routes
    MaxAnnouncements  \* bound: publications of one live_session.ended

ASSUME RealtimeAssumption ==
    /\ MaxChat \in Nat
    /\ MaxAnnouncements \in Nat \ {0}
    /\ IsFiniteSet(Sessions)
    /\ MaxBroadcasts >= MaxChat + MaxAnnouncements * Cardinality(Sessions)

VARIABLES
    status,     \* live_sessions.status
    authorized, \* the session AuthorizeJoin admitted a handler to
    link,       \* the subscriber's channel, and with it the queue: up, down, stopped
    feed,       \* the queue: events not handled yet
    handling,   \* the delivery between MarkSessionEnded and BroadcastIfPresent
    chats,      \* Chat and foreign events published so far
    announced,  \* publications of live_session.ended so far, by session
    observed,   \* history: sessions whose end this API has observed
    missed,     \* history: sessions an announcement of which this API lost
    late        \* history: clients that joined a session already observed ended

busVars  == <<status, link, feed, handling, chats, announced, observed, missed>>
joinVars == <<authorized, late>>
realtimeVars == <<vars, busVars, joinVars>>

Event == [session : Sessions, kind : {"chat", "ended", "foreign"}]

RealtimeInit ==
    /\ Init
    /\ status = [s \in Sessions |-> "LIVE"]
    /\ authorized = [c \in Clients |-> NoSession]
    /\ link = "up"
    /\ feed = <<>>
    /\ handling = <<>>
    /\ chats = 0
    /\ announced = [s \in Sessions |-> 0]
    /\ observed = {}
    /\ missed = {}
    /\ late = {}

(***************************************************************************)
(* MySQL and the exchange.                                                 *)
(***************************************************************************)

\* repository.End commits; module Outbox has the details.
EndSession(s) ==
    /\ status[s] = "LIVE"
    /\ status' = [status EXCEPT ![s] = "ENDED"]
    /\ UNCHANGED <<vars, link, feed, handling, chats, announced, observed, missed, joinVars>>

\* The exchange routes an event to the queue, if this API has one.
Route(ev) == feed' = IF link = "up" THEN Append(feed, ev) ELSE feed

\* A relay publishes live_session.ended, possibly again.
AnnounceEnd(s) ==
    /\ status[s] = "ENDED"
    /\ announced[s] < MaxAnnouncements
    /\ announced' = [announced EXCEPT ![s] = @ + 1]
    /\ Route([session |-> s, kind |-> "ended"])
    /\ missed' = IF link = "up" THEN missed ELSE missed \cup {s}
    /\ UNCHANGED <<vars, status, link, handling, chats, observed, joinVars>>

\* Some API instance publishes an accepted Chat message, or something publishes what
\* this version cannot decode, does not support or finds invalid.
PublishChat(s) ==
    /\ chats < MaxChat
    /\ chats' = chats + 1
    /\ \E kind \in {"chat", "foreign"} : Route([session |-> s, kind |-> kind])
    /\ UNCHANGED <<vars, status, link, handling, announced, observed, missed, joinVars>>

(***************************************************************************)
(* The subscriber.                                                         *)
(***************************************************************************)

\* A foreign event is acknowledged and dropped.
Discard ==
    /\ feed # <<>> /\ handling = <<>>
    /\ Head(feed).kind = "foreign"
    /\ feed' = Tail(feed)
    /\ UNCHANGED <<vars, status, link, handling, chats, announced, observed, missed, joinVars>>

\* handleDelivery up to the call of BroadcastIfPresent.
Observe ==
    /\ feed # <<>> /\ handling = <<>>
    /\ Head(feed).kind # "foreign"
    /\ feed' = Tail(feed)
    /\ handling' = <<Head(feed)>>
    /\ LET s == Head(feed).session IN
       IF Head(feed).kind = "ended"
         THEN /\ observed' = observed \cup {s}
              /\ \/ MarkSessionEnded(s)
                 \/ rooms[s] = NoRoom /\ UNCHANGED vars
         ELSE UNCHANGED <<vars, observed>>
    /\ UNCHANGED <<status, link, chats, announced, missed, joinVars>>

\* Faulty variant: the subscriber waits for a room that can take the event.
ForwardWaits ==
    /\ handling # <<>>
    /\ Accepts(Head(handling).session)
    /\ BroadcastIfPresent(Head(handling).session)
    /\ handling' = <<>>
    /\ UNCHANGED <<status, link, feed, chats, announced, observed, missed, joinVars>>

\* BroadcastIfPresent and the acknowledgement, whatever came of the broadcast.
Forward ==
    /\ handling # <<>>
    /\ BroadcastIfPresent(Head(handling).session)
    /\ handling' = <<>>
    /\ UNCHANGED <<status, link, feed, chats, announced, observed, missed, joinVars>>

\* The exclusive queue goes with its channel, and with it what is still there.
LoseFeed ==
    /\ feed' = <<>>
    /\ missed' = missed \cup
          {s \in Sessions : \E i \in DOMAIN feed : feed[i] = [session |-> s, kind |-> "ended"]}
    /\ UNCHANGED <<vars, status, handling, chats, announced, observed, joinVars>>

\* The channel is lost.
LinkLost ==
    /\ link = "up"
    /\ link' = "down"
    /\ LoseFeed

\* Shutdown has cancelled the context, and the goroutine finds out between two
\* deliveries or while it recovers; it closes the channel and ends.
Stop ==
    /\ link # "stopped" /\ handling = <<>>
    /\ link' = "stopped"
    /\ LoseFeed

\* recoverSession declares and binds a new, empty queue.
Recover ==
    /\ link = "down" /\ handling = <<>>
    /\ link' = "up"
    /\ UNCHANGED <<vars, status, feed, handling, chats, announced, observed, missed, joinVars>>

(***************************************************************************)
(* Connection handlers.                                                    *)
(***************************************************************************)

\* AuthorizeJoin reads the status; the upgrade and Join come later.
AuthorizeJoin(c, s) ==
    /\ conn[c] = "start" /\ authorized[c] = NoSession
    /\ status[s] = "LIVE"
    /\ authorized' = [authorized EXCEPT ![c] = s]
    /\ UNCHANGED <<vars, busVars, late>>

\* Join of an admitted handler.
Join(c, s) ==
    /\ authorized[c] = s
    /\ \/ /\ JoinExisting(c, s) \/ JoinNew(c, s)
          /\ late' = IF s \in observed THEN late \cup {c} ELSE late
       \/ JoinRefused(c, s) /\ UNCHANGED late
    /\ UNCHANGED <<busVars, authorized>>

\* The rest of the Hub is not aware of sessions and queues.
HubStep ==
    /\ \/ \E c \in Clients : EnqueueAck(c) \/ Write(c) \/ LeaveGone(c) \/ Leave(c)
       \/ \E r \in Rooms : RequestStop(r) \/ RoomStep(r)
       \/ Shutdown \/ ShutdownReturns \/ ShutdownTimesOut
    /\ UNCHANGED <<busVars, joinVars>>

RealtimeNext ==
    \/ \E s \in Sessions : EndSession(s) \/ AnnounceEnd(s) \/ PublishChat(s)
    \/ \E c \in Clients, s \in Sessions : AuthorizeJoin(c, s) \/ Join(c, s)
    \/ Discard \/ Observe \/ Forward \/ LinkLost \/ Recover \/ Stop
    \/ HubStep

RealtimeSpec == RealtimeInit /\ [][RealtimeNext]_realtimeVars

\* The Go scheduler runs every goroutine that is ready: a room goroutine keeps
\* stepping, a Leave or Shutdown that released Hub.mu goes on to requestStop, and the
\* subscriber handles what is delivered.  Nothing is assumed of relays, handlers or
\* the link.
RealtimeFairSpec ==
    /\ RealtimeSpec
    /\ \A r \in Rooms :
          /\ WF_realtimeVars(RoomStep(r) /\ UNCHANGED <<busVars, joinVars>>)
          /\ WF_realtimeVars(RequestStop(r) /\ UNCHANGED <<busVars, joinVars>>)
    /\ WF_realtimeVars(Discard \/ Observe \/ Forward)

(***************************************************************************)
(* Properties.                                                             *)
(***************************************************************************)

\* Every variable of the realtime path keeps its type.
RealtimeTypeOK ==
    /\ status \in [Sessions -> {"LIVE", "ENDED"}]
    /\ authorized \in [Clients -> Sessions \cup {NoSession}]
    /\ link \in {"up", "down", "stopped"}
    /\ feed \in Seq(Event)
    /\ handling \in Seq(Event)
    /\ chats \in 0..MaxChat
    /\ announced \in [Sessions -> 0..MaxAnnouncements]
    /\ observed \in SUBSET Sessions
    /\ missed \in SUBSET Sessions
    /\ late \in SUBSET Clients

\* The gate is asked by session, not by client.  Whoever passes it for a session
\* whose end this API has observed joined after that, or was cut off before: its
\* client is closed, its handler has not left yet, and it passes through the room
\* that a later client opened.  Every other connection of the session, in whatever
\* order it joined, is shut out.  (A handler that has left asks no more: its
\* context is cancelled before Leave.)
GateClosedOnMembers ==
    \A s \in observed : SendAllowed(s) =>
        \A c \in Clients : conn[c] = "connected" /\ target[c] = s =>
            c \in late \/ client[c] = "closed"

\* The documented cutoff: an API that observed the end of a session takes no
\* new frames for it.  A handler that AuthorizeJoin admitted before the end may
\* join after the last member left: it gets a new room, whose gate is open.
GateClosedOnceObserved == \A s \in observed : ~SendAllowed(s)

\* An announced end is observed, or this API lost an announcement of it with its
\* queue: full rooms, closed hubs and foreign events do not keep it from the gate.
EndIsObserved ==
    \A s \in Sessions : announced[s] > 0 ~> s \in observed \cup missed
=============================================================================

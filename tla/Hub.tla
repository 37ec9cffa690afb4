-------------------------------- MODULE Hub --------------------------------
(***************************************************************************)
(* The process-local WebSocket fan-out of one API instance                 *)
(* (internal/websocket): the Hub's map from live sessions to rooms, one    *)
(* goroutine per room, and the outbound queue of each client.              *)
(*                                                                         *)
(* A critical section of Hub.mu is one action.  What the code does outside *)
(* of it is an action of its own: Leave and Shutdown close a room's stopCh *)
(* after they released Hub.mu (stopOwed), and a room goroutine delivers,   *)
(* asks for its own removal and marks itself closed in separate steps      *)
(* (roomPc).  The pool Rooms bounds how many *room values are ever         *)
(* allocated; MaxBroadcasts bounds the messages offered to the Hub.        *)
(***************************************************************************)
EXTENDS Integers, Sequences, FiniteSets

CONSTANTS
    Sessions,      \* live session ids
    Clients,       \* *Client values: one per WebSocket connection
    Rooms,         \* *room values that Join may allocate
    NoRoom,        \* the nil *room
    NoSession,     \* the id of a room that is not allocated yet
    RoomQueueCap,  \* roomBroadcastQueueCapacity
    ClientQueueCap,\* sendQueueCapacity
    MaxBroadcasts  \* bound: messages handed to BroadcastIfPresent

ASSUME HubAssumption ==
    /\ NoRoom \notin Rooms
    /\ NoSession \notin Sessions
    /\ RoomQueueCap \in Nat \ {0}      \* NewHub refuses other capacities
    /\ ClientQueueCap \in Nat \ {0}    \* and so does NewClient
    /\ MaxBroadcasts \in Nat

VARIABLES
    hubClosed,  \* Hub.closed
    rooms,      \* Hub.rooms
    stopOwed,   \* rooms whose requestStop a Leave or Shutdown still has to call
    shutdown,   \* the one Shutdown call: idle, waiting on roomsWG, returned, timedout
    roomPc,     \* where the goroutine of a room is
    roomId,     \* room.id
    members,    \* room.clients
    roomClosed, \* room.closed
    ended,      \* room.ended
    stopped,    \* room.stopCh is closed
    queue,      \* room.broadcastCh
    inHand,     \* the message a room goroutine took and has not delivered yet
    client,     \* Client.joined and Client.closed: new, joined or closed
    conn,       \* the connection handler that owns the client
    target,     \* the live session that handler joined
    pending,    \* length of Client.outboundCh
    sent,       \* history: messages handed to BroadcastIfPresent so far
    accepted,   \* history: messages a room's queue took
    received,   \* history: room messages a client's outbound queue took
    joinedAt    \* history: messages its room had accepted when a client joined

hubVars    == <<hubClosed, rooms, stopOwed, shutdown>>
roomVars   == <<roomPc, roomId, members, roomClosed, ended, stopped, queue, inHand>>
clientVars == <<client, conn, target, pending>>
histVars   == <<sent, accepted, received, joinedAt>>
vars       == <<hubVars, roomVars, clientVars, histVars>>

Messages == 1..MaxBroadcasts

Init ==
    /\ hubClosed = FALSE
    /\ rooms = [s \in Sessions |-> NoRoom]
    /\ stopOwed = {}
    /\ shutdown = "idle"
    /\ roomPc = [r \in Rooms |-> "none"]
    /\ roomId = [r \in Rooms |-> NoSession]
    /\ members = [r \in Rooms |-> {}]
    /\ roomClosed = [r \in Rooms |-> FALSE]
    /\ ended = [r \in Rooms |-> FALSE]
    /\ stopped = [r \in Rooms |-> FALSE]
    /\ queue = [r \in Rooms |-> <<>>]
    /\ inHand = [r \in Rooms |-> <<>>]
    /\ client = [c \in Clients |-> "new"]
    /\ conn = [c \in Clients |-> "start"]
    /\ target = [c \in Clients |-> NoSession]
    /\ pending = [c \in Clients |-> 0]
    /\ sent = 0
    /\ accepted = [r \in Rooms |-> <<>>]
    /\ received = [c \in Clients |-> <<>>]
    /\ joinedAt = [c \in Clients |-> 0]

(***************************************************************************)
(* Clients.                                                                *)
(***************************************************************************)

\* close() on every client of a set: idempotent, and it clears joined.
CloseClients(cs) == [c \in Clients |-> IF c \in cs THEN "closed" ELSE client[c]]

\* EnqueueOutbound reports whether an open client's queue has room.
CanEnqueue(c) == client[c] # "closed" /\ pending[c] < ClientQueueCap

\* The processor enqueues a Chat acknowledgement on its own client.  When the
\* queue is full or closed nothing changes here: the handler fails and leaves.
EnqueueAck(c) ==
    /\ conn[c] = "connected"
    /\ CanEnqueue(c)
    /\ pending' = [pending EXCEPT ![c] = @ + 1]
    /\ UNCHANGED <<hubVars, roomVars, client, conn, target, histVars>>

\* writePump takes one message off the outbound queue.
Write(c) ==
    /\ conn[c] = "connected"
    /\ pending[c] > 0
    /\ pending' = [pending EXCEPT ![c] = @ - 1]
    /\ UNCHANGED <<hubVars, roomVars, client, conn, target, histVars>>

(***************************************************************************)
(* The Hub.                                                                *)
(***************************************************************************)

\* room.add succeeds on a room that is neither closed nor ended.
Admits(r) == ~roomClosed[r] /\ ~ended[r]

\* What add and the enclosing claimRoom change once client c enters room r.
Enter(c, s, r) ==
    /\ members' = [members EXCEPT ![r] = @ \cup {c}]
    /\ client' = [client EXCEPT ![c] = "joined"]
    /\ conn' = [conn EXCEPT ![c] = "connected"]
    /\ target' = [target EXCEPT ![c] = s]
    /\ joinedAt' = [joinedAt EXCEPT ![c] = Len(accepted[r])]

\* Join on a session that has a room.
JoinExisting(c, s) ==
    /\ conn[c] = "start" /\ client[c] = "new"
    /\ ~hubClosed
    /\ rooms[s] # NoRoom
    /\ Admits(rooms[s])
    /\ Enter(c, s, rooms[s])
    /\ UNCHANGED <<hubVars, roomPc, roomId, roomClosed, ended, stopped, queue,
                   inHand, pending, sent, accepted, received>>

\* newRoom: which of the unused values stands for a new room makes no difference.
NextRoom == CHOOSE r \in Rooms : roomPc[r] = "none"

\* Join on a session without a room allocates one and starts its goroutine.
JoinNew(c, s) ==
    /\ conn[c] = "start" /\ client[c] = "new"
    /\ ~hubClosed
    /\ rooms[s] = NoRoom
    /\ \E r \in Rooms :
         /\ roomPc[r] = "none" /\ r = NextRoom
         /\ Enter(c, s, r)
         /\ rooms' = [rooms EXCEPT ![s] = r]
         /\ roomPc' = [roomPc EXCEPT ![r] = "select"]
         /\ roomId' = [roomId EXCEPT ![r] = s]
    /\ UNCHANGED <<hubClosed, stopOwed, shutdown, roomClosed, ended, stopped,
                   queue, inHand, pending, sent, accepted, received>>

\* Join fails (hub closed, room closed or ended): the claim is rolled back and
\* the handler closes the connection.
JoinRefused(c, s) ==
    /\ conn[c] = "start" /\ client[c] = "new"
    /\ hubClosed \/ (rooms[s] # NoRoom /\ ~Admits(rooms[s]))
    /\ conn' = [conn EXCEPT ![c] = "refused"]
    /\ UNCHANGED <<hubVars, roomVars, client, target, pending, histVars>>

\* The room Leave has to delete, given that c is taken out of r: r when it is
\* then empty, whether or not c was still one of its members.
EmptiedBy(r, c) == IF members[r] \ {c} = {} THEN {r} ELSE {}

\* Leave finds no room for the session: nothing to do.
LeaveGone(c) ==
    /\ conn[c] = "connected"
    /\ rooms[target[c]] = NoRoom
    /\ conn' = [conn EXCEPT ![c] = "left"]
    /\ UNCHANGED <<hubVars, roomVars, client, target, pending, histVars>>

\* Leave up to the release of Hub.mu.  A client that is no longer a member is
\* not closed again, but an empty room is deleted all the same.
Leave(c) ==
    LET r == rooms[target[c]] IN
    /\ conn[c] = "connected"
    /\ r # NoRoom
    /\ members' = [members EXCEPT ![r] = @ \ {c}]
    /\ client' = CloseClients(members[r] \cap {c})
    /\ rooms' = [rooms EXCEPT ![target[c]] =
                    IF EmptiedBy(r, c) = {} THEN r ELSE NoRoom]
    /\ stopOwed' = stopOwed \cup EmptiedBy(r, c)
    /\ conn' = [conn EXCEPT ![c] = "left"]
    /\ UNCHANGED <<hubClosed, shutdown, roomPc, roomId, roomClosed, ended,
                   stopped, queue, inHand, target, pending, histVars>>

\* requestStop, called by Leave and Shutdown after they released Hub.mu.
RequestStop(r) ==
    /\ r \in stopOwed
    /\ stopOwed' = stopOwed \ {r}
    /\ stopped' = [stopped EXCEPT ![r] = TRUE]
    /\ UNCHANGED <<hubClosed, rooms, shutdown, roomPc, roomId, members,
                   roomClosed, ended, queue, inHand, clientVars, histVars>>

\* BroadcastIfPresent offers the next message to the room of session s; a
\* closed hub, a missing room, a stopped room or a full queue drops it.
Accepts(s) ==
    /\ ~hubClosed
    /\ rooms[s] # NoRoom
    /\ ~stopped[rooms[s]]
    /\ Len(queue[rooms[s]]) < RoomQueueCap

BroadcastIfPresent(s) ==
    LET r == rooms[s] IN
    /\ sent < MaxBroadcasts
    /\ sent' = sent + 1
    /\ IF Accepts(s)
         THEN /\ queue' = [queue EXCEPT ![r] = Append(@, sent + 1)]
              /\ accepted' = [accepted EXCEPT ![r] = Append(@, sent + 1)]
         ELSE UNCHANGED <<queue, accepted>>
    /\ UNCHANGED <<hubVars, roomPc, roomId, members, roomClosed, ended, stopped,
                   inHand, clientVars, received, joinedAt>>

\* MarkSessionEnded closes the send gate of the room the session has now.
MarkSessionEnded(s) ==
    /\ rooms[s] # NoRoom
    /\ ended' = [ended EXCEPT ![rooms[s]] = TRUE]
    /\ UNCHANGED <<hubVars, roomPc, roomId, members, roomClosed, stopped, queue,
                   inHand, clientVars, histVars>>

\* Faulty variant: the gate looks only at the room's lifetime.
SendAllowedIgnoresEnd(s) == rooms[s] # NoRoom /\ ~roomClosed[rooms[s]]

\* SendAllowed, which the connection handler asks before it accepts a frame.
SendAllowed(s) ==
    rooms[s] # NoRoom /\ ~roomClosed[rooms[s]] /\ ~ended[rooms[s]]

\* Shutdown up to the release of Hub.mu: it takes every room out of the map.
Shutdown ==
    /\ shutdown = "idle"
    /\ shutdown' = "waiting"
    /\ hubClosed' = TRUE
    /\ stopOwed' = stopOwed \cup {rooms[s] : s \in {t \in Sessions : rooms[t] # NoRoom}}
    /\ rooms' = [s \in Sessions |-> NoRoom]
    /\ UNCHANGED <<roomVars, clientVars, histVars>>

\* Faulty variant: the room goroutines are not waited for.
ShutdownReturnsEarly ==
    /\ shutdown = "waiting"
    /\ shutdown' = "returned"
    /\ UNCHANGED <<hubClosed, rooms, stopOwed, roomVars, clientVars, histVars>>

\* roomsWG counts the goroutines that were started and have not returned.
ShutdownReturns ==
    /\ shutdown = "waiting"
    /\ \A r \in Rooms : roomPc[r] \in {"none", "done"}
    /\ shutdown' = "returned"
    /\ UNCHANGED <<hubClosed, rooms, stopOwed, roomVars, clientVars, histVars>>

\* The shutdown context expires first.
ShutdownTimesOut ==
    /\ shutdown = "waiting"
    /\ shutdown' = "timedout"
    /\ UNCHANGED <<hubClosed, rooms, stopOwed, roomVars, clientVars, histVars>>

(***************************************************************************)
(* The goroutine of a room.                                                *)
(***************************************************************************)

\* run's select takes a broadcast message.
Take(r) ==
    /\ roomPc[r] = "select"
    /\ queue[r] # <<>>
    /\ inHand' = [inHand EXCEPT ![r] = <<Head(queue[r])>>]
    /\ queue' = [queue EXCEPT ![r] = Tail(@)]
    /\ roomPc' = [roomPc EXCEPT ![r] = "deliver"]
    /\ UNCHANGED <<hubVars, roomId, members, roomClosed, ended, stopped,
                   clientVars, histVars>>

\* Faulty variant: a full client misses the message and stays a member.
DeliverSkipsSlow(r) ==
    LET kept == {c \in members[r] : CanEnqueue(c)} IN
    /\ roomPc[r] = "deliver"
    /\ pending' = [c \in Clients |-> IF c \in kept THEN pending[c] + 1 ELSE pending[c]]
    /\ received' = [c \in Clients |->
                       IF c \in kept THEN received[c] \o inHand[r] ELSE received[c]]
    /\ inHand' = [inHand EXCEPT ![r] = <<>>]
    /\ roomPc' = [roomPc EXCEPT ![r] = IF members[r] = {} THEN "emptied" ELSE "select"]
    /\ UNCHANGED <<hubVars, roomId, members, roomClosed, ended, stopped, queue,
                   client, conn, target, sent, accepted, joinedAt>>

\* deliver gives the message to every member whose queue has room, and removes
\* and closes the others.  An empty room then asks for its removal.
Deliver(r) ==
    LET slow == {c \in members[r] : ~CanEnqueue(c)}
        kept == members[r] \ slow
    IN
    /\ roomPc[r] = "deliver"
    /\ members' = [members EXCEPT ![r] = kept]
    /\ client' = CloseClients(slow)
    /\ pending' = [c \in Clients |-> IF c \in kept THEN pending[c] + 1 ELSE pending[c]]
    /\ received' = [c \in Clients |->
                       IF c \in kept THEN received[c] \o inHand[r] ELSE received[c]]
    /\ inHand' = [inHand EXCEPT ![r] = <<>>]
    /\ roomPc' = [roomPc EXCEPT ![r] = IF kept = {} THEN "emptied" ELSE "select"]
    /\ UNCHANGED <<hubVars, roomId, roomClosed, ended, stopped, queue, conn,
                   target, sent, accepted, joinedAt>>

\* Faulty variant: nobody looks again whether the room is still empty.
RemovableUnchecked(r) == rooms[roomId[r]] = r

\* removeIfEmpty looks again, under Hub.mu, whether the room is still the one
\* of its session and still empty.
Removable(r) == rooms[roomId[r]] = r /\ members[r] = {}

RemoveIfEmpty(r) ==
    /\ roomPc[r] = "emptied"
    /\ rooms' = IF Removable(r) THEN [rooms EXCEPT ![roomId[r]] = NoRoom] ELSE rooms
    /\ roomPc' = [roomPc EXCEPT ![r] = IF Removable(r) THEN "removed" ELSE "select"]
    /\ UNCHANGED <<hubClosed, stopOwed, shutdown, roomId, members, roomClosed,
                   ended, stopped, queue, inHand, clientVars, histVars>>

\* markClosed, and the goroutine returns.
MarkClosed(r) ==
    /\ roomPc[r] = "removed"
    /\ roomClosed' = [roomClosed EXCEPT ![r] = TRUE]
    /\ roomPc' = [roomPc EXCEPT ![r] = "done"]
    /\ UNCHANGED <<hubVars, roomId, members, ended, stopped, queue, inHand,
                   clientVars, histVars>>

\* run's select sees stopCh closed; a message may still be queued.
CloseAll(r) ==
    /\ roomPc[r] = "select"
    /\ stopped[r]
    /\ roomClosed' = [roomClosed EXCEPT ![r] = TRUE]
    /\ members' = [members EXCEPT ![r] = {}]
    /\ client' = CloseClients(members[r])
    /\ roomPc' = [roomPc EXCEPT ![r] = "done"]
    /\ UNCHANGED <<hubVars, roomId, ended, stopped, queue, inHand, conn, target,
                   pending, histVars>>

\* Faulty variant: run does not listen to stopCh.
RoomStepDeaf(r) == Take(r) \/ Deliver(r) \/ RemoveIfEmpty(r) \/ MarkClosed(r)

\* run: one step of the goroutine.
RoomStep(r) == Take(r) \/ Deliver(r) \/ RemoveIfEmpty(r) \/ MarkClosed(r) \/ CloseAll(r)

Next ==
    \/ \E c \in Clients : EnqueueAck(c) \/ Write(c) \/ LeaveGone(c) \/ Leave(c)
    \/ \E c \in Clients, s \in Sessions :
          JoinExisting(c, s) \/ JoinNew(c, s) \/ JoinRefused(c, s)
    \/ \E s \in Sessions : BroadcastIfPresent(s) \/ MarkSessionEnded(s)
    \/ \E r \in Rooms : RequestStop(r) \/ RoomStep(r)
    \/ Shutdown \/ ShutdownReturns \/ ShutdownTimesOut

Spec == Init /\ [][Next]_vars

(***************************************************************************)
(* Properties.                                                             *)
(***************************************************************************)

\* Every variable keeps its type; queues keep to their capacities.
TypeOK ==
    /\ hubClosed \in BOOLEAN
    /\ rooms \in [Sessions -> Rooms \cup {NoRoom}]
    /\ stopOwed \in SUBSET Rooms
    /\ shutdown \in {"idle", "waiting", "returned", "timedout"}
    /\ roomPc \in [Rooms -> {"none", "select", "deliver", "emptied", "removed", "done"}]
    /\ roomId \in [Rooms -> Sessions \cup {NoSession}]
    /\ members \in [Rooms -> SUBSET Clients]
    /\ roomClosed \in [Rooms -> BOOLEAN]
    /\ ended \in [Rooms -> BOOLEAN]
    /\ stopped \in [Rooms -> BOOLEAN]
    /\ queue \in [Rooms -> Seq(Messages)]
    /\ \A r \in Rooms : Len(queue[r]) <= RoomQueueCap
    /\ inHand \in [Rooms -> Seq(Messages)]
    /\ client \in [Clients -> {"new", "joined", "closed"}]
    /\ conn \in [Clients -> {"start", "connected", "refused", "left"}]
    /\ target \in [Clients -> Sessions \cup {NoSession}]
    /\ pending \in [Clients -> 0..ClientQueueCap]
    /\ sent \in 0..MaxBroadcasts
    /\ accepted \in [Rooms -> Seq(Messages)]
    /\ received \in [Clients -> Seq(Messages)]
    /\ joinedAt \in [Clients -> Nat]

Running(r) == roomPc[r] \notin {"none", "done"}
Mapped(r) == roomId[r] \in Sessions /\ rooms[roomId[r]] = r

\* A room that Hub.rooms still holds has a goroutine that serves it: it is not
\* closed, nobody stopped it or is about to, and it files under its own session.
\* So Join never adds a client to a dead room and a broadcast it accepts is
\* never left in a queue that nobody reads, although requestStop, markClosed
\* and closeAll all run outside Hub.mu.
MappedRoomIsServed ==
    \A s \in Sessions :
        LET r == rooms[s] IN
        r # NoRoom =>
            /\ roomId[r] = s
            /\ roomPc[r] \in {"select", "deliver", "emptied"}
            /\ ~roomClosed[r] /\ ~stopped[r] /\ r \notin stopOwed

\* A joined client is in exactly one room, the one Hub.rooms holds for the
\* session its handler joined; only when the hub shuts down may that room be out
\* of the map, and then its goroutine is stopped or about to be, which closes
\* the client.  No client is left open where neither broadcasts nor Shutdown
\* reach it, whatever slow-client removals, leaves and re-created rooms do.
NoOrphanClient ==
    \A c \in Clients : client[c] = "joined" =>
        \E r \in Rooms :
            /\ c \in members[r]
            /\ \A q \in Rooms : c \in members[q] => q = r
            /\ Running(r) /\ roomPc[r] # "removed"
            /\ roomId[r] = target[c]
            /\ Mapped(r) \/ (hubClosed /\ (stopped[r] \/ r \in stopOwed))

\* The goroutine of a room that left the map always has a reason to end: it was
\* or is about to be stopped, or it removed itself.  Otherwise roomsWG never
\* drains and Shutdown only ends by its timeout.
NoLeakedRoom ==
    \A r \in Rooms : Running(r) =>
        Mapped(r) \/ stopped[r] \/ r \in stopOwed \/ roomPc[r] = "removed"

\* When Shutdown returns without error every client that joined is closed.
ShutdownClosedClients ==
    shutdown = "returned" => \A c \in Clients : client[c] # "joined"

\* What a joined client has been given, with what its room still holds, is a
\* gapless end of what the room accepted and contains everything accepted since
\* the client joined: a slow client is cut off, it never misses a message.
NoGap ==
    \A r \in Rooms, c \in Clients : c \in members[r] =>
        LET got == received[c] \o inHand[r] \o queue[r]
            all == accepted[r]
        IN /\ Len(got) <= Len(all)
           /\ got = SubSeq(all, Len(all) - Len(got) + 1, Len(all))
           /\ Len(got) >= Len(all) - joinedAt[c]

\* The goroutine of a room that left the map does end: again and again no other room
\* than those in the map runs.  A room does not return to the map, so each has ended
\* by the next such moment.
UnmappedRoomsEnd == []<>(\A r \in Rooms : Running(r) => Mapped(r))
=============================================================================

------------------------------ MODULE HubProofs ------------------------------
(***************************************************************************)
(* Proofs about Hub for every number of sessions, clients and rooms and    *)
(* every queue capacity; and, at the end, about Realtime: the Hub inside   *)
(* the realtime path behaves as the Hub alone may, so that what is shown   *)
(* of it holds there, and the send gate stays closed on everyone who was   *)
(* in the room when the end was observed.                                  *)
(***************************************************************************)
EXTENDS Realtime, TLAPS

\* A room value is fresh until Join allocates it, and then has a session.
FreshRooms ==
    \A r \in Rooms :
        /\ roomPc[r] = "none" =>
              ~roomClosed[r] /\ ~ended[r] /\ ~stopped[r] /\ r \notin stopOwed
        /\ roomPc[r] # "none" => roomId[r] \in Sessions

\* The members of a room are joined clients of its session, and its goroutine
\* will still look at them.
MembersAreJoined ==
    \A r \in Rooms : \A c \in members[r] :
        /\ client[c] = "joined"
        /\ roomId[r] = target[c]
        /\ roomPc[r] \in {"select", "deliver", "emptied"}

\* A joined client is a member somewhere, and of one room only.
JoinedAreMembers ==
    /\ \A c \in Clients : client[c] = "joined" => \E r \in Rooms : c \in members[r]
    /\ \A q, r \in Rooms : \A c \in Clients :
          c \in members[q] /\ c \in members[r] => q = r

\* Only the shutdown takes a room with members out of the map.
MembersAreReachable ==
    \A r \in Rooms : members[r] # {} =>
        Mapped(r) \/ (hubClosed /\ (stopped[r] \/ r \in stopOwed))

\* The handler and the client it owns.
HandlerAndClient ==
    \A c \in Clients :
        /\ conn[c] = "connected" => target[c] \in Sessions /\ client[c] # "new"
        /\ client[c] = "joined" => conn[c] \in {"connected", "left"}

\* A closed hub maps no room, and after Shutdown returned no goroutine runs.
ClosedHubIsEmpty ==
    /\ hubClosed <=> shutdown # "idle"
    /\ hubClosed => \A s \in Sessions : rooms[s] = NoRoom
    /\ shutdown = "returned" => \A r \in Rooms : roomPc[r] \in {"none", "done"}

IndInv ==
    /\ TypeOK
    /\ FreshRooms
    /\ MappedRoomIsServed
    /\ MembersAreJoined
    /\ JoinedAreMembers
    /\ MembersAreReachable
    /\ HandlerAndClient
    /\ ClosedHubIsEmpty
    /\ NoLeakedRoom

-----------------------------------------------------------------------------

\* Every action keeps the types; the queues keep to their capacity.
LEMMA TypeStep == TypeOK /\ HandlerAndClient /\ [Next]_vars => TypeOK'
<1> SUFFICES ASSUME TypeOK, HandlerAndClient, [Next]_vars PROVE TypeOK'
  OBVIOUS
<1> USE HubAssumption DEF TypeOK, Messages
<1>1. CASE UNCHANGED vars
  BY <1>1 DEF vars, hubVars, roomVars, clientVars, histVars
<1>2. ASSUME NEW c \in Clients, EnqueueAck(c) \/ Write(c)
      PROVE  TypeOK'
  <2>1. pending' \in [Clients -> 0..ClientQueueCap]
    <3>1. pending[c] \in 0..ClientQueueCap
      OBVIOUS
    <3>2. CASE EnqueueAck(c)
      <4>1. pending[c] + 1 \in 0..ClientQueueCap
        BY <3>1, <3>2 DEF EnqueueAck, CanEnqueue
      <4> QED
        BY <3>2, <4>1 DEF EnqueueAck
    <3>3. CASE Write(c)
      <4>1. pending[c] - 1 \in 0..ClientQueueCap
        BY <3>1, <3>3 DEF Write
      <4> QED
        BY <3>3, <4>1 DEF Write
    <3> QED
      BY <1>2, <3>2, <3>3
  <2> QED
    BY <1>2, <2>1 DEF EnqueueAck, Write, hubVars, roomVars, histVars
<1>3. ASSUME NEW c \in Clients, LeaveGone(c)
      PROVE  TypeOK'
  BY <1>3 DEF LeaveGone, hubVars, roomVars, histVars
<1>4. ASSUME NEW c \in Clients, Leave(c)
      PROVE  TypeOK'
  BY <1>4 DEF Leave, EmptiedBy, CloseClients, HandlerAndClient, histVars
<1>5. ASSUME NEW c \in Clients, NEW s \in Sessions, JoinExisting(c, s)
      PROVE  TypeOK'
  BY <1>5 DEF JoinExisting, Enter, hubVars
<1>6. ASSUME NEW c \in Clients, NEW s \in Sessions, JoinNew(c, s)
      PROVE  TypeOK'
  BY <1>6 DEF JoinNew, Enter
<1>7. ASSUME NEW c \in Clients, NEW s \in Sessions, JoinRefused(c, s)
      PROVE  TypeOK'
  BY <1>7 DEF JoinRefused, hubVars, roomVars, histVars
<1>8. ASSUME NEW s \in Sessions, BroadcastIfPresent(s)
      PROVE  TypeOK'
  <2>1. sent' \in 0..MaxBroadcasts /\ sent + 1 \in 1..MaxBroadcasts
    BY <1>8 DEF BroadcastIfPresent
  <2>2. queue' \in [Rooms -> Seq(Messages)] /\ accepted' \in [Rooms -> Seq(Messages)]
    <3>1. CASE Accepts(s)
      <4>1. rooms[s] \in Rooms
        BY <3>1 DEF Accepts
      <4>2. /\ Append(queue[rooms[s]], sent + 1) \in Seq(Messages)
            /\ Append(accepted[rooms[s]], sent + 1) \in Seq(Messages)
        BY <4>1, <2>1
      <4>3. /\ queue' = [queue EXCEPT ![rooms[s]] = Append(queue[rooms[s]], sent + 1)]
            /\ accepted' = [accepted EXCEPT ![rooms[s]] = Append(accepted[rooms[s]], sent + 1)]
        BY <1>8, <3>1 DEF BroadcastIfPresent
      <4> QED
        BY <4>1, <4>2, <4>3
    <3>2. CASE ~Accepts(s)
      BY <1>8, <3>2 DEF BroadcastIfPresent
    <3> QED
      BY <3>1, <3>2
  <2>3. \A q \in Rooms : Len(queue'[q]) <= RoomQueueCap
    <3>1. CASE Accepts(s)
      <4>1. /\ rooms[s] \in Rooms /\ Len(queue[rooms[s]]) < RoomQueueCap
            /\ queue' = [queue EXCEPT ![rooms[s]] = Append(queue[rooms[s]], sent + 1)]
        BY <1>8, <3>1 DEF BroadcastIfPresent, Accepts
      <4>2. Len(Append(queue[rooms[s]], sent + 1)) <= RoomQueueCap
        BY <4>1, <2>1
      <4> QED
        BY <4>1, <4>2
    <3>2. CASE ~Accepts(s)
      BY <1>8, <3>2 DEF BroadcastIfPresent
    <3> QED
      BY <3>1, <3>2
  <2> QED
    BY <1>8, <2>1, <2>2, <2>3 DEF BroadcastIfPresent, hubVars, clientVars
<1>9. ASSUME NEW s \in Sessions, MarkSessionEnded(s)
      PROVE  TypeOK'
  BY <1>9 DEF MarkSessionEnded, hubVars, clientVars, histVars
<1>10. ASSUME NEW r \in Rooms, RequestStop(r)
       PROVE  TypeOK'
  BY <1>10 DEF RequestStop, clientVars, histVars
<1>11. ASSUME NEW r \in Rooms, Take(r)
       PROVE  TypeOK'
  <2>1. /\ Head(queue[r]) \in Messages /\ Tail(queue[r]) \in Seq(Messages)
        /\ Len(Tail(queue[r])) <= RoomQueueCap
    BY <1>11 DEF Take
  <2>2. queue' \in [Rooms -> Seq(Messages)] /\ \A q \in Rooms : Len(queue'[q]) <= RoomQueueCap
    BY <1>11, <2>1 DEF Take
  <2>3. inHand' \in [Rooms -> Seq(Messages)]
    BY <1>11, <2>1 DEF Take
  <2> QED
    BY <1>11, <2>2, <2>3 DEF Take, hubVars, clientVars, histVars
<1>12. ASSUME NEW r \in Rooms, Deliver(r)
       PROVE  TypeOK'
  <2> DEFINE slow == {c \in members[r] : ~CanEnqueue(c)}
             kept == members[r] \ slow
  <2>1. members' \in [Rooms -> SUBSET Clients] /\ client' \in [Clients -> {"new", "joined", "closed"}]
    BY <1>12 DEF Deliver, CloseClients
  <2>2. pending' \in [Clients -> 0..ClientQueueCap]
    BY SMTT(30), <1>12 DEF Deliver, CanEnqueue
  <2>3. received' \in [Clients -> Seq(Messages)]
    <3>1. received' = [c \in Clients |->
                          IF c \in kept THEN received[c] \o inHand[r] ELSE received[c]]
      BY <1>12 DEF Deliver
    <3>2. \A c \in Clients : received[c] \o inHand[r] \in Seq(Messages)
      OBVIOUS
    <3> QED
      BY <3>1, <3>2
  <2>4. inHand' \in [Rooms -> Seq(Messages)]
    BY <1>12 DEF Deliver
  <2>5. roomPc' \in [Rooms -> {"none", "select", "deliver", "emptied", "removed", "done"}]
    BY <1>12 DEF Deliver
  <2> QED
    BY <1>12, <2>1, <2>2, <2>3, <2>4, <2>5 DEF Deliver, hubVars
<1>13. ASSUME NEW r \in Rooms, RemoveIfEmpty(r)
       PROVE  TypeOK'
  BY <1>13 DEF RemoveIfEmpty, Removable, clientVars, histVars
<1>14. ASSUME NEW r \in Rooms, MarkClosed(r) \/ CloseAll(r)
       PROVE  TypeOK'
  <2>1. CASE MarkClosed(r)
    BY <2>1 DEF MarkClosed, hubVars, clientVars, histVars
  <2>2. CASE CloseAll(r)
    <3>1. /\ roomPc' \in [Rooms -> {"none", "select", "deliver", "emptied", "removed", "done"}]
          /\ members' \in [Rooms -> SUBSET Clients] /\ roomClosed' \in [Rooms -> BOOLEAN]
      BY <2>2 DEF CloseAll
    <3>2. client' \in [Clients -> {"new", "joined", "closed"}]
      BY <2>2 DEF CloseAll, CloseClients
    <3> QED
      BY <2>2, <3>1, <3>2 DEF CloseAll, hubVars, histVars
  <2> QED
    BY <1>14, <2>1, <2>2
<1>15. CASE Shutdown
  BY <1>15 DEF Shutdown, roomVars, clientVars, histVars
<1>16. CASE ShutdownReturns \/ ShutdownTimesOut
  BY <1>16 DEF ShutdownReturns, ShutdownTimesOut, roomVars, clientVars, histVars
<1> QED
  BY <1>1, <1>2, <1>3, <1>4, <1>5, <1>6, <1>7, <1>8, <1>9, <1>10, <1>11, <1>12,
     <1>13, <1>14, <1>15, <1>16 DEF Next, RoomStep

-----------------------------------------------------------------------------

\* The part of the type invariant that the structural invariants rest on.
CoreType ==
    /\ hubClosed \in BOOLEAN
    /\ rooms \in [Sessions -> Rooms \cup {NoRoom}]
    /\ stopOwed \in SUBSET Rooms
    /\ shutdown \in {"idle", "waiting", "returned", "timedout"}
    /\ roomPc \in [Rooms -> {"none", "select", "deliver", "emptied", "removed", "done"}]
    /\ roomId \in [Rooms -> Sessions \cup {NoSession}]
    /\ members \in [Rooms -> SUBSET Clients]
    /\ roomClosed \in [Rooms -> BOOLEAN]
    /\ ended \in [Rooms -> BOOLEAN]
    /\ stopped \in [Rooms -> BOOLEAN]
    /\ client \in [Clients -> {"new", "joined", "closed"}]
    /\ conn \in [Clients -> {"start", "connected", "refused", "left"}]
    /\ target \in [Clients -> Sessions \cup {NoSession}]

Structure ==
    /\ FreshRooms
    /\ MappedRoomIsServed
    /\ MembersAreJoined
    /\ JoinedAreMembers
    /\ MembersAreReachable
    /\ HandlerAndClient
    /\ ClosedHubIsEmpty
    /\ NoLeakedRoom

\* The variables the structure is about: all but queues and history.
structureVars == <<hubVars, roomPc, roomId, members, roomClosed, ended, stopped,
                   client, conn, target>>

\* A step that leaves those variables alone leaves the structure alone.
LEMMA StructureStutters ==
    ASSUME Structure, UNCHANGED structureVars PROVE Structure'
  BY DEF Structure, structureVars, hubVars, FreshRooms, MappedRoomIsServed, MembersAreJoined,
     JoinedAreMembers, MembersAreReachable, HandlerAndClient, ClosedHubIsEmpty,
     NoLeakedRoom, Running, Mapped

\* Joining a mapped room.
LEMMA JoinExistingStep ==
    ASSUME CoreType, Structure, NEW c \in Clients, NEW s \in Sessions, JoinExisting(c, s)
    PROVE  Structure'
<1> USE HubAssumption DEF Structure, CoreType
<1>1. /\ FreshRooms' /\ MappedRoomIsServed' /\ HandlerAndClient' /\ ClosedHubIsEmpty'
      /\ NoLeakedRoom'
  BY DEF JoinExisting, hubVars, FreshRooms, MappedRoomIsServed, Enter,
     HandlerAndClient, ClosedHubIsEmpty, NoLeakedRoom, Mapped, Running
<1>2. MembersAreJoined'
  BY DEF JoinExisting, Enter, MembersAreJoined, MappedRoomIsServed
<1>3. JoinedAreMembers'
  BY DEF JoinExisting, Enter, MembersAreJoined, JoinedAreMembers
<1>4. MembersAreReachable'
  BY DEF JoinExisting, Enter, hubVars, MappedRoomIsServed, MembersAreReachable,
     Mapped
<1> QED
  BY <1>1, <1>2, <1>3, <1>4

\* Joining a session without a room.
LEMMA JoinNewStep ==
    ASSUME CoreType, Structure, NEW c \in Clients, NEW s \in Sessions, JoinNew(c, s)
    PROVE  Structure'
<1> USE HubAssumption DEF Structure, CoreType
<1>1. /\ FreshRooms' /\ MembersAreJoined' /\ MembersAreReachable' /\ HandlerAndClient'
      /\ ClosedHubIsEmpty' /\ NoLeakedRoom'
  BY DEF JoinNew, FreshRooms, Enter, MembersAreJoined, MembersAreReachable, Mapped,
     HandlerAndClient, ClosedHubIsEmpty, NoLeakedRoom, Running
<1>2. MappedRoomIsServed'
  BY DEF JoinNew, MappedRoomIsServed, FreshRooms
<1>3. JoinedAreMembers'
  BY DEF JoinNew, Enter, MembersAreJoined, JoinedAreMembers
<1> QED
  BY <1>1, <1>2, <1>3

\* A refused join.
LEMMA JoinRefusedStep ==
    ASSUME CoreType, Structure, NEW c \in Clients, NEW s \in Sessions, JoinRefused(c, s)
    PROVE  Structure'
<1> USE HubAssumption DEF Structure, CoreType
<1>1. /\ FreshRooms' /\ MappedRoomIsServed' /\ MembersAreJoined' /\ JoinedAreMembers'
      /\ MembersAreReachable' /\ HandlerAndClient' /\ ClosedHubIsEmpty'
      /\ NoLeakedRoom'
  BY DEF JoinRefused, hubVars, roomVars, FreshRooms, MappedRoomIsServed,
     MembersAreJoined, JoinedAreMembers, MembersAreReachable, Mapped,
     HandlerAndClient, ClosedHubIsEmpty, NoLeakedRoom, Running
<1> QED
  BY <1>1

\* A handler leaves a session without a room.
LEMMA LeaveGoneStep ==
    ASSUME CoreType, Structure, NEW c \in Clients, LeaveGone(c)
    PROVE  Structure'
<1> USE HubAssumption DEF Structure, CoreType
<1>1. /\ FreshRooms' /\ MappedRoomIsServed' /\ MembersAreJoined' /\ JoinedAreMembers'
      /\ MembersAreReachable' /\ HandlerAndClient' /\ ClosedHubIsEmpty'
      /\ NoLeakedRoom'
  BY DEF LeaveGone, hubVars, roomVars, FreshRooms, MappedRoomIsServed,
     MembersAreJoined, JoinedAreMembers, MembersAreReachable, Mapped,
     HandlerAndClient, ClosedHubIsEmpty, NoLeakedRoom, Running
<1> QED
  BY <1>1

\* A handler leaves the room of its session.
LEMMA LeaveStep ==
    ASSUME CoreType, Structure, NEW c \in Clients, Leave(c)
    PROVE  Structure'
<1> USE HubAssumption DEF Structure, CoreType
<1> DEFINE r == rooms[target[c]]
<1>a. /\ target[c] \in Sessions
      /\ r \in Rooms /\ roomId[r] = target[c]
      /\ roomPc[r] \in {"select", "deliver", "emptied"}
      /\ ~roomClosed[r] /\ ~stopped[r] /\ r \notin stopOwed
  BY DEF Leave, HandlerAndClient, MappedRoomIsServed
<1>b. \/ rooms' = rooms /\ stopOwed' = stopOwed
      \/ /\ rooms' = [rooms EXCEPT ![target[c]] = NoRoom]
         /\ stopOwed' = stopOwed \cup {r}
  BY <1>a DEF Leave, EmptiedBy
<1> HIDE DEF r
<1>1. /\ JoinedAreMembers' /\ MembersAreReachable' /\ HandlerAndClient'
      /\ ClosedHubIsEmpty' /\ NoLeakedRoom'
  BY DEF Leave, CloseClients, JoinedAreMembers, EmptiedBy, MembersAreReachable,
     Mapped, HandlerAndClient, ClosedHubIsEmpty, NoLeakedRoom, Running
<1>2. FreshRooms'
  BY <1>a, <1>b DEF Leave, FreshRooms
<1>3. MappedRoomIsServed'
  BY <1>a, <1>b DEF Leave, MappedRoomIsServed
<1>4. MembersAreJoined'
  BY DEF Leave, CloseClients, MembersAreJoined, FreshRooms, JoinedAreMembers
<1> QED
  BY <1>1, <1>2, <1>3, <1>4

\* stopCh is closed outside Hub.mu.
LEMMA RequestStopStep ==
    ASSUME CoreType, Structure, NEW r \in Rooms, RequestStop(r)
    PROVE  Structure'
<1> USE HubAssumption DEF Structure, CoreType
<1>1. /\ FreshRooms' /\ MappedRoomIsServed' /\ MembersAreJoined' /\ JoinedAreMembers'
      /\ MembersAreReachable' /\ HandlerAndClient' /\ ClosedHubIsEmpty'
      /\ NoLeakedRoom'
  BY DEF RequestStop, FreshRooms, MappedRoomIsServed, clientVars, MembersAreJoined,
     JoinedAreMembers, MembersAreReachable, Mapped, HandlerAndClient,
     ClosedHubIsEmpty, NoLeakedRoom, Running
<1> QED
  BY <1>1

\* The send gate closes.
LEMMA MarkEndedStep ==
    ASSUME CoreType, Structure, NEW s \in Sessions, MarkSessionEnded(s)
    PROVE  Structure'
<1> USE HubAssumption DEF Structure, CoreType
<1>1. /\ MappedRoomIsServed' /\ MembersAreJoined' /\ JoinedAreMembers'
      /\ MembersAreReachable' /\ HandlerAndClient' /\ ClosedHubIsEmpty'
      /\ NoLeakedRoom'
  BY DEF MarkSessionEnded, hubVars, MappedRoomIsServed, clientVars,
     MembersAreJoined, JoinedAreMembers, MembersAreReachable, Mapped,
     HandlerAndClient, ClosedHubIsEmpty, NoLeakedRoom, Running
<1>2. FreshRooms'
  BY DEF MarkSessionEnded, hubVars, MappedRoomIsServed, FreshRooms
<1> QED
  BY <1>1, <1>2

\* A room goroutine takes a message.
LEMMA TakeStep ==
    ASSUME CoreType, Structure, NEW r \in Rooms, Take(r)
    PROVE  Structure'
<1> USE HubAssumption DEF Structure, CoreType
<1>1. /\ FreshRooms' /\ MappedRoomIsServed' /\ MembersAreJoined' /\ JoinedAreMembers'
      /\ MembersAreReachable' /\ HandlerAndClient' /\ ClosedHubIsEmpty'
      /\ NoLeakedRoom'
  BY DEF Take, hubVars, FreshRooms, MappedRoomIsServed, clientVars,
     MembersAreJoined, JoinedAreMembers, MembersAreReachable, Mapped,
     HandlerAndClient, ClosedHubIsEmpty, NoLeakedRoom, Running
<1> QED
  BY <1>1

\* A room goroutine delivers and removes slow clients.
LEMMA DeliverStep ==
    ASSUME CoreType, Structure, NEW r \in Rooms, Deliver(r)
    PROVE  Structure'
<1> USE HubAssumption DEF Structure, CoreType
<1>1. /\ FreshRooms' /\ MappedRoomIsServed' /\ JoinedAreMembers'
      /\ MembersAreReachable' /\ HandlerAndClient' /\ ClosedHubIsEmpty'
      /\ NoLeakedRoom'
  BY DEF Deliver, hubVars, FreshRooms, MappedRoomIsServed, CloseClients,
     JoinedAreMembers, MembersAreReachable, Mapped, HandlerAndClient,
     ClosedHubIsEmpty, NoLeakedRoom, Running
<1>2. MembersAreJoined'
  BY DEF Deliver, CloseClients, MembersAreJoined, JoinedAreMembers
<1> QED
  BY <1>1, <1>2

\* A room goroutine removes its room from the map.
LEMMA RemoveIfEmptyStep ==
    ASSUME CoreType, Structure, NEW r \in Rooms, RemoveIfEmpty(r)
    PROVE  Structure'
<1> USE HubAssumption DEF Structure, CoreType
<1>1. /\ FreshRooms' /\ MappedRoomIsServed' /\ MembersAreJoined' /\ JoinedAreMembers'
      /\ MembersAreReachable' /\ HandlerAndClient' /\ ClosedHubIsEmpty'
      /\ NoLeakedRoom'
  BY DEF RemoveIfEmpty, FreshRooms, MappedRoomIsServed, Removable, clientVars,
     MembersAreJoined, JoinedAreMembers, MembersAreReachable, Mapped,
     HandlerAndClient, ClosedHubIsEmpty, NoLeakedRoom, Running
<1> QED
  BY <1>1

\* A removed room is marked closed.
LEMMA MarkClosedStep ==
    ASSUME CoreType, Structure, NEW r \in Rooms, MarkClosed(r)
    PROVE  Structure'
<1> USE HubAssumption DEF Structure, CoreType
<1>1. /\ FreshRooms' /\ MappedRoomIsServed' /\ MembersAreJoined' /\ JoinedAreMembers'
      /\ MembersAreReachable' /\ HandlerAndClient' /\ ClosedHubIsEmpty'
      /\ NoLeakedRoom'
  BY DEF MarkClosed, hubVars, FreshRooms, MappedRoomIsServed, clientVars,
     MembersAreJoined, JoinedAreMembers, MembersAreReachable, Mapped,
     HandlerAndClient, ClosedHubIsEmpty, NoLeakedRoom, Running
<1> QED
  BY <1>1

\* A stopped room closes its clients.
LEMMA CloseAllStep ==
    ASSUME CoreType, Structure, NEW r \in Rooms, CloseAll(r)
    PROVE  Structure'
<1> USE HubAssumption DEF Structure, CoreType
<1>1. /\ FreshRooms' /\ MappedRoomIsServed' /\ JoinedAreMembers'
      /\ MembersAreReachable' /\ HandlerAndClient' /\ ClosedHubIsEmpty'
      /\ NoLeakedRoom'
  BY DEF CloseAll, hubVars, FreshRooms, MappedRoomIsServed, CloseClients,
     JoinedAreMembers, MembersAreReachable, Mapped, HandlerAndClient,
     ClosedHubIsEmpty, NoLeakedRoom, Running
<1>2. MembersAreJoined'
  BY DEF CloseAll, CloseClients, MembersAreJoined, JoinedAreMembers
<1> QED
  BY <1>1, <1>2

\* Shutdown empties the map.
LEMMA ShutdownStep ==
    ASSUME CoreType, Structure, Shutdown
    PROVE  Structure'
<1> USE HubAssumption DEF Structure, CoreType
<1>1. /\ MappedRoomIsServed' /\ MembersAreJoined' /\ JoinedAreMembers'
      /\ MembersAreReachable' /\ HandlerAndClient' /\ ClosedHubIsEmpty'
      /\ NoLeakedRoom'
  BY DEF Shutdown, MappedRoomIsServed, roomVars, clientVars, MembersAreJoined,
     JoinedAreMembers, MembersAreReachable, Mapped, HandlerAndClient,
     ClosedHubIsEmpty, NoLeakedRoom, Running
<1>2. FreshRooms'
  BY DEF Shutdown, roomVars, MappedRoomIsServed, FreshRooms
<1> QED
  BY <1>1, <1>2

\* Shutdown returns or times out.
LEMMA ShutdownEndStep ==
    ASSUME CoreType, Structure, ShutdownReturns \/ ShutdownTimesOut
    PROVE  Structure'
<1> USE HubAssumption DEF Structure, CoreType
<1>1. /\ FreshRooms' /\ MappedRoomIsServed' /\ MembersAreJoined' /\ JoinedAreMembers'
      /\ MembersAreReachable' /\ HandlerAndClient' /\ ClosedHubIsEmpty'
      /\ NoLeakedRoom'
  BY DEF ShutdownReturns, ShutdownTimesOut, roomVars, FreshRooms,
     MappedRoomIsServed, clientVars, MembersAreJoined, JoinedAreMembers,
     MembersAreReachable, Mapped, HandlerAndClient, ClosedHubIsEmpty, NoLeakedRoom,
     Running
<1> QED
  BY <1>1

-----------------------------------------------------------------------------

\* Every step keeps the inductive invariant.
LEMMA IndStep == IndInv /\ [Next]_vars => IndInv'
<1> SUFFICES ASSUME IndInv, [Next]_vars PROVE IndInv'
  OBVIOUS
<1>1. TypeOK'
  BY TypeStep DEF IndInv
<1>2. CoreType
  BY DEF IndInv, TypeOK, CoreType
<1>3. Structure
  BY DEF IndInv, Structure
<1>4. Structure'
  <2>1. CASE UNCHANGED structureVars
    BY <1>3, <2>1, StructureStutters
  <2>2. CASE ~ UNCHANGED structureVars
    <3>1. ASSUME NEW c \in Clients, EnqueueAck(c) \/ Write(c) PROVE FALSE
      BY <2>2, <3>1 DEF EnqueueAck, Write, structureVars, hubVars, roomVars
    <3>2. ASSUME NEW s \in Sessions, BroadcastIfPresent(s) PROVE FALSE
      BY <2>2, <3>2 DEF BroadcastIfPresent, structureVars, hubVars, clientVars
    <3>3. CASE UNCHANGED vars
      BY <2>2, <3>3 DEF vars, structureVars, hubVars, roomVars, clientVars
    <3> QED
      BY <1>2, <1>3, <3>1, <3>2, <3>3, JoinExistingStep, JoinNewStep, JoinRefusedStep,
         LeaveGoneStep, LeaveStep, RequestStopStep, MarkEndedStep, TakeStep, DeliverStep,
         RemoveIfEmptyStep, MarkClosedStep, CloseAllStep, ShutdownStep, ShutdownEndStep
      DEF Next, RoomStep
  <2> QED
    BY <2>1, <2>2
<1> QED
  BY <1>1, <1>4 DEF IndInv, Structure

\* The initial state has the inductive invariant.
LEMMA IndInit == Init => IndInv
<1> SUFFICES ASSUME Init PROVE IndInv
  OBVIOUS
<1>1. TypeOK
  <2>1. /\ <<>> \in Seq(Messages)
        /\ 0 \in 0..MaxBroadcasts
        /\ 0 \in 0..ClientQueueCap
    BY HubAssumption
  <2>2. CoreType
    BY HubAssumption DEF Init, CoreType
  <2>3. \A r \in Rooms : Len(queue[r]) <= RoomQueueCap
    BY HubAssumption DEF Init
  <2> QED
    BY <2>1, <2>2, <2>3 DEF Init, CoreType, TypeOK
<1>2. FreshRooms /\ MappedRoomIsServed /\ NoLeakedRoom
  BY HubAssumption DEF Init, FreshRooms, MappedRoomIsServed, NoLeakedRoom, Running
<1>3. MembersAreJoined /\ JoinedAreMembers /\ MembersAreReachable /\ HandlerAndClient
  BY DEF Init, MembersAreJoined, JoinedAreMembers, MembersAreReachable, HandlerAndClient
<1>4. ClosedHubIsEmpty
  BY DEF Init, ClosedHubIsEmpty
<1> QED
  BY <1>1, <1>2, <1>3, <1>4 DEF IndInv

\* Every reachable state satisfies the inductive invariant.
THEOREM Invariance == Spec => []IndInv
  BY IndInit, IndStep, PTL DEF Spec

-----------------------------------------------------------------------------

\* Every variable keeps its type, and no room or client queue outgrows its capacity.
THEOREM TypeCorrect == Spec => []TypeOK
<1>1. IndInv => TypeOK
  BY DEF IndInv
<1> QED
  BY <1>1, Invariance, PTL

\* Whatever clients, broadcasts and a shutdown do, a room that Hub.rooms holds
\* is open and served by its goroutine.
THEOREM MappedRoomsServed == Spec => []MappedRoomIsServed
<1>1. IndInv => MappedRoomIsServed
  BY DEF IndInv
<1> QED
  BY <1>1, Invariance, PTL

\* No open client is ever out of reach of both broadcasts and the shutdown.
THEOREM NoOrphans == Spec => []NoOrphanClient
<1>1. IndInv => NoOrphanClient
  <2> SUFFICES ASSUME IndInv, NEW c \in Clients, client[c] = "joined"
               PROVE  \E r \in Rooms :
                        /\ c \in members[r]
                        /\ \A q \in Rooms : c \in members[q] => q = r
                        /\ Running(r) /\ roomPc[r] # "removed"
                        /\ roomId[r] = target[c]
                        /\ Mapped(r) \/ (hubClosed /\ (stopped[r] \/ r \in stopOwed))
    BY DEF NoOrphanClient
  <2>1. PICK r \in Rooms : c \in members[r]
    BY DEF IndInv, JoinedAreMembers
  <2>2. \A q \in Rooms : c \in members[q] => q = r
    BY <2>1 DEF IndInv, JoinedAreMembers
  <2>3. Running(r) /\ roomPc[r] # "removed" /\ roomId[r] = target[c]
    BY <2>1 DEF IndInv, MembersAreJoined, Running
  <2>4. Mapped(r) \/ (hubClosed /\ (stopped[r] \/ r \in stopOwed))
    BY <2>1 DEF IndInv, MembersAreReachable
  <2> QED
    BY <2>1, <2>2, <2>3, <2>4
<1> QED
  BY <1>1, Invariance, PTL

\* No room goroutine is ever left without a reason to end.
THEOREM NoLeaks == Spec => []NoLeakedRoom
<1>1. IndInv => NoLeakedRoom
  BY DEF IndInv
<1> QED
  BY <1>1, Invariance, PTL

\* A Shutdown that returns without error has closed every client that joined.
THEOREM ShutdownCloses == Spec => []ShutdownClosedClients
<1>1. IndInv => ShutdownClosedClients
  BY DEF IndInv, ClosedHubIsEmpty, JoinedAreMembers, MembersAreJoined, ShutdownClosedClients
<1> QED
  BY <1>1, Invariance, PTL

-----------------------------------------------------------------------------

\* Sequence s is the end of sequence t.
IsEnd(s, t) ==
    Len(s) <= Len(t) /\ \A i \in 1..Len(s) : s[i] = t[Len(t) - Len(s) + i]

\* What a room holds and has not delivered, and what a client has got with it.
Held(r)   == inHand[r] \o queue[r]
Got(r, c) == received[c] \o inHand[r] \o queue[r]

\* The messages on their way.  NoGap alone is not inductive: a client that joins starts
\* from what the room holds, so that has to be an end of what the room accepted also
\* when the room has no member to say so of.
MessagesInOrder ==
    /\ \A r \in Rooms :
          /\ roomPc[r] # "deliver" => inHand[r] = <<>>
          /\ roomPc[r] = "none" => accepted[r] = <<>> /\ queue[r] = <<>>
          /\ IsEnd(Held(r), accepted[r])
    /\ \A c \in Clients : conn[c] = "start" => received[c] = <<>>
    /\ \A r \in Rooms : \A c \in members[r] :
          /\ IsEnd(Got(r, c), accepted[r])
          /\ Len(Got(r, c)) >= Len(accepted[r]) - joinedAt[c]

\* Sequences of the same length with the same elements are equal.
LEMMA SameSeq ==
    ASSUME NEW T, NEW s \in Seq(T), NEW t \in Seq(T), Len(s) = Len(t),
           \A i \in 1..Len(s) : s[i] = t[i]
    PROVE  s = t
OBVIOUS

\* Concatenation: with nothing, with one element more, and an element taken from the
\* front of the second sequence to the end of the first.
LEMMA Concatenation ==
    ASSUME NEW T
    PROVE  /\ \A s \in Seq(T) : s \o <<>> = s /\ <<>> \o s = s
           /\ \A s, q \in Seq(T) : s \o q \in Seq(T) /\ Len(s \o q) = Len(s) + Len(q)
           /\ \A s, q \in Seq(T), e \in T : s \o Append(q, e) = Append(s \o q, e)
           /\ \A s, q \in Seq(T) : q # <<>> => (s \o <<Head(q)>>) \o Tail(q) = s \o q
<1>0. \A s, q \in Seq(T) :
        /\ s \o q \in Seq(T) /\ Len(s \o q) = Len(s) + Len(q) /\ Len(s) \in Nat /\ Len(q) \in Nat
        /\ \A i \in 1..Len(s) : (s \o q)[i] = s[i]
        /\ \A i \in 1..Len(q) : (s \o q)[Len(s) + i] = q[i]
  OBVIOUS
<1>1. ASSUME NEW s \in Seq(T)
      PROVE  s \o <<>> = s /\ <<>> \o s = s
  <2>1. <<>> \in Seq(T) /\ Len(<<>>) = 0
    OBVIOUS
  <2>2. s \o <<>> \in Seq(T) /\ Len(s \o <<>>) = Len(s) /\ \A i \in 1..Len(s) : (s \o <<>>)[i] = s[i]
    BY <1>0, <2>1
  <2>3. <<>> \o s \in Seq(T) /\ Len(<<>> \o s) = Len(s) /\ \A i \in 1..Len(s) : (<<>> \o s)[i] = s[i]
    BY <1>0, <2>1
  <2> QED
    BY <2>2, <2>3, SameSeq
<1>2. ASSUME NEW s \in Seq(T), NEW q \in Seq(T), NEW e \in T
      PROVE  s \o Append(q, e) = Append(s \o q, e)
  <2> DEFINE a == s \o Append(q, e)
             b == Append(s \o q, e)
  <2>1. /\ Append(q, e) \in Seq(T) /\ Len(Append(q, e)) = Len(q) + 1
        /\ \A i \in 1..Len(q) : Append(q, e)[i] = q[i]
        /\ Append(q, e)[Len(q) + 1] = e
    OBVIOUS
  <2>2. s \o q \in Seq(T) /\ Len(s \o q) = Len(s) + Len(q) /\ Len(s) \in Nat /\ Len(q) \in Nat
    BY <1>0
  <2>3. /\ b \in Seq(T) /\ Len(b) = Len(s) + Len(q) + 1
        /\ \A i \in 1..(Len(s) + Len(q)) : b[i] = (s \o q)[i]
        /\ b[Len(s) + Len(q) + 1] = e
    BY <2>2
  <2>4. /\ a \in Seq(T) /\ Len(a) = Len(s) + (Len(q) + 1)
        /\ \A i \in 1..Len(s) : a[i] = s[i]
        /\ \A i \in 1..(Len(q) + 1) : a[Len(s) + i] = Append(q, e)[i]
    BY <1>0, <2>1
  <2>5. ASSUME NEW i \in 1..Len(a)
        PROVE  a[i] = b[i]
    <3> HIDE DEF a, b
    <3>1. CASE i \in 1..Len(s)
      <4>1. i \in 1..(Len(s) + Len(q)) /\ (s \o q)[i] = s[i]
        BY <1>0, <2>2, <3>1
      <4> QED
        BY <2>3, <2>4, <3>1, <4>1
    <3>2. CASE i \in (Len(s) + 1)..(Len(s) + Len(q))
      <4> DEFINE j == i - Len(s)
      <4>1. j \in 1..Len(q) /\ i = Len(s) + j /\ i \in 1..(Len(s) + Len(q))
        BY <2>2, <3>2
      <4>2. (s \o q)[Len(s) + j] = q[j]
        BY <1>0, <4>1
      <4>3. a[Len(s) + j] = q[j]
        BY <2>1, <2>2, <2>4, <4>1
      <4> QED
        BY <2>3, <4>1, <4>2, <4>3
    <3>3. CASE i = Len(s) + Len(q) + 1
      <4>1. i = Len(s) + (Len(q) + 1) /\ Len(q) + 1 \in 1..(Len(q) + 1)
        BY <2>2, <3>3
      <4> QED
        BY <2>1, <2>3, <2>4, <3>3, <4>1
    <3> QED
      BY <2>2, <2>4, <3>1, <3>2, <3>3
  <2> HIDE DEF a, b
  <2>6. a = b
    BY <2>2, <2>3, <2>4, <2>5, SameSeq
  <2> QED
    BY <2>6 DEF a, b
<1>3. ASSUME NEW s \in Seq(T), NEW q \in Seq(T), q # <<>>
      PROVE  (s \o <<Head(q)>>) \o Tail(q) = s \o q
  <2> DEFINE h == <<Head(q)>>
             a == (s \o h) \o Tail(q)
             b == s \o q
  <2>1. /\ Len(q) \in Nat \ {0} /\ Head(q) \in T /\ Head(q) = q[1]
        /\ Tail(q) \in Seq(T) /\ Len(Tail(q)) = Len(q) - 1
        /\ \A i \in 1..(Len(q) - 1) : Tail(q)[i] = q[i + 1]
    BY <1>3
  <2>2. h \in Seq(T) /\ Len(h) = 1 /\ h[1] = q[1]
    BY <2>1
  <2> HIDE DEF h
  <2>3. /\ s \o h \in Seq(T) /\ Len(s \o h) = Len(s) + 1 /\ Len(s) \in Nat
        /\ \A i \in 1..Len(s) : (s \o h)[i] = s[i]
        /\ (s \o h)[Len(s) + 1] = q[1]
    <3>1. /\ s \o h \in Seq(T) /\ Len(s \o h) = Len(s) + Len(h) /\ Len(s) \in Nat
          /\ \A i \in 1..Len(s) : (s \o h)[i] = s[i]
          /\ \A i \in 1..Len(h) : (s \o h)[Len(s) + i] = h[i]
      BY <1>0, <2>2
    <3>2. 1 \in 1..Len(h) /\ Len(s) + Len(h) = Len(s) + 1
      BY <2>2
    <3>3. (s \o h)[Len(s) + 1] = q[1]
      BY <2>2, <3>1, <3>2
    <3> QED
      BY <3>1, <3>2, <3>3
  <2>4. /\ a \in Seq(T) /\ Len(a) = Len(s) + Len(q)
        /\ \A i \in 1..(Len(s) + 1) : a[i] = (s \o h)[i]
        /\ \A i \in 1..(Len(q) - 1) : a[Len(s) + 1 + i] = q[i + 1]
    <3>1. /\ a \in Seq(T) /\ Len(a) = (Len(s) + 1) + (Len(q) - 1)
          /\ \A i \in 1..(Len(s) + 1) : a[i] = (s \o h)[i]
          /\ \A i \in 1..(Len(q) - 1) : a[(Len(s) + 1) + i] = Tail(q)[i]
      <4> DEFINE x == s \o h
                 y == Tail(q)
      <4>1. x \in Seq(T) /\ y \in Seq(T) /\ Len(x) = Len(s) + 1 /\ Len(y) = Len(q) - 1
        BY <2>1, <2>3
      <4> HIDE DEF x, y
      <4>2. /\ x \o y \in Seq(T) /\ Len(x \o y) = Len(x) + Len(y)
            /\ \A i \in 1..Len(x) : (x \o y)[i] = x[i]
            /\ \A i \in 1..Len(y) : (x \o y)[Len(x) + i] = y[i]
        BY <1>0, <4>1
      <4>3. /\ x \o y \in Seq(T) /\ Len(x \o y) = (Len(s) + 1) + (Len(q) - 1)
            /\ \A i \in 1..(Len(s) + 1) : (x \o y)[i] = x[i]
            /\ \A i \in 1..(Len(q) - 1) : (x \o y)[(Len(s) + 1) + i] = y[i]
        BY <4>1, <4>2
      <4> QED
        BY <4>3 DEF x, y
    <3> HIDE DEF a
    <3> QED
      BY <2>1, <2>3, <3>1
  <2>5. /\ b \in Seq(T) /\ Len(b) = Len(s) + Len(q)
        /\ \A i \in 1..Len(s) : b[i] = s[i]
        /\ \A i \in 1..Len(q) : b[Len(s) + i] = q[i]
    BY <1>0
  <2> HIDE DEF a, b
  <2>6. ASSUME NEW i \in 1..Len(a)
        PROVE  a[i] = b[i]
    <3>1. CASE i \in 1..Len(s)
      <4>1. i \in 1..(Len(s) + 1) /\ (s \o h)[i] = s[i]
        BY <2>3, <3>1
      <4> QED
        BY <2>4, <2>5, <3>1, <4>1
    <3>2. CASE i = Len(s) + 1
      <4>1. 1 \in 1..Len(q) /\ i \in 1..(Len(s) + 1)
        BY <2>1, <2>3, <3>2
      <4> QED
        BY <2>3, <2>4, <2>5, <3>2, <4>1
    <3>3. CASE i \in (Len(s) + 2)..(Len(s) + Len(q))
      <4> DEFINE j == i - (Len(s) + 1)
      <4>1. /\ j \in 1..(Len(q) - 1) /\ i = Len(s) + 1 + j /\ j + 1 \in 1..Len(q)
            /\ i = Len(s) + (j + 1)
        BY <2>1, <2>3, <3>3
      <4> HIDE DEF j
      <4> QED
        BY <2>4, <2>5, <4>1
    <3> QED
      BY <2>1, <2>3, <2>4, <3>1, <3>2, <3>3
  <2>7. a = b
    BY <2>4, <2>5, <2>6, SameSeq
  <2> QED
    BY <2>7 DEF a, b, h
<1> QED
  BY <1>0, <1>1, <1>2, <1>3

\* The ends of a sequence, of one that grows at its end, and as subsequences.
LEMMA Ends ==
    ASSUME NEW T
    PROVE  /\ \A s, t \in Seq(T), e \in T : IsEnd(s, t) => IsEnd(Append(s, e), Append(t, e))
           /\ \A s, t \in Seq(T) :
                 IsEnd(s, t) => s = SubSeq(t, Len(t) - Len(s) + 1, Len(t))
           /\ \A h, s, t \in Seq(T) : IsEnd(h \o s, t) => IsEnd(s, t)
<1>1. ASSUME NEW s \in Seq(T), NEW t \in Seq(T), NEW e \in T, IsEnd(s, t)
      PROVE  IsEnd(Append(s, e), Append(t, e))
  <2>0. Len(s) \in Nat /\ Len(t) \in Nat
    OBVIOUS
  <2>1. /\ Append(s, e) \in Seq(T) /\ Len(Append(s, e)) = Len(s) + 1 /\ Len(s) \in Nat
        /\ \A i \in 1..Len(s) : Append(s, e)[i] = s[i]
        /\ Append(s, e)[Len(s) + 1] = e
        /\ Append(t, e) \in Seq(T) /\ Len(Append(t, e)) = Len(t) + 1 /\ Len(t) \in Nat
        /\ \A i \in 1..Len(t) : Append(t, e)[i] = t[i]
        /\ Append(t, e)[Len(t) + 1] = e
    OBVIOUS
  <2>2. Len(s) <= Len(t) /\ \A i \in 1..Len(s) : s[i] = t[Len(t) - Len(s) + i]
    BY <1>1 DEF IsEnd
  <2>3. ASSUME NEW i \in 1..(Len(s) + 1)
        PROVE  Append(s, e)[i] = Append(t, e)[(Len(t) + 1) - (Len(s) + 1) + i]
    <3>1. (Len(t) + 1) - (Len(s) + 1) + i = Len(t) - Len(s) + i
      BY <2>1
    <3>2. CASE i \in 1..Len(s)
      <4>1. Len(t) - Len(s) + i \in 1..Len(t)
        BY <2>1, <2>2, <3>2
      <4> QED
        BY <2>1, <2>2, <3>1, <3>2, <4>1
    <3>3. CASE i = Len(s) + 1
      <4>1. Len(t) - Len(s) + i = Len(t) + 1
        BY <2>1, <3>3
      <4> QED
        BY <2>1, <3>1, <3>3, <4>1
    <3> QED
      <4>1. i \in 1..Len(s) \/ i = Len(s) + 1
        BY <2>0
      <4> QED
        BY <3>2, <3>3, <4>1
  <2>4. Len(s) + 1 <= Len(t) + 1
    BY <2>0, <2>2
  <2> DEFINE x == Append(s, e)
             y == Append(t, e)
  <2>5. /\ Len(x) = Len(s) + 1 /\ Len(y) = Len(t) + 1
        /\ \A i \in 1..(Len(s) + 1) : x[i] = y[(Len(t) + 1) - (Len(s) + 1) + i]
    BY <2>1, <2>3
  <2> HIDE DEF x, y
  <2>6. IsEnd(x, y)
    BY <2>4, <2>5 DEF IsEnd
  <2> QED
    BY <2>6 DEF x, y
<1>2. ASSUME NEW s \in Seq(T), NEW t \in Seq(T), IsEnd(s, t)
      PROVE  s = SubSeq(t, Len(t) - Len(s) + 1, Len(t))
  <2> DEFINE m == Len(t) - Len(s) + 1
             u == SubSeq(t, m, Len(t))
  <2>1. /\ Len(s) \in Nat /\ Len(t) \in Nat /\ Len(s) <= Len(t)
        /\ \A i \in 1..Len(s) : s[i] = t[Len(t) - Len(s) + i]
    BY <1>2 DEF IsEnd
  <2>2. m \in 1..(Len(t) + 1)
    BY <2>1
  <2>3. /\ u \in Seq(T) /\ Len(u) = Len(t) - m + 1
        /\ \A i \in 1..(Len(t) - m + 1) : u[i] = t[m + i - 1]
    <3> HIDE DEF m
    <3> QED
      BY <2>1, <2>2
  <2>4. Len(u) = Len(s) /\ \A i \in 1..Len(s) : m + i - 1 = Len(t) - Len(s) + i
    BY <2>1, <2>3
  <2>5. \A i \in 1..Len(s) : s[i] = u[i]
    <3> HIDE DEF u, m
    <3>1. Len(t) - m + 1 = Len(s)
      BY <2>1 DEF m
    <3> QED
      BY <2>1, <2>3, <2>4, <3>1
  <2> HIDE DEF u
  <2>6. s = u
    BY <2>3, <2>4, <2>5, SameSeq
  <2> QED
    BY <2>6 DEF u
<1>3. ASSUME NEW h \in Seq(T), NEW s \in Seq(T), NEW t \in Seq(T), IsEnd(h \o s, t)
      PROVE  IsEnd(s, t)
  <2> DEFINE x == h \o s
  <2>1. /\ Len(h) \in Nat /\ Len(s) \in Nat /\ Len(t) \in Nat /\ Len(x) = Len(h) + Len(s)
        /\ \A i \in 1..Len(s) : x[Len(h) + i] = s[i]
    OBVIOUS
  <2> HIDE DEF x
  <2>2. Len(x) <= Len(t) /\ \A i \in 1..Len(x) : x[i] = t[Len(t) - Len(x) + i]
    BY <1>3 DEF IsEnd, x
  <2>3. ASSUME NEW i \in 1..Len(s)
        PROVE  s[i] = t[Len(t) - Len(s) + i]
    <3>1. Len(h) + i \in 1..Len(x) /\ Len(t) - Len(x) + (Len(h) + i) = Len(t) - Len(s) + i
      BY <2>1
    <3> QED
      BY <2>1, <2>2, <3>1
  <2>4. Len(s) <= Len(t)
    BY <2>1, <2>2
  <2> QED
    BY <2>3, <2>4 DEF IsEnd
<1> QED
  BY <1>1, <1>2, <1>3

\* What the types say of the messages of a room and a client.
LEMMA MessageSeqs ==
    ASSUME TypeOK
    PROVE  /\ \A r \in Rooms :
                 /\ inHand[r] \in Seq(Messages) /\ queue[r] \in Seq(Messages)
                 /\ accepted[r] \in Seq(Messages) /\ Held(r) \in Seq(Messages)
                 /\ Len(accepted[r]) \in Nat
           /\ \A c \in Clients : received[c] \in Seq(Messages) /\ joinedAt[c] \in Nat
           /\ \A r \in Rooms : \A c \in Clients :
                 Got(r, c) \in Seq(Messages) /\ Len(Got(r, c)) \in Nat
<1>1. \A r \in Rooms :
        /\ inHand[r] \in Seq(Messages) /\ queue[r] \in Seq(Messages) /\ accepted[r] \in Seq(Messages)
  BY DEF TypeOK
<1>2. \A c \in Clients : received[c] \in Seq(Messages) /\ joinedAt[c] \in Nat
  BY DEF TypeOK
<1>3. \A q \in Seq(Messages) : Len(q) \in Nat
  OBVIOUS
<1>4. \A r \in Rooms : Held(r) \in Seq(Messages)
  BY <1>1, Concatenation DEF Held
<1>5. \A r \in Rooms : \A c \in Clients : Got(r, c) \in Seq(Messages)
  BY <1>1, <1>2, Concatenation DEF Got
<1> QED
  BY <1>1, <1>2, <1>3, <1>4, <1>5

\* A step that accepts, takes and delivers no message and lets no client in.
LEMMA MessagesKept ==
    ASSUME MessagesInOrder, UNCHANGED <<accepted, received, inHand, queue>>,
           \A r \in Rooms :
              roomPc'[r] = roomPc[r] \/ (roomPc'[r] # "none" /\ roomPc[r] # "deliver"),
           \A c \in Clients : conn'[c] = "start" => conn[c] = "start",
           \A r \in Rooms : \A c \in members'[r] : c \in members[r] /\ joinedAt'[c] = joinedAt[c]
    PROVE  MessagesInOrder'
<1>1. \A r \in Rooms : Held(r)' = Held(r) /\ \A c \in Clients : Got(r, c)' = Got(r, c)
  BY DEF Held, Got
<1>2. ASSUME NEW r \in Rooms
      PROVE  /\ roomPc'[r] # "deliver" => inHand'[r] = <<>>
             /\ roomPc'[r] = "none" => accepted'[r] = <<>> /\ queue'[r] = <<>>
             /\ IsEnd(Held(r)', accepted'[r])
  BY <1>1 DEF MessagesInOrder
<1>3. \A c \in Clients : conn'[c] = "start" => received'[c] = <<>>
  BY DEF MessagesInOrder
<1>4. ASSUME NEW r \in Rooms, NEW c \in members'[r]
      PROVE  /\ IsEnd(Got(r, c)', accepted'[r])
             /\ Len(Got(r, c)') >= Len(accepted'[r]) - joinedAt'[c]
  <2>1. c \in members[r] /\ Got(r, c)' = Got(r, c) /\ joinedAt'[c] = joinedAt[c]
    BY <1>4 DEF Got
  <2> QED
    BY <2>1 DEF MessagesInOrder
<1> QED
  BY <1>2, <1>3, <1>4 DEF MessagesInOrder, IsEnd

\* A client that enters a room starts from what the room holds.
LEMMA MessagesEnter ==
    ASSUME IndInv, MessagesInOrder, NEW c \in Clients, NEW s \in Sessions, NEW r \in Rooms,
           conn[c] = "start", Enter(c, s, r), UNCHANGED <<accepted, received, inHand, queue>>,
           \A q \in Rooms :
              roomPc'[q] = roomPc[q] \/ (roomPc'[q] # "none" /\ roomPc[q] # "deliver")
    PROVE  MessagesInOrder'
<1>1. /\ members'[r] = members[r] \cup {c} /\ \A q \in Rooms \ {r} : members'[q] = members[q]
      /\ conn'[c] = "connected" /\ joinedAt'[c] = Len(accepted[r])
      /\ \A d \in Clients \ {c} : conn'[d] = conn[d] /\ joinedAt'[d] = joinedAt[d]
  BY DEF Enter, IndInv, TypeOK
<1>2. TypeOK
  BY DEF IndInv
<1>3. \A q \in Rooms : c \notin members[q]
  BY DEF IndInv, MembersAreJoined, HandlerAndClient
<1>4. \A q \in Rooms : Held(q)' = Held(q)
  BY DEF Held
<1>5. ASSUME NEW q \in Rooms
      PROVE  /\ roomPc'[q] # "deliver" => inHand'[q] = <<>>
             /\ roomPc'[q] = "none" => accepted'[q] = <<>> /\ queue'[q] = <<>>
             /\ IsEnd(Held(q)', accepted'[q])
  BY <1>4 DEF MessagesInOrder
<1>6. \A d \in Clients : conn'[d] = "start" => received'[d] = <<>>
  BY <1>1 DEF MessagesInOrder
<1>7. ASSUME NEW q \in Rooms, NEW d \in members'[q]
      PROVE  /\ IsEnd(Got(q, d)', accepted'[q])
             /\ Len(Got(q, d)') >= Len(accepted'[q]) - joinedAt'[d]
  <2>1. Got(q, d)' = Got(q, d)
    BY DEF Got
  <2>2. CASE d \in members[q]
    <3>1. d \in Clients \ {c}
      BY <1>2, <1>3, <2>2 DEF TypeOK
    <3> QED
      BY <1>1, <2>1, <2>2, <3>1 DEF MessagesInOrder
  <2>3. CASE d = c /\ q = r
    <3>1. received[c] = <<>> /\ inHand[r] \in Seq(Messages)
      BY <1>2, MessageSeqs DEF MessagesInOrder
    <3>2. Got(r, c) = Held(r)
      BY <3>1, Concatenation DEF Got, Held
    <3>3. Len(Got(r, c)) \in Nat /\ Len(accepted[r]) \in Nat
      BY <1>2, MessageSeqs
    <3>4. Len(Got(r, c)) >= Len(accepted[r]) - Len(accepted[r])
      BY <3>3
    <3> QED
      BY <1>1, <2>1, <2>3, <3>2, <3>4 DEF MessagesInOrder
  <2> QED
    BY <1>1, <1>7, <2>2, <2>3
<1> QED
  BY <1>5, <1>6, <1>7 DEF MessagesInOrder, IsEnd

\* A broadcast that a room's queue takes is the last that the room accepted.
LEMMA MessagesBroadcast ==
    ASSUME IndInv, MessagesInOrder, NEW s \in Sessions, BroadcastIfPresent(s)
    PROVE  MessagesInOrder'
<1>0. UNCHANGED <<roomPc, members, inHand, conn, received, joinedAt>>
  BY DEF BroadcastIfPresent, hubVars, clientVars
<1>1. CASE ~Accepts(s)
  BY <1>0, <1>1, MessagesKept DEF BroadcastIfPresent
<1>2. CASE Accepts(s)
  <2>0. TypeOK /\ MappedRoomIsServed
    BY DEF IndInv
  <2>1. PICK r \in Rooms, e \in Messages : r = rooms[s] /\ e = sent + 1 /\ roomPc[r] # "none"
    <3>1. rooms[s] \in Rooms /\ roomPc[rooms[s]] # "none"
      <4>1. rooms[s] # NoRoom
        BY <1>2 DEF Accepts
      <4>2. rooms[s] \in Rooms
        BY <2>0, <4>1 DEF TypeOK
      <4>3. roomPc[rooms[s]] \in {"select", "deliver", "emptied"}
        BY <2>0, <4>1 DEF MappedRoomIsServed
      <4> QED
        BY <4>2, <4>3
    <3>2. sent \in Nat /\ sent < MaxBroadcasts
      BY <2>0 DEF BroadcastIfPresent, TypeOK
    <3>3. sent + 1 \in Messages
      BY <3>2, HubAssumption DEF Messages
    <3> QED
      BY <3>1, <3>3
  <2>2. /\ queue'[r] = Append(queue[r], e) /\ accepted'[r] = Append(accepted[r], e)
        /\ \A q \in Rooms \ {r} : queue'[q] = queue[q] /\ accepted'[q] = accepted[q]
    BY <1>2, <2>0, <2>1 DEF BroadcastIfPresent, TypeOK
  <2>3. /\ Held(r)' = Append(Held(r), e)
        /\ \A c \in Clients : Got(r, c)' = Append(Got(r, c), e)
        /\ \A q \in Rooms \ {r} : Held(q)' = Held(q) /\ \A c \in Clients : Got(q, c)' = Got(q, c)
    <3>0. \A x, q \in Seq(Messages) : x \o Append(q, e) = Append(x \o q, e) /\ x \o q \in Seq(Messages)
      BY Concatenation
    <3>1. /\ inHand[r] \in Seq(Messages) /\ queue[r] \in Seq(Messages)
          /\ \A c \in Clients : received[c] \o inHand[r] \in Seq(Messages)
      BY <2>0, <3>0, MessageSeqs
    <3>2. inHand[r] \o queue'[r] = Append(inHand[r] \o queue[r], e)
      BY <2>2, <3>0, <3>1
    <3>3. \A c \in Clients : (received[c] \o inHand[r]) \o queue'[r]
                                = Append((received[c] \o inHand[r]) \o queue[r], e)
      BY <2>2, <3>0, <3>1
    <3> QED
      BY <1>0, <2>2, <3>2, <3>3 DEF Held, Got
  <2>4. \A x, t \in Seq(Messages) : /\ IsEnd(x, t) => IsEnd(Append(x, e), Append(t, e))
                                    /\ Len(Append(x, e)) = Len(x) + 1 /\ Len(x) \in Nat
    BY Ends
  <2>5. ASSUME NEW q \in Rooms
        PROVE  /\ roomPc'[q] # "deliver" => inHand'[q] = <<>>
               /\ roomPc'[q] = "none" => accepted'[q] = <<>> /\ queue'[q] = <<>>
               /\ IsEnd(Held(q)', accepted'[q])
    <3>1. CASE q = r
      <4>1. IsEnd(Held(r), accepted[r]) /\ Held(r) \in Seq(Messages) /\ accepted[r] \in Seq(Messages)
        BY <2>0, MessageSeqs DEF MessagesInOrder
      <4>2. IsEnd(Held(r)', accepted'[r])
        BY <2>2, <2>3, <2>4, <4>1
      <4> QED
        BY <1>0, <2>1, <3>1, <4>2 DEF MessagesInOrder
    <3>2. CASE q # r
      BY <1>0, <2>2, <2>3, <3>2 DEF MessagesInOrder
    <3> QED
      BY <3>1, <3>2
  <2>6. ASSUME NEW q \in Rooms, NEW c \in members'[q]
        PROVE  /\ IsEnd(Got(q, c)', accepted'[q])
               /\ Len(Got(q, c)') >= Len(accepted'[q]) - joinedAt'[c]
    <3>1. c \in members[q] /\ c \in Clients
      BY <1>0, <2>0, <2>6 DEF TypeOK
    <3>2. IsEnd(Got(q, c), accepted[q]) /\ Len(Got(q, c)) >= Len(accepted[q]) - joinedAt[c]
      BY <3>1 DEF MessagesInOrder
    <3>3. CASE q = r
      <4>1. /\ Got(r, c) \in Seq(Messages) /\ accepted[r] \in Seq(Messages) /\ joinedAt[c] \in Nat
        BY <2>0, <3>1, MessageSeqs
      <4>2. IsEnd(Got(r, c)', accepted'[r])
        BY <2>2, <2>3, <2>4, <3>1, <3>2, <3>3, <4>1
      <4>3. Len(Got(r, c)') = Len(Got(r, c)) + 1 /\ Len(accepted'[r]) = Len(accepted[r]) + 1
        BY <2>2, <2>3, <2>4, <3>1, <4>1
      <4>4. Len(Got(r, c)) \in Nat /\ Len(accepted[r]) \in Nat
        BY <2>4, <4>1
      <4>5. Len(Got(r, c)') >= Len(accepted'[r]) - joinedAt'[c]
        BY <1>0, <3>2, <3>3, <4>1, <4>3, <4>4
      <4> QED
        BY <3>3, <4>2, <4>5
    <3>4. CASE q # r
      BY <1>0, <2>2, <2>3, <3>1, <3>2, <3>4
    <3> QED
      BY <3>3, <3>4
  <2>7. \A c \in Clients : conn'[c] = "start" => received'[c] = <<>>
    BY <1>0 DEF MessagesInOrder
  <2> QED
    BY <2>5, <2>6, <2>7 DEF MessagesInOrder, IsEnd
<1> QED
  BY <1>1, <1>2

\* The goroutine of a room takes the first message of its queue in hand.
LEMMA MessagesTake ==
    ASSUME IndInv, MessagesInOrder, NEW r \in Rooms, Take(r)
    PROVE  MessagesInOrder'
<1>0. TypeOK
  BY DEF IndInv
<1>1. /\ UNCHANGED <<members, conn, received, joinedAt, accepted>> /\ queue[r] # <<>>
      /\ roomPc[r] = "select" /\ roomPc'[r] = "deliver"
      /\ inHand'[r] = <<Head(queue[r])>> /\ queue'[r] = Tail(queue[r])
      /\ \A q \in Rooms \ {r} :
            roomPc'[q] = roomPc[q] /\ inHand'[q] = inHand[q] /\ queue'[q] = queue[q]
  BY <1>0 DEF Take, TypeOK, clientVars, histVars
<1>2. inHand[r] = <<>>
  BY <1>1 DEF MessagesInOrder
<1>3. \A q \in Rooms : Held(q)' = Held(q) /\ \A c \in Clients : Got(q, c)' = Got(q, c)
  <2>1. \A x, q \in Seq(Messages) : q # <<>> => (x \o <<Head(q)>>) \o Tail(q) = x \o q
    BY Concatenation
  <2>2. \A x \in Seq(Messages) : x \o <<>> = x /\ <<>> \o x = x
    BY Concatenation
  <2>3. <<>> \in Seq(Messages) /\ queue[r] \in Seq(Messages) /\ <<Head(queue[r])>> \in Seq(Messages)
    <3>1. queue[r] \in Seq(Messages)
      BY <1>0, MessageSeqs
    <3> QED
      BY <1>1, <3>1
  <2>4. Held(r)' = Held(r)
    BY <1>1, <1>2, <2>1, <2>2, <2>3 DEF Held
  <2>5. ASSUME NEW c \in Clients PROVE Got(r, c)' = Got(r, c)
    <3>1. received[c] \in Seq(Messages)
      BY <1>0, MessageSeqs
    <3>2. Got(r, c)' = (received[c] \o <<Head(queue[r])>>) \o Tail(queue[r])
      BY <1>1 DEF Got
    <3>3. (received[c] \o <<Head(queue[r])>>) \o Tail(queue[r]) = received[c] \o queue[r]
      BY <1>1, <2>1, <2>3, <3>1
    <3>4. received[c] \o <<>> = received[c]
      BY <2>2, <3>1
    <3>5. Got(r, c) = received[c] \o queue[r]
      BY <1>2, <3>4 DEF Got
    <3> QED
      BY <3>2, <3>3, <3>5
  <2> QED
    BY <1>1, <2>4, <2>5 DEF Held, Got
<1>4. ASSUME NEW q \in Rooms
      PROVE  /\ roomPc'[q] # "deliver" => inHand'[q] = <<>>
             /\ roomPc'[q] = "none" => accepted'[q] = <<>> /\ queue'[q] = <<>>
             /\ IsEnd(Held(q)', accepted'[q])
  BY <1>1, <1>3 DEF MessagesInOrder
<1>5. ASSUME NEW q \in Rooms, NEW c \in members'[q]
      PROVE  /\ IsEnd(Got(q, c)', accepted'[q])
             /\ Len(Got(q, c)') >= Len(accepted'[q]) - joinedAt'[c]
  <2>1. c \in members[q] /\ c \in Clients
    BY <1>0, <1>1, <1>5 DEF TypeOK
  <2> QED
    BY <1>1, <1>3, <2>1 DEF MessagesInOrder
<1>6. \A c \in Clients : conn'[c] = "start" => received'[c] = <<>>
  BY <1>1 DEF MessagesInOrder
<1> QED
  BY <1>4, <1>5, <1>6 DEF MessagesInOrder, IsEnd

\* deliver hands the message to every member that stays one, and only to them.
LEMMA MessagesDeliver ==
    ASSUME IndInv, MessagesInOrder, NEW r \in Rooms, Deliver(r)
    PROVE  MessagesInOrder'
<1>0. TypeOK
  BY DEF IndInv
<1> DEFINE kept == members[r] \ {c \in members[r] : ~CanEnqueue(c)}
<1>1. /\ UNCHANGED <<conn, joinedAt, accepted, queue>>
      /\ members'[r] = kept /\ inHand'[r] = <<>> /\ roomPc'[r] \in {"emptied", "select"}
      /\ \A q \in Rooms \ {r} :
            roomPc'[q] = roomPc[q] /\ inHand'[q] = inHand[q] /\ members'[q] = members[q]
      /\ \A c \in Clients :
            received'[c] = IF c \in kept THEN received[c] \o inHand[r] ELSE received[c]
  BY <1>0 DEF Deliver, TypeOK
<1>2. /\ kept \subseteq members[r] /\ roomPc[r] = "deliver"
      /\ \A q \in Rooms \ {r} : \A c \in members[q] : c \in Clients \ kept
      /\ \A c \in kept : c \in Clients /\ conn[c] # "start"
  <2>1. \A q \in Rooms : members[q] \subseteq Clients
    BY <1>0 DEF TypeOK
  <2>2. JoinedAreMembers /\ MembersAreJoined /\ HandlerAndClient
    BY DEF IndInv
  <2> QED
    BY <2>1, <2>2 DEF JoinedAreMembers, MembersAreJoined, HandlerAndClient, Deliver
<1> HIDE DEF kept
<1>3. \A x \in Seq(Messages) : x \o <<>> = x /\ <<>> \o x = x
  BY Concatenation
<1>4. ASSUME NEW q \in Rooms
      PROVE  /\ roomPc'[q] # "deliver" => inHand'[q] = <<>>
             /\ roomPc'[q] = "none" => accepted'[q] = <<>> /\ queue'[q] = <<>>
             /\ IsEnd(Held(q)', accepted'[q])
  <2>1. CASE q # r
    <3>1. Held(q)' = Held(q)
      BY <1>1, <2>1 DEF Held
    <3> QED
      BY <1>1, <2>1, <3>1 DEF MessagesInOrder
  <2>2. CASE q = r
    <3>1. /\ inHand[r] \in Seq(Messages) /\ queue[r] \in Seq(Messages) /\ accepted[r] \in Seq(Messages)
      BY <1>0, MessageSeqs
    <3>2. Held(r)' = queue[r]
      BY <1>1, <1>3, <3>1 DEF Held
    <3>3. IsEnd(inHand[r] \o queue[r], accepted[r])
      BY DEF MessagesInOrder, Held
    <3>4. IsEnd(queue[r], accepted[r])
      BY <3>1, <3>3, Ends
    <3> QED
      BY <1>1, <2>2, <3>2, <3>4
  <2> QED
    BY <2>1, <2>2
<1>5. ASSUME NEW q \in Rooms, NEW c \in members'[q]
      PROVE  /\ IsEnd(Got(q, c)', accepted'[q])
             /\ Len(Got(q, c)') >= Len(accepted'[q]) - joinedAt'[c]
  <2>1. c \in members[q] /\ c \in Clients
    BY <1>0, <1>1, <1>2, <1>5 DEF TypeOK
  <2>2. Got(q, c)' = Got(q, c)
    <3>1. CASE q # r
      <4>1. received'[c] = received[c]
        BY <1>1, <1>2, <2>1, <3>1
      <4> QED
        BY <1>1, <3>1, <4>1 DEF Got
    <3>2. CASE q = r
      <4>1. received'[c] = received[c] \o inHand[r] /\ inHand'[r] = <<>>
        BY <1>1, <1>5, <2>1, <3>2
      <4>2. received[c] \o inHand[r] \in Seq(Messages)
        <5>1. received[c] \in Seq(Messages) /\ inHand[r] \in Seq(Messages)
          BY <1>0, <2>1, MessageSeqs
        <5> QED
          BY <5>1, Concatenation
      <4>3. (received[c] \o inHand[r]) \o <<>> = received[c] \o inHand[r]
        BY <1>3, <4>2
      <4> QED
        BY <1>1, <3>2, <4>1, <4>3 DEF Got
    <3> QED
      BY <3>1, <3>2
  <2> QED
    BY <1>1, <2>1, <2>2 DEF MessagesInOrder
<1>6. \A c \in Clients : conn'[c] = "start" => received'[c] = <<>>
  BY <1>1, <1>2 DEF MessagesInOrder
<1> QED
  BY <1>4, <1>5, <1>6 DEF MessagesInOrder, IsEnd

\* Every step of the Hub, the rooms and the clients keeps the messages in order.
LEMMA MessagesStep == IndInv /\ MessagesInOrder /\ [Next]_vars => MessagesInOrder'
<1> SUFFICES ASSUME IndInv, MessagesInOrder, [Next]_vars PROVE MessagesInOrder'
  OBVIOUS
<1>0. TypeOK /\ HandlerAndClient /\ MappedRoomIsServed
  BY DEF IndInv
<1>1. ASSUME NEW c \in Clients, EnqueueAck(c) \/ Write(c) \/ LeaveGone(c)
      PROVE  MessagesInOrder'
  <2>1. UNCHANGED <<accepted, received, inHand, queue, roomPc, members, joinedAt>>
    BY <1>1 DEF EnqueueAck, Write, LeaveGone, roomVars, histVars
  <2>2. \A d \in Clients : conn'[d] = "start" => conn[d] = "start"
    BY <1>0, <1>1 DEF EnqueueAck, Write, LeaveGone, TypeOK
  <2> QED
    BY <2>1, <2>2, MessagesKept
<1>2. ASSUME NEW c \in Clients, Leave(c)
      PROVE  MessagesInOrder'
  <2>1. UNCHANGED <<accepted, received, inHand, queue, roomPc, joinedAt>>
    BY <1>2 DEF Leave, histVars
  <2>2. /\ \A d \in Clients : conn'[d] = "start" => conn[d] = "start"
        /\ \A r \in Rooms : members'[r] \subseteq members[r]
    BY <1>0, <1>2 DEF Leave, TypeOK
  <2> QED
    BY <2>1, <2>2, MessagesKept
<1>3. ASSUME NEW c \in Clients, NEW s \in Sessions, JoinExisting(c, s)
      PROVE  MessagesInOrder'
  <2>1. /\ rooms[s] \in Rooms /\ conn[c] = "start" /\ Enter(c, s, rooms[s])
        /\ UNCHANGED <<accepted, received, inHand, queue, roomPc>>
    BY <1>0, <1>3 DEF JoinExisting, TypeOK
  <2> QED
    BY <2>1, MessagesEnter
<1>4. ASSUME NEW c \in Clients, NEW s \in Sessions, JoinNew(c, s)
      PROVE  MessagesInOrder'
  <2>1. PICK r \in Rooms : /\ Enter(c, s, r) /\ roomPc[r] = "none"
                           /\ roomPc' = [roomPc EXCEPT ![r] = "select"]
    BY <1>4 DEF JoinNew
  <2>2. conn[c] = "start" /\ UNCHANGED <<accepted, received, inHand, queue>>
    BY <1>4 DEF JoinNew
  <2>3. \A q \in Rooms : roomPc'[q] = roomPc[q] \/ (roomPc'[q] # "none" /\ roomPc[q] # "deliver")
    BY <1>0, <2>1 DEF TypeOK
  <2> QED
    BY <2>1, <2>2, <2>3, MessagesEnter
<1>5. ASSUME NEW c \in Clients, NEW s \in Sessions, JoinRefused(c, s)
      PROVE  MessagesInOrder'
  <2>1. UNCHANGED <<accepted, received, inHand, queue, roomPc, members, joinedAt>>
    BY <1>5 DEF JoinRefused, roomVars, histVars
  <2>2. \A d \in Clients : conn'[d] = "start" => conn[d] = "start"
    BY <1>0, <1>5 DEF JoinRefused, TypeOK
  <2> QED
    BY <2>1, <2>2, MessagesKept
<1>6. ASSUME NEW s \in Sessions, MarkSessionEnded(s)
      PROVE  MessagesInOrder'
  BY <1>6, MessagesKept DEF MarkSessionEnded, clientVars, histVars
<1>7. ASSUME NEW r \in Rooms, RequestStop(r)
      PROVE  MessagesInOrder'
  BY <1>7, MessagesKept DEF RequestStop, clientVars, histVars
<1>8. ASSUME NEW r \in Rooms, RemoveIfEmpty(r) \/ MarkClosed(r) \/ CloseAll(r)
      PROVE  MessagesInOrder'
  <2>1. UNCHANGED <<accepted, received, inHand, queue, conn, joinedAt>>
    BY <1>8 DEF RemoveIfEmpty, MarkClosed, CloseAll, clientVars, histVars
  <2>2. /\ \A q \in Rooms : roomPc'[q] = roomPc[q] \/ (roomPc'[q] # "none" /\ roomPc[q] # "deliver")
        /\ \A q \in Rooms : members'[q] \subseteq members[q]
    BY <1>0, <1>8 DEF RemoveIfEmpty, MarkClosed, CloseAll, TypeOK
  <2> QED
    BY <2>1, <2>2, MessagesKept
<1>9. CASE Shutdown \/ ShutdownReturns \/ ShutdownTimesOut \/ UNCHANGED vars
  BY <1>9, MessagesKept DEF Shutdown, ShutdownReturns, ShutdownTimesOut, vars, roomVars, clientVars,
     histVars
<1> QED
  BY <1>1, <1>2, <1>3, <1>4, <1>5, <1>6, <1>7, <1>8, <1>9, MessagesBroadcast, MessagesTake,
     MessagesDeliver DEF Next, RoomStep

\* A client that its room keeps never misses a message: what it was given, with what the
\* room still holds, is a gapless end of what the room accepted, from its Join on at the
\* latest, for any number of clients, messages and queue capacities.
THEOREM NothingMissed == Spec => []NoGap
<1>1. Init => MessagesInOrder
  <2> SUFFICES ASSUME Init PROVE MessagesInOrder
    OBVIOUS
  <2>1. <<>> \o <<>> = <<>> /\ Len(<<>>) = 0
    BY Concatenation
  <2>2. \A r \in Rooms : /\ Held(r) = <<>> /\ accepted[r] = <<>> /\ inHand[r] = <<>>
                         /\ queue[r] = <<>> /\ members[r] = {}
    BY <2>1 DEF Init, Held
  <2>3. IsEnd(<<>>, <<>>)
    BY <2>1 DEF IsEnd
  <2> QED
    BY <2>2, <2>3 DEF Init, MessagesInOrder
<1>2. IndInv /\ MessagesInOrder => NoGap
  <2> SUFFICES ASSUME IndInv, MessagesInOrder, NEW r \in Rooms, NEW c \in Clients, c \in members[r]
               PROVE  /\ Len(Got(r, c)) <= Len(accepted[r])
                      /\ Got(r, c) = SubSeq(accepted[r], Len(accepted[r]) - Len(Got(r, c)) + 1,
                                            Len(accepted[r]))
                      /\ Len(Got(r, c)) >= Len(accepted[r]) - joinedAt[c]
    BY DEF NoGap, Got
  <2>1. IsEnd(Got(r, c), accepted[r]) /\ Len(Got(r, c)) >= Len(accepted[r]) - joinedAt[c]
    BY DEF MessagesInOrder
  <2>2. Got(r, c) \in Seq(Messages) /\ accepted[r] \in Seq(Messages)
    BY MessageSeqs DEF IndInv
  <2>3. Got(r, c) = SubSeq(accepted[r], Len(accepted[r]) - Len(Got(r, c)) + 1, Len(accepted[r]))
    BY <2>1, <2>2, Ends
  <2> QED
    BY <2>1, <2>3 DEF IsEnd
<1> QED
  BY <1>1, <1>2, Invariance, MessagesStep, PTL DEF Spec

(***************************************************************************)
(* The Hub inside the realtime path.                                       *)
(***************************************************************************)
\* The send gate, seen from the room: the room an observed session has now is
\* ended, or all its members are late.
GateInv ==
    \A s \in observed : rooms[s] # NoRoom =>
        ended[rooms[s]] \/ members[rooms[s]] \subseteq late

-----------------------------------------------------------------------------

\* The event at the head of a queue of events names a session.
LEMMA HeadIsEvent ==
    ASSUME NEW q \in Seq(Event), q # <<>>
    PROVE  Head(q) \in Event /\ Head(q).session \in Sessions /\ Tail(q) \in Seq(Event)
<1>1. Head(q) \in Event /\ Tail(q) \in Seq(Event)
  OBVIOUS
<1>2. \A ev \in Event : ev.session \in Sessions
  BY DEF Event
<1> QED
  BY <1>1, <1>2

\* A step of the realtime path is a step of the Hub or leaves the Hub alone.
LEMMA HubStepOfRealtime ==
    RealtimeTypeOK /\ [RealtimeNext]_realtimeVars => [Next]_vars
<1> SUFFICES ASSUME RealtimeTypeOK, [RealtimeNext]_realtimeVars PROVE [Next]_vars
  OBVIOUS
<1>1. CASE UNCHANGED realtimeVars
  BY <1>1 DEF realtimeVars
<1>2. ASSUME NEW s \in Sessions, EndSession(s) \/ AnnounceEnd(s) \/ PublishChat(s)
      PROVE  UNCHANGED vars
  BY <1>2 DEF EndSession, AnnounceEnd, PublishChat
<1>3. ASSUME NEW c \in Clients, NEW s \in Sessions, AuthorizeJoin(c, s)
      PROVE  UNCHANGED vars
  BY <1>3 DEF AuthorizeJoin
<1>4. ASSUME NEW c \in Clients, NEW s \in Sessions, Join(c, s)
      PROVE  Next
  BY <1>4 DEF Join, Next
<1>5. CASE Observe
  <2>1. Head(feed).session \in Sessions
    BY <1>5, HeadIsEvent DEF Observe, RealtimeTypeOK
  <2> QED
    BY <1>5, <2>1 DEF Observe, Next
<1>6. CASE Forward
  <2>1. Head(handling).session \in Sessions
    BY <1>6, HeadIsEvent DEF Forward, RealtimeTypeOK
  <2> QED
    BY <1>6, <2>1 DEF Forward, Next
<1>7. CASE LinkLost \/ Recover \/ Stop \/ Discard
  BY <1>7 DEF LinkLost, Recover, Stop, LoseFeed, Discard
<1>8. CASE HubStep
  BY <1>8 DEF HubStep, Next
<1> QED
  BY <1>1, <1>2, <1>3, <1>4, <1>5, <1>6, <1>7, <1>8 DEF RealtimeNext

\* Every step of the realtime path keeps its types.
LEMMA RealtimeTypeStep ==
    RealtimeTypeOK /\ [RealtimeNext]_realtimeVars => RealtimeTypeOK'
<1> SUFFICES ASSUME RealtimeTypeOK, [RealtimeNext]_realtimeVars PROVE RealtimeTypeOK'
  OBVIOUS
<1> USE RealtimeAssumption, HubAssumption DEF RealtimeTypeOK
<1>1. CASE UNCHANGED realtimeVars
  BY <1>1 DEF realtimeVars, busVars, joinVars
<1>2. ASSUME NEW ev \in Event, Route(ev)
      PROVE  feed' \in Seq(Event)
  BY <1>2 DEF Route
<1>3. ASSUME NEW s \in Sessions, EndSession(s)
      PROVE  RealtimeTypeOK'
  BY <1>3 DEF EndSession, joinVars
<1>4. ASSUME NEW s \in Sessions, AnnounceEnd(s)
      PROVE  RealtimeTypeOK'
  <2>1. feed' \in Seq(Event)
    BY <1>2, <1>4 DEF AnnounceEnd, Event
  <2> QED
    BY <1>4, <2>1 DEF AnnounceEnd, joinVars
<1>5. ASSUME NEW s \in Sessions, PublishChat(s)
      PROVE  RealtimeTypeOK'
  <2>1. feed' \in Seq(Event)
    BY <1>2, <1>5 DEF PublishChat, Event
  <2> QED
    BY <1>5, <2>1 DEF PublishChat, joinVars
<1>6. ASSUME NEW c \in Clients, NEW s \in Sessions, AuthorizeJoin(c, s) \/ Join(c, s)
      PROVE  RealtimeTypeOK'
  BY <1>6 DEF AuthorizeJoin, Join, busVars
<1>7. CASE Observe
  <2>1. Head(feed) \in Event /\ Tail(feed) \in Seq(Event) /\ Head(feed).session \in Sessions
    BY <1>7, HeadIsEvent DEF Observe
  <2>2. feed' \in Seq(Event) /\ handling' \in Seq(Event) /\ observed' \in SUBSET Sessions
    BY <1>7, <2>1 DEF Observe
  <2> QED
    BY <1>7, <2>2 DEF Observe, joinVars
<1>8. CASE Forward \/ Recover
  <2>1. handling' \in Seq(Event)
    <3>1. CASE handling' = <<>>
      BY <3>1
    <3>2. CASE handling' = handling
      BY <3>2
    <3> QED
      BY <1>8, <3>1, <3>2 DEF Forward, Recover
  <2>2. link' \in {"up", "down", "stopped"}
    BY <1>8 DEF Forward, Recover
  <2>3. UNCHANGED <<status, feed, chats, announced, observed, missed, authorized, late>>
    BY <1>8 DEF Forward, Recover, joinVars
  <2> QED
    BY <2>1, <2>2, <2>3
<1>9. CASE LinkLost \/ Stop
  <2> DEFINE lost == {s \in Sessions :
                        \E i \in DOMAIN feed : feed[i] = [session |-> s, kind |-> "ended"]}
  <2>1. missed' = missed \cup lost
    BY <1>9 DEF LinkLost, Stop, LoseFeed
  <2>2. lost \subseteq Sessions
    OBVIOUS
  <2> HIDE DEF lost
  <2>3. missed' \in SUBSET Sessions
    BY <2>1, <2>2
  <2>4. /\ link' \in {"down", "stopped"} /\ feed' = <<>>
        /\ UNCHANGED <<status, handling, chats, announced, observed, joinVars>>
    BY <1>9 DEF LinkLost, Stop, LoseFeed
  <2> QED
    BY <2>3, <2>4 DEF joinVars
<1>10. CASE HubStep
  BY <1>10 DEF HubStep, busVars, joinVars
<1>11. CASE Discard
  <2>1. feed' \in Seq(Event)
    BY <1>11, HeadIsEvent DEF Discard
  <2> QED
    BY <1>11, <2>1 DEF Discard, joinVars
<1> QED
  BY <1>1, <1>3, <1>4, <1>5, <1>6, <1>7, <1>8, <1>9, <1>10, <1>11 DEF RealtimeNext

\* A step that only empties rooms, takes them out of the map or ends them.
LEMMA GateFrame ==
    ASSUME GateInv, IndInv,
           \A s \in Sessions : rooms'[s] \in {rooms[s], NoRoom},
           \A r \in Rooms : members'[r] \subseteq members[r] /\ (ended[r] => ended'[r]),
           RealtimeTypeOK, observed' = observed, late' = late
    PROVE  GateInv'
BY DEF GateInv, RealtimeTypeOK, IndInv, TypeOK

\* A client that joins the room of an observed session is late; a new room
\* has no other members.
LEMMA GateJoin ==
    ASSUME GateInv, IndInv, RealtimeTypeOK, NEW c \in Clients, NEW s \in Sessions, Join(c, s)
    PROVE  GateInv'
<1> USE HubAssumption DEF IndInv, TypeOK, RealtimeTypeOK
<1>1. observed' = observed /\ late \subseteq late'
  BY DEF Join, busVars
<1>2. CASE JoinRefused(c, s)
  BY <1>1, <1>2 DEF GateInv, JoinRefused, hubVars, roomVars
<1>3. CASE JoinExisting(c, s)
  <2>1. /\ rooms' = rooms /\ ended' = ended
        /\ members' = [members EXCEPT ![rooms[s]] = @ \cup {c}]
        /\ rooms[s] \in Rooms
    BY <1>3 DEF JoinExisting, Enter, hubVars
  <2>2. \A t \in Sessions : t # s /\ rooms[t] # NoRoom => rooms[t] # rooms[s]
    BY <2>1 DEF MappedRoomIsServed
  <2>3. s \in observed => c \in late'
    BY <1>3 DEF Join, JoinRefused, JoinExisting
  <2> QED
    BY <1>1, <2>1, <2>2, <2>3 DEF GateInv
<1>4. CASE JoinNew(c, s)
  <2>1. PICK r \in Rooms :
          /\ roomPc[r] = "none"
          /\ members' = [members EXCEPT ![r] = @ \cup {c}]
          /\ rooms' = [rooms EXCEPT ![s] = r]
          /\ ended' = ended
    BY <1>4 DEF JoinNew, Enter
  <2>2. members[r] = {}
    BY <2>1 DEF MembersAreJoined
  <2>3. ASSUME NEW t \in Sessions, rooms[t] = r PROVE FALSE
    <3>1. roomPc[rooms[t]] \in {"select", "deliver", "emptied"}
      BY <2>3 DEF MappedRoomIsServed
    <3> QED
      BY <2>1, <2>3, <3>1
  <2>4. s \in observed => c \in late'
    BY <1>4 DEF Join, JoinRefused, JoinNew
  <2> QED
    BY <1>1, <2>1, <2>2, <2>3, <2>4 DEF GateInv
<1> QED
  BY <1>2, <1>3, <1>4 DEF Join

\* The subscriber ends the room before it goes on; the end of a session that has
\* no room leaves nobody behind.
LEMMA GateObserve ==
    ASSUME GateInv, IndInv, RealtimeTypeOK, Observe
    PROVE  GateInv'
<1> DEFINE s == Head(feed).session
<1>1. s \in Sessions
  BY HeadIsEvent DEF Observe, RealtimeTypeOK
<1>2. late' = late
  BY DEF Observe, joinVars
<1> HIDE DEF s
<1>3. CASE UNCHANGED <<vars, observed>>
  BY <1>2, <1>3 DEF GateInv, vars, hubVars, roomVars
<1>4. CASE observed' = observed \cup {s} /\ rooms[s] = NoRoom /\ UNCHANGED vars
  BY <1>2, <1>4 DEF GateInv, vars, hubVars, roomVars
<1>5. CASE observed' = observed \cup {s} /\ MarkSessionEnded(s)
  BY <1>1, <1>2, <1>5 DEF GateInv, MarkSessionEnded, hubVars, IndInv, TypeOK, RealtimeTypeOK
<1> QED
  BY <1>3, <1>4, <1>5 DEF Observe, s

\* Every step of the realtime path keeps the gate closed on members.
LEMMA GateStep ==
    GateInv /\ IndInv /\ RealtimeTypeOK /\ [RealtimeNext]_realtimeVars => GateInv'
<1> SUFFICES ASSUME GateInv, IndInv, RealtimeTypeOK, [RealtimeNext]_realtimeVars
             PROVE  GateInv'
  OBVIOUS
<1>1. CASE UNCHANGED <<rooms, ended, members, observed, late>>
  BY <1>1 DEF GateInv
<1>2. UNCHANGED realtimeVars => UNCHANGED <<rooms, ended, members, observed, late>>
  BY DEF realtimeVars, vars, hubVars, roomVars, busVars, joinVars
<1>3. ASSUME NEW s \in Sessions, EndSession(s) \/ AnnounceEnd(s) \/ PublishChat(s)
      PROVE  UNCHANGED <<rooms, ended, members, observed, late>>
  BY <1>3 DEF EndSession, AnnounceEnd, PublishChat, vars, hubVars, roomVars, joinVars
<1>4. ASSUME NEW c \in Clients, NEW s \in Sessions, AuthorizeJoin(c, s)
      PROVE  UNCHANGED <<rooms, ended, members, observed, late>>
  BY <1>4 DEF AuthorizeJoin, vars, hubVars, roomVars, busVars
<1>5. CASE Forward \/ Recover \/ Discard
  BY <1>1, <1>5 DEF Forward, Recover, Discard, BroadcastIfPresent, vars, hubVars, roomVars, joinVars
<1>7. CASE LinkLost \/ Stop
  BY <1>1, <1>7 DEF LinkLost, Stop, LoseFeed, vars, hubVars, roomVars, joinVars
<1>6. CASE HubStep
  <2>1. observed' = observed /\ late' = late
    BY <1>6 DEF HubStep, busVars, joinVars
  <2>2. /\ \A s \in Sessions : rooms'[s] \in {rooms[s], NoRoom}
        /\ \A r \in Rooms : members'[r] \subseteq members[r] /\ (ended[r] => ended'[r])
    <3> USE DEF IndInv, TypeOK
    <3>1. ASSUME NEW c \in Clients, EnqueueAck(c) \/ Write(c) \/ LeaveGone(c)
          PROVE  UNCHANGED <<rooms, members, ended>>
      BY <3>1 DEF EnqueueAck, Write, LeaveGone, hubVars, roomVars
    <3>2. ASSUME NEW c \in Clients, Leave(c)
          PROVE  <2>2!1 /\ <2>2!2
      BY <3>2 DEF Leave, HandlerAndClient
    <3>3. ASSUME NEW r \in Rooms, RequestStop(r) \/ Take(r) \/ MarkClosed(r)
          PROVE  UNCHANGED <<rooms, members, ended>>
      BY <3>3 DEF RequestStop, Take, MarkClosed, hubVars
    <3>4. ASSUME NEW r \in Rooms, Deliver(r) \/ CloseAll(r)
          PROVE  <2>2!1 /\ <2>2!2
      <4>1. rooms' = rooms /\ ended' = ended
        BY <3>4 DEF Deliver, CloseAll, hubVars
      <4>2. \E kept : kept \subseteq members[r] /\ members' = [members EXCEPT ![r] = kept]
        BY <3>4 DEF Deliver, CloseAll
      <4> QED
        BY <4>1, <4>2
    <3>5. ASSUME NEW r \in Rooms, RemoveIfEmpty(r)
          PROVE  <2>2!1 /\ <2>2!2
      BY <3>5 DEF RemoveIfEmpty
    <3>6. CASE Shutdown \/ ShutdownReturns \/ ShutdownTimesOut
      BY <3>6 DEF Shutdown, ShutdownReturns, ShutdownTimesOut, roomVars
    <3> QED
      BY <1>6, <3>1, <3>2, <3>3, <3>4, <3>5, <3>6 DEF HubStep, RoomStep
  <2> QED
    BY <2>1, <2>2, GateFrame
<1> QED
  BY <1>1, <1>2, <1>3, <1>4, <1>5, <1>6, <1>7, GateJoin, GateObserve DEF RealtimeNext

-----------------------------------------------------------------------------

\* Types of the realtime path.
THEOREM RealtimeTypeCorrect == RealtimeSpec => []RealtimeTypeOK
<1>1. RealtimeInit => RealtimeTypeOK
  BY RealtimeAssumption, HubAssumption DEF RealtimeInit, RealtimeTypeOK
<1> QED
  BY <1>1, RealtimeTypeStep, PTL DEF RealtimeSpec

\* Fed by the subscriber and joined only by authorized handlers, the Hub is
\* still the Hub of module Hub: everything HubProofs proves holds here too.
THEOREM ImplementsHub == RealtimeSpec => Spec
<1>1. RealtimeInit => Init
  BY DEF RealtimeInit
<1> QED
  BY <1>1, HubStepOfRealtime, RealtimeTypeCorrect, PTL DEF RealtimeSpec, Spec

\* After the end of a session was observed its gate is shut on every connection of
\* it but those that joined later and those already cut off, for any number of
\* clients, rooms, announcements and channel losses.
THEOREM GateCloses == RealtimeSpec => []GateClosedOnMembers
<1>1. RealtimeInit => GateInv
  BY DEF RealtimeInit, GateInv
<1>2. RealtimeSpec => []IndInv
  BY ImplementsHub, Invariance, PTL
<1>3. RealtimeSpec => []GateInv
  BY <1>1, <1>2, GateStep, RealtimeTypeCorrect, PTL DEF RealtimeSpec
<1>4. GateInv /\ IndInv /\ RealtimeTypeOK => GateClosedOnMembers
  <2> SUFFICES ASSUME GateInv, IndInv, RealtimeTypeOK, NEW s \in observed, SendAllowed(s),
                      NEW c \in Clients, conn[c] = "connected", target[c] = s,
                      client[c] # "closed"
               PROVE  c \in late
    BY DEF GateClosedOnMembers
  <2>1. s \in Sessions /\ rooms[s] \in Rooms /\ ~ended[rooms[s]]
    BY DEF SendAllowed, RealtimeTypeOK, IndInv, TypeOK
  <2>2. client[c] = "joined"
    BY DEF IndInv, TypeOK, HandlerAndClient
  <2>3. PICK r \in Rooms : c \in members[r]
    BY <2>2 DEF IndInv, JoinedAreMembers
  <2>4. roomId[r] = s
    BY <2>3 DEF IndInv, MembersAreJoined
  <2>5. ~hubClosed
    BY <2>1, HubAssumption DEF IndInv, ClosedHubIsEmpty
  <2>6. rooms[s] = r
    BY <2>3, <2>4, <2>5 DEF IndInv, MembersAreReachable, Mapped
  <2> QED
    BY <2>1, <2>3, <2>6, HubAssumption DEF GateInv
<1> QED
  BY <1>2, <1>3, <1>4, RealtimeTypeCorrect, PTL
=============================================================================

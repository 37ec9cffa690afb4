----------------------------- MODULE Connection -----------------------------
(***************************************************************************)
(* The WebSocket connections of one API instance (internal/handler):       *)
(* admission under the connection limits, the handler that is also the     *)
(* reader, the sequential Chat processor and the writer of each            *)
(* connection, and the graceful shutdown that waits for all of them.       *)
(*                                                                         *)
(* Of the Hub (module Hub) only what a connection sees is kept: its Client *)
(* is open or closed, a room fills its outbound queue or closes it, and a  *)
(* closed Hub refuses Join.  Frames are numbered in the order the peer     *)
(* sends them; MaxFrames bounds them.                                      *)
(***************************************************************************)
EXTENDS Integers, Sequences, FiniteSets

CONSTANTS
    Conns,         \* upgrade requests
    Users,         \* authenticated users
    User,          \* User[c]: the user of a request
    MaxConnections, MaxConnectionsPerUser,
    ReceiveCap,    \* ClientReceiveQueueCapacity
    SendCap,       \* ClientSendQueueCapacity
    MaxFrames      \* bound: MaxFrames[c] frames a peer sends

ASSUME ConnectionAssumption ==
    /\ IsFiniteSet(Conns)
    /\ User \in [Conns -> Users]
    /\ {MaxConnections, MaxConnectionsPerUser, ReceiveCap, SendCap} \subseteq Nat \ {0}
    /\ MaxFrames \in [Conns -> Nat]

VARIABLES
    draining, active, activeByUser,  \* WebSocketHandler
    shutdown,   \* the Shutdown call: idle, draining, waiting, returned, timedout
    hubClosed,  \* Hub.closed
    pc,         \* where the handler of a connection is
    sock,       \* the network connection: open, or closed by either side
    cancelled,  \* connectionCtx is done
    inbound,    \* frames queued for the processor
    reading,    \* inbound is not closed yet
    processor,  \* none, idle, handling, answering, done
    frame,      \* the frame it handles, with its answer once it has one
    writer,     \* none, running, signalled (writerDone sent, its tail to come), done
    client,     \* the Hub's Client: none, open, closed
    outbound,   \* Client.outboundCh
    sent,       \* frames the peer has sent so far
    confirmed,  \* history: frames whose publication was confirmed
    acks        \* history: answers enqueued on the outbound queue

handlerVars == <<draining, active, activeByUser, shutdown, hubClosed>>
connVars    == <<pc, sock, cancelled>>
pumpVars    == <<inbound, reading, processor, frame, writer>>
clientVars  == <<client, outbound>>
histVars    == <<sent, confirmed, acks>>
vars        == <<handlerVars, connVars, pumpVars, clientVars, histVars>>

Set(f, c, v) == [f EXCEPT ![c] = v]

Init ==
    /\ draining = FALSE
    /\ active = 0
    /\ activeByUser = [u \in Users |-> 0]
    /\ shutdown = "idle"
    /\ hubClosed = FALSE
    /\ pc = [c \in Conns |-> "start"]
    /\ sock = [c \in Conns |-> "closed"]
    /\ cancelled = [c \in Conns |-> FALSE]
    /\ inbound = [c \in Conns |-> <<>>]
    /\ reading = [c \in Conns |-> FALSE]
    /\ processor = [c \in Conns |-> "none"]
    /\ frame = [c \in Conns |-> <<>>]
    /\ writer = [c \in Conns |-> "none"]
    /\ client = [c \in Conns |-> "none"]
    /\ outbound = [c \in Conns |-> <<>>]
    /\ sent = [c \in Conns |-> 0]
    /\ confirmed = [c \in Conns |-> {}]
    /\ acks = [c \in Conns |-> <<>>]

(***************************************************************************)
(* Connect.                                                                *)
(***************************************************************************)

Admissible(c) ==
    /\ ~draining
    /\ active < MaxConnections
    /\ activeByUser[User[c]] < MaxConnectionsPerUser

\* admit, under lifecycleMu.
Admit(c) ==
    /\ pc[c] = "start"
    /\ IF Admissible(c)
         THEN /\ active' = active + 1
              /\ activeByUser' = [activeByUser EXCEPT ![User[c]] = @ + 1]
              /\ pc' = Set(pc, c, "admitted")
         ELSE /\ pc' = Set(pc, c, "refused")
              /\ UNCHANGED <<active, activeByUser>>
    /\ UNCHANGED <<draining, shutdown, hubClosed, sock, cancelled, pumpVars, clientVars, histVars>>

\* NewClient and the upgrade, which may fail.
Upgrade(c) ==
    /\ pc[c] = "admitted"
    /\ \/ /\ pc' = Set(pc, c, "upgraded")
          /\ sock' = Set(sock, c, "open")
       \/ pc' = Set(pc, c, "releasing") /\ UNCHANGED sock
    /\ UNCHANGED <<handlerVars, cancelled, pumpVars, clientVars, histVars>>

\* Hub.Join; a Hub that refuses (closed, or the session's room ended) ends the
\* connection.
Join(c) ==
    /\ pc[c] = "upgraded"
    /\ \/ /\ ~hubClosed
          /\ client' = Set(client, c, "open")
          /\ pc' = Set(pc, c, "joined")
          /\ UNCHANGED sock
       \/ /\ sock' = Set(sock, c, "closed")
          /\ pc' = Set(pc, c, "releasing")
          /\ UNCHANGED client
    /\ UNCHANGED <<handlerVars, cancelled, pumpVars, outbound, histVars>>

\* Hub.Leave closes the Client, unless Shutdown already took its room out of the
\* map: then the room closes it.
LeaveHub(c) == client' = IF hubClosed THEN client ELSE Set(client, c, "closed")

\* writeRoomReady succeeds and the pumps start.
RoomReady(c) ==
    /\ pc[c] = "joined"
    /\ pc' = Set(pc, c, "reading")
    /\ reading' = Set(reading, c, TRUE)
    /\ processor' = Set(processor, c, "idle")
    /\ writer' = Set(writer, c, "running")
    /\ UNCHANGED <<handlerVars, sock, cancelled, inbound, frame, clientVars, histVars>>

RoomReadyFails(c) ==
    /\ pc[c] = "joined"
    /\ LeaveHub(c)
    /\ sock' = Set(sock, c, "closed")
    /\ pc' = Set(pc, c, "releasing")
    /\ UNCHANGED <<handlerVars, cancelled, pumpVars, outbound, histVars>>

\* readPump queues a text frame for the processor.
ReadFrame(c) ==
    /\ pc[c] = "reading" /\ sock[c] = "open"
    /\ sent[c] < MaxFrames[c]
    /\ Len(inbound[c]) < ReceiveCap
    /\ sent' = Set(sent, c, sent[c] + 1)
    /\ inbound' = Set(inbound, c, Append(inbound[c], sent[c] + 1))
    /\ UNCHANGED <<handlerVars, connVars, reading, processor, frame, writer, clientVars, confirmed, acks>>

\* readPump returns: inbound is closed and the context cancelled.
StopReading(c) ==
    /\ pc[c] = "reading"
    /\ pc' = Set(pc, c, "leaving")
    /\ reading' = Set(reading, c, FALSE)
    /\ cancelled' = Set(cancelled, c, TRUE)
    /\ UNCHANGED <<handlerVars, inbound, processor, frame, writer, clientVars>>

\* ... because the connection failed, or the read deadline passed.
ReadFails(c) == StopReading(c) /\ UNCHANGED <<sock, histVars>>

\* ... because of an unsupported frame, or one that finds inbound full.
ReadRejects(c) ==
    /\ StopReading(c)
    /\ sock[c] = "open"
    /\ sent[c] < MaxFrames[c]
    /\ sent' = Set(sent, c, sent[c] + 1)
    /\ sock' = Set(sock, c, "closed")
    /\ UNCHANGED <<confirmed, acks>>

Leave(c) ==
    /\ pc[c] = "leaving"
    /\ LeaveHub(c)
    /\ pc' = Set(pc, c, "waiting")
    /\ UNCHANGED <<handlerVars, sock, cancelled, pumpVars, outbound, histVars>>

\* writerDone has been sent; the goroutine itself may still have its tail to run.
WriterSignalled(c) == writer[c] \in {"signalled", "done"}

\* Faulty variant: the processor is not waited for.
AwaitWriterOnly(c) ==
    /\ pc[c] = "waiting"
    /\ WriterSignalled(c)
    /\ sock' = Set(sock, c, "closed")
    /\ pc' = Set(pc, c, "releasing")
    /\ UNCHANGED <<handlerVars, cancelled, pumpVars, clientVars, histVars>>

\* writerDone and processorDone.
AwaitPumps(c) ==
    /\ pc[c] = "waiting"
    /\ WriterSignalled(c) /\ processor[c] = "done"
    /\ sock' = Set(sock, c, "closed")
    /\ pc' = Set(pc, c, "releasing")
    /\ UNCHANGED <<handlerVars, cancelled, pumpVars, clientVars, histVars>>

\* Faulty variant: the user's count stays.
ReleaseForgetsUser(c) ==
    /\ pc[c] = "releasing"
    /\ active' = active - 1
    /\ pc' = Set(pc, c, "released")
    /\ UNCHANGED <<draining, activeByUser, shutdown, hubClosed, sock, cancelled, pumpVars,
                   clientVars, histVars>>

\* The deferred release.
Release(c) ==
    /\ pc[c] = "releasing"
    /\ active' = active - 1
    /\ activeByUser' = [activeByUser EXCEPT ![User[c]] = @ - 1]
    /\ pc' = Set(pc, c, "released")
    /\ UNCHANGED <<draining, shutdown, hubClosed, sock, cancelled, pumpVars, clientVars, histVars>>

(***************************************************************************)
(* processPump.                                                            *)
(***************************************************************************)

TakeFrame(c) ==
    /\ processor[c] = "idle"
    /\ ~cancelled[c] /\ inbound[c] # <<>>
    /\ frame' = Set(frame, c, <<Head(inbound[c])>>)
    /\ inbound' = Set(inbound, c, Tail(inbound[c]))
    /\ processor' = Set(processor, c, "handling")
    /\ UNCHANGED <<handlerVars, connVars, reading, writer, clientVars, histVars>>

\* Faulty variant: a publication without its confirmation counts as accepted.
HandleOptimistic(c) ==
    /\ processor[c] = "handling"
    /\ \E status \in {"accepted", "rejected"} : frame' = Set(frame, c, Append(frame[c], status))
    /\ confirmed' \in {confirmed, Set(confirmed, c, confirmed[c] \cup {frame[c][1]})}
    /\ processor' = Set(processor, c, "answering")
    /\ UNCHANGED <<handlerVars, connVars, inbound, reading, writer, clientVars, sent, acks>>

\* chatService.Accept ends without an error: the frame was valid, within the rate
\* limits, and its publication confirmed.
Accept(c) ==
    /\ frame' = Set(frame, c, Append(frame[c], "accepted"))
    /\ confirmed' = Set(confirmed, c, confirmed[c] \cup {frame[c][1]})

\* An invalid frame, a closed gate, or any error of Accept.
Reject(c) ==
    /\ frame' = Set(frame, c, Append(frame[c], "rejected"))
    /\ UNCHANGED confirmed

\* handleClientFrame up to its answer.
Handle(c) ==
    /\ processor[c] = "handling"
    /\ Accept(c) \/ Reject(c)
    /\ processor' = Set(processor, c, "answering")
    /\ UNCHANGED <<handlerVars, connVars, inbound, reading, writer, clientVars, sent, acks>>

CanEnqueue(c) == client[c] = "open" /\ Len(outbound[c]) < SendCap

\* Faulty variant: a failed processor leaves the connection alone.
ProcessorFailsQuietly(c) ==
    /\ processor[c] = "answering" /\ ~CanEnqueue(c)
    /\ processor' = Set(processor, c, "done")
    /\ UNCHANGED <<handlerVars, connVars, inbound, reading, frame, writer, clientVars, histVars>>

\* enqueueChatAck on a full or closed queue: the processor gives up and closes the
\* connection.
ProcessorFails(c) ==
    /\ processor[c] = "answering" /\ ~CanEnqueue(c)
    /\ processor' = Set(processor, c, "done")
    /\ cancelled' = Set(cancelled, c, TRUE)
    /\ sock' = Set(sock, c, "closed")
    /\ UNCHANGED <<handlerVars, pc, inbound, reading, frame, writer, clientVars, histVars>>

EnqueueAck(c) ==
    /\ processor[c] = "answering" /\ CanEnqueue(c)
    /\ outbound' = Set(outbound, c, Append(outbound[c], frame[c]))
    /\ acks' = Set(acks, c, Append(acks[c], frame[c]))
    /\ frame' = Set(frame, c, <<>>)
    /\ processor' = Set(processor, c, "idle")
    /\ UNCHANGED <<handlerVars, connVars, inbound, reading, writer, client, sent, confirmed>>

\* The context is done, or inbound is closed and empty.
ProcessorEnds(c) ==
    /\ processor[c] = "idle"
    /\ cancelled[c] \/ (~reading[c] /\ inbound[c] = <<>>)
    /\ processor' = Set(processor, c, "done")
    /\ UNCHANGED <<handlerVars, connVars, inbound, reading, frame, writer, clientVars, histVars>>

(***************************************************************************)
(* writePump.                                                              *)
(***************************************************************************)

WriteMessage(c) ==
    /\ writer[c] = "running" /\ sock[c] = "open"
    /\ outbound[c] # <<>>
    /\ outbound' = Set(outbound, c, Tail(outbound[c]))
    /\ UNCHANGED <<handlerVars, connVars, pumpVars, client, histVars>>

\* A write or ping fails, or the Client is done: writePump returns and its result
\* is sent on writerDone, which the handler may receive at once.
WriterEnds(c) ==
    /\ writer[c] = "running"
    /\ sock[c] = "closed" \/ client[c] = "closed"
    /\ writer' = Set(writer, c, "signalled")
    /\ UNCHANGED <<handlerVars, connVars, inbound, reading, processor, frame, clientVars, histVars>>

\* Faulty variant: the writer does not close the connection behind it.
WriterClosesQuietly(c) ==
    /\ writer[c] = "signalled"
    /\ writer' = Set(writer, c, "done")
    /\ UNCHANGED <<handlerVars, connVars, inbound, reading, processor, frame, clientVars, histVars>>

\* Only then its goroutine cancels the context and closes the connection.
WriterCloses(c) ==
    /\ writer[c] = "signalled"
    /\ writer' = Set(writer, c, "done")
    /\ cancelled' = Set(cancelled, c, TRUE)
    /\ sock' = Set(sock, c, "closed")
    /\ UNCHANGED <<handlerVars, pc, inbound, reading, processor, frame, clientVars, histVars>>

(***************************************************************************)
(* The peer, the rooms and Shutdown.                                       *)
(***************************************************************************)

PeerGone(c) ==
    /\ sock[c] = "open"
    /\ sock' = Set(sock, c, "closed")
    /\ UNCHANGED <<handlerVars, pc, cancelled, pumpVars, clientVars, histVars>>

\* A room delivers an event, or closes a Client whose queue is full.
RoomDelivers(c) ==
    /\ client[c] = "open"
    /\ IF CanEnqueue(c)
         THEN outbound' = Set(outbound, c, Append(outbound[c], <<"event">>)) /\ UNCHANGED client
         ELSE client' = Set(client, c, "closed") /\ UNCHANGED outbound
    /\ UNCHANGED <<handlerVars, connVars, pumpVars, histVars>>

\* closeAll of a room that Shutdown stopped.
RoomCloses(c) ==
    /\ hubClosed /\ client[c] = "open"
    /\ client' = Set(client, c, "closed")
    /\ UNCHANGED <<handlerVars, connVars, pumpVars, outbound, histVars>>

SetDraining ==
    /\ shutdown = "idle"
    /\ shutdown' = "draining"
    /\ draining' = TRUE
    /\ UNCHANGED <<active, activeByUser, hubClosed, connVars, pumpVars, clientVars, histVars>>

\* Hub.Shutdown closes the Hub and waits for the rooms.
ShutdownHub ==
    /\ shutdown = "draining"
    /\ shutdown' = "waiting"
    /\ hubClosed' = TRUE
    /\ UNCHANGED <<draining, active, activeByUser, connVars, pumpVars, clientVars, histVars>>

\* connections counts the admitted handlers that have not released.
Admitted == {c \in Conns : pc[c] \notin {"start", "refused", "released"}}

\* Then connections.Wait returns.
ShutdownReturns ==
    /\ shutdown = "waiting"
    /\ \A c \in Conns : client[c] # "open"
    /\ Admitted = {}
    /\ shutdown' = "returned"
    /\ UNCHANGED <<draining, active, activeByUser, hubClosed, connVars, pumpVars, clientVars, histVars>>

ShutdownTimesOut ==
    /\ shutdown = "waiting"
    /\ shutdown' = "timedout"
    /\ UNCHANGED <<draining, active, activeByUser, hubClosed, connVars, pumpVars, clientVars, histVars>>

(***************************************************************************)
(* Specification.                                                          *)
(***************************************************************************)
HandlerStep(c) ==
    \/ Upgrade(c) \/ Join(c) \/ RoomReady(c) \/ RoomReadyFails(c)
    \/ (sock[c] = "closed" /\ ReadFails(c)) \/ Leave(c) \/ AwaitPumps(c) \/ Release(c)

ProcessorStep(c) ==
    TakeFrame(c) \/ Handle(c) \/ ProcessorFails(c) \/ EnqueueAck(c) \/ ProcessorEnds(c)

Next ==
    \/ \E c \in Conns :
          \/ Admit(c) \/ HandlerStep(c) \/ ReadFrame(c) \/ ReadFails(c) \/ ReadRejects(c)
          \/ ProcessorStep(c) \/ WriteMessage(c) \/ WriterEnds(c) \/ WriterCloses(c)
          \/ PeerGone(c) \/ RoomDelivers(c) \/ RoomCloses(c)
    \/ SetDraining \/ ShutdownHub \/ ShutdownReturns \/ ShutdownTimesOut

Spec == Init /\ [][Next]_vars

\* The goroutines of a connection run when they can (every blocking call of the
\* handler and the processor has a timeout), a read on a closed connection fails,
\* and a stopped room closes its clients (Hub!UnmappedRoomsEnd).  Nothing is
\* assumed of peers.
FairSpec ==
    /\ Spec
    /\ \A c \in Conns :
          /\ WF_vars(HandlerStep(c))
          /\ WF_vars(ProcessorStep(c))
          /\ WF_vars(WriteMessage(c) \/ WriterEnds(c) \/ WriterCloses(c))
          /\ WF_vars(RoomCloses(c))

(***************************************************************************)
(* Properties.                                                             *)
(***************************************************************************)

\* The counters of the admission limits are exact on every path out of Connect,
\* and the limits hold, for the server and for each user.
AdmissionExact ==
    /\ active = Cardinality(Admitted) /\ active <= MaxConnections
    /\ \A u \in Users :
          /\ activeByUser[u] = Cardinality({c \in Admitted : User[c] = u})
          /\ activeByUser[u] <= MaxConnectionsPerUser

\* Once Shutdown returned without error no connection is served: every admitted
\* handler has released, every network connection and Client is closed and no
\* processor is left that could publish.  Of a writer there may be left the tail
\* that closes what is closed, since it signals first.  Requests that are not yet
\* admitted are not waited for here (they may be in AuthorizeJoin, and so in
\* MySQL); the shutdown of the HTTP server waits for them, and admit refuses them.
ShutdownIsQuiet ==
    shutdown = "returned" => \A c \in Conns :
        /\ c \notin Admitted /\ sock[c] = "closed" /\ client[c] # "open"
        /\ processor[c] \in {"none", "done"} /\ writer[c] # "running"

\* The peer is told "accepted" only of frames whose publication was confirmed,
\* and the answers come in the order of its frames, one each.
AcksAreTrue ==
    \A c \in Conns : \A i \in DOMAIN acks[c] :
        /\ acks[c][i][1] = i
        /\ acks[c][i][2] = "accepted" => i \in confirmed[c]

\* Whichever of its goroutines stops first, the handler ends and releases its
\* place: neither a failed writer, nor a failed processor, nor a Client the room
\* has closed leaves the reader waiting for a peer that says nothing.
HandlerEnds ==
    \A c \in Conns :
        (pc[c] = "reading" /\ (WriterSignalled(c) \/ processor[c] = "done" \/ client[c] = "closed"))
            ~> pc[c] = "released"

\* Once the Hub is closed every admitted handler ends, also one that was still
\* upgrading or whose peer says nothing, so that Shutdown need not time out.
ShutdownDrains == hubClosed ~> (Admitted = {})
=============================================================================

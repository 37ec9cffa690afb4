------------------------------ MODULE Publisher ------------------------------
(***************************************************************************)
(* The confirming RabbitMQ publisher of one API instance: a bounded pool   *)
(* of lanes, each an AMQP channel in confirm mode with one publication in  *)
(* flight, and the exchange that routes, returns, refuses or confirms what *)
(* arrives on them.                                                        *)
(*                                                                         *)
(* The answers of the broker travel as frames; the AMQP library reads them *)
(* in order and fills returnsCh, which holds one return, or resolves a     *)
(* confirmation.  A lane that gives up on an answer drops its channel and  *)
(* opens another one: a channel is known by its lane and generation.       *)
(***************************************************************************)
EXTENDS Integers, Sequences, FiniteSets

CONSTANTS
    Pubs,      \* calls of Publish, each with a valid event
    Lanes,     \* the publisher's lanes
    Queues,    \* queues that may be bound to the event's routing key
    PersistenceQueue, \* the one that makes a Chat event durable
    None,      \* no lane
    MaxFaults  \* bound: lost channels and changes of bindings

ASSUME PublisherAssumption ==
    /\ None \notin Lanes
    /\ IsFiniteSet(Pubs)
    /\ PersistenceQueue \in Queues
    /\ MaxFaults \in Nat

VARIABLES
    pc,        \* where a call of Publish is
    lane,      \* the lane it acquired
    result,    \* what it returned
    conf,      \* its deferred confirmation
    available, \* Publisher.available
    active,    \* Publisher.active
    closed,    \* Publisher.closed
    closePc,   \* the Close call: idle, waiting, done
    chan,      \* publisherLane.channel: nil, open, or dead (IsClosed)
    gen,       \* which of its channels a lane is at
    returns,   \* returnsCh of the lane's channel
    frames,    \* answers of the broker the library has not read yet
    flight,    \* published messages the broker has not handled yet
    bound,     \* queues bound to the routing key now
    queued,    \* history: the messages each queue took
    answered,  \* history: messages the broker returned or refused, with its answer
    faults     \* faults injected so far

callVars   == <<pc, lane, result, conf>>
poolVars   == <<available, active, closed, closePc>>
laneVars   == <<chan, gen, returns, frames>>
brokerVars == <<flight, bound, queued, answered>>
vars       == <<callVars, poolVars, laneVars, brokerVars, faults>>

Fault == faults < MaxFaults /\ faults' = faults + 1

\* InitializeCoreTopology declares the exchange, the queue and the binding, once,
\* when the process starts.
CoreTopology == bound = Queues

\* NewPublisher opens the channel of every lane.
Init ==
    /\ pc = [p \in Pubs |-> "new"]
    /\ lane = [p \in Pubs |-> None]
    /\ result = [p \in Pubs |-> "none"]
    /\ conf = [p \in Pubs |-> "none"]
    /\ available = Lanes
    /\ active = 0
    /\ closed = FALSE
    /\ closePc = "idle"
    /\ chan = [l \in Lanes |-> "open"]
    /\ gen = [l \in Lanes |-> 1]
    /\ returns = [l \in Lanes |-> <<>>]
    /\ frames = [l \in Lanes |-> <<>>]
    /\ flight = {}
    /\ CoreTopology
    /\ queued = [q \in Queues |-> {}]
    /\ answered = {}
    /\ faults = 0

(***************************************************************************)
(* acquire and release.                                                    *)
(***************************************************************************)

\* Faulty variant: the closed flag is not looked at.
EnterUnchecked(p) ==
    /\ pc[p] = "new"
    /\ pc' = [pc EXCEPT ![p] = "waiting"]
    /\ active' = active + 1
    /\ UNCHANGED <<lane, result, conf, available, closed, closePc, laneVars, brokerVars, faults>>

\* acquire up to the select: a closed publisher refuses the call.
Enter(p) ==
    /\ pc[p] = "new"
    /\ IF closed
         THEN /\ pc' = [pc EXCEPT ![p] = "done"]
              /\ result' = [result EXCEPT ![p] = "closed"]
              /\ UNCHANGED active
         ELSE /\ pc' = [pc EXCEPT ![p] = "waiting"]
              /\ active' = active + 1
              /\ UNCHANGED result
    /\ UNCHANGED <<lane, conf, available, closed, closePc, laneVars, brokerVars, faults>>

TakeLane(p, l) ==
    /\ pc[p] = "waiting"
    /\ l \in available
    /\ available' = available \ {l}
    /\ lane' = [lane EXCEPT ![p] = l]
    /\ pc' = [pc EXCEPT ![p] = "lane"]
    /\ UNCHANGED <<result, conf, active, closed, closePc, laneVars, brokerVars, faults>>

\* Faulty variant: active.Done is forgotten.
GiveUpStillActive(p) ==
    /\ pc[p] = "waiting"
    /\ pc' = [pc EXCEPT ![p] = "done"]
    /\ result' = [result EXCEPT ![p] = "timeout"]
    /\ UNCHANGED <<lane, conf, poolVars, laneVars, brokerVars, faults>>

\* The deadline passes while all lanes are taken.
GiveUp(p) ==
    /\ pc[p] = "waiting"
    /\ pc' = [pc EXCEPT ![p] = "done"]
    /\ result' = [result EXCEPT ![p] = "timeout"]
    /\ active' = active - 1
    /\ UNCHANGED <<lane, conf, available, closed, closePc, laneVars, brokerVars, faults>>

\* Faulty variant: only a successful publication puts its lane back.
FinishKeepsLane(p, r) ==
    /\ pc' = [pc EXCEPT ![p] = "done"]
    /\ result' = [result EXCEPT ![p] = r]
    /\ lane' = [lane EXCEPT ![p] = None]
    /\ available' = IF r = "ok" THEN available \cup {lane[p]} ELSE available
    /\ active' = active - 1
    /\ UNCHANGED <<conf, closed, closePc, brokerVars, faults>>

\* lane.publish returns r, and release puts the lane back.
Finish(p, r) ==
    /\ pc' = [pc EXCEPT ![p] = "done"]
    /\ result' = [result EXCEPT ![p] = r]
    /\ lane' = [lane EXCEPT ![p] = None]
    /\ available' = available \cup {lane[p]}
    /\ active' = active - 1
    /\ UNCHANGED <<conf, closed, closePc, brokerVars, faults>>

(***************************************************************************)
(* publisherLane.publish.                                                  *)
(***************************************************************************)

\* Faulty variant: the channel is kept for the next publication.
InvalidateChannelKept(l) == UNCHANGED laneVars

\* invalidateChannel: the lane forgets its channel and what was on it.
InvalidateChannel(l) ==
    /\ chan' = [chan EXCEPT ![l] = "nil"]
    /\ returns' = [returns EXCEPT ![l] = <<>>]
    /\ frames' = [frames EXCEPT ![l] = <<>>]
    /\ UNCHANGED gen

\* ensureChannel: an open channel is kept, otherwise a new one is opened.
EnsureChannel(p) ==
    LET l == lane[p] IN
    /\ pc[p] = "lane"
    /\ IF chan[l] = "open"
         THEN UNCHANGED laneVars
         ELSE /\ chan' = [chan EXCEPT ![l] = "open"]
              /\ gen' = [gen EXCEPT ![l] = @ + 1]
              /\ returns' = [returns EXCEPT ![l] = <<>>]
              /\ frames' = [frames EXCEPT ![l] = <<>>]
    /\ pc' = [pc EXCEPT ![p] = "send"]
    /\ UNCHANGED <<lane, result, conf, poolVars, brokerVars, faults>>

\* No connection before the deadline, or opening the channel fails: the lane keeps
\* what it had.
NoChannel(p) ==
    /\ pc[p] = "lane"
    /\ chan[lane[p]] # "open"
    /\ \E r \in {"timeout", "interrupted"} : Finish(p, r)
    /\ UNCHANGED laneVars

Send(p) ==
    LET l == lane[p] IN
    /\ pc[p] = "send"
    /\ chan[l] = "open"
    /\ flight' = flight \cup {[pub |-> p, lane |-> l, gen |-> gen[l]]}
    /\ conf' = [conf EXCEPT ![p] = "pending"]
    /\ pc' = [pc EXCEPT ![p] = "await"]
    /\ UNCHANGED <<lane, result, poolVars, laneVars, bound, queued, answered, faults>>

\* PublishWithDeferredConfirm fails on a channel that is gone, or on a context
\* that is done.
SendFails(p) ==
    /\ pc[p] = "send"
    /\ \/ chan[lane[p]] = "dead" /\ Finish(p, "interrupted")
       \/ Finish(p, "timeout")
    /\ InvalidateChannel(lane[p])

\* awaitPublishResult: the deadline passes first.
AwaitTimeout(p) ==
    /\ pc[p] = "await"
    /\ Finish(p, "timeout")
    /\ InvalidateChannel(lane[p])

\* channelClosedCh fires, or returnsCh turns out to be closed.
AwaitClosed(p) ==
    /\ pc[p] = "await"
    /\ chan[lane[p]] = "dead"
    /\ Finish(p, "interrupted")
    /\ InvalidateChannel(lane[p])

\* A return is read, from the select or once the confirmation is there.
AwaitReturn(p) ==
    LET l == lane[p] IN
    /\ pc[p] = "await"
    /\ returns[l] # <<>>
    /\ Finish(p, "unroutable")
    /\ returns' = [returns EXCEPT ![l] = Tail(@)]
    /\ UNCHANGED <<chan, gen, frames>>

\* A negative confirmation on a channel that is still open.
AwaitNack(p) ==
    /\ pc[p] = "await"
    /\ conf[p] = "nack" /\ chan[lane[p]] = "open"
    /\ Finish(p, "nacked")
    /\ UNCHANGED laneVars

\* Faulty variant: pending returns are not looked at.
AwaitAckOnly(p) ==
    /\ pc[p] = "await"
    /\ conf[p] = "ack" /\ chan[lane[p]] = "open"
    /\ Finish(p, "ok")
    /\ UNCHANGED laneVars

\* A positive one: the publication succeeded unless a return is pending.
AwaitAck(p) ==
    /\ pc[p] = "await"
    /\ conf[p] = "ack" /\ chan[lane[p]] = "open"
    /\ returns[lane[p]] = <<>>
    /\ Finish(p, "ok")
    /\ UNCHANGED laneVars

(***************************************************************************)
(* Close.                                                                  *)
(***************************************************************************)
CloseStarts ==
    /\ closePc = "idle"
    /\ closed' = TRUE
    /\ closePc' = "waiting"
    /\ UNCHANGED <<callVars, available, active, laneVars, brokerVars, faults>>

\* publisherLane.close, on every lane.
ClosedChannels == [l \in Lanes |-> IF chan[l] = "open" THEN "nil" ELSE chan[l]]

\* active.Wait returned: every lane closes its channel.  (publish also refuses on
\* a closed lane; ClosedIsQuiet says that it never has to.)
CloseLanes ==
    /\ closePc = "waiting"
    /\ active = 0
    /\ closePc' = "done"
    /\ chan' = ClosedChannels
    /\ UNCHANGED <<callVars, available, active, closed, gen, returns, frames, brokerVars, faults>>

(***************************************************************************)
(* The AMQP library and the broker.                                        *)
(***************************************************************************)

\* The library reads a frame; a return waits for room in returnsCh.
Dispatch(l) ==
    /\ chan[l] = "open"
    /\ frames[l] # <<>>
    /\ LET f == Head(frames[l]) IN
         IF f.kind = "return"
           THEN /\ returns[l] = <<>>
                /\ returns' = [returns EXCEPT ![l] = <<f.pub>>]
                /\ UNCHANGED conf
           ELSE /\ conf' = [conf EXCEPT ![f.pub] = f.kind]
                /\ UNCHANGED returns
    /\ frames' = [frames EXCEPT ![l] = Tail(@)]
    /\ UNCHANGED <<pc, lane, result, poolVars, chan, gen, brokerVars, faults>>

\* Answers reach only the channel the message came on.
Answer(f, kinds) ==
    /\ flight' = flight \ {f}
    /\ frames' = IF chan[f.lane] = "open" /\ gen[f.lane] = f.gen
                   THEN [frames EXCEPT ![f.lane] =
                           @ \o [i \in 1..Len(kinds) |-> [kind |-> kinds[i], pub |-> f.pub]]]
                   ELSE frames
    /\ UNCHANGED <<callVars, poolVars, chan, gen, returns, bound, faults>>

\* The message is routed to the queues S of those bound.
Enqueue(f, S) == queued' = [q \in Queues |-> IF q \in S THEN queued[q] \cup {f.pub} ELSE queued[q]]

BrokerConfirms(f) ==
    /\ bound # {}
    /\ Enqueue(f, bound)
    /\ Answer(f, <<"ack">>)
    /\ UNCHANGED answered

\* A full queue (reject-publish) refuses what other queues may have taken.
BrokerRefuses(f) ==
    /\ \E S \in SUBSET bound : S # bound /\ Enqueue(f, S)
    /\ Answer(f, <<"nack">>)
    /\ answered' = answered \cup {<<f.pub, "nacked">>}

\* No queue is bound: a mandatory message is returned, and confirmed all the same.
BrokerReturns(f) ==
    /\ bound = {}
    /\ Answer(f, <<"return", "ack">>)
    /\ answered' = answered \cup {<<f.pub, "unroutable">>}
    /\ UNCHANGED queued

\* A message sent on a channel that is gone may never arrive.
BrokerMisses(f) ==
    /\ chan[f.lane] # "open" \/ gen[f.lane] # f.gen
    /\ Answer(f, <<>>)
    /\ UNCHANGED <<queued, answered>>

\* The channel of a lane is lost: the library closes returnsCh and resolves what
\* is unconfirmed negatively.
ChannelLost(l) ==
    /\ Fault
    /\ chan[l] = "open"
    /\ chan' = [chan EXCEPT ![l] = "dead"]
    /\ frames' = [frames EXCEPT ![l] = <<>>]
    /\ conf' = [p \in Pubs |-> IF lane[p] = l /\ conf[p] = "pending" THEN "nack" ELSE conf[p]]
    /\ UNCHANGED <<pc, lane, result, poolVars, gen, returns, brokerVars>>

\* A binding goes, or comes back.
Rebind(q) ==
    /\ Fault
    /\ bound' = IF q \in bound THEN bound \ {q} ELSE bound \cup {q}
    /\ UNCHANGED <<callVars, poolVars, laneVars, flight, queued, answered>>

(***************************************************************************)
(* Specification.                                                          *)
(***************************************************************************)
Acquire(p) == Enter(p) \/ GiveUp(p) \/ \E l \in Lanes : TakeLane(p, l)

LanePublish(p) ==
    \/ EnsureChannel(p) \/ NoChannel(p) \/ Send(p) \/ SendFails(p)
    \/ AwaitTimeout(p) \/ AwaitClosed(p) \/ AwaitReturn(p) \/ AwaitNack(p) \/ AwaitAck(p)

Broker ==
    \E f \in flight :
        BrokerConfirms(f) \/ BrokerRefuses(f) \/ BrokerReturns(f) \/ BrokerMisses(f)

Next ==
    \/ \E p \in Pubs : Acquire(p) \/ LanePublish(p)
    \/ CloseStarts \/ CloseLanes
    \/ \E l \in Lanes : Dispatch(l) \/ ChannelLost(l)
    \/ \E q \in Queues : Rebind(q)
    \/ Broker

Spec == Init /\ [][Next]_vars

\* Every call has a deadline, so each of its steps happens in the end; Close is a
\* goroutine that runs when it can.  Nothing is assumed of the broker.
FairSpec ==
    /\ Spec
    /\ \A p \in Pubs : WF_vars(GiveUp(p) \/ \E l \in Lanes : TakeLane(p, l)) /\ WF_vars(LanePublish(p))
    /\ WF_vars(CloseLanes)

(***************************************************************************)
(* Properties.                                                             *)
(***************************************************************************)
Holding == {p \in Pubs : pc[p] \in {"lane", "send", "await"}}

\* Every variable keeps its type.
TypeOK ==
    /\ pc \in [Pubs -> {"new", "waiting", "lane", "send", "await", "done"}]
    /\ lane \in [Pubs -> Lanes \cup {None}]
    /\ result \in [Pubs -> {"none", "ok", "unroutable", "nacked", "interrupted", "timeout", "closed"}]
    /\ conf \in [Pubs -> {"none", "pending", "ack", "nack"}]
    /\ available \in SUBSET Lanes
    /\ active \in Nat
    /\ closed \in BOOLEAN
    /\ closePc \in {"idle", "waiting", "done"}
    /\ chan \in [Lanes -> {"nil", "open", "dead"}]
    /\ gen \in [Lanes -> Nat]
    /\ returns \in [Lanes -> Seq(Pubs)]
    /\ frames \in [Lanes -> Seq([kind : {"return", "ack", "nack"}, pub : Pubs])]
    /\ flight \in SUBSET [pub : Pubs, lane : Lanes, gen : Nat]
    /\ bound \in SUBSET Queues
    /\ queued \in [Queues -> SUBSET Pubs]
    /\ answered \in SUBSET (Pubs \X {"nacked", "unroutable"})
    /\ faults \in 0..MaxFaults

\* A publication that reports success is in a queue: a confirmation alone does not
\* say so, since the broker also confirms what it returned.
ConfirmedWasRouted ==
    \A p \in Pubs : result[p] = "ok" => \E q \in Queues : p \in queued[q]

\* A publication is never answered with another one's answer: unroutable and
\* nacked are what the broker said of this very message, whatever earlier calls
\* left behind on the lane they shared.
ResultIsOwn ==
    \A p \in Pubs : result[p] \in {"unroutable", "nacked"} => <<p, result[p]>> \in answered

\* Every lane is available or held by one call, and active counts the calls that
\* Close has to wait for: no error path loses a lane or a count.
LanesAccounted ==
    /\ \A p \in Holding : lane[p] \in Lanes \ available
    /\ \A p, o \in Holding : lane[p] = lane[o] => p = o
    /\ Lanes \ available = {lane[p] : p \in Holding}
    /\ active = Cardinality({p \in Pubs : pc[p] \notin {"new", "done"}})

\* After Close no call has a lane and no channel is open: none publishes on a
\* channel that Close is closing, and none opens another one.
ClosedIsQuiet ==
    closePc = "done" => Holding = {} /\ \A l \in Lanes : chan[l] # "open"

\* Close returns, although calls may be waiting for lanes when it starts.
CloseReturns == closed ~> closePc = "done"

=============================================================================

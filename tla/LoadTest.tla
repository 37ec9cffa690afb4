------------------------------ MODULE LoadTest ------------------------------
(***************************************************************************)
(* chatload: one Run of the load tester against the running system.  The   *)
(* two pools of set-up workers, the readers of the connections and the     *)
(* main goroutine share the collector.  The system under test is reduced   *)
(* to what the tester can observe and may misbehave: events are lost or    *)
(* come twice, rows are stored twice or never, connections break, and a    *)
(* message whose sender was told "rejected" may have been queued.          *)
(***************************************************************************)
EXTENDS Naturals, Sequences, FiniteSets, FiniteSetsExt, SequencesExt

CONSTANTS
    Connections, ConnectionsPerUser,
    Senders,        \* how many of the connections send
    TargetMessages,
    MaxRejected,    \* the rejections MaxErrorRate allows
    Workers,        \* of a set-up pool
    PageSize,       \* rows in a page of the Chat history
    None,
    MaxFaults       \* bound: failures of the system and of the network

ASSUME LoadTestAssumption ==
    /\ {Connections, ConnectionsPerUser, Senders, TargetMessages, PageSize} \subseteq Nat \ {0}
    /\ ConnectionsPerUser <= Connections /\ Senders <= Connections
    /\ {MaxRejected, MaxFaults} \subseteq Nat
    /\ Workers # {} /\ IsFiniteSet(Workers)
    /\ None \notin {"passed", "failed", "accepted", "rejected", "ambiguous"}

Clients   == 1..Connections
Messages  == 1..TargetMessages
UserCount == (Connections + ConnectionsPerUser - 1) \div ConnectionsPerUser
Sender(m) == ((m - 1) % Senders) + 1

VARIABLES
    mode,      \* chat or connections
    stage,     \* of Run
    failed,    \* runErr is set
    verdict,   \* Status of the report
    session,   \* system: the host's session: none before it is started, live, ended
    unanswered,\* history: the requests to start or end it that failed
    signalled, \* the context of Run is cancelled
    todo,      \* the next index the pool is given
    busy,      \* busy[w]: the index a worker has
    out,       \* the workers that returned after an error
    poolErr,   \* errCh is full and workerCtx cancelled
    conns,     \* open connections
    reader,    \* reader[c]: none, reading, ended
    firstErr,
    sent,      \* messages sent so far: 1..sent
    acknowledged, accepted, rejected,
    delivered, \* delivered[c]
    duplicateAcks, duplicateEvents,
    cursor,    \* of allHistory
    found,     \* the messages allHistory has collected
    result,    \* what waitForHistory returned: total and rejected
    outcome,   \* system: outcome[m] is None, accepted, rejected, or rejected but queued
    rows,      \* system: the stored messages, by id
    acks,      \* system: ACK frames of a message that reached its sender
    events,    \* system: events[c][m], event frames that reached a client
    faults

runVars    == <<mode, stage, failed, verdict, session, unanswered, signalled>>
poolVars   == <<todo, busy, out, poolErr, conns>>
readVars   == <<reader, firstErr, acknowledged, accepted, rejected, delivered,
                duplicateAcks, duplicateEvents>>
pageVars   == <<cursor, found, result>>
systemVars == <<outcome, rows, acks, events>>
vars       == <<runVars, poolVars, readVars, sent, pageVars, systemVars, faults>>

Init ==
    /\ mode \in {"chat", "connections"}
    /\ stage = "setup" /\ failed = FALSE /\ verdict = None
    /\ session = "none" /\ unanswered = {} /\ signalled = FALSE
    /\ todo = 1 /\ busy = [w \in Workers |-> None] /\ out = {} /\ poolErr = FALSE
    /\ conns = {}
    /\ reader = [c \in Clients |-> "none"] /\ firstErr = FALSE
    /\ sent = 0 /\ acknowledged = {} /\ accepted = {} /\ rejected = {}
    /\ delivered = [c \in Clients |-> {}]
    /\ duplicateAcks = 0 /\ duplicateEvents = 0
    /\ cursor = 0 /\ found = <<>> /\ result = [total |-> 0, rejected |-> 0]
    /\ outcome = [m \in Messages |-> None] /\ rows = <<>>
    /\ acks = [m \in Messages |-> 0]
    /\ events = [c \in Clients |-> [m \in Messages |-> 0]]
    /\ faults = 0

Fault == faults < MaxFaults /\ faults' = faults + 1

(***************************************************************************)
(* Set-up.                                                                 *)
(***************************************************************************)

\* The host registers, logs in, creates the session and starts it.  When one of the
\* requests fails, Run returns before it has arranged to end the session; the one that
\* starts it may have been carried out all the same.
SetUp ==
    /\ stage = "setup"
    /\ \/ /\ stage' = "users" /\ session' = "live"
          /\ UNCHANGED <<failed, verdict, unanswered, faults>>
       \/ /\ Fault \/ (signalled /\ UNCHANGED faults)
          /\ stage' = "returned" /\ failed' = TRUE /\ verdict' = "failed"
          /\ \/ UNCHANGED <<session, unanswered>>
             \/ session' \in {"none", "live"} /\ unanswered' = {"start"}
    /\ UNCHANGED <<mode, signalled, poolVars, readVars, sent, pageVars, systemVars>>

Pooling   == stage \in {"users", "connect"}
Jobs      == IF stage = "users" THEN UserCount ELSE Connections
Cancelled == poolErr \/ signalled

Give(w) ==
    /\ Pooling /\ todo <= Jobs
    /\ w \notin out /\ busy[w] = None
    /\ busy' = [busy EXCEPT ![w] = todo]
    /\ todo' = todo + 1
    /\ UNCHANGED <<runVars, out, poolErr, conns, readVars, sent, pageVars, systemVars, faults>>

\* workerCtx is cancelled: no further index is given out.
StopGiving ==
    /\ Pooling /\ todo <= Jobs /\ Cancelled
    /\ todo' = Jobs + 1
    /\ UNCHANGED <<runVars, busy, out, poolErr, conns, readVars, sent, pageVars, systemVars,
                   faults>>

\* registerAndLogin, or connectClient up to room.ready.
WorkerSucceeds(w) ==
    /\ busy[w] # None
    /\ busy' = [busy EXCEPT ![w] = None]
    /\ conns' = IF stage = "connect" THEN conns \cup {busy[w]} ELSE conns
    /\ UNCHANGED <<runVars, todo, out, poolErr, readVars, sent, pageVars, systemVars, faults>>

\* Faulty variant: the worker returns without cancelling the others.
WorkerFailsQuietly(w) ==
    /\ busy[w] # None
    /\ Fault \/ (Cancelled /\ UNCHANGED faults)
    /\ busy' = [busy EXCEPT ![w] = None]
    /\ out' = out \cup {w}
    /\ UNCHANGED <<runVars, todo, poolErr, conns, readVars, sent, pageVars, systemVars>>

\* The first error goes to errCh and cancels workerCtx; every worker with an error
\* returns.  A connection that fails after its handshake is closed by connectClient.
WorkerFails(w) ==
    /\ busy[w] # None
    /\ Fault \/ (Cancelled /\ UNCHANGED faults)
    /\ busy' = [busy EXCEPT ![w] = None]
    /\ out' = out \cup {w}
    /\ poolErr' = TRUE
    /\ UNCHANGED <<runVars, todo, conns, readVars, sent, pageVars, systemVars>>

PoolIdle == Pooling /\ todo > Jobs /\ \A w \in Workers : busy[w] = None

UsersReady ==
    /\ PoolIdle /\ stage = "users" /\ ~Cancelled
    /\ stage' = "connect" /\ todo' = 1
    /\ UNCHANGED <<mode, failed, verdict, session, unanswered, signalled, busy, out,
                   poolErr, conns, readVars, sent, pageVars, systemVars, faults>>

\* Every connection gets its reader.
Connected ==
    /\ PoolIdle /\ stage = "connect" /\ ~Cancelled
    /\ stage' = IF mode = "chat" THEN "send" ELSE "hold"
    /\ reader' = [c \in Clients |-> "reading"]
    /\ UNCHANGED <<mode, failed, verdict, session, unanswered, signalled, poolVars,
                   firstErr, acknowledged, accepted, rejected, delivered, duplicateAcks,
                   duplicateEvents, sent, pageVars, systemVars, faults>>

\* Faulty variant: the connections made before the error are forgotten.
PoolFailsOpen ==
    /\ PoolIdle /\ Cancelled
    /\ stage' = "ending" /\ failed' = TRUE /\ verdict' = "failed"
    /\ UNCHANGED <<mode, session, unanswered, signalled, poolVars, readVars, sent, pageVars,
                   systemVars, faults>>

PoolFails ==
    /\ PoolIdle /\ Cancelled
    /\ stage' = "ending" /\ failed' = TRUE /\ verdict' = "failed"
    /\ conns' = {}
    /\ UNCHANGED <<mode, session, unanswered, signalled, todo, busy, out, poolErr, readVars,
                   sent, pageVars, systemVars, faults>>

(***************************************************************************)
(* The system under test, and the readers.                                 *)
(***************************************************************************)
Decide(m) ==
    /\ m <= sent /\ outcome[m] = None
    /\ \/ outcome' = [outcome EXCEPT ![m] = "accepted"] /\ UNCHANGED faults
       \/ outcome' = [outcome EXCEPT ![m] = "rejected"] /\ UNCHANGED faults
       \/ Fault /\ outcome' = [outcome EXCEPT ![m] = "ambiguous"]
    /\ UNCHANGED <<runVars, poolVars, readVars, sent, pageVars, rows, acks, events>>

Queued(m) == outcome[m] \in {"accepted", "ambiguous"}

Store(m) ==
    /\ Queued(m)
    /\ IF m \in Range(rows) THEN Fault ELSE UNCHANGED faults
    /\ rows' = Append(rows, m)
    /\ UNCHANGED <<runVars, poolVars, readVars, sent, pageVars, outcome, acks, events>>

\* recordAck; the message is in sentAt since before it was sent.
ReadAck(m) ==
    /\ reader[Sender(m)] = "reading" /\ outcome[m] # None
    /\ IF acks[m] > 0 THEN Fault ELSE UNCHANGED faults
    /\ acks' = [acks EXCEPT ![m] = @ + 1]
    /\ IF m \in acknowledged
         THEN /\ duplicateAcks' = duplicateAcks + 1
              /\ UNCHANGED <<acknowledged, accepted, rejected>>
         ELSE /\ acknowledged' = acknowledged \cup {m}
              /\ accepted' = IF outcome[m] = "accepted" THEN accepted \cup {m} ELSE accepted
              /\ rejected' = IF outcome[m] # "accepted" THEN rejected \cup {m} ELSE rejected
              /\ UNCHANGED duplicateAcks
    /\ UNCHANGED <<runVars, poolVars, reader, firstErr, delivered, duplicateEvents, sent,
                   pageVars, outcome, rows, events>>

\* recordEvent.
ReadEvent(c, m) ==
    /\ reader[c] = "reading" /\ Queued(m)
    /\ IF events[c][m] > 0 THEN Fault ELSE UNCHANGED faults
    /\ events' = [events EXCEPT ![c][m] = @ + 1]
    /\ IF m \in delivered[c]
         THEN duplicateEvents' = duplicateEvents + 1 /\ UNCHANGED delivered
         ELSE delivered' = [delivered EXCEPT ![c] = @ \cup {m}] /\ UNCHANGED duplicateEvents
    /\ UNCHANGED <<runVars, poolVars, reader, firstErr, acknowledged, accepted, rejected,
                   duplicateAcks, sent, pageVars, outcome, rows, acks>>

\* The connection breaks, or a frame is not one the tester expects; the reader ends, or
\* the collector notes the error and the reader goes on.
ReaderFails(c) ==
    /\ reader[c] = "reading" /\ c \in conns /\ Fault
    /\ \/ reader' = [reader EXCEPT ![c] = "ended"]
       \/ UNCHANGED reader \* the frame names a message that was not sent
    /\ firstErr' = TRUE
    /\ UNCHANGED <<runVars, poolVars, acknowledged, accepted, rejected, delivered,
                   duplicateAcks, duplicateEvents, sent, pageVars, systemVars>>

\* After closeClients the read fails, and readerCtx says that this is no error.
ReaderStops(c) ==
    /\ reader[c] = "reading" /\ c \notin conns
    /\ reader' = [reader EXCEPT ![c] = "ended"]
    /\ UNCHANGED <<runVars, poolVars, firstErr, acknowledged, accepted, rejected, delivered,
                   duplicateAcks, duplicateEvents, sent, pageVars, systemVars, faults>>

(***************************************************************************)
(* The main goroutine.                                                     *)
(***************************************************************************)

\* stopReaders and closeClients; readers.Wait is Report's guard.
Stop(err) ==
    /\ stage' = "stopping"
    /\ failed' = err
    /\ conns' = {}
    /\ UNCHANGED <<mode, verdict, session, unanswered, signalled, todo, busy, out, poolErr>>

\* Main goroutine at a wait: it is cancelled, or its timer or a write fails.
GivesUp ==
    /\ stage \in {"send", "delivery", "persistence", "hold"}
    /\ Fault \/ (signalled /\ UNCHANGED faults)
    /\ Stop(TRUE)
    /\ UNCHANGED <<readVars, sent, pageVars, systemVars>>

\* sendPhase, in the order of the connections; the phases of a burst only set the pace.
Send ==
    /\ stage = "send" /\ sent < TargetMessages
    /\ sent' = sent + 1
    /\ UNCHANGED <<runVars, poolVars, readVars, pageVars, systemVars, faults>>

Sent ==
    /\ stage = "send" /\ sent = TargetMessages
    /\ stage' = "delivery"
    /\ UNCHANGED <<mode, failed, verdict, session, unanswered, signalled, poolVars,
                   readVars, sent, pageVars, systemVars, faults>>

\* DrainTimeout.
DeliveryTimeout ==
    /\ stage = "delivery"
    /\ Stop(TRUE)
    /\ UNCHANGED <<readVars, sent, pageVars, systemVars, faults>>

\* collector.progress; the ids that waitForHistory is given are those of the sets, which
\* do not change once every message is acknowledged.
Progress ==
    /\ stage = "delivery"
    /\ \/ firstErr /\ Stop(TRUE)
       \/ /\ ~firstErr
          /\ Cardinality(acknowledged) = TargetMessages
          /\ \A c \in Clients : accepted \subseteq delivered[c]
          /\ stage' = "persistence"
          /\ UNCHANGED <<mode, failed, verdict, session, unanswered, signalled, poolVars>>
    /\ UNCHANGED <<readVars, sent, pageVars, systemVars, faults>>

\* One page of allHistory; ids are read in order, and rows come in between.
HistoryPage ==
    /\ stage = "persistence"
    /\ LET end == Min({cursor + PageSize, Len(rows)}) IN
          /\ found' = found \o SubSeq(rows, cursor + 1, end)
          /\ cursor' = end
          /\ stage' = IF end < Len(rows) THEN stage ELSE "counting"
    /\ UNCHANGED <<mode, failed, verdict, session, unanswered, signalled, poolVars,
                   readVars, sent, result, systemVars, faults>>

Count(S) == Cardinality(Range(found) \cap S)

\* Faulty variant: waitForHistory compares the number of rows with what was accepted.
CountHistoryRows ==
    /\ stage = "counting"
    /\ \/ /\ Len(found) < Cardinality(accepted)
          /\ stage' = "persistence" /\ cursor' = 0 /\ found' = <<>>
          /\ UNCHANGED <<result, mode, failed, verdict, session, unanswered, signalled,
                         poolVars>>
       \/ /\ Len(found) >= Cardinality(accepted)
          /\ result' = [total |-> Len(found), rejected |-> Count(rejected)]
          /\ Stop(FALSE)
          /\ UNCHANGED <<cursor, found>>
    /\ UNCHANGED <<readVars, sent, systemVars, faults>>

\* The rest of waitForHistory: a row twice is an error, all accepted messages are the
\* end, anything else is read again until HistoryTimeout.
CountHistory ==
    /\ stage = "counting"
    /\ \/ /\ ~IsInjective(found)
          /\ result' = [total |-> Len(found), rejected |-> 0]
          /\ Stop(TRUE)
          /\ UNCHANGED <<cursor, found>>
       \/ /\ IsInjective(found)
          /\ Count(accepted) < Cardinality(accepted)
          /\ stage' = "persistence" /\ cursor' = 0 /\ found' = <<>>
          /\ UNCHANGED <<result, mode, failed, verdict, session, unanswered, signalled,
                         poolVars>>
       \/ /\ IsInjective(found)
          /\ result' = [total |-> Len(found), rejected |-> Count(rejected)]
          /\ \/ Count(accepted) = Cardinality(accepted) /\ Stop(FALSE)
             \/ Count(accepted) < Cardinality(accepted) /\ Stop(TRUE)
          /\ UNCHANGED <<cursor, found>>
    /\ UNCHANGED <<readVars, sent, systemVars, faults>>

\* holdConnections: at the end of Duration, or at the tick after an error.
Hold ==
    /\ stage = "hold"
    /\ Stop(firstErr)
    /\ UNCHANGED <<readVars, sent, pageVars, systemVars, faults>>

\* What RealtimeDeliveries counts.
Deliveries == {d \in Clients \X Messages : d[2] \in delivered[d[1]]}

\* validateReport, on the collector after the last reader and on the history.
Valid ==
    /\ duplicateAcks = 0 /\ duplicateEvents = 0
    /\ rejected \cap UNION {delivered[c] : c \in Clients} = {}
    /\ result.rejected = 0
    /\ Cardinality(Deliveries) = Cardinality(accepted) * Connections
    /\ result.total = Cardinality(accepted)
    /\ Cardinality(rejected) <= MaxRejected

Report ==
    /\ stage = "stopping" /\ \A c \in Clients : reader[c] = "ended"
    /\ stage' = "ending"
    /\ failed' = (failed \/ (mode = "chat" /\ ~Valid))
    /\ verdict' = IF failed' THEN "failed" ELSE "passed"
    /\ UNCHANGED <<mode, session, unanswered, signalled, poolVars, readVars, sent, pageVars,
                   systemVars, faults>>

\* The deferred endSession, with a context of its own; its error is ignored, and the
\* request may have been carried out or not.
EndSession ==
    /\ stage = "ending"
    /\ stage' = "returned"
    /\ \/ session' = "ended" /\ UNCHANGED <<unanswered, faults>>
       \/ Fault /\ session' \in {"live", "ended"} /\ unanswered' = {"end"}
    /\ UNCHANGED <<mode, failed, verdict, signalled, poolVars, readVars, sent, pageVars,
                   systemVars>>

Interrupt ==
    /\ ~signalled /\ stage # "returned" /\ Fault
    /\ signalled' = TRUE
    /\ UNCHANGED <<mode, stage, failed, verdict, session, unanswered, poolVars, readVars,
                   sent, pageVars, systemVars>>

Main ==
    \/ SetUp \/ StopGiving \/ UsersReady \/ Connected \/ PoolFails
    \/ GivesUp \/ Send \/ Sent \/ DeliveryTimeout \/ Progress
    \/ HistoryPage \/ CountHistory \/ Hold \/ Report \/ EndSession

System ==
    \E m \in Messages :
        \/ Decide(m) \/ Store(m) \/ ReadAck(m)
        \/ \E c \in Clients : ReadEvent(c, m)

Next ==
    \/ Main \/ System \/ Interrupt
    \/ \E w \in Workers : Give(w) \/ WorkerSucceeds(w) \/ WorkerFails(w)
    \/ \E c \in Clients : ReaderFails(c) \/ ReaderStops(c)

\* The tester's goroutines run, its requests end by RequestTimeout, and its waits by
\* their timers, HistoryTimeout included: after a bounded number of reads CountHistory
\* does not start again.  Of the system nothing is assumed.
Fairness ==
    /\ WF_vars(Main) /\ SF_vars(CountHistory /\ stage' = "stopping")
    /\ \A w \in Workers : WF_vars(Give(w)) /\ WF_vars(WorkerSucceeds(w) \/ WorkerFails(w))
    /\ \A c \in Clients : WF_vars(ReaderStops(c))

Spec == Init /\ [][Next]_vars /\ Fairness

(***************************************************************************)
(* Properties.                                                             *)
(***************************************************************************)

\* Type invariant.
TypeOK ==
    /\ mode \in {"chat", "connections"}
    /\ stage \in {"setup", "users", "connect", "send", "delivery", "persistence", "counting",
                  "hold", "stopping", "ending", "returned"}
    /\ {failed, signalled, poolErr, firstErr} \subseteq BOOLEAN
    /\ verdict \in {None, "passed", "failed"}
    /\ session \in {"none", "live", "ended"} /\ unanswered \subseteq {"start", "end"}
    /\ todo \in 1..(Connections + 1)
    /\ busy \in [Workers -> Clients \cup {None}]
    /\ out \subseteq Workers /\ conns \subseteq Clients
    /\ reader \in [Clients -> {"none", "reading", "ended"}]
    /\ sent \in 0..TargetMessages
    /\ {acknowledged, accepted, rejected} \subseteq SUBSET Messages
    /\ delivered \in [Clients -> SUBSET Messages]
    /\ {duplicateAcks, duplicateEvents} \subseteq Nat
    /\ cursor \in Nat /\ found \in Seq(Messages) /\ rows \in Seq(Messages)
    /\ result \in [total : Nat, rejected : Nat]
    /\ outcome \in [Messages -> {None, "accepted", "rejected", "ambiguous"}]
    /\ acks \in [Messages -> Nat] /\ events \in [Clients -> [Messages -> Nat]]
    /\ faults \in 0..MaxFaults

\* "passed" is true of the system and not only of the collector: every message was
\* answered once, an accepted one was stored and reached every client exactly once, no
\* client saw a rejected one, and no more were rejected than MaxErrorRate allows.  What
\* a rejected but queued message does after the run remains unseen.
PassedIsSound ==
    verdict = "passed" /\ mode = "chat" =>
        /\ \A m \in Messages :
              /\ outcome[m] # None /\ acks[m] = 1
              /\ outcome[m] = "accepted" => m \in Range(rows)
              /\ \A c \in Clients : events[c][m] = IF outcome[m] = "accepted" THEN 1 ELSE 0
        /\ Cardinality({m \in Messages : outcome[m] # "accepted"}) <= MaxRejected

\* However the run ends, it leaves no connection open and no worker or reader running,
\* and it leaves a session LIVE only when the request to start or to end that session
\* failed: then nobody asks again, and the session stays until somebody else ends it.
NothingIsLeft ==
    stage = "returned" =>
        /\ conns = {}
        /\ \A w \in Workers : busy[w] = None
        /\ \A c \in Clients : reader[c] # "reading"
        /\ session = "live" => unanswered # {}

\* The run ends, whatever the system does not do and whichever worker fails.
RunEnds == <>(stage = "returned")
=============================================================================

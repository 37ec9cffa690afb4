----------------------------- MODULE Persistence -----------------------------
(***************************************************************************)
(* Durable Chat: the quorum Persistence Queue with its delivery limit and  *)
(* dead-letter queue, the replicas of the Persistence Consumer with their  *)
(* worker pools and AMQP sessions, and the MySQL transaction that writes   *)
(* the Inbox record and the Chat message.                                  *)
(*                                                                         *)
(* Every statement of Persist is an action, so transactions of different   *)
(* workers interleave; InnoDB's locks on the two unique keys make an       *)
(* insert wait for an open transaction that inserted the same key.  The    *)
(* broker may lose a channel while workers are still in a transaction: it  *)
(* then hands the message out again.                                       *)
(***************************************************************************)
EXTENDS Integers, FiniteSets

CONSTANTS
    Events,        \* chat.message.accepted events, each with its own event id
    Keys,          \* business keys (live_session_id, user_id, message_id)
    Key,           \* Key[e]: the business key of event e
    Content,       \* Content[e]: its canonical content
    Malformed,     \* events that decodeChatEvent refuses
    Consumers,     \* Persistence Consumer replicas
    Workers,       \* worker goroutines
    Owner,         \* Owner[w]: the consumer worker w belongs to
    Prefetch,      \* PERSISTENCE_PREFETCH, per consumer channel
    DeliveryLimit, \* x-delivery-limit of the queue
    None,          \* no row, no event, no consumer
    MaxFaults      \* bound: database errors, lost channels, crashes, shutdowns

ASSUME PersistenceAssumption ==
    /\ Key \in [Events -> Keys]
    /\ Malformed \subseteq Events
    /\ Owner \in [Workers -> Consumers]
    /\ Prefetch \in Nat \ {0}
    /\ DeliveryLimit \in Nat \ {0}
    /\ None \notin Events /\ None \notin Consumers
    /\ MaxFaults \in Nat

VARIABLES
    place,      \* where the broker has the event
    holder,     \* the consumer an unacked event was delivered to
    deliveries, \* deliveries of the event that came back to the queue
    channel,    \* the AMQP channel of a consumer, as the broker sees it
    session,    \* consumeSession: open, stopping (sessionCtx cancelled), closed
    buffer,     \* deliveriesCh: prefetched events no worker took yet
    workerPc,   \* where a worker is
    task,       \* the event it handles
    inbox,      \* committed consumer_inbox rows, by event
    row,        \* committed chat_messages row of a key: the event it came from
    faults      \* faults injected so far

brokerVars  == <<place, holder, deliveries>>
sessionVars == <<channel, session, buffer>>
workerVars  == <<workerPc, task>>
dbVars      == <<inbox, row>>
vars        == <<brokerVars, sessionVars, workerVars, dbVars, faults>>

Init ==
    /\ place = [e \in Events |-> "unsent"]
    /\ holder = [e \in Events |-> None]
    /\ deliveries = [e \in Events |-> 0]
    /\ channel = [c \in Consumers |-> "open"]
    /\ session = [c \in Consumers |-> "open"]
    /\ buffer = [c \in Consumers |-> {}]
    /\ workerPc = [w \in Workers |-> "idle"]
    /\ task = [w \in Workers |-> None]
    /\ inbox = {}
    /\ row = [k \in Keys |-> None]
    /\ faults = 0

Fault == faults < MaxFaults /\ faults' = faults + 1

(***************************************************************************)
(* The queue.                                                              *)
(***************************************************************************)

\* The broker takes a published event: it is routed, persistent and confirmed.
Publish(e) ==
    /\ place[e] = "unsent"
    /\ place' = [place EXCEPT ![e] = "ready"]
    /\ UNCHANGED <<holder, deliveries, sessionVars, workerVars, dbVars, faults>>

HeldBy(c) == {e \in Events : place[e] = "unacked" /\ holder[e] = c}

\* The broker delivers within the prefetch window of an open channel.
Deliver(c, e) ==
    /\ channel[c] = "open" /\ session[c] # "closed"
    /\ place[e] = "ready"
    /\ Cardinality(HeldBy(c)) < Prefetch
    /\ place' = [place EXCEPT ![e] = "unacked"]
    /\ holder' = [holder EXCEPT ![e] = c]
    /\ buffer' = [buffer EXCEPT ![c] = @ \cup {e}]
    /\ UNCHANGED <<deliveries, channel, session, workerVars, dbVars, faults>>

\* Faulty variant: the limit is reached one delivery early.
OverdueEarly(e, n) == deliveries[e] + n >= DeliveryLimit

\* The events S come back and n is added to their delivery counts; beyond the
\* limit the queue dead-letters them.  A delayed retry is a later delivery.
Overdue(e, n) == deliveries[e] + n > DeliveryLimit

GiveBack(S, n) ==
    /\ place' = [e \in Events |->
                    IF e \in S THEN (IF Overdue(e, n) THEN "dead" ELSE "ready") ELSE place[e]]
    /\ holder' = [e \in Events |-> IF e \in S THEN None ELSE holder[e]]
    /\ deliveries' = [e \in Events |-> IF e \in S THEN deliveries[e] + n ELSE deliveries[e]]

\* A channel goes away with what it had delivered; whether the broker counts
\* those deliveries as failed is its own affair.
ChannelGone(c) ==
    /\ channel' = [channel EXCEPT ![c] = "lost"]
    /\ \E n \in {0, 1} : GiveBack(HeldBy(c), n)

\* The broker loses a consumer's channel and takes back what it had delivered.
ChannelLost(c) ==
    /\ Fault
    /\ channel[c] = "open" /\ session[c] # "closed"
    /\ ChannelGone(c)
    /\ UNCHANGED <<session, buffer, workerVars, dbVars>>

(***************************************************************************)
(* consumeSession.                                                         *)
(***************************************************************************)

\* channelClosedCh fires, or deliveriesCh is closed under a worker.
NoticeLoss(c) ==
    /\ session[c] = "open"
    /\ channel[c] = "lost"
    /\ session' = [session EXCEPT ![c] = "stopping"]
    /\ UNCHANGED <<brokerVars, channel, buffer, workerVars, dbVars, faults>>

\* Shutdown cancels the consumer's context.
Shutdown(c) ==
    /\ Fault
    /\ session[c] = "open"
    /\ session' = [session EXCEPT ![c] = "stopping"]
    /\ UNCHANGED <<brokerVars, channel, buffer, workerVars, dbVars>>

\* workers.Wait returned: run closes the channel, and the broker takes back
\* what no worker settled.
CloseSession(c) ==
    /\ session[c] = "stopping"
    /\ \A w \in Workers : Owner[w] = c => workerPc[w] \in {"idle", "returned"}
    /\ session' = [session EXCEPT ![c] = "closed"]
    /\ ChannelGone(c)
    /\ buffer' = [buffer EXCEPT ![c] = {}]
    /\ UNCHANGED <<workerVars, dbVars, faults>>

\* recoverSession, or the consumer of a restarted process; consumeSession starts
\* new workers.
OpenSession(c) ==
    /\ session[c] = "closed"
    /\ session' = [session EXCEPT ![c] = "open"]
    /\ channel' = [channel EXCEPT ![c] = "open"]
    /\ workerPc' = [w \in Workers |-> IF Owner[w] = c THEN "idle" ELSE workerPc[w]]
    /\ UNCHANGED <<brokerVars, buffer, task, dbVars, faults>>

\* The process dies: open transactions roll back and the channel goes with it.
Crash(c) ==
    /\ Fault
    /\ session[c] # "closed"
    /\ session' = [session EXCEPT ![c] = "closed"]
    /\ ChannelGone(c)
    /\ buffer' = [buffer EXCEPT ![c] = {}]
    /\ workerPc' = [w \in Workers |-> IF Owner[w] = c THEN "idle" ELSE workerPc[w]]
    /\ task' = [w \in Workers |-> IF Owner[w] = c THEN None ELSE task[w]]
    /\ UNCHANGED dbVars

(***************************************************************************)
(* Workers: handleDelivery and the transaction of Persist.                 *)
(***************************************************************************)

\* decodeChatEvent: the envelope is a Chat event and its payload is valid.
Decodes(e) == e \notin Malformed

\* consumeDeliveries takes a delivery; its select may do so although the
\* session is already stopping.  An event that does not decode is rejected.
TakeDelivery(w, e) ==
    /\ workerPc[w] = "idle"
    /\ session[Owner[w]] # "closed"
    /\ e \in buffer[Owner[w]]
    /\ buffer' = [buffer EXCEPT ![Owner[w]] = @ \ {e}]
    /\ task' = [task EXCEPT ![w] = e]
    /\ workerPc' = [workerPc EXCEPT ![w] = IF Decodes(e) THEN "begin" ELSE "deadLetter"]
    /\ UNCHANGED <<brokerVars, channel, session, dbVars, faults>>

Goto(w, pc) == workerPc' = [workerPc EXCEPT ![w] = pc]

\* Locks of an open transaction: its Inbox key, then its business key.
LocksInbox(w, e) == workerPc[w] \in {"inboxed", "inserted", "same"} /\ task[w] = e
LocksKey(w, k)   == workerPc[w] = "inserted" /\ Key[task[w]] = k

\* Faulty variant: an uncommitted Inbox row counts as a duplicate.
InsertInboxDirty(w) ==
    /\ workerPc[w] = "begin"
    /\ Goto(w, IF \E v \in Workers : LocksInbox(v, task[w]) THEN "ack" ELSE "inboxed")
    /\ UNCHANGED <<brokerVars, sessionVars, task, dbVars, faults>>

\* INSERT consumer_inbox ... DO NOTHING.  No row inserted: a duplicate event,
\* the transaction commits nothing and the delivery is acknowledged.
InsertInbox(w) ==
    /\ workerPc[w] = "begin"
    /\ \A v \in Workers : ~LocksInbox(v, task[w])
    /\ Goto(w, IF task[w] \in inbox THEN "ack" ELSE "inboxed")
    /\ UNCHANGED <<brokerVars, sessionVars, task, dbVars, faults>>

\* INSERT chat_messages ... DO NOTHING and, when the business key is taken, the
\* comparison with the message that holds it.
SameContent(e) == row[Key[e]] # None /\ Content[row[Key[e]]] = Content[e]

\* Faulty variant: a conflicting message is taken for a duplicate.
InsertMessageNoCompare(w) ==
    /\ workerPc[w] = "inboxed"
    /\ \A v \in Workers : ~LocksKey(v, Key[task[w]])
    /\ Goto(w, IF row[Key[task[w]]] = None THEN "inserted" ELSE "same")
    /\ UNCHANGED <<brokerVars, sessionVars, task, dbVars, faults>>

InsertMessage(w) ==
    /\ workerPc[w] = "inboxed"
    /\ \A v \in Workers : ~LocksKey(v, Key[task[w]])
    /\ Goto(w, CASE row[Key[task[w]]] = None -> "inserted"
                 [] SameContent(task[w])     -> "same"
                 [] OTHER                    -> "deadLetter")  \* rolled back
    /\ UNCHANGED <<brokerVars, sessionVars, task, dbVars, faults>>

\* Faulty variant: the message is not part of the transaction.
ApplyInboxOnly(w) == inbox' = inbox \cup {task[w]} /\ row' = row

\* What COMMIT makes visible.
Apply(w) ==
    /\ inbox' = inbox \cup {task[w]}
    /\ row' = IF workerPc[w] = "inserted"
                THEN [row EXCEPT ![Key[task[w]]] = task[w]] ELSE row

Commit(w) ==
    /\ workerPc[w] \in {"inserted", "same"}
    /\ Apply(w)
    /\ Goto(w, "ack")
    /\ UNCHANGED <<brokerVars, sessionVars, task, faults>>

\* The commit takes effect but its answer is lost: Persist returns an error.
CommitAnswerLost(w) ==
    /\ Fault
    /\ workerPc[w] \in {"inserted", "same"}
    /\ Apply(w)
    /\ Goto(w, "retry")
    /\ UNCHANGED <<brokerVars, sessionVars, task>>

\* A statement fails, the processing timeout expires or a stopping session
\* cancels it: the transaction rolls back.  Cancellation is no fault of its own.
Rollback(w) ==
    /\ workerPc[w] \in {"begin", "inboxed", "inserted", "same"}
    /\ IF session[Owner[w]] = "stopping" THEN faults' = faults ELSE Fault
    /\ Goto(w, "retry")
    /\ UNCHANGED <<brokerVars, sessionVars, task, dbVars>>

\* Ack, Reject(true) and Reject(false) of worker w take effect on an open
\* channel.
Settle(w, pc) ==
    /\ workerPc[w] = pc
    /\ channel[Owner[w]] = "open"
    /\ Goto(w, "idle")
    /\ task' = [task EXCEPT ![w] = None]
    /\ UNCHANGED <<sessionVars, dbVars, faults>>

Ack(w) ==
    /\ Settle(w, "ack")
    /\ place' = [place EXCEPT ![task[w]] = "acked"]
    /\ holder' = [holder EXCEPT ![task[w]] = None]
    /\ UNCHANGED deliveries

RejectForRetry(w) ==
    /\ Settle(w, "retry")
    /\ GiveBack({task[w]}, 1)

\* Faulty variant: Reject(true) puts a poison message back, uncounted.
DeadLetterRequeues(w) ==
    /\ Settle(w, "deadLetter")
    /\ GiveBack({task[w]}, 0)

DeadLetter(w) ==
    /\ Settle(w, "deadLetter")
    /\ place' = [place EXCEPT ![task[w]] = "dead"]
    /\ holder' = [holder EXCEPT ![task[w]] = None]
    /\ UNCHANGED deliveries

\* On a lost channel they fail: the worker returns its error and the first
\* error cancels the session.
SettleFails(w) ==
    /\ workerPc[w] \in {"ack", "retry", "deadLetter"}
    /\ channel[Owner[w]] = "lost"
    /\ Goto(w, "returned")
    /\ task' = [task EXCEPT ![w] = None]
    /\ session' = [session EXCEPT ![Owner[w]] = "stopping"]
    /\ UNCHANGED <<brokerVars, channel, buffer, dbVars, faults>>

WorkerStep(w) ==
    \/ \E e \in Events : TakeDelivery(w, e)
    \/ InsertInbox(w) \/ InsertMessage(w) \/ Commit(w)
    \/ Ack(w) \/ RejectForRetry(w) \/ DeadLetter(w) \/ SettleFails(w)

SessionStep(c) == NoticeLoss(c) \/ CloseSession(c) \/ OpenSession(c)

Next ==
    \/ \E e \in Events : Publish(e)
    \/ \E c \in Consumers, e \in Events : Deliver(c, e)
    \/ \E c \in Consumers : SessionStep(c) \/ ChannelLost(c) \/ Shutdown(c) \/ Crash(c)
    \/ \E w \in Workers : WorkerStep(w) \/ CommitAnswerLost(w) \/ Rollback(w)

Spec == Init /\ [][Next]_vars

\* Workers and sessions are goroutines that run when they can, the broker
\* delivers what is ready to a consumer with room in its window.
FairSpec ==
    /\ Spec
    /\ \A w \in Workers : WF_vars(WorkerStep(w))
    /\ \A c \in Consumers : WF_vars(SessionStep(c))
    /\ \A e \in Events : WF_vars(\E c \in Consumers : Deliver(c, e))

(***************************************************************************)
(* Properties.                                                             *)
(***************************************************************************)

\* Every variable keeps its type.
TypeOK ==
    /\ place \in [Events -> {"unsent", "ready", "unacked", "acked", "dead"}]
    /\ holder \in [Events -> Consumers \cup {None}]
    /\ deliveries \in [Events -> Nat]
    /\ channel \in [Consumers -> {"open", "lost"}]
    /\ session \in [Consumers -> {"open", "stopping", "closed"}]
    /\ buffer \in [Consumers -> SUBSET Events]
    /\ workerPc \in [Workers -> {"idle", "begin", "inboxed", "inserted", "same",
                                 "ack", "retry", "deadLetter", "returned"}]
    /\ task \in [Workers -> Events \cup {None}]
    /\ inbox \in SUBSET Events
    /\ row \in [Keys -> Events \cup {None}]
    /\ faults \in 0..MaxFaults

\* An event leaves the queue for good only once its effect is committed: an
\* acknowledged event has its Inbox record and its business key holds a message
\* with its content, through redeliveries, lost answers and crashes.
AckedIsDurable ==
    \A e \in Events : place[e] = "acked" => e \in inbox /\ SameContent(e)

\* The Inbox never records an event whose content is not what the key holds:
\* a conflicting message is rolled back together with its Inbox record.
InboxMatchesRow == \A e \in inbox : SameContent(e)

\* The first committed message of a business key stays as it is.
FirstWriteWins == [][\A k \in Keys : row[k] # None => row'[k] = row[k]]_vars

\* An event is dead-lettered because it does not decode, because its key holds
\* other content, or because its deliveries are used up, and for no other reason.
DeadForCause ==
    \A e \in Events : place[e] = "dead" =>
        \/ e \in Malformed
        \/ row[Key[e]] # None /\ ~SameContent(e)
        \/ deliveries[e] > DeliveryLimit

\* A worker that holds an open channel settles only its own delivery: what a
\* worker has in hand is unacked at the broker and held by that consumer, by no
\* other worker and not still in the buffer.
TaskIsHeld ==
    \A w \in Workers : task[w] # None /\ channel[Owner[w]] = "open" =>
        /\ place[task[w]] = "unacked" /\ holder[task[w]] = Owner[w]
        /\ task[w] \notin buffer[Owner[w]]
        /\ \A v \in Workers : Owner[v] = Owner[w] /\ task[v] = task[w] => v = w

\* The consumer, the broker and MySQL together implement ChatLog: an accepted
\* event is one the queue took, it is settled when it is acknowledged.
At(p) == {e \in Events : place[e] = p}

Log == INSTANCE ChatLog WITH
    accepted <- Events \ At("unsent"),
    log      <- row,
    settled  <- At("acked"),
    dead     <- At("dead")

\* Whatever is redelivered, lost or rolled back, each step is one of ChatLog: no
\* accepted event disappears and none is settled without its message.
ImplementsChatLog == Log!Spec

\* Every published event is acknowledged or dead-lettered in the end, while
\* faults are finitely many.
EventuallySettled == Log!EventuallyClosed
=============================================================================

-------------------------- MODULE PersistenceProofs --------------------------
(***************************************************************************)
(* Proofs about the stored messages: about Persistence, for every number   *)
(* of events, keys, replicas, workers and faults, and for every prefetch   *)
(* window and delivery limit, and about History, which reads the rows it   *)
(* writes, for every number of writers and rows and every page limit.      *)
(*                                                                         *)
(* Two independent invariants carry the first part.  DurableInv relates    *)
(* transactions to what is committed, whatever the broker does; HeldInv    *)
(* relates what consumers have in hand to what the broker believes they    *)
(* have.  HistoryInv carries the second.                                   *)
(***************************************************************************)
EXTENDS Persistence, History, FiniteSetTheorems, SequenceTheorems, FunctionTheorems, TLAPS

(***************************************************************************)
(* Storing: Persistence.                                                   *)
(***************************************************************************)

\* A worker has an event exactly when it is neither idle nor gone.
BusyHasTask == \A w \in Workers : workerPc[w] \in {"idle", "returned"} <=> task[w] = None

\* The lock on a business key: while a transaction inserted its message, the key
\* has no committed message and no other transaction inserted one.
InsertedIsAlone ==
    \A w \in Workers : workerPc[w] = "inserted" =>
        /\ row[Key[task[w]]] = None
        /\ \A v \in Workers :
              workerPc[v] = "inserted" /\ Key[task[v]] = Key[task[w]] => v = w

\* What a worker concluded from its reads stays true until it acts on it.
ConclusionsHold ==
    \A w \in Workers :
        /\ workerPc[w] = "same" => SameContent(task[w])
        /\ workerPc[w] = "ack" => task[w] \in inbox
        /\ workerPc[w] = "deadLetter" =>
              \/ task[w] \in Malformed
              \/ row[Key[task[w]]] # None /\ ~SameContent(task[w])

AckedIsRecorded == \A e \in Events : place[e] = "acked" => e \in inbox

DurableInv ==
    /\ BusyHasTask
    /\ InsertedIsAlone
    /\ ConclusionsHold
    /\ InboxMatchesRow
    /\ AckedIsRecorded
    /\ DeadForCause

\* What is prefetched on an open channel is unacked at the broker.
BufferIsHeld ==
    \A c \in Consumers : channel[c] = "open" =>
        \A e \in buffer[c] : place[e] = "unacked" /\ holder[e] = c

\* Nothing survives the end of a session: no buffer and no busy worker.
ClosedIsEmpty ==
    \A c \in Consumers : session[c] = "closed" =>
        /\ buffer[c] = {}
        /\ \A w \in Workers : Owner[w] = c => task[w] = None

\* Consumers only ever see events the broker took.
SeenWasAccepted ==
    /\ \A c \in Consumers : \A e \in buffer[c] : place[e] # "unsent"
    /\ \A w \in Workers : task[w] # None => place[task[w]] # "unsent"

HeldInv ==
    /\ TaskIsHeld
    /\ BufferIsHeld
    /\ ClosedIsEmpty
    /\ SeenWasAccepted

IndInv == TypeOK /\ DurableInv /\ HeldInv

-----------------------------------------------------------------------------

\* Events that come back to the queue keep the broker's types.
LEMMA GiveBackType ==
    ASSUME TypeOK, NEW S, NEW n \in {0, 1}, GiveBack(S, n)
    PROVE  /\ place' \in [Events -> {"unsent", "ready", "unacked", "acked", "dead"}]
           /\ holder' \in [Events -> Consumers \cup {None}]
           /\ deliveries' \in [Events -> Nat]
<1>1. place' \in [Events -> {"unsent", "ready", "unacked", "acked", "dead"}]
  BY DEF TypeOK, GiveBack
<1>2. holder' \in [Events -> Consumers \cup {None}]
  BY DEF TypeOK, GiveBack
<1>3. deliveries' \in [Events -> Nat]
  BY DEF TypeOK, GiveBack
<1> QED
  BY <1>1, <1>2, <1>3

\* Every step of the broker, the sessions and the workers keeps the types.
LEMMA TypeStep == TypeOK /\ BusyHasTask /\ [Next]_vars => TypeOK'
<1> SUFFICES ASSUME TypeOK, BusyHasTask, [Next]_vars PROVE TypeOK'
  OBVIOUS
<1> USE PersistenceAssumption
<1>0. ASSUME NEW w \in Workers, NEW pc \in {"idle", "begin", "inboxed", "inserted",
                                "same", "ack", "retry", "deadLetter", "returned"}, Goto(w, pc)
      PROVE  workerPc' \in [Workers -> {"idle", "begin", "inboxed", "inserted", "same",
                                 "ack", "retry", "deadLetter", "returned"}]
  BY <1>0 DEF TypeOK, Goto
<1>1. CASE UNCHANGED vars
  BY <1>1 DEF TypeOK, vars, brokerVars, sessionVars, workerVars, dbVars
<1>2. ASSUME NEW e \in Events, Publish(e)
      PROVE  TypeOK'
  BY <1>2 DEF TypeOK, Publish, sessionVars, workerVars, dbVars
<1>3. ASSUME NEW c \in Consumers, NEW e \in Events, Deliver(c, e)
      PROVE  TypeOK'
  BY <1>3 DEF TypeOK, Deliver, workerVars, dbVars
<1>4. ASSUME NEW c \in Consumers, NoticeLoss(c) \/ OpenSession(c) \/ Shutdown(c)
      PROVE  TypeOK'
  BY <1>4 DEF TypeOK, NoticeLoss, OpenSession, Shutdown, Fault, brokerVars, workerVars, dbVars
<1>5. ASSUME NEW c \in Consumers, ChannelLost(c)
      PROVE  TypeOK'
  <2>1. PICK n \in {0, 1} : GiveBack(HeldBy(c), n)
    BY <1>5 DEF ChannelLost, ChannelGone
  <2> QED
    BY <1>5, <2>1, GiveBackType DEF TypeOK, ChannelLost, ChannelGone, Fault, workerVars, dbVars
<1>6. ASSUME NEW c \in Consumers, CloseSession(c)
      PROVE  TypeOK'
  <2>1. PICK n \in {0, 1} : GiveBack(HeldBy(c), n)
    BY <1>6 DEF CloseSession, ChannelGone
  <2> QED
    BY <1>6, <2>1, GiveBackType DEF TypeOK, CloseSession, ChannelGone, workerVars, dbVars
<1>7. ASSUME NEW c \in Consumers, Crash(c)
      PROVE  TypeOK'
  <2>1. PICK n \in {0, 1} : GiveBack(HeldBy(c), n)
    BY <1>7 DEF Crash, ChannelGone
  <2> QED
    BY <1>7, <2>1, GiveBackType DEF TypeOK, Crash, ChannelGone, Fault, dbVars
<1>8. ASSUME NEW w \in Workers, NEW e \in Events, TakeDelivery(w, e)
      PROVE  TypeOK'
  BY <1>8 DEF TypeOK, TakeDelivery, brokerVars, dbVars
<1>9. ASSUME NEW w \in Workers, InsertInbox(w) \/ Rollback(w)
      PROVE  TypeOK'
  BY <1>9 DEF TypeOK, InsertInbox, Rollback, Goto, Fault, brokerVars, sessionVars, dbVars
<1>10. ASSUME NEW w \in Workers, InsertMessage(w)
       PROVE  TypeOK'
  BY <1>10, <1>0 DEF TypeOK, InsertMessage, brokerVars, sessionVars, dbVars
<1>11. ASSUME NEW w \in Workers, Commit(w) \/ CommitAnswerLost(w)
       PROVE  TypeOK'
  BY <1>11, <1>0 DEF TypeOK, BusyHasTask, Commit, CommitAnswerLost, Apply, Fault,
     brokerVars, sessionVars
<1>12. ASSUME NEW w \in Workers, Ack(w) \/ DeadLetter(w)
       PROVE  TypeOK'
  BY <1>12, <1>0 DEF TypeOK, Ack, DeadLetter, Settle, sessionVars, dbVars
<1>13. ASSUME NEW w \in Workers, RejectForRetry(w)
       PROVE  TypeOK'
  BY <1>13, <1>0, GiveBackType DEF TypeOK, RejectForRetry, Settle, sessionVars, dbVars
<1>14. ASSUME NEW w \in Workers, SettleFails(w)
       PROVE  TypeOK'
  BY <1>14, <1>0 DEF TypeOK, SettleFails, brokerVars, dbVars
<1> QED
  BY <1>1, <1>2, <1>3, <1>4, <1>5, <1>6, <1>7, <1>8, <1>9, <1>10, <1>11, <1>12,
     <1>13, <1>14 DEF Next, SessionStep, WorkerStep

-----------------------------------------------------------------------------

\* A committed row never changes, and a worker that commits one was alone.
LEMMA RowStep ==
    TypeOK /\ InsertedIsAlone /\ [Next]_vars => \A k \in Keys : row[k] # None => row'[k] = row[k]
<1> SUFFICES ASSUME TypeOK, InsertedIsAlone, [Next]_vars,
                    NEW k \in Keys, row[k] # None
             PROVE  row'[k] = row[k]
  OBVIOUS
<1>1. CASE UNCHANGED dbVars
  BY <1>1 DEF dbVars
<1>2. ASSUME NEW w \in Workers, Apply(w)
      PROVE  row'[k] = row[k]
  BY <1>2 DEF Apply, TypeOK, InsertedIsAlone
<1> QED
  BY <1>1, <1>2 DEF Next, vars, SessionStep, WorkerStep, Publish, Deliver, NoticeLoss,
     CloseSession, OpenSession, ChannelLost, Shutdown, Crash, TakeDelivery, InsertInbox,
     InsertMessage, Commit, CommitAnswerLost, Rollback, Ack, RejectForRetry, DeadLetter,
     Settle, SettleFails

\* Where the database does not change, DurableInv only has to be shown for the
\* worker that steps, for events that are settled and for those that die.
LEMMA DurableFrame ==
    ASSUME TypeOK, DurableInv, UNCHANGED <<workerVars, dbVars>>,
           \A e \in Events : place'[e] = "acked" => place[e] = "acked",
           \A e \in Events : place'[e] = "dead" =>
               \/ place[e] = "dead" /\ deliveries'[e] = deliveries[e]
               \/ deliveries'[e] > DeliveryLimit
    PROVE  DurableInv'
<1> USE DEF DurableInv, workerVars, dbVars
<1>1. BusyHasTask'
  BY DEF BusyHasTask
<1>2. InsertedIsAlone'
  BY DEF InsertedIsAlone
<1>3. ConclusionsHold' /\ InboxMatchesRow'
  BY DEF ConclusionsHold, InboxMatchesRow, SameContent
<1>4. AckedIsRecorded'
  BY DEF AckedIsRecorded
<1>5. DeadForCause'
  BY DEF DeadForCause, SameContent
<1> QED
  BY <1>1, <1>2, <1>3, <1>4, <1>5

\* What comes back to the queue is dead only beyond the limit.
LEMMA GiveBackDies ==
    ASSUME TypeOK, NEW S, NEW n \in {0, 1}, GiveBack(S, n)
    PROVE  /\ \A e \in Events : place'[e] = "acked" => place[e] = "acked"
           /\ \A e \in Events : place'[e] = "dead" =>
                 \/ place[e] = "dead" /\ deliveries'[e] = deliveries[e]
                 \/ deliveries'[e] > DeliveryLimit
BY PersistenceAssumption DEF TypeOK, GiveBack, Overdue

\* Publish, Deliver and the end of a session leave what is durable as it is.
LEMMA DurableBrokerStep ==
    ASSUME TypeOK, DurableInv,
           \/ \E e \in Events : Publish(e)
           \/ \E c \in Consumers, e \in Events : Deliver(c, e)
           \/ \E c \in Consumers :
                 NoticeLoss(c) \/ CloseSession(c) \/ ChannelLost(c) \/ Shutdown(c)
    PROVE  DurableInv'
<1>1. ASSUME NEW c \in Consumers, ChannelLost(c) \/ CloseSession(c)
      PROVE  DurableInv'
  <2>1. PICK n \in {0, 1} : GiveBack(HeldBy(c), n)
    BY <1>1 DEF ChannelLost, CloseSession, ChannelGone
  <2> QED
    BY <1>1, <2>1, GiveBackDies, DurableFrame DEF ChannelLost, CloseSession
<1>2. ASSUME NEW e \in Events, Publish(e)
      PROVE  DurableInv'
  BY <1>2, DurableFrame DEF TypeOK, Publish
<1>3. ASSUME NEW c \in Consumers, NEW e \in Events, Deliver(c, e)
      PROVE  DurableInv'
  BY <1>3, DurableFrame DEF TypeOK, Deliver
<1>4. ASSUME NEW c \in Consumers, NoticeLoss(c) \/ Shutdown(c)
      PROVE  DurableInv'
  BY <1>4, DurableFrame DEF TypeOK, NoticeLoss, Shutdown, brokerVars
<1> QED
  BY <1>1, <1>2, <1>3, <1>4

\* The workers a new session replaces had nothing in hand.
LEMMA DurableOpen ==
    ASSUME TypeOK, DurableInv, ClosedIsEmpty, NEW c \in Consumers, OpenSession(c)
    PROVE  DurableInv'
<1> USE DEF DurableInv, OpenSession, brokerVars, dbVars
<1>1. BusyHasTask'
  BY DEF TypeOK, BusyHasTask, ClosedIsEmpty
<1>2. \A w \in Workers : workerPc'[w] # "idle" => workerPc'[w] = workerPc[w] /\ task'[w] = task[w]
  BY DEF TypeOK
<1>3. InsertedIsAlone'
  BY <1>2 DEF InsertedIsAlone
<1>4. ConclusionsHold' /\ InboxMatchesRow' /\ AckedIsRecorded' /\ DeadForCause'
  BY <1>2 DEF ConclusionsHold, InboxMatchesRow, AckedIsRecorded, DeadForCause, SameContent
<1> QED
  BY <1>1, <1>3, <1>4

\* A worker that becomes idle, and the workers of a crashed process, take no
\* conclusion with them; what they leave behind at the broker is GiveBack's.
LEMMA DurableCrash ==
    ASSUME TypeOK, DurableInv, NEW c \in Consumers, Crash(c)
    PROVE  DurableInv'
<1>1. PICK n \in {0, 1} : GiveBack(HeldBy(c), n)
  BY DEF Crash, ChannelGone
<1>2. \A w \in Workers : workerPc'[w] # "idle" => workerPc'[w] = workerPc[w] /\ task'[w] = task[w]
  BY DEF Crash, TypeOK
<1>3. BusyHasTask'
  BY DEF Crash, TypeOK, DurableInv, BusyHasTask
<1>4. InsertedIsAlone'
  BY <1>2 DEF Crash, dbVars, DurableInv, InsertedIsAlone
<1>5. ConclusionsHold' /\ InboxMatchesRow'
  BY <1>2 DEF Crash, dbVars, DurableInv, ConclusionsHold, InboxMatchesRow, SameContent
<1>6. AckedIsRecorded' /\ DeadForCause'
  BY <1>1, GiveBackDies DEF Crash, dbVars, DurableInv, AckedIsRecorded, DeadForCause, SameContent
<1> QED
  BY <1>3, <1>4, <1>5, <1>6 DEF DurableInv

\* A worker takes a delivery or advances in its transaction.
LEMMA DurableWork ==
    ASSUME TypeOK, DurableInv, NEW w \in Workers,
           \/ \E e \in Events : TakeDelivery(w, e)
           \/ InsertInbox(w) \/ InsertMessage(w) \/ Rollback(w)
    PROVE  DurableInv'
<1> USE PersistenceAssumption DEF DurableInv
<1>1. UNCHANGED <<brokerVars, dbVars>>
  BY DEF TakeDelivery, InsertInbox, InsertMessage, Rollback
<1>2. InboxMatchesRow' /\ AckedIsRecorded' /\ DeadForCause'
  BY <1>1 DEF brokerVars, dbVars, InboxMatchesRow, AckedIsRecorded, DeadForCause, SameContent
<1>3. \A v \in Workers : v # w => workerPc'[v] = workerPc[v] /\ task'[v] = task[v]
  BY DEF TypeOK, TakeDelivery, InsertInbox, InsertMessage, Rollback, Goto
<1>4. ASSUME NEW e \in Events, TakeDelivery(w, e)
      PROVE  DurableInv'
  <2>1. task'[w] = e /\ workerPc'[w] = IF Decodes(e) THEN "begin" ELSE "deadLetter"
    BY <1>4 DEF TypeOK, TakeDelivery
  <2> QED
    BY <1>1, <1>2, <1>3, <2>1 DEF dbVars, Decodes, BusyHasTask, InsertedIsAlone, ConclusionsHold, SameContent
<1>5. CASE InsertInbox(w)
  <2>1. task'[w] = task[w] /\ workerPc[w] = "begin"
        /\ workerPc'[w] = IF task[w] \in inbox THEN "ack" ELSE "inboxed"
    BY <1>5 DEF TypeOK, InsertInbox, Goto
  <2> QED
    BY <1>1, <1>2, <1>3, <2>1 DEF dbVars, BusyHasTask, InsertedIsAlone, ConclusionsHold, SameContent
<1>6. CASE Rollback(w)
  <2>1. task'[w] = task[w] /\ workerPc[w] \notin {"idle", "returned"}
        /\ workerPc'[w] = "retry"
    BY <1>6 DEF TypeOK, Rollback, Goto
  <2> QED
    BY <1>1, <1>2, <1>3, <2>1 DEF dbVars, BusyHasTask, InsertedIsAlone, ConclusionsHold, SameContent
<1>7. CASE InsertMessage(w)
  <2>1. /\ task'[w] = task[w] /\ workerPc[w] = "inboxed"
        /\ workerPc'[w] = "inserted" => row[Key[task[w]]] = None
        /\ workerPc'[w] = "same" => SameContent(task[w])
        /\ workerPc'[w] = "deadLetter" => row[Key[task[w]]] # None /\ ~SameContent(task[w])
        /\ workerPc'[w] \in {"inserted", "same", "deadLetter"}
    BY <1>7 DEF TypeOK, InsertMessage, Goto
  <2>2. \A v \in Workers : ~(workerPc[v] = "inserted" /\ Key[task[v]] = Key[task[w]])
    BY <1>7 DEF InsertMessage, LocksKey
  <2>3. InsertedIsAlone'
    BY <1>1, <1>3, <2>1, <2>2 DEF dbVars, InsertedIsAlone
  <2> QED
    BY <1>1, <1>2, <1>3, <2>1, <2>3 DEF dbVars, BusyHasTask, ConclusionsHold, SameContent
<1> QED
  BY <1>4, <1>5, <1>6, <1>7

\* COMMIT: the key held no message before, or already held the same content.
LEMMA DurableCommit ==
    ASSUME TypeOK, DurableInv, NEW w \in Workers, Commit(w) \/ CommitAnswerLost(w)
    PROVE  DurableInv'
<1> USE PersistenceAssumption DEF DurableInv
<1>1. /\ task' = task /\ task[w] \in Events
      /\ workerPc[w] \in {"inserted", "same"} /\ workerPc'[w] \in {"ack", "retry"}
      /\ \A v \in Workers : v # w => workerPc'[v] = workerPc[v]
      /\ UNCHANGED brokerVars
  BY DEF TypeOK, Commit, CommitAnswerLost, Goto, BusyHasTask
<1>2. /\ inbox' = inbox \cup {task[w]}
      /\ \A k \in Keys : row'[k] = IF workerPc[w] = "inserted" /\ k = Key[task[w]]
                                 THEN task[w] ELSE row[k]
  BY <1>1 DEF TypeOK, Commit, CommitAnswerLost, Apply
<1>3. \A k \in Keys : row[k] # None => row'[k] = row[k]
  BY <1>1, <1>2 DEF InsertedIsAlone
<1>4. \A e \in Events : SameContent(e) => SameContent(e)'
  BY <1>3 DEF SameContent
<1>5. \A e \in Events : row[Key[e]] # None /\ ~SameContent(e) => row'[Key[e]] # None /\ ~SameContent(e)'
  BY <1>3 DEF SameContent
<1>6. SameContent(task[w])'
  BY <1>1, <1>2, <1>4 DEF SameContent, ConclusionsHold
<1>7. BusyHasTask'
  BY <1>1 DEF BusyHasTask
<1>8. InsertedIsAlone'
  BY <1>1, <1>2 DEF InsertedIsAlone, BusyHasTask, TypeOK
<1>9. ConclusionsHold'
  BY <1>1, <1>2, <1>4, <1>5 DEF ConclusionsHold, BusyHasTask, TypeOK
<1>10. InboxMatchesRow'
  BY <1>1, <1>2, <1>4, <1>6 DEF InboxMatchesRow, TypeOK
<1>11. AckedIsRecorded' /\ DeadForCause'
  BY <1>1, <1>2, <1>5 DEF brokerVars, AckedIsRecorded, DeadForCause
<1> QED
  BY <1>7, <1>8, <1>9, <1>10, <1>11

\* A worker settles its delivery, or fails to.
LEMMA DurableSettle ==
    ASSUME TypeOK, DurableInv, NEW w \in Workers,
           Ack(w) \/ RejectForRetry(w) \/ DeadLetter(w) \/ SettleFails(w)
    PROVE  DurableInv'
<1> USE PersistenceAssumption DEF DurableInv
<1>1. /\ workerPc'[w] \in {"idle", "returned"} /\ task'[w] = None
      /\ workerPc[w] \in {"ack", "retry", "deadLetter"}
      /\ \A v \in Workers : v # w => workerPc'[v] = workerPc[v] /\ task'[v] = task[v]
      /\ UNCHANGED dbVars
  BY DEF TypeOK, Ack, RejectForRetry, DeadLetter, Settle, SettleFails, Goto
<1>2. BusyHasTask' /\ InsertedIsAlone'
  BY <1>1 DEF dbVars, BusyHasTask, InsertedIsAlone
<1>3. ConclusionsHold' /\ InboxMatchesRow'
  BY <1>1 DEF dbVars, ConclusionsHold, InboxMatchesRow, SameContent
<1>4. task[w] \in Events
  BY <1>1 DEF TypeOK, BusyHasTask
<1>5. AckedIsRecorded' /\ DeadForCause'
  <2>1. CASE Ack(w)
    BY <1>1, <1>4, <2>1 DEF dbVars, Ack, Settle, TypeOK, ConclusionsHold, AckedIsRecorded,
       DeadForCause, SameContent
  <2>2. CASE DeadLetter(w)
    BY <1>1, <1>4, <2>2 DEF dbVars, DeadLetter, Settle, TypeOK, ConclusionsHold,
       AckedIsRecorded, DeadForCause, SameContent
  <2>3. CASE RejectForRetry(w)
    BY <1>1, <2>3, GiveBackDies DEF dbVars, RejectForRetry, AckedIsRecorded, DeadForCause, SameContent
  <2>4. CASE SettleFails(w)
    BY <1>1, <2>4 DEF brokerVars, dbVars, SettleFails, AckedIsRecorded, DeadForCause, SameContent
  <2> QED
    BY <2>1, <2>2, <2>3, <2>4
<1> QED
  BY <1>2, <1>3, <1>5

-----------------------------------------------------------------------------

\* Steps of the broker that take or hand out one event, and session steps that
\* leave the channel's deliveries alone.
LEMMA HeldBrokerStep ==
    ASSUME TypeOK, HeldInv,
           \/ \E e \in Events : Publish(e)
           \/ \E c \in Consumers, e \in Events : Deliver(c, e)
           \/ \E c \in Consumers : NoticeLoss(c) \/ OpenSession(c) \/ Shutdown(c)
    PROVE  HeldInv'
<1> USE PersistenceAssumption DEF TypeOK, HeldInv
<1>1. ASSUME NEW e \in Events, Publish(e)
      PROVE  HeldInv'
  BY <1>1 DEF Publish, sessionVars, workerVars, TaskIsHeld, BufferIsHeld, ClosedIsEmpty, SeenWasAccepted
<1>2. ASSUME NEW c \in Consumers, NEW e \in Events, Deliver(c, e)
      PROVE  HeldInv'
  <2>1. TaskIsHeld'
    BY <1>2 DEF Deliver, workerVars, TaskIsHeld
  <2>2. BufferIsHeld'
    BY <1>2 DEF Deliver, workerVars, BufferIsHeld
  <2>3. ClosedIsEmpty' /\ SeenWasAccepted'
    BY <1>2 DEF Deliver, workerVars, ClosedIsEmpty, SeenWasAccepted
  <2> QED
    BY <2>1, <2>2, <2>3
<1>3. ASSUME NEW c \in Consumers, NoticeLoss(c) \/ Shutdown(c)
      PROVE  HeldInv'
  BY <1>3 DEF NoticeLoss, Shutdown, brokerVars, workerVars, TaskIsHeld, BufferIsHeld,
     ClosedIsEmpty, SeenWasAccepted
<1>4. ASSUME NEW c \in Consumers, OpenSession(c)
      PROVE  HeldInv'
  BY <1>4 DEF OpenSession, brokerVars, workerVars, TaskIsHeld, BufferIsHeld,
     ClosedIsEmpty, SeenWasAccepted
<1> QED
  BY <1>1, <1>2, <1>3, <1>4

\* A channel that goes takes back only its own deliveries: those of the other
\* channels stay held.
LEMMA HeldChannelGone ==
    ASSUME TypeOK, BusyHasTask, HeldInv, NEW c \in Consumers,
           ChannelLost(c) \/ CloseSession(c) \/ Crash(c)
    PROVE  HeldInv'
<1> USE PersistenceAssumption
<1>1. PICK n \in {0, 1} : GiveBack(HeldBy(c), n)
  BY DEF ChannelLost, CloseSession, Crash, ChannelGone
<1>2. /\ channel'[c] = "lost"
      /\ \A d \in Consumers : d # c =>
            channel'[d] = channel[d] /\ buffer'[d] = buffer[d] /\ session'[d] = session[d]
      /\ \A d \in Consumers : buffer'[d] \subseteq buffer[d]
      /\ \A w \in Workers : task'[w] # None => task'[w] = task[w]
      /\ session'[c] = "closed" =>
            \/ session[c] = "closed" /\ buffer'[c] = buffer[c] /\ task' = task
            \/ buffer'[c] = {} /\ \A w \in Workers : Owner[w] = c => task'[w] = None
  BY DEF ChannelLost, CloseSession, Crash, ChannelGone, TypeOK, BusyHasTask, workerVars
<1>3. \A e \in Events : ~(place[e] = "unacked" /\ holder[e] = c) =>
         place'[e] = place[e] /\ holder'[e] = holder[e]
  BY <1>1 DEF GiveBack, HeldBy, TypeOK
<1>4. \A e \in Events : place[e] # "unsent" => place'[e] # "unsent"
  BY <1>1 DEF GiveBack, TypeOK
<1>5. TaskIsHeld'
  BY <1>2, <1>3 DEF HeldInv, TaskIsHeld, TypeOK
<1>6. BufferIsHeld'
  BY <1>2, <1>3 DEF HeldInv, BufferIsHeld, TypeOK
<1>7. ClosedIsEmpty'
  BY <1>2 DEF HeldInv, ClosedIsEmpty, TypeOK
<1>8. SeenWasAccepted'
  BY <1>2, <1>4 DEF HeldInv, SeenWasAccepted, TypeOK
<1> QED
  BY <1>5, <1>6, <1>7, <1>8 DEF HeldInv

\* A delivery moves from the buffer to one worker; a transaction moves nothing.
LEMMA HeldWork ==
    ASSUME TypeOK, HeldInv, NEW w \in Workers,
           \/ \E e \in Events : TakeDelivery(w, e)
           \/ InsertInbox(w) \/ InsertMessage(w) \/ Rollback(w)
           \/ Commit(w) \/ CommitAnswerLost(w)
    PROVE  HeldInv'
<1> USE PersistenceAssumption DEF HeldInv
<1>1. ASSUME NEW e \in Events, TakeDelivery(w, e)
      PROVE  HeldInv'
  <2>1. /\ task'[w] = e /\ e \in buffer[Owner[w]] /\ session[Owner[w]] # "closed"
        /\ \A v \in Workers : v # w => task'[v] = task[v]
        /\ buffer'[Owner[w]] = buffer[Owner[w]] \ {e}
        /\ \A d \in Consumers : d # Owner[w] => buffer'[d] = buffer[d]
        /\ UNCHANGED <<place, holder, channel, session>>
    BY <1>1 DEF TakeDelivery, TypeOK, brokerVars
  <2>2. TaskIsHeld'
    BY <2>1 DEF TaskIsHeld, BufferIsHeld, TypeOK
  <2>3. BufferIsHeld'
    BY <2>1 DEF BufferIsHeld
  <2>4. ClosedIsEmpty' /\ SeenWasAccepted'
    BY <2>1 DEF ClosedIsEmpty, SeenWasAccepted
  <2> QED
    BY <2>2, <2>3, <2>4
<1>2. CASE ~\E e \in Events : TakeDelivery(w, e)
  <2>1. UNCHANGED <<task, brokerVars, sessionVars>>
    BY <1>2 DEF InsertInbox, InsertMessage, Rollback, Commit, CommitAnswerLost
  <2> QED
    BY <2>1 DEF brokerVars, sessionVars, TaskIsHeld, BufferIsHeld, ClosedIsEmpty, SeenWasAccepted
<1> QED
  BY <1>1, <1>2

\* Settling a delivery touches no other worker's.
LEMMA HeldSettle ==
    ASSUME TypeOK, BusyHasTask, HeldInv, NEW w \in Workers,
           Ack(w) \/ RejectForRetry(w) \/ DeadLetter(w) \/ SettleFails(w)
    PROVE  HeldInv'
<1> USE PersistenceAssumption
<1>1. /\ task[w] \in Events /\ task'[w] = None
      /\ \A v \in Workers : v # w => task'[v] = task[v]
      /\ UNCHANGED <<channel, buffer>>
      /\ \A d \in Consumers : session'[d] = "closed" => session[d] = "closed"
  BY DEF TypeOK, BusyHasTask, Ack, RejectForRetry, DeadLetter, Settle, SettleFails, sessionVars
<1>2. CASE SettleFails(w)
  BY <1>1, <1>2 DEF SettleFails, brokerVars, TypeOK, HeldInv, TaskIsHeld, BufferIsHeld,
     ClosedIsEmpty, SeenWasAccepted
<1>3. CASE Ack(w) \/ RejectForRetry(w) \/ DeadLetter(w)
  <2>1. /\ channel[Owner[w]] = "open"
        /\ place'[task[w]] # "unsent"
        /\ \A e \in Events : e # task[w] => place'[e] = place[e] /\ holder'[e] = holder[e]
    BY <1>1, <1>3 DEF TypeOK, Ack, RejectForRetry, DeadLetter, Settle, GiveBack
  <2>2. TaskIsHeld'
    BY <1>1, <2>1 DEF TypeOK, HeldInv, TaskIsHeld
  <2>3. BufferIsHeld'
    BY <1>1, <2>1 DEF TypeOK, HeldInv, TaskIsHeld, BufferIsHeld
  <2>4. ClosedIsEmpty' /\ SeenWasAccepted'
    BY <1>1, <2>1 DEF TypeOK, HeldInv, ClosedIsEmpty, SeenWasAccepted
  <2> QED
    BY <2>2, <2>3, <2>4 DEF HeldInv
<1> QED
  BY <1>2, <1>3

-----------------------------------------------------------------------------

\* The initial state, before anything is published, satisfies the invariant.
LEMMA IndInit == Init => IndInv
<1> SUFFICES ASSUME Init PROVE IndInv
  OBVIOUS
<1> USE PersistenceAssumption DEF Init
<1>1. TypeOK
  BY DEF TypeOK
<1>2. DurableInv
  BY DEF DurableInv, BusyHasTask, InsertedIsAlone, ConclusionsHold, InboxMatchesRow,
     AckedIsRecorded, DeadForCause
<1>3. HeldInv
  BY DEF HeldInv, TaskIsHeld, BufferIsHeld, ClosedIsEmpty, SeenWasAccepted
<1> QED
  BY <1>1, <1>2, <1>3 DEF IndInv

\* Every step of the broker, the sessions and the workers preserves it.
LEMMA IndStep == IndInv /\ [Next]_vars => IndInv'
<1> SUFFICES ASSUME IndInv, [Next]_vars PROVE IndInv'
  OBVIOUS
<1> USE DEF IndInv
<1>1. TypeOK'
  BY TypeStep DEF DurableInv
<1>2. CASE UNCHANGED vars
  <2>1. UNCHANGED <<place, holder, deliveries, channel, session, buffer, workerPc, task, inbox, row>>
    BY <1>2 DEF vars, brokerVars, sessionVars, workerVars, dbVars
  <2>2. DurableInv'
    BY <2>1 DEF DurableInv, BusyHasTask, InsertedIsAlone, ConclusionsHold, InboxMatchesRow,
       AckedIsRecorded, DeadForCause, SameContent
  <2>3. HeldInv'
    BY <2>1 DEF HeldInv, TaskIsHeld, BufferIsHeld, ClosedIsEmpty, SeenWasAccepted
  <2> QED
    BY <1>1, <2>2, <2>3
<1>3. CASE \/ \E e \in Events : Publish(e)
           \/ \E c \in Consumers, e \in Events : Deliver(c, e)
  BY <1>1, <1>3, DurableBrokerStep, HeldBrokerStep
<1>4. ASSUME NEW c \in Consumers,
             SessionStep(c) \/ ChannelLost(c) \/ Shutdown(c) \/ Crash(c)
      PROVE  DurableInv' /\ HeldInv'
  BY <1>4, DurableBrokerStep, DurableOpen, DurableCrash, HeldBrokerStep, HeldChannelGone
     DEF SessionStep, DurableInv, HeldInv
<1>5. ASSUME NEW w \in Workers, WorkerStep(w) \/ CommitAnswerLost(w) \/ Rollback(w)
      PROVE  DurableInv' /\ HeldInv'
  BY <1>5, DurableWork, DurableCommit, DurableSettle, HeldWork, HeldSettle DEF WorkerStep, DurableInv
<1> QED
  BY <1>1, <1>2, <1>3, <1>4, <1>5 DEF Next

\* The two invariants hold in every reachable state.
THEOREM Invariance == Spec => []IndInv
BY IndInit, IndStep, PTL DEF Spec

\* Type correctness.
THEOREM TypeCorrect == Spec => []TypeOK
<1>1. IndInv => TypeOK
  BY DEF IndInv
<1> QED
  BY <1>1, Invariance, PTL

\* An acknowledged event is durable: its Inbox record is committed and its key
\* holds its content.  Acknowledging is the last step of handleDelivery, after
\* the commit, and no later commit can take the message away.
THEOREM AckedDurable == Spec => []AckedIsDurable
<1>1. IndInv => AckedIsDurable
  BY DEF IndInv, DurableInv, AckedIsRecorded, InboxMatchesRow, AckedIsDurable
<1> QED
  BY <1>1, Invariance, PTL

\* The Inbox record and the message commit together or not at all.
THEOREM InboxMatches == Spec => []InboxMatchesRow
<1>1. IndInv => InboxMatchesRow
  BY DEF IndInv, DurableInv
<1> QED
  BY <1>1, Invariance, PTL

\* Nothing is dead-lettered without one of the three causes.
THEOREM DeadHasCause == Spec => []DeadForCause
<1>1. IndInv => DeadForCause
  BY DEF IndInv, DurableInv
<1> QED
  BY <1>1, Invariance, PTL

\* A delivery in hand belongs to one worker of the consumer the broker gave it to.
THEOREM TaskHeld == Spec => []TaskIsHeld
<1>1. IndInv => TaskIsHeld
  BY DEF IndInv, HeldInv
<1> QED
  BY <1>1, Invariance, PTL

\* The first committed message of a business key is never replaced.
THEOREM FirstWrite == Spec => FirstWriteWins
<1>1. IndInv /\ [Next]_vars => [\A k \in Keys : row[k] # None => row'[k] = row[k]]_vars
  BY RowStep DEF IndInv, DurableInv
<1> QED
  BY <1>1, Invariance, PTL DEF Spec, FirstWriteWins

-----------------------------------------------------------------------------

\* Before anything is published the abstract log is in its initial state.
LEMMA LogInit == Init => Log!Init
BY DEF Init, Log!Init, At

\* Events that come back, all of them unacked, are a dead-lettering of those
\* that are over the limit: none of them was settled or dead before.
LEMMA LogGiveBack ==
    ASSUME TypeOK, NEW S \in SUBSET Events, NEW n \in {0, 1}, GiveBack(S, n),
           \A e \in S : place[e] = "unacked", UNCHANGED row
    PROVE  Log!Next
<1> DEFINE D == {e \in S : Overdue(e, n)}
<1>1. \A e \in Events :
         place'[e] = IF e \in S THEN (IF Overdue(e, n) THEN "dead" ELSE "ready") ELSE place[e]
  BY DEF GiveBack
<1>2. At("dead")' = At("dead") \cup D
  BY <1>1 DEF At
<1>3. At("acked")' = At("acked") /\ At("unsent")' = At("unsent")
  BY <1>1 DEF At
<1>4. D \subseteq Log!Open
  BY DEF At, Log!Open
<1>5. Log!DeadLetter(D)
  BY <1>2, <1>3, <1>4 DEF Log!DeadLetter
<1>6. D \in SUBSET Events
  OBVIOUS
<1> QED
  BY <1>5, <1>6 DEF Log!Next

\* Each step of the consumers, the broker and MySQL is a step of ChatLog or
\* leaves the abstract log as it is.
LEMMA LogStep == IndInv /\ [Next]_vars => [Log!Next]_Log!vars
<1> SUFFICES ASSUME IndInv, [Next]_vars PROVE [Log!Next]_Log!vars
  OBVIOUS
<1> USE PersistenceAssumption DEF IndInv
<1>1. CASE UNCHANGED <<place, row>>
  BY <1>1 DEF Log!vars, At
<1>2. ASSUME NEW e \in Events, Publish(e)
      PROVE  Log!Next
  <2>1. Log!Accept(e)
    BY <1>2 DEF Publish, TypeOK, dbVars, At, Log!Accept
  <2> QED
    BY <2>1 DEF Log!Next
<1>3. ASSUME NEW c \in Consumers, NEW e \in Events, Deliver(c, e)
      PROVE  UNCHANGED Log!vars
  BY <1>3 DEF Deliver, TypeOK, dbVars, At, Log!vars
<1>4. ASSUME NEW c \in Consumers, ChannelLost(c) \/ CloseSession(c) \/ Crash(c)
      PROVE  Log!Next
  <2>1. PICK n \in {0, 1} : GiveBack(HeldBy(c), n)
    BY <1>4 DEF ChannelLost, CloseSession, Crash, ChannelGone
  <2>2. /\ HeldBy(c) \in SUBSET Events
        /\ \A e \in HeldBy(c) : place[e] = "unacked"
        /\ UNCHANGED row
    BY <1>4 DEF HeldBy, ChannelLost, CloseSession, Crash, dbVars
  <2> QED
    BY <2>1, <2>2, LogGiveBack
<1>5. ASSUME NEW w \in Workers, Commit(w) \/ CommitAnswerLost(w)
      PROVE  [Log!Next]_Log!vars
  <2>1. task[w] \in Events /\ place[task[w]] # "unsent" /\ UNCHANGED place
    BY <1>5 DEF Commit, CommitAnswerLost, TypeOK, DurableInv, BusyHasTask, HeldInv,
       SeenWasAccepted, brokerVars
  <2>2. CASE workerPc[w] = "inserted"
    <3>1. Log!Write(task[w])
      BY <1>5, <2>1, <2>2 DEF Commit, CommitAnswerLost, Apply, DurableInv, InsertedIsAlone,
         At, Log!Write
    <3> QED
      BY <2>1, <3>1 DEF Log!Next
  <2>3. CASE workerPc[w] # "inserted"
    BY <1>5, <2>1, <2>3 DEF Commit, CommitAnswerLost, Apply, At, Log!vars
  <2> QED
    BY <2>2, <2>3
<1>6. ASSUME NEW w \in Workers, Ack(w) \/ DeadLetter(w) \/ RejectForRetry(w)
      PROVE  Log!Next
  <2>1. task[w] \in Events /\ place[task[w]] = "unacked" /\ UNCHANGED row
    BY <1>6 DEF Ack, DeadLetter, RejectForRetry, Settle, TypeOK, DurableInv, BusyHasTask,
       HeldInv, TaskIsHeld, dbVars
  <2>2. CASE Ack(w)
    <3>1. Log!Settle(task[w])
      BY <2>1, <2>2 DEF Ack, Settle, TypeOK, DurableInv, ConclusionsHold, InboxMatchesRow,
         SameContent, At, Log!Settle, Log!Open
    <3> QED
      BY <2>1, <3>1 DEF Log!Next
  <2>3. CASE DeadLetter(w)
    <3>1. Log!DeadLetter({task[w]})
      BY <2>1, <2>3 DEF DeadLetter, TypeOK, At, Log!DeadLetter, Log!Open
    <3> QED
      BY <2>1, <3>1 DEF Log!Next
  <2>4. CASE RejectForRetry(w)
    BY <2>1, <2>4, LogGiveBack DEF RejectForRetry
  <2> QED
    BY <1>6, <2>2, <2>3, <2>4
<1>7. ASSUME NEW c \in Consumers, NoticeLoss(c) \/ OpenSession(c) \/ Shutdown(c)
      PROVE  UNCHANGED <<place, row>>
  BY <1>7 DEF NoticeLoss, OpenSession, Shutdown, brokerVars, dbVars
<1>8. ASSUME NEW w \in Workers,
             \/ \E e \in Events : TakeDelivery(w, e)
             \/ InsertInbox(w) \/ InsertMessage(w) \/ Rollback(w) \/ SettleFails(w)
      PROVE  UNCHANGED <<place, row>>
  BY <1>8 DEF TakeDelivery, InsertInbox, InsertMessage, Rollback, SettleFails, brokerVars, dbVars
<1>9. UNCHANGED vars => UNCHANGED <<place, row>>
  BY DEF vars, brokerVars, dbVars
<1> QED
  BY <1>1, <1>2, <1>3, <1>4, <1>5, <1>6, <1>7, <1>8, <1>9 DEF Next, SessionStep, WorkerStep

\* The whole pipeline implements ChatLog: every accepted event is accounted for,
\* it is settled only with its message in the log, and the log is written once
\* per key.
THEOREM Refinement == Spec => ImplementsChatLog
<1>1. Spec => Log!Spec
  BY LogInit, LogStep, Invariance, PTL DEF Spec, Log!Spec
<1> QED
  BY <1>1 DEF ImplementsChatLog

(***************************************************************************)
(* Reading: History.                                                       *)
(***************************************************************************)

\* Ids are given out in order, and the reader has passed none that is still to come.
IdsInOrder ==
    /\ nextId \in Nat \ {0}
    /\ inserting \in [Writers -> 1..(nextId - 1) \cup {NoId}]
    /\ committed \subseteq 1..(nextId - 1)
    /\ cursor = NoId \/ cursor \in 0..(nextId - 1)

\* An id that the cursor has passed while its transaction is open is noted, and a page
\* only contains what the cursor has passed.
PassedIsKnown ==
    /\ cursor # NoId => \A w \in Writers : inserting[w] \in 1..cursor => inserting[w] \in overtaken
    /\ \A id \in seen : cursor # NoId /\ id <= cursor
    /\ seen \subseteq Nat

HistoryInv == IdsInOrder /\ PassedIsKnown /\ SkippedWasInFlight

-----------------------------------------------------------------------------

\* Sorting: a finite set of ids has a sequence in which each occurs once and in order.
\* Its i-th element is the one with i ids up to it.
LEMMA Sorted ==
    ASSUME NEW S \in SUBSET Nat, IsFiniteSet(S)
    PROVE  /\ Ascending(S) \in [1..Cardinality(S) -> S]
           /\ \A i, j \in 1..Cardinality(S) : i < j => Ascending(S)[i] < Ascending(S)[j]
           /\ \A x \in S : \E i \in 1..Cardinality(S) : Ascending(S)[i] = x
<1> DEFINE n == Cardinality(S)
           upTo(x) == {y \in S : y <= x}
           rank == [x \in S |-> Cardinality(upTo(x))]
           inOrder(q) == \A i, j \in DOMAIN q : i < j => q[i] < q[j]
<1>1. n \in Nat /\ IsFiniteSet(1..n) /\ Cardinality(1..n) = n
  BY FS_CardinalityType, FS_Interval
<1>2. ASSUME NEW x \in S
      PROVE  /\ IsFiniteSet(upTo(x)) /\ Cardinality(upTo(x)) \in 1..n
  <2>1. upTo(x) \in SUBSET S /\ x \in upTo(x)
    OBVIOUS
  <2>2. IsFiniteSet(upTo(x)) /\ Cardinality(upTo(x)) <= n
    BY <2>1, FS_Subset
  <2>3. Cardinality(upTo(x)) \in Nat /\ Cardinality(upTo(x)) # 0
    BY <2>1, <2>2, FS_CardinalityType, FS_EmptySet
  <2> QED
    BY <1>1, <2>2, <2>3
<1>3. ASSUME NEW x \in S, NEW y \in S, x < y
      PROVE  rank[x] < rank[y]
  <2>1. upTo(x) \in SUBSET upTo(y) /\ y \in upTo(y) /\ y \notin upTo(x)
    <3>1. \A z \in S : z <= x => z <= y
      BY <1>3
    <3>2. y <= y /\ ~(y <= x)
      BY <1>3
    <3> QED
      BY <3>1, <3>2
  <2>2. Cardinality(upTo(x)) <= Cardinality(upTo(y))
        /\ (Cardinality(upTo(y)) = Cardinality(upTo(x)) => upTo(y) = upTo(x))
    BY <1>2, <2>1, FS_Subset
  <2>3. Cardinality(upTo(x)) # Cardinality(upTo(y))
    BY <2>1, <2>2
  <2>4. Cardinality(upTo(x)) \in Nat /\ Cardinality(upTo(y)) \in Nat
    BY <1>2
  <2> HIDE DEF upTo
  <2> QED
    BY <2>2, <2>3, <2>4
<1>4. rank \in [S -> 1..n]
  BY <1>2
<1> HIDE DEF rank
<1>5. rank \in Injection(S, 1..n)
  <2>1. \A x, y \in S : rank[x] = rank[y] => x = y
    <3> SUFFICES ASSUME NEW x \in S, NEW y \in S, x # y PROVE rank[x] # rank[y]
      OBVIOUS
    <3>1. x < y \/ y < x
      OBVIOUS
    <3>2. rank[x] \in Nat /\ rank[y] \in Nat
      BY <1>1, <1>4
    <3> QED
      BY <1>3, <3>1, <3>2
  <2> QED
    BY <1>4, <2>1 DEF Injection, IsInjective
<1>6. rank \in Surjection(S, 1..n)
  BY <1>1, <1>5, FS_Injection
<1>7. \A i \in 1..n : \E x \in S : rank[x] = i
  BY <1>6 DEF Surjection
<1> DEFINE q == [i \in 1..n |-> CHOOSE x \in S : rank[x] = i]
<1>8. \A i \in 1..n : q[i] \in S /\ rank[q[i]] = i
  BY <1>7
<1>9. q \in [1..n -> S] /\ DOMAIN q = 1..n
  BY <1>8
<1> HIDE DEF q
<1>10. ASSUME NEW i \in 1..n, NEW j \in 1..n, i < j
       PROVE  q[i] < q[j]
  <2>1. q[i] \in Nat /\ q[j] \in Nat /\ rank[q[i]] = i /\ rank[q[j]] = j
    BY <1>8
  <2>2. q[j] < q[i] => FALSE
    BY <1>1, <1>3, <1>8, <1>10, <2>1
  <2>3. q[j] # q[i]
    BY <1>1, <1>10, <2>1
  <2> QED
    BY <2>1, <2>2, <2>3
<1>11. q \in SetToSeqs(S) /\ inOrder(q)
  <2>1. \A i, j \in 1..n : i # j => q[i] # q[j]
    BY <1>8
  <2> QED
    BY <1>9, <1>10, <2>1 DEF SetToSeqs
<1>12. Ascending(S) \in SetToSeqs(S) /\ inOrder(Ascending(S))
  BY <1>11 DEF Ascending
<1> DEFINE a == Ascending(S)
<1>13. a \in [1..n -> S] /\ \A i, j \in 1..n : i # j => a[i] # a[j]
  BY <1>12 DEF SetToSeqs
<1>14. DOMAIN a = 1..n
  BY <1>13
<1>15. a \in Surjection(1..n, S)
  <2>1. a \in Injection(1..n, S)
    BY <1>13 DEF Injection, IsInjective
  <2> QED
    BY <1>1, <2>1, FS_Injection
<1> QED
  BY <1>12, <1>13, <1>14, <1>15 DEF Surjection

\* The ids number a to b of the sorted ids: what they are, and that they leave out nothing
\* between the first and the last of them.
IsSlice(q, S, a, b) ==
    /\ q \in Seq(S)
    /\ Len(q) = IF a <= b THEN b - a + 1 ELSE 0
    /\ \A i \in 1..Len(q) : q[i] = Ascending(S)[a + i - 1]
    /\ \A id \in ToSet(q) : id \in S /\ q[1] <= id /\ id <= q[Len(q)]
    /\ q # <<>> => /\ q[1] \in ToSet(q) /\ q[Len(q)] \in ToSet(q)
                   /\ \A id \in S : q[1] <= id /\ id <= q[Len(q)] => id \in ToSet(q)

\* A part of the sorted ids is such a slice.
LEMMA Slice ==
    ASSUME NEW S \in SUBSET Nat, IsFiniteSet(S), NEW a \in Nat \ {0}, NEW b \in Nat,
           b <= Cardinality(S)
    PROVE  IsSlice(SubSeq(Ascending(S), a, b), S, a, b)
<1> DEFINE q == SubSeq(Ascending(S), a, b)
<1> DEFINE n == Cardinality(S)
           all == Ascending(S)
<1>1. /\ n \in Nat /\ all \in [1..n -> S]
      /\ \A i, j \in 1..n : i < j => all[i] < all[j]
      /\ \A x \in S : \E i \in 1..n : all[i] = x
  BY Sorted, FS_CardinalityType
<1>2. b <= n /\ q = SubSeq(all, a, b)
  OBVIOUS
<1> HIDE DEF n, all, q
<1>3. all \in Seq(S) /\ Len(all) = n
  BY <1>1, LenProperties, SeqDef
<1>4. /\ q \in Seq(S) /\ Len(q) = IF a <= b THEN b - a + 1 ELSE 0
      /\ \A i \in 1..Len(q) : q[i] = all[a + i - 1]
  BY <1>2, <1>3
<1>5. Len(q) \in Nat /\ DOMAIN q = 1..Len(q) /\ ToSet(q) = {q[i] : i \in 1..Len(q)}
  <2>1. Len(q) \in Nat /\ DOMAIN q = 1..Len(q)
    BY <1>4, LenProperties
  <2> QED
    BY <2>1 DEF ToSet
<1>6. \A i \in 1..Len(q) : a + i - 1 \in 1..n
  BY <1>1, <1>2, <1>4
<1>7. \A i, j \in 1..Len(q) : i <= j => q[i] \in Nat /\ q[j] \in Nat /\ q[i] <= q[j]
  <2> SUFFICES ASSUME NEW i \in 1..Len(q), NEW j \in 1..Len(q), i <= j
               PROVE  q[i] \in Nat /\ q[j] \in Nat /\ q[i] <= q[j]
    OBVIOUS
  <2>1. q[i] \in Nat /\ q[j] \in Nat
    BY <1>1, <1>4, <1>6
  <2>2. CASE i = j
    BY <2>1, <2>2
  <2>3. CASE i # j
    <3>0. i \in Int /\ j \in Int /\ i < j
      BY <1>5, <2>3
    <3>1. a + i - 1 \in 1..n /\ a + j - 1 \in 1..n
      BY <1>6
    <3>2. a + i - 1 < a + j - 1
      BY <3>0
    <3>3. all[a + i - 1] < all[a + j - 1]
      BY <1>1, <3>1, <3>2
    <3>4. q[i] < q[j]
      BY <1>4, <3>3
    <3> QED
      BY <2>1, <3>4
  <2> QED
    BY <2>2, <2>3
<1>8. ASSUME NEW id \in ToSet(q)
      PROVE  id \in S /\ q[1] <= id /\ id <= q[Len(q)]
  <2>1. PICK i \in 1..Len(q) : q[i] = id
    BY <1>5
  <2>2. 1 \in 1..Len(q) /\ Len(q) \in 1..Len(q) /\ 1 <= i /\ i <= Len(q)
    BY <1>5
  <2>3. q[i] \in S
    BY <1>1, <1>4, <1>6
  <2> QED
    BY <1>7, <2>1, <2>2, <2>3
<1>9. ASSUME q # <<>>
      PROVE  /\ q[1] \in ToSet(q) /\ q[Len(q)] \in ToSet(q)
             /\ \A id \in S : q[1] <= id /\ id <= q[Len(q)] => id \in ToSet(q)
  <2>1. Len(q) # 0
    BY <1>4, <1>9
  <2>2. 1 \in 1..Len(q) /\ Len(q) \in 1..Len(q) /\ a <= b /\ Len(q) = b - a + 1
    BY <1>4, <1>5, <2>1
  <2>3. q[1] = all[a] /\ q[Len(q)] = all[b] /\ a \in 1..n /\ b \in 1..n
    <3>1. a + 1 - 1 = a /\ a + Len(q) - 1 = b
      BY <2>2
    <3> QED
      BY <1>4, <1>6, <2>2, <3>1
  <2>4. ASSUME NEW id \in S, q[1] <= id, id <= q[Len(q)]
        PROVE  id \in ToSet(q)
    <3>1. PICK k \in 1..n : all[k] = id
      BY <1>1
    <3>2. all[a] \in Nat /\ all[b] \in Nat /\ all[k] \in Nat
      BY <1>1, <2>3
    <3>3. ~(k < a) /\ ~(b < k)
      BY <1>1, <2>3, <2>4, <3>1, <3>2
    <3>4. k - a + 1 \in 1..Len(q) /\ a + (k - a + 1) - 1 = k
      BY <1>1, <2>2, <3>3
    <3>5. q[k - a + 1] = id
      BY <1>4, <3>1, <3>4
    <3> QED
      BY <1>5, <3>4, <3>5
  <2> QED
    BY <1>5, <2>2, <2>4
<1>10. IsSlice(q, S, a, b)
  BY <1>4, <1>8, <1>9 DEF all, IsSlice
<1> QED
  BY <1>10 DEF q

\* A follow-up page: all rows behind the cursor up to the new one and no others, and
\* whether there were more.
LEMMA FollowUp ==
    ASSUME IdsInOrder, FollowUpPage
    PROVE  /\ cursor \in Nat /\ cursor' \in 0..(nextId - 1) /\ cursor <= cursor'
           /\ \A id \in ToSet(page') : id \in committed /\ cursor < id /\ id <= cursor'
           /\ \A id \in committed : cursor < id /\ id <= cursor' => id \in ToSet(page')
           /\ hasMore' <=> \E id \in committed : id > cursor'
<1> DEFINE S == {id \in committed : id > cursor}
           all == Ascending(S)
           n == Cardinality(S)
           k == IF n < Limit THEN n ELSE Limit
           rows == ListAfter(cursor, Limit + 1)
           messages == SubSeq(rows, 1, IF Len(rows) > Limit THEN Limit ELSE Len(rows))
<1>1. /\ cursor \in Nat /\ cursor <= nextId - 1 /\ nextId \in Nat \ {0}
      /\ committed \subseteq 1..(nextId - 1) /\ Limit \in Nat \ {0}
  BY HistoryAssumption DEF IdsInOrder, FollowUpPage
<1>2. S \in SUBSET Nat /\ IsFiniteSet(S) /\ n \in Nat
  <2>1. S \in SUBSET (1..(nextId - 1))
    BY <1>1
  <2>2. IsFiniteSet(1..(nextId - 1))
    BY <1>1, FS_Interval
  <2> QED
    BY <1>1, <2>1, <2>2, FS_Subset, FS_CardinalityType
<1>3. /\ all \in [1..n -> S]
      /\ \A i, j \in 1..n : i < j => all[i] < all[j]
      /\ \A x \in S : \E i \in 1..n : all[i] = x
  BY <1>2, Sorted
<1>4. /\ page' = messages /\ cursor' = NextCursor(messages, cursor)
      /\ hasMore' = (Len(rows) > Limit)
  BY DEF FollowUpPage, Receive
<1>5. rows = SubSeq(all, 1, IF Len(all) < Limit + 1 THEN Len(all) ELSE Limit + 1)
  BY DEF ListAfter
<1> HIDE DEF S, all, n, rows
<1>6. all \in Seq(S) /\ Len(all) = n
  BY <1>2, <1>3, LenProperties, SeqDef
<1>7. /\ rows \in Seq(S) /\ Len(rows) = IF n < Limit + 1 THEN n ELSE Limit + 1
      /\ \A i \in 1..Len(rows) : rows[i] = all[i]
  BY <1>1, <1>2, <1>5, <1>6
<1>8. (Len(rows) > Limit <=> n > Limit) /\ (IF Len(rows) > Limit THEN Limit ELSE Len(rows)) = k
  BY <1>1, <1>2, <1>7
<1>9. k \in Nat /\ k <= n /\ k <= Len(rows) /\ messages = SubSeq(rows, 1, k)
      /\ (n > 0 => k > 0) /\ (n > Limit <=> k < n)
  BY <1>1, <1>2, <1>7, <1>8
<1> HIDE DEF k
<1>10. messages = SubSeq(all, 1, k)
  <2>1. /\ SubSeq(rows, 1, k) \in Seq(S) /\ Len(SubSeq(rows, 1, k)) = k
        /\ \A i \in 1..k : SubSeq(rows, 1, k)[i] = rows[i]
    BY <1>7, <1>9
  <2>2. /\ SubSeq(all, 1, k) \in Seq(S) /\ Len(SubSeq(all, 1, k)) = k
        /\ \A i \in 1..k : SubSeq(all, 1, k)[i] = all[i]
    BY <1>2, <1>6, <1>9
  <2>3. \A i \in 1..k : i \in 1..Len(rows)
    BY <1>7, <1>9
  <2> QED
    BY <1>7, <1>9, <2>1, <2>2, <2>3, SeqEqual
<1> HIDE DEF messages
<1>11. /\ messages \in Seq(S) /\ Len(messages) = k
       /\ \A i \in 1..k : messages[i] = all[i]
       /\ \A id \in ToSet(messages) : id \in S /\ id <= messages[k]
       /\ messages # <<>> =>
             /\ messages[k] \in ToSet(messages)
             /\ \A id \in S : messages[1] <= id /\ id <= messages[k] => id \in ToSet(messages)
  <2>1. IsSlice(messages, S, 1, k)
    <3>1. k \in Nat /\ k <= Cardinality(S) /\ messages = SubSeq(Ascending(S), 1, k)
      BY <1>9, <1>10 DEF all, n
    <3> QED
      BY <1>2, <3>1, Slice
  <2>2. Len(messages) = k /\ all = Ascending(S)
    BY <1>9, <2>1 DEF all, IsSlice
  <2>3. \A i \in 1..k : 1 + i - 1 = i
    BY <1>9
  <2> QED
    BY <2>1, <2>2, <2>3 DEF IsSlice
<1>12. hasMore' <=> n > Limit
  BY <1>4, <1>8
<1>13. \A id \in S : id \in committed /\ id \in Nat /\ cursor < id /\ id <= nextId - 1
  BY <1>1 DEF S
<1>14. \A id \in committed : cursor < id => id \in S
  BY <1>1 DEF S
<1>15. CASE n = 0
  <2>1. S = {}
    BY <1>2, <1>15, FS_EmptySet DEF n
  <2>2. messages = <<>> /\ ToSet(messages) = {}
    BY <1>9, <1>11, <1>15, <2>1, EmptySeq
  <2>3. cursor' = cursor
    BY <1>4, <2>2 DEF NextCursor
  <2> QED
    BY <1>1, <1>4, <1>12, <1>14, <1>15, <2>1, <2>2, <2>3
<1>16. CASE n # 0
  <2>1. k \in 1..n /\ 1 \in 1..k /\ k \in 1..k /\ 1 \in 1..n
    BY <1>2, <1>9, <1>16
  <2>2. messages # <<>>
    BY <1>11, <2>1, EmptySeq
  <2>3. cursor' = all[k] /\ messages[k] = all[k] /\ messages[1] = all[1]
    BY <1>4, <1>11, <2>1, <2>2 DEF NextCursor
  <2>4. all[k] \in S /\ all[1] \in S
    BY <1>3, <2>1
  <2>5. \A id \in S : all[1] <= id
    <3> SUFFICES ASSUME NEW id \in S PROVE all[1] <= id
      OBVIOUS
    <3>1. PICK i \in 1..n : all[i] = id
      BY <1>3
    <3>2. i = 1 \/ all[1] < all[i]
      BY <1>3, <2>1
    <3> QED
      BY <1>13, <2>4, <3>1, <3>2
  <2>6. ASSUME n > Limit
        PROVE  \E id \in committed : id > cursor'
    <3>1. k + 1 \in 1..n /\ k < k + 1
      BY <1>2, <1>9, <2>1, <2>6
    <3>2. all[k + 1] \in S /\ all[k] < all[k + 1]
      BY <1>3, <2>1, <3>1
    <3> QED
      BY <1>13, <2>3, <2>4, <3>2
  <2>7. ASSUME ~(n > Limit), NEW id \in committed, id > cursor'
        PROVE  FALSE
    <3>1. k = n
      BY <1>2, <1>9, <2>7
    <3>2. id \in S
      BY <1>1, <1>13, <1>14, <2>3, <2>4, <2>7
    <3>3. PICK i \in 1..n : all[i] = id
      BY <1>3, <3>2
    <3>4. i = k \/ all[i] < all[k]
      BY <1>3, <2>1, <3>1
    <3> QED
      BY <1>13, <2>3, <2>4, <2>7, <3>2, <3>3, <3>4
  <2>8. cursor' \in 0..(nextId - 1) /\ cursor <= cursor'
    BY <1>1, <1>13, <2>3, <2>4
  <2>9. \A id \in ToSet(page') : id \in committed /\ cursor < id /\ id <= cursor'
    BY <1>4, <1>11, <1>13, <2>3
  <2>10. \A id \in committed : cursor < id /\ id <= cursor' => id \in ToSet(page')
    BY <1>4, <1>11, <1>14, <2>2, <2>3, <2>5
  <2> QED
    BY <1>1, <1>12, <2>6, <2>7, <2>8, <2>9, <2>10
<1> QED
  BY <1>2, <1>15, <1>16

\* The first page: the latest rows without a gap.
LEMMA First ==
    ASSUME IdsInOrder, FirstPage
    PROVE  /\ cursor' \in 0..(nextId - 1) /\ base' \in Nat
           /\ \A id \in ToSet(page') : id \in committed /\ id <= cursor'
           /\ \A id \in committed : base' < id /\ id <= cursor' => id \in ToSet(page')
<1> DEFINE n == Cardinality(committed)
           from == IF n < Limit THEN 1 ELSE n - Limit + 1
           messages == ListLatest(Limit)
<1>1. nextId \in Nat \ {0} /\ committed \subseteq 1..(nextId - 1) /\ Limit \in Nat \ {0}
  BY HistoryAssumption DEF IdsInOrder
<1>2. committed \in SUBSET Nat /\ IsFiniteSet(committed) /\ n \in Nat
  <2>1. committed \in SUBSET Nat
    BY <1>1
  <2>2. committed \in SUBSET (1..(nextId - 1)) /\ IsFiniteSet(1..(nextId - 1))
    BY <1>1, FS_Interval
  <2>3. IsFiniteSet(committed)
    BY <2>2, FS_Subset
  <2> QED
    BY <2>1, <2>3, FS_CardinalityType
<1>3. /\ page' = messages /\ cursor' = NextCursor(messages, 0)
      /\ base' = IF messages = <<>> THEN 0 ELSE messages[1] - 1
  BY DEF FirstPage, Receive
<1>4. Len(Ascending(committed)) = n
  <2>1. Ascending(committed) \in [1..n -> committed]
    BY <1>2, Sorted
  <2> HIDE DEF n
  <2> QED
    BY <1>2, <2>1, LenProperties, SeqDef
<1>5. messages = SubSeq(Ascending(committed), from, n)
  BY <1>4 DEF ListLatest
<1>6. from \in Nat \ {0} /\ n <= Cardinality(committed)
  BY <1>1, <1>2
<1> HIDE DEF from, messages
<1>7. IsSlice(messages, committed, from, n)
  BY <1>2, <1>5, <1>6, Slice
<1>8. CASE messages = <<>>
  <2>1. ToSet(messages) = {}
    BY <1>8 DEF ToSet
  <2>2. cursor' = 0 /\ base' = 0 /\ ToSet(page') = {}
    BY <1>3, <1>8, <2>1 DEF NextCursor
  <2> QED
    BY <1>1, <2>2
<1>9. CASE messages # <<>>
  <2>1. cursor' = messages[Len(messages)] /\ base' = messages[1] - 1
    BY <1>3, <1>9 DEF NextCursor
  <2>2. messages[1] \in committed /\ messages[Len(messages)] \in committed
    BY <1>7, <1>9 DEF IsSlice
  <2> DEFINE head == messages[1]
             last == messages[Len(messages)]
  <2>3. /\ cursor' = last /\ base' = head - 1
        /\ head \in Nat \ {0} /\ last \in 0..(nextId - 1)
    <3>1. \A id \in committed : id \in Nat \ {0} /\ id \in 0..(nextId - 1)
      BY <1>1
    <3> QED
      BY <2>1, <2>2, <3>1
  <2> HIDE DEF head, last
  <2>4. cursor' \in 0..(nextId - 1) /\ base' \in Nat
    BY <2>3
  <2>5. \A id \in committed : base' < id => head <= id
    BY <1>1, <2>3
  <2> QED
    BY <1>3, <1>7, <1>9, <2>3, <2>4, <2>5 DEF head, last, IsSlice
<1> QED
  BY <1>8, <1>9

\* What a page adds to what the client has and to what the cursor passed.
LEMMA Received ==
    ASSUME IdsInOrder, FirstPage \/ FollowUpPage
    PROVE  /\ seen' = seen \cup ToSet(page')
           /\ \A w \in Writers : inserting[w] \in 1..cursor' => inserting[w] \in overtaken'
           /\ overtaken \subseteq overtaken'
           /\ UNCHANGED tableVars
           /\ cursor' \in 0..(nextId - 1) /\ cursor' # NoId
<1>1. cursor' \in 0..(nextId - 1)
  BY First, FollowUp
<1>2. cursor' # NoId
  BY <1>1, HistoryAssumption DEF IdsInOrder
<1>3. /\ seen' = seen \cup ToSet(page')
      /\ overtaken' = overtaken \cup {id \in 1..cursor' : \E w \in Writers : inserting[w] = id}
      /\ UNCHANGED tableVars
  BY DEF FirstPage, FollowUpPage, Receive
<1> QED
  BY <1>1, <1>2, <1>3

\* Every step keeps the invariant.
LEMMA HistoryStep == HistoryInv /\ [HistoryNext]_historyVars => HistoryInv'
<1> SUFFICES ASSUME HistoryInv, [HistoryNext]_historyVars PROVE HistoryInv'
  OBVIOUS
<1>0. IdsInOrder /\ PassedIsKnown /\ SkippedWasInFlight /\ NoId \notin Nat
  BY HistoryAssumption DEF HistoryInv
<1>1. CASE UNCHANGED historyVars
  BY <1>0, <1>1 DEF historyVars, tableVars, readerVars, HistoryInv, IdsInOrder, PassedIsKnown,
                    SkippedWasInFlight
<1>2. ASSUME NEW w \in Writers, Insert(w) PROVE HistoryInv'
  <2>1. /\ nextId' = nextId + 1 /\ inserting' = [inserting EXCEPT ![w] = nextId]
        /\ UNCHANGED <<committed, cursor, base, seen, overtaken>>
    BY <1>2 DEF Insert, readerVars
  <2>2. IdsInOrder'
    BY <1>0, <2>1 DEF IdsInOrder
  <2>3. cursor # NoId => nextId \notin 1..cursor
    BY <1>0 DEF IdsInOrder
  <2>4. \A v \in Writers : inserting'[v] = IF v = w THEN nextId ELSE inserting[v]
    BY <1>0, <2>1 DEF IdsInOrder
  <2>5. PassedIsKnown'
    BY <1>0, <2>1, <2>3, <2>4 DEF PassedIsKnown
  <2> QED
    BY <1>0, <2>1, <2>2, <2>5 DEF HistoryInv, SkippedWasInFlight
<1>3. ASSUME NEW w \in Writers, CommitRow(w) \/ RollbackRow(w) PROVE HistoryInv'
  <2>1. /\ inserting[w] # NoId /\ inserting' = [inserting EXCEPT ![w] = NoId]
        /\ committed' \in {committed, committed \cup {inserting[w]}}
        /\ UNCHANGED <<nextId, cursor, base, seen, overtaken>>
    BY <1>3 DEF CommitRow, RollbackRow, readerVars
  <2>2. inserting[w] \in 1..(nextId - 1) /\ inserting[w] \in Nat
    BY <1>0, <2>1 DEF IdsInOrder
  <2>3. IdsInOrder'
    BY <1>0, <2>1, <2>2 DEF IdsInOrder
  <2>4. \A v \in Writers : inserting'[v] \in {NoId, inserting[v]}
    BY <1>0, <2>1 DEF IdsInOrder
  <2>5. \A v \in Writers : cursor # NoId /\ inserting'[v] \in 1..cursor
                            => inserting[v] \in 1..cursor /\ inserting'[v] = inserting[v]
    BY <1>0, <2>4
  <2>6. PassedIsKnown'
    BY <1>0, <2>1, <2>5 DEF PassedIsKnown
  <2>7. cursor # NoId /\ inserting[w] <= cursor => inserting[w] \in overtaken
    BY <1>0, <2>2 DEF PassedIsKnown, IdsInOrder
  <2> QED
    BY <1>0, <2>1, <2>3, <2>6, <2>7 DEF HistoryInv, SkippedWasInFlight
<1>4. CASE FirstPage \/ FollowUpPage
  <2>1. /\ seen' = seen \cup ToSet(page')
        /\ \A w \in Writers : inserting[w] \in 1..cursor' => inserting[w] \in overtaken'
        /\ overtaken \subseteq overtaken'
        /\ UNCHANGED <<nextId, inserting, committed>>
        /\ cursor' \in 0..(nextId - 1) /\ cursor' # NoId
    BY <1>0, <1>4, Received DEF tableVars
  <2>2. IdsInOrder'
    BY <1>0, <2>1 DEF IdsInOrder
  <2>3. \A id \in ToSet(page') : id \in committed /\ id <= cursor'
    BY <1>0, <1>4, First, FollowUp
  <2>4. \A id \in seen : id <= cursor'
    <3>1. CASE FirstPage
      BY <1>0, <3>1 DEF FirstPage, PassedIsKnown
    <3>2. CASE FollowUpPage
      <4>1. cursor \in Nat /\ cursor' \in Nat /\ cursor <= cursor'
        BY <1>0, <3>2, FollowUp DEF IdsInOrder
      <4> QED
        BY <1>0, <4>1 DEF PassedIsKnown
    <3> QED
      BY <1>4, <3>1, <3>2
  <2>5. PassedIsKnown'
    <3>1. committed \subseteq Nat
      BY <1>0 DEF IdsInOrder
    <3> QED
      BY <1>0, <2>1, <2>3, <2>4, <3>1 DEF PassedIsKnown
  <2>6. SkippedWasInFlight'
    <3> SUFFICES ASSUME NEW id \in committed, base' < id, id <= cursor'
                 PROVE  id \in seen' \cup overtaken'
      BY <2>1 DEF SkippedWasInFlight
    <3>1. CASE FirstPage
      BY <1>0, <2>1, <3>1, First
    <3>2. CASE FollowUpPage
      <4>1. cursor \in Nat /\ id \in Nat /\ base' = base /\ cursor # NoId
        BY <1>0, <3>2, FollowUp DEF FollowUpPage, IdsInOrder
      <4>2. CASE id <= cursor
        BY <1>0, <2>1, <4>1, <4>2 DEF SkippedWasInFlight
      <4>3. CASE ~(id <= cursor)
        BY <1>0, <2>1, <3>2, <4>1, <4>3, FollowUp
      <4> QED
        BY <4>2, <4>3
    <3> QED
      BY <1>4, <3>1, <3>2
  <2> QED
    BY <2>2, <2>5, <2>6 DEF HistoryInv
<1> QED
  BY <1>1, <1>2, <1>3, <1>4 DEF HistoryNext

\* The invariant holds of an empty table and in every reachable state.
THEOREM HistoryInvariance == HistorySpec => []HistoryInv
<1>1. HistoryInit => HistoryInv
  BY HistoryAssumption
     DEF HistoryInit, HistoryInv, IdsInOrder, PassedIsKnown, SkippedWasInFlight
<1> QED
  BY <1>1, HistoryStep, PTL DEF HistorySpec

\* Paging through the history loses a visible message only if its transaction was open
\* when the cursor passed it (ListAfter, ListLatest and the cursors of History).
THEOREM NothingSkipped == HistorySpec => []SkippedWasInFlight
<1>1. HistoryInv => SkippedWasInFlight
  BY DEF HistoryInv
<1> QED
  BY <1>1, HistoryInvariance, PTL

\* Follow-up pages repeat nothing, and has_more tells whether there was more.
THEOREM ExactPages == HistorySpec => PagesAreExact
<1>1. HistoryInv /\ FollowUpPage =>
         /\ ToSet(page') \cap seen = {}
         /\ hasMore' <=> \E id \in committed : id > cursor'
  <2> SUFFICES ASSUME HistoryInv, FollowUpPage
               PROVE  /\ ToSet(page') \cap seen = {}
                      /\ hasMore' <=> \E id \in committed : id > cursor'
    OBVIOUS
  <2>1. /\ cursor \in Nat /\ \A id \in ToSet(page') : cursor < id
        /\ hasMore' <=> \E id \in committed : id > cursor'
    BY FollowUp DEF HistoryInv
  <2>2. \A id \in seen : id \in Nat /\ id <= cursor
    BY DEF HistoryInv, PassedIsKnown
  <2>3. ToSet(page') \cap seen = {}
    BY <2>1, <2>2
  <2> QED
    BY <2>1, <2>3
<1> QED
  BY <1>1, HistoryInvariance, PTL DEF PagesAreExact, HistorySpec

=============================================================================

# Formal models of orion-live

orion-live runs live-stream rooms: hosts start and end sessions, viewers chat
over WebSockets, and every message is fanned out in real time and stored.
Several API processes share MySQL, RabbitMQ and Redis. This directory holds TLA+
models of the parts in which concurrency and failure decide whether that works,
TLC configurations that check them on small instances, and TLAPS proofs, for
instances of every size, of every safety property those runs check.

    tlc -config MCRealtime.cfg Realtime   # model-check one run
    tlapm HubProofs.tla                   # check one module of proofs

`PROJECT.json` lists the runs, the source lines behind each definition (`map`),
a mutation of the code for each property (`mutants`), the hazards the
properties are aimed at, the findings and the theorems.

## 1. Inventory

| Component | State | Operations | Interacts with |
|---|---|---|---|
| Room hub (`internal/websocket`) | map session -> room; per room: members, queue, ended, closed; per client: queue, closed | Join, Leave, BroadcastIfPresent, MarkSessionEnded, SendAllowed, Shutdown; the goroutine of each room | called by connection handlers and by the subscriber |
| Realtime subscriber (`internal/realtime`) | one AMQP session with an exclusive queue | Start, handleDelivery, recovery, Shutdown | RabbitMQ, Hub |
| WebSocket handler (`internal/handler/websocket*.go`) | admission counters, draining; three goroutines per connection | admit, Connect, the three pumps, release, Shutdown | Hub, Chat service |
| Chat service and limiter (`internal/service/chat.go`, `internal/admission`) | two token buckets in Redis: one per user, one per room | Accept, Allow | Redis, publisher |
| LiveSession service and repository | `live_sessions` | Create, Start, End, AuthorizeJoin | MySQL, Outbox |
| Outbox relay and repository | `outbox_events`; the claimed batch of each relay | ClaimBatch, process, MarkPublished, ScheduleRetry, MarkFailed, Shutdown | MySQL, publisher |
| Persistence consumer and repository | AMQP session, worker pool; `consumer_inbox`, `chat_messages` | handleDelivery, Persist, ack/reject/dead-letter, recovery, Shutdown | RabbitMQ, MySQL |
| Chat history | none (the cursor is the client's) | History, ListLatest, ListAfter | `chat_messages` |
| RabbitMQ publisher | lanes, each with a confirm-mode channel | Publish, Close | RabbitMQ client |
| RabbitMQ client | connection, ready channel, closed | Connection, supervisor, Close | everything that uses RabbitMQ |
| Migration runner (`migrations`, `cmd/migrate`) | `schema_migrations`, the schema, a named MySQL lock | Up, apply | MySQL; precedes every server of its release |
| Process (`cmd/server`) | what is open, what runs, what was told to stop | start-up, signal, five concurrent shutdowns, deferred closes | all of the above |
| Load tester (`internal/loadtest`, `cmd/chatload`) | collector, connections, worker pools | Run | the system as a client sees it |
| User accounts, health, HTTP layer, configuration, metrics, store clients | see section 8 | | |

What is hard here: critical sections that end before their consequences are
carried out (Hub), state read before a transaction and used after it (sessions,
joins), leases that expire under a slow relay, redelivery while the first
delivery is still being processed, answers that arrive after their call gave up,
ids that become visible in another order than they were taken, script calls
that run twice or after their caller has left, DDL that no transaction can take
back, and shutdowns that meet all of this half-way.

What makes each component correct:

- Hub: no open client is outside the reach of broadcasts and Shutdown, no room
  goroutine leaks, what a room accepted reaches its members without a gap.
- Subscriber: an end of session that reaches the process closes the send gate on
  those who were there.
- Handler: limits are exact, an accepted answer is true, every handler ends.
- Sessions and Outbox: one live session per host, states only advance, an end is
  announced, terminal rows stay as they are.
- Persistence: an acknowledged message is stored, the first write of a message
  wins, nothing is dead-lettered without a reason, everything is settled in the end.
- Limiter: a bucket holds what its rate and its grants say, and no message is
  published that was not granted.
- History: what can be skipped is known, nothing comes twice, has_more is exact, what
  is committed ahead is read.
- Publisher: success means routed, answers are not mixed up, lanes are not lost.
- Client: no waiter is forgotten, no connection is leaked, Close returns.
- Migrations: the record and the schema agree at every moment; every job ends.
- Process: it finds its own files recorded, its shutdown cuts no call it need not cut,
  it exits.
- Load tester: "passed" is true of the system; a run ends and leaves nothing behind,
  but for a session whose start or end request failed.

## 2. Modules

| Module | Models | Composition |
|---|---|---|
| `Hub` | hub, rooms, clients | |
| `Realtime` | subscriber with recovery and Shutdown, AuthorizeJoin before Join | EXTENDS `Hub`; every Hub step stays possible |
| `Outbox` | LiveSession Create/Start/End, Outbox rows, relays of all instances | |
| `ChatLog` | abstract: a write-once log of messages with settled and dead events | |
| `Persistence` | quorum queue, consumers, workers, the Persist transaction | implements `ChatLog` (`ImplementsChatLog`) |
| `History` | writers' transactions and a paging client | |
| `Publisher` | lane pool, AMQP library, exchange | |
| `RabbitClient` | supervisor, Connection, Close | |
| `Connection` | admission, reader, processor, writer, Shutdown | sees the Hub as open/closed clients |
| `ChatAdmission` | Accept of all instances, the script and its two buckets, Redis time | sees the publisher as confirmed, failed or late |
| `Migrations` | migration jobs, their sessions, the schema | |
| `Process` | one server process | EXTENDS `Migrations`: it starts after its release's job |
| `LoadTest` | one Run of the load tester | sees the system as acknowledgements, events and rows |
| `OutboxProofs`, `ConnectionProofs`, `ChatAdmissionProofs`, `LoadTestProofs` | proofs | EXTEND the module they are about |
| `PersistenceProofs` | proofs about `Persistence` and `History` | EXTENDS both, which share no name |
| `RabbitMQProofs` | proofs about `Publisher` and `RabbitClient` | EXTENDS both, which share no name |
| `HubProofs` | proofs about `Hub` and `Realtime` | EXTENDS `Realtime` |
| `ProcessProofs` | proofs about `Migrations` and `Process` | EXTENDS `Process` |
| `MCOutbox`, `MCPersistence`, `MCConnection`, `MCChatAdmission`, `MCProcess` | functions used as constants by the runs | EXTEND their module |

Conventions. A critical section, a MySQL statement, or a stretch of code without
shared state is one action; everything else interleaves. Program counters
(`roomPc`, `workerPc`, `relayPc`, `pc`) name the point a goroutine is at. Variables
commented "history" only record the past for the properties. Where two modules are
extended by one module of proofs, one of them names its specification after itself
(`HistorySpec`, `ClientSpec`). "Faulty variant"
definitions are mutations of the next definition; nothing refers to them.

How state and actions correspond to the code:

- **Hub.** `rooms`, `hubClosed` are the fields under `Hub.mu`. Leave and Shutdown
  collect rooms under the lock and call `requestStop` after it: `stopOwed` holds
  the calls that are still to come, `RequestStop` makes one. The goroutine of a
  room takes a message (`Take`), delivers it and drops slow clients (`Deliver`),
  asks for its own removal (`RemoveIfEmpty`), and on its way out `MarkClosed`,
  `CloseAll`. The writer of a connection is `Write`, a Chat acknowledgement
  competing for the same queue `EnqueueAck`.
- **Realtime.** `link` and `feed` are the subscriber's channel and its exclusive
  queue, lost together. `Observe` is handleDelivery up to MarkSessionEnded,
  `Forward` the rest, `Discard` what is not decoded or supported. `Stop` is the
  goroutine finding its context cancelled by Shutdown. `AuthorizeJoin` and `Join` are two steps of the connection
  handler with the upgrade in between.
- **Outbox.** A row per session (its event id is derived from the session id).
  `ripe` abstracts clock time: `available_at` or `lease_until` has passed. A
  relay claims a batch, publishes record by record and writes the outcome by a
  statement fenced with the claim token (`Fenced`); a fault may lose the answer of
  a claim, lose an update, halt the process or let a lease expire under way.
- **Persistence.** `place`, `holder` and `deliveries` are the broker's view,
  `session`, `buffer` and `workerPc` the consumer's. Persist is split at its
  statements: Inbox insert, message insert, commit; the locks of the two unique
  keys (`LocksInbox`, `LocksKey`) make inserts wait. A commit may succeed while
  its answer is lost. Settlement on a lost channel fails and ends the session.
- **History.** A writer takes an id at `Insert` and shows the row at `CommitRow`.
  `Ascending`, the order MySQL returns rows in, is the one sequence that lists a set of
  ids in order.
- **Publisher.** `frames` is what the broker has answered and the library has not
  read, `returns` is `returnsCh`. A channel is a lane and a generation, so that
  answers to an abandoned channel go nowhere.
- **RabbitClient.** Connections and ready channels are numbered; `readied` holds
  the closed ready channels.
- **Connection.** The handler goroutine is also the reader. `frame` is what the
  processor has in hand, with its answer once it has one. The writer's goroutine
  signals `writerDone` (`WriterEnds`) and only then cancels and closes
  (`WriterCloses`), so the handler and Shutdown may be through before it is.
- **ChatAdmission.** A token is `Cost` parts, so that a tick refills a fraction of
  one; `bucket[b]` is the hash with its expiry. `command[r]` is the call a request
  waits for; a call that was abandoned on its way becomes `stray` and may still
  run. `late` are publications that were given up and may still arrive. `ack[r]` is
  what the sender reads: `Told` is the handler's translation of Accept's errors, in
  which a failed admission and a failed publication are both CHAT_UNAVAILABLE.
- **Migrations.** A job is a client and its MySQL session. `pc` is the statement
  the session was sent; each statement of a file is a step, because each commits.
  When the client dies the session executes what it has, then is `idle` until the
  server ends it. `schema[t]` and `stored[v]` remember which file made a table and
  which checksum was recorded. `broken` (history) holds files executed in part and
  never recorded; a table of such a file is what `SchemaIsSound` and
  `ProcessHasSchema` allow beside the recorded file's own.
- **Process.** `Startup` is the list of steps of `main` that open or start something,
  `open` what is open, `state` what each of the five parts with a Shutdown does. A part
  that was told to stop may go on until it stops or is `left` at the deadline;
  `sending` are the parts inside Publish. `Close` takes the deferred calls in their
  order. `Uses` names what a part works with; what the readiness probes ping is left
  out, since a probe that fails on a closed store says what it should.
- **LoadTest.** `stage` is the variable of that name in Run and the phases between;
  the two pools share `todo`, `busy`, `out`. The tester's view (`acknowledged`, `accepted`,
  `delivered`, ...) is the collector, the truth (`outcome`, `rows`, `acks`, `events`) the
  system, which may answer twice, lose, store twice or reject what it queued.
  `session` is the session as the server has it; a request to start or to end it that
  fails (`unanswered`) may have been carried out or not. A frame the tester does not
  expect sets the collector's first error, with which the reader ends or, when only
  the message it names is unknown, goes on (`ReaderFails`).

## 3. Runs

| Run | Instance | What it shows |
|---|---|---|
| `realtime` | 1 session, 2 clients, 2 room values, queues of 1, 1 Chat or foreign event, 1 announcement | no orphan; a successful Shutdown closed every client; no gap; an unmapped room ends; the gate is shut on every connection but late joiners and those already cut off; an end that was not lost with the queue is observed |
| `outbox` | 2 sessions of one host, one with an invalid payload, 2 requests, 2 relays, batch 2, 2 attempts, 2 faults | one live session per host; terminal rows are final; an end is announced or fails |
| `persistence` | 4 events of one key (a message, its retry, a conflicting and a malformed one), 2 consumers with a worker each, prefetch 2, limit 2, 1 fault | acknowledged means stored; Inbox and table agree; dead-lettering has a cause; refinement of `ChatLog`; everything settles |
| `history` | 2 writers, 5 rows, pages of 2 | only rows in flight are skipped; what is committed ahead of the cursor is read |
| `publisher` | 2 calls, 1 lane, 2 queues, 3 faults | success means routed; answers are one's own; lanes and counts add up; Close is quiet and returns |
| `connection` | 2 requests of one user, of which one sends 3 frames, receive queue of 2, send queue of 1, limits 2 and 1 | answers are true and in order; counts are exact; the handler ends; after Shutdown no connection is served; Shutdown returns |
| `rabbit_client` | 2 callers, 4 connections, 2 failed dials | ready channels are sound; no leaked connection; nobody waits for ever |
| `chat_admission` | 3 messages of 2 users, bursts of 1 and 2, half a token and one token per tick, 4 ticks, 2 faults | buckets are exact while time goes forward; the rate holds even when it does not; published means granted, and only "unavailable" leaves the sender in doubt |
| `process` | the 4 migrations of the repository, 2 jobs of which one has an edited fourth file, 2 deaths; one process | record and schema agree, but for broken-off files; the process finds its own files recorded; shutdown cuts no call; jobs and process end |
| `loadtest` | 3 connections of 2 users, 2 senders, 2 messages, 2 workers, pages of 1, one rejection allowed, 2 faults | "passed" is true; nothing is left but a session whose start or end request failed; the run ends |
| `send_gate` | as `realtime` | a documented statement the code does not meet (section 5) |
| `half_applied` | as `process` | a stored checksum stands over tables of another file (section 5) |

The Hub has no run of its own: its properties are checked in the composition, which
takes every Hub step.

Why the bounds are enough to be interesting. Two clients and two room values let
a room be removed, re-created and met by a late goroutine of the first one;
queues of one are full after one message. Two relays and two faults cover a claim
taken over from a stalled relay that then wakes up. Two consumers and four
events of one key give concurrent duplicates, conflicts and a poison message, and
with a limit of two an event can use up its deliveries; the transactions of two
workers meet in MySQL in the same way whether they belong to one consumer or to two,
and the proofs are for any number of both. One lane for two calls is what mixes
answers up; more lanes only add independent copies. Two requests of
one user meet the limit per user. The limit of the instance, a check of its own with
an error of its own, is not reached in that run: `AdmissionExact` is proved for every
pair of limits. A send queue of one is full after one answer. Three messages on bursts of one and two exhaust
the user's bucket and the room's separately, and four ticks are enough for a key
to expire and for a refill by half tokens. The fourth migration creates two tables,
so a job can die between them; two deaths let a session outlive its client while
the next job does the same. Three connections of two users fill one pool of two
workers and leave an index over. Four connections are one more than needed for a recovery during
a recovery. Unbounded counters are bounded by named constants (`MaxBroadcasts`,
`MaxChat`, `MaxAnnouncements`, `MaxFaults`, `MaxId`, `MaxDials`, `MaxFailures`,
`MaxFrames`, `MaxTime`). The attempts of a row need no constant of their own: after
`MaxAttempts` a live relay fails the row, and only a claim that came to
nothing by a fault adds one beyond that. The systems may stop (all requests
done, all bounds used up), so deadlock is not an error in any run; the liveness
properties say where stopping would be one.

## 4. Fairness

- `Realtime` (with the Hub in it), `Connection`, `RabbitClient`, `Publisher`: goroutines that can
  run do run (weak fairness of room goroutines, pumps, supervisor, pending
  `requestStop` calls, the subscriber). Calls end by their deadlines, dials by
  their timeout. Peers, callers, requests and the broker owe nothing.
- `Outbox`: relays poll for ever and a halted one is restarted with its process;
  clocks advance. `EndedIsAnnounced` allows FAILED.
- `Persistence`: workers and sessions run; the broker delivers what is ready to a
  consumer with room in its window. Faults are finite.
- `History`: the client repeats its request.
- `Process`: the shutdown's deadline passes, its own steps are taken, and a
  publication ends by its timeout; nothing says that a part comes to rest. A migration
  job's session goes on or is ended by the server, and a job that failed is run again
  (`backoffLimit` in `deploy/k8s/migration/job.yaml`, or the next deployment). The
  model sets no limit to the reruns, where `job.yaml` allows three within 300 seconds:
  `EveryJobEnds` is about the deployments together, not about one Job.
- `LoadTest`: the tester's goroutines run, requests and waits end by their timeouts;
  strong fairness of "CountHistory stops" stands for HistoryTimeout. The system owes
  nothing.
- `ChatAdmission` has only safety properties and assumes no fairness.

## 5. Findings

`send_gate`. `docs/orion-reliability.md` says "An API rejects new frames after
observing `ENDED`": the observation lives in the room. A join authorized before the
end and carried out after the event finds no room (or an emptied one), creates a
fresh one with the gate open, and nothing closes it. The gate is asked by session, so
that room lets through the late joiner and also a client that was cut off from the old
room and whose processor has not stopped. `GateClosedOnMembers`, proved, says that
nobody else passes.

`half_applied`. `migrations/migrate.go` refuses a file that "was modified after being
applied": it takes a stored checksum for an applied file. A file that breaks off after
its first table leaves the table and no row. When another version of that file runs
next, IF NOT EXISTS passes over the table and the new checksum is recorded over it, and
a server of that release starts on a table its file did not make. `SchemaIsSound` and
`ProcessHasSchema`, proved, say that this is the only way in which record and schema
can differ.

Other limits that a reader of the code should know of, stated by the properties:

- `ShutdownIsQuiet`: a handler's Shutdown that succeeded leaves no connection served
  and no processor that could publish. It does not wait for the tail of a writer's
  goroutine, nor for a request that is still in AuthorizeJoin and so in MySQL: that
  one is the HTTP server's to wait for (`CallsAreNotCut`).
- `PublishedWasGranted`: a sender told CHAT_UNAVAILABLE cannot know whether its
  message was published; INVALID_MESSAGE and CHAT_RATE_LIMITED are definite.
- `NothingIsLeft`: the load tester leaves a session LIVE when the start request was
  carried out and its answer lost, or when the request that ends it fails.
- `EndedIsAnnounced` allows FAILED, also when crashes used up the attempts;
  `DeadForCause` allows a good event whose deliveries were used up by cancellations.

And two for the reader of `docs/orion-reliability.md`: refreshes from a history cursor
never see a row whose smaller id was committed later (`SkippedWasInFlight` says that only such rows are lost), and mandatory
routing is satisfied by a realtime queue alone, so a confirmation does not say that
the persistence queue has the event (`ConfirmedWasRouted` is what the publisher
guarantees; the topology is declared at start-up only).

## 6. Proofs

Everything below holds for all values of the constants that satisfy the named
assumptions (`HubAssumption`, ...: capacities and limits positive, null values
distinct, which the configuration code and the constructors enforce). Of the
migration files `FilesAssumption` says what the repository's satisfy: a table is
created by one version, and a foreign key refers to a table created before it.

- **HubProofs.** `NoOrphanClient` is not inductive: a removal decided earlier
  could hit a room with members. `IndInv` adds that fresh rooms are untouched, that
  members are exactly the joined clients and of one room each, that only Shutdown
  unmaps a room with members, that the handler and its client agree, and that a
  closed hub maps nothing. Theorems: `TypeCorrect`, `MappedRoomsServed`,
  `NoOrphans`, `NoLeaks`, `ShutdownCloses`. `NoGap` needs a second invariant on top
  of it, `MessagesInOrder`: a client that joins starts from what the room holds, so
  that has to be an end of what the room accepted also while the room is empty. It
  rests on lemmas about concatenation and ends of sequences that say how the two
  change when a message is queued, taken in hand, delivered. Theorem: `NothingMissed`.
  About `Realtime`: `RealtimeTypeCorrect`; `ImplementsHub`, each step of the
  composition is a Hub step or leaves the Hub alone, so the Hub's invariant carries
  over; `GateCloses`, which needs `GateInv`, a statement about rooms: a room with an
  open gate for an observed session has late joiners only. That every other connection
  of the session is closed follows with `IndInv`, by which an open client is a member.
- **OutboxProofs.** The fence works because a token is the number of a claim:
  `IndInv` says that the token of a claimed row is its last claim, that relays
  remember only claims that were made, and each a different one, and that what a
  relay is about to write is justified by what it saw. Theorems: `TypeCorrect`,
  `OneLive`, `Fencing`, `PublishedSafe`, `FailedSafe`, `TerminalFinal`.
- **PersistenceProofs.** Two invariants. `DurableInv`: while a transaction has
  inserted a key nobody else has and nothing is committed for it, and what a worker
  concluded stays true until it acts. `HeldInv`: what is buffered or in hand on an
  open channel is unacknowledged at the broker and held by that consumer. Theorems:
  `TypeCorrect`, `AckedDurable`, `InboxMatches`, `DeadHasCause`, `TaskHeld`,
  `FirstWrite` and `Refinement`, the implementation of `ChatLog` with the mapping
  accepted = sent events, log = committed rows, settled = acknowledged, dead =
  dead-lettered.
  About `History`: a page is cut out of the sorted ids, so first of all a finite set
  of ids has such a sequence (`Sorted`). No induction is needed for that: the number of
  ids up to an id is one-to-one into `1..n`, hence onto, and its inverse is the
  sequence. A part of it leaves out no id between its first and its last (`Slice`).
  From that `FollowUp` and `First` say what each query returns: a follow-up page is
  exactly the rows behind the old cursor up to the new one. `SkippedWasInFlight` then
  needs that no id is visible before it is taken (`IdsInOrder`), and that an open
  transaction whose id the cursor has passed was noted when it passed
  (`PassedIsKnown`). Theorems: `HistoryInvariance`, `NothingSkipped`, `ExactPages`.
- **RabbitMQProofs.** About `Publisher`: that a call reports only its own answer is a statement about
  everything an earlier call may have left on the lane. `IndInv` follows an answer on
  its way: a message in flight on a channel that is still there belongs to the call
  that waits, and nothing of its answer has come (`FlightInv`); what the library has
  not read is the answer to that call, or a confirmation whose return an earlier call
  read (`FramesInv`); a return in `returnsCh` is for the call that holds the lane
  (`ReturnsInv`); an `ack` means routed unless the return stands before it
  (`ConfInv`). Most steps leave all of this alone; `QuietKeeps` says so once for them. Theorems: `TypeCorrect`,
  `OnlyRoutedSucceeds`, `AnswersNotMixed`, `NoLaneLost`, `CloseLeavesQuiet`.
  About `RabbitClient`: `ClientInv` places the connection: the client has the one its
  supervisor watches, at most that one is open, none while it dials, and Close finds
  it. Theorems: `ClientTypeCorrect`, `ReadyChannels`, `NoLeaks`.
- **ConnectionProofs.** The steps of one connection do not touch another
  (`OthersSame`), so the invariant is one of each connection and one of the shared
  counters. `Lifecycle` says when pumps can run and that a handler which left has
  waited for their signals; `InOrder` numbers the frames: those answered, the one in hand, and
  the queued ones follow one another without a gap. Theorems: `LimitsHold`,
  `ShutdownWaits`, `AnswersInOrder`.
- **ProcessProofs.** `SchemaIsSound` is about what several sessions do in turn, some of
  them without a client. `MigrationsInv` says that a session between GET_LOCK and its
  end has the lock, that versions it passed are recorded with its own checksums, that
  statements behind it had their effect, that a table of a version not recorded comes
  from the session with the lock or from a file that was broken off, and that no table
  is ahead of the record. `ServerInv` says what is open in each phase and that a
  publication holds the connection. Theorems: `TypeCorrect`, `SchemaSound`,
  `HasSchema`, `NoCallCut`.
- **ChatAdmissionProofs.** `RateBound` speaks of past grants only; what has to be kept
  up is the account of each bucket, `Covered`: what was granted since any grant, with
  what is left in the hash and what has come in since it was written, is at most the
  capacity and what the time since then brings. A bucket that Redis forgot has no hash
  and counts as full, so there the time alone must cover it; it does because a `Ttl`
  is long enough to fill the bucket (`BucketFacts`), and time that a step back hides
  from Redis has still passed (`Clock`). `Tight` is the other direction, kept while
  time goes forward: a stored level is the capacity or is what some grant and all that
  came after it leave of it. `GrantsCover` counts: the requests of a user that were
  answered with a grant are no more than the grants the user's bucket paid for, since a
  command that runs twice, or unseen, only adds grants. `RequestInOrder` says that only
  such a request publishes. Theorems: `TypeCorrect`, `RateHolds`, `LevelExact`,
  `FailsClosed`.
- **LoadTestProofs.** The verdict compares sums: deliveries counted against accepted
  messages times connections. `Collected` says what the collector's sets and duplicate
  counters know of the frames that came. `Phases` says what the stage Run is at has
  established: once delivery was complete every message is answered and every accepted
  one is everywhere (`AllSeen`), and after a run that did not fail they are in the rows
  it counted. `ReportSound` turns the sums back into facts about each message: the
  deliveries contain the product of accepted messages and clients, and with the same
  number of elements they are that product, so no other message was delivered.
  `PassedIsSound` is kept after the verdict because it is only given when every reader has
  ended; `Quiet` says who may still run and which connections are open in each stage.
  Theorems: `TypeCorrect`, `PassedSound`, `LeavesNothing`.

Proved and in no run, because something the runs check is stronger or closer to
the hazard: the type invariants, `MappedRoomIsServed`, `NoLeakedRoom`, `OneOwner`,
`PublishedWasConfirmed`, `FailedWasExhausted`, `TaskIsHeld`, `FirstWriteWins`. So is
`PagesAreExact`, the other half of what a client relies on beside `SkippedWasInFlight`:
no follow-up page repeats a message, and has_more is exact.

Model-checked only: the liveness properties (`UnmappedRoomsEnd`, `EndIsObserved`,
`EndedIsAnnounced`, `EventuallySettled`, `CommittedIsRead`, `CloseReturns`, `HandlerEnds`,
`ShutdownDrains`, `NobodyWaitsForever`, `EveryJobEnds`, `ProcessExits`, `RunEnds`).
Fairness and ENABLED are outside the prover's reach.

## 7. Abstractions

Payloads, ids and texts are model values or numbers; a payload decodes or does
not. Metrics and logs are left out. MySQL statements are atomic and its locks
are those the two unique keys take; RabbitMQ's quorum queue, delivery limit and
dead-lettering, its confirms and returns, and the channel semantics of the AMQP
library are external and modelled from how the code relies on them. Delayed retry
is a requeue: when it comes back is left open. A Hub broadcast handed to a closed
or missing room is dropped, as the subscriber does with every error it gets.

Redis is one server whose script is atomic; its clock ticks, or steps back as a
fault. Tokens are exact fractions, where Redis uses floating point. A migration's
statements are its CREATE TABLEs with their foreign keys; the columns are the
identity of the file. In `Process` all parts are told to stop in one step, as the
five goroutines are started without waiting, and the deadline may pass for a part
at any time after that. In `LoadTest` the pace of sending and all latencies are left
out, an acknowledgement of a known message with a status the tester does not know is
not told apart from other unexpected frames, and a stage that may be cancelled or time
out may do so at any moment.

## 8. Not modelled

User accounts and JWT (one check-then-insert that a unique key decides, hashing,
signing); HTTP translation and the router (stateless); readiness probes (they read
flags of modelled components and ping stores); parsing of the configuration, whose
validated bounds are the modules' assumptions; metrics and logging; the opening of
store clients; the load tester's statistics and report layout. `PROJECT.json`
gives the reason for each.

## 9. Plan

Done, in this order: Hub and its proofs; Outbox and its proofs; Persistence,
ChatLog and the refinement; Realtime on top of Hub; History; Publisher;
Connection; RabbitClient; ChatAdmission; Migrations with Process on top of it;
LoadTest; creation of sessions, foreign events and Shutdown in Outbox and Realtime.

Proved after that: `SchemaIsSound`, `ProcessHasSchema` and `CallsAreNotCut`; all
invariants of Publisher and of Connection; `NoGap`; all invariants of ChatAdmission;
those of LoadTest; `SkippedWasInFlight` and `PagesAreExact` of History. With these
every invariant and action property of a passing run is a theorem.

Left for modelling: Connection, Publisher and Persistence in one composition, with
an abstract specification of acceptance above it. The retry of a message id whose
sender was told "rejected" is today split between ChatAdmission (it may have been
published) and Persistence (the second copy is settled and stores nothing new).

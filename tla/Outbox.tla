------------------------------- MODULE Outbox -------------------------------
(***************************************************************************)
(* Live session transitions and the transactional Outbox that announces    *)
(* live_session.ended: the LiveSession service and repository, the Outbox  *)
(* repository and the relays of all API instances that compete for its     *)
(* rows.                                                                   *)
(*                                                                         *)
(* A MySQL statement or transaction is one action; everything a caller     *)
(* does between two of them is interleaved.  A live session has at most    *)
(* one Outbox row (the event id is derived from the session id), so rows   *)
(* are indexed by session.  Clock time is abstracted to `ripe`: the row's  *)
(* available_at (PENDING) or lease_until (CLAIMED) has passed.             *)
(***************************************************************************)
EXTENDS Integers, FiniteSets

CONSTANTS
    Sessions,     \* live session ids
    Host,         \* Host[s]: host_user_id of session s
    Requests,     \* concurrent HTTP requests to start or end a session
    Relays,       \* Outbox relays, one per API instance
    Invalid,      \* sessions whose row holds a payload that does not validate
    BatchSize,    \* OUTBOX_BATCH_SIZE
    MaxAttempts,  \* OUTBOX_MAX_ATTEMPTS
    MaxFaults     \* bound: halts, failed updates, lost claims and early lease expiries

ASSUME OutboxAssumption ==
    /\ Invalid \subseteq Sessions
    /\ BatchSize \in Nat \ {0}
    /\ MaxAttempts \in Nat \ {0}
    /\ MaxFaults \in Nat

VARIABLES
    status,     \* live_sessions.status, NONE before the session is created
    request,    \* what a request still has to do after its first read
    rowStatus,  \* outbox_events.status, ABSENT when there is no row
    rowToken,   \* outbox_events.claim_token, 0 for NULL
    attempts,   \* outbox_events.attempt_count
    ripe,       \* available_at or lease_until has passed
    relayPc,    \* where the goroutine of a relay is
    batch,      \* claimed records a relay has not processed yet
    current,    \* the record it is processing: a set of at most one
    broker,     \* sessions whose live_session.ended the exchange has taken
    faults      \* faults injected so far

sessionVars == <<status, request>>
rowVars     == <<rowStatus, rowToken, attempts, ripe>>
relayVars   == <<relayPc, batch, current>>
vars        == <<sessionVars, rowVars, relayVars, broker, faults>>

\* What a relay remembers of a row it claimed (model.OutboxEvent).
Claim == [event : Sessions, token : Nat, attempt : Nat]

Ops == {"start", "end"}
Idle == <<"idle">>

Init ==
    /\ status = [s \in Sessions |-> "NONE"]
    /\ request = [q \in Requests |-> Idle]
    /\ rowStatus = [s \in Sessions |-> "ABSENT"]
    /\ rowToken = [s \in Sessions |-> 0]
    /\ attempts = [s \in Sessions |-> 0]
    /\ ripe = [s \in Sessions |-> FALSE]
    /\ relayPc = [r \in Relays |-> "idle"]
    /\ batch = [r \in Relays |-> {}]
    /\ current = [r \in Relays |-> {}]
    /\ broker = {}
    /\ faults = 0

(***************************************************************************)
(* Sessions.  The service reads the session, checks the host and the       *)
(* status, and only then issues the conditional update; another request    *)
(* may change the session in between.                                      *)
(***************************************************************************)

\* Create: a request with a valid title and cover inserts a row.
Create(s) ==
    /\ status[s] = "NONE"
    /\ status' = [status EXCEPT ![s] = "SCHEDULED"]
    /\ UNCHANGED <<request, rowVars, relayVars, broker, faults>>

\* Get and the status check of Start and End.
Required(op) == IF op = "start" THEN "SCHEDULED" ELSE "LIVE"

ReadSession(q, op, s) ==
    /\ request[q] = Idle
    /\ status[s] = Required(op)
    /\ request' = [request EXCEPT ![q] = <<op, s>>]
    /\ UNCHANGED <<status, rowVars, relayVars, broker, faults>>

\* uk_live_sessions_active_host: a host has at most one LIVE session.
HostIsLive(s) == \E t \in Sessions : t # s /\ Host[t] = Host[s] /\ status[t] = "LIVE"

\* Faulty variant: no unique key on the active host.
StartableAnyHost(s) == status[s] = "SCHEDULED"

\* The WHERE clause of repository.Start, and the unique key.
Startable(s) == status[s] = "SCHEDULED" /\ ~HostIsLive(s)

\* repository.Start: one conditional UPDATE; no row or a duplicate key leaves
\* the session alone and the request fails.
Start(q, s) ==
    /\ request[q] = <<"start", s>>
    /\ request' = [request EXCEPT ![q] = Idle]
    /\ status' = IF Startable(s) THEN [status EXCEPT ![s] = "LIVE"] ELSE status
    /\ UNCHANGED <<rowVars, relayVars, broker, faults>>

\* The WHERE clause of the UPDATE in repository.End.
Endable(s) == status[s] = "LIVE"

\* repository.End: the transaction moves LIVE to ENDED and inserts the PENDING
\* row, available at once, or does nothing.
End(q, s) ==
    /\ request[q] = <<"end", s>>
    /\ request' = [request EXCEPT ![q] = Idle]
    /\ IF Endable(s)
         THEN /\ status' = [status EXCEPT ![s] = "ENDED"]
              /\ rowStatus' = [rowStatus EXCEPT ![s] = "PENDING"]
              /\ ripe' = [ripe EXCEPT ![s] = TRUE]
         ELSE UNCHANGED <<status, rowStatus, ripe>>
    /\ UNCHANGED <<rowToken, attempts, relayVars, broker, faults>>

\* The request is cancelled between the read and the update.
Abandon(q) ==
    /\ request[q] # Idle
    /\ request' = [request EXCEPT ![q] = Idle]
    /\ UNCHANGED <<status, rowVars, relayVars, broker, faults>>

(***************************************************************************)
(* Time.  config.Outbox.validate makes a lease outlast a whole batch, so a *)
(* lease that expires while its relay still works on the row means that    *)
(* the relay was delayed: it counts as a fault.                            *)
(***************************************************************************)
Works(r, s) == \E k \in batch[r] \cup current[r] :
                  k.event = s /\ k.token = rowToken[s]

TimePasses(s) ==
    /\ rowStatus[s] \in {"PENDING", "CLAIMED"}
    /\ ~ripe[s]
    /\ ripe' = [ripe EXCEPT ![s] = TRUE]
    /\ IF \E r \in Relays : Works(r, s)
         THEN faults < MaxFaults /\ faults' = faults + 1
         ELSE faults' = faults
    /\ UNCHANGED <<sessionVars, rowStatus, rowToken, attempts,
                   relayVars, broker>>

(***************************************************************************)
(* Relays.                                                                 *)
(***************************************************************************)

\* Faulty variant: rows of expired claims are not taken over.
ClaimablePendingOnly == {s \in Sessions : rowStatus[s] = "PENDING" /\ ripe[s]}

\* The WHERE clause of ClaimBatch.
Claimable == {s \in Sessions : rowStatus[s] \in {"PENDING", "CLAIMED"} /\ ripe[s]}

\* At most limit rows; SKIP LOCKED makes which of the claimable ones unknown.
Batches == {S \in SUBSET Claimable : S # {} /\ Cardinality(S) <= BatchSize}

\* NewClaimToken never returns a token twice.  Only tokens of one row are ever
\* compared, so a token is the number of the claim it was drawn for.
NewClaimToken(s) == attempts[s] + 1

\* The ClaimBatch transaction on the rows S.
ClaimRows(S) ==
    /\ rowStatus' = [s \in Sessions |-> IF s \in S THEN "CLAIMED" ELSE rowStatus[s]]
    /\ rowToken' = [s \in Sessions |-> IF s \in S THEN NewClaimToken(s) ELSE rowToken[s]]
    /\ attempts' = [s \in Sessions |-> IF s \in S THEN attempts[s] + 1 ELSE attempts[s]]
    /\ ripe' = [s \in Sessions |-> IF s \in S THEN FALSE ELSE ripe[s]]

\* The records that transaction returns.
Claims(S) ==
    {[event |-> s, token |-> NewClaimToken(s), attempt |-> attempts[s] + 1] : s \in S}

\* processBatch claims and keeps the records.
ClaimBatch(r) ==
    /\ relayPc[r] = "idle"
    /\ \E S \in Batches :
         /\ ClaimRows(S)
         /\ batch' = [batch EXCEPT ![r] = Claims(S)]
    /\ relayPc' = [relayPc EXCEPT ![r] = "batch"]
    /\ UNCHANGED <<sessionVars, current, broker, faults>>

\* The claim commits but its answer is lost: the relay gets an error and waits
\* for the next tick, the rows stay CLAIMED until their lease expires.
ClaimAnswerLost(r) ==
    /\ relayPc[r] = "idle"
    /\ faults < MaxFaults
    /\ faults' = faults + 1
    /\ \E S \in Batches : ClaimRows(S)
    /\ UNCHANGED <<sessionVars, relayVars, broker>>

\* processBatch turns to the next record, or is done with the batch.
NextRecord(r) ==
    /\ relayPc[r] = "batch"
    /\ IF batch[r] = {}
         THEN /\ relayPc' = [relayPc EXCEPT ![r] = "idle"]
              /\ UNCHANGED <<batch, current>>
         ELSE \E k \in batch[r] :
              /\ batch' = [batch EXCEPT ![r] = @ \ {k}]
              /\ current' = [current EXCEPT ![r] = {k}]
              /\ relayPc' = [relayPc EXCEPT ![r] = "process"]
    /\ UNCHANGED <<sessionVars, rowVars, broker, faults>>

\* process: an invalid payload is not published, it goes straight to markFailed.
RejectPayload(r) ==
    /\ relayPc[r] = "process"
    /\ \E k \in current[r] : k.event \in Invalid
    /\ relayPc' = [relayPc EXCEPT ![r] = "fail"]
    /\ UNCHANGED <<sessionVars, rowVars, batch, current, broker, faults>>

\* The publisher returned nil: the broker confirmed the event.
PublishConfirmed(r) ==
    /\ relayPc[r] = "process"
    /\ \E k \in current[r] :
         /\ k.event \notin Invalid
         /\ broker' = broker \cup {k.event}
    /\ relayPc' = [relayPc EXCEPT ![r] = "published"]
    /\ UNCHANGED <<sessionVars, rowVars, batch, current, faults>>

\* The publisher returned an error; the event may have reached the exchange
\* all the same (timeout before the confirm).  The last attempt fails the row.
Exhausted(k) == k.attempt >= MaxAttempts

PublishFailed(r) ==
    /\ relayPc[r] = "process"
    /\ \E k \in current[r] :
         /\ k.event \notin Invalid
         /\ broker' \in {broker, broker \cup {k.event}}
         /\ relayPc' = [relayPc EXCEPT ![r] = IF Exhausted(k) THEN "fail" ELSE "retry"]
    /\ UNCHANGED <<sessionVars, rowVars, batch, current, faults>>

\* Faulty variant: an update by event id alone.
FencedByEventId(k) == rowStatus[k.event] # "ABSENT"

\* The fence shared by MarkPublished, ScheduleRetry and MarkFailed.
Fenced(k) == rowStatus[k.event] = "CLAIMED" /\ rowToken[k.event] = k.token

\* The update each relay step ends with: the new status of the row.
Outcome(r) == CASE relayPc[r] = "published" -> "PUBLISHED"
                [] relayPc[r] = "retry" -> "PENDING"
                [] relayPc[r] = "fail" -> "FAILED"

Updating(r) == relayPc[r] \in {"published", "retry", "fail"}

\* MarkPublished, ScheduleRetry or MarkFailed takes effect if the fence holds;
\* it clears the claim.  ScheduleRetry moves available_at into the future.
UpdateRow(r) ==
    /\ Updating(r)
    /\ \E k \in current[r] :
         IF Fenced(k)
           THEN /\ rowStatus' = [rowStatus EXCEPT ![k.event] = Outcome(r)]
                /\ rowToken' = [rowToken EXCEPT ![k.event] = 0]
                /\ ripe' = [ripe EXCEPT ![k.event] = FALSE]
           ELSE UNCHANGED <<rowStatus, rowToken, ripe>>
    /\ current' = [current EXCEPT ![r] = {}]
    /\ relayPc' = [relayPc EXCEPT ![r] = "batch"]
    /\ UNCHANGED <<sessionVars, attempts, batch, broker, faults>>

\* The update fails: recordUpdate logs it and the relay goes on.
UpdateLost(r) ==
    /\ Updating(r)
    /\ faults < MaxFaults
    /\ faults' = faults + 1
    /\ current' = [current EXCEPT ![r] = {}]
    /\ relayPc' = [relayPc EXCEPT ![r] = "batch"]
    /\ UNCHANGED <<sessionVars, rowVars, batch, broker>>

\* Shutdown cancels the relay, or its process dies: whatever it holds is
\* forgotten and, its context being cancelled, no update follows.
Halt(r) ==
    /\ relayPc[r] # "halted"
    /\ faults < MaxFaults
    /\ faults' = faults + 1
    /\ relayPc' = [relayPc EXCEPT ![r] = "halted"]
    /\ batch' = [batch EXCEPT ![r] = {}]
    /\ current' = [current EXCEPT ![r] = {}]
    /\ UNCHANGED <<sessionVars, rowVars, broker>>

\* StartRelay in the next process of this API instance.
StartRelay(r) ==
    /\ relayPc[r] = "halted"
    /\ relayPc' = [relayPc EXCEPT ![r] = "idle"]
    /\ UNCHANGED <<sessionVars, rowVars, batch, current, broker, faults>>

RelayStep(r) ==
    \/ ClaimBatch(r) \/ NextRecord(r) \/ RejectPayload(r) \/ PublishConfirmed(r)
    \/ PublishFailed(r) \/ UpdateRow(r) \/ StartRelay(r)

Next ==
    \/ \E q \in Requests, s \in Sessions :
          \/ \E op \in Ops : ReadSession(q, op, s)
          \/ Start(q, s) \/ End(q, s)
    \/ \E q \in Requests : Abandon(q)
    \/ \E s \in Sessions : Create(s) \/ TimePasses(s)
    \/ \E r \in Relays : RelayStep(r) \/ ClaimAnswerLost(r) \/ UpdateLost(r) \/ Halt(r)

Spec == Init /\ [][Next]_vars

\* Relays poll and process without end and are restarted with their process;
\* clocks advance.  Nothing is assumed of requests, brokers or faults.
FairSpec ==
    /\ Spec
    /\ \A r \in Relays : WF_vars(RelayStep(r))
    /\ \A s \in Sessions : WF_vars(TimePasses(s))

(***************************************************************************)
(* Properties.                                                             *)
(***************************************************************************)

\* Every variable keeps its type.
TypeOK ==
    /\ status \in [Sessions -> {"NONE", "SCHEDULED", "LIVE", "ENDED"}]
    /\ request \in [Requests -> {Idle} \cup (Ops \X Sessions)]
    /\ rowStatus \in [Sessions -> {"ABSENT", "PENDING", "CLAIMED", "PUBLISHED", "FAILED"}]
    /\ rowToken \in [Sessions -> Nat]
    /\ attempts \in [Sessions -> Nat]
    /\ ripe \in [Sessions -> BOOLEAN]
    /\ relayPc \in [Relays -> {"idle", "batch", "process", "published", "retry",
                               "fail", "halted"}]
    /\ batch \in [Relays -> SUBSET Claim]
    /\ current \in [Relays -> SUBSET Claim]
    /\ broker \in SUBSET Sessions
    /\ faults \in 0..MaxFaults

\* A host never has two LIVE sessions, however many Start requests passed the
\* status check before one of them updated its row.
OneLivePerHost ==
    \A s, t \in Sessions :
        status[s] = "LIVE" /\ status[t] = "LIVE" /\ Host[s] = Host[t] => s = t

\* Two relays never hold the current claim of a row: the token a relay carries
\* is current for at most one relay, so at most one update can pass the fence.
OneOwner ==
    \A s \in Sessions : rowStatus[s] = "CLAIMED" =>
        \A q, r \in Relays : Works(q, s) /\ Works(r, s) => q = r

\* A relay marks a row PUBLISHED only after the broker confirmed its event, and
\* a row exists only for a session that ended: no End is announced before it
\* committed and none is recorded as announced that was not.
PublishedWasConfirmed ==
    /\ \A s \in Sessions : rowStatus[s] = "PUBLISHED" => s \in broker
    /\ \A s \in broker : status[s] = "ENDED"

\* A row fails only when its payload is invalid or its last permitted attempt
\* is used up; a relay that lost its lease cannot fail a row on stale counts.
FailedWasExhausted ==
    \A s \in Sessions : rowStatus[s] = "FAILED" =>
        s \in Invalid \/ attempts[s] >= MaxAttempts

\* PUBLISHED and FAILED are final: no late update of a relay whose lease
\* expired reopens a row or changes how it ended.
TerminalIsFinal ==
    [][\A s \in Sessions : rowStatus[s] \in {"PUBLISHED", "FAILED"} =>
        rowStatus'[s] = rowStatus[s] /\ attempts'[s] = attempts[s]]_vars

\* Every ended session is announced or its row is FAILED for an operator to see,
\* through relay crashes, lost answers and expired leases.
EndedIsAnnounced ==
    \A s \in Sessions : status[s] = "ENDED" ~> rowStatus[s] \in {"PUBLISHED", "FAILED"}
=============================================================================

---------------------------- MODULE OutboxProofs ----------------------------
(***************************************************************************)
(* Proofs about Outbox for every number of sessions, requests and relays   *)
(* and every value of the limits.                                          *)
(***************************************************************************)
EXTENDS Outbox, TLAPS

Held(r) == batch[r] \cup current[r]

\* A row exists exactly for the sessions that ended, and only those of ended
\* sessions are ever published.
RowsOfEnded ==
    /\ \A s \in Sessions : rowStatus[s] # "ABSENT" => status[s] = "ENDED"
    /\ \A s \in broker : status[s] = "ENDED"

\* The token of a claimed row is the number of its last claim.
TokenIsLastClaim ==
    \A s \in Sessions : rowStatus[s] = "CLAIMED" => rowToken[s] = attempts[s]

\* What a relay remembers of a row is what some claim of it wrote.
HeldIsAClaim ==
    \A r \in Relays : \A k \in Held(r) :
        /\ k.token <= attempts[k.event]
        /\ k.attempt = k.token
        /\ status[k.event] = "ENDED"

\* No two relays remember the same claim.
ClaimsAreDisjoint ==
    \A q, r \in Relays : \A k \in Held(q), l \in Held(r) :
        k.event = l.event /\ k.token = l.token => q = r

\* What a relay is about to write is justified by what it saw.
UpdateIsJustified ==
    \A r \in Relays : \A k \in current[r] :
        /\ relayPc[r] = "published" => k.event \in broker
        /\ relayPc[r] = "fail" => k.event \in Invalid \/ k.attempt >= MaxAttempts

\* A relay processes one record at a time.
OneAtATime == \A r \in Relays : \A k, l \in current[r] : k = l

IndInv ==
    /\ TypeOK
    /\ OneAtATime
    /\ RowsOfEnded
    /\ TokenIsLastClaim
    /\ HeldIsAClaim
    /\ ClaimsAreDisjoint
    /\ UpdateIsJustified
    /\ PublishedWasConfirmed
    /\ FailedWasExhausted

-----------------------------------------------------------------------------

\* The statement that claims rows keeps the types of the columns it writes.
LEMMA ClaimRowsType ==
    ASSUME TypeOK, NEW S, ClaimRows(S)
    PROVE  /\ rowStatus' \in [Sessions -> {"ABSENT", "PENDING", "CLAIMED", "PUBLISHED", "FAILED"}]
           /\ rowToken' \in [Sessions -> Nat]
           /\ attempts' \in [Sessions -> Nat]
           /\ ripe' \in [Sessions -> BOOLEAN]
<1>1. rowStatus' \in [Sessions -> {"ABSENT", "PENDING", "CLAIMED", "PUBLISHED", "FAILED"}]
  BY DEF TypeOK, ClaimRows
<1>2. rowToken' \in [Sessions -> Nat] /\ attempts' \in [Sessions -> Nat]
  BY DEF TypeOK, ClaimRows, NewClaimToken
<1>3. ripe' \in [Sessions -> BOOLEAN]
  BY Zenon DEF TypeOK, ClaimRows
<1> QED
  BY <1>1, <1>2, <1>3

\* Every step of the relays, requests and clocks keeps the types.
LEMMA TypeStep == TypeOK /\ [Next]_vars => TypeOK'
<1> SUFFICES ASSUME TypeOK, [Next]_vars PROVE TypeOK'
  OBVIOUS
<1> USE OutboxAssumption DEF TypeOK
<1>1. CASE UNCHANGED vars
  BY <1>1 DEF vars, sessionVars, rowVars, relayVars
<1>2. ASSUME NEW q \in Requests, NEW s \in Sessions, NEW op \in Ops,
             ReadSession(q, op, s)
      PROVE  TypeOK'
  BY <1>2 DEF ReadSession, rowVars, relayVars
<1>3. ASSUME NEW q \in Requests, NEW s \in Sessions, Start(q, s)
      PROVE  TypeOK'
  BY <1>3 DEF Start, Startable, rowVars, relayVars
<1>4. ASSUME NEW q \in Requests, NEW s \in Sessions, End(q, s)
      PROVE  TypeOK'
  BY <1>4 DEF End, Endable, relayVars
<1>5. ASSUME NEW q \in Requests, Abandon(q)
      PROVE  TypeOK'
  BY <1>5 DEF Abandon, rowVars, relayVars
<1>c. ASSUME NEW s \in Sessions, Create(s)
      PROVE  TypeOK'
  BY <1>c DEF Create, rowVars, relayVars
<1>6. ASSUME NEW s \in Sessions, TimePasses(s)
      PROVE  TypeOK'
  BY <1>6 DEF TimePasses, sessionVars, relayVars
<1>7. ASSUME NEW r \in Relays, ClaimBatch(r)
      PROVE  TypeOK'
  <2>1. PICK S \in Batches :
          ClaimRows(S) /\ batch' = [batch EXCEPT ![r] = Claims(S)]
    BY <1>7 DEF ClaimBatch
  <2>2. Claims(S) \subseteq Claim
    BY DEF Claims, Batches, Claimable, Claim, NewClaimToken
  <2> QED
    BY <1>7, <2>1, <2>2, ClaimRowsType DEF ClaimBatch, sessionVars
<1>8. ASSUME NEW r \in Relays, ClaimAnswerLost(r)
      PROVE  TypeOK'
  BY <1>8, ClaimRowsType DEF ClaimAnswerLost, sessionVars, relayVars
<1>9. ASSUME NEW r \in Relays, NextRecord(r)
      PROVE  TypeOK'
  BY <1>9 DEF NextRecord, sessionVars, rowVars
<1>10. ASSUME NEW r \in Relays, RejectPayload(r) \/ StartRelay(r)
       PROVE  TypeOK'
  BY <1>10 DEF RejectPayload, StartRelay, sessionVars, rowVars
<1>11. ASSUME NEW r \in Relays, PublishConfirmed(r)
       PROVE  TypeOK'
  BY <1>11 DEF PublishConfirmed, Claim, sessionVars, rowVars
<1>12. ASSUME NEW r \in Relays, PublishFailed(r)
       PROVE  TypeOK'
  BY <1>12 DEF PublishFailed, Claim, Exhausted, sessionVars, rowVars
<1>13. ASSUME NEW r \in Relays, UpdateRow(r)
       PROVE  TypeOK'
  <2>1. Outcome(r) \in {"PUBLISHED", "PENDING", "FAILED"}
    BY <1>13 DEF UpdateRow, Updating, Outcome
  <2>2. PICK k \in current[r] :
          IF Fenced(k)
            THEN /\ rowStatus' = [rowStatus EXCEPT ![k.event] = Outcome(r)]
                 /\ rowToken' = [rowToken EXCEPT ![k.event] = 0]
                 /\ ripe' = [ripe EXCEPT ![k.event] = FALSE]
            ELSE UNCHANGED <<rowStatus, rowToken, ripe>>
    BY <1>13 DEF UpdateRow
  <2>3. /\ rowStatus' \in [Sessions -> {"ABSENT", "PENDING", "CLAIMED", "PUBLISHED", "FAILED"}]
        /\ rowToken' \in [Sessions -> Nat]
    BY <2>1, <2>2
  <2>4. ripe' \in [Sessions -> BOOLEAN]
    BY <2>2
  <2> QED
    BY <1>13, <2>3, <2>4 DEF UpdateRow, sessionVars
<1>14. ASSUME NEW r \in Relays, UpdateLost(r) \/ Halt(r)
       PROVE  TypeOK'
  BY <1>14 DEF UpdateLost, Halt, sessionVars, rowVars
<1> QED
  BY <1>1, <1>2, <1>3, <1>4, <1>5, <1>6, <1>7, <1>8, <1>9, <1>10, <1>11, <1>12,
     <1>13, <1>14, <1>c DEF Next, RelayStep

\* Relays that only forget claims, while no row is claimed, keep what is known
\* of the claims they hold.
LEMMA HeldShrinks ==
    ASSUME HeldIsAClaim, ClaimsAreDisjoint, UNCHANGED <<status, attempts>>,
           \A r \in Relays : Held(r)' \subseteq Held(r)
    PROVE  HeldIsAClaim' /\ ClaimsAreDisjoint'
  BY DEF HeldIsAClaim, ClaimsAreDisjoint

\* Claiming rows gives the relay r records that no relay held before, and keeps
\* what is known of rows and of older claims.
LEMMA ClaimStep ==
    ASSUME IndInv, NEW r \in Relays, NEW S \in Batches, ClaimRows(S),
           UNCHANGED <<status, broker>>,
           \A q \in Relays : \A k \in Held(q)' :
               k \in Held(q) \/ (q = r /\ k \in Claims(S))
    PROVE  /\ RowsOfEnded' /\ TokenIsLastClaim' /\ HeldIsAClaim'
           /\ ClaimsAreDisjoint' /\ PublishedWasConfirmed' /\ FailedWasExhausted'
<1> USE OutboxAssumption
<1>1. /\ S \subseteq Sessions
      /\ \A s \in S : rowStatus[s] \in {"PENDING", "CLAIMED"}
  BY DEF Batches, Claimable
<1>2. /\ \A s \in Sessions : rowStatus'[s] = IF s \in S THEN "CLAIMED" ELSE rowStatus[s]
      /\ \A s \in Sessions : attempts[s] \in Nat
      /\ \A s \in Sessions : attempts'[s] = IF s \in S THEN attempts[s] + 1 ELSE attempts[s]
      /\ \A s \in Sessions : rowToken'[s] = IF s \in S THEN attempts[s] + 1 ELSE rowToken[s]
  BY DEF IndInv, TypeOK, ClaimRows, NewClaimToken
<1>3. RowsOfEnded' /\ PublishedWasConfirmed' /\ FailedWasExhausted' /\ TokenIsLastClaim'
  BY <1>1, <1>2 DEF IndInv, TypeOK, RowsOfEnded, PublishedWasConfirmed,
                    FailedWasExhausted, TokenIsLastClaim
<1>4. \A k \in Claims(S) : /\ k.event \in S
                            /\ k.token = attempts[k.event] + 1
                            /\ k.attempt = k.token
  BY DEF Claims, NewClaimToken
<1>6. \A q \in Relays : \A k \in Held(q) :
        k.event \in Sessions /\ k.token \in Nat /\ k.token <= attempts[k.event]
  BY DEF IndInv, TypeOK, HeldIsAClaim, Held, Claim
<1>7. HeldIsAClaim'
  <2> SUFFICES ASSUME NEW q \in Relays, NEW k \in Held(q)'
               PROVE  /\ k.token <= attempts'[k.event]
                      /\ k.attempt = k.token
                      /\ status'[k.event] = "ENDED"
    BY DEF HeldIsAClaim
  <2>1. CASE k \in Held(q)
    BY <2>1, <1>1, <1>2, <1>6 DEF IndInv, HeldIsAClaim
  <2>2. CASE k \in Claims(S)
    BY <2>2, <1>1, <1>2, <1>4 DEF IndInv, RowsOfEnded
  <2> QED
    BY <2>1, <2>2
<1>8. ClaimsAreDisjoint'
  <2> SUFFICES ASSUME NEW p \in Relays, NEW q \in Relays,
                      NEW k \in Held(p)', NEW l \in Held(q)',
                      k.event = l.event, k.token = l.token
               PROVE  p = q
    BY DEF ClaimsAreDisjoint
  <2>1. CASE k \in Held(p) /\ l \in Held(q)
    BY <2>1 DEF IndInv, ClaimsAreDisjoint
  <2>2. CASE k \in Claims(S) /\ l \in Held(q)
    BY <2>2, <1>1, <1>2, <1>4, <1>6
  <2>3. CASE k \in Held(p) /\ l \in Claims(S)
    BY <2>3, <1>1, <1>2, <1>4, <1>6
  <2> QED
    BY <2>1, <2>2, <2>3
<1> QED
  BY <1>3, <1>7, <1>8

-----------------------------------------------------------------------------

\* Every step keeps the inductive invariant.
LEMMA IndStep == IndInv /\ [Next]_vars => IndInv'
<1> SUFFICES ASSUME IndInv, [Next]_vars PROVE IndInv'
  OBVIOUS
<1> USE OutboxAssumption
<1>t. TypeOK'
  BY TypeStep DEF IndInv
<1>1. CASE UNCHANGED vars
  BY <1>1, <1>t DEF IndInv, vars, sessionVars, rowVars, relayVars, RowsOfEnded, TokenIsLastClaim,
       HeldIsAClaim, ClaimsAreDisjoint, UpdateIsJustified, OneAtATime, Held,
       PublishedWasConfirmed, FailedWasExhausted
<1>2. ASSUME NEW q \in Requests, NEW s \in Sessions, NEW op \in Ops,
             ReadSession(q, op, s)
      PROVE  IndInv'
  BY <1>2, <1>t DEF ReadSession, IndInv, rowVars, relayVars, RowsOfEnded, TokenIsLastClaim,
       HeldIsAClaim, ClaimsAreDisjoint, UpdateIsJustified, OneAtATime, Held,
       PublishedWasConfirmed, FailedWasExhausted
<1>3. ASSUME NEW q \in Requests, Abandon(q)
      PROVE  IndInv'
  BY <1>3, <1>t DEF Abandon, IndInv, rowVars, relayVars, RowsOfEnded, TokenIsLastClaim,
       HeldIsAClaim, ClaimsAreDisjoint, UpdateIsJustified, OneAtATime, Held,
       PublishedWasConfirmed, FailedWasExhausted
<1>c. ASSUME NEW s \in Sessions, Create(s)
      PROVE  IndInv'
  <2>1. \A t \in Sessions : status[t] = "ENDED" => status'[t] = "ENDED"
    BY <1>c DEF Create, IndInv, TypeOK
  <2>2. RowsOfEnded' /\ PublishedWasConfirmed'
    BY <1>c, <2>1 DEF Create, rowVars, IndInv, TypeOK, RowsOfEnded, PublishedWasConfirmed
  <2>3. HeldIsAClaim'
    BY <1>c, <2>1 DEF Create, rowVars, relayVars, IndInv, TypeOK, HeldIsAClaim, Held, Claim
  <2> QED
    BY <1>c, <1>t, <2>2, <2>3 DEF Create, rowVars, relayVars, IndInv, TokenIsLastClaim,
       ClaimsAreDisjoint, UpdateIsJustified, OneAtATime, Held, FailedWasExhausted
<1>4. ASSUME NEW q \in Requests, NEW s \in Sessions, Start(q, s)
      PROVE  IndInv'
  <2>1. \A t \in Sessions : status[t] = "ENDED" => status'[t] = "ENDED"
    BY <1>4 DEF Start, Startable, IndInv, TypeOK
  <2>2. RowsOfEnded' /\ PublishedWasConfirmed'
    BY <1>4, <2>1 DEF Start, rowVars, IndInv, TypeOK, RowsOfEnded, PublishedWasConfirmed
  <2>3. HeldIsAClaim'
    BY <1>4, <2>1 DEF Start, rowVars, relayVars, IndInv, TypeOK, HeldIsAClaim, Held, Claim
  <2> QED
    BY <1>4, <1>t, <2>2, <2>3 DEF Start, rowVars, relayVars, IndInv, TokenIsLastClaim,
       ClaimsAreDisjoint, UpdateIsJustified, OneAtATime, Held, FailedWasExhausted
<1>5. ASSUME NEW q \in Requests, NEW s \in Sessions, End(q, s)
      PROVE  IndInv'
  <2>1. /\ \A t \in Sessions : status[t] = "ENDED" => status'[t] = "ENDED"
        /\ \A t \in Sessions : rowStatus'[t] # rowStatus[t] =>
                                 status'[t] = "ENDED" /\ rowStatus'[t] = "PENDING"
    BY <1>5 DEF End, Endable, IndInv, TypeOK
  <2>2. RowsOfEnded' /\ PublishedWasConfirmed' /\ FailedWasExhausted' /\ TokenIsLastClaim'
    BY <1>5, <2>1 DEF End, IndInv, TypeOK, RowsOfEnded, PublishedWasConfirmed,
       FailedWasExhausted, TokenIsLastClaim
  <2>3. HeldIsAClaim'
    BY <1>5, <2>1 DEF End, relayVars, IndInv, TypeOK, HeldIsAClaim, Held, Claim
  <2> QED
    BY <1>5, <1>t, <2>2, <2>3 DEF End, relayVars, IndInv, ClaimsAreDisjoint,
       UpdateIsJustified, OneAtATime, Held
<1>6. ASSUME NEW s \in Sessions, TimePasses(s)
      PROVE  IndInv'
  BY <1>6, <1>t DEF TimePasses, IndInv, sessionVars, relayVars, RowsOfEnded,
       TokenIsLastClaim, HeldIsAClaim, ClaimsAreDisjoint, UpdateIsJustified, OneAtATime, Held,
       PublishedWasConfirmed, FailedWasExhausted
<1>7. ASSUME NEW r \in Relays, ClaimBatch(r)
      PROVE  IndInv'
  <2>1. PICK S \in Batches :
          ClaimRows(S) /\ batch' = [batch EXCEPT ![r] = Claims(S)]
    BY <1>7 DEF ClaimBatch
  <2>2. UNCHANGED <<status, current, broker>>
    BY <1>7 DEF ClaimBatch, sessionVars
  <2>3. \A q \in Relays : \A k \in Held(q)' :
           k \in Held(q) \/ (q = r /\ k \in Claims(S))
    BY <2>1, <2>2 DEF Held, IndInv, TypeOK
  <2>4. /\ RowsOfEnded' /\ TokenIsLastClaim' /\ HeldIsAClaim'
        /\ ClaimsAreDisjoint' /\ PublishedWasConfirmed' /\ FailedWasExhausted'
    BY <2>1, <2>2, <2>3, ClaimStep
  <2>5. UpdateIsJustified' /\ OneAtATime'
    BY <1>7, <2>2 DEF ClaimBatch, IndInv, TypeOK, UpdateIsJustified, OneAtATime
  <2> QED
    BY <1>t, <2>4, <2>5 DEF IndInv
<1>8. ASSUME NEW r \in Relays, ClaimAnswerLost(r)
      PROVE  IndInv'
  <2>1. PICK S \in Batches : ClaimRows(S)
    BY <1>8 DEF ClaimAnswerLost
  <2>2. UNCHANGED <<status, relayPc, batch, current, broker>>
    BY <1>8 DEF ClaimAnswerLost, sessionVars, relayVars
  <2>3. /\ RowsOfEnded' /\ TokenIsLastClaim' /\ HeldIsAClaim'
        /\ ClaimsAreDisjoint' /\ PublishedWasConfirmed' /\ FailedWasExhausted'
    <3>1. \A q \in Relays : Held(q)' = Held(q)
      BY <2>2 DEF Held
    <3> QED
      BY <2>1, <2>2, <3>1, ClaimStep
  <2>4. UpdateIsJustified' /\ OneAtATime'
    BY <2>2 DEF IndInv, UpdateIsJustified, OneAtATime
  <2> QED
    BY <1>t, <2>3, <2>4 DEF IndInv
<1>9. ASSUME NEW r \in Relays, NextRecord(r)
      PROVE  IndInv'
  <2>1. /\ \A q \in Relays : Held(q)' \subseteq Held(q)
        /\ \A q \in Relays : current'[q] = current[q] \/ relayPc'[q] = "process"
        /\ \A q \in Relays : relayPc'[q] = relayPc[q] \/ relayPc'[q] \in {"process", "idle"}
    BY <1>9 DEF NextRecord, Held, IndInv, TypeOK
  <2>2. HeldIsAClaim' /\ ClaimsAreDisjoint'
    BY <1>9, <2>1, HeldShrinks DEF NextRecord, sessionVars, rowVars, IndInv
  <2>3. UpdateIsJustified' /\ OneAtATime'
    BY <1>9, <2>1 DEF NextRecord, IndInv, TypeOK, UpdateIsJustified, OneAtATime
  <2> QED
    BY <1>9, <1>t, <2>2, <2>3 DEF NextRecord, sessionVars, rowVars, IndInv, RowsOfEnded,
       TokenIsLastClaim, PublishedWasConfirmed, FailedWasExhausted
<1>10. ASSUME NEW r \in Relays, RejectPayload(r) \/ StartRelay(r)
       PROVE  IndInv'
  <2>1. UpdateIsJustified'
    BY <1>10 DEF RejectPayload, StartRelay, IndInv, TypeOK, UpdateIsJustified, OneAtATime
  <2> QED
    BY <1>10, <1>t, <2>1 DEF RejectPayload, StartRelay, sessionVars, rowVars, IndInv,
       RowsOfEnded, TokenIsLastClaim, HeldIsAClaim, ClaimsAreDisjoint, OneAtATime, Held,
       PublishedWasConfirmed, FailedWasExhausted
<1>11. ASSUME NEW r \in Relays, PublishConfirmed(r)
       PROVE  IndInv'
  <2>1. PICK k \in current[r] : broker' = broker \cup {k.event}
    BY <1>11 DEF PublishConfirmed
  <2>2. k.event \in Sessions /\ status[k.event] = "ENDED"
    BY DEF IndInv, TypeOK, Claim, HeldIsAClaim, Held
  <2>3. RowsOfEnded' /\ PublishedWasConfirmed'
    BY <1>11, <2>1, <2>2 DEF PublishConfirmed, sessionVars, rowVars, IndInv, RowsOfEnded,
       PublishedWasConfirmed
  <2>4. UpdateIsJustified'
    BY <1>11, <2>1 DEF PublishConfirmed, IndInv, TypeOK, UpdateIsJustified, OneAtATime
  <2> QED
    BY <1>11, <1>t, <2>3, <2>4 DEF PublishConfirmed, sessionVars, rowVars, IndInv,
       TokenIsLastClaim, HeldIsAClaim, ClaimsAreDisjoint, OneAtATime, Held, FailedWasExhausted
<1>12. ASSUME NEW r \in Relays, PublishFailed(r)
       PROVE  IndInv'
  <2>1. PICK k \in current[r] :
          /\ broker' \in {broker, broker \cup {k.event}}
          /\ relayPc' = [relayPc EXCEPT ![r] = IF Exhausted(k) THEN "fail" ELSE "retry"]
    BY <1>12 DEF PublishFailed
  <2>2. k.event \in Sessions /\ status[k.event] = "ENDED"
    BY DEF IndInv, TypeOK, Claim, HeldIsAClaim, Held
  <2>3. RowsOfEnded' /\ PublishedWasConfirmed'
    BY <1>12, <2>1, <2>2 DEF PublishFailed, sessionVars, rowVars, IndInv, RowsOfEnded,
       PublishedWasConfirmed
  <2>4. UpdateIsJustified'
    BY <1>12, <2>1 DEF PublishFailed, Exhausted, IndInv, TypeOK, UpdateIsJustified,
       OneAtATime
  <2> QED
    BY <1>12, <1>t, <2>3, <2>4 DEF PublishFailed, sessionVars, rowVars, IndInv,
       TokenIsLastClaim, HeldIsAClaim, ClaimsAreDisjoint, OneAtATime, Held, FailedWasExhausted
<1>13. ASSUME NEW r \in Relays, UpdateRow(r)
       PROVE  IndInv'
  <2>1. PICK k \in current[r] :
          IF Fenced(k)
            THEN /\ rowStatus' = [rowStatus EXCEPT ![k.event] = Outcome(r)]
                 /\ rowToken' = [rowToken EXCEPT ![k.event] = 0]
                 /\ ripe' = [ripe EXCEPT ![k.event] = FALSE]
            ELSE UNCHANGED <<rowStatus, rowToken, ripe>>
    BY <1>13 DEF UpdateRow
  <2>2. /\ k.event \in Sessions
        /\ k.attempt = k.token
        /\ status[k.event] = "ENDED"
        /\ relayPc[r] = "published" => k.event \in broker
        /\ relayPc[r] = "fail" => k.event \in Invalid \/ k.attempt >= MaxAttempts
    BY DEF IndInv, TypeOK, Claim, HeldIsAClaim, Held, UpdateIsJustified
  <2>3. \/ relayPc[r] = "published" /\ Outcome(r) = "PUBLISHED"
        \/ relayPc[r] = "retry" /\ Outcome(r) = "PENDING"
        \/ relayPc[r] = "fail" /\ Outcome(r) = "FAILED"
    BY <1>13 DEF UpdateRow, Updating, Outcome
  <2>4. RowsOfEnded' /\ PublishedWasConfirmed' /\ TokenIsLastClaim'
    BY <1>13, <2>1, <2>2, <2>3 DEF UpdateRow, sessionVars, IndInv, TypeOK, RowsOfEnded,
       PublishedWasConfirmed, TokenIsLastClaim
  <2>5. FailedWasExhausted'
    BY <1>13, <2>1, <2>2, <2>3 DEF UpdateRow, Fenced, IndInv, TypeOK, TokenIsLastClaim,
       FailedWasExhausted
  <2>6. \A q \in Relays : Held(q)' \subseteq Held(q)
    BY <1>13 DEF UpdateRow, Held, IndInv, TypeOK
  <2>7. HeldIsAClaim' /\ ClaimsAreDisjoint'
    BY <1>13, <2>6, HeldShrinks DEF UpdateRow, sessionVars, IndInv
  <2>8. UpdateIsJustified' /\ OneAtATime'
    BY <1>13 DEF UpdateRow, IndInv, TypeOK, UpdateIsJustified, OneAtATime
  <2> QED
    BY <1>t, <2>4, <2>5, <2>7, <2>8 DEF IndInv
<1>14. ASSUME NEW r \in Relays, UpdateLost(r) \/ Halt(r)
       PROVE  IndInv'
  <2>1. \A q \in Relays : Held(q)' \subseteq Held(q)
    BY <1>14 DEF UpdateLost, Halt, Held, IndInv, TypeOK
  <2>2. HeldIsAClaim' /\ ClaimsAreDisjoint'
    BY <1>14, <2>1, HeldShrinks DEF UpdateLost, Halt, sessionVars, rowVars, IndInv
  <2>3. UpdateIsJustified' /\ OneAtATime'
    BY <1>14 DEF UpdateLost, Halt, IndInv, TypeOK, UpdateIsJustified, OneAtATime
  <2> QED
    BY <1>14, <1>t, <2>2, <2>3 DEF UpdateLost, Halt, sessionVars, rowVars, IndInv,
       RowsOfEnded, TokenIsLastClaim, PublishedWasConfirmed, FailedWasExhausted
<1> QED
  BY <1>1, <1>2, <1>3, <1>4, <1>5, <1>6, <1>7, <1>8, <1>9, <1>10, <1>11, <1>12,
     <1>13, <1>14, <1>c DEF Next, RelayStep

\* The initial state has the inductive invariant.
LEMMA IndInit == Init => IndInv
  BY OutboxAssumption DEF Init, IndInv, TypeOK, OneAtATime, RowsOfEnded, TokenIsLastClaim,
     HeldIsAClaim, ClaimsAreDisjoint, UpdateIsJustified, Held, PublishedWasConfirmed,
     FailedWasExhausted, Ops, Idle, Claim

\* Every reachable state satisfies the inductive invariant.
THEOREM Invariance == Spec => []IndInv
  BY IndInit, IndStep, PTL DEF Spec

-----------------------------------------------------------------------------

\* Every variable keeps its type.
THEOREM TypeCorrect == Spec => []TypeOK
<1>1. IndInv => TypeOK
  BY DEF IndInv
<1> QED
  BY <1>1, Invariance, PTL

\* PUBLISHED is only ever written after the broker confirmed the event of a
\* committed End, for any number of relays and any crashes and lease expiries.
THEOREM PublishedSafe == Spec => []PublishedWasConfirmed
<1>1. IndInv => PublishedWasConfirmed
  BY DEF IndInv
<1> QED
  BY <1>1, Invariance, PTL

\* A row is only ever FAILED with its attempts used up or an invalid payload.
THEOREM FailedSafe == Spec => []FailedWasExhausted
<1>1. IndInv => FailedWasExhausted
  BY DEF IndInv
<1> QED
  BY <1>1, Invariance, PTL

\* The claim token fences: at most one relay holds the current claim of a row.
THEOREM Fencing == Spec => []OneOwner
<1>1. IndInv => OneOwner
  BY DEF IndInv, ClaimsAreDisjoint, OneOwner, Works, Held
<1> QED
  BY <1>1, Invariance, PTL

\* A step that updates a row had passed the fence, so rows that are PUBLISHED
\* or FAILED keep their status and their count.
LEMMA TerminalStep ==
    ASSUME TypeOK, [Next]_vars, NEW s \in Sessions,
           rowStatus[s] \in {"PUBLISHED", "FAILED"}, RowsOfEnded
    PROVE  rowStatus'[s] = rowStatus[s] /\ attempts'[s] = attempts[s]
<1>1. ASSUME NEW S \in Batches, ClaimRows(S)
      PROVE  rowStatus'[s] = rowStatus[s] /\ attempts'[s] = attempts[s]
  BY <1>1 DEF Batches, Claimable, ClaimRows, TypeOK
<1>2. ASSUME NEW r \in Relays, UpdateRow(r)
      PROVE  rowStatus'[s] = rowStatus[s] /\ attempts'[s] = attempts[s]
  BY <1>2 DEF UpdateRow, Fenced, TypeOK, Claim
<1>3. ASSUME NEW q \in Requests, NEW t \in Sessions, End(q, t)
      PROVE  rowStatus'[s] = rowStatus[s] /\ attempts'[s] = attempts[s]
  BY <1>3 DEF End, Endable, TypeOK, RowsOfEnded
<1> QED
  BY <1>1, <1>2, <1>3 DEF Next, RelayStep, vars, sessionVars, rowVars, relayVars, ReadSession,
     Start, Abandon, Create, TimePasses, ClaimBatch, ClaimAnswerLost, NextRecord, RejectPayload,
     PublishConfirmed, PublishFailed, UpdateLost, Halt, StartRelay

\* PUBLISHED and FAILED are final, whatever relays with expired leases still do.
THEOREM TerminalFinal == Spec => TerminalIsFinal
<1>1. IndInv /\ [Next]_vars =>
        [\A s \in Sessions : rowStatus[s] \in {"PUBLISHED", "FAILED"} =>
            rowStatus'[s] = rowStatus[s] /\ attempts'[s] = attempts[s]]_vars
  BY TerminalStep DEF IndInv
<1> QED
  BY <1>1, Invariance, PTL DEF Spec, TerminalIsFinal

\* Only Start makes a session LIVE, and it respects the unique key.
LEMMA OneLiveStep == TypeOK /\ OneLivePerHost /\ [Next]_vars => OneLivePerHost'
<1> SUFFICES ASSUME TypeOK, OneLivePerHost, [Next]_vars PROVE OneLivePerHost'
  OBVIOUS
<1>1. ASSUME NEW q \in Requests, NEW s \in Sessions, Start(q, s)
      PROVE  OneLivePerHost'
  BY <1>1 DEF Start, Startable, HostIsLive, TypeOK, OneLivePerHost
<1>2. ASSUME NEW q \in Requests, NEW s \in Sessions, End(q, s)
      PROVE  OneLivePerHost'
  BY <1>2 DEF End, Endable, TypeOK, OneLivePerHost
<1>c. ASSUME NEW s \in Sessions, Create(s)
      PROVE  OneLivePerHost'
  BY <1>c DEF Create, TypeOK, OneLivePerHost
<1>3. CASE UNCHANGED status
  BY <1>3 DEF OneLivePerHost
<1> QED
  BY <1>1, <1>2, <1>c, <1>3 DEF Next, RelayStep, vars, sessionVars, ReadSession,
     Abandon, TimePasses, ClaimBatch, ClaimAnswerLost, NextRecord, RejectPayload,
     PublishConfirmed, PublishFailed, UpdateRow, UpdateLost, Halt, StartRelay

\* A host has at most one LIVE session at any time.
THEOREM OneLive == Spec => []OneLivePerHost
<1>1. Init => OneLivePerHost
  BY DEF Init, OneLivePerHost
<1> QED
  BY <1>1, OneLiveStep, TypeCorrect, PTL DEF Spec
=============================================================================

---------------------------- MODULE ChatAdmission ----------------------------
(***************************************************************************)
(* ChatService.Accept of all API instances on one live session, with the   *)
(* two token buckets in Redis that admit its messages: one per user and    *)
(* one for the room, read and written together by one Lua script.          *)
(*                                                                         *)
(* Time is Redis time in ticks; it may step back.  Tokens are counted in   *)
(* parts, Cost of them to a message, so that a tick refills a fraction of  *)
(* a token.  The Redis client sends a command again after a network error, *)
(* so the script may run more often than it is answered, and a command its *)
(* caller has given up on may still run.                                   *)
(***************************************************************************)
EXTENDS Integers, Sequences, FiniteSets, FiniteSetsExt

CONSTANTS
    Requests, Users,
    User,                \* User[r]: the sender of a request
    Room,                \* the room's bucket; the others are named by their users
    UserBurst, UserRate, \* capacity in messages, refill in parts per tick
    RoomBurst, RoomRate,
    Cost,                \* parts of a token
    MinTtl,              \* the shortest expiry the script sets
    None,                \* no bucket, no answer
    MaxTime,             \* bound: ticks
    MaxFaults            \* bound: network errors, lost answers and clock steps

ASSUME ChatAdmissionAssumption ==
    /\ IsFiniteSet(Requests)
    /\ User \in [Requests -> Users]
    /\ Room \notin Users
    /\ {UserBurst, UserRate, RoomBurst, RoomRate, Cost, MinTtl} \subseteq Nat \ {0}
    /\ {MaxTime, MaxFaults} \subseteq Nat
    /\ None \notin [tokens : Nat, updated : Nat, expires : Nat]
    /\ None # "accepted"

VARIABLES
    now,     \* Redis TIME
    bucket,  \* the hash of a bucket, or None
    pc,      \* new, waiting for admission, publishing, done
    command, \* the script call a request waits for: unsent, sent, or its result
    stray,   \* script calls on their way that nobody waits for, by user
    ack,     \* the answer the sender gets
    late,    \* publications whose call gave up while they were on their way
    queued,  \* requests whose event the broker took
    faults,
    passed,  \* history: ticks so far, steps back not deducted
    stepped, \* history: the clock has stepped back
    grants   \* history: [user, at, passed] of every run of the script that granted

redisVars  == <<now, bucket, passed, stepped, grants>>
acceptVars == <<pc, command, stray, ack, late, queued>>
vars       == <<redisVars, acceptVars, faults>>

Buckets == Users \cup {Room}
Cap(b)  == Cost * (IF b = Room THEN RoomBurst ELSE UserBurst)
Rate(b) == IF b = Room THEN RoomRate ELSE UserRate

Init ==
    /\ now = 0
    /\ bucket = [b \in Buckets |-> None]
    /\ pc = [r \in Requests |-> "new"]
    /\ command = [r \in Requests |-> "unsent"]
    /\ stray = [u \in Users |-> 0]
    /\ ack = [r \in Requests |-> None]
    /\ late = {}
    /\ queued = {}
    /\ faults = 0
    /\ passed = 0
    /\ stepped = FALSE
    /\ grants = <<>>

(***************************************************************************)
(* The script.                                                             *)
(***************************************************************************)
AtLeast0(n)  == IF n < 0 THEN 0 ELSE n
AtMost(m, n) == IF n > m THEN m ELSE n

\* Redis does not return a key whose time has come.
Present(b) == bucket[b] # None /\ now < bucket[b].expires

Refill(b) ==
    IF Present(b)
      THEN AtMost(Cap(b), bucket[b].tokens + AtLeast0(now - bucket[b].updated) * Rate(b))
      ELSE Cap(b)

\* Faulty variant: the key expires when its bucket is half full.
TtlHalf(b) == (Cap(b) + 2 * Rate(b) - 1) \div (2 * Rate(b))

\* Twice the time an empty bucket takes to fill, rounded up.
Ttl(b) ==
    LET full == (2 * Cap(b) + Rate(b) - 1) \div Rate(b)
    IN  IF full < MinTtl THEN MinTtl ELSE full

Allowed(u) == Refill(u) >= Cost /\ Refill(Room) >= Cost

\* HSET and PEXPIRE of both keys, whether or not the message is allowed.
Stored(b, u) ==
    [tokens  |-> IF Allowed(u) THEN Refill(b) - Cost ELSE Refill(b),
     updated |-> now,
     expires |-> now + Ttl(b)]

\* Faulty variant: a refusal keeps the old time with the refilled tokens.
RunScriptKeepsTime(u) ==
    /\ bucket' = [b \in Buckets |->
          IF b \notin {u, Room} THEN bucket[b]
          ELSE IF Allowed(u) \/ ~Present(b) THEN Stored(b, u)
          ELSE [Stored(b, u) EXCEPT !.updated = bucket[b].updated]]
    /\ grants' = IF Allowed(u) THEN Append(grants, [user |-> u, at |-> now, passed |-> passed])
                               ELSE grants
    /\ UNCHANGED <<now, passed, stepped>>

RunScript(u) ==
    /\ bucket' = [b \in Buckets |-> IF b \in {u, Room} THEN Stored(b, u) ELSE bucket[b]]
    /\ grants' = IF Allowed(u) THEN Append(grants, [user |-> u, at |-> now, passed |-> passed])
                               ELSE grants
    /\ UNCHANGED <<now, passed, stepped>>

(***************************************************************************)
(* Accept.                                                                 *)
(***************************************************************************)

\* handleClientFrame's answer to an error of Accept: a failed admission and a failed
\* publication look alike to the sender.
Told(err) == IF err \in {"invalid", "limited"} THEN err ELSE "unavailable"

\* A message with a valid id and content asks for admission; another one is
\* rejected before.
Ask(r) ==
    /\ pc[r] = "new"
    /\ \/ /\ pc' = [pc EXCEPT ![r] = "waiting"]
          /\ command' = [command EXCEPT ![r] = "sent"]
          /\ UNCHANGED ack
       \/ /\ pc' = [pc EXCEPT ![r] = "done"]
          /\ ack' = [ack EXCEPT ![r] = Told("invalid")]
          /\ UNCHANGED command
    /\ UNCHANGED <<redisVars, stray, late, queued, faults>>

ScriptRuns(r) ==
    /\ command[r] = "sent"
    /\ RunScript(User[r])
    /\ command' = [command EXCEPT ![r] = IF Allowed(User[r]) THEN "allowed" ELSE "refused"]
    /\ UNCHANGED <<pc, stray, ack, late, queued, faults>>

StrayRuns(u) ==
    /\ stray[u] > 0
    /\ RunScript(u)
    /\ stray' = [stray EXCEPT ![u] = @ - 1]
    /\ UNCHANGED <<pc, command, ack, late, queued, faults>>

\* The caller turns away from its command: it ran, is lost, or will run yet.
Abandon(r) ==
    \/ UNCHANGED stray
    \/ command[r] = "sent" /\ stray' = [stray EXCEPT ![User[r]] = @ + 1]

\* The Redis client meets a network error and sends the command again.
Resend(r) ==
    /\ pc[r] = "waiting" /\ faults < MaxFaults
    /\ faults' = faults + 1
    /\ Abandon(r)
    /\ command' = [command EXCEPT ![r] = "sent"]
    /\ UNCHANGED <<redisVars, pc, ack, late, queued>>

\* Faulty variant: without an answer from Redis the message is let through.
AdmissionFailsOpen(r) ==
    /\ pc[r] = "waiting" /\ faults < MaxFaults
    /\ faults' = faults + 1
    /\ Abandon(r)
    /\ pc' = [pc EXCEPT ![r] = "publishing"]
    /\ command' = [command EXCEPT ![r] = "unsent"]
    /\ UNCHANGED <<redisVars, ack, late, queued>>

\* AdmissionTimeout, or an error of Redis: the message is refused.
AdmissionFails(r) ==
    /\ pc[r] = "waiting" /\ faults < MaxFaults
    /\ faults' = faults + 1
    /\ Abandon(r)
    /\ pc' = [pc EXCEPT ![r] = "done"]
    /\ command' = [command EXCEPT ![r] = "unsent"]
    /\ ack' = [ack EXCEPT ![r] = Told("admission unavailable")]
    /\ UNCHANGED <<redisVars, late, queued>>

AdmissionAnswers(r) ==
    /\ pc[r] = "waiting"
    /\ \/ /\ command[r] = "allowed"
          /\ pc' = [pc EXCEPT ![r] = "publishing"]
          /\ UNCHANGED ack
       \/ /\ command[r] = "refused"
          /\ pc' = [pc EXCEPT ![r] = "done"]
          /\ ack' = [ack EXCEPT ![r] = Told("limited")]
    /\ UNCHANGED <<redisVars, command, stray, late, queued, faults>>

\* Publish returns without error: the broker confirmed (module Publisher).
Confirmed(r) ==
    /\ pc[r] = "publishing"
    /\ pc' = [pc EXCEPT ![r] = "done"]
    /\ queued' = queued \cup {r}
    /\ ack' = [ack EXCEPT ![r] = "accepted"]
    /\ UNCHANGED <<redisVars, command, stray, late, faults>>

\* Publish fails: nothing was sent, the broker took the event and the confirmation
\* is lost, or the event is still on its way when PublishTimeout passes.
PublishFails(r) ==
    /\ pc[r] = "publishing" /\ faults < MaxFaults
    /\ faults' = faults + 1
    /\ pc' = [pc EXCEPT ![r] = "done"]
    /\ ack' = [ack EXCEPT ![r] = Told("publish failed")]
    /\ \/ UNCHANGED <<late, queued>>
       \/ queued' = queued \cup {r} /\ UNCHANGED late
       \/ late' = late \cup {r} /\ UNCHANGED queued
    /\ UNCHANGED <<redisVars, command, stray>>

BrokerTakes(r) ==
    /\ r \in late
    /\ late' = late \ {r}
    /\ queued' = queued \cup {r}
    /\ UNCHANGED <<redisVars, pc, command, stray, ack, faults>>

(***************************************************************************)
(* Redis time.                                                             *)
(***************************************************************************)
Tick ==
    /\ passed < MaxTime
    /\ now' = now + 1
    /\ passed' = passed + 1
    /\ UNCHANGED <<bucket, stepped, grants, acceptVars, faults>>

StepBack ==
    /\ now > 0 /\ faults < MaxFaults
    /\ faults' = faults + 1
    /\ now' \in 0..(now - 1)
    /\ stepped' = TRUE
    /\ UNCHANGED <<bucket, passed, grants, acceptVars>>

\* The expiry cycle removes a key; a later step back does not restore it.
Expire(b) ==
    /\ bucket[b] # None /\ ~Present(b)
    /\ bucket' = [bucket EXCEPT ![b] = None]
    /\ UNCHANGED <<now, passed, stepped, grants, acceptVars, faults>>

Next ==
    \/ \E r \in Requests :
          \/ Ask(r) \/ ScriptRuns(r) \/ Resend(r) \/ AdmissionFails(r) \/ AdmissionAnswers(r)
          \/ Confirmed(r) \/ PublishFails(r) \/ BrokerTakes(r)
    \/ \E u \in Users : StrayRuns(u)
    \/ Tick \/ StepBack
    \/ \E b \in Buckets : Expire(b)

Spec == Init /\ [][Next]_vars

(***************************************************************************)
(* Properties.                                                             *)
(***************************************************************************)

\* Every variable keeps its type, and no bucket is overfull or overdrawn.
TypeOK ==
    /\ {now, passed} \subseteq 0..MaxTime
    /\ \A b \in Buckets : bucket[b] # None =>
          bucket[b] \in [tokens : 0..Cap(b), updated : 0..MaxTime, expires : Nat]
    /\ pc \in [Requests -> {"new", "waiting", "publishing", "done"}]
    /\ command \in [Requests -> {"unsent", "sent", "allowed", "refused"}]
    /\ stray \in [Users -> Nat]
    /\ ack \in [Requests -> {None, "invalid", "limited", "unavailable", "accepted"}]
    /\ late \subseteq Requests /\ queued \subseteq Requests
    /\ faults \in 0..MaxFaults
    /\ stepped \in BOOLEAN
    /\ grants \in Seq([user : Users, at : 0..MaxTime, passed : 0..MaxTime])

\* The grants a bucket paid for, and how many of them from the i-th grant to the j-th.
Charged(b)    == {i \in DOMAIN grants : b = Room \/ grants[i].user = b}
Paid(b, i, j) == Cardinality({k \in Charged(b) : i <= k /\ k <= j})

\* The level of a bucket by its definition: it was full at first and is never
\* fuller, so since each grant it has lost at least what was granted from then on
\* and gained at most what the time since then brings.
Level(b) ==
    Min({Cap(b)} \cup
        {Cap(b) + Rate(b) * (now - grants[i].at) - Cost * Paid(b, i, Len(grants)) :
            i \in Charged(b)})

\* While Redis time goes forward, what the script finds in a bucket is its level by
\* that definition: expired keys, refusals, calls that ran twice and calls nobody
\* waited for neither give nor take anything else, in the user's bucket or the room's.
LevelIsExact == ~stepped => \A b \in Buckets : Refill(b) = Level(b)

\* Even when Redis time steps back, no stretch of time grants more than the burst
\* and what the ticks of that stretch bring, for each user and for the room.
RateBound ==
    \A b \in Buckets : \A i, j \in Charged(b) : i <= j =>
        Cost * Paid(b, i, j) <= Cap(b) + Rate(b) * (grants[j].passed - grants[i].passed)

\* Admission fails closed: what the broker took or may yet take had its own command
\* answered with a grant, and was paid for by a grant of its own, however often the
\* script ran.  A sender told "accepted" can rely on it that the event is queued, one
\* told that the message is invalid or over the limit that nothing was published.
\* "unavailable" leaves the sender in doubt: the publication may have succeeded.
PublishedWasGranted ==
    /\ \A u \in Users :
          Cardinality({r \in queued \cup late : User[r] = u}) <= Cardinality(Charged(u))
    /\ \A r \in queued \cup late :
          command[r] = "allowed" /\ ack[r] \in {"accepted", "unavailable"}
    /\ \A r \in Requests : ack[r] = "accepted" => r \in queued
=============================================================================

----------------------------- MODULE Migrations -----------------------------
(***************************************************************************)
(* orion-migrate: jobs of one or more releases bring the schema of one     *)
(* MySQL server up to date.  A job is a client and its session in the      *)
(* server; pc is the statement the session has been sent.  When the client *)
(* dies, or its connection does, the statement on its way still runs, with *)
(* every statement of the file after it, until the server notices and ends *)
(* the session, which frees the named lock.                                *)
(*                                                                         *)
(* A CREATE TABLE commits at once, and ends the transaction BeginTx opened *)
(* for it, so that the row in schema_migrations commits at once as well.   *)
(***************************************************************************)
EXTENDS Naturals, Sequences, Functions

CONSTANTS
    Jobs,
    Content,  \* Content[j][v]: the file of version v in the release of a job
    Tables,   \* Tables[v]: the tables a file of version v creates, in order
    Refs,     \* Refs[t]: the tables to which t has foreign keys
    None,
    MaxFaults \* bound: deaths of a client

Versions  == DOMAIN Tables
AllTables == UNION {Range(Tables[v]) : v \in Versions}
Files     == UNION {Range(Content[j]) : j \in Jobs}

ASSUME MigrationsAssumption ==
    /\ Tables \in Seq(Seq(AllTables) \ {<<>>})
    /\ Content \in [Jobs -> Seq(Files)]
    /\ \A j \in Jobs : Len(Content[j]) \in Versions
    /\ \A t \in AllTables : Refs[t] \subseteq AllTables
    /\ None \notin Files \cup Jobs
    /\ MaxFaults \in Nat

\* The files of migrations/: a table is created by one version, and a foreign key
\* refers to a table that was created before.
ASSUME FilesAssumption ==
    /\ \A v, w \in Versions : v # w => Range(Tables[v]) \cap Range(Tables[w]) = {}
    /\ \A v \in Versions : \A i \in DOMAIN Tables[v] : \A t \in Refs[Tables[v][i]] :
          \/ \E w \in 1..(v - 1) : t \in Range(Tables[w])
          \/ \E k \in 1..(i - 1) : t = Tables[v][k]

VARIABLES
    pc,      \* off, lock, meta, check, execute, record; then idle, failed, refused, done
    version, \* the version a job is at
    next,    \* the statement of its file that is to be executed next
    client,  \* the jobs whose client is connected
    lock,    \* the session that has the lock
    meta,    \* schema_migrations exists
    stored,  \* stored[v]: the checksum in schema_migrations
    schema,  \* schema[t]: the file that created a table
    deaths,
    broken   \* history: files of which a job executed a part and recorded nothing

dbVars        == <<lock, meta, stored, schema>>
migrationVars == <<pc, version, next, client, dbVars, deaths, broken>>

MigrationsInit ==
    /\ pc = [j \in Jobs |-> "off"]
    /\ version = [j \in Jobs |-> 1]
    /\ next = [j \in Jobs |-> 1]
    /\ client = {}
    /\ lock = None
    /\ meta = FALSE
    /\ stored = [v \in Versions |-> None]
    /\ schema = [t \in AllTables |-> None]
    /\ deaths = 0
    /\ broken = {}

\* The session has nothing more to do when its client is gone.
Then(j, step) == pc' = [pc EXCEPT ![j] = IF j \in client THEN step ELSE "idle"]

\* A job connects and asks for the lock; one that failed is run again.
Run(j) ==
    /\ pc[j] \in {"off", "failed"}
    /\ pc' = [pc EXCEPT ![j] = "lock"]
    /\ version' = [version EXCEPT ![j] = 1]
    /\ client' = client \cup {j}
    /\ UNCHANGED <<next, dbVars, deaths, broken>>

\* Faulty variant: the answer of GET_LOCK is not looked at.
GetLockIgnored(j) ==
    /\ pc[j] = "lock"
    /\ lock' = IF lock = None THEN j ELSE lock
    /\ Then(j, "meta")
    /\ UNCHANGED <<version, next, client, meta, stored, schema, deaths, broken>>

GetLock(j) ==
    /\ pc[j] = "lock" /\ lock = None
    /\ lock' = j
    /\ Then(j, "meta")
    /\ UNCHANGED <<version, next, client, meta, stored, schema, deaths, broken>>

\* The lock is not free within ten seconds.
LockTimeout(j) ==
    /\ pc[j] = "lock" /\ lock # None
    /\ pc' = [pc EXCEPT ![j] = "failed"]
    /\ client' = client \ {j}
    /\ UNCHANGED <<version, next, dbVars, deaths, broken>>

CreateMeta(j) ==
    /\ pc[j] = "meta"
    /\ meta' = TRUE
    /\ Then(j, "check")
    /\ UNCHANGED <<version, next, client, lock, stored, schema, deaths, broken>>

\* Up returns: RELEASE_LOCK, and the connection is closed.
Finish(j, result) ==
    /\ pc' = [pc EXCEPT ![j] = result]
    /\ client' = client \ {j}
    /\ lock' = IF lock = j THEN None ELSE lock
    /\ UNCHANGED <<version, next, meta, stored, schema, deaths, broken>>

\* Faulty variant: any row of the version is taken for this file's.
CheckVersionOnly(j) ==
    /\ pc[j] = "check" /\ meta
    /\ IF version[j] > Len(Content[j]) THEN Finish(j, "done")
       ELSE /\ \/ /\ stored[version[j]] # None
                  /\ version' = [version EXCEPT ![j] = @ + 1]
                  /\ UNCHANGED <<pc, next>>
               \/ /\ stored[version[j]] = None
                  /\ pc' = [pc EXCEPT ![j] = "execute"]
                  /\ next' = [next EXCEPT ![j] = 1]
                  /\ UNCHANGED version
            /\ UNCHANGED <<client, dbVars, deaths, broken>>

\* The start of apply: a version is skipped, refused or executed.
Check(j) ==
    /\ pc[j] = "check" /\ meta
    /\ \/ version[j] > Len(Content[j]) /\ Finish(j, "done")
       \/ /\ version[j] <= Len(Content[j])
          /\ stored[version[j]] \notin {None, Content[j][version[j]]}
          /\ Finish(j, "refused")
       \/ /\ version[j] <= Len(Content[j])
          /\ \/ /\ stored[version[j]] = Content[j][version[j]]
                /\ version' = [version EXCEPT ![j] = @ + 1]
                /\ UNCHANGED <<pc, next>>
             \/ /\ stored[version[j]] = None
                /\ pc' = [pc EXCEPT ![j] = "execute"]
                /\ next' = [next EXCEPT ![j] = 1]
                /\ UNCHANGED version
          /\ UNCHANGED <<client, dbVars, deaths, broken>>

\* Faulty variant: a plain CREATE TABLE, which fails on a table a dead job has left.
ExecutePlainCreate(j) ==
    /\ pc[j] = "execute"
    /\ LET v == version[j]
           t == Tables[v][next[j]]
       IN  /\ \A u \in Refs[t] : schema[u] # None
           /\ IF schema[t] # None THEN Finish(j, "failed")
              ELSE /\ schema' = [schema EXCEPT ![t] = Content[j][v]]
                   /\ IF next[j] = Len(Tables[v])
                        THEN Then(j, "record") /\ UNCHANGED next
                        ELSE next' = [next EXCEPT ![j] = @ + 1] /\ UNCHANGED pc
                   /\ UNCHANGED <<version, client, lock, meta, stored, deaths, broken>>

\* One CREATE TABLE IF NOT EXISTS; MySQL wants the tables it refers to.
Execute(j) ==
    /\ pc[j] = "execute"
    /\ LET v == version[j]
           t == Tables[v][next[j]]
       IN  /\ \A u \in Refs[t] : schema[u] # None
           /\ schema' = [schema EXCEPT ![t] = IF @ = None THEN Content[j][v] ELSE @]
           /\ IF next[j] = Len(Tables[v])
                THEN Then(j, "record") /\ UNCHANGED next
                ELSE next' = [next EXCEPT ![j] = @ + 1] /\ UNCHANGED pc
    /\ UNCHANGED <<version, client, lock, meta, stored, deaths, broken>>

\* The INSERT; the primary key admits one row of a version.
Record(j) ==
    /\ pc[j] = "record" /\ stored[version[j]] = None
    /\ stored' = [stored EXCEPT ![version[j]] = Content[j][version[j]]]
    /\ version' = [version EXCEPT ![j] = @ + 1]
    /\ Then(j, "check")
    /\ UNCHANGED <<next, client, lock, meta, schema, deaths, broken>>

\* The process ends, the connection breaks, or the context of Up is cancelled.
ClientDies(j) ==
    /\ j \in client /\ deaths < MaxFaults
    /\ deaths' = deaths + 1
    /\ client' = client \ {j}
    /\ pc' = [pc EXCEPT ![j] = IF @ = "check" THEN "idle" ELSE @]
    /\ UNCHANGED <<version, next, dbVars, broken>>

\* The server ends the session, before or after what it was sent.
SessionEnds(j) ==
    /\ pc[j] \in {"lock", "meta", "execute", "record", "idle"} /\ j \notin client
    /\ pc' = [pc EXCEPT ![j] = "failed"]
    /\ lock' = IF lock = j THEN None ELSE lock
    /\ broken' = broken \cup {f \in Files : \E v \in DOMAIN Content[j] :
          /\ v = version[j] /\ f = Content[j][v] /\ stored[v] = None
          /\ \E t \in Range(Tables[v]) : schema[t] = f}
    /\ UNCHANGED <<version, next, client, meta, stored, schema, deaths>>

JobStep(j) == GetLock(j) \/ CreateMeta(j) \/ Check(j) \/ Execute(j) \/ Record(j)

MigrationsNext ==
    \E j \in Jobs :
        \/ Run(j) \/ LockTimeout(j) \/ ClientDies(j) \/ SessionEnds(j)
        \/ JobStep(j)

(***************************************************************************)
(* Properties.                                                             *)
(***************************************************************************)

\* Type invariant.
MigrationsTypeOK ==
    /\ pc \in [Jobs -> {"off", "lock", "meta", "check", "execute", "record",
                        "idle", "failed", "refused", "done"}]
    /\ version \in [Jobs -> 1..(Len(Tables) + 1)]
    /\ next \in [Jobs -> Nat]
    /\ client \subseteq Jobs
    /\ lock \in Jobs \cup {None}
    /\ meta \in BOOLEAN
    /\ stored \in [Versions -> Files \cup {None}]
    /\ schema \in [AllTables -> Files \cup {None}]
    /\ deaths \in 0..MaxFaults
    /\ broken \subseteq Files

\* A checksum in schema_migrations stands for what was executed: every table of the
\* version exists, and if another file made it, that file was broken off half-way and
\* never recorded.  IF NOT EXISTS alone would let two jobs mix their files.
RecordedIsApplied ==
    \A v \in Versions : stored[v] # None =>
        \A t \in Range(Tables[v]) : schema[t] \in {stored[v]} \cup broken

\* No job, and no session of a dead job, is ahead of the record: a table appears only
\* when every earlier version is recorded, a statement finds the tables it refers to,
\* and the row a session inserts is not there yet.
AppliedInOrder ==
    /\ \A v, w \in Versions, t \in AllTables :
          t \in Range(Tables[v]) /\ schema[t] # None /\ w < v => stored[w] # None
    /\ \A j \in Jobs :
          /\ pc[j] = "execute" =>
                \A t \in Refs[Tables[version[j]][next[j]]] : schema[t] # None
          /\ pc[j] = "record" => stored[version[j]] = None

\* The two together: schema_migrations and the schema agree at every moment, however
\* jobs and the sessions of dead jobs interleave.
SchemaIsSound == RecordedIsApplied /\ AppliedInOrder

\* What apply takes a stored checksum for (its error says that a file "was modified
\* after being applied"): the recorded file itself made every table of its version.
\* It does not hold: the tables of a file that broke off after some of its statements
\* stay, and IF NOT EXISTS lets the next file of that version pass over them.
ChecksumStandsForFile ==
    \A v \in Versions : stored[v] # None =>
        \A t \in Range(Tables[v]) : schema[t] = stored[v]

\* While clients die only so often, every job gets its answer in the end: the schema
\* is current, or one of its files was changed after it had been applied.
EveryJobEnds == \A j \in Jobs : <>[](pc[j] \in {"done", "refused"})
=============================================================================

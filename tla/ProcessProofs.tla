---------------------------- MODULE ProcessProofs ----------------------------
(***************************************************************************)
(* Proofs about Migrations and Process for every number of jobs, releases, *)
(* versions and tables and any number of deaths.                           *)
(***************************************************************************)
EXTENDS Process, TLAPS

(***************************************************************************)
(* The invariant of the migration jobs.                                    *)
(***************************************************************************)

\* Between GET_LOCK and its end a session has the lock, also when its client is gone.
SessionHasLock ==
    \A j \in Jobs : pc[j] \in {"meta", "check", "execute", "record", "idle"} => lock = j

\* Where a job can be in the files of its release.
VersionInRelease ==
    \A j \in Jobs :
        /\ version[j] <= Len(Content[j]) + 1
        /\ pc[j] \in {"lock", "meta"} => version[j] = 1
        /\ pc[j] \in {"execute", "record"} =>
              version[j] <= Len(Content[j]) /\ stored[version[j]] = None

\* What a job has passed is recorded, with the checksums of its own files.
PassedIsRecorded ==
    \A j \in Jobs :
        /\ pc[j] \in {"check", "execute", "record"} =>
              \A w \in 1..(version[j] - 1) : stored[w] = Content[j][w]
        /\ pc[j] = "done" => \A v \in DOMAIN Content[j] : stored[v] = Content[j][v]

\* Statements that are behind a job have had their effect, its own or that of a file
\* that was broken off.
ExecutedSoFar ==
    \A j \in Jobs :
        /\ pc[j] = "execute" =>
              /\ next[j] \in DOMAIN Tables[version[j]]
              /\ \A k \in 1..(next[j] - 1) :
                    schema[Tables[version[j]][k]] \in {Content[j][version[j]]} \cup broken
        /\ pc[j] = "record" =>
              \A k \in DOMAIN Tables[version[j]] :
                    schema[Tables[version[j]][k]] \in {Content[j][version[j]]} \cup broken

\* A table of a version that is not recorded comes from the session that has the
\* lock, or from a file that was broken off.
UnrecordedTables ==
    \A v \in Versions : \A t \in Range(Tables[v]) :
        stored[v] = None /\ schema[t] # None =>
            \/ schema[t] \in broken
            \/ \E j \in Jobs :
                  /\ pc[j] \in {"execute", "record", "idle"}
                  /\ version[j] = v /\ v <= Len(Content[j])
                  /\ schema[t] = Content[j][v]

\* A table appears only when every earlier version is recorded.
TablesInOrder ==
    \A v, w \in Versions, t \in AllTables :
        t \in Range(Tables[v]) /\ schema[t] # None /\ w < v => stored[w] # None

MigrationsInv ==
    /\ MigrationsTypeOK
    /\ SessionHasLock
    /\ VersionInRelease
    /\ PassedIsRecorded
    /\ ExecutedSoFar
    /\ UnrecordedTables
    /\ RecordedIsApplied
    /\ TablesInOrder

(***************************************************************************)
(* The invariant of the process.                                           *)
(***************************************************************************)

\* What main has opened by each step of its start.
OpenedSoFar ==
    /\ phase = "starting" =>
          /\ started >= 1 => "mysql" \in open
          /\ started >= 2 => "redis" \in open
          /\ started >= 3 => "rabbit" \in open
          /\ started >= 5 => "outboxPublisher" \in open
          /\ started >= 6 => "chatPublisher" \in open
    /\ phase = "starting" => started < Len(Startup)
    /\ phase \in {"serving", "draining"} => open = Resources
    /\ phase \in {"off", "dead"} => open = {} /\ sending = {}
    /\ Publishers \cap open # {} => "rabbit" \in open

\* The states the parts can be in, phase by phase.
PartsFollowPhase ==
    \A c \in Components :
        /\ phase \in {"off", "dead"} => state[c] = "off"
        /\ phase = "starting" => state[c] \in {"off", "running"}
        /\ phase = "starting" /\ state[c] = "running" => Uses(c) \subseteq open
        /\ phase = "draining" => state[c] \in {"told", "stopped", "left"}
        /\ phase \in {"closing", "exited"} => state[c] \in {"stopped", "left"}

\* A publication holds the connection: Close of its publisher waits for it first.
SendersHoldRabbit ==
    \A c \in sending : Uses(c) \cap Publishers # {} /\ "rabbit" \in open

ServerInv ==
    /\ TypeOK
    /\ OpenedSoFar
    /\ PartsFollowPhase
    /\ SendersHoldRabbit

\* With the jobs: a process runs after the job of its release.
ProcessInv ==
    /\ MigrationsInv
    /\ ServerInv
    /\ phase # "off" => pc[Release] = "done"

-----------------------------------------------------------------------------

\* What the assumptions say of the files, in the form the proofs use.
LEMMA FilesFacts ==
    /\ Len(Tables) \in Nat
    /\ Versions = 1..Len(Tables)
    /\ \A v \in Versions :
          /\ Len(Tables[v]) \in Nat \ {0}
          /\ DOMAIN Tables[v] = 1..Len(Tables[v])
          /\ \A i \in DOMAIN Tables[v] : Tables[v][i] \in Range(Tables[v])
          /\ \A t \in Range(Tables[v]) :
                t \in AllTables /\ \E i \in DOMAIN Tables[v] : t = Tables[v][i]
    /\ \A j \in Jobs :
          /\ Len(Content[j]) \in Versions
          /\ DOMAIN Content[j] = 1..Len(Content[j])
          /\ \A v \in 1..Len(Content[j]) :
                v \in Versions /\ Content[j][v] \in Files /\ Content[j][v] # None
<1>1. /\ Len(Tables) \in Nat
      /\ Versions = 1..Len(Tables)
  BY MigrationsAssumption DEF Versions
<1>2. ASSUME NEW v \in Versions
      PROVE  /\ Len(Tables[v]) \in Nat \ {0}
             /\ DOMAIN Tables[v] = 1..Len(Tables[v])
             /\ \A i \in DOMAIN Tables[v] : Tables[v][i] \in Range(Tables[v])
             /\ \A t \in Range(Tables[v]) :
                   t \in AllTables /\ \E i \in DOMAIN Tables[v] : t = Tables[v][i]
  <2>1. Tables[v] \in Seq(AllTables) /\ Tables[v] # <<>>
    BY <1>1, MigrationsAssumption
  <2>2. Len(Tables[v]) \in Nat \ {0} /\ DOMAIN Tables[v] = 1..Len(Tables[v])
    BY <2>1
  <2> QED
    BY <2>1, <2>2 DEF Range, AllTables
<1>3. ASSUME NEW j \in Jobs
      PROVE  /\ Len(Content[j]) \in Versions
             /\ DOMAIN Content[j] = 1..Len(Content[j])
             /\ \A v \in 1..Len(Content[j]) :
                   v \in Versions /\ Content[j][v] \in Files /\ Content[j][v] # None
  <2>1. Content[j] \in Seq(Files) /\ Len(Content[j]) \in Versions /\ None \notin Files
    BY MigrationsAssumption
  <2> QED
    BY <1>1, <2>1
<1> QED
  BY <1>1, <1>2, <1>3

\* The jobs keep the types.
LEMMA MigrationsTypeStep ==
    MigrationsTypeOK /\ VersionInRelease /\ ExecutedSoFar /\ [MigrationsNext]_migrationVars
        => MigrationsTypeOK'
<1> SUFFICES ASSUME MigrationsTypeOK, VersionInRelease, ExecutedSoFar,
                    [MigrationsNext]_migrationVars
             PROVE  MigrationsTypeOK'
  OBVIOUS
<1> USE MigrationsAssumption, FilesFacts DEF MigrationsTypeOK
<1>1. CASE UNCHANGED migrationVars
  BY <1>1 DEF migrationVars, dbVars
<1>2. ASSUME NEW j \in Jobs, Run(j)
      PROVE  MigrationsTypeOK'
  BY <1>2 DEF Run, dbVars
<1>3. ASSUME NEW j \in Jobs, LockTimeout(j)
      PROVE  MigrationsTypeOK'
  BY <1>3 DEF LockTimeout, dbVars
<1>4. ASSUME NEW j \in Jobs, ClientDies(j)
      PROVE  MigrationsTypeOK'
  BY <1>4 DEF ClientDies, dbVars
<1>5. ASSUME NEW j \in Jobs, SessionEnds(j)
      PROVE  MigrationsTypeOK'
  <2>1. broken' \subseteq Files
    BY <1>5 DEF SessionEnds
  <2> QED
    BY <1>5, <2>1 DEF SessionEnds
<1>6. ASSUME NEW j \in Jobs, GetLock(j) \/ CreateMeta(j)
      PROVE  MigrationsTypeOK'
  BY <1>6 DEF GetLock, CreateMeta, Then
<1>7. ASSUME NEW j \in Jobs, Check(j)
      PROVE  MigrationsTypeOK'
  <2>1. CASE Finish(j, "done") \/ Finish(j, "refused")
    BY <2>1 DEF Finish
  <2>2. CASE /\ version[j] <= Len(Content[j])
             /\ version' = [version EXCEPT ![j] = @ + 1]
             /\ UNCHANGED <<pc, next, client, dbVars, deaths, broken>>
    <3>1. version[j] + 1 \in 1..(Len(Tables) + 1)
      BY <2>2
    <3> QED
      BY <2>2, <3>1 DEF dbVars
  <2>3. CASE /\ pc' = [pc EXCEPT ![j] = "execute"]
             /\ next' = [next EXCEPT ![j] = 1]
             /\ UNCHANGED <<version, client, dbVars, deaths, broken>>
    BY <2>3 DEF dbVars
  <2> QED
    BY <1>7, <2>1, <2>2, <2>3 DEF Check
<1>8. ASSUME NEW j \in Jobs, Execute(j)
      PROVE  MigrationsTypeOK'
  <2>1. /\ version[j] \in 1..Len(Content[j])
        /\ Content[j][version[j]] \in Files
    BY <1>8 DEF Execute, VersionInRelease
  <2>2. pc' \in [Jobs -> {"off", "lock", "meta", "check", "execute", "record",
                         "idle", "failed", "refused", "done"}]
    BY <1>8 DEF Execute, Then
  <2>3. next' \in [Jobs -> Nat]
    BY <1>8 DEF Execute
  <2> QED
    BY <1>8, <2>1, <2>2, <2>3 DEF Execute
<1>9. ASSUME NEW j \in Jobs, Record(j)
      PROVE  MigrationsTypeOK'
  <2>1. /\ version[j] \in 1..Len(Content[j])
        /\ Content[j][version[j]] \in Files
    BY <1>9 DEF Record, VersionInRelease
  <2> QED
    BY SMTT(30), <1>9, <2>1 DEF Record, Then
<1> QED
  BY <1>1, <1>2, <1>3, <1>4, <1>5, <1>6, <1>7, <1>8, <1>9 DEF MigrationsNext, JobStep

\* A step that leaves the schema alone, and every job that may have made a table of it.
LEMMA MakersStay ==
    ASSUME UnrecordedTables, stored' = stored, schema' = schema, broken' = broken,
           \A k \in Jobs : pc[k] \in {"execute", "record", "idle"} =>
              pc'[k] \in {"execute", "record", "idle"} /\ version'[k] = version[k]
    PROVE  UnrecordedTables'
BY DEF UnrecordedTables

\* Each action of a job keeps the invariant.
LEMMA MigrationsStep == MigrationsInv /\ [MigrationsNext]_migrationVars => MigrationsInv'
<1> SUFFICES ASSUME MigrationsInv, [MigrationsNext]_migrationVars
             PROVE  MigrationsInv'
  OBVIOUS
<1>0. MigrationsTypeOK'
  BY MigrationsTypeStep DEF MigrationsInv
<1> USE DEF MigrationsInv
<1>1. CASE UNCHANGED migrationVars
  <2>1. SessionHasLock'
    BY <1>1 DEF migrationVars, dbVars, SessionHasLock
  <2>2. VersionInRelease'
    BY <1>1 DEF migrationVars, dbVars, VersionInRelease
  <2>3. PassedIsRecorded'
    BY <1>1 DEF migrationVars, dbVars, PassedIsRecorded
  <2>4. ExecutedSoFar'
    BY <1>1 DEF migrationVars, dbVars, ExecutedSoFar
  <2>5. UnrecordedTables'
    BY <1>1 DEF migrationVars, dbVars, UnrecordedTables
  <2>6. RecordedIsApplied'
    BY <1>1 DEF migrationVars, dbVars, RecordedIsApplied
  <2>7. TablesInOrder'
    BY <1>1 DEF migrationVars, dbVars, TablesInOrder
  <2> QED
    BY <1>0, <2>1, <2>2, <2>3, <2>4, <2>5, <2>6, <2>7
<1>2. ASSUME NEW j \in Jobs, Run(j)
      PROVE  MigrationsInv'
  <2>1. SessionHasLock'
    BY <1>0, <1>2 DEF MigrationsTypeOK, Run, dbVars, SessionHasLock
  <2>2. VersionInRelease'
    BY <1>0, <1>2 DEF MigrationsTypeOK, Run, dbVars, VersionInRelease
  <2>3. PassedIsRecorded'
    BY <1>0, <1>2 DEF MigrationsTypeOK, Run, dbVars, PassedIsRecorded
  <2>4. ExecutedSoFar'
    BY <1>0, <1>2 DEF MigrationsTypeOK, Run, dbVars, ExecutedSoFar
  <2>5. UnrecordedTables'
    <3>1. \A k \in Jobs : pc[k] \in {"execute", "record", "idle"} =>
                pc'[k] \in {"execute", "record", "idle"} /\ version'[k] = version[k]
      BY <1>2 DEF Run, dbVars, MigrationsTypeOK
    <3> QED
      BY <1>2, <3>1, MakersStay DEF Run, dbVars
  <2>6. RecordedIsApplied'
    BY <1>0, <1>2 DEF MigrationsTypeOK, Run, dbVars, RecordedIsApplied
  <2>7. TablesInOrder'
    BY <1>0, <1>2 DEF MigrationsTypeOK, Run, dbVars, TablesInOrder
  <2> QED
    BY <1>0, <2>1, <2>2, <2>3, <2>4, <2>5, <2>6, <2>7
<1>3. ASSUME NEW j \in Jobs, LockTimeout(j)
      PROVE  MigrationsInv'
  <2>1. SessionHasLock'
    BY <1>0, <1>3 DEF MigrationsTypeOK, LockTimeout, dbVars, SessionHasLock
  <2>2. VersionInRelease'
    BY <1>0, <1>3 DEF MigrationsTypeOK, LockTimeout, dbVars, VersionInRelease
  <2>3. PassedIsRecorded'
    BY <1>0, <1>3 DEF MigrationsTypeOK, LockTimeout, dbVars, PassedIsRecorded
  <2>4. ExecutedSoFar'
    BY <1>0, <1>3 DEF MigrationsTypeOK, LockTimeout, dbVars, ExecutedSoFar
  <2>5. UnrecordedTables'
    <3>1. \A k \in Jobs : pc[k] \in {"execute", "record", "idle"} =>
                pc'[k] \in {"execute", "record", "idle"} /\ version'[k] = version[k]
      BY <1>3 DEF LockTimeout, dbVars, MigrationsTypeOK
    <3> QED
      BY <1>3, <3>1, MakersStay DEF LockTimeout, dbVars
  <2>6. RecordedIsApplied'
    BY <1>0, <1>3 DEF MigrationsTypeOK, LockTimeout, dbVars, RecordedIsApplied
  <2>7. TablesInOrder'
    BY <1>0, <1>3 DEF MigrationsTypeOK, LockTimeout, dbVars, TablesInOrder
  <2> QED
    BY <1>0, <2>1, <2>2, <2>3, <2>4, <2>5, <2>6, <2>7
<1>4. ASSUME NEW j \in Jobs, ClientDies(j)
      PROVE  MigrationsInv'
  <2>1. SessionHasLock'
    BY <1>0, <1>4 DEF MigrationsTypeOK, ClientDies, dbVars, SessionHasLock
  <2>2. VersionInRelease'
    BY <1>0, <1>4 DEF MigrationsTypeOK, ClientDies, dbVars, VersionInRelease
  <2>3. PassedIsRecorded'
    BY <1>0, <1>4 DEF MigrationsTypeOK, ClientDies, dbVars, PassedIsRecorded
  <2>4. ExecutedSoFar'
    BY <1>0, <1>4 DEF MigrationsTypeOK, ClientDies, dbVars, ExecutedSoFar
  <2>5. UnrecordedTables'
    <3>1. \A k \in Jobs : pc[k] \in {"execute", "record", "idle"} =>
                pc'[k] \in {"execute", "record", "idle"} /\ version'[k] = version[k]
      BY <1>4 DEF ClientDies, dbVars, MigrationsTypeOK
    <3> QED
      BY <1>4, <3>1, MakersStay DEF ClientDies, dbVars
  <2>6. RecordedIsApplied'
    BY <1>0, <1>4 DEF MigrationsTypeOK, ClientDies, dbVars, RecordedIsApplied
  <2>7. TablesInOrder'
    BY <1>0, <1>4 DEF MigrationsTypeOK, ClientDies, dbVars, TablesInOrder
  <2> QED
    BY <1>0, <2>1, <2>2, <2>3, <2>4, <2>5, <2>6, <2>7
<1>5. ASSUME NEW j \in Jobs, SessionEnds(j)
      PROVE  MigrationsInv'
  <2>1. SessionHasLock'
    BY <1>0, <1>5 DEF MigrationsTypeOK, SessionEnds, SessionHasLock
  <2>2. VersionInRelease'
    BY <1>0, <1>5 DEF MigrationsTypeOK, SessionEnds, VersionInRelease
  <2>3. PassedIsRecorded'
    BY <1>0, <1>5 DEF MigrationsTypeOK, SessionEnds, PassedIsRecorded
  <2>4. ExecutedSoFar'
    BY <1>0, <1>5 DEF MigrationsTypeOK, SessionEnds, ExecutedSoFar
  <2>5. UnrecordedTables'
    <3> SUFFICES ASSUME NEW v \in Versions, NEW t \in Range(Tables[v]),
                        stored'[v] = None, schema'[t] # None
                 PROVE  \/ schema'[t] \in broken'
                        \/ \E k \in Jobs :
                              /\ pc'[k] \in {"execute", "record", "idle"}
                              /\ version'[k] = v /\ v <= Len(Content[k])
                              /\ schema'[t] = Content[k][v]
      BY DEF UnrecordedTables
    <3>1. CASE schema[t] \in broken
      BY <1>5, <3>1 DEF SessionEnds
    <3>2. ASSUME NEW k \in Jobs,
                 pc[k] \in {"execute", "record", "idle"},
                 version[k] = v, v <= Len(Content[k]), schema[t] = Content[k][v]
          PROVE  \/ schema'[t] \in broken'
                 \/ /\ pc'[k] \in {"execute", "record", "idle"}
                    /\ version'[k] = v /\ v <= Len(Content[k])
                    /\ schema'[t] = Content[k][v]
      <4>1. CASE k = j
        <5>1. v \in DOMAIN Content[j] /\ Content[j][v] \in Files
          BY <3>2, <4>1, FilesFacts
        <5> QED
          BY <1>5, <3>2, <4>1, <5>1 DEF SessionEnds
      <4>2. CASE k # j
        BY <1>5, <3>2, <4>2 DEF SessionEnds, MigrationsTypeOK
      <4> QED
        BY <4>1, <4>2
    <3> QED
      BY <1>5, <3>1, <3>2 DEF SessionEnds, UnrecordedTables
  <2>6. RecordedIsApplied'
    BY <1>0, <1>5 DEF MigrationsTypeOK, SessionEnds, RecordedIsApplied
  <2>7. TablesInOrder'
    BY <1>0, <1>5 DEF MigrationsTypeOK, SessionEnds, TablesInOrder
  <2> QED
    BY <1>0, <2>1, <2>2, <2>3, <2>4, <2>5, <2>6, <2>7
<1>6. ASSUME NEW j \in Jobs, GetLock(j)
      PROVE  MigrationsInv'
  <2>1. SessionHasLock'
    BY <1>0, <1>6, MigrationsAssumption DEF MigrationsTypeOK, GetLock, Then, SessionHasLock
  <2>2. VersionInRelease'
    BY <1>0, <1>6 DEF MigrationsTypeOK, GetLock, Then, VersionInRelease
  <2>3. PassedIsRecorded'
    BY <1>0, <1>6 DEF MigrationsTypeOK, GetLock, Then, PassedIsRecorded
  <2>4. ExecutedSoFar'
    BY <1>0, <1>6 DEF MigrationsTypeOK, GetLock, Then, ExecutedSoFar
  <2>5. UnrecordedTables'
    <3>1. \A k \in Jobs : pc[k] \in {"execute", "record", "idle"} =>
                pc'[k] \in {"execute", "record", "idle"} /\ version'[k] = version[k]
      BY <1>6 DEF GetLock, Then, MigrationsTypeOK
    <3> QED
      BY <1>6, <3>1, MakersStay DEF GetLock, Then
  <2>6. RecordedIsApplied'
    BY <1>0, <1>6 DEF MigrationsTypeOK, GetLock, Then, RecordedIsApplied
  <2>7. TablesInOrder'
    BY <1>0, <1>6 DEF MigrationsTypeOK, GetLock, Then, TablesInOrder
  <2> QED
    BY <1>0, <2>1, <2>2, <2>3, <2>4, <2>5, <2>6, <2>7
<1>7. ASSUME NEW j \in Jobs, CreateMeta(j)
      PROVE  MigrationsInv'
  <2>1. SessionHasLock'
    BY <1>0, <1>7 DEF MigrationsTypeOK, CreateMeta, Then, SessionHasLock
  <2>2. VersionInRelease'
    BY <1>0, <1>7 DEF MigrationsTypeOK, CreateMeta, Then, VersionInRelease
  <2>3. PassedIsRecorded'
    <3>1. version[j] = 1
      BY <1>7 DEF CreateMeta, VersionInRelease
    <3> QED
      BY <1>7, <3>1 DEF MigrationsTypeOK, CreateMeta, Then, PassedIsRecorded
  <2>4. ExecutedSoFar'
    BY <1>0, <1>7 DEF MigrationsTypeOK, CreateMeta, Then, ExecutedSoFar
  <2>5. UnrecordedTables'
    <3>1. \A k \in Jobs : pc[k] \in {"execute", "record", "idle"} =>
                pc'[k] \in {"execute", "record", "idle"} /\ version'[k] = version[k]
      BY <1>7 DEF CreateMeta, Then, MigrationsTypeOK
    <3> QED
      BY <1>7, <3>1, MakersStay DEF CreateMeta, Then
  <2>6. RecordedIsApplied'
    BY <1>0, <1>7 DEF MigrationsTypeOK, CreateMeta, Then, RecordedIsApplied
  <2>7. TablesInOrder'
    BY <1>0, <1>7 DEF MigrationsTypeOK, CreateMeta, Then, TablesInOrder
  <2> QED
    BY <1>0, <2>1, <2>2, <2>3, <2>4, <2>5, <2>6, <2>7
<1>8. ASSUME NEW j \in Jobs, Check(j)
      PROVE  MigrationsInv'
  <2> DEFINE v == version[j]
  <2>0. pc[j] = "check" /\ lock = j /\ v \in Nat \ {0} /\ Len(Content[j]) \in Nat
    BY <1>8, FilesFacts DEF Check, SessionHasLock, MigrationsTypeOK
  <2>1. RecordedIsApplied' /\ TablesInOrder'
    BY <1>8 DEF Check, Finish, dbVars, RecordedIsApplied, TablesInOrder
  <2>2. UnrecordedTables'
    <3>1. /\ stored' = stored /\ schema' = schema /\ broken' = broken
          /\ \A k \in Jobs \ {j} : pc'[k] = pc[k] /\ version'[k] = version[k]
      BY <1>8 DEF Check, Finish, dbVars, MigrationsTypeOK
    <3> QED
      BY <2>0, <3>1, MakersStay
  <2>3. CASE /\ v > Len(Content[j]) /\ Finish(j, "done")
    <3>1. SessionHasLock' /\ VersionInRelease'
      BY <2>0, <2>3, MigrationsAssumption DEF Finish, MigrationsTypeOK, SessionHasLock, VersionInRelease
    <3>2. ExecutedSoFar'
      BY <2>3 DEF Finish, MigrationsTypeOK, ExecutedSoFar
    <3>3. PassedIsRecorded'
      <4>1. \A w \in DOMAIN Content[j] : w \in 1..(v - 1)
        BY <2>0, <2>3, FilesFacts
      <4>2. \A w \in DOMAIN Content[j] : stored[w] = Content[j][w]
        BY <2>0, <4>1 DEF PassedIsRecorded
      <4> QED
        BY <2>3, <4>2 DEF Finish, MigrationsTypeOK, PassedIsRecorded
    <3> QED
      BY <1>0, <2>1, <2>2, <3>1, <3>2, <3>3
  <2>4. CASE Finish(j, "refused")
    <3>1. SessionHasLock' /\ VersionInRelease'
      BY <2>0, <2>4, MigrationsAssumption DEF Finish, MigrationsTypeOK, SessionHasLock, VersionInRelease
    <3>2. ExecutedSoFar'
      BY <2>4 DEF Finish, MigrationsTypeOK, ExecutedSoFar
    <3>3. PassedIsRecorded'
      BY <2>4 DEF Finish, MigrationsTypeOK, PassedIsRecorded
    <3> QED
      BY <1>0, <2>1, <2>2, <3>1, <3>2, <3>3
  <2>5. CASE /\ v <= Len(Content[j])
             /\ stored[v] = Content[j][v]
             /\ version' = [version EXCEPT ![j] = @ + 1]
             /\ UNCHANGED <<pc, next, client, dbVars, deaths, broken>>
    <3>1. SessionHasLock'
      BY <2>5 DEF dbVars, SessionHasLock
    <3>2. VersionInRelease'
      BY <2>0, <2>5 DEF dbVars, MigrationsTypeOK, VersionInRelease
    <3>3. ExecutedSoFar'
      BY <2>0, <2>5 DEF dbVars, MigrationsTypeOK, ExecutedSoFar
    <3>4. PassedIsRecorded'
      <4>1. \A w \in 1..v : stored[w] = Content[j][w]
        <5>1. \A w \in 1..v : w = v \/ w \in 1..(v - 1)
          BY <2>0
        <5> QED
          BY <2>0, <2>5, <5>1 DEF PassedIsRecorded
      <4>2. version'[j] - 1 = v
        BY <2>0, <2>5 DEF MigrationsTypeOK
      <4> QED
        BY <2>0, <2>5, <4>1, <4>2 DEF dbVars, MigrationsTypeOK, PassedIsRecorded
    <3> QED
      BY <1>0, <2>1, <2>2, <3>1, <3>2, <3>3, <3>4
  <2>6. CASE /\ v <= Len(Content[j])
             /\ stored[v] = None
             /\ pc' = [pc EXCEPT ![j] = "execute"]
             /\ next' = [next EXCEPT ![j] = 1]
             /\ UNCHANGED <<version, client, dbVars, deaths, broken>>
    <3>1. SessionHasLock' /\ VersionInRelease'
      BY <2>0, <2>6 DEF dbVars, MigrationsTypeOK, SessionHasLock, VersionInRelease
    <3>2. ExecutedSoFar'
      <4>1. 1 \in DOMAIN Tables[v]
        BY <2>0, <2>6, FilesFacts
      <4> QED
        BY <2>6, <4>1 DEF dbVars, MigrationsTypeOK, ExecutedSoFar
    <3>3. PassedIsRecorded'
      BY <2>0, <2>6 DEF dbVars, MigrationsTypeOK, PassedIsRecorded
    <3> QED
      BY <1>0, <2>1, <2>2, <3>1, <3>2, <3>3
  <2> QED
    BY <1>8, <2>3, <2>4, <2>5, <2>6 DEF Check
<1>9. ASSUME NEW j \in Jobs, Execute(j)
      PROVE  MigrationsInv'
  <2> DEFINE v == version[j]
             t == Tables[v][next[j]]
             f == Content[j][v]
  <2>0. /\ pc[j] = "execute" /\ lock = j
        /\ v \in 1..Len(Content[j]) /\ v \in Versions /\ v \in Nat /\ v \in DOMAIN Content[j]
        /\ f \in Files /\ f # None /\ stored[v] = None
        /\ next[j] \in DOMAIN Tables[v] /\ t \in Range(Tables[v]) /\ t \in AllTables
        /\ DOMAIN Tables[v] = 1..Len(Tables[v]) /\ Len(Tables[v]) \in Nat \ {0}
    BY <1>9, FilesFacts
    DEF Execute, SessionHasLock, MigrationsTypeOK, VersionInRelease, ExecutedSoFar
  <2>1. /\ stored' = stored /\ broken' = broken /\ version' = version /\ lock' = lock
        /\ schema' = [schema EXCEPT ![t] = IF @ = None THEN f ELSE @]
        /\ \A k \in Jobs \ {j} : pc'[k] = pc[k] /\ next'[k] = next[k]
        /\ pc'[j] \in {"execute", "record", "idle"}
    BY <1>9, <2>0 DEF Execute, Then, MigrationsTypeOK
  <2>2. /\ schema'[t] # None
        /\ \A u \in AllTables : schema[u] # None => schema'[u] = schema[u]
        /\ \A u \in AllTables \ {t} : schema'[u] = schema[u]
        /\ schema[t] = None => schema'[t] = f
    BY <2>0, <2>1 DEF MigrationsTypeOK
  <2>3. \A k \in Jobs \ {j} : pc[k] \notin {"meta", "check", "execute", "record", "idle"}
    BY <2>0 DEF SessionHasLock
  <2>4. schema'[t] \in {f} \cup broken
    <3>1. CASE schema[t] = None
      BY <2>2, <3>1
    <3>2. CASE schema[t] # None
      <4>1. \/ schema[t] \in broken
            \/ \E k \in Jobs :
                  /\ pc[k] \in {"execute", "record", "idle"}
                  /\ schema[t] = Content[k][v]
        BY <2>0, <3>2 DEF UnrecordedTables
      <4> QED
        BY <2>0, <2>2, <2>3, <3>2, <4>1
    <3> QED
      BY <3>1, <3>2
  <2>5. SessionHasLock'
    BY <2>0, <2>1 DEF SessionHasLock
  <2>6. VersionInRelease'
    BY <2>0, <2>1 DEF VersionInRelease
  <2>7. PassedIsRecorded'
    <3>1. \A w \in 1..(v - 1) : stored[w] = Content[j][w]
      BY <2>0 DEF PassedIsRecorded
    <3> QED
      BY <2>0, <2>1, <2>3, <3>1 DEF PassedIsRecorded
  <2>8. ExecutedSoFar'
    <3>1. \A k \in 1..next[j] : schema'[Tables[v][k]] \in {f} \cup broken
      <4> SUFFICES ASSUME NEW k \in 1..next[j]
                   PROVE  schema'[Tables[v][k]] \in {f} \cup broken
        OBVIOUS
      <4>1. CASE k = next[j]
        BY <2>4, <4>1
      <4>2. CASE k # next[j]
        <5>1. k \in 1..(next[j] - 1) /\ k \in DOMAIN Tables[v]
          BY <2>0, <4>2
        <5>2. schema[Tables[v][k]] \in {f} \cup broken
          BY <2>0, <5>1 DEF ExecutedSoFar
        <5>3. Tables[v][k] \in AllTables /\ None \notin {f} \cup broken
          BY <2>0, <5>1, FilesFacts, MigrationsAssumption DEF MigrationsTypeOK
        <5> QED
          BY <2>2, <5>2, <5>3
      <4> QED
        BY <4>1, <4>2
    <3>2. CASE next[j] = Len(Tables[v])
      <4>1. pc'[j] # "execute"
        BY <1>9, <2>0, <3>2 DEF Execute, Then, MigrationsTypeOK
      <4> QED
        BY SMTT(30), <2>0, <2>1, <2>3, <3>1, <3>2, <4>1 DEF ExecutedSoFar
    <3>3. CASE next[j] # Len(Tables[v])
      <4>1. pc'[j] = "execute" /\ next'[j] = next[j] + 1
        BY <1>9, <2>0, <3>3 DEF Execute, MigrationsTypeOK
      <4>2. next'[j] \in DOMAIN Tables[v] /\ 1..(next'[j] - 1) = 1..next[j]
        BY <2>0, <3>3, <4>1
      <4> QED
        BY <2>0, <2>1, <2>3, <3>1, <4>1, <4>2 DEF ExecutedSoFar
    <3> QED
      BY <3>2, <3>3
  <2>9. UnrecordedTables'
    <3> SUFFICES ASSUME NEW w \in Versions, NEW u \in Range(Tables[w]),
                        stored'[w] = None, schema'[u] # None
                 PROVE  \/ schema'[u] \in broken'
                        \/ \E k \in Jobs :
                              /\ pc'[k] \in {"execute", "record", "idle"}
                              /\ version'[k] = w /\ w <= Len(Content[k])
                              /\ schema'[u] = Content[k][w]
      BY DEF UnrecordedTables
    <3>1. CASE u = t
      <4>1. w = v
        BY <2>0, <3>1, FilesAssumption
      <4> QED
        BY <2>0, <2>1, <2>4, <3>1, <4>1
    <3>2. CASE u # t
      <4>1. schema'[u] = schema[u]
        BY <2>2, <3>2, FilesFacts
      <4>2. \/ schema[u] \in broken
            \/ \E k \in Jobs :
                  /\ pc[k] \in {"execute", "record", "idle"}
                  /\ version[k] = w /\ w <= Len(Content[k])
                  /\ schema[u] = Content[k][w]
        BY <2>1, <4>1 DEF UnrecordedTables
      <4> QED
        BY <2>1, <2>3, <4>1, <4>2
    <3> QED
      BY <3>1, <3>2
  <2>10. RecordedIsApplied'
    <3> SUFFICES ASSUME NEW w \in Versions, stored[w] # None, NEW u \in Range(Tables[w])
                 PROVE  schema'[u] \in {stored[w]} \cup broken
      BY <2>1 DEF RecordedIsApplied
    <3>1. u # t
      BY <2>0, FilesAssumption
    <3> QED
      BY <2>2, <3>1, FilesFacts DEF RecordedIsApplied
  <2>11. TablesInOrder'
    <3> SUFFICES ASSUME NEW w \in Versions, NEW x \in Versions, NEW u \in AllTables,
                        u \in Range(Tables[w]), schema'[u] # None, x < w
                 PROVE  stored[x] # None
      BY <2>1 DEF TablesInOrder
    <3>1. CASE u = t
      <4>1. w = v
        BY <2>0, <3>1, FilesAssumption
      <4>2. x \in 1..(v - 1) /\ x \in 1..Len(Content[j])
        BY <2>0, <4>1, FilesFacts
      <4>3. stored[x] = Content[j][x]
        BY <2>0, <4>2 DEF PassedIsRecorded
      <4> QED
        BY <4>2, <4>3, FilesFacts
    <3>2. CASE u # t
      BY <2>2, <3>2 DEF TablesInOrder
    <3> QED
      BY <3>1, <3>2
  <2> QED
    BY <1>0, <2>5, <2>6, <2>7, <2>8, <2>9, <2>10, <2>11
<1>10. ASSUME NEW j \in Jobs, Record(j)
      PROVE  MigrationsInv'
  <2> DEFINE v == version[j]
             f == Content[j][v]
  <2>0. /\ pc[j] = "record" /\ lock = j
        /\ v \in 1..Len(Content[j]) /\ v \in Versions /\ v \in Nat /\ f # None
        /\ Len(Content[j]) \in Nat
    BY <1>10, FilesFacts DEF Record, SessionHasLock, MigrationsTypeOK, VersionInRelease
  <2>1. /\ schema' = schema /\ broken' = broken /\ lock' = lock /\ next' = next
        /\ \A w \in Versions \ {v} : stored'[w] = stored[w]
        /\ stored[v] = None /\ stored'[v] = f
        /\ \A k \in Jobs \ {j} : pc'[k] = pc[k] /\ version'[k] = version[k]
        /\ pc'[j] \in {"check", "idle"} /\ version'[j] = v + 1
    BY <1>10, <2>0 DEF Record, Then, MigrationsTypeOK
  <2>2. \A k \in Jobs \ {j} : pc[k] \notin {"meta", "check", "execute", "record", "idle"}
    BY <2>0 DEF SessionHasLock
  <2>3. SessionHasLock'
    BY <2>0, <2>1 DEF SessionHasLock
  <2>4. VersionInRelease'
    BY <2>0, <2>1, <2>2 DEF VersionInRelease
  <2>5. PassedIsRecorded'
    <3>1. \A w \in 1..v : stored'[w] = Content[j][w]
      <4> SUFFICES ASSUME NEW w \in 1..v PROVE stored'[w] = Content[j][w]
        OBVIOUS
      <4>1. w # v => w \in 1..(v - 1) /\ w \in Versions
        BY <2>0, FilesFacts
      <4> QED
        BY <2>0, <2>1, <4>1 DEF PassedIsRecorded
    <3>2. version'[j] - 1 = v
      BY <2>0, <2>1
    <3>3. \A k \in Jobs \ {j} : pc[k] = "done" =>
              \A w \in DOMAIN Content[k] : stored'[w] = Content[k][w]
      <4> SUFFICES ASSUME NEW k \in Jobs \ {j}, pc[k] = "done", NEW w \in DOMAIN Content[k]
                   PROVE  stored'[w] = Content[k][w]
        OBVIOUS
      <4>1. stored[w] = Content[k][w]
        BY DEF PassedIsRecorded
      <4>2. w \in Versions /\ Content[k][w] # None
        BY FilesFacts
      <4> QED
        BY <2>1, <4>1, <4>2
    <3> QED
      BY <2>0, <2>1, <2>2, <3>1, <3>2, <3>3 DEF PassedIsRecorded
  <2>6. ExecutedSoFar'
    BY <2>0, <2>1, <2>2 DEF ExecutedSoFar
  <2>7. UnrecordedTables'
    <3> SUFFICES ASSUME NEW w \in Versions, NEW u \in Range(Tables[w]),
                        stored'[w] = None, schema[u] # None
                 PROVE  schema[u] \in broken
      BY <2>1 DEF UnrecordedTables
    <3>1. w # v /\ stored[w] = None
      BY <2>0, <2>1
    <3> QED
      BY <2>0, <2>2, <3>1 DEF UnrecordedTables
  <2>8. RecordedIsApplied'
    <3> SUFFICES ASSUME NEW w \in Versions, stored'[w] # None, NEW u \in Range(Tables[w])
                 PROVE  schema[u] \in {stored'[w]} \cup broken
      BY <2>1 DEF RecordedIsApplied
    <3>1. CASE w = v
      <4>1. PICK k \in DOMAIN Tables[v] : u = Tables[v][k]
        BY <2>0, <3>1, FilesFacts
      <4>2. schema[Tables[v][k]] \in {f} \cup broken
        BY <2>0 DEF ExecutedSoFar
      <4> QED
        BY <2>1, <3>1, <4>1, <4>2
    <3>2. CASE w # v
      BY <2>1, <3>2 DEF RecordedIsApplied
    <3> QED
      BY <3>1, <3>2
  <2>9. TablesInOrder'
    <3>1. \A w \in Versions : stored[w] # None => stored'[w] # None
      BY <2>1
    <3> QED
      BY <2>1, <3>1 DEF TablesInOrder
  <2> QED
    BY <1>0, <2>3, <2>4, <2>5, <2>6, <2>7, <2>8, <2>9
<1> QED
  BY <1>1, <1>2, <1>3, <1>4, <1>5, <1>6, <1>7, <1>8, <1>9, <1>10 DEF MigrationsNext, JobStep

-----------------------------------------------------------------------------

\* The first state.
LEMMA ProcessInit == Init => ProcessInv
<1> SUFFICES ASSUME Init PROVE ProcessInv
  OBVIOUS
<1> USE MigrationsAssumption, FilesFacts DEF Init, MigrationsInit, ServerInit
<1>1. MigrationsTypeOK
  <2>1. version \in [Jobs -> 1..(Len(Tables) + 1)] /\ deaths \in 0..MaxFaults
    OBVIOUS
  <2> QED
    BY <2>1 DEF MigrationsTypeOK
<1>2. SessionHasLock /\ VersionInRelease /\ PassedIsRecorded /\ ExecutedSoFar
  BY DEF SessionHasLock, VersionInRelease, PassedIsRecorded, ExecutedSoFar
<1>3. UnrecordedTables /\ RecordedIsApplied /\ TablesInOrder
  BY DEF UnrecordedTables, RecordedIsApplied, TablesInOrder
<1>4. TypeOK
  BY <1>1 DEF TypeOK, Startup
<1>5. OpenedSoFar /\ PartsFollowPhase /\ SendersHoldRabbit
  BY DEF OpenedSoFar, PartsFollowPhase, SendersHoldRabbit
<1> QED
  BY <1>1, <1>2, <1>3, <1>4, <1>5 DEF ProcessInv, MigrationsInv, ServerInv

\* Close takes the connection to RabbitMQ only when no publisher is open.
LEMMA CloseOrder ==
    ASSUME open \subseteq Resources, open # {}
    PROVE  ToClose \in open /\ (ToClose = "rabbit" => Publishers \cap open = {})
<1> DEFINE Last(r) ==
        r \in open /\ \A i, j \in DOMAIN Startup : Startup[i] = r /\ Startup[j] \in open => j <= i
<1> USE DEF Startup, Resources, Publishers
<1>1. \E r : Last(r)
  <2>1. CASE "chatPublisher" \in open
    <3>1. Last("chatPublisher")
      BY <2>1
    <3> QED
      BY <3>1
  <2>2. CASE "outboxPublisher" \in open /\ "chatPublisher" \notin open
    <3>1. Last("outboxPublisher")
      BY <2>2
    <3> QED
      BY <3>1
  <2>3. CASE "rabbit" \in open /\ Publishers \cap open = {}
    <3>1. Last("rabbit")
      BY <2>3
    <3> QED
      BY <3>1
  <2>4. CASE "redis" \in open /\ "rabbit" \notin open /\ Publishers \cap open = {}
    <3>1. Last("redis")
      BY <2>4
    <3> QED
      BY <3>1
  <2>5. CASE open = {"mysql"}
    <3>1. Last("mysql")
      BY <2>5
    <3> QED
      BY <3>1
  <2> QED
    BY <2>1, <2>2, <2>3, <2>4, <2>5
<1>2. Last(ToClose)
  BY <1>1 DEF ToClose
<1>3. ASSUME ToClose = "rabbit", NEW p \in Publishers \cap open
      PROVE  FALSE
  <2>1. 3 \in DOMAIN Startup /\ Startup[3] = "rabbit"
    OBVIOUS
  <2>2. \E i \in DOMAIN Startup : Startup[i] = p /\ i > 3
    BY <1>3
  <2> QED
    BY <1>2, <1>3, <2>1, <2>2
<1> QED
  BY <1>2, <1>3

\* Each action of the process keeps its invariant.
LEMMA ServerStep ==
    ServerInv /\ MigrationsInv' /\ ServerNext => ServerInv'
<1> SUFFICES ASSUME ServerInv, MigrationsInv', ServerNext PROVE ServerInv'
  OBVIOUS
<1>0. MigrationsTypeOK'
  BY DEF MigrationsInv
<1> USE DEF ServerInv
<1>1. CASE Start
  <2>1. TypeOK'
    BY <1>0, <1>1 DEF TypeOK, Start, TypeOK
  <2>2. OpenedSoFar'
    BY <1>0, <1>1 DEF TypeOK, Start, OpenedSoFar, Startup, Publishers
  <2>3. PartsFollowPhase'
    BY <1>0, <1>1 DEF TypeOK, Start, PartsFollowPhase
  <2>4. SendersHoldRabbit'
    BY <1>0, <1>1 DEF TypeOK, Start, SendersHoldRabbit
  <2> QED
    BY <2>1, <2>2, <2>3, <2>4
<1>2. CASE StartStep
  <2>0. Len(Startup) = 10 /\ started \in 0..9
    BY <1>2 DEF StartStep, OpenedSoFar, TypeOK, Startup
  <2>1. TypeOK'
    BY <1>0, <1>2, <2>0 DEF TypeOK, StartStep
  <2>2. OpenedSoFar'
    <3> DEFINE s == Startup[started + 1]
    <3>1. /\ started = 0 => s = "mysql"
          /\ started = 1 => s = "redis"
          /\ started = 2 => s = "rabbit"
          /\ started = 3 => s = "topology"
          /\ started = 4 => s = "outboxPublisher"
          /\ started = 5 => s = "chatPublisher"
          /\ started > 5 => s \in Components
      BY <2>0 DEF Startup, Components
    <3>2. /\ phase = "starting" /\ started' = started + 1 /\ sending' = sending
          /\ open' = open \cup ({s} \cap Resources)
          /\ phase' = IF started = 9 THEN "serving" ELSE "starting"
      BY <1>2, <2>0 DEF StartStep
    <3>3. /\ started' >= 1 => "mysql" \in open'
          /\ started' >= 2 => "redis" \in open'
          /\ started' >= 3 => "rabbit" \in open'
          /\ started' >= 5 => "outboxPublisher" \in open'
          /\ started' >= 6 => "chatPublisher" \in open'
      <4>0. {"mysql", "redis", "rabbit", "outboxPublisher", "chatPublisher"} \subseteq Resources
        BY DEF Resources, Publishers
      <4> HIDE DEF s
      <4>1. started' >= 1 => "mysql" \in open'
        <5>1. CASE started = 0
          BY <3>1, <3>2, <4>0, <5>1
        <5>2. CASE started >= 1
          BY <3>2, <5>2 DEF OpenedSoFar
        <5> QED
          BY <2>0, <3>2, <5>1, <5>2
      <4>2. started' >= 2 => "redis" \in open'
        <5>1. CASE started = 1
          BY <3>1, <3>2, <4>0, <5>1
        <5>2. CASE started >= 2
          BY <3>2, <5>2 DEF OpenedSoFar
        <5> QED
          BY <2>0, <3>2, <5>1, <5>2
      <4>3. started' >= 3 => "rabbit" \in open'
        <5>1. CASE started = 2
          BY <3>1, <3>2, <4>0, <5>1
        <5>2. CASE started >= 3
          BY <3>2, <5>2 DEF OpenedSoFar
        <5> QED
          BY <2>0, <3>2, <5>1, <5>2
      <4>4. started' >= 5 => "outboxPublisher" \in open'
        <5>1. CASE started = 4
          BY <3>1, <3>2, <4>0, <5>1
        <5>2. CASE started >= 5
          BY <3>2, <5>2 DEF OpenedSoFar
        <5> QED
          BY <2>0, <3>2, <5>1, <5>2
      <4>5. started' >= 6 => "chatPublisher" \in open'
        <5>1. CASE started = 5
          BY <3>1, <3>2, <4>0, <5>1
        <5>2. CASE started >= 6
          BY <3>2, <5>2 DEF OpenedSoFar
        <5> QED
          BY <2>0, <3>2, <5>1, <5>2
      <4> QED
        BY <4>1, <4>2, <4>3, <4>4, <4>5
    <3>4. started = 9 => open' = Resources
      <4>1. open' \subseteq Resources
        BY <3>2 DEF TypeOK
      <4> QED
        <5>1. started = 9 => started' >= 1 /\ started' >= 2 /\ started' >= 3
                               /\ started' >= 5 /\ started' >= 6
          BY <3>2
        <5> QED
          BY <3>3, <4>1, <5>1 DEF Resources, Publishers
    <3>5. Publishers \cap open' # {} => "rabbit" \in open'
      BY <2>0, <3>1, <3>2, <3>3 DEF OpenedSoFar, Publishers, Components
    <3> QED
      BY <2>0, <3>2, <3>3, <3>4, <3>5 DEF OpenedSoFar
  <2>3. PartsFollowPhase'
    <3> DEFINE s == Startup[started + 1]
    <3>1. /\ started = 6 => s = "subscriber"
          /\ started = 7 => s = "consumer"
          /\ started = 8 => s = "relay"
          /\ started = 9 => s = "http"
          /\ started < 6 => s \notin Components
      BY <2>0 DEF Startup, Components
    <3>2. /\ phase = "starting" /\ started' = started + 1
          /\ phase' = IF started = 9 THEN "serving" ELSE "starting"
          /\ open \subseteq open'
          /\ \A c \in Components : state'[c] =
                IF c = s \/ (c = "websocket" /\ s = "http") THEN "running" ELSE state[c]
      BY <1>2, <2>0 DEF StartStep
    <3>3. \A c \in Components : c = s \/ (c = "websocket" /\ s = "http") => Uses(c) \subseteq open'
      BY <2>0, <2>2, <3>1, <3>2 DEF Components, Uses, OpenedSoFar
    <3> QED
      BY <2>0, <3>1, <3>2, <3>3 DEF PartsFollowPhase
  <2>4. SendersHoldRabbit'
    BY <1>0, <1>2 DEF TypeOK, StartStep, SendersHoldRabbit
  <2> QED
    BY <2>1, <2>2, <2>3, <2>4
<1>3. CASE Dies
  <2>1. TypeOK'
    BY <1>0, <1>3 DEF TypeOK, Dies, TypeOK
  <2>2. OpenedSoFar'
    BY <1>0, <1>3 DEF TypeOK, Dies, OpenedSoFar
  <2>3. PartsFollowPhase'
    BY <1>0, <1>3 DEF TypeOK, Dies, PartsFollowPhase
  <2>4. SendersHoldRabbit'
    BY <1>0, <1>3 DEF TypeOK, Dies, SendersHoldRabbit
  <2> QED
    BY <2>1, <2>2, <2>3, <2>4
<1>4. CASE Signal
  <2>1. TypeOK'
    BY <1>0, <1>4 DEF TypeOK, Signal, TypeOK
  <2>2. OpenedSoFar'
    BY <1>0, <1>4 DEF TypeOK, Signal, OpenedSoFar
  <2>3. PartsFollowPhase'
    BY <1>0, <1>4 DEF TypeOK, Signal, PartsFollowPhase
  <2>4. SendersHoldRabbit'
    BY <1>0, <1>4 DEF TypeOK, Signal, SendersHoldRabbit
  <2> QED
    BY <2>1, <2>2, <2>3, <2>4
<1>5. CASE Waited
  <2>1. TypeOK'
    BY <1>0, <1>5 DEF TypeOK, Waited, TypeOK
  <2>2. OpenedSoFar'
    BY <1>0, <1>5 DEF TypeOK, Waited, OpenedSoFar
  <2>3. PartsFollowPhase'
    BY <1>0, <1>5 DEF TypeOK, Waited, PartsFollowPhase
  <2>4. SendersHoldRabbit'
    BY <1>0, <1>5 DEF TypeOK, Waited, SendersHoldRabbit
  <2> QED
    BY <2>1, <2>2, <2>3, <2>4
<1>6. CASE Close
  <2>1. TypeOK'
    BY <1>0, <1>6 DEF TypeOK, Close, TypeOK
  <2>2. OpenedSoFar'
    <3>1. /\ phase = "closing" /\ phase' = "closing"
          /\ open \subseteq Resources /\ open # {} /\ open' = open \ {ToClose}
      BY <1>6 DEF Close, TypeOK
    <3>2. Publishers \cap open' # {} => "rabbit" \in open'
      BY <3>1, CloseOrder DEF OpenedSoFar
    <3> QED
      BY <3>1, <3>2 DEF OpenedSoFar
  <2>3. PartsFollowPhase'
    BY <1>0, <1>6 DEF TypeOK, Close, PartsFollowPhase
  <2>4. SendersHoldRabbit'
    <3>1. /\ open \subseteq Resources /\ open # {} /\ open' = open \ {ToClose}
          /\ sending' = sending /\ ~CloseWaits
      BY <1>6 DEF Close, TypeOK
    <3> SUFFICES ASSUME NEW c \in sending
                 PROVE  Uses(c) \cap Publishers # {} /\ "rabbit" \in open'
      BY <3>1 DEF SendersHoldRabbit
    <3>2. Uses(c) \cap Publishers \subseteq open
      BY <3>1 DEF CloseWaits
    <3> QED
      BY <3>1, <3>2, CloseOrder DEF SendersHoldRabbit
  <2> QED
    BY <2>1, <2>2, <2>3, <2>4
<1>7. CASE Exit
  <2>1. TypeOK'
    BY <1>0, <1>7 DEF TypeOK, Exit, TypeOK
  <2>2. OpenedSoFar'
    BY <1>0, <1>7 DEF TypeOK, Exit, OpenedSoFar
  <2>3. PartsFollowPhase'
    BY <1>0, <1>7 DEF TypeOK, Exit, PartsFollowPhase
  <2>4. SendersHoldRabbit'
    BY <1>0, <1>7 DEF TypeOK, Exit, SendersHoldRabbit
  <2> QED
    BY <2>1, <2>2, <2>3, <2>4
<1>8. ASSUME NEW c \in Components, Publish(c)
      PROVE  ServerInv'
  <2>1. TypeOK'
    BY <1>0, <1>8 DEF TypeOK, Publish, TypeOK
  <2>2. OpenedSoFar'
    BY <1>0, <1>8 DEF TypeOK, Publish, OpenedSoFar
  <2>3. PartsFollowPhase'
    BY <1>0, <1>8 DEF TypeOK, Publish, PartsFollowPhase
  <2>4. SendersHoldRabbit'
    BY <1>0, <1>8 DEF TypeOK, Publish, SendersHoldRabbit, OpenedSoFar
  <2> QED
    BY <2>1, <2>2, <2>3, <2>4
<1>9. ASSUME NEW c \in Components, PublishEnds(c)
      PROVE  ServerInv'
  <2>1. TypeOK'
    BY <1>0, <1>9 DEF TypeOK, PublishEnds, TypeOK
  <2>2. OpenedSoFar'
    BY <1>0, <1>9 DEF TypeOK, PublishEnds, OpenedSoFar
  <2>3. PartsFollowPhase'
    BY <1>0, <1>9 DEF TypeOK, PublishEnds, PartsFollowPhase
  <2>4. SendersHoldRabbit'
    BY <1>0, <1>9 DEF TypeOK, PublishEnds, SendersHoldRabbit
  <2> QED
    BY <2>1, <2>2, <2>3, <2>4
<1>10. ASSUME NEW c \in Components, Stops(c)
      PROVE  ServerInv'
  <2>1. TypeOK'
    BY <1>0, <1>10 DEF TypeOK, Stops, TypeOK
  <2>2. OpenedSoFar'
    BY <1>0, <1>10 DEF TypeOK, Stops, OpenedSoFar
  <2>3. PartsFollowPhase'
    BY <1>0, <1>10 DEF TypeOK, Stops, PartsFollowPhase
  <2>4. SendersHoldRabbit'
    BY <1>0, <1>10 DEF TypeOK, Stops, SendersHoldRabbit
  <2> QED
    BY <2>1, <2>2, <2>3, <2>4
<1>11. ASSUME NEW c \in Components, Late(c)
      PROVE  ServerInv'
  <2>1. TypeOK'
    BY <1>0, <1>11 DEF TypeOK, Late, TypeOK
  <2>2. OpenedSoFar'
    BY <1>0, <1>11 DEF TypeOK, Late, OpenedSoFar
  <2>3. PartsFollowPhase'
    BY <1>0, <1>11 DEF TypeOK, Late, PartsFollowPhase
  <2>4. SendersHoldRabbit'
    BY <1>0, <1>11 DEF TypeOK, Late, SendersHoldRabbit
  <2> QED
    BY <2>1, <2>2, <2>3, <2>4
<1> QED
  BY <1>1, <1>2, <1>3, <1>4, <1>5, <1>6, <1>7, <1>8, <1>9, <1>10, <1>11 DEF ServerNext

\* A job that is done stays done.
LEMMA DoneStays ==
    ASSUME MigrationsTypeOK, [MigrationsNext]_migrationVars, NEW j \in Jobs, pc[j] = "done"
    PROVE  pc'[j] = "done"
BY DEF MigrationsTypeOK, MigrationsNext, migrationVars, JobStep, Run, LockTimeout, ClientDies,
       SessionEnds, GetLock, CreateMeta, Check, Finish, Execute, Record, Then

\* The jobs and the process step by turns, and each keeps what the other needs.
LEMMA ProcessStep == ProcessInv /\ [Next]_vars => ProcessInv'
<1> SUFFICES ASSUME ProcessInv, [Next]_vars PROVE ProcessInv'
  OBVIOUS
<1> USE ProcessAssumption DEF ProcessInv
<1>1. CASE [MigrationsNext]_migrationVars /\ UNCHANGED serverVars
  <2>1. MigrationsInv'
    BY <1>1, MigrationsStep
  <2>2. ServerInv'
    <3>1. MigrationsTypeOK'
      BY <2>1 DEF MigrationsInv
    <3> QED
      BY <1>1, <3>1 DEF ServerInv, serverVars, TypeOK, OpenedSoFar, PartsFollowPhase,
                        SendersHoldRabbit
  <2>3. phase' # "off" => pc'[Release] = "done"
    BY <1>1, DoneStays DEF MigrationsInv, serverVars
  <2> QED
    BY <2>1, <2>2, <2>3
<1>2. CASE ServerNext /\ UNCHANGED migrationVars
  <2>1. MigrationsInv'
    BY <1>2, MigrationsStep
  <2>2. ServerInv'
    BY <1>2, <2>1, ServerStep
  <2>3. phase' # "off" => pc'[Release] = "done"
    BY <1>2 DEF ServerNext, migrationVars, Start, StartStep, Dies, Signal, Waited, Close, Exit,
                Publish, PublishEnds, Stops, Late
  <2> QED
    BY <2>1, <2>2, <2>3
<1> QED
  BY <1>1, <1>2 DEF Next, vars

\* The invariant holds in every reachable state.
LEMMA ProcessInvariant == Spec => []ProcessInv
BY ProcessInit, ProcessStep, PTL DEF Spec

\* The schema and its record agree: what the invariant says of statements and rows.
LEMMA SchemaFromInv == MigrationsInv => SchemaIsSound
<1> SUFFICES ASSUME MigrationsInv PROVE AppliedInOrder
  BY DEF MigrationsInv, SchemaIsSound
<1> USE DEF MigrationsInv
<1>1. ASSUME NEW j \in Jobs, pc[j] = "execute",
             NEW t \in Refs[Tables[version[j]][next[j]]]
      PROVE  schema[t] # None
  <2> DEFINE v == version[j]
  <2>1. /\ v \in Versions /\ v \in 1..Len(Content[j]) /\ v \in Nat
        /\ next[j] \in DOMAIN Tables[v] /\ next[j] \in 1..Len(Tables[v])
        /\ Len(Tables[v]) \in Nat /\ DOMAIN Tables[v] = 1..Len(Tables[v])
    BY <1>1, FilesFacts DEF MigrationsTypeOK, VersionInRelease, ExecutedSoFar
  <2>2. None \notin broken /\ Content[j][v] # None
    BY <2>1, FilesFacts, MigrationsAssumption DEF MigrationsTypeOK
  <2>3. CASE \E w \in 1..(v - 1) : t \in Range(Tables[w])
    <3>1. PICK w \in 1..(v - 1) : t \in Range(Tables[w])
      BY <2>3
    <3>2. w \in Versions /\ w \in 1..Len(Content[j])
      BY <2>1, FilesFacts
    <3>3. stored[w] = Content[j][w] /\ stored[w] # None
      BY <1>1, <3>2, FilesFacts DEF PassedIsRecorded
    <3> QED
      BY <2>2, <3>1, <3>2, <3>3 DEF RecordedIsApplied
  <2>4. CASE \E k \in 1..(next[j] - 1) : t = Tables[v][k]
    BY <1>1, <2>2, <2>4 DEF ExecutedSoFar
  <2> QED
    BY <1>1, <2>1, <2>3, <2>4, FilesAssumption
<1> QED
  BY <1>1 DEF AppliedInOrder, TablesInOrder, VersionInRelease

-----------------------------------------------------------------------------

\* Every variable of the jobs and of the process keeps its type.
THEOREM TypeCorrect == Spec => []TypeOK
<1>1. ProcessInv => TypeOK
  BY DEF ProcessInv, ServerInv
<1> QED
  BY <1>1, ProcessInvariant, PTL

\* schema_migrations and the schema agree whatever jobs of any releases, and the
\* sessions that dead jobs leave behind, do to one another: a recorded checksum
\* stands for tables that exist and that this file or a broken-off one created, no
\* table is ahead of the record, and no statement or row meets what it does not expect.
THEOREM SchemaSound == Spec => []SchemaIsSound
<1>1. ProcessInv => SchemaIsSound
  BY SchemaFromInv DEF ProcessInv
<1> QED
  BY <1>1, ProcessInvariant, PTL

\* A server process finds from its start on every version of its release recorded with
\* the release's own file, also while jobs of other releases run, and every table of
\* it made by that file or by one that was broken off half-way.
THEOREM HasSchema == Spec => []ProcessHasSchema
<1>1. ProcessInv => ProcessHasSchema
  <2> SUFFICES ASSUME ProcessInv, phase # "off", NEW v \in DOMAIN Content[Release]
               PROVE  /\ stored[v] = Content[Release][v]
                      /\ \A t \in Range(Tables[v]) :
                            schema[t] \in {Content[Release][v]} \cup broken
    BY DEF ProcessHasSchema
  <2> USE ProcessAssumption DEF ProcessInv, MigrationsInv
  <2>1. v \in Versions /\ Content[Release][v] # None
    BY FilesFacts
  <2>2. stored[v] = Content[Release][v]
    BY DEF PassedIsRecorded
  <2> QED
    BY <2>1, <2>2 DEF RecordedIsApplied
<1> QED
  BY <1>1, ProcessInvariant, PTL

\* Shutdown closes nothing under a part that has stopped in time or still runs, and
\* the connection to RabbitMQ outlives every publication that was admitted.
THEOREM NoCallCut == Spec => []CallsAreNotCut
<1>1. ProcessInv => CallsAreNotCut
  <2> SUFFICES ASSUME ServerInv PROVE CallsAreNotCut
    BY DEF ProcessInv
  <2> USE DEF ServerInv
  <2>1. \A c \in sending : "rabbit" \in open
    BY DEF SendersHoldRabbit
  <2>2. ASSUME NEW c \in Components, Active(c), ~(Uses(c) \subseteq open)
        PROVE  state[c] = "left"
    <3>1. Uses(c) \subseteq Resources
      BY DEF Components, Uses, Resources, Publishers
    <3> QED
      BY <2>2, <3>1 DEF Active, PartsFollowPhase, OpenedSoFar, TypeOK
  <2> QED
    BY <2>1, <2>2 DEF CallsAreNotCut
<1> QED
  BY <1>1, ProcessInvariant, PTL
=============================================================================

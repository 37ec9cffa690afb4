--------------------------- MODULE LoadTestProofs ---------------------------
(***************************************************************************)
(* Proofs about LoadTest for every number of connections, messages and     *)
(* workers, every page size and any number of faults.                      *)
(***************************************************************************)
EXTENDS LoadTest, FiniteSetTheorems, SequenceTheorems, TLAPS

\* What the collector has is what reached the readers: its sets are the messages with
\* a frame, and without counted duplicates there was one frame of each at most.
Collected ==
    /\ acknowledged = {m \in Messages : acks[m] > 0}
    /\ accepted = {m \in acknowledged : outcome[m] = "accepted"}
    /\ rejected = acknowledged \ accepted
    /\ \A m \in acknowledged : outcome[m] # None
    /\ duplicateAcks = 0 => \A m \in Messages : acks[m] <= 1
    /\ \A c \in Clients : delivered[c] = {m \in Messages : events[c][m] > 0}
    /\ duplicateEvents = 0 => \A c \in Clients, m \in Messages : events[c][m] <= 1

\* Every message is answered, and the accepted ones have reached every client.
AllSeen == acknowledged = Messages /\ \A c \in Clients : accepted \subseteq delivered[c]

\* What the main goroutine has found out when it is where it is.  The verdict is given
\* when no reader is left, so that nothing can come after it.
Phases ==
    /\ stage \in {"send", "delivery", "persistence", "counting"} => mode = "chat"
    /\ stage = "hold" => mode = "connections"
    /\ stage \in {"persistence", "counting"} => AllSeen
    /\ Range(found) \subseteq Range(rows)
    /\ stage = "stopping" /\ ~failed /\ mode = "chat" =>
          AllSeen /\ accepted \subseteq Range(rows)
    /\ stage \notin {"ending", "returned"} => verdict = None
    /\ verdict = "passed" => \A c \in Clients : reader[c] = "ended"

\* Who can still run, and which connections are open.
Quiet ==
    /\ stage \notin {"users", "connect"} => \A w \in Workers : busy[w] = None
    /\ stage \in {"setup", "users", "stopping", "ending", "returned"} => conns = {}
    /\ stage \in {"setup", "users", "connect"} => \A c \in Clients : reader[c] = "none"
    /\ stage \in {"ending", "returned"} => \A c \in Clients : reader[c] # "reading"
    /\ stage = "setup" => session = "none"
    /\ stage = "returned" /\ session = "live" => unanswered # {}

IndInv == TypeOK /\ Collected /\ Phases /\ PassedIsSound /\ Quiet

-----------------------------------------------------------------------------

\* There are no more users than connections.
LEMMA UserCountBound == UserCount \in Nat /\ UserCount <= Connections
<1>1. Connections \in Nat \ {0} /\ ConnectionsPerUser \in Nat \ {0}
  BY LoadTestAssumption
<1> DEFINE c == Connections
           p == ConnectionsPerUser
           q == (c + p - 1) \div p
<1>2. c \in Nat \ {0} /\ p \in Nat \ {0} /\ UserCount = q
  BY <1>1 DEF UserCount
<1> HIDE DEF c, p
<1>3. q \in Nat /\ p * q <= c + p - 1
  BY <1>2
<1>4. SUFFICES ASSUME q > c PROVE FALSE
  BY <1>2, <1>3 DEF c
<1>5. PICK d \in Nat : q = c + 1 + d
  <2>1. q - c - 1 \in Nat /\ q = c + 1 + (q - c - 1)
    BY <1>2, <1>3, <1>4
  <2> HIDE DEF q
  <2> QED
    BY <2>1
<1> HIDE DEF q
<1>6. p * q = p * c + p + p * d /\ p * d \in Nat /\ p * c >= c /\ p * c \in Nat
  <2>1. p * q = p * c + p + p * d
    BY <1>2, <1>5
  <2>2. p - 1 \in Nat /\ (p - 1) * c \in Nat /\ p * c = (p - 1) * c + c
    BY <1>2
  <2>3. p * d \in Nat /\ p * c \in Nat
    BY <1>2, <1>5
  <2> QED
    BY <1>2, <2>1, <2>2, <2>3
<1> QED
  BY <1>2, <1>3, <1>6

\* The bounds that the steps rely on.
LEMMA Bounds ==
    /\ Connections \in Nat \ {0} /\ TargetMessages \in Nat \ {0} /\ PageSize \in Nat \ {0}
    /\ MaxFaults \in Nat /\ MaxRejected \in Nat
    /\ Jobs \in Nat /\ Jobs <= Connections
    /\ Messages \subseteq Nat /\ Clients \subseteq Nat
    /\ IsFiniteSet(Messages) /\ IsFiniteSet(Clients)
    /\ Cardinality(Messages) = TargetMessages /\ Cardinality(Clients) = Connections
<1>1. /\ Connections \in Nat \ {0} /\ TargetMessages \in Nat \ {0} /\ PageSize \in Nat \ {0}
      /\ MaxFaults \in Nat /\ MaxRejected \in Nat
  BY LoadTestAssumption
<1>2. Jobs \in Nat /\ Jobs <= Connections
  BY <1>1, UserCountBound DEF Jobs
<1>3. /\ IsFiniteSet(1..Connections) /\ Cardinality(1..Connections) = Connections
      /\ IsFiniteSet(1..TargetMessages) /\ Cardinality(1..TargetMessages) = TargetMessages
  BY <1>1, FS_Interval
<1> QED
  BY <1>1, <1>2, <1>3 DEF Messages, Clients

\* The messages are sent by clients.
LEMMA SenderIsClient == \A m \in Messages : Sender(m) \in Clients
<1>1. Senders \in Nat \ {0} /\ Senders <= Connections /\ Connections \in Nat
  BY LoadTestAssumption
<1>2. \A k \in Nat : k % Senders \in 0..(Senders - 1)
  BY <1>1
<1>3. \A m \in Messages : m - 1 \in Nat
  BY DEF Messages
<1> QED
  BY <1>1, <1>2, <1>3 DEF Sender, Clients

\* The smaller of two numbers.
LEMMA MinOfTwo ==
    ASSUME NEW a \in Nat, NEW b \in Nat
    PROVE  Min({a, b}) = IF a <= b THEN a ELSE b
<1>1. \E x \in {a, b} : (\A y \in {a, b} : x <= y) /\ x = IF a <= b THEN a ELSE b
  OBVIOUS
<1>2. \A x, z \in {a, b} : (\A y \in {a, b} : x <= y) /\ (\A y \in {a, b} : z <= y) => x = z
  OBVIOUS
<1> QED
  BY <1>1, <1>2 DEF Min

\* A page of the history consists of stored rows, and the rows read so far stay rows.
LEMMA PageFacts ==
    ASSUME TypeOK, HistoryPage
    PROVE  /\ cursor' \in Nat /\ found' \in Seq(Messages)
           /\ Range(found') \subseteq Range(found) \cup Range(rows)
<1> DEFINE end == Min({cursor + PageSize, Len(rows)})
           more == SubSeq(rows, cursor + 1, end)
<1>1. cursor \in Nat /\ rows \in Seq(Messages) /\ found \in Seq(Messages) /\ Len(rows) \in Nat
  BY DEF TypeOK
<1>2. end \in Nat /\ end <= Len(rows)
  BY <1>1, Bounds, MinOfTwo
<1>3. cursor' = end /\ found' = found \o more
  BY DEF HistoryPage
<1> HIDE DEF end
<1>4. more \in Seq(Messages) /\ Range(more) \subseteq Range(rows)
  <2>1. /\ Len(more) = IF cursor + 1 <= end THEN end - cursor ELSE 0
        /\ \A i \in 1..Len(more) : more[i] = rows[cursor + i]
        /\ more \in Seq(Messages)
    BY <1>1, <1>2
  <2>2. \A i \in 1..Len(more) : cursor + i \in 1..Len(rows)
    BY <1>1, <1>2, <2>1
  <2>3. DOMAIN more = 1..Len(more) /\ DOMAIN rows = 1..Len(rows)
    BY <1>1, <2>1
  <2> QED
    BY <2>1, <2>2, <2>3 DEF Range
<1> HIDE DEF more
<1>5. found \o more \in Seq(Messages)
  BY <1>1, <1>4
<1>6. Range(found \o more) \subseteq Range(found) \cup Range(more)
  <2>1. \A i \in 1..Len(found \o more) :
           (found \o more)[i] = IF i <= Len(found) THEN found[i] ELSE more[i - Len(found)]
    BY <1>1, <1>4
  <2>2. Len(found \o more) = Len(found) + Len(more) /\ Len(found) \in Nat /\ Len(more) \in Nat
        /\ DOMAIN (found \o more) = 1..Len(found \o more)
        /\ DOMAIN found = 1..Len(found) /\ DOMAIN more = 1..Len(more)
    BY <1>1, <1>4, <1>5
  <2>3. ASSUME NEW i \in 1..Len(found \o more)
        PROVE  (found \o more)[i] \in Range(found) \cup Range(more)
    <3>1. CASE i <= Len(found)
      BY <2>1, <2>2, <3>1 DEF Range
    <3>2. CASE ~(i <= Len(found))
      <4>1. i - Len(found) \in 1..Len(more)
        BY <2>2, <3>2
      <4> QED
        BY <2>1, <2>2, <3>2, <4>1 DEF Range
    <3> QED
      BY <3>1, <3>2
  <2> QED
    BY <2>2, <2>3 DEF Range
<1> QED
  BY <1>2, <1>3, <1>4, <1>5, <1>6

-----------------------------------------------------------------------------

\* Faults stay within their bound.
LEMMA FaultType ==
    ASSUME TypeOK, Fault \/ UNCHANGED faults
    PROVE  faults' \in 0..MaxFaults
BY Bounds DEF TypeOK, Fault

\* Every step keeps the types.
LEMMA TypeStep == TypeOK /\ [Next]_vars => TypeOK'
<1> SUFFICES ASSUME TypeOK, [Next]_vars PROVE TypeOK'
  OBVIOUS
<1>0. UNCHANGED vars \/ Next
  OBVIOUS
<1>1. CASE UNCHANGED vars
  BY <1>1 DEF TypeOK, vars, runVars, poolVars, readVars, pageVars, systemVars
<1>2. CASE SetUp
  <2>1. faults' \in 0..MaxFaults
    BY <1>2, FaultType DEF SetUp
  <2>2. /\ stage' \in {"users", "returned"} /\ session' \in {"none", "live", "ended"}
        /\ unanswered' \subseteq {"start", "end"}
        /\ failed' \in BOOLEAN /\ verdict' \in {None, "passed", "failed"}
    BY <1>2 DEF SetUp, TypeOK
  <2>3. UNCHANGED <<mode, signalled, poolVars, readVars, sent, pageVars, systemVars>>
    BY <1>2 DEF SetUp
  <2> QED
    BY <2>1, <2>2, <2>3 DEF TypeOK, poolVars, readVars, pageVars, systemVars
<1>3. CASE StopGiving
  BY SMTT(30), Bounds, <1>3 DEF TypeOK, StopGiving, Pooling, runVars, poolVars, readVars, pageVars, systemVars
<1>4. CASE UsersReady
  BY SMTT(30), Bounds, <1>4 DEF TypeOK, UsersReady, runVars, poolVars, readVars, pageVars, systemVars
<1>5. CASE Connected
  BY <1>5 DEF TypeOK, Connected, runVars, poolVars, readVars, pageVars, systemVars
<1>6. CASE PoolFails
  BY <1>6 DEF TypeOK, PoolFails, runVars, poolVars, readVars, pageVars, systemVars
<1>7. CASE GivesUp
  <2>1. faults' \in 0..MaxFaults
    BY <1>7, FaultType DEF GivesUp
  <2> QED
    BY <1>7, <2>1 DEF TypeOK, GivesUp, Stop, runVars, poolVars, readVars, pageVars, systemVars
<1>8. CASE Send
  BY SMTT(30), Bounds, <1>8 DEF TypeOK, Send, runVars, poolVars, readVars, pageVars, systemVars
<1>9. CASE Sent
  BY <1>9 DEF TypeOK, Sent, runVars, poolVars, readVars, pageVars, systemVars
<1>10. CASE DeliveryTimeout
  BY <1>10 DEF TypeOK, DeliveryTimeout, Stop, runVars, poolVars, readVars, pageVars, systemVars
<1>11. CASE Progress
  BY <1>11 DEF TypeOK, Progress, Stop, runVars, poolVars, readVars, pageVars, systemVars
<1>12. CASE HistoryPage
  BY PageFacts, <1>12 DEF TypeOK, HistoryPage, runVars, poolVars, readVars, pageVars, systemVars
<1>13. CASE CountHistory
  <2>1. Len(found) \in Nat /\ Count(rejected) \in Nat
    <3>1. IsFiniteSet(Range(found) \cap rejected)
      BY Bounds, FS_Subset DEF TypeOK
    <3> QED
      BY <3>1, FS_CardinalityType DEF TypeOK, Count
  <2>2. result' \in [total : Nat, rejected : Nat]
    <3>1. \/ result' = result
          \/ result' = [total |-> Len(found), rejected |-> 0]
          \/ result' = [total |-> Len(found), rejected |-> Count(rejected)]
      BY <1>13 DEF CountHistory
    <3> QED
      BY <2>1, <3>1 DEF TypeOK
  <2>5. cursor' \in Nat /\ found' \in Seq(Messages)
    <3>1. \/ cursor' = cursor /\ found' = found
          \/ cursor' = 0 /\ found' = <<>>
      BY <1>13 DEF CountHistory
    <3>2. <<>> \in Seq(Messages) /\ cursor \in Nat /\ found \in Seq(Messages)
      BY DEF TypeOK
    <3>3. cursor' \in Nat
      BY <3>1, <3>2
    <3>4. found' \in Seq(Messages)
      BY <3>1, <3>2, Zenon
    <3> QED
      BY <3>3, <3>4
  <2>3. /\ stage' \in {"persistence", "stopping"} /\ failed' \in BOOLEAN
        /\ conns' \subseteq Clients
        /\ UNCHANGED <<mode, verdict, session, unanswered, signalled, todo, busy, out, poolErr>>
    BY <1>13 DEF CountHistory, Stop, TypeOK, poolVars
  <2>4. UNCHANGED <<readVars, sent, systemVars, faults>>
    BY <1>13 DEF CountHistory
  <2> QED
    BY <2>2, <2>3, <2>4, <2>5 DEF TypeOK, readVars, systemVars
<1>14. CASE Hold
  BY <1>14 DEF TypeOK, Hold, Stop, runVars, poolVars, readVars, pageVars, systemVars
<1>15. CASE Report
  BY <1>15 DEF TypeOK, Report, runVars, poolVars, readVars, pageVars, systemVars
<1>16. CASE EndSession
  <2>1. faults' \in 0..MaxFaults
    BY <1>16, FaultType DEF EndSession
  <2> QED
    BY <1>16, <2>1 DEF TypeOK, EndSession, runVars, poolVars, readVars, pageVars, systemVars
<1>17. CASE Interrupt
  <2>1. faults' \in 0..MaxFaults
    BY <1>17, FaultType DEF Interrupt
  <2> QED
    BY <1>17, <2>1 DEF TypeOK, Interrupt, runVars, poolVars, readVars, pageVars, systemVars
<1>18. ASSUME NEW w \in Workers, Give(w) PROVE TypeOK'
  <2>1. todo <= Jobs /\ busy' = [busy EXCEPT ![w] = todo] /\ todo' = todo + 1
    BY <1>18 DEF Give
  <2>2. todo \in Clients /\ todo' \in 1..(Connections + 1)
    BY <2>1, Bounds DEF TypeOK, Clients
  <2>3. busy' \in [Workers -> Clients \cup {None}]
    BY <2>1, <2>2 DEF TypeOK
  <2>4. UNCHANGED <<runVars, out, poolErr, conns, readVars, sent, pageVars, systemVars, faults>>
    BY <1>18 DEF Give
  <2> QED
    BY <2>2, <2>3, <2>4 DEF TypeOK, runVars, readVars, pageVars, systemVars
<1>19. ASSUME NEW w \in Workers, WorkerSucceeds(w) PROVE TypeOK'
  BY <1>19, Bounds DEF TypeOK, WorkerSucceeds, runVars, poolVars, readVars, pageVars, systemVars
<1>20. ASSUME NEW w \in Workers, WorkerFails(w) PROVE TypeOK'
  <2>1. faults' \in 0..MaxFaults
    BY <1>20, FaultType DEF WorkerFails
  <2> QED
    BY <1>20, <2>1 DEF TypeOK, WorkerFails, runVars, poolVars, readVars, pageVars, systemVars
<1>21. ASSUME NEW m \in Messages, Decide(m) PROVE TypeOK'
  <2>1. faults' \in 0..MaxFaults
    BY <1>21, FaultType DEF Decide
  <2>2. outcome' \in [Messages -> {None, "accepted", "rejected", "ambiguous"}]
    BY <1>21 DEF Decide, TypeOK
  <2>3. UNCHANGED <<runVars, poolVars, readVars, sent, pageVars, rows, acks, events>>
    BY <1>21 DEF Decide
  <2> QED
    BY <2>1, <2>2, <2>3 DEF TypeOK, runVars, poolVars, readVars, pageVars
<1>22. ASSUME NEW m \in Messages, Store(m) PROVE TypeOK'
  <2>1. faults' \in 0..MaxFaults
    BY <1>22, FaultType DEF Store
  <2>2. rows' \in Seq(Messages)
    BY <1>22 DEF Store, TypeOK
  <2>3. UNCHANGED <<runVars, poolVars, readVars, sent, pageVars, outcome, acks, events>>
    BY <1>22 DEF Store
  <2> QED
    BY <2>1, <2>2, <2>3 DEF TypeOK, runVars, poolVars, readVars, pageVars
<1>23. ASSUME NEW m \in Messages, ReadAck(m) PROVE TypeOK'
  <2>1. faults' \in 0..MaxFaults
    BY <1>23, FaultType DEF ReadAck
  <2>2. acks' \in [Messages -> Nat]
    <3>1. acks[m] + 1 \in Nat /\ acks' = [acks EXCEPT ![m] = acks[m] + 1]
      BY <1>23 DEF ReadAck, TypeOK
    <3> QED
      BY <3>1 DEF TypeOK
  <2>3. /\ acknowledged' \subseteq Messages /\ accepted' \subseteq Messages
        /\ rejected' \subseteq Messages /\ duplicateAcks' \in Nat
    BY <1>23 DEF ReadAck, TypeOK
  <2>4. UNCHANGED <<runVars, poolVars, reader, firstErr, delivered, duplicateEvents, sent,
                    pageVars, outcome, rows, events>>
    BY <1>23 DEF ReadAck
  <2> QED
    BY <2>1, <2>2, <2>3, <2>4 DEF TypeOK, runVars, poolVars, pageVars
<1>24. ASSUME NEW c \in Clients, ReaderFails(c) PROVE TypeOK'
  <2>1. faults' \in 0..MaxFaults
    BY <1>24, FaultType DEF ReaderFails
  <2> QED
    BY <1>24, <2>1 DEF TypeOK, ReaderFails, runVars, poolVars, readVars, pageVars, systemVars
<1>25. ASSUME NEW c \in Clients, ReaderStops(c) PROVE TypeOK'
  BY <1>25, Bounds DEF TypeOK, ReaderStops, runVars, poolVars, readVars, pageVars, systemVars
<1>26. ASSUME NEW c \in Clients, NEW m \in Messages, ReadEvent(c, m) PROVE TypeOK'
  <2>1. faults' \in 0..MaxFaults
    BY <1>26, FaultType DEF ReadEvent
  <2>2. events' \in [Clients -> [Messages -> Nat]]
    <3>1. events[c][m] + 1 \in Nat /\ events[c] \in [Messages -> Nat]
      BY DEF TypeOK
    <3>2. [events[c] EXCEPT ![m] = events[c][m] + 1] \in [Messages -> Nat]
      BY <3>1
    <3>3. events' = [events EXCEPT ![c] = [events[c] EXCEPT ![m] = events[c][m] + 1]]
      BY <1>26 DEF ReadEvent
    <3> QED
      BY <3>2, <3>3 DEF TypeOK
  <2>3. delivered' \in [Clients -> SUBSET Messages] /\ duplicateEvents' \in Nat
    <3>1. delivered[c] \cup {m} \in SUBSET Messages /\ duplicateEvents + 1 \in Nat
      BY DEF TypeOK
    <3>2. \/ delivered' = delivered /\ duplicateEvents' = duplicateEvents + 1
          \/ /\ delivered' = [delivered EXCEPT ![c] = delivered[c] \cup {m}]
             /\ duplicateEvents' = duplicateEvents
      BY <1>26 DEF ReadEvent
    <3>3. delivered \in [Clients -> SUBSET Messages] /\ duplicateEvents \in Nat
      BY DEF TypeOK
    <3>4. [delivered EXCEPT ![c] = delivered[c] \cup {m}] \in [Clients -> SUBSET Messages]
      BY Zenon, <3>1, <3>3
    <3> QED
      BY <3>1, <3>2, <3>3, <3>4
  <2>4. UNCHANGED <<runVars, poolVars, reader, firstErr, acknowledged, accepted, rejected,
                    duplicateAcks, sent, pageVars, outcome, rows, acks>>
    BY <1>26 DEF ReadEvent
  <2> QED
    BY <2>1, <2>2, <2>3, <2>4 DEF TypeOK, runVars, poolVars, pageVars
<1> QED
  BY <1>0, <1>1, <1>2, <1>3, <1>4, <1>5, <1>6, <1>7, <1>8, <1>9, <1>10, <1>11, <1>12, <1>13, <1>14, <1>15, <1>16, <1>17, <1>18, <1>19, <1>20, <1>21, <1>22, <1>23, <1>24, <1>25, <1>26
     DEF Next, Main, System

-----------------------------------------------------------------------------

\* Steps that leave the collector and the system alone keep Collected.
LEMMA CollectedSame ==
    ASSUME Collected,
           UNCHANGED <<acknowledged, accepted, rejected, delivered, duplicateAcks,
                       duplicateEvents, outcome, acks, events>>
    PROVE  Collected'
BY DEF Collected

\* A frame that reaches a reader changes the collector as it should.
LEMMA CollectedStep == TypeOK /\ Collected /\ [Next]_vars => Collected'
<1> SUFFICES ASSUME TypeOK, Collected, [Next]_vars PROVE Collected'
  OBVIOUS
<1>1. ASSUME NEW m \in Messages, Decide(m) PROVE Collected'
  <2>1. outcome[m] = None /\ m \notin acknowledged
    BY <1>1 DEF Decide, Collected
  <2>2. \A n \in acknowledged : outcome'[n] = outcome[n]
    BY <1>1, <2>1 DEF Decide, TypeOK
  <2>3. UNCHANGED <<acknowledged, accepted, rejected, delivered, duplicateAcks,
                    duplicateEvents, acks, events>>
    BY <1>1 DEF Decide, readVars
  <2> QED
    BY <2>2, <2>3 DEF Collected
<1>2. ASSUME NEW m \in Messages, ReadAck(m) PROVE Collected'
  <2>1. /\ UNCHANGED <<delivered, duplicateEvents, outcome, events>>
        /\ outcome[m] # None
        /\ acks \in [Messages -> Nat] /\ acks' = [acks EXCEPT ![m] = acks[m] + 1]
        /\ acknowledged \subseteq Messages /\ duplicateAcks \in Nat
    BY <1>2 DEF ReadAck, TypeOK
  <2>2. \A n \in Messages : acks'[n] = IF n = m THEN acks[n] + 1 ELSE acks[n]
    BY <2>1
  <2>3. CASE m \in acknowledged
    <3>1. /\ duplicateAcks' = duplicateAcks + 1 /\ duplicateAcks' # 0
          /\ UNCHANGED <<acknowledged, accepted, rejected>>
      BY <1>2, <2>1, <2>3 DEF ReadAck
    <3>2. \A n \in Messages : acks'[n] > 0 <=> n \in acknowledged
      BY <2>1, <2>2, <2>3 DEF Collected
    <3> QED
      BY <2>1, <3>1, <3>2 DEF Collected
  <2>4. CASE m \notin acknowledged
    <3>1. /\ UNCHANGED duplicateAcks
          /\ acknowledged' = acknowledged \cup {m}
          /\ accepted' = IF outcome[m] = "accepted" THEN accepted \cup {m} ELSE accepted
          /\ rejected' = IF outcome[m] # "accepted" THEN rejected \cup {m} ELSE rejected
      BY <1>2, <2>4 DEF ReadAck
    <3>2. acks[m] = 0
      BY <2>1, <2>4 DEF Collected
    <3>3. acknowledged' = {n \in Messages : acks'[n] > 0}
      BY <2>1, <2>2, <3>1, <3>2 DEF Collected
    <3>4. /\ accepted' = {n \in acknowledged' : outcome'[n] = "accepted"}
          /\ rejected' = acknowledged' \ accepted'
          /\ \A n \in acknowledged' : outcome'[n] # None
      BY <2>1, <2>4, <3>1 DEF Collected
    <3>5. duplicateAcks' = 0 => \A n \in Messages : acks'[n] <= 1
      BY <2>1, <2>2, <3>1, <3>2 DEF Collected
    <3> QED
      BY <2>1, <3>3, <3>4, <3>5 DEF Collected
  <2> QED
    BY <2>3, <2>4
<1>3. ASSUME NEW c \in Clients, NEW m \in Messages, ReadEvent(c, m) PROVE Collected'
  <2>1. /\ UNCHANGED <<acknowledged, accepted, rejected, duplicateAcks, outcome, acks>>
        /\ events \in [Clients -> [Messages -> Nat]]
        /\ delivered \in [Clients -> SUBSET Messages] /\ duplicateEvents \in Nat
        /\ events' = [events EXCEPT ![c] = [events[c] EXCEPT ![m] = events[c][m] + 1]]
    BY <1>3 DEF ReadEvent, TypeOK
  <2>2. \A d \in Clients, n \in Messages :
           /\ events[d][n] \in Nat
           /\ events'[d][n] = IF d = c /\ n = m THEN events[d][n] + 1 ELSE events[d][n]
    BY <2>1
  <2>3. \A d \in Clients, n \in Messages :
           n \in delivered'[d] <=> n \in delivered[d] \/ (d = c /\ n = m)
    <3>1. \/ delivered' = delivered /\ m \in delivered[c]
          \/ delivered' = [delivered EXCEPT ![c] = delivered[c] \cup {m}]
      BY <1>3 DEF ReadEvent
    <3> QED
      BY <2>1, <3>1
  <2>4. \A d \in Clients : delivered'[d] \subseteq Messages
    <3>1. \/ delivered' = delivered
          \/ delivered' = [delivered EXCEPT ![c] = delivered[c] \cup {m}]
      BY <1>3 DEF ReadEvent
    <3> QED
      BY <2>1, <3>1
  <2>5. \A d \in Clients : delivered'[d] = {n \in Messages : events'[d][n] > 0}
    BY <2>2, <2>3, <2>4 DEF Collected
  <2>6. duplicateEvents' = 0 => \A d \in Clients, n \in Messages : events'[d][n] <= 1
    <3>1. CASE m \in delivered[c]
      <4>1. duplicateEvents' = duplicateEvents + 1
        BY <1>3, <3>1 DEF ReadEvent
      <4> QED
        BY <2>1, <4>1
    <3>2. CASE m \notin delivered[c]
      <4>1. duplicateEvents' = duplicateEvents
        BY <1>3, <3>2 DEF ReadEvent
      <4>2. events[c][m] = 0
        BY <2>2, <3>2 DEF Collected
      <4> QED
        BY <2>2, <4>1, <4>2 DEF Collected
    <3> QED
      BY <3>1, <3>2
  <2> QED
    BY <2>1, <2>5, <2>6 DEF Collected
<1>4. CASE \/ Main \/ Interrupt \/ UNCHANGED vars
           \/ \E w \in Workers : Give(w) \/ WorkerSucceeds(w) \/ WorkerFails(w)
           \/ \E c \in Clients : ReaderFails(c) \/ ReaderStops(c)
           \/ \E m \in Messages : Store(m)
  <2>1. UNCHANGED <<acknowledged, accepted, rejected, delivered, duplicateAcks,
                    duplicateEvents, outcome, acks, events>>
    BY <1>4 DEF Main, SetUp, StopGiving, UsersReady, Connected, PoolFails, GivesUp, Send, Sent,
                DeliveryTimeout, Progress, HistoryPage, CountHistory, Hold, Report, EndSession,
                Interrupt, Give, WorkerSucceeds, WorkerFails, ReaderFails, ReaderStops, Store,
                vars, readVars, systemVars
  <2> QED
    BY <2>1, CollectedSame
<1> QED
  BY <1>1, <1>2, <1>3, <1>4 DEF Next, System

\* A verdict is sound when it is given.
LEMMA ReportSound ==
    ASSUME TypeOK, Collected, AllSeen, accepted \subseteq Range(rows), Valid
    PROVE  /\ \A m \in Messages :
                 /\ outcome[m] # None /\ acks[m] = 1
                 /\ outcome[m] = "accepted" => m \in Range(rows)
                 /\ \A c \in Clients :
                       events[c][m] = IF outcome[m] = "accepted" THEN 1 ELSE 0
           /\ Cardinality({m \in Messages : outcome[m] # "accepted"}) <= MaxRejected
<1>1. /\ acks \in [Messages -> Nat] /\ events \in [Clients -> [Messages -> Nat]]
      /\ accepted \subseteq Messages /\ delivered \in [Clients -> SUBSET Messages]
  BY DEF TypeOK
<1>2. acknowledged = Messages /\ duplicateAcks = 0 /\ duplicateEvents = 0
  BY DEF AllSeen, Valid
<1>3. \A m \in Messages : outcome[m] # None /\ acks[m] = 1
  BY <1>1, <1>2 DEF Collected
<1>4. \A m \in Messages : outcome[m] = "accepted" <=> m \in accepted
  BY <1>2 DEF Collected
<1> DEFINE E == Clients \X accepted
<1>6. E \in SUBSET Deliveries
  BY <1>1 DEF AllSeen, Deliveries
<1>7. /\ IsFiniteSet(Deliveries) /\ IsFiniteSet(E)
      /\ Cardinality(E) = Connections * Cardinality(accepted)
  <2>1. IsFiniteSet(Clients \X Messages)
    BY Bounds, FS_Product
  <2>2. Deliveries \in SUBSET (Clients \X Messages)
    BY DEF Deliveries
  <2>3. IsFiniteSet(accepted)
    BY <1>1, Bounds, FS_Subset
  <2> QED
    BY <2>1, <2>2, <2>3, Bounds, FS_Product, FS_Subset
<1>8. Cardinality(Deliveries) = Cardinality(E)
  <2>1. Cardinality(accepted) \in Nat
    BY <1>1, Bounds, FS_Subset, FS_CardinalityType
  <2>2. Cardinality(accepted) * Connections = Connections * Cardinality(accepted)
    BY <2>1, Bounds
  <2> QED
    BY <1>7, <2>2 DEF Valid
<1>9. Deliveries = E
  BY <1>6, <1>7, <1>8, FS_Subset
<1>10. \A c \in Clients : delivered[c] = accepted
  <2> SUFFICES ASSUME NEW c \in Clients, NEW m \in delivered[c] PROVE m \in accepted
    BY DEF AllSeen
  <2>1. <<c, m>> \in Deliveries
    BY <1>1 DEF Deliveries
  <2> QED
    BY <1>9, <2>1
<1>11. \A m \in Messages, c \in Clients :
          events[c][m] = IF outcome[m] = "accepted" THEN 1 ELSE 0
  <2> SUFFICES ASSUME NEW m \in Messages, NEW c \in Clients
               PROVE  events[c][m] = IF outcome[m] = "accepted" THEN 1 ELSE 0
    OBVIOUS
  <2>1. events[c][m] \in Nat /\ events[c][m] <= 1
    BY <1>1, <1>2 DEF Collected
  <2>2. events[c][m] > 0 <=> outcome[m] = "accepted"
    BY <1>4, <1>10 DEF Collected
  <2> QED
    BY <2>1, <2>2
<1>12. Cardinality({m \in Messages : outcome[m] # "accepted"}) <= MaxRejected
  <2>1. {m \in Messages : outcome[m] # "accepted"} = rejected
    BY <1>2 DEF Collected
  <2> QED
    BY <2>1 DEF Valid
<1> QED
  BY <1>3, <1>4, <1>11, <1>12

\* The end of the run is prepared on every path to it.
LEMMA QuietStep == TypeOK /\ Quiet /\ [Next]_vars => Quiet'
<1> SUFFICES ASSUME TypeOK, Quiet, [Next]_vars PROVE Quiet'
  OBVIOUS
<1>1. CASE SetUp
  BY <1>1 DEF SetUp, Quiet, poolVars, readVars
<1>2. CASE StopGiving \/ Send \/ HistoryPage \/ Interrupt \/ Sent \/ System \/ UNCHANGED vars
  <2>1. UNCHANGED <<busy, conns, reader, session, unanswered>>
    BY <1>2 DEF StopGiving, Send, HistoryPage, Interrupt, Sent, System, Decide, Store, ReadAck,
                ReadEvent, vars, runVars, poolVars, readVars
  <2>2. \/ UNCHANGED stage
        \/ stage = "send" /\ stage' = "delivery"
        \/ stage = "persistence" /\ stage' \in {"persistence", "counting"}
    BY <1>2 DEF StopGiving, Send, HistoryPage, Interrupt, Sent, System, Decide, Store, ReadAck,
                ReadEvent, vars, runVars
  <2> QED
    BY <2>1, <2>2 DEF Quiet
<1>3. CASE UsersReady \/ Connected
  BY <1>3 DEF UsersReady, Connected, PoolIdle, Quiet, readVars, poolVars
<1>4. CASE PoolFails
  BY <1>4 DEF PoolFails, PoolIdle, Pooling, Quiet, readVars
<1>5. CASE GivesUp \/ DeliveryTimeout \/ Progress \/ CountHistory \/ Hold
  <2>1. UNCHANGED <<busy, reader, session, unanswered>>
    BY <1>5 DEF GivesUp, DeliveryTimeout, Progress, CountHistory, Hold, Stop, readVars, poolVars
  <2>2. /\ stage \in {"send", "delivery", "persistence", "counting", "hold"}
        /\ \/ stage' = "stopping" /\ conns' = {}
           \/ stage' = "persistence"
    BY <1>5 DEF GivesUp, DeliveryTimeout, Progress, CountHistory, Hold, Stop
  <2> QED
    BY <2>1, <2>2 DEF Quiet
<1>6. CASE Report
  BY <1>6 DEF Report, Quiet, poolVars, readVars
<1>7. CASE EndSession
  BY <1>7 DEF EndSession, Quiet, poolVars, readVars
<1>8. ASSUME NEW w \in Workers, Give(w) \/ WorkerSucceeds(w) \/ WorkerFails(w)
      PROVE  Quiet'
  <2>1. UNCHANGED <<stage, reader, session, unanswered>> /\ stage \in {"users", "connect"}
    BY <1>8 DEF Give, WorkerSucceeds, WorkerFails, Pooling, Quiet, runVars, readVars
  <2>2. stage = "users" => conns' = conns
    BY <1>8 DEF Give, WorkerSucceeds, WorkerFails
  <2> QED
    BY <2>1, <2>2 DEF Quiet
<1>9. ASSUME NEW c \in Clients, ReaderFails(c) \/ ReaderStops(c)
      PROVE  Quiet'
  <2>1. UNCHANGED <<stage, session, unanswered, busy, conns>> /\ reader[c] = "reading"
        /\ reader' \in {reader, [reader EXCEPT ![c] = "ended"]}
    BY <1>9 DEF ReaderFails, ReaderStops, runVars, poolVars
  <2>2. \A d \in Clients : reader'[d] \in {reader[d], "ended"}
    BY <2>1 DEF TypeOK
  <2> QED
    BY <2>1, <2>2 DEF Quiet, TypeOK
<1> QED
  BY <1>1, <1>2, <1>3, <1>4, <1>5, <1>6, <1>7, <1>8, <1>9 DEF Next, Main

\* What was seen stays seen, and with every message answered nothing more is accepted.
LEMMA SeenStays ==
    ASSUME TypeOK, AllSeen, [Next]_vars
    PROVE  AllSeen' /\ accepted' = accepted
<1>1. ASSUME NEW m \in Messages, ReadAck(m) PROVE AllSeen' /\ accepted' = accepted
  BY <1>1 DEF ReadAck, AllSeen
<1>2. ASSUME NEW c \in Clients, NEW m \in Messages, ReadEvent(c, m)
      PROVE  AllSeen' /\ accepted' = accepted
  <2>1. UNCHANGED <<acknowledged, accepted>>
    BY <1>2 DEF ReadEvent
  <2>2. \/ delivered' = delivered
        \/ delivered' = [delivered EXCEPT ![c] = delivered[c] \cup {m}]
    BY <1>2 DEF ReadEvent
  <2>3. \A d \in Clients : delivered[d] \subseteq delivered'[d]
    <3>1. \A d \in Clients : delivered'[d] \in {delivered[d], delivered[d] \cup {m}}
      BY <2>2 DEF TypeOK
    <3> QED
      BY <3>1
  <2> QED
    BY <2>1, <2>3 DEF AllSeen
<1>3. CASE \/ Main \/ Interrupt \/ UNCHANGED vars
           \/ \E w \in Workers : Give(w) \/ WorkerSucceeds(w) \/ WorkerFails(w)
           \/ \E c \in Clients : ReaderFails(c) \/ ReaderStops(c)
           \/ \E m \in Messages : Decide(m) \/ Store(m)
  <2>1. UNCHANGED <<acknowledged, accepted, delivered>>
    BY <1>3 DEF Main, SetUp, StopGiving, UsersReady, Connected, PoolFails, GivesUp, Send, Sent,
                DeliveryTimeout, Progress, HistoryPage, CountHistory, Hold, Report, EndSession,
                Interrupt, Give, WorkerSucceeds, WorkerFails, ReaderFails, ReaderStops, Decide,
                Store, vars, readVars
  <2> QED
    BY <2>1 DEF AllSeen
<1> QED
  BY <1>1, <1>2, <1>3 DEF Next, System

\* A stored row is not removed.
LEMMA RowsStay ==
    ASSUME TypeOK, [Next]_vars
    PROVE  Range(rows) \subseteq Range(rows')
<1>1. ASSUME NEW m \in Messages, Store(m) PROVE Range(rows) \subseteq Range(rows')
  <2>1. rows \in Seq(Messages) /\ rows' = Append(rows, m)
    BY <1>1 DEF Store, TypeOK
  <2>2. \A k \in DOMAIN rows : k \in DOMAIN rows' /\ rows'[k] = rows[k]
    BY <2>1
  <2> QED
    BY <2>2 DEF Range
<1>2. CASE \/ Main \/ Interrupt \/ UNCHANGED vars
           \/ \E w \in Workers : Give(w) \/ WorkerSucceeds(w) \/ WorkerFails(w)
           \/ \E c \in Clients : ReaderFails(c) \/ ReaderStops(c)
           \/ \E m \in Messages : Decide(m) \/ ReadAck(m)
           \/ \E c \in Clients, m \in Messages : ReadEvent(c, m)
  <2>1. UNCHANGED rows
    BY <1>2 DEF Main, SetUp, StopGiving, UsersReady, Connected, PoolFails, GivesUp, Send, Sent,
                DeliveryTimeout, Progress, HistoryPage, CountHistory, Hold, Report, EndSession,
                Interrupt, Give, WorkerSucceeds, WorkerFails, ReaderFails, ReaderStops, Decide,
                ReadAck, ReadEvent, vars, systemVars
  <2> QED
    BY <2>1
<1> QED
  BY <1>1, <1>2 DEF Next, System

\* All accepted messages are among the rows that were read when as many are.
LEMMA CountedAll ==
    ASSUME TypeOK, Count(accepted) = Cardinality(accepted)
    PROVE  accepted \subseteq Range(found)
<1>1. IsFiniteSet(accepted)
  BY Bounds, FS_Subset DEF TypeOK
<1>2. Range(found) \cap accepted \in SUBSET accepted
  OBVIOUS
<1>3. accepted = Range(found) \cap accepted
  BY <1>1, <1>2, FS_Subset DEF Count
<1> QED
  BY <1>3

\* The main goroutine goes on only with what it has found out.
LEMMA PhasesStep == TypeOK /\ Phases /\ [Next]_vars => Phases'
<1> SUFFICES ASSUME TypeOK, Phases, [Next]_vars PROVE Phases'
  OBVIOUS
<1>0. /\ AllSeen => AllSeen' /\ accepted' = accepted
      /\ Range(rows) \subseteq Range(rows')
  BY SeenStays, RowsStay
<1>1. CASE SetUp \/ UsersReady \/ Connected \/ PoolFails \/ Sent
  <2>1. UNCHANGED <<mode, found, rows>>
    BY <1>1 DEF SetUp, UsersReady, Connected, PoolFails, Sent, pageVars, systemVars
  <2>2. /\ stage' = "hold" => mode = "connections"
        /\ stage' \in {"send", "delivery"} => mode = "chat"
        /\ stage' \in {"users", "connect", "send", "delivery", "hold", "ending", "returned"}
    BY <1>1 DEF SetUp, UsersReady, Connected, PoolFails, Sent, Phases, TypeOK
  <2>3. /\ verdict' # "passed"
        /\ stage' \notin {"ending", "returned"} => verdict' = None
    BY <1>1, LoadTestAssumption
       DEF SetUp, UsersReady, Connected, PoolFails, PoolIdle, Pooling, Sent, Phases
  <2> QED
    BY <2>1, <2>2, <2>3 DEF Phases
<1>2. CASE GivesUp \/ DeliveryTimeout \/ Hold
  <2>1. /\ stage' = "stopping" /\ UNCHANGED <<mode, verdict, found, rows>>
        /\ stage \in {"send", "delivery", "persistence", "hold"}
        /\ failed' = TRUE \/ stage = "hold"
    BY <1>2 DEF GivesUp, DeliveryTimeout, Hold, Stop, pageVars, systemVars
  <2> QED
    BY <2>1, LoadTestAssumption DEF Phases
<1>3. CASE Progress
  <2>0. UNCHANGED <<found, rows>>
    BY <1>3 DEF Progress, pageVars, systemVars
  <2>1. CASE Stop(TRUE)
    BY <1>3, <2>0, <2>1, LoadTestAssumption DEF Progress, Stop, Phases
  <2>2. CASE ~Stop(TRUE)
    <3>1. /\ Cardinality(acknowledged) = TargetMessages
          /\ \A c \in Clients : accepted \subseteq delivered[c]
          /\ stage = "delivery" /\ stage' = "persistence"
          /\ UNCHANGED <<mode, failed, verdict, found, rows, reader>>
      BY <1>3, <2>2 DEF Progress, pageVars, systemVars, readVars
    <3>2. acknowledged = Messages
      BY <3>1, Bounds, FS_Subset DEF TypeOK
    <3>3. AllSeen
      BY <3>1, <3>2 DEF AllSeen
    <3> QED
      BY <1>0, <3>1, <3>3 DEF Phases
  <2> QED
    BY <2>1, <2>2
<1>4. CASE HistoryPage
  <2>1. /\ stage = "persistence" /\ stage' \in {"persistence", "counting"}
        /\ UNCHANGED <<mode, failed, verdict, reader, rows>>
    BY <1>4 DEF HistoryPage, readVars, systemVars
  <2>2. Range(found') \subseteq Range(rows')
    BY <1>4, <2>1, PageFacts DEF Phases
  <2> QED
    BY <1>0, <2>1, <2>2 DEF Phases
<1>5. CASE CountHistory
  <2>1. /\ stage = "counting" /\ stage' \in {"persistence", "stopping"}
        /\ UNCHANGED <<mode, verdict, reader, rows>>
        /\ found' = found \/ found' = <<>>
    BY <1>5 DEF CountHistory, Stop, readVars, systemVars
  <2>2. Range(found') \subseteq Range(rows')
    <3>1. Range(<<>>) = {}
      BY DEF Range
    <3> QED
      BY <2>1, <3>1 DEF Phases
  <2>3. stage' = "stopping" /\ ~failed' => accepted' \subseteq Range(rows')
    <3> SUFFICES ASSUME stage' = "stopping", ~failed' PROVE accepted' \subseteq Range(rows')
      OBVIOUS
    <3>1. Count(accepted) = Cardinality(accepted) /\ UNCHANGED accepted
      BY <1>5 DEF CountHistory, Stop, readVars
    <3> QED
      BY <2>1, <3>1, CountedAll DEF Phases
  <2> QED
    BY <1>0, <2>1, <2>2, <2>3 DEF Phases
<1>6. CASE Report
  <2>1. /\ stage = "stopping" /\ stage' = "ending"
        /\ \A c \in Clients : reader[c] = "ended"
        /\ UNCHANGED <<mode, reader, found, rows>>
    BY <1>6 DEF Report, readVars, pageVars, systemVars
  <2> QED
    BY <2>1 DEF Phases
<1>7. CASE EndSession
  <2>1. /\ stage = "ending" /\ stage' = "returned"
        /\ UNCHANGED <<mode, verdict, reader, found, rows>>
    BY <1>7 DEF EndSession, readVars, pageVars, systemVars
  <2> QED
    BY <2>1 DEF Phases
<1>8. CASE \/ StopGiving \/ Send \/ Interrupt \/ System \/ UNCHANGED vars
           \/ \E w \in Workers : Give(w) \/ WorkerSucceeds(w) \/ WorkerFails(w)
           \/ \E c \in Clients : ReaderFails(c) \/ ReaderStops(c)
  <2>1. UNCHANGED <<mode, stage, failed, verdict, found>>
    BY <1>8 DEF StopGiving, Send, Interrupt, System, Decide, Store, ReadAck, ReadEvent, Give,
                WorkerSucceeds, WorkerFails, ReaderFails, ReaderStops, vars, runVars, pageVars
  <2>2. \A c \in Clients : reader[c] = "ended" => reader'[c] = "ended"
    <3>1. \/ reader' = reader
          \/ \E c \in Clients : reader' = [reader EXCEPT ![c] = "ended"]
      BY <1>8 DEF StopGiving, Send, Interrupt, System, Decide, Store, ReadAck, ReadEvent, Give,
                  WorkerSucceeds, WorkerFails, ReaderFails, ReaderStops, vars, readVars
    <3> QED
      BY <3>1 DEF TypeOK
  <2> QED
    BY <1>0, <2>1, <2>2 DEF Phases
<1> QED
  BY <1>1, <1>2, <1>3, <1>4, <1>5, <1>6, <1>7, <1>8 DEF Next, Main

\* A verdict stays sound: nobody is left who could read another frame.
LEMMA SoundStep == IndInv /\ [Next]_vars => PassedIsSound'
<1> SUFFICES ASSUME IndInv, [Next]_vars, verdict' = "passed", mode' = "chat"
             PROVE  PassedIsSound'
  BY DEF PassedIsSound
<1>0. TypeOK /\ Collected /\ Phases /\ PassedIsSound
  BY DEF IndInv
<1>1. CASE verdict = "passed"
  <2>1. mode' = mode
    BY DEF Next, Main, SetUp, StopGiving, UsersReady, Connected, PoolFails, GivesUp, Send, Sent,
           DeliveryTimeout, Progress, HistoryPage, CountHistory, Hold, Report, EndSession,
           Stop, System, Decide, Store, ReadAck, ReadEvent, Interrupt, Give, WorkerSucceeds,
           WorkerFails, ReaderFails, ReaderStops, vars, runVars
  <2>2. /\ \A c \in Clients : reader[c] # "reading"
        /\ \A m \in Messages : outcome[m] # None
    BY <1>0, <1>1, <2>1 DEF Phases, PassedIsSound
  <2>3. \A m \in Messages : Sender(m) \in Clients
    BY SenderIsClient
  <2>4. UNCHANGED <<outcome, acks, events>>
    BY <2>2, <2>3
       DEF Next, Main, SetUp, StopGiving, UsersReady, Connected, PoolFails, GivesUp, Send, Sent,
           DeliveryTimeout, Progress, HistoryPage, CountHistory, Hold, Report, EndSession,
           System, Decide, Store, ReadAck, ReadEvent, Interrupt, Give, WorkerSucceeds,
           WorkerFails, ReaderFails, ReaderStops, vars, systemVars
  <2>5. Range(rows) \subseteq Range(rows')
    BY <1>0, RowsStay
  <2> QED
    BY <1>0, <1>1, <2>1, <2>4, <2>5 DEF PassedIsSound
<1>2. CASE verdict # "passed"
  <2>1. Report
    BY <1>2
       DEF Next, Main, SetUp, StopGiving, UsersReady, Connected, PoolFails, GivesUp, Send, Sent,
           DeliveryTimeout, Progress, HistoryPage, CountHistory, Hold, EndSession, Stop, System,
           Decide, Store, ReadAck, ReadEvent, Interrupt, Give, WorkerSucceeds, WorkerFails,
           ReaderFails, ReaderStops, vars, runVars
  <2>2. /\ stage = "stopping" /\ ~failed /\ mode = "chat" /\ Valid
        /\ UNCHANGED <<outcome, acks, events, rows>>
    BY <2>1 DEF Report, systemVars
  <2>3. AllSeen /\ accepted \subseteq Range(rows)
    BY <1>0, <2>2 DEF Phases
  <2> QED
    BY <1>0, <2>2, <2>3, ReportSound DEF PassedIsSound
<1> QED
  BY <1>1, <1>2

\* The invariant holds before the run and is kept by every step.
THEOREM Invariance == Spec => []IndInv
<1>1. Init => IndInv
  <2> SUFFICES ASSUME Init PROVE IndInv
    OBVIOUS
  <2>1. TypeOK
    <3>1. <<>> \in Seq(Messages)
      OBVIOUS
    <3>2. /\ todo \in 1..(Connections + 1) /\ sent \in 0..TargetMessages
          /\ faults \in 0..MaxFaults
      BY Bounds DEF Init
    <3>3. found \in Seq(Messages) /\ rows \in Seq(Messages)
      BY <3>1 DEF Init
    <3>4. /\ mode \in {"chat", "connections"} /\ stage = "setup" /\ session = "none" /\ unanswered = {}
          /\ {failed, signalled, poolErr, firstErr} \subseteq BOOLEAN /\ verdict = None
          /\ busy \in [Workers -> Clients \cup {None}]
          /\ out \subseteq Workers /\ conns \subseteq Clients
          /\ reader \in [Clients -> {"none", "reading", "ended"}]
          /\ outcome \in [Messages -> {None, "accepted", "rejected", "ambiguous"}]
      BY DEF Init
    <3>5. /\ {acknowledged, accepted, rejected} \subseteq SUBSET Messages
          /\ delivered \in [Clients -> SUBSET Messages]
          /\ {duplicateAcks, duplicateEvents} \subseteq Nat /\ cursor \in Nat
          /\ result \in [total : Nat, rejected : Nat]
      BY DEF Init
    <3>6. acks \in [Messages -> Nat] /\ events \in [Clients -> [Messages -> Nat]]
      BY DEF Init
    <3> QED
      BY <3>2, <3>3, <3>4, <3>5, <3>6 DEF TypeOK
  <2>2. Collected
    BY DEF Init, Collected
  <2>3. Phases /\ PassedIsSound
    <3>1. Range(<<>>) = {}
      BY DEF Range
    <3> QED
      BY <3>1, LoadTestAssumption DEF Init, Phases, PassedIsSound
  <2>4. Quiet
    BY DEF Init, Quiet
  <2> QED
    BY <2>1, <2>2, <2>3, <2>4 DEF IndInv
<1>2. IndInv /\ [Next]_vars => IndInv'
  BY TypeStep, CollectedStep, PhasesStep, SoundStep, QuietStep DEF IndInv
<1> QED
  BY <1>1, <1>2, PTL DEF Spec

\* The tester, its collector and the observed system keep their types.
THEOREM TypeCorrect == Spec => []TypeOK
<1>1. IndInv => TypeOK
  BY DEF IndInv
<1> QED
  BY <1>1, Invariance, PTL

\* When the report says "passed" the system did what the report claims, whatever frames,
\* rows and answers were lost or came twice (validateReport, waitForHistory, progress).
THEOREM PassedSound == Spec => []PassedIsSound
<1>1. IndInv => PassedIsSound
  BY DEF IndInv
<1> QED
  BY <1>1, Invariance, PTL

\* However Run returns, no connection, worker or reader is left, and a session is left
\* LIVE only by a failed request to start or end it.
THEOREM LeavesNothing == Spec => []NothingIsLeft
<1>1. IndInv => NothingIsLeft
  BY DEF IndInv, Quiet, NothingIsLeft
<1> QED
  BY <1>1, Invariance, PTL

=============================================================================

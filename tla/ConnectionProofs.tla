--------------------------- MODULE ConnectionProofs ---------------------------
(***************************************************************************)
(* Proofs about Connection for every number of requests, users and frames  *)
(* and every limit and queue capacity.                                     *)
(***************************************************************************)
EXTENDS Connection, FiniteSetTheorems, TLAPS

\* The state of a connection is kept for every request.
DomainsOK ==
    /\ DOMAIN pc = Conns /\ DOMAIN sock = Conns /\ DOMAIN cancelled = Conns
    /\ DOMAIN inbound = Conns /\ DOMAIN reading = Conns /\ DOMAIN processor = Conns
    /\ DOMAIN frame = Conns /\ DOMAIN writer = Conns
    /\ DOMAIN client = Conns /\ DOMAIN outbound = Conns
    /\ DOMAIN sent = Conns /\ DOMAIN confirmed = Conns /\ DOMAIN acks = Conns
    /\ DOMAIN activeByUser = Users

\* The connections of a user that are admitted.
AdmittedOf(u) == {c \in Admitted : User[c] = u}

\* The pumps run only between RoomReady and the end of the handler, and a handler that
\* has left closed the connection and waited for what they signal.
Lifecycle(c) ==
    /\ pc[c] \in {"start", "refused", "admitted"} => sock[c] = "closed"
    /\ pc[c] \in {"start", "refused", "admitted", "upgraded", "joined"} =>
          processor[c] = "none" /\ writer[c] = "none"
    /\ pc[c] = "reading" => processor[c] # "none"
    /\ pc[c] \in {"releasing", "released"} =>
          /\ sock[c] = "closed"
          /\ processor[c] \in {"none", "done"} /\ writer[c] # "running"

\* Shutdown refuses requests from its first step on, and returns when none is left.
ShutdownOrder ==
    /\ shutdown # "idle" => draining
    /\ shutdown = "returned" => Admitted = {} /\ \A c \in Conns : client[c] # "open"

Answers == Nat \X {"accepted", "rejected"}

\* The number of frames the processor has answered or is at.
Taken(c) == Len(acks[c]) + (IF processor[c] \in {"handling", "answering"} THEN 1 ELSE 0)

\* Frames are queued, handled and answered in the order in which they were read.
InOrder(c) ==
    /\ inbound[c] \in Seq(Nat) /\ acks[c] \in Seq(Answers) /\ sent[c] \in Nat
    /\ processor[c] = "none" => inbound[c] = <<>> /\ acks[c] = <<>> /\ sent[c] = 0
    /\ processor[c] # "done" =>
          /\ \A k \in DOMAIN inbound[c] : inbound[c][k] = Taken(c) + k
          /\ pc[c] = "reading" => sent[c] = Taken(c) + Len(inbound[c])
    /\ processor[c] = "handling" => frame[c] = <<Taken(c)>>
    /\ processor[c] = "answering" =>
          \/ frame[c] = <<Taken(c), "accepted">> /\ Taken(c) \in confirmed[c]
          \/ frame[c] = <<Taken(c), "rejected">>
    /\ \A i \in DOMAIN acks[c] :
          /\ acks[c][i][1] = i
          /\ acks[c][i][2] = "accepted" => i \in confirmed[c]

IndInv ==
    /\ DomainsOK
    /\ AdmissionExact
    /\ ShutdownOrder
    /\ \A c \in Conns : Lifecycle(c) /\ InOrder(c)

-----------------------------------------------------------------------------

\* What one connection does, or the rooms and the peer do to it.
ConnStep(c) ==
    \/ Admit(c) \/ HandlerStep(c) \/ ReadFrame(c) \/ ReadFails(c) \/ ReadRejects(c)
    \/ ProcessorStep(c) \/ WriteMessage(c) \/ WriterEnds(c) \/ WriterCloses(c)
    \/ PeerGone(c) \/ RoomDelivers(c) \/ RoomCloses(c)

\* Everything the invariants say of connection c stays as it is.
Same(c) ==
    /\ pc'[c] = pc[c] /\ sock'[c] = sock[c] /\ processor'[c] = processor[c]
    /\ writer'[c] = writer[c] /\ client'[c] = client[c]
    /\ inbound'[c] = inbound[c] /\ frame'[c] = frame[c]
    /\ sent'[c] = sent[c] /\ confirmed'[c] = confirmed[c] /\ acks'[c] = acks[c]

\* A step of one connection is no step of another.
LEMMA OthersSame ==
    ASSUME DomainsOK, NEW c \in Conns, ConnStep(c)
    PROVE  DomainsOK' /\ \A d \in Conns \ {c} : Same(d)
<1>1. CASE Admit(c)
  BY <1>1 DEF Admit, DomainsOK, Same, Set, pumpVars, clientVars, histVars
<1>2. CASE Upgrade(c)
  BY <1>2 DEF Upgrade, DomainsOK, Same, Set, handlerVars, pumpVars, clientVars, histVars
<1>3. CASE Join(c)
  BY <1>3 DEF Join, DomainsOK, Same, Set, handlerVars, pumpVars, histVars
<1>4. CASE RoomReady(c)
  BY <1>4 DEF RoomReady, DomainsOK, Same, Set, handlerVars, clientVars, histVars
<1>5. CASE RoomReadyFails(c) \/ Leave(c)
  BY <1>5 DEF RoomReadyFails, Leave, LeaveHub, DomainsOK, Same, Set, handlerVars, pumpVars, histVars
<1>6. CASE ReadFails(c) \/ ReadRejects(c)
  BY <1>6 DEF ReadFails, ReadRejects, StopReading, DomainsOK, Same, Set, handlerVars, clientVars, histVars
<1>7. CASE AwaitPumps(c)
  BY <1>7 DEF AwaitPumps, DomainsOK, Same, Set, handlerVars, pumpVars, clientVars, histVars
<1>8. CASE Release(c)
  BY <1>8 DEF Release, DomainsOK, Same, Set, pumpVars, clientVars, histVars
<1>9. CASE ReadFrame(c)
  BY <1>9 DEF ReadFrame, DomainsOK, Same, Set, handlerVars, connVars, clientVars
<1>10. CASE TakeFrame(c)
  BY <1>10 DEF TakeFrame, DomainsOK, Same, Set, handlerVars, connVars, clientVars, histVars
<1>11. CASE Handle(c)
  BY <1>11 DEF Handle, Accept, Reject, DomainsOK, Same, Set, handlerVars, connVars, clientVars
<1>12. CASE ProcessorFails(c)
  BY <1>12 DEF ProcessorFails, DomainsOK, Same, Set, handlerVars, clientVars, histVars
<1>13. CASE EnqueueAck(c)
  BY <1>13 DEF EnqueueAck, DomainsOK, Same, Set, handlerVars, connVars
<1>14. CASE ProcessorEnds(c)
  BY <1>14 DEF ProcessorEnds, DomainsOK, Same, Set, handlerVars, connVars, clientVars, histVars
<1>15. CASE WriteMessage(c)
  BY <1>15 DEF WriteMessage, DomainsOK, Same, Set, handlerVars, connVars, pumpVars, histVars
<1>16. CASE WriterEnds(c) \/ WriterCloses(c)
  BY <1>16 DEF WriterEnds, WriterCloses, DomainsOK, Same, Set, handlerVars, connVars, clientVars,
               histVars
<1>17. CASE PeerGone(c)
  BY <1>17 DEF PeerGone, DomainsOK, Same, Set, handlerVars, pumpVars, clientVars, histVars
<1>18. CASE RoomDelivers(c) \/ RoomCloses(c)
  BY <1>18 DEF RoomDelivers, RoomCloses, DomainsOK, Same, Set, handlerVars, connVars, pumpVars, histVars
<1> QED
  BY <1>1, <1>2, <1>3, <1>4, <1>5, <1>6, <1>7, <1>8, <1>9, <1>10, <1>11, <1>12, <1>13, <1>14,
     <1>15, <1>16, <1>17, <1>18 DEF ConnStep, HandlerStep, ProcessorStep

\* The steps of the handler, the pumps, the peer and the rooms keep a connection's
\* lifecycle.
LEMMA LifecycleStep ==
    ASSUME DomainsOK, NEW c \in Conns, Lifecycle(c), ConnStep(c)
    PROVE  Lifecycle(c)'
<1>1. CASE Admit(c)
  BY <1>1 DEF Admit, DomainsOK, Lifecycle, Set, pumpVars
<1>2. CASE Upgrade(c)
  BY <1>2 DEF Upgrade, DomainsOK, Lifecycle, Set, pumpVars
<1>3. CASE Join(c)
  BY <1>3 DEF Join, DomainsOK, Lifecycle, Set, pumpVars
<1>4. CASE RoomReady(c)
  BY <1>4 DEF RoomReady, DomainsOK, Lifecycle, Set
<1>5. CASE RoomReadyFails(c) \/ Leave(c)
  BY <1>5 DEF RoomReadyFails, Leave, DomainsOK, Lifecycle, Set, pumpVars
<1>6. CASE ReadFails(c) \/ ReadRejects(c)
  BY <1>6 DEF ReadFails, ReadRejects, StopReading, DomainsOK, Lifecycle, Set
<1>7. CASE AwaitPumps(c)
  BY <1>7 DEF AwaitPumps, WriterSignalled, DomainsOK, Lifecycle, Set, pumpVars
<1>8. CASE Release(c)
  BY <1>8 DEF Release, DomainsOK, Lifecycle, Set, pumpVars
<1>9. CASE ReadFrame(c) \/ WriteMessage(c) \/ RoomDelivers(c) \/ RoomCloses(c)
  <2>1. UNCHANGED <<pc, sock, processor, writer>>
    BY <1>9 DEF ReadFrame, WriteMessage, RoomDelivers, RoomCloses, connVars, pumpVars
  <2> QED
    BY <2>1 DEF Lifecycle
<1>10. CASE ProcessorStep(c)
  BY <1>10 DEF ProcessorStep, TakeFrame, Handle, ProcessorFails, EnqueueAck, ProcessorEnds,
               DomainsOK, Lifecycle, Set, connVars
<1>11. CASE WriterEnds(c) \/ WriterCloses(c)
  BY <1>11 DEF WriterEnds, WriterCloses, DomainsOK, Lifecycle, Set, connVars
<1>12. CASE PeerGone(c)
  BY <1>12 DEF PeerGone, DomainsOK, Lifecycle, Set, pumpVars
<1> QED
  BY <1>1, <1>2, <1>3, <1>4, <1>5, <1>6, <1>7, <1>8, <1>9, <1>10, <1>11, <1>12
  DEF ConnStep, HandlerStep

\* A sequence and one more element, or one less.
LEMMA SeqFacts ==
    ASSUME NEW T
    PROVE  /\ <<>> \in Seq(T) /\ Len(<<>>) = 0 /\ DOMAIN <<>> = {}
           /\ \A s \in Seq(T) : Len(s) \in Nat /\ DOMAIN s = 1..Len(s)
           /\ \A s \in Seq(T), e \in T :
                 /\ Append(s, e) \in Seq(T) /\ Len(Append(s, e)) = Len(s) + 1
                 /\ \A i \in DOMAIN s : Append(s, e)[i] = s[i]
                 /\ Append(s, e)[Len(s) + 1] = e
           /\ \A s \in Seq(T) : s # <<>> =>
                 /\ Head(s) = s[1] /\ 1 \in DOMAIN s /\ Len(s) \in Nat \ {0}
                 /\ Tail(s) \in Seq(T) /\ Len(Tail(s)) = Len(s) - 1
                 /\ \A i \in DOMAIN Tail(s) : i + 1 \in DOMAIN s /\ Tail(s)[i] = s[i + 1]
OBVIOUS

\* The steps that leave the frames and the processor of a connection alone.
LEMMA InOrderKept ==
    ASSUME NEW c \in Conns, InOrder(c),
           processor'[c] = processor[c] \/ processor'[c] = "done",
           pc'[c] = "reading" => pc[c] = "reading",
           inbound'[c] = inbound[c], frame'[c] = frame[c], acks'[c] = acks[c],
           confirmed'[c] = confirmed[c],
           sent'[c] = sent[c] \/ (sent'[c] = sent[c] + 1 /\ pc'[c] # "reading" /\ processor[c] # "none")
    PROVE  InOrder(c)'
<1>1. sent'[c] \in Nat /\ Len(acks[c]) \in Nat
  BY SeqFacts DEF InOrder
<1>2. processor'[c] = processor[c] => Taken(c)' = Taken(c)
  BY DEF Taken
<1> HIDE DEF Taken
<1>3. CASE processor'[c] = processor[c]
  BY <1>1, <1>2, <1>3 DEF InOrder
<1>4. CASE processor'[c] = "done"
  BY <1>1, <1>4 DEF InOrder
<1> QED
  BY <1>3, <1>4

\* Every step of a connection keeps its frames and answers in order.
LEMMA InOrderStep ==
    ASSUME DomainsOK, NEW c \in Conns, Lifecycle(c), InOrder(c), ConnStep(c)
    PROVE  InOrder(c)'
<1>0. Len(acks[c]) \in Nat /\ Len(inbound[c]) \in Nat /\ Taken(c) \in Nat /\ sent[c] \in Nat
  <2>1. inbound[c] \in Seq(Nat) /\ acks[c] \in Seq(Answers) /\ sent[c] \in Nat
    BY DEF InOrder
  <2>2. Len(acks[c]) \in Nat /\ Len(inbound[c]) \in Nat
    BY <2>1, SeqFacts
  <2> QED
    <3>1. CASE processor[c] \in {"handling", "answering"}
      BY <2>1, <2>2, <3>1 DEF Taken
    <3>2. CASE processor[c] \notin {"handling", "answering"}
      BY <2>1, <2>2, <3>2 DEF Taken
    <3> QED
      BY <3>1, <3>2
<1>1. CASE \/ Admit(c) \/ Upgrade(c) \/ Join(c) \/ RoomReadyFails(c) \/ Leave(c)
           \/ AwaitPumps(c) \/ Release(c)
  <2>1. UNCHANGED <<processor, inbound, frame, acks, confirmed, sent>>
    BY <1>1 DEF Admit, Upgrade, Join, RoomReadyFails, Leave, AwaitPumps, Release, pumpVars, histVars
  <2>2. pc'[c] # "reading"
    BY <1>1 DEF Admit, Upgrade, Join, RoomReadyFails, Leave, AwaitPumps, Release, Set, DomainsOK
  <2> QED
    BY <2>1, <2>2, InOrderKept
<1>2. CASE ReadFails(c) \/ ReadRejects(c)
  <2>1. /\ UNCHANGED <<processor, inbound, frame, acks, confirmed>> /\ pc'[c] # "reading"
        /\ pc[c] = "reading"
        /\ sent'[c] = sent[c] \/ sent'[c] = sent[c] + 1
    BY <1>2 DEF ReadFails, ReadRejects, StopReading, Set, DomainsOK, histVars
  <2>2. processor[c] # "none"
    BY <2>1 DEF Lifecycle
  <2> QED
    BY <2>1, <2>2, InOrderKept
<1>3. CASE RoomReady(c)
  <2>1. /\ UNCHANGED <<inbound, frame, acks, confirmed, sent>> /\ processor'[c] = "idle"
        /\ processor[c] = "none"
    BY <1>3 DEF RoomReady, Set, DomainsOK, histVars, Lifecycle
  <2>2. inbound[c] = <<>> /\ acks[c] = <<>> /\ sent[c] = 0 /\ Taken(c)' = 0
    BY <2>1, SeqFacts DEF InOrder, Taken
  <2> QED
    BY <2>1, <2>2, SeqFacts DEF InOrder
<1>4. CASE ReadFrame(c)
  <2>1. /\ UNCHANGED <<pc, processor, frame, acks, confirmed>> /\ sent'[c] = sent[c] + 1
        /\ inbound'[c] = Append(inbound[c], sent[c] + 1) /\ pc[c] = "reading"
    BY <1>4 DEF ReadFrame, Set, DomainsOK, connVars
  <2>2. sent[c] + 1 \in Nat /\ inbound[c] \in Seq(Nat)
    BY <1>0 DEF InOrder
  <2>3. /\ inbound'[c] \in Seq(Nat) /\ Len(inbound'[c]) = Len(inbound[c]) + 1
        /\ DOMAIN inbound'[c] = 1..(Len(inbound[c]) + 1) /\ DOMAIN inbound[c] = 1..Len(inbound[c])
        /\ \A i \in DOMAIN inbound[c] : inbound'[c][i] = inbound[c][i]
        /\ inbound'[c][Len(inbound[c]) + 1] = sent[c] + 1
    BY <2>1, <2>2, SeqFacts
  <2>4. Taken(c)' = Taken(c)
    BY <2>1 DEF Taken
  <2>5. processor[c] # "none"
    BY <2>1 DEF Lifecycle
  <2>6. ASSUME processor[c] # "done"
        PROVE  /\ \A k \in DOMAIN inbound'[c] : inbound'[c][k] = Taken(c) + k
               /\ sent'[c] = Taken(c) + Len(inbound'[c])
    <3>1. /\ sent[c] = Taken(c) + Len(inbound[c])
          /\ \A k \in DOMAIN inbound[c] : inbound[c][k] = Taken(c) + k
      BY <2>1, <2>6 DEF InOrder
    <3>2. ASSUME NEW k \in DOMAIN inbound'[c]
          PROVE  inbound'[c][k] = Taken(c) + k
      <4>1. CASE k \in DOMAIN inbound[c]
        BY <2>3, <3>1, <4>1
      <4>2. CASE k = Len(inbound[c]) + 1
        BY <1>0, <2>3, <3>1, <4>2
      <4> QED
        BY <1>0, <2>3, <4>1, <4>2
    <3>3. sent'[c] = Taken(c) + Len(inbound'[c])
      BY <1>0, <2>1, <2>3, <3>1
    <3> QED
      BY <3>2, <3>3
  <2> QED
    BY <2>1, <2>2, <2>3, <2>4, <2>5, <2>6 DEF InOrder
<1>5. CASE TakeFrame(c)
  <2>1. /\ UNCHANGED <<pc, acks, confirmed, sent>> /\ processor[c] = "idle"
        /\ processor'[c] = "handling" /\ inbound[c] # <<>>
        /\ frame'[c] = <<Head(inbound[c])>> /\ inbound'[c] = Tail(inbound[c])
    BY <1>5 DEF TakeFrame, Set, DomainsOK, connVars, histVars
  <2>2. Taken(c)' = Taken(c) + 1
    BY <1>0, <2>1 DEF Taken
  <2>3. /\ Head(inbound[c]) = inbound[c][1] /\ 1 \in DOMAIN inbound[c]
        /\ inbound'[c] \in Seq(Nat) /\ Len(inbound'[c]) = Len(inbound[c]) - 1
        /\ DOMAIN inbound'[c] = 1..Len(inbound'[c])
        /\ \A i \in DOMAIN inbound'[c] : i + 1 \in DOMAIN inbound[c] /\ inbound'[c][i] = inbound[c][i + 1]
    BY <2>1, SeqFacts DEF InOrder
  <2>4. /\ \A k \in DOMAIN inbound[c] : inbound[c][k] = Taken(c) + k
        /\ pc[c] = "reading" => sent[c] = Taken(c) + Len(inbound[c])
    BY <2>1 DEF InOrder
  <2>5. frame'[c] = <<Taken(c)'>>
    BY <1>0, <2>1, <2>2, <2>3, <2>4
  <2>6. /\ \A k \in DOMAIN inbound'[c] : inbound'[c][k] = Taken(c)' + k
        /\ pc'[c] = "reading" => sent'[c] = Taken(c)' + Len(inbound'[c])
    <3>1. ASSUME NEW k \in DOMAIN inbound'[c]
          PROVE  inbound'[c][k] = Taken(c)' + k
      <4>1. inbound'[c][k] = Taken(c) + (k + 1) /\ k \in Int
        BY <2>3, <2>4
      <4> QED
        BY <1>0, <2>2, <4>1
    <3> QED
      BY <1>0, <2>1, <2>2, <2>3, <2>4, <3>1
  <2> QED
    BY <2>1, <2>3, <2>5, <2>6 DEF InOrder
<1>6. CASE Handle(c)
  <2>1. /\ UNCHANGED <<pc, inbound, sent, acks>> /\ processor[c] = "handling"
        /\ processor'[c] = "answering"
        /\ \/ /\ frame'[c] = Append(frame[c], "accepted")
              /\ confirmed'[c] = confirmed[c] \cup {frame[c][1]}
           \/ frame'[c] = Append(frame[c], "rejected") /\ confirmed'[c] = confirmed[c]
    BY <1>6 DEF Handle, Accept, Reject, Set, DomainsOK, connVars
  <2>2. Taken(c)' = Taken(c)
    BY <2>1 DEF Taken
  <2>3. /\ frame[c] = <<Taken(c)>> /\ frame[c][1] = Taken(c)
        /\ \A s : Append(frame[c], s) = <<Taken(c), s>>
    <3>1. frame[c] = <<Taken(c)>>
      BY <2>1 DEF InOrder
    <3>2. \A n, s : Append(<<n>>, s) = <<n, s>>
      <4> SUFFICES ASSUME NEW n, NEW s PROVE Append(<<n>>, s) = <<n, s>>
        OBVIOUS
      <4>1. <<n>> \in Seq({n, s}) /\ Len(<<n>>) = 1 /\ <<n>>[1] = n
        OBVIOUS
      <4>2. /\ Append(<<n>>, s) \in Seq({n, s}) /\ Len(Append(<<n>>, s)) = 2
            /\ Append(<<n>>, s)[1] = n /\ Append(<<n>>, s)[2] = s
        BY <4>1
      <4>3. <<n, s>> \in Seq({n, s}) /\ Len(<<n, s>>) = 2 /\ <<n, s>>[1] = n /\ <<n, s>>[2] = s
        OBVIOUS
      <4>4. \A a, b \in Seq({n, s}) : Len(a) = 2 /\ Len(b) = 2 /\ a[1] = b[1] /\ a[2] = b[2] => a = b
        OBVIOUS
      <4> QED
        BY <4>2, <4>3, <4>4
    <3>3. \A n : <<n>>[1] = n
      OBVIOUS
    <3> QED
      BY <3>1, <3>2, <3>3
  <2>4. \/ frame'[c] = <<Taken(c)', "accepted">> /\ Taken(c)' \in confirmed'[c]
        \/ frame'[c] = <<Taken(c)', "rejected">>
    BY <2>1, <2>2, <2>3
  <2>5. confirmed[c] \subseteq confirmed'[c]
    BY <2>1
  <2> QED
    BY <2>1, <2>2, <2>4, <2>5 DEF InOrder
<1>7. CASE EnqueueAck(c)
  <2>1. /\ UNCHANGED <<pc, inbound, sent, confirmed>> /\ processor[c] = "answering"
        /\ processor'[c] = "idle" /\ acks'[c] = Append(acks[c], frame[c])
    BY <1>7 DEF EnqueueAck, Set, DomainsOK, connVars
  <2>2. Taken(c) = Len(acks[c]) + 1
    BY <2>1 DEF Taken
  <2>3. /\ frame[c] \in Answers /\ frame[c][1] = Taken(c)
        /\ frame[c][2] = "accepted" => Taken(c) \in confirmed[c]
    <3>1. CASE frame[c] = <<Taken(c), "accepted">> /\ Taken(c) \in confirmed[c]
      BY <1>0, <3>1 DEF Answers
    <3>2. CASE frame[c] = <<Taken(c), "rejected">>
      BY <1>0, <3>2 DEF Answers
    <3> QED
      BY <2>1, <3>1, <3>2 DEF InOrder
  <2>4. /\ acks'[c] \in Seq(Answers) /\ Len(acks'[c]) = Len(acks[c]) + 1
        /\ DOMAIN acks'[c] = 1..(Len(acks[c]) + 1) /\ DOMAIN acks[c] = 1..Len(acks[c])
        /\ \A i \in DOMAIN acks[c] : acks'[c][i] = acks[c][i]
        /\ acks'[c][Len(acks[c]) + 1] = frame[c]
    <3>1. acks[c] \in Seq(Answers)
      BY DEF InOrder
    <3> QED
      BY <2>1, <2>3, <3>1, SeqFacts
  <2>5. Taken(c)' = Taken(c)
    BY <1>0, <2>1, <2>2, <2>4 DEF Taken
  <2>6. ASSUME NEW i \in DOMAIN acks'[c]
        PROVE  /\ acks'[c][i][1] = i
               /\ acks'[c][i][2] = "accepted" => i \in confirmed'[c]
    <3>1. CASE i \in DOMAIN acks[c]
      BY <2>1, <2>4, <3>1 DEF InOrder
    <3>2. CASE i = Len(acks[c]) + 1
      BY <2>1, <2>2, <2>3, <2>4, <3>2
    <3> QED
      BY <1>0, <2>4, <3>1, <3>2
  <2> QED
    BY <2>1, <2>4, <2>5, <2>6 DEF InOrder
<1>8. CASE ProcessorFails(c) \/ ProcessorEnds(c)
  <2>1. UNCHANGED <<pc, inbound, frame, acks, confirmed, sent>> /\ processor'[c] = "done"
    BY <1>8 DEF ProcessorFails, ProcessorEnds, Set, DomainsOK, connVars, histVars
  <2> QED
    BY <2>1, InOrderKept
<1>9. CASE \/ WriteMessage(c) \/ WriterEnds(c) \/ WriterCloses(c)
           \/ PeerGone(c) \/ RoomDelivers(c) \/ RoomCloses(c)
  <2>1. UNCHANGED <<pc, inbound, frame, acks, confirmed, sent, processor>>
    BY <1>9 DEF WriteMessage, WriterEnds, WriterCloses, PeerGone, RoomDelivers, RoomCloses,
                connVars, pumpVars, histVars
  <2> QED
    BY <2>1, InOrderKept
<1> QED
  BY <1>1, <1>2, <1>3, <1>4, <1>5, <1>6, <1>7, <1>8, <1>9 DEF ConnStep, HandlerStep, ProcessorStep

\* The admitted connections and those of each user are finite in number.
LEMMA AdmittedFinite ==
    /\ IsFiniteSet(Admitted) /\ Cardinality(Admitted) \in Nat
    /\ \A u \in Users : IsFiniteSet(AdmittedOf(u)) /\ Cardinality(AdmittedOf(u)) \in Nat
<1>1. IsFiniteSet(Admitted)
  BY ConnectionAssumption, FS_Subset DEF Admitted
<1>2. \A u \in Users : IsFiniteSet(AdmittedOf(u))
  BY <1>1, FS_Subset DEF AdmittedOf
<1> QED
  BY <1>1, <1>2, FS_CardinalityType

\* A step that neither admits nor releases.
LEMMA AdmissionKept ==
    ASSUME AdmissionExact, Admitted' = Admitted, UNCHANGED <<active, activeByUser>>
    PROVE  AdmissionExact'
BY DEF AdmissionExact

\* admit counts the connection that it lets in, within both limits.
LEMMA AdmitExact ==
    ASSUME DomainsOK, AdmissionExact, NEW c \in Conns, Admit(c)
    PROVE  AdmissionExact'
<1>1. CASE ~Admissible(c)
  <2>1. UNCHANGED <<active, activeByUser>> /\ Admitted' = Admitted
    BY <1>1 DEF Admit, Set, DomainsOK, Admitted
  <2> QED
    BY <2>1, AdmissionKept
<1>2. CASE Admissible(c)
  <2> DEFINE u == User[c]
  <2>1. u \in Users /\ c \notin Admitted /\ c \notin AdmittedOf(u)
    BY ConnectionAssumption DEF Admit, Admitted, AdmittedOf
  <2>2. Admitted' = Admitted \cup {c}
    BY <1>2 DEF Admit, Set, DomainsOK, Admitted
  <2>3. /\ AdmittedOf(u)' = AdmittedOf(u) \cup {c}
        /\ \A v \in Users \ {u} : AdmittedOf(v)' = AdmittedOf(v)
    BY <2>2 DEF AdmittedOf
  <2>4. /\ active' = active + 1 /\ active < MaxConnections
        /\ activeByUser'[u] = activeByUser[u] + 1 /\ activeByUser[u] < MaxConnectionsPerUser
        /\ \A v \in Users \ {u} : activeByUser'[v] = activeByUser[v]
    BY <1>2, <2>1 DEF Admit, Admissible, DomainsOK
  <2>5. /\ Cardinality(Admitted') = Cardinality(Admitted) + 1
        /\ Cardinality(AdmittedOf(u)') = Cardinality(AdmittedOf(u)) + 1
    BY <2>1, <2>2, <2>3, AdmittedFinite, FS_AddElement
  <2>6. /\ active = Cardinality(Admitted) /\ active \in Nat
        /\ activeByUser[u] = Cardinality(AdmittedOf(u)) /\ activeByUser[u] \in Nat
        /\ MaxConnections \in Nat /\ MaxConnectionsPerUser \in Nat
    BY <2>1, AdmittedFinite, ConnectionAssumption DEF AdmissionExact, AdmittedOf
  <2>7. active' = Cardinality(Admitted') /\ active' <= MaxConnections
    BY <2>4, <2>5, <2>6
  <2>8. activeByUser'[u] = Cardinality(AdmittedOf(u)') /\ activeByUser'[u] <= MaxConnectionsPerUser
    BY <2>4, <2>5, <2>6
  <2>9. \A v \in Users \ {u} :
          activeByUser'[v] = Cardinality(AdmittedOf(v)') /\ activeByUser'[v] <= MaxConnectionsPerUser
    BY <2>3, <2>4 DEF AdmissionExact, AdmittedOf
  <2> HIDE DEF u
  <2> QED
    BY <2>7, <2>8, <2>9 DEF AdmissionExact, AdmittedOf
<1> QED
  BY <1>1, <1>2

\* The deferred release gives back the place that admit took, for the user too.
LEMMA ReleaseExact ==
    ASSUME DomainsOK, AdmissionExact, NEW c \in Conns, Release(c)
    PROVE  AdmissionExact'
<1> DEFINE u == User[c]
<1>1. u \in Users /\ c \in Admitted /\ c \in AdmittedOf(u)
  BY ConnectionAssumption DEF Release, Admitted, AdmittedOf
<1>2. Admitted' = Admitted \ {c}
  BY DEF Release, Set, DomainsOK, Admitted
<1>3. /\ AdmittedOf(u)' = AdmittedOf(u) \ {c}
      /\ \A v \in Users \ {u} : AdmittedOf(v)' = AdmittedOf(v)
  BY <1>2 DEF AdmittedOf
<1>4. /\ active' = active - 1 /\ activeByUser'[u] = activeByUser[u] - 1
      /\ \A v \in Users \ {u} : activeByUser'[v] = activeByUser[v]
  BY <1>1 DEF Release, DomainsOK
<1>5. /\ Cardinality(Admitted') = Cardinality(Admitted) - 1
      /\ Cardinality(AdmittedOf(u)') = Cardinality(AdmittedOf(u)) - 1
  BY <1>1, <1>2, <1>3, AdmittedFinite, FS_RemoveElement
<1>6. /\ active = Cardinality(Admitted) /\ active \in Nat /\ active <= MaxConnections
      /\ activeByUser[u] = Cardinality(AdmittedOf(u)) /\ activeByUser[u] \in Nat
      /\ activeByUser[u] <= MaxConnectionsPerUser
      /\ MaxConnections \in Nat /\ MaxConnectionsPerUser \in Nat
  BY <1>1, AdmittedFinite, ConnectionAssumption DEF AdmissionExact, AdmittedOf
<1>7. active' = Cardinality(Admitted') /\ active' <= MaxConnections
  BY <1>4, <1>5, <1>6
<1>8. activeByUser'[u] = Cardinality(AdmittedOf(u)') /\ activeByUser'[u] <= MaxConnectionsPerUser
  BY <1>4, <1>5, <1>6
<1>9. \A v \in Users \ {u} :
        activeByUser'[v] = Cardinality(AdmittedOf(v)') /\ activeByUser'[v] <= MaxConnectionsPerUser
  BY <1>3, <1>4 DEF AdmissionExact, AdmittedOf
<1> HIDE DEF u
<1> QED
  BY <1>7, <1>8, <1>9 DEF AdmissionExact, AdmittedOf

\* The other steps of a connection are between its admission and its release.
LEMMA OtherSteps ==
    ASSUME DomainsOK, NEW c \in Conns, ConnStep(c), ~Admit(c), ~Release(c)
    PROVE  Admitted' = Admitted /\ UNCHANGED <<active, activeByUser>>
<1>1. CASE Upgrade(c) \/ Join(c) \/ RoomReady(c) \/ RoomReadyFails(c) \/ Leave(c) \/ AwaitPumps(c)
  <2>1. UNCHANGED <<active, activeByUser>>
    BY <1>1 DEF Upgrade, Join, RoomReady, RoomReadyFails, Leave, AwaitPumps, handlerVars
  <2>2. Admitted' = Admitted
    BY <1>1 DEF Upgrade, Join, RoomReady, RoomReadyFails, Leave, AwaitPumps, Set, DomainsOK, Admitted
  <2> QED
    BY <2>1, <2>2
<1>2. CASE ReadFails(c) \/ ReadRejects(c)
  <2>1. UNCHANGED <<active, activeByUser>>
    BY <1>2 DEF ReadFails, ReadRejects, StopReading, handlerVars
  <2>2. Admitted' = Admitted
    BY <1>2 DEF ReadFails, ReadRejects, StopReading, Set, DomainsOK, Admitted
  <2> QED
    BY <2>1, <2>2
<1>3. CASE \/ ReadFrame(c) \/ ProcessorStep(c) \/ WriteMessage(c) \/ WriterEnds(c) \/ WriterCloses(c)
           \/ PeerGone(c) \/ RoomDelivers(c) \/ RoomCloses(c)
  <2>1. UNCHANGED <<pc, active, activeByUser>>
    BY <1>3 DEF ReadFrame, ProcessorStep, TakeFrame, Handle, ProcessorFails, EnqueueAck,
         ProcessorEnds, WriteMessage, WriterEnds, WriterCloses, PeerGone, RoomDelivers, RoomCloses,
         handlerVars, connVars
  <2> QED
    BY <2>1 DEF Admitted
<1> QED
  BY <1>1, <1>2, <1>3 DEF ConnStep, HandlerStep

\* Once Shutdown has begun no request is admitted, and once it has returned no
\* connection has a step that opens a Client.
LEMMA ShutdownKept ==
    ASSUME DomainsOK, ShutdownOrder, NEW c \in Conns, ConnStep(c)
    PROVE  ShutdownOrder'
<1>1. UNCHANGED <<shutdown, draining>>
  BY DEF ConnStep, HandlerStep, ProcessorStep, Admit, Upgrade, Join, RoomReady, RoomReadyFails,
     ReadFails, ReadRejects, StopReading, Leave, AwaitPumps, Release, ReadFrame, TakeFrame,
     Handle, ProcessorFails, EnqueueAck, ProcessorEnds, WriteMessage, WriterEnds, WriterCloses, PeerGone,
     RoomDelivers, RoomCloses, handlerVars
<1>2. shutdown # "idle" => draining
  BY DEF ShutdownOrder
<1>3. ASSUME shutdown = "returned"
      PROVE  Admitted' = {} /\ \A d \in Conns : client'[d] # "open"
  <2>1. draining /\ Admitted = {} /\ \A d \in Conns : client[d] # "open"
    BY <1>2, <1>3 DEF ShutdownOrder
  <2>2. Admitted' = Admitted
    <3>1. CASE Admit(c)
      BY <2>1, <3>1 DEF Admit, Admissible, Set, DomainsOK, Admitted
    <3>2. CASE Release(c)
      BY <2>1, <3>2 DEF Release, Admitted
    <3> QED
      BY <3>1, <3>2, OtherSteps
  <2>3. ~Join(c)
    BY <2>1 DEF Join, Admitted
  <2>4. client'[c] # "open"
    <3>1. CASE LeaveHub(c)
      BY <2>1, <3>1 DEF LeaveHub, Set, DomainsOK
    <3>2. CASE RoomDelivers(c) \/ RoomCloses(c)
      BY <2>1, <3>2 DEF RoomDelivers, RoomCloses
    <3>3. CASE UNCHANGED client
      BY <2>1, <3>3
    <3> QED
      BY <2>3, <3>1, <3>2, <3>3 DEF ConnStep, HandlerStep, ProcessorStep, Admit, Upgrade, RoomReady,
         RoomReadyFails, ReadFails, ReadRejects, StopReading, Leave, AwaitPumps, Release, ReadFrame,
         TakeFrame, Handle, ProcessorFails, EnqueueAck, ProcessorEnds, WriteMessage, WriterEnds, WriterCloses,
         PeerGone, clientVars
  <2>5. \A d \in Conns \ {c} : client'[d] = client[d]
    BY OthersSame DEF Same
  <2> QED
    BY <2>1, <2>2, <2>4, <2>5
<1> QED
  BY <1>1, <1>2, <1>3 DEF ShutdownOrder

-----------------------------------------------------------------------------

\* The inductive invariant holds initially.
LEMMA InitInv == Init => IndInv
<1> SUFFICES ASSUME Init PROVE IndInv
  OBVIOUS
<1>1. DomainsOK
  BY DEF Init, DomainsOK
<1>2. AdmissionExact
  <2>1. Admitted = {} /\ \A u \in Users : {c \in Admitted : User[c] = u} = {}
    BY DEF Init, Admitted
  <2>2. Cardinality({}) = 0
    BY FS_EmptySet
  <2>3. MaxConnections \in Nat \ {0} /\ MaxConnectionsPerUser \in Nat \ {0}
    BY ConnectionAssumption
  <2>4. active = 0 /\ \A u \in Users : activeByUser[u] = 0
    BY DEF Init
  <2> QED
    BY <2>1, <2>2, <2>3, <2>4 DEF AdmissionExact
<1>3. ShutdownOrder
  BY DEF Init, ShutdownOrder
<1>4. \A c \in Conns : Lifecycle(c)
  BY DEF Init, Lifecycle
<1>5. \A c \in Conns : InOrder(c)
  <2> SUFFICES ASSUME NEW c \in Conns PROVE InOrder(c)
    OBVIOUS
  <2>1. inbound[c] = <<>> /\ acks[c] = <<>> /\ sent[c] = 0 /\ processor[c] = "none" /\ pc[c] = "start"
    BY DEF Init
  <2> QED
    BY <2>1, SeqFacts DEF InOrder
<1> QED
  BY <1>1, <1>2, <1>3, <1>4, <1>5 DEF IndInv

\* Every step of the connections and of Shutdown keeps the invariant.
LEMMA StepInv == IndInv /\ [Next]_vars => IndInv'
<1> SUFFICES ASSUME IndInv, [Next]_vars PROVE IndInv'
  OBVIOUS
<1>0. /\ DomainsOK /\ AdmissionExact /\ ShutdownOrder
      /\ \A c \in Conns : Lifecycle(c) /\ InOrder(c)
  BY DEF IndInv
<1>1. ASSUME NEW c \in Conns, ConnStep(c)
      PROVE  IndInv'
  <2>1. DomainsOK' /\ \A d \in Conns \ {c} : Same(d)
    BY <1>0, <1>1, OthersSame
  <2>2. AdmissionExact'
    BY <1>0, <1>1, AdmitExact, ReleaseExact, OtherSteps, AdmissionKept
  <2>3. ShutdownOrder'
    BY <1>0, <1>1, ShutdownKept
  <2>4. Lifecycle(c)' /\ InOrder(c)'
    BY <1>0, <1>1, LifecycleStep, InOrderStep
  <2>5. ASSUME NEW d \in Conns \ {c}
        PROVE  Lifecycle(d)' /\ InOrder(d)'
    <3>1. Same(d) /\ Lifecycle(d) /\ InOrder(d)
      BY <1>0, <2>1
    <3>2. Lifecycle(d)'
      BY <3>1 DEF Same, Lifecycle
    <3>3. InOrder(d)'
      BY <3>1, InOrderKept DEF Same
    <3> QED
      BY <3>2, <3>3
  <2> QED
    BY <2>1, <2>2, <2>3, <2>4, <2>5 DEF IndInv
<1>2. ASSUME UNCHANGED <<active, activeByUser, connVars, pumpVars, clientVars, histVars>>, ShutdownOrder'
      PROVE  IndInv'
  <2>1. DomainsOK'
    BY <1>0, <1>2 DEF DomainsOK, connVars, pumpVars, clientVars, histVars
  <2>2. AdmissionExact'
    BY <1>0, <1>2, AdmissionKept DEF Admitted, connVars
  <2>3. ASSUME NEW d \in Conns
        PROVE  Lifecycle(d)' /\ InOrder(d)'
    <3>1. Lifecycle(d) /\ InOrder(d)
      BY <1>0
    <3>2. Lifecycle(d)'
      BY <1>2, <3>1 DEF Lifecycle, connVars, pumpVars
    <3>3. InOrder(d)'
      BY <1>2, <3>1, InOrderKept DEF connVars, pumpVars, histVars
    <3> QED
      BY <3>2, <3>3
  <2> QED
    BY <1>2, <2>1, <2>2, <2>3 DEF IndInv
<1>3. CASE SetDraining \/ ShutdownHub \/ ShutdownReturns \/ ShutdownTimesOut
  <2>1. UNCHANGED <<active, activeByUser, connVars, pumpVars, clientVars, histVars>>
    BY <1>3 DEF SetDraining, ShutdownHub, ShutdownReturns, ShutdownTimesOut
  <2>2. Admitted' = Admitted /\ client' = client
    BY <2>1 DEF Admitted, connVars, clientVars
  <2>3. ShutdownOrder'
    BY <1>0, <1>3, <2>2 DEF SetDraining, ShutdownHub, ShutdownReturns, ShutdownTimesOut, ShutdownOrder
  <2> QED
    BY <1>2, <2>1, <2>3
<1>4. CASE UNCHANGED vars
  <2>1. UNCHANGED <<active, activeByUser, connVars, pumpVars, clientVars, histVars>>
    BY <1>4 DEF vars, handlerVars
  <2>2. ShutdownOrder'
    BY <1>0, <1>4 DEF vars, handlerVars, connVars, clientVars, ShutdownOrder, Admitted
  <2> QED
    BY <1>2, <2>1, <2>2
<1>5. Next => (\E c \in Conns : ConnStep(c))
           \/ SetDraining \/ ShutdownHub \/ ShutdownReturns \/ ShutdownTimesOut
  BY DEF Next, ConnStep
<1> QED
  BY <1>1, <1>3, <1>4, <1>5

\* The invariant holds in every reachable state.
LEMMA Invariance == Spec => []IndInv
BY InitInv, StepInv, PTL DEF Spec

\* The counters of admit and release are the numbers of connections that are admitted,
\* in all and for each user, and never exceed the limits, on every path out of Connect.
THEOREM LimitsHold == Spec => []AdmissionExact
<1>1. IndInv => AdmissionExact
  BY DEF IndInv
<1> QED
  BY <1>1, Invariance, PTL

\* When Shutdown has returned without an error no admitted connection is left: its
\* network connection and Client are closed, its processor has ended and its writer has
\* at most the closing tail to run.
THEOREM ShutdownWaits == Spec => []ShutdownIsQuiet
<1>1. IndInv => ShutdownIsQuiet
  <2> SUFFICES ASSUME IndInv, shutdown = "returned", NEW c \in Conns
               PROVE  /\ c \notin Admitted /\ sock[c] = "closed" /\ client[c] # "open"
                      /\ processor[c] \in {"none", "done"} /\ writer[c] # "running"
    BY DEF ShutdownIsQuiet
  <2>1. c \notin Admitted /\ client[c] # "open" /\ Lifecycle(c)
    BY DEF IndInv, ShutdownOrder
  <2>2. pc[c] \in {"start", "refused", "released"}
    BY <2>1 DEF Admitted
  <2> QED
    BY <2>1, <2>2 DEF Lifecycle
<1> QED
  BY <1>1, Invariance, PTL

\* The processor answers the frames of a peer in their order, one answer each, and
\* "accepted" only after the publication was confirmed, whichever pump ends first.
THEOREM AnswersInOrder == Spec => []AcksAreTrue
<1>1. IndInv => AcksAreTrue
  BY DEF IndInv, InOrder, AcksAreTrue
<1> QED
  BY <1>1, Invariance, PTL

=============================================================================

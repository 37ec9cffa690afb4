--------------------------- MODULE RabbitMQProofs ---------------------------
(***************************************************************************)
(* Proofs about the two parts of internal/rabbitmq: Publisher, for every   *)
(* number of calls, lanes and queues and any number of faults, and         *)
(* RabbitClient, for every number of callers, connections and failed       *)
(* dials.                                                                  *)
(***************************************************************************)
EXTENDS Publisher, RabbitClient, FiniteSetTheorems, TLAPS

(***************************************************************************)
(* The publisher: Publisher.                                               *)
(***************************************************************************)

\* The calls Close waits for.
InCall == {p \in Pubs : pc[p] \notin {"new", "done"}}

\* Some queue has the message.
Routed(p) == \E q \in Queues : p \in queued[q]

\* The broker's answer to a message in flight would still reach its lane.
Live(f) == chan[f.lane] = "open" /\ gen[f.lane] = f.gen

\* Only a call that holds a lane knows one, and only one that has ended has a result.
CallsInOrder ==
    \A p \in Pubs :
        /\ p \notin Holding => lane[p] = None
        /\ pc[p] # "done" => result[p] = "none"
        /\ pc[p] \in {"new", "waiting", "lane", "send"} => conf[p] = "none"

\* A message is in flight once.  If its channel is still there, its call waits for the
\* answer and no part of an answer has come.
FlightInv ==
    /\ \A f \in flight :
          /\ pc[f.pub] \in {"await", "done"}
          /\ f.gen <= gen[f.lane]
          /\ Live(f) =>
                /\ pc[f.pub] = "await" /\ lane[f.pub] = f.lane /\ conf[f.pub] = "pending"
                /\ returns[f.lane] = <<>>
                /\ \A i \in DOMAIN frames[f.lane] : frames[f.lane][i].pub # f.pub
    /\ \A f, g \in flight : f.pub = g.pub => f = g

\* What is unread on a channel is the answer to the call that waits for it, or the
\* confirmation that came after a return an earlier call has already read.
FrameOK(l, i, p, k) ==
    /\ pc[p] \in {"await", "done"}
    /\ pc[p] = "await" => lane[p] = l /\ conf[p] = "pending"
    /\ k # "ack" => pc[p] = "await"
    /\ k = "nack" => <<p, "nacked">> \in answered
    /\ k = "return" => <<p, "unroutable">> \in answered
    /\ \A h \in DOMAIN frames[l] : frames[l][h].pub = p =>
          /\ k # "return" => h <= i
          /\ k = "return" => h = i \/ frames[l][h].kind = "ack"
    /\ k = "ack" =>
          \/ Routed(p) \/ pc[p] = "done" \/ returns[l] = <<p>>
          \/ i > 1 /\ frames[l][i - 1].kind = "return" /\ frames[l][i - 1].pub = p

FramesInv ==
    \A l \in Lanes : \A i \in DOMAIN frames[l] :
        FrameOK(l, i, frames[l][i].pub, frames[l][i].kind)

\* A return in returnsCh is for the call that holds the lane, and nothing but its
\* confirmation comes after it.
ReturnsInv ==
    \A l \in Lanes : returns[l] # <<>> =>
        \E p \in Pubs :
            /\ returns[l] = <<p>>
            /\ pc[p] = "await" /\ lane[p] = l
            /\ <<p, "unroutable">> \in answered
            /\ conf[p] = "nack" => chan[l] # "open"
            /\ \A i \in DOMAIN frames[l] : frames[l][i].pub = p => frames[l][i].kind = "ack"

\* What a confirmation says of the message of a waiting call.
ConfInv ==
    \A p \in Pubs : pc[p] = "await" =>
        /\ conf[p] = "ack" => Routed(p) \/ returns[lane[p]] = <<p>>
        /\ conf[p] = "nack" /\ chan[lane[p]] = "open" => <<p, "nacked">> \in answered

\* Close admits no call and ends when none is left.
CloseInv ==
    /\ closePc # "idle" => closed
    /\ closePc = "done" => InCall = {} /\ \A l \in Lanes : chan[l] # "open"

IndInv ==
    /\ TypeOK
    /\ CallsInOrder
    /\ LanesAccounted
    /\ FlightInv
    /\ FramesInv
    /\ ReturnsInv
    /\ ConfInv
    /\ CloseInv
    /\ ConfirmedWasRouted
    /\ ResultIsOwn

-----------------------------------------------------------------------------

\* Close waits for a finite number of calls, and one that ends is no longer counted.
LEMMA Counts ==
    ASSUME LanesAccounted
    PROVE  /\ IsFiniteSet(InCall) /\ active = Cardinality(InCall) /\ active \in Nat
           /\ \A p \in InCall : active - 1 \in Nat /\ Cardinality(InCall \ {p}) = active - 1
           /\ \A p \in Pubs \ InCall : Cardinality(InCall \cup {p}) = active + 1
           /\ active = 0 => InCall = {}
<1>1. IsFiniteSet(InCall)
  BY PublisherAssumption, FS_Subset DEF InCall
<1>2. active = Cardinality(InCall)
  BY DEF LanesAccounted, InCall
<1>3. active \in Nat
  BY <1>1, <1>2, FS_CardinalityType
<1>4. ASSUME NEW p \in InCall
      PROVE  active - 1 \in Nat /\ Cardinality(InCall \ {p}) = active - 1
  <2>1. Cardinality(InCall \ {p}) = active - 1
    BY <1>1, <1>2, FS_RemoveElement
  <2>2. Cardinality(InCall \ {p}) \in Nat
    BY <1>1, FS_RemoveElement, FS_CardinalityType
  <2> QED
    BY <2>1, <2>2
<1>5. ASSUME NEW p \in Pubs \ InCall
      PROVE  Cardinality(InCall \cup {p}) = active + 1
  BY <1>1, <1>2, FS_AddElement
<1>6. active = 0 => InCall = {}
  BY <1>1, <1>2, FS_EmptySet
<1> QED
  BY <1>1, <1>2, <1>3, <1>4, <1>5, <1>6

\* The end of a call: its lane is free again.
LEMMA FinishFacts ==
    ASSUME TypeOK, LanesAccounted, CallsInOrder, NEW p \in Holding, NEW r, Finish(p, r),
           r \in {"ok", "unroutable", "nacked", "interrupted", "timeout"}
    PROVE  /\ pc' \in [Pubs -> {"new", "waiting", "lane", "send", "await", "done"}]
           /\ lane' \in [Pubs -> Lanes \cup {None}]
           /\ result' \in [Pubs -> {"none", "ok", "unroutable", "nacked", "interrupted",
                                   "timeout", "closed"}]
           /\ available' \in SUBSET Lanes
           /\ active' \in Nat
           /\ lane[p] \in Lanes
           /\ pc'[p] = "done" /\ result'[p] = r /\ lane'[p] = None
           /\ \A o \in Pubs \ {p} :
                 pc'[o] = pc[o] /\ lane'[o] = lane[o] /\ result'[o] = result[o]
           /\ UNCHANGED <<conf, closed, closePc, flight, bound, queued, answered, faults>>
           /\ CallsInOrder'
           /\ LanesAccounted'
<1>1. p \in InCall /\ p \in Pubs /\ lane[p] \in Lanes \ available
  BY DEF Holding, InCall, LanesAccounted
<1>2. active' \in Nat
  BY <1>1, Counts DEF Finish
<1>3. /\ pc' \in [Pubs -> {"new", "waiting", "lane", "send", "await", "done"}]
      /\ lane' \in [Pubs -> Lanes \cup {None}]
      /\ result' \in [Pubs -> {"none", "ok", "unroutable", "nacked", "interrupted",
                              "timeout", "closed"}]
      /\ available' \in SUBSET Lanes
  BY <1>1 DEF Finish, TypeOK
<1>4. /\ pc'[p] = "done" /\ result'[p] = r /\ lane'[p] = None
      /\ \A o \in Pubs \ {p} :
            pc'[o] = pc[o] /\ lane'[o] = lane[o] /\ result'[o] = result[o]
      /\ available' = available \cup {lane[p]}
      /\ active' = active - 1
      /\ UNCHANGED <<conf, closed, closePc, flight, bound, queued, answered, faults>>
  BY <1>1 DEF Finish, TypeOK, brokerVars
<1>5. Holding' = Holding \ {p} /\ InCall' = InCall \ {p}
  BY <1>1, <1>4 DEF Holding, InCall
<1>6. CallsInOrder'
  BY <1>4, <1>5 DEF CallsInOrder
<1>7. LanesAccounted'
  <2>1. active' = Cardinality(InCall')
    BY <1>1, <1>4, <1>5, Counts
  <2>2. \A o \in Holding' : lane'[o] \in Lanes \ available'
    BY <1>1, <1>4, <1>5 DEF LanesAccounted, Holding
  <2>3. \A o, q \in Holding' : lane'[o] = lane'[q] => o = q
    BY <1>4, <1>5 DEF LanesAccounted, Holding
  <2>4. Lanes \ available' = {lane'[o] : o \in Holding'}
    <3>1. \A o \in Holding' : lane'[o] = lane[o]
      BY <1>4, <1>5 DEF Holding
    <3>2. \A l \in Lanes \ available' : \E o \in Holding' : l = lane'[o]
      BY <1>4, <1>5, <3>1 DEF LanesAccounted
    <3> QED
      BY <2>2, <3>2
  <2> QED
    BY <2>1, <2>2, <2>3, <2>4 DEF LanesAccounted, InCall
<1> QED
  BY <1>1, <1>2, <1>3, <1>4, <1>6, <1>7

\* Sequences over a set: the empty one, and what is read from the front.
LEMMA SeqFacts ==
    ASSUME NEW T
    PROVE  /\ <<>> \in Seq(T)
           /\ \A s \in Seq(T) : \A i \in DOMAIN s : s[i] \in T
           /\ \A s \in Seq(T) : s # <<>> =>
                 /\ Head(s) \in T /\ Head(s) = s[1] /\ 1 \in DOMAIN s
                 /\ Tail(s) \in Seq(T)
                 /\ DOMAIN Tail(s) = 1..(Len(s) - 1) /\ Len(s) \in Nat \ {0}
                 /\ \A i \in DOMAIN Tail(s) : i + 1 \in DOMAIN s /\ Tail(s)[i] = s[i + 1]
OBVIOUS

\* The answers a broker gives.
LEMMA AnswerKinds ==
    /\ <<"ack">> \in Seq({"return", "ack", "nack"})
    /\ <<"nack">> \in Seq({"return", "ack", "nack"})
    /\ <<"return", "ack">> \in Seq({"return", "ack", "nack"})
    /\ <<>> \in Seq({"return", "ack", "nack"})
<1>1. <<"ack">> \in Seq({"return", "ack", "nack"})
  OBVIOUS
<1>2. <<"nack">> \in Seq({"return", "ack", "nack"})
  OBVIOUS
<1>3. <<"return", "ack">> \in Seq({"return", "ack", "nack"})
  OBVIOUS
<1>4. <<>> \in Seq({"return", "ack", "nack"})
  BY SeqFacts
<1> QED
  BY <1>1, <1>2, <1>3, <1>4

\* The end of a call keeps the types, if it keeps those of the lanes.
LEMMA FinishTypes ==
    ASSUME TypeOK, LanesAccounted, CallsInOrder, NEW p \in Holding, NEW r, Finish(p, r),
           r \in {"ok", "unroutable", "nacked", "interrupted", "timeout"},
           chan' \in [Lanes -> {"nil", "open", "dead"}],
           gen' \in [Lanes -> Nat],
           returns' \in [Lanes -> Seq(Pubs)],
           frames' \in [Lanes -> Seq([kind : {"return", "ack", "nack"}, pub : Pubs])]
    PROVE  TypeOK'
<1>1. /\ pc' \in [Pubs -> {"new", "waiting", "lane", "send", "await", "done"}]
      /\ lane' \in [Pubs -> Lanes \cup {None}]
      /\ result' \in [Pubs -> {"none", "ok", "unroutable", "nacked", "interrupted",
                              "timeout", "closed"}]
      /\ available' \in SUBSET Lanes
      /\ active' \in Nat
      /\ UNCHANGED <<conf, closed, closePc, flight, bound, queued, answered, faults>>
  BY FinishFacts
<1> QED
  BY <1>1 DEF TypeOK

\* What an answer of the broker adds to the frames of a lane.
LEMMA AnswerFrames ==
    ASSUME TypeOK, NEW f \in flight, NEW kinds \in Seq({"return", "ack", "nack"}),
           Answer(f, kinds)
    PROVE  /\ frames' \in [Lanes -> Seq([kind : {"return", "ack", "nack"}, pub : Pubs])]
           /\ \A l \in Lanes : l # f.lane \/ ~Live(f) => frames'[l] = frames[l]
           /\ Live(f) =>
                 /\ Len(frames'[f.lane]) = Len(frames[f.lane]) + Len(kinds)
                 /\ \A i \in DOMAIN frames[f.lane] : frames'[f.lane][i] = frames[f.lane][i]
                 /\ \A i \in DOMAIN kinds :
                       frames'[f.lane][Len(frames[f.lane]) + i] = [kind |-> kinds[i], pub |-> f.pub]
<1> DEFINE T == [kind : {"return", "ack", "nack"}, pub : Pubs]
           l == f.lane
           a == [i \in 1..Len(kinds) |-> [kind |-> kinds[i], pub |-> f.pub]]
           s == frames[l] \o a
<1>1. l \in Lanes /\ f.pub \in Pubs /\ frames[l] \in Seq(T)
  BY DEF TypeOK
<1>2. Len(kinds) \in Nat /\ DOMAIN kinds = 1..Len(kinds)
      /\ \A i \in 1..Len(kinds) : kinds[i] \in {"return", "ack", "nack"}
  OBVIOUS
<1>3. a \in Seq(T) /\ Len(a) = Len(kinds) /\ \A i \in 1..Len(kinds) : a[i] = [kind |-> kinds[i], pub |-> f.pub]
  <2>1. \A i \in 1..Len(kinds) : [kind |-> kinds[i], pub |-> f.pub] \in T
    BY <1>1, <1>2
  <2>2. a \in [1..Len(kinds) -> T]
    BY <2>1
  <2> QED
    BY <1>2, <2>2
<1>4. /\ s \in Seq(T) /\ Len(s) = Len(frames[l]) + Len(kinds)
      /\ \A i \in DOMAIN frames[l] : s[i] = frames[l][i]
      /\ \A i \in 1..Len(kinds) : s[Len(frames[l]) + i] = a[i]
  <2> HIDE DEF a, T
  <2> QED
    BY SMTT(30), <1>1, <1>2, <1>3
<1>5. frames' = IF Live(f) THEN [frames EXCEPT ![l] = s] ELSE frames
  BY DEF Answer, Live
<1> HIDE DEF s, a, T
<1>6. frames \in [Lanes -> Seq(T)]
  BY DEF TypeOK, T
<1>7. frames' \in [Lanes -> Seq(T)] /\ \A k \in Lanes : k # l \/ ~Live(f) => frames'[k] = frames[k]
  BY <1>1, <1>4, <1>5, <1>6, Zenon
<1>8. Live(f) => frames'[l] = s
  BY <1>1, <1>5, <1>6
<1>9. Live(f) => /\ Len(frames'[l]) = Len(frames[l]) + Len(kinds)
                 /\ \A i \in DOMAIN frames[l] : frames'[l][i] = frames[l][i]
                 /\ \A i \in DOMAIN kinds :
                       frames'[l][Len(frames[l]) + i] = [kind |-> kinds[i], pub |-> f.pub]
  BY <1>2, <1>3, <1>4, <1>8, Zenon
<1> QED
  BY <1>7, <1>9, Zenon DEF T

\* Every action keeps the types.
LEMMA TypeStep == IndInv /\ [Next]_vars => TypeOK'
<1> SUFFICES ASSUME IndInv, [Next]_vars PROVE TypeOK'
  OBVIOUS
<1>0. TypeOK /\ LanesAccounted /\ CallsInOrder
  BY DEF IndInv
<1>1. ASSUME NEW p \in Pubs, Enter(p)
      PROVE  TypeOK'
  <2>1. active + 1 \in Nat
    BY <1>0 DEF TypeOK
  <2> QED
    BY <1>0, <1>1, <2>1 DEF Enter, TypeOK, laneVars, brokerVars
<1>2. ASSUME NEW p \in Pubs, NEW l \in Lanes, TakeLane(p, l)
      PROVE  TypeOK'
  BY <1>0, <1>2 DEF TakeLane, TypeOK, laneVars, brokerVars
<1>3. ASSUME NEW p \in Pubs, GiveUp(p)
      PROVE  TypeOK'
  <2>1. active - 1 \in Nat
    BY <1>0, <1>3, Counts DEF GiveUp, InCall
  <2> QED
    BY <1>0, <1>3, <2>1 DEF GiveUp, TypeOK, laneVars, brokerVars
<1>4. ASSUME NEW p \in Pubs, EnsureChannel(p)
      PROVE  TypeOK'
  <2>1. lane[p] \in Lanes
    BY <1>0, <1>4 DEF EnsureChannel, LanesAccounted, Holding
  <2>2. /\ chan' \in [Lanes -> {"nil", "open", "dead"}]
        /\ gen' \in [Lanes -> Nat]
    <3>1. CASE UNCHANGED laneVars
      BY <1>0, <3>1 DEF TypeOK, laneVars
    <3>2. CASE /\ chan' = [chan EXCEPT ![lane[p]] = "open"]
               /\ gen' = [gen EXCEPT ![lane[p]] = @ + 1]
      BY <1>0, <2>1, <3>2 DEF TypeOK
    <3> QED
      BY <1>4, <3>1, <3>2 DEF EnsureChannel
  <2>3. /\ returns' \in [Lanes -> Seq(Pubs)]
        /\ frames' \in [Lanes -> Seq([kind : {"return", "ack", "nack"}, pub : Pubs])]
    <3>1. CASE UNCHANGED laneVars
      BY <1>0, <3>1 DEF TypeOK, laneVars
    <3>2. CASE /\ returns' = [returns EXCEPT ![lane[p]] = <<>>]
               /\ frames' = [frames EXCEPT ![lane[p]] = <<>>]
      BY <1>0, <2>1, <3>2, SeqFacts DEF TypeOK
    <3> QED
      BY <1>4, <3>1, <3>2 DEF EnsureChannel
  <2> QED
    BY <1>0, <1>4, <2>2, <2>3 DEF EnsureChannel, TypeOK, poolVars, brokerVars
<1>5. ASSUME NEW p \in Pubs, NoChannel(p)
      PROVE  TypeOK'
  <2>1. PICK r \in {"timeout", "interrupted"} : Finish(p, r)
    BY <1>5 DEF NoChannel
  <2>2. p \in Holding
    BY <1>5 DEF NoChannel, Holding
  <2>3. /\ chan' \in [Lanes -> {"nil", "open", "dead"}]
        /\ gen' \in [Lanes -> Nat]
        /\ returns' \in [Lanes -> Seq(Pubs)]
        /\ frames' \in [Lanes -> Seq([kind : {"return", "ack", "nack"}, pub : Pubs])]
    BY <1>0, <1>5 DEF NoChannel, TypeOK, laneVars
  <2> QED
    BY <1>0, <2>1, <2>2, <2>3, FinishTypes
<1>6. ASSUME NEW p \in Pubs, Send(p)
      PROVE  TypeOK'
  <2>1. lane[p] \in Lanes
    BY <1>0, <1>6 DEF Send, LanesAccounted, Holding
  <2>2. [pub |-> p, lane |-> lane[p], gen |-> gen[lane[p]]] \in [pub : Pubs, lane : Lanes, gen : Nat]
    BY <1>0, <2>1 DEF TypeOK
  <2>3. flight' \in SUBSET [pub : Pubs, lane : Lanes, gen : Nat]
    BY <1>0, <1>6, <2>2 DEF Send, TypeOK
  <2> QED
    BY <1>0, <1>6, <2>3 DEF Send, TypeOK, laneVars, poolVars
<1>7. ASSUME NEW p \in Pubs, SendFails(p) \/ AwaitTimeout(p) \/ AwaitClosed(p)
      PROVE  TypeOK'
  <2>1. PICK r \in {"timeout", "interrupted"} : Finish(p, r)
    BY <1>7 DEF SendFails, AwaitTimeout, AwaitClosed
  <2>2. p \in Holding
    BY <1>7 DEF SendFails, AwaitTimeout, AwaitClosed, Holding
  <2>3. InvalidateChannel(lane[p])
    BY <1>7 DEF SendFails, AwaitTimeout, AwaitClosed
  <2>4. /\ chan' \in [Lanes -> {"nil", "open", "dead"}]
        /\ gen' \in [Lanes -> Nat]
        /\ returns' \in [Lanes -> Seq(Pubs)]
        /\ frames' \in [Lanes -> Seq([kind : {"return", "ack", "nack"}, pub : Pubs])]
    <3>1. chan' \in [Lanes -> {"nil", "open", "dead"}] /\ gen' \in [Lanes -> Nat]
      BY <1>0, <2>3 DEF InvalidateChannel, TypeOK
    <3> QED
      BY <1>0, <2>3, <3>1, SeqFacts DEF InvalidateChannel, TypeOK
  <2> QED
    BY <1>0, <2>1, <2>2, <2>4, FinishTypes
<1>8. ASSUME NEW p \in Pubs, AwaitReturn(p)
      PROVE  TypeOK'
  <2>1. Finish(p, "unroutable") /\ p \in Holding /\ UNCHANGED <<chan, gen, frames>>
    BY <1>8 DEF AwaitReturn, Holding
  <2>2. returns' \in [Lanes -> Seq(Pubs)]
    <3>1. lane[p] \in Lanes
      BY <1>0, <2>1, FinishFacts
    <3>2. returns[lane[p]] \in Seq(Pubs) /\ Tail(returns[lane[p]]) \in Seq(Pubs)
      BY <1>0, <1>8, <3>1, SeqFacts DEF AwaitReturn, TypeOK
    <3> QED
      BY <1>0, <1>8, <3>1, <3>2 DEF AwaitReturn, TypeOK
  <2>3. /\ chan' \in [Lanes -> {"nil", "open", "dead"}]
        /\ gen' \in [Lanes -> Nat]
        /\ returns' \in [Lanes -> Seq(Pubs)]
        /\ frames' \in [Lanes -> Seq([kind : {"return", "ack", "nack"}, pub : Pubs])]
    BY <1>0, <2>1, <2>2 DEF TypeOK
  <2> QED
    BY <1>0, <2>1, <2>3, FinishTypes
<1>9. ASSUME NEW p \in Pubs, AwaitNack(p) \/ AwaitAck(p)
      PROVE  TypeOK'
  <2>1. PICK r \in {"nacked", "ok"} : Finish(p, r)
    BY <1>9 DEF AwaitNack, AwaitAck
  <2>2. p \in Holding /\ UNCHANGED laneVars
    BY <1>9 DEF AwaitNack, AwaitAck, Holding
  <2>3. /\ chan' \in [Lanes -> {"nil", "open", "dead"}]
        /\ gen' \in [Lanes -> Nat]
        /\ returns' \in [Lanes -> Seq(Pubs)]
        /\ frames' \in [Lanes -> Seq([kind : {"return", "ack", "nack"}, pub : Pubs])]
    BY <1>0, <2>2 DEF TypeOK, laneVars
  <2> QED
    BY <1>0, <2>1, <2>2, <2>3, FinishTypes
<1>10. CASE CloseStarts
  BY <1>0, <1>10 DEF CloseStarts, TypeOK, callVars, laneVars, brokerVars
<1>11. CASE CloseLanes
  BY <1>0, <1>11 DEF CloseLanes, ClosedChannels, TypeOK, callVars, brokerVars
<1>12. ASSUME NEW l \in Lanes, Dispatch(l)
      PROVE  TypeOK'
  <2>1. /\ frames[l] \in Seq([kind : {"return", "ack", "nack"}, pub : Pubs]) /\ frames[l] # <<>>
        /\ frames' = [frames EXCEPT ![l] = Tail(@)]
    BY <1>0, <1>12 DEF Dispatch, TypeOK
  <2>2. /\ Head(frames[l]) \in [kind : {"return", "ack", "nack"}, pub : Pubs]
        /\ Tail(frames[l]) \in Seq([kind : {"return", "ack", "nack"}, pub : Pubs])
    BY <2>1, SeqFacts
  <2>3. frames' \in [Lanes -> Seq([kind : {"return", "ack", "nack"}, pub : Pubs])]
    BY <1>0, <2>1, <2>2 DEF TypeOK
  <2>4. /\ returns' \in [Lanes -> Seq(Pubs)]
        /\ conf' \in [Pubs -> {"none", "pending", "ack", "nack"}]
    <3>1. CASE Head(frames[l]).kind = "return"
      <4>1. returns' = [returns EXCEPT ![l] = <<Head(frames[l]).pub>>] /\ conf' = conf
        BY <1>12, <3>1 DEF Dispatch
      <4>2. <<Head(frames[l]).pub>> \in Seq(Pubs)
        BY <2>2
      <4> QED
        BY <1>0, <4>1, <4>2 DEF TypeOK
    <3>2. CASE Head(frames[l]).kind # "return"
      BY <1>0, <1>12, <2>2, <3>2 DEF Dispatch, TypeOK
    <3> QED
      BY <3>1, <3>2
  <2> QED
    BY <1>0, <1>12, <2>3, <2>4 DEF Dispatch, TypeOK, poolVars, brokerVars
<1>13. ASSUME NEW l \in Lanes, ChannelLost(l)
      PROVE  TypeOK'
  <2>1. frames' \in [Lanes -> Seq([kind : {"return", "ack", "nack"}, pub : Pubs])]
    BY <1>0, <1>13, SeqFacts DEF ChannelLost, TypeOK
  <2>2. conf' \in [Pubs -> {"none", "pending", "ack", "nack"}]
    BY <1>0, <1>13 DEF ChannelLost, TypeOK
  <2>3. faults' \in 0..MaxFaults
    BY <1>0, <1>13, PublisherAssumption DEF ChannelLost, Fault, TypeOK
  <2> QED
    BY <1>0, <1>13, <2>1, <2>2, <2>3 DEF ChannelLost, TypeOK, poolVars, brokerVars
<1>14. ASSUME NEW q \in Queues, Rebind(q)
      PROVE  TypeOK'
  <2>1. faults' \in 0..MaxFaults
    BY <1>0, <1>14, PublisherAssumption DEF Rebind, Fault, TypeOK
  <2> QED
    BY <1>0, <1>14, <2>1 DEF Rebind, TypeOK, callVars, poolVars, laneVars
<1>15. ASSUME NEW f \in flight,
              BrokerConfirms(f) \/ BrokerRefuses(f) \/ BrokerReturns(f) \/ BrokerMisses(f)
      PROVE  TypeOK'
  <2>1. PICK kinds \in Seq({"return", "ack", "nack"}) : Answer(f, kinds)
    <3>1. \A kinds \in {<<"ack">>, <<"nack">>, <<"return", "ack">>, <<>>} :
              kinds \in Seq({"return", "ack", "nack"})
      BY AnswerKinds
    <3>2. \E kinds \in {<<"ack">>, <<"nack">>, <<"return", "ack">>, <<>>} : Answer(f, kinds)
      BY <1>15 DEF BrokerConfirms, BrokerRefuses, BrokerReturns, BrokerMisses
    <3> QED
      BY <3>1, <3>2
  <2>2. frames' \in [Lanes -> Seq([kind : {"return", "ack", "nack"}, pub : Pubs])]
    BY <1>0, <2>1, AnswerFrames
  <2>3. f.pub \in Pubs
    BY <1>0 DEF TypeOK
  <2>4. queued' \in [Queues -> SUBSET Pubs]
    BY <1>0, <1>15, <2>3 DEF BrokerConfirms, BrokerRefuses, BrokerReturns, BrokerMisses, Enqueue, TypeOK
  <2>5. answered' \in SUBSET (Pubs \X {"nacked", "unroutable"})
    BY <1>0, <1>15, <2>3 DEF BrokerConfirms, BrokerRefuses, BrokerReturns, BrokerMisses, TypeOK
  <2> QED
    BY <1>0, <2>1, <2>2, <2>4, <2>5 DEF Answer, TypeOK, callVars, poolVars
<1>16. CASE UNCHANGED vars
  BY <1>0, <1>16 DEF vars, callVars, poolVars, laneVars, brokerVars, TypeOK
<1> QED
  BY <1>1, <1>2, <1>3, <1>4, <1>5, <1>6, <1>7, <1>8, <1>9, <1>10, <1>11, <1>12, <1>13, <1>14,
     <1>15, <1>16 DEF Next, Acquire, LanePublish, Broker

\* No step loses a lane or a count.
LEMMA AccountStep == IndInv /\ [Next]_vars => CallsInOrder' /\ LanesAccounted'
<1> SUFFICES ASSUME IndInv, [Next]_vars PROVE CallsInOrder' /\ LanesAccounted'
  OBVIOUS
<1>0. TypeOK /\ LanesAccounted /\ CallsInOrder /\ FramesInv
  BY DEF IndInv
<1>1. ASSUME NEW p \in Pubs, Enter(p)
      PROVE  CallsInOrder' /\ LanesAccounted'
  <2>1. /\ pc[p] = "new" /\ pc'[p] \in {"waiting", "done"}
        /\ \A o \in Pubs \ {p} : pc'[o] = pc[o] /\ result'[o] = result[o]
        /\ pc'[p] = "waiting" => result'[p] = result[p] /\ active' = active + 1
        /\ pc'[p] = "done" => active' = active
        /\ UNCHANGED <<lane, conf, available>>
    BY <1>0, <1>1 DEF Enter, TypeOK
  <2>2. Holding' = Holding /\ p \notin InCall
    BY <2>1 DEF Holding, InCall
  <2>3. /\ pc'[p] = "waiting" => InCall' = InCall \cup {p}
        /\ pc'[p] = "done" => InCall' = InCall
    BY <2>1 DEF InCall
  <2>4. active' = Cardinality(InCall')
    BY <1>0, <2>1, <2>2, <2>3, Counts
  <2> QED
    BY <1>0, <2>1, <2>2, <2>4 DEF CallsInOrder, LanesAccounted, InCall
<1>2. ASSUME NEW p \in Pubs, NEW l \in Lanes, TakeLane(p, l)
      PROVE  CallsInOrder' /\ LanesAccounted'
  <2>1. /\ pc[p] = "waiting" /\ pc'[p] = "lane" /\ lane'[p] = l
        /\ l \in available /\ available' = available \ {l}
        /\ \A o \in Pubs \ {p} : pc'[o] = pc[o] /\ lane'[o] = lane[o]
        /\ UNCHANGED <<conf, result, active>>
    BY <1>0, <1>2 DEF TakeLane, TypeOK
  <2>2. Holding' = Holding \cup {p} /\ InCall' = InCall /\ p \notin Holding
    BY <2>1 DEF Holding, InCall
  <2>3. \A o \in Holding : o \in Pubs \ {p} /\ lane'[o] = lane[o] /\ lane[o] \in Lanes \ available
    BY <1>0, <2>1, <2>2 DEF Holding, LanesAccounted
  <2>4. CallsInOrder'
    BY <1>0, <2>1, <2>2 DEF CallsInOrder
  <2>5. \A o \in Holding' : lane'[o] \in Lanes \ available'
    BY <2>1, <2>2, <2>3
  <2>6. \A o, q \in Holding' : lane'[o] = lane'[q] => o = q
    BY <1>0, <2>1, <2>2, <2>3 DEF LanesAccounted
  <2>7. Lanes \ available' = {lane'[o] : o \in Holding'}
    <3>1. \A k \in Lanes \ available' : \E o \in Holding' : k = lane'[o]
      BY <1>0, <2>1, <2>2, <2>3 DEF LanesAccounted
    <3> QED
      BY <2>5, <3>1
  <2>8. active' = Cardinality(InCall')
    BY <1>0, <2>1, <2>2, Counts
  <2> QED
    BY <2>4, <2>5, <2>6, <2>7, <2>8 DEF LanesAccounted, InCall
<1>3. ASSUME NEW p \in Pubs, GiveUp(p)
      PROVE  CallsInOrder' /\ LanesAccounted'
  <2>1. /\ pc[p] = "waiting" /\ pc'[p] = "done" /\ active' = active - 1
        /\ \A o \in Pubs \ {p} : pc'[o] = pc[o] /\ result'[o] = result[o]
        /\ UNCHANGED <<lane, conf, available>>
    BY <1>0, <1>3 DEF GiveUp, TypeOK
  <2>2. Holding' = Holding /\ InCall' = InCall \ {p} /\ p \in InCall
    BY <2>1 DEF Holding, InCall
  <2>3. active' = Cardinality(InCall')
    BY <1>0, <2>1, <2>2, Counts
  <2> QED
    BY <1>0, <2>1, <2>2, <2>3 DEF CallsInOrder, LanesAccounted, InCall
<1>4. ASSUME NEW p \in Pubs, EnsureChannel(p) \/ Send(p)
      PROVE  CallsInOrder' /\ LanesAccounted'
  <2>1. /\ p \in Holding /\ pc'[p] \in {"send", "await"}
        /\ pc'[p] = "send" => conf'[p] = conf[p] /\ pc[p] = "lane"
        /\ \A o \in Pubs \ {p} : pc'[o] = pc[o] /\ conf'[o] = conf[o]
        /\ UNCHANGED <<lane, result, available, active>>
    BY <1>0, <1>4 DEF EnsureChannel, Send, TypeOK, Holding, poolVars
  <2>2. Holding' = Holding /\ InCall' = InCall
    BY <2>1 DEF Holding, InCall
  <2> QED
    <3>1. CallsInOrder'
      BY <1>0, <2>1, <2>2 DEF CallsInOrder, Holding
    <3>2. active' = Cardinality(InCall')
      BY <1>0, <2>1, <2>2, Counts
    <3> QED
      BY <1>0, <2>1, <2>2, <3>1, <3>2 DEF LanesAccounted, InCall
<1>5. ASSUME NEW p \in Pubs, \/ NoChannel(p) \/ SendFails(p) \/ AwaitTimeout(p) \/ AwaitClosed(p)
                              \/ AwaitReturn(p) \/ AwaitNack(p) \/ AwaitAck(p)
      PROVE  CallsInOrder' /\ LanesAccounted'
  <2>1. PICK r \in {"ok", "unroutable", "nacked", "interrupted", "timeout"} : Finish(p, r)
    BY <1>5 DEF NoChannel, SendFails, AwaitTimeout, AwaitClosed, AwaitReturn, AwaitNack, AwaitAck
  <2>2. p \in Holding
    BY <1>5 DEF NoChannel, SendFails, AwaitTimeout, AwaitClosed, AwaitReturn, AwaitNack, AwaitAck,
                Holding
  <2> QED
    BY <1>0, <2>1, <2>2, FinishFacts
<1>6. CASE CloseStarts \/ CloseLanes
  BY <1>0, <1>6 DEF CloseStarts, CloseLanes, callVars, CallsInOrder, LanesAccounted, Holding
<1>7. ASSUME NEW l \in Lanes, Dispatch(l)
      PROVE  CallsInOrder' /\ LanesAccounted'
  <2>1. UNCHANGED <<pc, lane, result, available, active>>
    BY <1>7 DEF Dispatch, poolVars
  <2>2. \A p \in Pubs : pc[p] \in {"new", "waiting", "lane", "send"} => conf'[p] = conf[p]
    <3>1. frames[l] # <<>> /\ frames[l] \in Seq([kind : {"return", "ack", "nack"}, pub : Pubs])
      BY <1>0, <1>7 DEF Dispatch, TypeOK
    <3>2. 1 \in DOMAIN frames[l] /\ Head(frames[l]) = frames[l][1]
      BY <3>1, SeqFacts
    <3>3. pc[Head(frames[l]).pub] \in {"await", "done"}
      <4>1. FrameOK(l, 1, frames[l][1].pub, frames[l][1].kind)
        BY <1>0, <3>2 DEF FramesInv
      <4> QED
        BY <3>2, <4>1 DEF FrameOK
    <3> QED
      BY <1>0, <1>7, <3>3 DEF Dispatch, TypeOK
  <2> QED
    BY <1>0, <2>1, <2>2 DEF CallsInOrder, LanesAccounted, Holding
<1>8. ASSUME NEW l \in Lanes, ChannelLost(l)
      PROVE  CallsInOrder' /\ LanesAccounted'
  BY <1>0, <1>8 DEF ChannelLost, poolVars, CallsInOrder, LanesAccounted, Holding
<1>9. ASSUME NEW q \in Queues, Rebind(q)
      PROVE  CallsInOrder' /\ LanesAccounted'
  BY <1>0, <1>9 DEF Rebind, callVars, poolVars, CallsInOrder, LanesAccounted, Holding
<1>10. ASSUME NEW f \in flight,
              BrokerConfirms(f) \/ BrokerRefuses(f) \/ BrokerReturns(f) \/ BrokerMisses(f)
      PROVE  CallsInOrder' /\ LanesAccounted'
  <2>1. UNCHANGED <<callVars, poolVars>>
    BY <1>10 DEF BrokerConfirms, BrokerRefuses, BrokerReturns, BrokerMisses, Answer
  <2> QED
    BY <1>0, <2>1 DEF callVars, poolVars, CallsInOrder, LanesAccounted, Holding
<1>11. CASE UNCHANGED vars
  BY <1>0, <1>11 DEF vars, callVars, poolVars, CallsInOrder, LanesAccounted, Holding
<1> QED
  BY <1>1, <1>2, <1>3, <1>4, <1>5, <1>6, <1>7, <1>8, <1>9, <1>10, <1>11
  DEF Next, Acquire, LanePublish, Broker

\* A step that sends nothing and hands over no answer.  A call that waits goes on
\* waiting for what it waited for, or ends: with its channel, or after its answer.
Quiet ==
    /\ answered \subseteq answered' /\ flight' \subseteq flight
    /\ \A p \in Pubs : Routed(p) => Routed(p)'
    /\ \A l \in Lanes :
          /\ gen[l] <= gen'[l]
          /\ chan'[l] = "open" /\ gen'[l] = gen[l] => chan[l] = "open"
          /\ frames'[l] = frames[l] \/ frames'[l] = <<>>
          /\ returns'[l] = returns[l] \/ returns'[l] = <<>>
    /\ \A p \in Pubs : pc[p] # "await" => pc'[p] # "await" /\ (pc[p] = "done" => pc'[p] = "done")
    /\ \A p \in Pubs : pc[p] = "await" =>
          \/ /\ pc'[p] = "await" /\ lane'[p] = lane[p] /\ conf'[p] = conf[p]
             /\ chan'[lane[p]] = chan[lane[p]]
             /\ returns'[lane[p]] = returns[lane[p]] /\ frames'[lane[p]] = frames[lane[p]]
          \/ /\ pc'[p] = "done" /\ returns'[lane[p]] = <<>>
             /\ \/ frames'[lane[p]] = <<>> /\ chan'[lane[p]] = "nil"
                \/ conf[p] \in {"ack", "nack"}
                \/ returns[lane[p]] = <<p>>

\* The invariants about answers that are on their way.
AnswersInv == FlightInv /\ FramesInv /\ ReturnsInv /\ ConfInv

\* A quiet step keeps the invariants of the answers that are on their way.
LEMMA QuietKeeps == IndInv /\ TypeOK' /\ Quiet => AnswersInv'
<1> SUFFICES ASSUME IndInv, TypeOK', Quiet PROVE AnswersInv'
  OBVIOUS
<1>1. FlightInv'
  <2>1. ASSUME NEW f \in flight'
        PROVE  /\ pc'[f.pub] \in {"await", "done"}
               /\ f.gen <= gen'[f.lane]
               /\ Live(f)' =>
                     /\ pc'[f.pub] = "await" /\ lane'[f.pub] = f.lane /\ conf'[f.pub] = "pending"
                     /\ returns'[f.lane] = <<>>
                     /\ \A i \in DOMAIN frames'[f.lane] : frames'[f.lane][i].pub # f.pub
    <3>1. /\ f \in flight /\ f.pub \in Pubs /\ f.lane \in Lanes /\ f.gen \in Nat
          /\ gen[f.lane] \in Nat /\ gen'[f.lane] \in Nat
      BY DEF Quiet, IndInv, TypeOK
    <3>2. pc[f.pub] \in {"await", "done"} /\ f.gen <= gen[f.lane]
      BY <3>1 DEF IndInv, FlightInv
    <3>3. pc'[f.pub] \in {"await", "done"} /\ f.gen <= gen'[f.lane]
      BY <3>1, <3>2 DEF Quiet
    <3>4. ASSUME Live(f)'
          PROVE  /\ pc'[f.pub] = "await" /\ lane'[f.pub] = f.lane /\ conf'[f.pub] = "pending"
                 /\ returns'[f.lane] = <<>>
                 /\ \A i \in DOMAIN frames'[f.lane] : frames'[f.lane][i].pub # f.pub
      <4>1. Live(f)
        BY <3>1, <3>2, <3>4 DEF Live, Quiet
      <4>2. /\ pc[f.pub] = "await" /\ lane[f.pub] = f.lane /\ conf[f.pub] = "pending"
            /\ returns[f.lane] = <<>>
            /\ \A i \in DOMAIN frames[f.lane] : frames[f.lane][i].pub # f.pub
        BY <3>1, <4>1 DEF IndInv, FlightInv
      <4>3. returns[f.lane] # <<f.pub>>
        BY <4>2
      <4> QED
        BY <3>1, <3>4, <4>2, <4>3 DEF Quiet, Live
    <3> QED
      BY <3>3, <3>4
  <2>2. \A f, g \in flight' : f.pub = g.pub => f = g
    BY DEF Quiet, IndInv, FlightInv
  <2> QED
    BY <2>1, <2>2 DEF FlightInv
<1>2. FramesInv'
  <2> SUFFICES ASSUME NEW l \in Lanes, NEW i \in DOMAIN frames'[l]
               PROVE  FrameOK(l, i, frames[l][i].pub, frames[l][i].kind)'
    BY DEF FramesInv
  <2> DEFINE p == frames[l][i].pub
             k == frames[l][i].kind
  <2>1. frames'[l] = frames[l]
    BY DEF Quiet
  <2>2. FrameOK(l, i, p, k) /\ p \in Pubs
    <3>1. i \in DOMAIN frames[l] /\ frames[l] \in Seq([kind : {"return", "ack", "nack"}, pub : Pubs])
      BY <2>1 DEF IndInv, TypeOK
    <3>2. FrameOK(l, i, p, k)
      BY <3>1 DEF IndInv, FramesInv
    <3>3. frames[l][i] \in [kind : {"return", "ack", "nack"}, pub : Pubs]
      BY <3>1, SeqFacts
    <3> QED
      BY <3>2, <3>3
  <2>3. CASE pc[p] = "done"
    <3>1. pc'[p] = "done" /\ k = "ack"
      BY <2>2, <2>3 DEF FrameOK, Quiet
    <3> QED
      BY <2>1, <2>2, <3>1 DEF FrameOK
  <2>4. CASE pc[p] = "await"
    <3>1. lane[p] = l /\ conf[p] = "pending"
      BY <2>2, <2>4 DEF FrameOK
    <3>2. CASE /\ pc'[p] = "await" /\ lane'[p] = lane[p] /\ conf'[p] = conf[p]
               /\ returns'[lane[p]] = returns[lane[p]]
      <4>1. answered \subseteq answered' /\ (Routed(p) => Routed(p)')
        BY <2>2 DEF Quiet
      <4> QED
        BY <2>1, <2>2, <2>4, <3>1, <3>2, <4>1 DEF FrameOK
    <3>3. CASE pc'[p] = "done" /\ returns[lane[p]] = <<p>>
      <4>1. k = "ack"
        <5>0. returns[l] # <<>>
          BY <3>1, <3>3
        <5>1. PICK o \in Pubs : /\ returns[l] = <<o>>
                                /\ \A h \in DOMAIN frames[l] :
                                      frames[l][h].pub = o => frames[l][h].kind = "ack"
          <6>1. ReturnsInv /\ l \in Lanes
            BY <2>1 DEF IndInv
          <6>2. \E o \in Pubs :
                  /\ returns[l] = <<o>>
                  /\ pc[o] = "await" /\ lane[o] = l
                  /\ <<o, "unroutable">> \in answered
                  /\ conf[o] = "nack" => chan[l] # "open"
                  /\ \A h \in DOMAIN frames[l] : frames[l][h].pub = o => frames[l][h].kind = "ack"
            BY Zenon, <5>0, <6>1 DEF ReturnsInv
          <6> QED
            BY <6>2
        <5>2. o = p
          BY <3>1, <3>3, <5>1
        <5> QED
          BY <2>1, <5>1, <5>2
      <4> QED
        BY <2>1, <2>2, <3>3, <4>1 DEF FrameOK
    <3>4. frames'[l] # <<>>
      BY <2>1
    <3> QED
      BY <2>2, <2>4, <3>1, <3>2, <3>3, <3>4 DEF Quiet
  <2> QED
    BY <2>2, <2>3, <2>4 DEF FrameOK
<1>3. ReturnsInv'
  <2> SUFFICES ASSUME NEW l \in Lanes, returns'[l] # <<>>
               PROVE  (\E p \in Pubs :
                         /\ returns[l] = <<p>>
                         /\ pc[p] = "await" /\ lane[p] = l
                         /\ <<p, "unroutable">> \in answered
                         /\ conf[p] = "nack" => chan[l] # "open"
                         /\ \A i \in DOMAIN frames[l] :
                               frames[l][i].pub = p => frames[l][i].kind = "ack")'
    BY DEF ReturnsInv
  <2>1. returns'[l] = returns[l]
    BY DEF Quiet
  <2>2. PICK p \in Pubs :
          /\ returns[l] = <<p>>
          /\ pc[p] = "await" /\ lane[p] = l
          /\ <<p, "unroutable">> \in answered
          /\ conf[p] = "nack" => chan[l] # "open"
          /\ \A i \in DOMAIN frames[l] : frames[l][i].pub = p => frames[l][i].kind = "ack"
    BY <2>1 DEF IndInv, ReturnsInv
  <2>3. /\ pc'[p] = "await" /\ lane'[p] = lane[p] /\ conf'[p] = conf[p]
        /\ chan'[l] = chan[l] /\ frames'[l] = frames[l] /\ answered \subseteq answered'
    BY <2>1, <2>2 DEF Quiet
  <2> QED
    BY <2>1, <2>2, <2>3
<1>4. ConfInv'
  BY DEF Quiet, IndInv, ConfInv
<1> QED
  BY <1>1, <1>2, <1>3, <1>4 DEF AnswersInv

\* Most steps are quiet: those of acquire, those that open or give up a channel, the
\* ends of calls, Close, and what the broker does to a channel that is gone.
LEMMA QuietSteps ==
    ASSUME IndInv, TypeOK'
    PROVE  /\ \A p \in Pubs :
                 (\/ Acquire(p) \/ EnsureChannel(p) \/ NoChannel(p) \/ SendFails(p)
                  \/ AwaitTimeout(p) \/ AwaitClosed(p)
                  \/ AwaitReturn(p) \/ AwaitNack(p) \/ AwaitAck(p)) => Quiet
           /\ CloseStarts \/ CloseLanes \/ (\E q \in Queues : Rebind(q)) => Quiet
           /\ \A f \in flight :
                 (BrokerConfirms(f) \/ BrokerRefuses(f) \/ BrokerReturns(f) \/ BrokerMisses(f)) /\ ~Live(f)
                     => Quiet
           /\ UNCHANGED vars => Quiet
<1>0. /\ TypeOK /\ LanesAccounted /\ CallsInOrder
      /\ \A p \in Pubs : pc[p] = "await" => p \in Holding /\ lane[p] \in Lanes
      /\ \A l \in Lanes : gen[l] \in Nat /\ gen[l] <= gen[l]
  <2>1. TypeOK /\ LanesAccounted /\ CallsInOrder
    BY DEF IndInv
  <2>2. \A p \in Pubs : pc[p] = "await" => p \in Holding /\ lane[p] \in Lanes
    BY <2>1 DEF LanesAccounted, Holding
  <2>3. \A l \in Lanes : gen[l] \in Nat
    BY <2>1 DEF TypeOK
  <2>4. \A l \in Lanes : gen[l] <= gen[l]
    BY <2>3
  <2> QED
    BY <2>1, <2>2, <2>3, <2>4
<1>1. ASSUME UNCHANGED <<queued, answered>>
      PROVE  answered \subseteq answered' /\ \A p \in Pubs : Routed(p) => Routed(p)'
  BY <1>1 DEF Routed
<1>14. ASSUME UNCHANGED <<pc, lane, conf, flight, queued, answered, chan, gen, returns, frames>>
       PROVE  Quiet
  <2>1. \A l \in Lanes : gen[l] <= gen'[l]
    BY <1>0, <1>14
  <2>2. \A p \in Pubs : pc[p] # "await" => pc'[p] # "await" /\ (pc[p] = "done" => pc'[p] = "done")
    BY <1>14
  <2> QED
    BY <1>1, <1>14, <2>1, <2>2 DEF Quiet
<1>2. ASSUME NEW p \in Pubs, Acquire(p)
      PROVE  Quiet
  <2>1. /\ UNCHANGED <<conf, flight, queued, answered, chan, gen, returns, frames>>
        /\ pc[p] \in {"new", "waiting"} /\ pc'[p] # "await"
        /\ \A o \in Pubs \ {p} : pc'[o] = pc[o] /\ lane'[o] = lane[o]
    BY <1>0, <1>2 DEF Acquire, Enter, GiveUp, TakeLane, TypeOK, laneVars, brokerVars
  <2> QED
    BY <1>0, <1>1, <2>1 DEF Quiet
<1>3. ASSUME NEW p \in Pubs, EnsureChannel(p)
      PROVE  Quiet
  <2>1. /\ UNCHANGED <<lane, conf, flight, queued, answered>>
        /\ pc[p] = "lane" /\ pc'[p] = "send" /\ p \in Holding /\ lane[p] \in Lanes
        /\ \A o \in Pubs \ {p} : pc'[o] = pc[o]
    BY <1>0, <1>3 DEF EnsureChannel, TypeOK, brokerVars, Holding, LanesAccounted
  <2>2. \A o \in Pubs : pc[o] = "await" => lane[o] # lane[p]
    BY <1>0, <2>1 DEF LanesAccounted
  <2>3. CASE UNCHANGED laneVars
    BY <1>0, <1>1, <2>1, <2>3 DEF Quiet, laneVars
  <2>4. CASE /\ chan' = [chan EXCEPT ![lane[p]] = "open"]
             /\ gen' = [gen EXCEPT ![lane[p]] = @ + 1]
             /\ returns' = [returns EXCEPT ![lane[p]] = <<>>]
             /\ frames' = [frames EXCEPT ![lane[p]] = <<>>]
    <3>1. /\ \A l \in Lanes \ {lane[p]} : /\ chan'[l] = chan[l] /\ gen'[l] = gen[l]
                                          /\ returns'[l] = returns[l] /\ frames'[l] = frames[l]
          /\ gen'[lane[p]] = gen[lane[p]] + 1
          /\ returns'[lane[p]] = <<>> /\ frames'[lane[p]] = <<>>
      BY <1>0, <2>1, <2>4 DEF TypeOK
    <3>2. gen[lane[p]] <= gen'[lane[p]] /\ gen'[lane[p]] # gen[lane[p]]
      BY <1>0, <2>1, <3>1
    <3> QED
      BY <1>0, <1>1, <2>1, <2>2, <3>1, <3>2 DEF Quiet
  <2> QED
    BY <1>3, <2>3, <2>4 DEF EnsureChannel
<1>4. ASSUME NEW p \in Holding, NEW r \in {"ok", "unroutable", "nacked", "interrupted", "timeout"},
             Finish(p, r),
             \A l \in Lanes \ {lane[p]} : /\ chan'[l] = chan[l] /\ gen'[l] = gen[l]
                                         /\ returns'[l] = returns[l] /\ frames'[l] = frames[l],
             gen'[lane[p]] = gen[lane[p]],
             chan'[lane[p]] \in {chan[lane[p]], "nil"},
             frames'[lane[p]] \in {frames[lane[p]], <<>>},
             returns'[lane[p]] \in {returns[lane[p]], <<>>},
             pc[p] = "await" =>
                /\ returns'[lane[p]] = <<>>
                /\ \/ frames'[lane[p]] = <<>> /\ chan'[lane[p]] = "nil"
                   \/ conf[p] \in {"ack", "nack"}
                   \/ returns[lane[p]] = <<p>>
      PROVE  Quiet
  <2>1. /\ lane[p] \in Lanes /\ pc'[p] = "done" /\ p \in Pubs
        /\ \A o \in Pubs \ {p} : pc'[o] = pc[o] /\ lane'[o] = lane[o]
        /\ UNCHANGED <<conf, flight, queued, answered>>
    BY <1>0, <1>4, FinishFacts DEF Holding
  <2>2. \A o \in Pubs \ {p} : pc[o] = "await" => lane[o] # lane[p]
    BY <1>0, <1>4 DEF LanesAccounted
  <2>3. \A l \in Lanes :
          /\ gen[l] <= gen'[l]
          /\ chan'[l] = "open" /\ gen'[l] = gen[l] => chan[l] = "open"
          /\ frames'[l] = frames[l] \/ frames'[l] = <<>>
          /\ returns'[l] = returns[l] \/ returns'[l] = <<>>
    BY <1>0, <1>4
  <2>4. \A o \in Pubs : pc[o] = "await" =>
          \/ /\ pc'[o] = "await" /\ lane'[o] = lane[o] /\ conf'[o] = conf[o]
             /\ chan'[lane[o]] = chan[lane[o]]
             /\ returns'[lane[o]] = returns[lane[o]] /\ frames'[lane[o]] = frames[lane[o]]
          \/ /\ pc'[o] = "done" /\ returns'[lane[o]] = <<>>
             /\ \/ frames'[lane[o]] = <<>> /\ chan'[lane[o]] = "nil"
                \/ conf[o] \in {"ack", "nack"}
                \/ returns[lane[o]] = <<o>>
    BY <1>0, <1>4, <2>1, <2>2
  <2> QED
    BY <1>1, <2>1, <2>3, <2>4 DEF Quiet
<1>5. ASSUME NEW p \in Pubs, NoChannel(p)
      PROVE  Quiet
  <2>1. PICK r \in {"timeout", "interrupted"} : Finish(p, r)
    BY <1>5 DEF NoChannel
  <2>2. p \in Holding /\ pc[p] # "await" /\ UNCHANGED laneVars
    BY <1>5 DEF NoChannel, Holding
  <2> QED
    BY <1>4, <2>1, <2>2 DEF laneVars
<1>6. ASSUME NEW p \in Pubs, SendFails(p) \/ AwaitTimeout(p) \/ AwaitClosed(p)
      PROVE  Quiet
  <2>1. PICK r \in {"timeout", "interrupted"} : Finish(p, r)
    BY <1>6 DEF SendFails, AwaitTimeout, AwaitClosed
  <2>2. p \in Holding /\ InvalidateChannel(lane[p])
    BY <1>6 DEF SendFails, AwaitTimeout, AwaitClosed, Holding
  <2>3. lane[p] \in Lanes
    BY <1>0, <2>2 DEF LanesAccounted
  <2>4. /\ \A l \in Lanes \ {lane[p]} : /\ chan'[l] = chan[l] /\ gen'[l] = gen[l]
                                        /\ returns'[l] = returns[l] /\ frames'[l] = frames[l]
        /\ chan'[lane[p]] = "nil" /\ gen'[lane[p]] = gen[lane[p]]
        /\ returns'[lane[p]] = <<>> /\ frames'[lane[p]] = <<>>
    BY <1>0, <2>2, <2>3 DEF InvalidateChannel, TypeOK
  <2> QED
    BY <1>4, <2>1, <2>2, <2>4
<1>7. ASSUME NEW p \in Pubs, AwaitReturn(p)
      PROVE  Quiet
  <2>1. /\ Finish(p, "unroutable") /\ p \in Holding /\ UNCHANGED <<chan, gen, frames>>
        /\ pc[p] = "await" /\ lane[p] \in Lanes
    BY <1>0, <1>7 DEF AwaitReturn, Holding
  <2>2. PICK o \in Pubs : returns[lane[p]] = <<o>> /\ pc[o] = "await" /\ lane[o] = lane[p]
    BY <1>7, <2>1 DEF AwaitReturn, IndInv, ReturnsInv
  <2>3. o = p
    BY <1>0, <2>1, <2>2 DEF LanesAccounted
  <2>4. /\ returns'[lane[p]] = <<>>
        /\ \A l \in Lanes \ {lane[p]} : returns'[l] = returns[l]
    <3>1. Tail(<<o>>) = <<>>
      OBVIOUS
    <3> QED
      BY <1>0, <1>7, <2>1, <2>2, <3>1 DEF AwaitReturn, TypeOK
  <2> QED
    BY <1>4, <2>1, <2>2, <2>3, <2>4
<1>8. ASSUME NEW p \in Pubs, AwaitNack(p) \/ AwaitAck(p)
      PROVE  Quiet
  <2>1. PICK r \in {"nacked", "ok"} : Finish(p, r)
    BY <1>8 DEF AwaitNack, AwaitAck
  <2>2. /\ p \in Holding /\ UNCHANGED laneVars /\ pc[p] = "await" /\ lane[p] \in Lanes
        /\ conf[p] \in {"ack", "nack"} /\ chan[lane[p]] = "open"
        /\ conf[p] = "ack" => returns[lane[p]] = <<>>
    BY <1>0, <1>8 DEF AwaitNack, AwaitAck, Holding
  <2>3. returns[lane[p]] = <<>>
    <3> SUFFICES ASSUME returns[lane[p]] # <<>>, conf[p] = "nack" PROVE FALSE
      BY <2>2
    <3>1. PICK o \in Pubs : /\ returns[lane[p]] = <<o>> /\ pc[o] = "await" /\ lane[o] = lane[p]
                            /\ conf[o] = "nack" => chan[lane[p]] # "open"
      BY <2>2 DEF IndInv, ReturnsInv
    <3>2. o = p
      BY <1>0, <2>2, <3>1 DEF LanesAccounted
    <3> QED
      BY <2>2, <3>1, <3>2
  <2> QED
    BY <1>4, <2>1, <2>2, <2>3 DEF laneVars
<1>9. ASSUME CloseStarts PROVE Quiet
  BY <1>9, <1>14 DEF CloseStarts, callVars, laneVars, brokerVars
<1>10. ASSUME CloseLanes PROVE Quiet
  <2>1. \A p \in Pubs : pc[p] # "await"
    BY <1>0, <1>10, Counts DEF CloseLanes, InCall
  <2>2. /\ UNCHANGED <<pc, flight, queued, answered, gen, returns, frames>>
        /\ \A l \in Lanes : chan'[l] = "open" => chan[l] = "open"
    BY <1>10 DEF CloseLanes, ClosedChannels, callVars, brokerVars
  <2>3. \A l \in Lanes : gen[l] <= gen'[l]
    BY <1>0, <2>2
  <2>4. \A p \in Pubs : pc'[p] # "await" /\ (pc[p] = "done" => pc'[p] = "done")
    BY <2>1, <2>2
  <2> QED
    BY <1>1, <2>1, <2>2, <2>3, <2>4 DEF Quiet
<1>11. ASSUME NEW q \in Queues, Rebind(q)
      PROVE  Quiet
  BY <1>11, <1>14 DEF Rebind, callVars, laneVars
<1>12. ASSUME NEW f \in flight, ~Live(f),
              BrokerConfirms(f) \/ BrokerRefuses(f) \/ BrokerReturns(f) \/ BrokerMisses(f)
      PROVE  Quiet
  <2>1. /\ UNCHANGED <<pc, lane, conf, chan, gen, returns>> /\ flight' \subseteq flight
        /\ frames' = frames
    BY <1>12 DEF BrokerConfirms, BrokerRefuses, BrokerReturns, BrokerMisses, Answer, Live, callVars
  <2>2. answered \subseteq answered' /\ \A q \in Queues : queued[q] \subseteq queued'[q]
    BY <1>12 DEF BrokerConfirms, BrokerRefuses, BrokerReturns, BrokerMisses, Enqueue
  <2>3. \A p \in Pubs : Routed(p) => Routed(p)'
    BY <2>2 DEF Routed
  <2> QED
    BY <1>0, <2>1, <2>2, <2>3 DEF Quiet
<1>13. ASSUME UNCHANGED vars PROVE Quiet
  BY <1>13, <1>14 DEF vars, callVars, laneVars, brokerVars
<1>15. \A p \in Pubs :
         (\/ Acquire(p) \/ EnsureChannel(p) \/ NoChannel(p) \/ SendFails(p)
          \/ AwaitTimeout(p) \/ AwaitClosed(p)
          \/ AwaitReturn(p) \/ AwaitNack(p) \/ AwaitAck(p)) => Quiet
  BY <1>2, <1>3, <1>5, <1>6, <1>7, <1>8
<1>16. CloseStarts \/ CloseLanes \/ (\E q \in Queues : Rebind(q)) => Quiet
  BY <1>9, <1>10, <1>11
<1>17. \A f \in flight :
         (BrokerConfirms(f) \/ BrokerRefuses(f) \/ BrokerReturns(f) \/ BrokerMisses(f)) /\ ~Live(f)
             => Quiet
  BY <1>12
<1> QED
  BY <1>13, <1>15, <1>16, <1>17

\* What the invariant says of the calls and the frames on a lane.
LEMMA LaneFacts ==
    ASSUME IndInv
    PROVE  /\ \A p \in Pubs : pc[p] = "await" => p \in Holding /\ lane[p] \in Lanes
           /\ \A p, o \in Pubs : p \in Holding /\ pc[o] = "await" /\ lane[p] = lane[o] => p = o
           /\ \A l \in Lanes :
                 /\ frames[l] \in Seq([kind : {"return", "ack", "nack"}, pub : Pubs])
                 /\ Len(frames[l]) \in Nat /\ DOMAIN frames[l] = 1..Len(frames[l])
                 /\ \A i \in DOMAIN frames[l] :
                       /\ frames[l][i].pub \in Pubs
                       /\ frames[l][i].kind \in {"return", "ack", "nack"}
                       /\ FrameOK(l, i, frames[l][i].pub, frames[l][i].kind)
           /\ \A f \in flight : f.pub \in Pubs /\ f.lane \in Lanes /\ f.gen \in Nat
<1>1. TypeOK /\ LanesAccounted /\ FramesInv
  BY DEF IndInv
<1>2. \A p \in Pubs : pc[p] = "await" => p \in Holding /\ lane[p] \in Lanes
  BY <1>1 DEF LanesAccounted, Holding
<1>3. \A p, o \in Pubs : p \in Holding /\ pc[o] = "await" /\ lane[p] = lane[o] => p = o
  BY <1>1, <1>2 DEF LanesAccounted
<1>4. ASSUME NEW l \in Lanes
      PROVE  /\ frames[l] \in Seq([kind : {"return", "ack", "nack"}, pub : Pubs])
             /\ Len(frames[l]) \in Nat /\ DOMAIN frames[l] = 1..Len(frames[l])
             /\ \A i \in DOMAIN frames[l] :
                   /\ frames[l][i].pub \in Pubs
                   /\ frames[l][i].kind \in {"return", "ack", "nack"}
                   /\ FrameOK(l, i, frames[l][i].pub, frames[l][i].kind)
  <2>1. frames[l] \in Seq([kind : {"return", "ack", "nack"}, pub : Pubs])
    BY <1>1 DEF TypeOK
  <2>2. Len(frames[l]) \in Nat /\ DOMAIN frames[l] = 1..Len(frames[l])
    BY <2>1
  <2>3. \A i \in DOMAIN frames[l] : frames[l][i] \in [kind : {"return", "ack", "nack"}, pub : Pubs]
    BY <2>1, SeqFacts
  <2>4. \A i \in DOMAIN frames[l] :
          frames[l][i].pub \in Pubs /\ frames[l][i].kind \in {"return", "ack", "nack"}
    BY <2>3
  <2> QED
    BY <1>1, <2>1, <2>2, <2>4 DEF FramesInv
<1>5. \A f \in flight : f.pub \in Pubs /\ f.lane \in Lanes /\ f.gen \in Nat
  BY <1>1 DEF TypeOK
<1> QED
  BY <1>2, <1>3, <1>4, <1>5

\* A message that is sent finds nothing of its own, and no return, on its lane.
LEMMA SendAnswers ==
    ASSUME IndInv, TypeOK', NEW p \in Pubs, Send(p)
    PROVE  AnswersInv'
<1> DEFINE l == lane[p]
           g == [pub |-> p, lane |-> l, gen |-> gen[l]]
<1>1. /\ pc[p] = "send" /\ chan[l] = "open" /\ flight' = flight \cup {g}
      /\ pc'[p] = "await" /\ conf'[p] = "pending"
      /\ \A o \in Pubs \ {p} : pc'[o] = pc[o] /\ conf'[o] = conf[o]
      /\ UNCHANGED <<lane, chan, gen, returns, frames, queued, answered>>
  BY DEF Send, IndInv, TypeOK, laneVars
<1>2. p \in Holding /\ l \in Lanes /\ gen[l] \in Nat
  <2>1. p \in Holding
    BY <1>1 DEF Holding
  <2>2. l \in Lanes
    BY <2>1 DEF IndInv, LanesAccounted
  <2> QED
    BY <2>1, <2>2 DEF IndInv, TypeOK
<1>3. \A f \in flight : f.pub # p
  BY <1>1 DEF IndInv, FlightInv
<1>4. \A m \in Lanes : \A i \in DOMAIN frames[m] : frames[m][i].pub # p
  BY <1>1, LaneFacts DEF FrameOK
<1>5. returns[l] = <<>>
  <2> SUFFICES ASSUME returns[l] # <<>> PROVE FALSE
    OBVIOUS
  <2>1. PICK o \in Pubs : pc[o] = "await" /\ lane[o] = l
    BY <1>2 DEF IndInv, ReturnsInv
  <2> QED
    BY <1>1, <1>2, <2>1, LaneFacts
<1>6. \A o \in Pubs : Routed(o)' <=> Routed(o)
  BY <1>1 DEF Routed
<1>7. FlightInv'
  <2>1. ASSUME NEW f \in flight
        PROVE  /\ pc'[f.pub] \in {"await", "done"}
               /\ f.gen <= gen'[f.lane]
               /\ Live(f)' =>
                     /\ pc'[f.pub] = "await" /\ lane'[f.pub] = f.lane /\ conf'[f.pub] = "pending"
                     /\ returns'[f.lane] = <<>>
                     /\ \A i \in DOMAIN frames'[f.lane] : frames'[f.lane][i].pub # f.pub
    <3>1. f.pub \in Pubs \ {p} /\ (Live(f)' <=> Live(f))
      BY <1>1, <1>3, LaneFacts DEF Live
    <3> QED
      BY <1>1, <3>1 DEF IndInv, FlightInv
  <2>2. /\ pc'[g.pub] = "await" /\ g.gen <= gen'[g.lane]
        /\ lane'[g.pub] = g.lane /\ conf'[g.pub] = "pending" /\ returns'[g.lane] = <<>>
        /\ \A i \in DOMAIN frames'[g.lane] : frames'[g.lane][i].pub # g.pub
    BY <1>1, <1>2, <1>4, <1>5
  <2>3. \A e, f \in flight' : e.pub = f.pub => e = f
    <3>1. \A f \in flight : f.pub # g.pub
      BY <1>3
    <3> HIDE DEF g
    <3> QED
      BY <1>1, <3>1 DEF IndInv, FlightInv
  <2> HIDE DEF g
  <2> QED
    BY <1>1, <2>1, <2>2, <2>3 DEF FlightInv
<1>8. FramesInv'
  <2> SUFFICES ASSUME NEW m \in Lanes, NEW i \in DOMAIN frames[m]
               PROVE  FrameOK(m, i, frames[m][i].pub, frames[m][i].kind)'
    BY <1>1 DEF FramesInv
  <2>1. frames[m][i].pub \in Pubs \ {p} /\ FrameOK(m, i, frames[m][i].pub, frames[m][i].kind)
    BY <1>4, LaneFacts
  <2> QED
    BY <1>1, <1>6, <2>1 DEF FrameOK
<1>9. ReturnsInv'
  <2> SUFFICES ASSUME NEW m \in Lanes, returns[m] # <<>>
               PROVE  (\E o \in Pubs :
                         /\ returns[m] = <<o>>
                         /\ pc[o] = "await" /\ lane[o] = m
                         /\ <<o, "unroutable">> \in answered
                         /\ conf[o] = "nack" => chan[m] # "open"
                         /\ \A i \in DOMAIN frames[m] :
                               frames[m][i].pub = o => frames[m][i].kind = "ack")'
    BY <1>1 DEF ReturnsInv
  <2>1. PICK o \in Pubs :
          /\ returns[m] = <<o>>
          /\ pc[o] = "await" /\ lane[o] = m
          /\ <<o, "unroutable">> \in answered
          /\ conf[o] = "nack" => chan[m] # "open"
          /\ \A i \in DOMAIN frames[m] : frames[m][i].pub = o => frames[m][i].kind = "ack"
    BY DEF IndInv, ReturnsInv
  <2> QED
    BY SMTT(30), <1>1, <2>1
<1>10. ConfInv'
  BY <1>1, <1>6 DEF IndInv, ConfInv
<1> QED
  BY <1>7, <1>8, <1>9, <1>10 DEF AnswersInv

\* A channel that is lost takes with it the answers that were unread.
LEMMA LostAnswers ==
    ASSUME IndInv, TypeOK', NEW l \in Lanes, ChannelLost(l)
    PROVE  AnswersInv'
<1>1. /\ UNCHANGED <<pc, lane, gen, returns, flight, queued, answered>>
      /\ chan'[l] = "dead" /\ frames'[l] = <<>>
      /\ \A m \in Lanes \ {l} : chan'[m] = chan[m] /\ frames'[m] = frames[m]
      /\ \A p \in Pubs : conf'[p] = IF lane[p] = l /\ conf[p] = "pending" THEN "nack" ELSE conf[p]
  BY DEF ChannelLost, IndInv, TypeOK, brokerVars
<1>2. \A p \in Pubs : Routed(p)' <=> Routed(p)
  BY <1>1 DEF Routed
<1>3. FlightInv'
  <2>1. ASSUME NEW f \in flight
        PROVE  /\ pc'[f.pub] \in {"await", "done"}
               /\ f.gen <= gen'[f.lane]
               /\ Live(f)' =>
                     /\ pc'[f.pub] = "await" /\ lane'[f.pub] = f.lane /\ conf'[f.pub] = "pending"
                     /\ returns'[f.lane] = <<>>
                     /\ \A i \in DOMAIN frames'[f.lane] : frames'[f.lane][i].pub # f.pub
    <3>1. f.pub \in Pubs /\ f.lane \in Lanes
      BY LaneFacts
    <3>2. pc[f.pub] \in {"await", "done"} /\ f.gen <= gen[f.lane]
      BY DEF IndInv, FlightInv
    <3>3. ASSUME Live(f)'
          PROVE  /\ pc'[f.pub] = "await" /\ lane'[f.pub] = f.lane /\ conf'[f.pub] = "pending"
                 /\ returns'[f.lane] = <<>>
                 /\ \A i \in DOMAIN frames'[f.lane] : frames'[f.lane][i].pub # f.pub
      <4>1. f.lane # l /\ Live(f)
        BY <1>1, <3>1, <3>3 DEF Live
      <4>2. /\ pc[f.pub] = "await" /\ lane[f.pub] = f.lane /\ conf[f.pub] = "pending"
            /\ returns[f.lane] = <<>>
            /\ \A i \in DOMAIN frames[f.lane] : frames[f.lane][i].pub # f.pub
        BY <4>1 DEF IndInv, FlightInv
      <4> QED
        BY <1>1, <3>1, <4>1, <4>2
    <3> QED
      BY <1>1, <3>2, <3>3
  <2>2. \A f, g \in flight' : f.pub = g.pub => f = g
    BY <1>1 DEF IndInv, FlightInv
  <2> QED
    BY <1>1, <2>1, <2>2 DEF FlightInv
<1>4. FramesInv'
  <2> SUFFICES ASSUME NEW m \in Lanes, NEW i \in DOMAIN frames'[m]
               PROVE  FrameOK(m, i, frames[m][i].pub, frames[m][i].kind)'
    BY DEF FramesInv
  <2>1. m # l /\ frames'[m] = frames[m]
    BY <1>1
  <2>2. frames[m][i].pub \in Pubs /\ FrameOK(m, i, frames[m][i].pub, frames[m][i].kind)
    BY <2>1, LaneFacts
  <2> QED
    BY <1>1, <1>2, <2>1, <2>2 DEF FrameOK
<1>5. ReturnsInv'
  <2> SUFFICES ASSUME NEW m \in Lanes, returns[m] # <<>>
               PROVE  (\E p \in Pubs :
                         /\ returns[m] = <<p>>
                         /\ pc[p] = "await" /\ lane[p] = m
                         /\ <<p, "unroutable">> \in answered
                         /\ conf[p] = "nack" => chan[m] # "open"
                         /\ \A i \in DOMAIN frames[m] :
                               frames[m][i].pub = p => frames[m][i].kind = "ack")'
    BY <1>1 DEF ReturnsInv
  <2>1. PICK p \in Pubs :
          /\ returns[m] = <<p>>
          /\ pc[p] = "await" /\ lane[p] = m
          /\ <<p, "unroutable">> \in answered
          /\ conf[p] = "nack" => chan[m] # "open"
          /\ \A i \in DOMAIN frames[m] : frames[m][i].pub = p => frames[m][i].kind = "ack"
    BY DEF IndInv, ReturnsInv
  <2>2. \A i \in DOMAIN frames'[m] : frames'[m][i].pub = p => frames'[m][i].kind = "ack"
    BY <1>1, <2>1
  <2>3. conf'[p] = "nack" => chan'[m] # "open"
    BY <1>1, <2>1
  <2> QED
    BY <1>1, <2>1, <2>2, <2>3
<1>6. ConfInv'
  <2> SUFFICES ASSUME NEW p \in Pubs, pc[p] = "await"
               PROVE  (/\ conf[p] = "ack" => Routed(p) \/ returns[lane[p]] = <<p>>
                       /\ conf[p] = "nack" /\ chan[lane[p]] = "open" => <<p, "nacked">> \in answered)'
    BY <1>1 DEF ConfInv
  <2>1. lane[p] \in Lanes
    BY LaneFacts
  <2> QED
    BY <1>1, <1>2, <2>1 DEF IndInv, ConfInv
<1> QED
  BY <1>3, <1>4, <1>5, <1>6 DEF AnswersInv

\* The library reads the first frame of a lane.  Its call is the one that holds the lane,
\* or, for the confirmation of a return, one that has ended.
LEMMA DispatchAnswers ==
    ASSUME IndInv, TypeOK', NEW l \in Lanes, Dispatch(l)
    PROVE  AnswersInv'
<1> DEFINE p == frames[l][1].pub
           k == frames[l][1].kind
<1>1. /\ frames[l] # <<>> /\ Head(frames[l]) = frames[l][1] /\ 1 \in DOMAIN frames[l]
      /\ DOMAIN Tail(frames[l]) = 1..(Len(frames[l]) - 1)
      /\ \A i \in DOMAIN Tail(frames[l]) :
            i \in Nat /\ i + 1 \in DOMAIN frames[l] /\ Tail(frames[l])[i] = frames[l][i + 1]
  <2>1. /\ frames[l] # <<>>
        /\ frames[l] \in Seq([kind : {"return", "ack", "nack"}, pub : Pubs])
    BY LaneFacts DEF Dispatch
  <2> QED
    BY <2>1, SeqFacts
<1>2. /\ UNCHANGED <<pc, lane, chan, gen, flight, queued, answered>>
      /\ frames'[l] = Tail(frames[l])
      /\ \A m \in Lanes \ {l} : frames'[m] = frames[m] /\ returns'[m] = returns[m]
      /\ \/ /\ k = "return" /\ returns[l] = <<>> /\ returns'[l] = <<p>> /\ conf' = conf
         \/ /\ k # "return" /\ returns' = returns /\ conf'[p] = k
            /\ \A o \in Pubs \ {p} : conf'[o] = conf[o]
  <2>1. /\ UNCHANGED <<pc, lane, chan, gen, flight, queued, answered>>
        /\ frames' = [frames EXCEPT ![l] = Tail(frames[l])]
        /\ \/ /\ k = "return" /\ returns[l] = <<>> /\ conf' = conf
              /\ returns' = [returns EXCEPT ![l] = <<p>>]
           \/ /\ k # "return" /\ returns' = returns
              /\ conf' = [conf EXCEPT ![p] = k]
    BY <1>1 DEF Dispatch, brokerVars
  <2>2. p \in Pubs
    BY <1>1, LaneFacts
  <2>3. \A m \in Lanes \ {l} : frames'[m] = frames[m]
    BY <2>1 DEF IndInv, TypeOK
  <2>4. frames'[l] = Tail(frames[l])
    BY <2>1 DEF IndInv, TypeOK
  <2>5. CASE k = "return"
    <3> HIDE DEF p, k
    <3> QED
      BY <2>1, <2>3, <2>4, <2>5 DEF IndInv, TypeOK
  <2>6. CASE k # "return"
    <3> HIDE DEF p, k
    <3> QED
      BY <2>1, <2>2, <2>3, <2>4, <2>6 DEF IndInv, TypeOK
  <2> QED
    BY <2>5, <2>6
<1>3. /\ p \in Pubs /\ k \in {"return", "ack", "nack"}
      /\ pc[p] \in {"await", "done"}
      /\ pc[p] = "await" => lane[p] = l /\ conf[p] = "pending"
      /\ k # "ack" => pc[p] = "await"
      /\ k = "nack" => <<p, "nacked">> \in answered
      /\ k = "return" => <<p, "unroutable">> \in answered
      /\ k = "ack" => Routed(p) \/ pc[p] = "done" \/ returns[l] = <<p>>
      /\ \A h \in DOMAIN frames[l] : frames[l][h].pub = p =>
            /\ k # "return" => h <= 1
            /\ k = "return" => h = 1 \/ frames[l][h].kind = "ack"
  <2>1. p \in Pubs /\ k \in {"return", "ack", "nack"} /\ FrameOK(l, 1, p, k) /\ ~(1 > 1)
    BY <1>1, LaneFacts
  <2> HIDE DEF p, k
  <2> QED
    BY <2>1 DEF FrameOK
<1>4. \A o \in Pubs : Routed(o)' <=> Routed(o)
  BY <1>2 DEF Routed
<1>5. \A i \in DOMAIN frames'[l] :
        /\ i \in Nat /\ i + 1 \in DOMAIN frames[l] /\ frames'[l][i] = frames[l][i + 1]
        /\ frames[l][i + 1].pub = p =>
              k = "return" /\ frames[l][i + 1].kind = "ack"
  <2> SUFFICES ASSUME NEW i \in DOMAIN frames'[l]
               PROVE  /\ i \in Nat /\ i + 1 \in DOMAIN frames[l] /\ frames'[l][i] = frames[l][i + 1]
                      /\ frames[l][i + 1].pub = p => k = "return" /\ frames[l][i + 1].kind = "ack"
    OBVIOUS
  <2>1. i \in Nat /\ i >= 1 /\ i + 1 \in DOMAIN frames[l] /\ frames'[l][i] = frames[l][i + 1]
    BY <1>1, <1>2
  <2>2. ~(i + 1 <= 1) /\ i + 1 # 1
    BY <2>1
  <2> QED
    BY <1>3, <2>1, <2>2
<1> HIDE DEF p, k
<1>6. FlightInv'
  <2>1. ASSUME NEW e \in flight'
        PROVE  /\ pc'[e.pub] \in {"await", "done"}
               /\ e.gen <= gen'[e.lane]
               /\ Live(e)' =>
                     /\ pc'[e.pub] = "await" /\ lane'[e.pub] = e.lane /\ conf'[e.pub] = "pending"
                     /\ returns'[e.lane] = <<>>
                     /\ \A i \in DOMAIN frames'[e.lane] : frames'[e.lane][i].pub # e.pub
    <3>1. e \in flight /\ e.pub \in Pubs /\ e.lane \in Lanes /\ (Live(e)' <=> Live(e))
      BY <1>2, LaneFacts DEF Live
    <3>2. pc[e.pub] \in {"await", "done"} /\ e.gen <= gen[e.lane]
      BY <3>1 DEF IndInv, FlightInv
    <3>3. ASSUME Live(e)
          PROVE  /\ pc'[e.pub] = "await" /\ lane'[e.pub] = e.lane /\ conf'[e.pub] = "pending"
                 /\ returns'[e.lane] = <<>>
                 /\ \A i \in DOMAIN frames'[e.lane] : frames'[e.lane][i].pub # e.pub
      <4>1. /\ pc[e.pub] = "await" /\ lane[e.pub] = e.lane /\ conf[e.pub] = "pending"
            /\ returns[e.lane] = <<>>
            /\ \A i \in DOMAIN frames[e.lane] : frames[e.lane][i].pub # e.pub
        BY <3>1, <3>3 DEF IndInv, FlightInv
      <4>2. e.pub # p
        BY <1>1, <1>3, <4>1 DEF p
      <4>3. e.lane = l => k # "return"
        BY <1>3, <3>1, <4>1, <4>2, LaneFacts
      <4>4. \A i \in DOMAIN frames'[e.lane] : frames'[e.lane][i].pub # e.pub
        <5>1. CASE e.lane = l
          BY <1>5, <4>1, <5>1
        <5>2. CASE e.lane # l
          BY <1>2, <3>1, <4>1, <5>2
        <5> QED
          BY <5>1, <5>2
      <4>5. returns'[e.lane] = <<>> /\ conf'[e.pub] = "pending"
        BY <1>2, <3>1, <4>1, <4>2, <4>3
      <4> QED
        BY <1>2, <4>1, <4>4, <4>5
    <3> QED
      BY <1>2, <3>1, <3>2, <3>3
  <2>2. \A e, f \in flight' : e.pub = f.pub => e = f
    BY <1>2 DEF IndInv, FlightInv
  <2> QED
    BY <2>1, <2>2 DEF FlightInv
<1>7. FramesInv'
  <2> SUFFICES ASSUME NEW m \in Lanes, NEW i \in DOMAIN frames'[m]
               PROVE  FrameOK(m, i, frames[m][i].pub, frames[m][i].kind)'
    BY DEF FramesInv
  <2>1. CASE m # l
    <3> DEFINE o == frames[m][i].pub
               n == frames[m][i].kind
    <3>1. frames'[m] = frames[m] /\ returns'[m] = returns[m] /\ o \in Pubs /\ FrameOK(m, i, o, n)
      BY <1>2, <2>1, LaneFacts
    <3>2. pc[o] = "await" => o # p
      BY <1>3, <2>1, <3>1 DEF FrameOK
    <3>3. pc'[o] = "await" => lane'[o] = m /\ conf'[o] = "pending"
      BY <1>2, <3>1, <3>2 DEF FrameOK
    <3> QED
      BY <1>2, <1>4, <3>1, <3>3 DEF FrameOK
  <2>2. CASE m = l
    <3>0. PICK o \in Pubs, n \in {"return", "ack", "nack"} :
            /\ o = frames[l][i + 1].pub /\ n = frames[l][i + 1].kind
            /\ i + 1 \in DOMAIN frames[l] /\ FrameOK(l, i + 1, o, n)
      BY <1>5, <2>2, LaneFacts
    <3>1. /\ i \in Nat /\ i + 1 \in DOMAIN frames[l] /\ frames'[l][i] = frames[l][i + 1]
          /\ o = frames'[l][i].pub /\ n = frames'[l][i].kind /\ FrameOK(l, i + 1, o, n)
          /\ o = p => k = "return" /\ n = "ack"
      BY <1>5, <2>2, <3>0
    <3>2. pc'[o] \in {"await", "done"} /\ (n # "ack" => pc'[o] = "await")
      BY <1>2, <3>1 DEF FrameOK
    <3>3. pc'[o] = "await" => lane'[o] = l /\ conf'[o] = "pending"
      BY <1>2, <3>1 DEF FrameOK
    <3>4. /\ n = "nack" => <<o, "nacked">> \in answered'
          /\ n = "return" => <<o, "unroutable">> \in answered'
      BY <1>2, <3>1 DEF FrameOK
    <3>5. ASSUME NEW h \in DOMAIN frames'[l], frames'[l][h].pub = o
          PROVE  /\ n # "return" => h <= i
                 /\ n = "return" => h = i \/ frames'[l][h].kind = "ack"
      <4>1. h \in Nat /\ h + 1 \in DOMAIN frames[l] /\ frames'[l][h] = frames[l][h + 1]
        BY <1>5
      <4>2. /\ n # "return" => h + 1 <= i + 1
            /\ n = "return" => h + 1 = i + 1 \/ frames[l][h + 1].kind = "ack"
        BY <3>1, <3>5, <4>1 DEF FrameOK
      <4> QED
        BY <3>1, <4>1, <4>2
    <3>6. ASSUME n = "ack"
          PROVE  \/ Routed(o)' \/ pc'[o] = "done" \/ returns'[l] = <<o>>
                 \/ i > 1 /\ frames'[l][i - 1].kind = "return" /\ frames'[l][i - 1].pub = o
      <4>1. \/ Routed(o) \/ pc[o] = "done" \/ returns[l] = <<o>>
            \/ frames[l][i].kind = "return" /\ frames[l][i].pub = o
        <5>1. (i + 1) - 1 = i
          BY <3>1
        <5> QED
          BY <3>1, <3>6, <5>1 DEF FrameOK
      <4>2. CASE Routed(o) \/ pc[o] = "done"
        BY <1>2, <1>4, <3>1, <4>2
      <4>3. CASE returns[l] = <<o>>
        BY <1>2, <4>3
      <4>4. CASE i = 1 /\ frames[l][i].kind = "return" /\ frames[l][i].pub = o
        BY <1>2, <4>4 DEF p, k
      <4>5. CASE i # 1 /\ frames[l][i].kind = "return" /\ frames[l][i].pub = o
        <5>1. i > 1 /\ i - 1 \in DOMAIN frames'[l] /\ (i - 1) + 1 = i
          <6>1. Len(frames[l]) \in Nat /\ i \in 1..(Len(frames[l]) - 1)
            BY <1>1, <1>2, <2>2, LaneFacts
          <6>2. i - 1 \in 1..(Len(frames[l]) - 1)
            BY <3>1, <4>5, <6>1
          <6> QED
            BY <1>1, <1>2, <6>1, <6>2
        <5> QED
          BY <1>5, <4>5, <5>1
      <4> QED
        BY <4>1, <4>2, <4>3, <4>4, <4>5
    <3>7. FrameOK(l, i, o, n)'
      BY <3>2, <3>3, <3>4, <3>5, <3>6 DEF FrameOK
    <3> QED
      BY <2>2, <3>1, <3>7
  <2> QED
    BY <2>1, <2>2
<1>8. ReturnsInv'
  <2> SUFFICES ASSUME NEW m \in Lanes, returns'[m] # <<>>
               PROVE  (\E o \in Pubs :
                         /\ returns[m] = <<o>>
                         /\ pc[o] = "await" /\ lane[o] = m
                         /\ <<o, "unroutable">> \in answered
                         /\ conf[o] = "nack" => chan[m] # "open"
                         /\ \A i \in DOMAIN frames[m] :
                               frames[m][i].pub = o => frames[m][i].kind = "ack")'
    BY DEF ReturnsInv
  <2>1. CASE m = l /\ k = "return"
    <3>1. \A i \in DOMAIN frames'[l] : frames'[l][i].pub = p => frames'[l][i].kind = "ack"
      BY <1>5
    <3> QED
      BY <1>2, <1>3, <2>1, <3>1
  <2>2. CASE ~(m = l /\ k = "return")
    <3>1. returns'[m] = returns[m]
      BY <1>2, <2>2
    <3>2. PICK o \in Pubs :
            /\ returns[m] = <<o>>
            /\ pc[o] = "await" /\ lane[o] = m
            /\ <<o, "unroutable">> \in answered
            /\ conf[o] = "nack" => chan[m] # "open"
            /\ \A i \in DOMAIN frames[m] : frames[m][i].pub = o => frames[m][i].kind = "ack"
      BY <3>1 DEF IndInv, ReturnsInv
    <3>3. \A i \in DOMAIN frames'[m] : frames'[m][i].pub = o => frames'[m][i].kind = "ack"
      <4>1. CASE m = l
        BY <1>5, <3>2, <4>1
      <4>2. CASE m # l
        BY <1>2, <3>2, <4>2
      <4> QED
        BY <4>1, <4>2
    <3>4. conf'[o] = "nack" => chan'[m] # "open"
      <4>1. CASE o = p
        BY <1>1, <1>2, <1>3, <3>2, <4>1 DEF p, k
      <4>2. CASE o # p
        BY <1>2, <3>2, <4>2
      <4> QED
        BY <4>1, <4>2
    <3> QED
      BY <1>2, <3>1, <3>2, <3>3, <3>4
  <2> QED
    BY <2>1, <2>2
<1>9. ConfInv'
  <2> SUFFICES ASSUME NEW o \in Pubs, pc[o] = "await"
               PROVE  (/\ conf[o] = "ack" => Routed(o) \/ returns[lane[o]] = <<o>>
                       /\ conf[o] = "nack" /\ chan[lane[o]] = "open" => <<o, "nacked">> \in answered)'
    BY <1>2 DEF ConfInv
  <2>1. /\ lane[o] \in Lanes
        /\ conf[o] = "ack" => Routed(o) \/ returns[lane[o]] = <<o>>
        /\ conf[o] = "nack" /\ chan[lane[o]] = "open" => <<o, "nacked">> \in answered
    BY LaneFacts DEF IndInv, ConfInv
  <2>2. CASE k = "return"
    <3>1. returns[lane[o]] = <<o>> => returns'[lane[o]] = <<o>>
      BY <1>2, <2>1, <2>2
    <3> QED
      BY <1>2, <1>4, <2>1, <2>2, <3>1
  <2>3. CASE k # "return" /\ o # p
    BY <1>2, <1>4, <2>1, <2>3
  <2>4. CASE k # "return" /\ o = p
    BY <1>2, <1>3, <1>4, <2>1, <2>4
  <2> QED
    BY <2>2, <2>3, <2>4
<1> QED
  BY <1>6, <1>7, <1>8, <1>9 DEF AnswersInv

\* The broker answers on a channel that is there.
LEMMA BrokerAnswers ==
    ASSUME IndInv, TypeOK', NEW f \in flight, Live(f),
           BrokerConfirms(f) \/ BrokerRefuses(f) \/ BrokerReturns(f)
    PROVE  AnswersInv'
<1> DEFINE l == f.lane
           p == f.pub
           n == Len(frames[l])
<1>1. /\ l \in Lanes /\ p \in Pubs /\ n \in Nat /\ DOMAIN frames[l] = 1..n
      /\ pc[p] = "await" /\ lane[p] = l /\ conf[p] = "pending" /\ returns[l] = <<>>
      /\ \A i \in DOMAIN frames[l] : frames[l][i].pub # p
  BY LaneFacts DEF IndInv, FlightInv
<1>2. /\ UNCHANGED <<pc, lane, conf, chan, gen, returns>> /\ flight' = flight \ {f}
      /\ answered \subseteq answered'
  BY DEF BrokerConfirms, BrokerRefuses, BrokerReturns, Answer, callVars
<1>3. \A o \in Pubs : Routed(o) => Routed(o)'
  <2>1. \A q \in Queues : queued[q] \subseteq queued'[q]
    BY DEF BrokerConfirms, BrokerRefuses, BrokerReturns, Enqueue
  <2> QED
    BY <2>1 DEF Routed
\* What is added to the frames of the lane, and what it says.
<1>4. /\ \A m \in Lanes \ {l} : frames'[m] = frames[m]
      /\ DOMAIN frames[l] \subseteq DOMAIN frames'[l]
      /\ \A i \in DOMAIN frames[l] : frames'[l][i] = frames[l][i]
      /\ \A i \in DOMAIN frames'[l] \ DOMAIN frames[l] :
            /\ frames'[l][i].pub = p
            /\ \/ /\ i = n + 1 /\ DOMAIN frames'[l] = 1..(n + 1)
                  /\ \/ frames'[l][i].kind = "ack" /\ Routed(p)'
                     \/ frames'[l][i].kind = "nack" /\ <<p, "nacked">> \in answered'
               \/ /\ i = n + 1 /\ DOMAIN frames'[l] = 1..(n + 2)
                  /\ frames'[l][i].kind = "return" /\ <<p, "unroutable">> \in answered'
                  /\ frames'[l][n + 2].kind = "ack"
               \/ /\ i = n + 2 /\ DOMAIN frames'[l] = 1..(n + 2)
                  /\ frames'[l][i].kind = "ack"
                  /\ frames'[l][n + 1].kind = "return" /\ frames'[l][n + 1].pub = p
  <2>1. ASSUME NEW kinds \in Seq({"return", "ack", "nack"}), Answer(f, kinds)
        PROVE  /\ \A m \in Lanes \ {l} : frames'[m] = frames[m]
               /\ DOMAIN frames'[l] = 1..(n + Len(kinds)) /\ Len(kinds) \in Nat
               /\ \A i \in DOMAIN frames[l] : frames'[l][i] = frames[l][i]
               /\ \A i \in DOMAIN kinds :
                     frames'[l][n + i].pub = p /\ frames'[l][n + i].kind = kinds[i]
    <3>1. TypeOK
      BY DEF IndInv
    <3>2. /\ \A m \in Lanes : m # l \/ ~Live(f) => frames'[m] = frames[m]
          /\ Len(frames'[l]) = n + Len(kinds)
          /\ \A i \in DOMAIN frames[l] : frames'[l][i] = frames[l][i]
          /\ \A i \in DOMAIN kinds : frames'[l][n + i] = [kind |-> kinds[i], pub |-> p]
      BY <2>1, <3>1, AnswerFrames
    <3>3. DOMAIN frames'[l] = 1..Len(frames'[l])
      <4>1. frames'[l] \in Seq([kind : {"return", "ack", "nack"}, pub : Pubs])
        BY <1>1 DEF TypeOK
      <4> QED
        BY <4>1
    <3>4. Len(kinds) \in Nat
      OBVIOUS
    <3>5. \A i \in DOMAIN kinds :
            frames'[l][n + i].pub = p /\ frames'[l][n + i].kind = kinds[i]
      <4> SUFFICES ASSUME NEW i \in DOMAIN kinds
                   PROVE  frames'[l][n + i].pub = p /\ frames'[l][n + i].kind = kinds[i]
        OBVIOUS
      <4> HIDE DEF l, p, n
      <4>1. frames'[l][n + i] = [kind |-> kinds[i], pub |-> p]
        BY <3>2
      <4> QED
        BY <4>1
    <3>6. \A m \in Lanes \ {l} : frames'[m] = frames[m]
      BY <3>2
    <3> HIDE DEF l, p, n
    <3> QED
      BY <3>2, <3>3, <3>4, <3>5, <3>6
  <2> HIDE DEF l, p, n
  <2>2. CASE BrokerConfirms(f)
    <3>1. Answer(f, <<"ack">>) /\ <<"ack">> \in Seq({"return", "ack", "nack"})
      BY <2>2, AnswerKinds DEF BrokerConfirms
    <3>2. Len(<<"ack">>) = 1 /\ DOMAIN <<"ack">> = {1} /\ <<"ack">>[1] = "ack"
      OBVIOUS
    <3>3. Routed(p)'
      BY <2>2 DEF BrokerConfirms, Enqueue, Routed, p, IndInv, TypeOK
    <3>4. /\ \A m \in Lanes \ {l} : frames'[m] = frames[m]
          /\ DOMAIN frames'[l] = 1..(n + 1)
          /\ \A i \in DOMAIN frames[l] : frames'[l][i] = frames[l][i]
          /\ frames'[l][n + 1].pub = p /\ frames'[l][n + 1].kind = "ack"
      BY <2>1, <3>1, <3>2
    <3> QED
      BY <1>1, <3>3, <3>4
  <2>3. CASE BrokerRefuses(f)
    <3>1. Answer(f, <<"nack">>) /\ <<"nack">> \in Seq({"return", "ack", "nack"})
      BY <2>3, AnswerKinds DEF BrokerRefuses
    <3>2. Len(<<"nack">>) = 1 /\ DOMAIN <<"nack">> = {1} /\ <<"nack">>[1] = "nack"
      OBVIOUS
    <3>3. <<p, "nacked">> \in answered'
      BY <2>3 DEF BrokerRefuses, p
    <3>4. /\ \A m \in Lanes \ {l} : frames'[m] = frames[m]
          /\ DOMAIN frames'[l] = 1..(n + 1)
          /\ \A i \in DOMAIN frames[l] : frames'[l][i] = frames[l][i]
          /\ frames'[l][n + 1].pub = p /\ frames'[l][n + 1].kind = "nack"
      BY <2>1, <3>1, <3>2
    <3> QED
      BY <1>1, <3>3, <3>4
  <2>4. CASE BrokerReturns(f)
    <3>1. Answer(f, <<"return", "ack">>) /\ <<"return", "ack">> \in Seq({"return", "ack", "nack"})
      BY <2>4, AnswerKinds DEF BrokerReturns
    <3>2. /\ Len(<<"return", "ack">>) = 2 /\ DOMAIN <<"return", "ack">> = {1, 2}
          /\ <<"return", "ack">>[1] = "return" /\ <<"return", "ack">>[2] = "ack"
      OBVIOUS
    <3>3. <<p, "unroutable">> \in answered'
      BY <2>4 DEF BrokerReturns, p
    <3>4. /\ \A m \in Lanes \ {l} : frames'[m] = frames[m]
          /\ DOMAIN frames'[l] = 1..(n + 2)
          /\ \A i \in DOMAIN frames[l] : frames'[l][i] = frames[l][i]
          /\ frames'[l][n + 1].pub = p /\ frames'[l][n + 1].kind = "return"
          /\ frames'[l][n + 2].pub = p /\ frames'[l][n + 2].kind = "ack"
      BY <2>1, <3>1, <3>2
    <3> QED
      BY <1>1, <3>3, <3>4
  <2> QED
    BY <2>2, <2>3, <2>4
<1> HIDE DEF l, p, n
<1>5. FlightInv'
  <2>1. ASSUME NEW e \in flight'
        PROVE  /\ pc'[e.pub] \in {"await", "done"}
               /\ e.gen <= gen'[e.lane]
               /\ Live(e)' =>
                     /\ pc'[e.pub] = "await" /\ lane'[e.pub] = e.lane /\ conf'[e.pub] = "pending"
                     /\ returns'[e.lane] = <<>>
                     /\ \A i \in DOMAIN frames'[e.lane] : frames'[e.lane][i].pub # e.pub
    <3>1. /\ e \in flight /\ e.pub \in Pubs /\ e.lane \in Lanes /\ (Live(e)' <=> Live(e))
          /\ e.pub # p
      BY <1>2, LaneFacts DEF Live, IndInv, FlightInv, p
    <3>2. pc[e.pub] \in {"await", "done"} /\ e.gen <= gen[e.lane]
      BY <3>1 DEF IndInv, FlightInv
    <3>3. ASSUME Live(e)
          PROVE  /\ pc'[e.pub] = "await" /\ lane'[e.pub] = e.lane /\ conf'[e.pub] = "pending"
                 /\ returns'[e.lane] = <<>>
                 /\ \A i \in DOMAIN frames'[e.lane] : frames'[e.lane][i].pub # e.pub
      <4>1. /\ pc[e.pub] = "await" /\ lane[e.pub] = e.lane /\ conf[e.pub] = "pending"
            /\ returns[e.lane] = <<>>
            /\ \A i \in DOMAIN frames[e.lane] : frames[e.lane][i].pub # e.pub
        BY <3>1, <3>3 DEF IndInv, FlightInv
      <4>2. \A i \in DOMAIN frames'[e.lane] : frames'[e.lane][i].pub # e.pub
        BY <1>4, <3>1, <4>1
      <4> QED
        BY <1>2, <4>1, <4>2
    <3> QED
      BY <1>2, <3>1, <3>2, <3>3
  <2>2. \A e, g \in flight' : e.pub = g.pub => e = g
    BY <1>2 DEF IndInv, FlightInv
  <2> QED
    BY <2>1, <2>2 DEF FlightInv
<1>6. FramesInv'
  <2> SUFFICES ASSUME NEW m \in Lanes, NEW i \in DOMAIN frames'[m]
               PROVE  FrameOK(m, i, frames[m][i].pub, frames[m][i].kind)'
    BY DEF FramesInv
  <2>1. CASE m # l
    <3>1. /\ frames'[m] = frames[m] /\ frames[m][i].pub \in Pubs
          /\ FrameOK(m, i, frames[m][i].pub, frames[m][i].kind)
      BY <1>4, <2>1, LaneFacts
    <3> QED
      BY <1>2, <1>3, <3>1 DEF FrameOK
  <2>2. CASE m = l /\ i \in DOMAIN frames[l]
    <3>0. PICK o \in Pubs, k \in {"return", "ack", "nack"} :
            o = frames[l][i].pub /\ k = frames[l][i].kind /\ FrameOK(l, i, o, k)
      BY <1>1, <2>2, LaneFacts
    <3>1. frames'[l][i] = frames[l][i] /\ o # p /\ FrameOK(l, i, o, k)
      BY <1>1, <1>4, <2>2, <3>0
    <3>2. \A h \in DOMAIN frames'[l] : frames'[l][h].pub = o =>
            h \in DOMAIN frames[l] /\ frames'[l][h] = frames[l][h]
      BY <1>4, <3>1
    <3>3. i > 1 => frames'[l][i - 1] = frames[l][i - 1]
      BY <1>1, <1>4, <2>2
    <3>4. FrameOK(l, i, o, k)'
      <4>1. \A h \in DOMAIN frames'[l] : frames'[l][h].pub = o =>
              /\ k # "return" => h <= i
              /\ k = "return" => h = i \/ frames'[l][h].kind = "ack"
        BY <3>1, <3>2 DEF FrameOK
      <4>2. k = "ack" =>
              \/ Routed(o)' \/ pc'[o] = "done" \/ returns'[l] = <<o>>
              \/ i > 1 /\ frames'[l][i - 1].kind = "return" /\ frames'[l][i - 1].pub = o
        BY <1>2, <1>3, <3>0, <3>1, <3>3 DEF FrameOK
      <4> QED
        BY <1>2, <3>1, <4>1, <4>2 DEF FrameOK
    <3> QED
      BY <2>2, <3>0, <3>1, <3>4
  <2>3. CASE m = l /\ i \in DOMAIN frames'[l] \ DOMAIN frames[l]
    <3> DEFINE k == frames'[l][i].kind
    <3>1. frames'[l][i].pub = p
      BY <1>4, <2>3
    <3>2. pc'[p] = "await" /\ lane'[p] = l /\ conf'[p] = "pending"
      BY <1>1, <1>2
    <3>3. /\ k = "nack" => <<p, "nacked">> \in answered'
          /\ k = "return" => <<p, "unroutable">> \in answered'
      BY <1>4, <2>3
    <3>4. ASSUME NEW h \in DOMAIN frames'[l], frames'[l][h].pub = p
          PROVE  /\ k # "return" => h <= i
                 /\ k = "return" => h = i \/ frames'[l][h].kind = "ack"
      <4>1. h \notin DOMAIN frames[l]
        BY <1>1, <1>4, <3>4
      <4>2. h \in {n + 1, n + 2}
        BY <1>4, <3>4, <4>1
      <4>3. CASE i = n + 1 /\ DOMAIN frames'[l] = 1..(n + 1)
        BY <1>1, <1>4, <2>3, <4>2, <4>3
      <4>4. CASE i = n + 1 /\ k = "return" /\ frames'[l][n + 2].kind = "ack"
        BY <1>1, <4>2, <4>4
      <4>5. CASE i = n + 2 /\ k = "ack"
        BY <1>1, <4>2, <4>5
      <4> QED
        BY <1>4, <2>3, <4>3, <4>4, <4>5
    <3>5. k = "ack" =>
            \/ Routed(p)'
            \/ i > 1 /\ frames'[l][i - 1].kind = "return" /\ frames'[l][i - 1].pub = p
      <4> SUFFICES ASSUME k = "ack", i = n + 2,
                          frames'[l][n + 1].kind = "return", frames'[l][n + 1].pub = p
                   PROVE  i > 1 /\ frames'[l][i - 1].kind = "return" /\ frames'[l][i - 1].pub = p
        BY <1>4, <2>3
      <4>1. i > 1 /\ i - 1 = n + 1
        BY <1>1
      <4> QED
        BY <4>1
    <3>6. FrameOK(l, i, p, frames[l][i].kind)'
      BY <3>2, <3>3, <3>4, <3>5 DEF FrameOK
    <3> QED
      BY <2>3, <3>1, <3>6
  <2> QED
    BY <2>1, <2>2, <2>3
<1>7. ReturnsInv'
  <2> SUFFICES ASSUME NEW m \in Lanes, returns'[m] # <<>>
               PROVE  (\E o \in Pubs :
                         /\ returns[m] = <<o>>
                         /\ pc[o] = "await" /\ lane[o] = m
                         /\ <<o, "unroutable">> \in answered
                         /\ conf[o] = "nack" => chan[m] # "open"
                         /\ \A i \in DOMAIN frames[m] :
                               frames[m][i].pub = o => frames[m][i].kind = "ack")'
    BY DEF ReturnsInv
  <2>1. PICK o \in Pubs :
          /\ returns[m] = <<o>>
          /\ pc[o] = "await" /\ lane[o] = m
          /\ <<o, "unroutable">> \in answered
          /\ conf[o] = "nack" => chan[m] # "open"
          /\ \A i \in DOMAIN frames[m] : frames[m][i].pub = o => frames[m][i].kind = "ack"
    BY <1>2 DEF IndInv, ReturnsInv
  <2>2. m # l
    BY <1>1, <1>2
  <2> QED
    BY <1>2, <1>4, <2>1, <2>2
<1>8. ConfInv'
  BY <1>2, <1>3 DEF IndInv, ConfInv
<1> QED
  BY <1>5, <1>6, <1>7, <1>8 DEF AnswersInv

\* The answers that are on their way keep their invariants in every step.
LEMMA AnswersStep == IndInv /\ TypeOK' /\ [Next]_vars => AnswersInv'
<1> SUFFICES ASSUME IndInv, TypeOK', [Next]_vars PROVE AnswersInv'
  OBVIOUS
<1>1. Quiet => AnswersInv'
  BY QuietKeeps
<1>2. ASSUME NEW p \in Pubs, Acquire(p) \/ LanePublish(p)
      PROVE  AnswersInv'
  BY <1>1, <1>2, QuietSteps, SendAnswers DEF LanePublish
<1>3. ASSUME NEW l \in Lanes, Dispatch(l) \/ ChannelLost(l)
      PROVE  AnswersInv'
  BY <1>3, DispatchAnswers, LostAnswers
<1>4. ASSUME NEW f \in flight,
             BrokerConfirms(f) \/ BrokerRefuses(f) \/ BrokerReturns(f) \/ BrokerMisses(f)
      PROVE  AnswersInv'
  <2>1. BrokerMisses(f) => ~Live(f)
    BY DEF BrokerMisses, Live
  <2>2. CASE Live(f)
    BY <1>4, <2>1, <2>2, BrokerAnswers
  <2>3. CASE ~Live(f)
    BY <1>1, <1>4, <2>3, QuietSteps
  <2> QED
    BY <2>2, <2>3
<1>5. CloseStarts \/ CloseLanes \/ (\E q \in Queues : Rebind(q)) \/ UNCHANGED vars => AnswersInv'
  BY <1>1, QuietSteps
<1> QED
  BY <1>2, <1>3, <1>4, <1>5 DEF Next, Broker

\* After Close no call gets a lane and no channel is opened.
LEMMA CloseStep == IndInv /\ [Next]_vars => CloseInv'
<1> SUFFICES ASSUME IndInv, [Next]_vars PROVE CloseInv'
  OBVIOUS
<1>0. /\ TypeOK /\ LanesAccounted /\ CloseInv
      /\ closePc = "done" => \A p \in Pubs : pc[p] \in {"new", "done"}
      /\ closePc = "done" => \A l \in Lanes : chan[l] # "open"
      /\ closePc = "done" => closed
  BY DEF IndInv, CloseInv, InCall
<1>1. ASSUME NEW p \in Pubs, Enter(p)
      PROVE  CloseInv'
  BY <1>0, <1>1 DEF Enter, CloseInv, InCall, TypeOK, laneVars
<1>2. ASSUME NEW p \in Pubs,
             LanePublish(p) \/ GiveUp(p) \/ \E l \in Lanes : TakeLane(p, l)
      PROVE  CloseInv'
  <2>1. pc[p] \notin {"new", "done"} /\ UNCHANGED <<closed, closePc>>
    BY <1>2 DEF LanePublish, GiveUp, TakeLane, EnsureChannel, NoChannel, Send, SendFails,
         AwaitTimeout, AwaitClosed, AwaitReturn, AwaitNack, AwaitAck, Finish, poolVars
  <2> QED
    BY <1>0, <2>1 DEF CloseInv
<1>3. CASE CloseStarts
  BY <1>0, <1>3 DEF CloseStarts, CloseInv
<1>4. CASE CloseLanes
  <2>1. InCall = {}
    BY <1>0, <1>4, Counts DEF CloseLanes
  <2>2. InCall' = InCall /\ closed' = closed /\ closePc = "waiting"
    BY <1>4 DEF CloseLanes, InCall, callVars
  <2>3. \A l \in Lanes : chan'[l] # "open"
    BY <1>4 DEF CloseLanes, ClosedChannels
  <2> QED
    BY <1>0, <2>1, <2>2, <2>3 DEF CloseInv
<1>5. ASSUME NEW l \in Lanes, Dispatch(l) \/ ChannelLost(l)
      PROVE  CloseInv'
  <2>1. chan[l] = "open" /\ UNCHANGED <<closed, closePc>>
    BY <1>5 DEF Dispatch, ChannelLost, poolVars
  <2> QED
    BY <1>0, <2>1 DEF CloseInv
<1>6. ASSUME NEW q \in Queues, Rebind(q)
      PROVE  CloseInv'
  BY <1>0, <1>6 DEF Rebind, CloseInv, InCall, callVars, poolVars, laneVars
<1>7. CASE Broker
  <2>1. UNCHANGED <<pc, closed, closePc, chan>>
    BY <1>7 DEF Broker, BrokerConfirms, BrokerRefuses, BrokerReturns, BrokerMisses, Answer,
         callVars, poolVars
  <2> QED
    BY <1>0, <2>1 DEF CloseInv, InCall
<1>8. CASE UNCHANGED vars
  BY <1>0, <1>8 DEF vars, CloseInv, InCall, callVars, poolVars, laneVars
<1> QED
  BY <1>1, <1>2, <1>3, <1>4, <1>5, <1>6, <1>7, <1>8 DEF Next, Acquire

\* What a call returns is true of its own message, and stays so.
LEMMA ResultStep == IndInv /\ [Next]_vars => ConfirmedWasRouted' /\ ResultIsOwn'
<1> SUFFICES ASSUME IndInv, [Next]_vars PROVE ConfirmedWasRouted' /\ ResultIsOwn'
  OBVIOUS
<1>0. /\ TypeOK /\ LanesAccounted /\ CallsInOrder /\ ReturnsInv /\ ConfInv
      /\ ConfirmedWasRouted /\ ResultIsOwn
  BY DEF IndInv
<1>1. ASSUME \A q \in Queues : queued[q] \subseteq queued'[q], answered \subseteq answered',
             \A o \in Pubs :
                \/ result'[o] = result[o]
                \/ result'[o] \in {"none", "closed", "timeout", "interrupted"}
                \/ result'[o] = "ok" /\ Routed(o)
                \/ result'[o] \in {"unroutable", "nacked"} /\ <<o, result'[o]>> \in answered
      PROVE  ConfirmedWasRouted' /\ ResultIsOwn'
  <2>1. ConfirmedWasRouted'
    <3> SUFFICES ASSUME NEW o \in Pubs, result'[o] = "ok" PROVE \E q \in Queues : o \in queued'[q]
      BY DEF ConfirmedWasRouted
    <3>1. Routed(o)
      BY <1>0, <1>1 DEF ConfirmedWasRouted, Routed
    <3> QED
      BY <1>1, <3>1 DEF Routed
  <2>2. ResultIsOwn'
    <3> SUFFICES ASSUME NEW o \in Pubs, result'[o] \in {"unroutable", "nacked"}
                 PROVE  <<o, result'[o]>> \in answered'
      BY DEF ResultIsOwn
    <3>1. <<o, result'[o]>> \in answered
      BY <1>0, <1>1 DEF ResultIsOwn
    <3> QED
      BY <1>1, <3>1
  <2> QED
    BY <2>1, <2>2
<1>2. ASSUME NEW p \in Holding, NEW r \in {"ok", "unroutable", "nacked", "interrupted", "timeout"},
             Finish(p, r), r = "ok" => Routed(p),
             r \in {"unroutable", "nacked"} => <<p, r>> \in answered
      PROVE  ConfirmedWasRouted' /\ ResultIsOwn'
  <2>1. /\ p \in Pubs /\ result'[p] = r /\ \A o \in Pubs \ {p} : result'[o] = result[o]
        /\ UNCHANGED <<queued, answered>>
    BY <1>0, <1>2, FinishFacts DEF Holding
  <2> QED
    BY <1>1, <1>2, <2>1
<1>3. ASSUME NEW p \in Pubs, Acquire(p) \/ EnsureChannel(p) \/ Send(p)
      PROVE  ConfirmedWasRouted' /\ ResultIsOwn'
  <2>1. UNCHANGED <<queued, answered>>
    BY <1>3 DEF Acquire, Enter, GiveUp, TakeLane, EnsureChannel, Send, brokerVars
  <2>2. \A o \in Pubs : result'[o] = result[o] \/ result'[o] \in {"closed", "timeout"}
    BY <1>0, <1>3 DEF Acquire, Enter, GiveUp, TakeLane, EnsureChannel, Send, TypeOK
  <2> QED
    BY <1>1, <2>1, <2>2
<1>4. ASSUME NEW p \in Pubs, NoChannel(p) \/ SendFails(p) \/ AwaitTimeout(p) \/ AwaitClosed(p)
      PROVE  ConfirmedWasRouted' /\ ResultIsOwn'
  <2>1. PICK r \in {"timeout", "interrupted"} : Finish(p, r)
    BY <1>4 DEF NoChannel, SendFails, AwaitTimeout, AwaitClosed
  <2>2. p \in Holding
    BY <1>4 DEF NoChannel, SendFails, AwaitTimeout, AwaitClosed, Holding
  <2> QED
    BY <1>2, <2>1, <2>2
<1>5. ASSUME NEW p \in Pubs, AwaitReturn(p)
      PROVE  ConfirmedWasRouted' /\ ResultIsOwn'
  <2>1. Finish(p, "unroutable") /\ pc[p] = "await" /\ returns[lane[p]] # <<>>
    BY <1>5 DEF AwaitReturn
  <2>2. p \in Holding /\ lane[p] \in Lanes
    BY <2>1, LaneFacts
  <2>3. PICK o \in Pubs : /\ pc[o] = "await" /\ lane[o] = lane[p]
                          /\ <<o, "unroutable">> \in answered
    BY <1>0, <2>1, <2>2 DEF ReturnsInv
  <2>4. o = p
    BY <2>2, <2>3, LaneFacts
  <2> QED
    BY <1>2, <2>1, <2>2, <2>3, <2>4
<1>6. ASSUME NEW p \in Pubs, AwaitNack(p)
      PROVE  ConfirmedWasRouted' /\ ResultIsOwn'
  <2>1. /\ Finish(p, "nacked") /\ pc[p] = "await" /\ conf[p] = "nack" /\ chan[lane[p]] = "open"
    BY <1>6 DEF AwaitNack
  <2>2. p \in Holding /\ <<p, "nacked">> \in answered
    BY <1>0, <2>1, LaneFacts DEF ConfInv
  <2> QED
    BY <1>2, <2>1, <2>2
<1>7. ASSUME NEW p \in Pubs, AwaitAck(p)
      PROVE  ConfirmedWasRouted' /\ ResultIsOwn'
  <2>1. /\ Finish(p, "ok") /\ pc[p] = "await" /\ conf[p] = "ack" /\ returns[lane[p]] = <<>>
    BY <1>7 DEF AwaitAck
  <2>2. <<p>> # <<>>
    OBVIOUS
  <2>3. p \in Holding /\ Routed(p)
    BY <1>0, <2>1, <2>2, LaneFacts DEF ConfInv
  <2> QED
    BY <1>2, <2>1, <2>3
<1>8. ASSUME NEW l \in Lanes, Dispatch(l) \/ ChannelLost(l)
      PROVE  ConfirmedWasRouted' /\ ResultIsOwn'
  <2>1. UNCHANGED <<result, queued, answered>>
    BY <1>8 DEF Dispatch, ChannelLost, brokerVars
  <2> QED
    BY <1>1, <2>1
<1>9. CASE Broker
  <2>1. UNCHANGED result /\ answered \subseteq answered' /\ \A q \in Queues : queued[q] \subseteq queued'[q]
    BY <1>9 DEF Broker, BrokerConfirms, BrokerRefuses, BrokerReturns, BrokerMisses, Answer,
         Enqueue, callVars
  <2> QED
    BY <1>1, <2>1
<1>10. CASE CloseStarts \/ CloseLanes \/ (\E q \in Queues : Rebind(q)) \/ UNCHANGED vars
  <2>1. UNCHANGED <<result, queued, answered>>
    BY <1>10 DEF CloseStarts, CloseLanes, Rebind, vars, callVars, brokerVars
  <2> QED
    BY <1>1, <2>1
<1> QED
  BY <1>3, <1>4, <1>5, <1>6, <1>7, <1>8, <1>9, <1>10 DEF Next, LanePublish

-----------------------------------------------------------------------------

\* The inductive invariant holds initially.
LEMMA InitInv == Init => IndInv
<1> SUFFICES ASSUME Init PROVE IndInv
  OBVIOUS
<1>1. TypeOK
  <2>1. returns \in [Lanes -> Seq(Pubs)]
    BY SeqFacts DEF Init
  <2>2. frames \in [Lanes -> Seq([kind : {"return", "ack", "nack"}, pub : Pubs])]
    BY SeqFacts DEF Init
  <2>3. faults \in 0..MaxFaults
    BY PublisherAssumption DEF Init
  <2> QED
    BY <2>1, <2>2, <2>3 DEF Init, CoreTopology, TypeOK
<1>2. Holding = {} /\ InCall = {}
  BY DEF Init, Holding, InCall
<1>3. CallsInOrder
  BY DEF Init, CallsInOrder
<1>4. LanesAccounted
  <2>1. active = Cardinality(InCall)
    BY <1>2, FS_EmptySet DEF Init
  <2> QED
    BY <1>2, <2>1 DEF Init, LanesAccounted, InCall
<1>5. FlightInv /\ ReturnsInv /\ ConfInv
  BY DEF Init, FlightInv, ReturnsInv, ConfInv
<1>6. FramesInv
  BY DEF Init, FramesInv
<1>7. CloseInv /\ ConfirmedWasRouted /\ ResultIsOwn
  BY DEF Init, CloseInv, ConfirmedWasRouted, ResultIsOwn
<1> QED
  BY <1>1, <1>3, <1>4, <1>5, <1>6, <1>7 DEF IndInv

\* Every step of the publisher, the library and the broker keeps the invariant.
LEMMA StepInv == IndInv /\ [Next]_vars => IndInv'
<1> SUFFICES ASSUME IndInv, [Next]_vars PROVE IndInv'
  OBVIOUS
<1>1. TypeOK'
  BY TypeStep
<1>2. CallsInOrder' /\ LanesAccounted'
  BY AccountStep
<1>3. AnswersInv'
  BY <1>1, AnswersStep
<1>4. CloseInv'
  BY CloseStep
<1>5. ConfirmedWasRouted' /\ ResultIsOwn'
  BY ResultStep
<1> QED
  BY <1>1, <1>2, <1>3, <1>4, <1>5 DEF IndInv, AnswersInv

\* The invariant holds in every reachable state.
LEMMA Invariance == Spec => []IndInv
BY InitInv, StepInv, PTL DEF Spec

\* Every variable keeps its type: the answers on a lane are frames, and active, which
\* release and the give-up path of acquire decrease, is never negative.
THEOREM TypeCorrect == Spec => []TypeOK
<1>1. IndInv => TypeOK
  BY DEF IndInv
<1> QED
  BY <1>1, Invariance, PTL

\* Publish reports success only of a message that a queue took, whatever the order in
\* which returns, confirmations and lost channels are met.
THEOREM OnlyRoutedSucceeds == Spec => []ConfirmedWasRouted
<1>1. IndInv => ConfirmedWasRouted
  BY DEF IndInv
<1> QED
  BY <1>1, Invariance, PTL

\* No call takes the return or the negative confirmation of another call's message,
\* for any number of calls that share a lane one after the other.
THEOREM AnswersNotMixed == Spec => []ResultIsOwn
<1>1. IndInv => ResultIsOwn
  BY DEF IndInv
<1> QED
  BY <1>1, Invariance, PTL

\* acquire, publish and release never lose a lane or hand it to two calls, and active
\* counts the calls under way, on every error path.
THEOREM NoLaneLost == Spec => []LanesAccounted
<1>1. IndInv => LanesAccounted
  BY DEF IndInv
<1> QED
  BY <1>1, Invariance, PTL

\* When Close has returned no call holds a lane and no channel is open.
THEOREM CloseLeavesQuiet == Spec => []ClosedIsQuiet
<1>1. IndInv => ClosedIsQuiet
  BY DEF IndInv, CloseInv, ClosedIsQuiet, InCall, Holding
<1> QED
  BY <1>1, Invariance, PTL

(***************************************************************************)
(* The connection it publishes on: RabbitClient.                           *)
(***************************************************************************)

\* The client has the connection its supervisor watches, and none while the
\* supervisor recovers.
SupervisorHasConn ==
    conn = IF sup \in {"watch", "lost", "leaving"} THEN current ELSE 0

\* At most the supervisor's own connection is open, and none while it dials.
OneConnection ==
    /\ up \subseteq {current}
    /\ sup \in {"lost", "recover", "dial", "backoff"} => up = {}

\* Close marks before it signals, and finds the connection that is watched.
CloseFinds ==
    /\ clientClosed <=> clientClosePc # "idle"
    /\ shutdown <=> clientClosePc \in {"signalled", "waiting", "done"}
    /\ sup \in {"leaving", "done"} => clientClosed
    /\ sup = "leaving" => shutdown
    /\ clientClosed /\ sup \in {"watch", "leaving"} => closing = current

\* What the supervisor leaves open when it ends is what Close is about to close.
CloseCloses ==
    /\ clientClosePc \in {"waiting", "done"} => closing \notin up
    /\ sup = "done" => up = {} \/ (clientClosePc = "signalled" /\ up = {closing})
    /\ clientClosePc = "done" => sup = "done"

ClientInv ==
    /\ ClientTypeOK
    /\ SupervisorHasConn
    /\ OneConnection
    /\ CloseFinds
    /\ CloseCloses
    /\ ReadyChannelSound

-----------------------------------------------------------------------------

\* The first dial and its ready channel satisfy the invariant.
LEMMA ClientInitInv == ClientInit => ClientInv
<1> SUFFICES ASSUME ClientInit PROVE ClientInv
  OBVIOUS
<1>1. ClientTypeOK
  <2>1. up \subseteq 1..dialled /\ readied \subseteq 0..readyCh
    BY DEF ClientInit
  <2>2. conn \in 0..dialled /\ current \in 1..dialled /\ closing \in 0..dialled
    BY DEF ClientInit
  <2>3. caller \in [Callers -> {"idle", "looking", "waiting", "got", "failed"}]
        /\ awaits \in [Callers -> Nat]
    BY DEF ClientInit
  <2> QED
    BY <2>1, <2>2, <2>3 DEF ClientInit, ClientTypeOK
<1>2. SupervisorHasConn /\ OneConnection /\ CloseFinds /\ CloseCloses /\ ReadyChannelSound
  BY DEF ClientInit, SupervisorHasConn, OneConnection, CloseFinds, CloseCloses, ReadyChannelSound
<1> QED
  BY <1>1, <1>2 DEF ClientInv

\* The steps of the supervisor keep the invariant.
LEMMA SuperviseInv == ASSUME ClientInv, Supervise PROVE ClientInv'
<1> USE DEF ClientInv, clientVars, supVars, netVars, chanVars, closeVars, callerVars
<1>1. CASE Watch
  BY <1>1 DEF Watch, ClientTypeOK, SupervisorHasConn, OneConnection, CloseFinds, CloseCloses, ReadyChannelSound
<1>2. CASE ClearConnection
  <2>1. conn = current /\ conn' = 0 /\ readyCh' = ClearedChannel /\ conn # 0
    BY <1>2 DEF ClearConnection, SupervisorHasConn, ClientTypeOK
  <2>2. readyCh' \in Nat /\ readied \subseteq 0..readyCh' /\ (~clientClosed => readyCh' \notin readied)
    BY <2>1 DEF ClientTypeOK, ClearedChannel
  <2>3. ClientTypeOK'
    BY <1>2, <2>1, <2>2 DEF ClearConnection, ClientTypeOK
  <2>4. SupervisorHasConn' /\ OneConnection' /\ CloseFinds' /\ CloseCloses'
    BY <1>2, <2>1 DEF ClearConnection, ClientTypeOK, SupervisorHasConn, OneConnection, CloseFinds, CloseCloses
  <2>5. ReadyChannelSound'
    BY <1>2, <2>1, <2>2 DEF ClearConnection, ReadyChannelSound, ClearedChannel
  <2> QED
    BY <2>3, <2>4, <2>5
<1>3. CASE Recover \/ Backoff
  <2>1. sup \in {"recover", "backoff"} /\ sup' \in {"recover", "dial", "done"}
        /\ (sup' = "done" => shutdown)
    BY <1>3 DEF Recover, Backoff
  <2>2. UNCHANGED <<clientVars, current, netVars, chanVars, closeVars, callerVars>>
    BY <1>3 DEF Recover, Backoff
  <2>3. ClientTypeOK'
    BY <2>1, <2>2 DEF ClientTypeOK
  <2>4. SupervisorHasConn' /\ OneConnection' /\ ReadyChannelSound'
    BY <2>1, <2>2 DEF SupervisorHasConn, OneConnection, ReadyChannelSound
  <2>5. CloseFinds' /\ CloseCloses'
    BY <2>1, <2>2 DEF OneConnection, CloseFinds, CloseCloses
  <2> QED
    BY <2>3, <2>4, <2>5
<1>4. CASE DialSucceeds
  <2>1. up' = {dialled + 1} /\ current' = dialled + 1 /\ dialled' = dialled + 1
    BY <1>4 DEF DialSucceeds, OneConnection
  <2>2. ClientTypeOK'
    BY <1>4, <2>1 DEF DialSucceeds, ClientTypeOK
  <2>3. closing # dialled + 1
    BY DEF ClientTypeOK
  <2>4. SupervisorHasConn' /\ OneConnection' /\ CloseFinds' /\ CloseCloses' /\ ReadyChannelSound'
    BY <1>4, <2>1, <2>3 DEF DialSucceeds, SupervisorHasConn, OneConnection, CloseFinds, CloseCloses, ReadyChannelSound
  <2> QED
    BY <2>2, <2>4
<1>5. CASE DialFails
  BY <1>5 DEF DialFails, ClientTypeOK, SupervisorHasConn, OneConnection, CloseFinds, CloseCloses, ReadyChannelSound
<1>6. CASE Install
  <2>1. CASE clientClosed
    BY <1>6, <2>1 DEF Install, ClientTypeOK, SupervisorHasConn, OneConnection, CloseFinds, CloseCloses, ReadyChannelSound
  <2>2. CASE ~clientClosed
    <3>1. conn = 0 /\ readyCh \notin readied /\ conn' = current /\ current # 0
      BY <1>6, <2>2 DEF Install, SupervisorHasConn, ReadyChannelSound, ClientTypeOK
    <3>2. ~panicked'
      BY <1>6, <2>2, <3>1 DEF Install, ReadyChannelSound
    <3>3. ClientTypeOK'
      <4>1. readied' \subseteq 0..readyCh' /\ conn' \in 0..dialled'
        <5>1. /\ readied' = readied \cup {readyCh} /\ readyCh' = readyCh
              /\ conn' = current /\ dialled' = dialled
          BY <1>6, <2>2 DEF Install
        <5> QED
          BY <5>1 DEF ClientTypeOK
      <4>2. panicked' = (panicked \/ readyCh \in readied)
        BY <1>6, <2>2, Zenon DEF Install
      <4>3. panicked' \in BOOLEAN
        BY <4>2, Zenon
      <4>4. sup' = "watch"
            /\ UNCHANGED <<dialled, failures, up, current, closing, readyCh, clientClosed, shutdown,
                           clientClosePc, caller, awaits>>
        BY <1>6, <2>2 DEF Install
      <4> QED
        BY <4>1, <4>3, <4>4 DEF ClientTypeOK
    <3>4. SupervisorHasConn' /\ OneConnection' /\ CloseFinds' /\ CloseCloses'
      BY <1>6, <2>2 DEF Install, ClientTypeOK, SupervisorHasConn, OneConnection, CloseFinds, CloseCloses
    <3>5. ReadyChannelSound'
      BY <1>6, <2>2, <3>1, <3>2 DEF Install, ReadyChannelSound
    <3> QED
      BY <3>3, <3>4, <3>5
  <2> QED
    BY <2>1, <2>2
<1> QED
  BY <1>1, <1>2, <1>3, <1>4, <1>5, <1>6 DEF Supervise

\* The steps of Close keep the invariant.
LEMMA ClientCloseInv == ASSUME ClientInv, CloseMarks \/ Close PROVE ClientInv'
<1> USE DEF ClientInv, clientVars, supVars, netVars, chanVars, closeVars, callerVars
<1>1. CASE CloseMarks
  BY <1>1 DEF CloseMarks, ClientTypeOK, SupervisorHasConn, OneConnection, CloseFinds, CloseCloses, ReadyChannelSound
<1>2. CASE CloseSignals
  BY <1>2 DEF CloseSignals, ClientTypeOK, SupervisorHasConn, OneConnection, CloseFinds, CloseCloses, ReadyChannelSound
<1>3. CASE CloseConnection
  BY <1>3 DEF CloseConnection, ClientTypeOK, SupervisorHasConn, OneConnection, CloseFinds, CloseCloses, ReadyChannelSound
<1>4. CASE CloseEnds
  BY <1>4 DEF CloseEnds, ClientTypeOK, SupervisorHasConn, OneConnection, CloseFinds, CloseCloses, ReadyChannelSound
<1> QED
  BY <1>1, <1>2, <1>3, <1>4 DEF Close

\* The steps of a caller keep the invariant.
LEMMA CallerInv ==
    ASSUME ClientInv, NEW w \in Callers, Call(w) \/ Look(w) \/ Wake(w) \/ Cancel(w)
    PROVE  ClientInv'
<1> USE DEF ClientInv, clientVars, supVars, netVars, chanVars, closeVars, callerVars
<1>1. UNCHANGED <<clientVars, supVars, netVars, chanVars, closeVars>>
  BY DEF Call, Look, Wake, Cancel
<1>2. caller' \in [Callers -> {"idle", "looking", "waiting", "got", "failed"}]
  BY DEF ClientTypeOK, Call, Look, Wake, Cancel
<1>3. awaits' \in [Callers -> Nat]
  BY DEF ClientTypeOK, Call, Look, Wake, Cancel
<1>4. ClientTypeOK' /\ SupervisorHasConn' /\ OneConnection' /\ CloseFinds' /\ CloseCloses'
  BY <1>1, <1>2, <1>3 DEF ClientTypeOK, SupervisorHasConn, OneConnection, CloseFinds, CloseCloses
<1>5. ASSUME NEW v \in Callers, caller'[v] = "waiting"
      PROVE  awaits'[v] = readyCh \/ awaits'[v] \in readied
  <2>1. CASE v # w
    BY <1>5, <2>1 DEF ClientTypeOK, ReadyChannelSound, Call, Look, Wake, Cancel
  <2>2. CASE v = w
    BY <1>5, <2>2 DEF ClientTypeOK, Call, Look, Wake, Cancel
  <2> QED
    BY <2>1, <2>2
<1>6. ReadyChannelSound'
  BY <1>1, <1>5 DEF ReadyChannelSound
<1> QED
  BY <1>4, <1>6

\* A lost connection keeps the invariant.
LEMMA LossInv == ASSUME ClientInv, NEW n \in 1..MaxDials, LoseConnection(n) PROVE ClientInv'
BY DEF ClientInv, LoseConnection, ClientTypeOK, SupervisorHasConn, OneConnection, CloseFinds, CloseCloses,
       ReadyChannelSound, clientVars, supVars, chanVars, closeVars, callerVars

\* The invariant that carries the properties below: it ties the client's
\* connection and Close to where the supervisor is.
THEOREM ClientInvariance == ClientSpec => []ClientInv
<1>1. ClientInv /\ [ClientNext]_rabbitVars => ClientInv'
  <2> SUFFICES ASSUME ClientInv, [ClientNext]_rabbitVars PROVE ClientInv'
    OBVIOUS
  <2>1. CASE UNCHANGED rabbitVars
    BY <2>1 DEF rabbitVars, clientVars, supVars, netVars, chanVars, closeVars, callerVars, ClientInv, ClientTypeOK,
                SupervisorHasConn, OneConnection, CloseFinds, CloseCloses, ReadyChannelSound
  <2> QED
    BY <2>1, SuperviseInv, ClientCloseInv, CallerInv, LossInv DEF ClientNext
<1> QED
  BY <1>1, ClientInitInv, PTL DEF ClientSpec

\* The fields of the client keep their types.
THEOREM ClientTypeCorrect == ClientSpec => []ClientTypeOK
<1>1. ClientInv => ClientTypeOK
  BY DEF ClientInv
<1> QED
  BY <1>1, ClientInvariance, PTL

\* Nobody waits for a ready channel that clearConnection forgot, and
\* installConnection never closes one twice.
THEOREM ReadyChannels == ClientSpec => []ReadyChannelSound
<1>1. ClientInv => ReadyChannelSound
  BY DEF ClientInv
<1> QED
  BY <1>1, ClientInvariance, PTL

\* When Close returns, no connection is open, whatever recovery it interrupted.
THEOREM NoLeaks == ClientSpec => []NoLeakedConnection
<1>1. ClientInv => NoLeakedConnection
  BY DEF ClientInv, CloseCloses, NoLeakedConnection
<1> QED
  BY <1>1, ClientInvariance, PTL

=============================================================================

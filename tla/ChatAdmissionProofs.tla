------------------------- MODULE ChatAdmissionProofs -------------------------
(***************************************************************************)
(* Proofs about ChatAdmission for every number of requests and users, every *)
(* burst and rate, and any number of faults and steps back of the clock.   *)
(***************************************************************************)
EXTENDS ChatAdmission, FiniteSetTheorems, TLAPS

\* What was granted from a bucket since its i-th grant, in parts of tokens.
SpentSince(b, i) == Cost * Paid(b, i, Len(grants))

\* A bucket that Redis holds is within its capacity and expires a Ttl after its last
\* use.
BucketsOK ==
    /\ bucket \in [Buckets -> [tokens : Nat, updated : Nat, expires : Nat] \cup {None}]
    /\ \A b \in Buckets : bucket[b] # None =>
          /\ bucket[b].tokens <= Cap(b)
          /\ bucket[b].updated <= MaxTime
          /\ bucket[b].expires = bucket[b].updated + Ttl(b)

\* What was granted since any grant, with what is left in the bucket and what has come
\* in since it was written, is covered by the capacity and the time that passed.  A
\* bucket that Redis forgot was full again: the time alone covers it.
Covered(b) ==
    \A i \in Charged(b) :
        /\ bucket[b] # None =>
              SpentSince(b, i) + bucket[b].tokens + Rate(b) * AtLeast0(now - bucket[b].updated)
                 <= Cap(b) + Rate(b) * (passed - grants[i].passed)
        /\ bucket[b] = None => SpentSince(b, i) <= Rate(b) * (passed - grants[i].passed)

\* While time goes forward, a stored level is the capacity, or what some grant and all
\* that came after it leave of it.
Tight(b) ==
    bucket[b] # None =>
        /\ bucket[b].updated <= now
        /\ \/ bucket[b].tokens = Cap(b)
           \/ \E i \in Charged(b) :
                 bucket[b].tokens + SpentSince(b, i)
                    = Cap(b) + Rate(b) * (bucket[b].updated - grants[i].passed)

\* Redis time is the time that passed until it steps back.
Clock ==
    /\ now <= passed
    /\ ~stepped => now = passed /\ \A i \in DOMAIN grants : grants[i].at = grants[i].passed

\* Where a request can be when its command, its publication and its answer are what
\* they are.
RequestInOrder(r) ==
    /\ pc[r] = "new" => command[r] = "unsent"
    /\ command[r] = "sent" => pc[r] = "waiting"
    /\ pc[r] = "publishing" => command[r] = "allowed"
    /\ pc[r] # "done" => r \notin queued \cup late
    /\ r \in queued \cup late => command[r] = "allowed" /\ ack[r] \in {"accepted", "unavailable"}
    /\ ack[r] = "accepted" => r \in queued

\* The requests of a user whose command was answered with a grant.
Granted(u) == {r \in Requests : User[r] = u /\ command[r] = "allowed"}

\* A grant is answered once: commands that ran twice or unseen only add grants.
GrantsCover == \A u \in Users : Cardinality(Granted(u)) <= Cardinality(Charged(u))

BucketInv ==
    /\ BucketsOK
    /\ Clock
    /\ \A b \in Buckets : Covered(b)
    /\ ~stepped => \A b \in Buckets : Tight(b)
    /\ RateBound

IndInv ==
    /\ TypeOK
    /\ BucketInv
    /\ \A r \in Requests : RequestInOrder(r)
    /\ GrantsCover

-----------------------------------------------------------------------------

\* Multiplication over sums and differences, and its monotonicity.
LEMMA Products ==
    /\ \A r, x, y \in Int : r * x \in Int /\ r * (x + y) = r * x + r * y /\ r * (x - y) = r * x - r * y
    /\ \A r \in Int : r * 0 = 0 /\ r * 1 = r
    /\ \A r \in Nat, x, y \in Int : x <= y => r * x <= r * y
    /\ \A r, x \in Nat : r * x \in Nat
<1>1. \A r, x, y \in Int : r * x \in Int /\ r * (x + y) = r * x + r * y /\ r * (x - y) = r * x - r * y
  OBVIOUS
<1>2. \A r \in Int : r * 0 = 0 /\ r * 1 = r
  OBVIOUS
<1>3. \A r, x \in Nat : r * x \in Nat
  OBVIOUS
<1>4. ASSUME NEW r \in Nat, NEW x \in Int, NEW y \in Int, x <= y
      PROVE  r * x <= r * y
  <2>1. y - x \in Nat
    BY <1>4
  <2>2. r * (y - x) \in Nat
    BY <1>3, <2>1
  <2>3. r * (y - x) = r * y - r * x /\ r * y \in Int /\ r * x \in Int
    BY <1>1
  <2> QED
    BY <2>2, <2>3
<1> QED
  BY <1>1, <1>2, <1>3, <1>4

\* Division rounds down.
LEMMA Quotients ==
    ASSUME NEW a \in Nat, NEW d \in Nat \ {0}
    PROVE  a \div d \in Nat /\ d * (a \div d) <= a /\ a < d * (a \div d) + d
OBVIOUS

\* A bucket holds at least one message, and a Ttl is long enough to fill it.
LEMMA BucketFacts ==
    ASSUME NEW b \in Buckets
    PROVE  /\ Cost \in Nat \ {0} /\ Cap(b) \in Nat /\ Cost <= Cap(b)
           /\ Rate(b) \in Nat \ {0}
           /\ Ttl(b) \in Nat /\ Cap(b) <= Rate(b) * Ttl(b)
<1>1. Cost \in Nat \ {0} /\ Rate(b) \in Nat \ {0} /\ MinTtl \in Nat
  BY ChatAdmissionAssumption DEF Rate
<1>2. Cap(b) \in Nat /\ Cost <= Cap(b)
  <2>1. PICK burst \in Nat \ {0} : Cap(b) = Cost * burst
    BY ChatAdmissionAssumption DEF Cap
  <2>2. Cost * burst \in Nat /\ Cost * 1 <= Cost * burst /\ Cost * 1 = Cost
    BY <1>1, Products
  <2> QED
    BY <2>1, <2>2
<1>3. PICK full \in Nat : /\ full = (2 * Cap(b) + Rate(b) - 1) \div Rate(b)
                          /\ 2 * Cap(b) + Rate(b) - 1 < Rate(b) * full + Rate(b)
  <2>1. 2 * Cap(b) + Rate(b) - 1 \in Nat
    BY <1>1, <1>2
  <2> QED
    BY <1>1, <2>1, Quotients
<1>4. Rate(b) * full \in Nat /\ Cap(b) <= Rate(b) * full
  <2>1. Rate(b) * full \in Nat
    BY <1>1, Products
  <2> QED
    BY <1>1, <1>2, <1>3, <2>1
<1>5. Ttl(b) = IF full < MinTtl THEN MinTtl ELSE full
  BY <1>3 DEF Ttl
<1>6. Ttl(b) \in Nat /\ full <= Ttl(b)
  BY <1>1, <1>5
<1>7. Rate(b) * full <= Rate(b) * Ttl(b) /\ Rate(b) * Ttl(b) \in Nat
  BY <1>1, <1>6, Products
<1> QED
  BY <1>1, <1>2, <1>4, <1>6, <1>7

\* What the script finds in a bucket.
LEMMA RefillFacts ==
    ASSUME BucketsOK, now \in Nat, NEW b \in Buckets
    PROVE  /\ Refill(b) \in Nat /\ Refill(b) <= Cap(b)
           /\ ~Present(b) => Refill(b) = Cap(b)
           /\ bucket[b] # None =>
                 /\ bucket[b].tokens \in Nat /\ bucket[b].updated \in Nat
                 /\ bucket[b].expires = bucket[b].updated + Ttl(b)
                 /\ bucket[b].tokens <= Cap(b)
                 /\ Rate(b) * AtLeast0(now - bucket[b].updated) \in Nat
           /\ Present(b) =>
                 LET full == bucket[b].tokens + Rate(b) * AtLeast0(now - bucket[b].updated)
                 IN  Refill(b) = IF full > Cap(b) THEN Cap(b) ELSE full
<1>1. Cap(b) \in Nat /\ Rate(b) \in Nat
  BY BucketFacts
<1>2. ASSUME bucket[b] # None
      PROVE  /\ bucket[b].tokens \in Nat /\ bucket[b].updated \in Nat
             /\ bucket[b].expires = bucket[b].updated + Ttl(b)
             /\ bucket[b].tokens <= Cap(b)
             /\ Rate(b) * AtLeast0(now - bucket[b].updated) \in Nat
             /\ AtLeast0(now - bucket[b].updated) * Rate(b)
                   = Rate(b) * AtLeast0(now - bucket[b].updated)
  <2>1. bucket[b] \in [tokens : Nat, updated : Nat, expires : Nat]
    BY <1>2 DEF BucketsOK
  <2>2. AtLeast0(now - bucket[b].updated) \in Nat
    BY <2>1 DEF AtLeast0
  <2>3. \A x, y \in Nat : x * y = y * x /\ x * y \in Nat
    BY Products
  <2> QED
    BY <1>1, <1>2, <2>1, <2>2, <2>3 DEF BucketsOK
<1>3. Present(b) => bucket[b] # None
  BY DEF Present
<1> QED
  BY <1>1, <1>2, <1>3 DEF Refill, AtMost

\* A grant is a record of its sequence.
LEMMA GrantSeq ==
    ASSUME TypeOK
    PROVE  /\ Len(grants) \in Nat /\ DOMAIN grants = 1..Len(grants)
           /\ now \in Nat /\ passed \in Nat /\ now <= MaxTime /\ passed <= MaxTime /\ MaxTime \in Nat
           /\ \A i \in DOMAIN grants :
                 /\ i \in Nat
                 /\ grants[i].user \in Users /\ grants[i].at \in Nat /\ grants[i].passed \in Nat
<1> DEFINE G == [user : Users, at : 0..MaxTime, passed : 0..MaxTime]
<1>1. grants \in Seq(G) /\ now \in 0..MaxTime /\ passed \in 0..MaxTime
  BY DEF TypeOK
<1>2. Len(grants) \in Nat /\ DOMAIN grants = 1..Len(grants) /\ \A i \in DOMAIN grants : grants[i] \in G
  <2> HIDE DEF G
  <2> QED
    BY <1>1
<1>3. MaxTime \in Nat
  BY ChatAdmissionAssumption
<1> QED
  BY <1>1, <1>2, <1>3

\* The numbers of grants are numbers.
LEMMA PaidFacts ==
    ASSUME TypeOK, NEW b \in Buckets
    PROVE  /\ Charged(b) \subseteq DOMAIN grants /\ IsFiniteSet(Charged(b))
           /\ \A i, j \in Nat : /\ IsFiniteSet({k \in Charged(b) : i <= k /\ k <= j})
                                /\ Paid(b, i, j) \in Nat
           /\ \A i \in Charged(b) : SpentSince(b, i) \in Nat
<1>1. Charged(b) \subseteq DOMAIN grants
  BY DEF Charged
<1>2. IsFiniteSet(Charged(b))
  <2>1. DOMAIN grants = 1..Len(grants) /\ Len(grants) \in Nat
    BY GrantSeq
  <2>2. IsFiniteSet(1..Len(grants))
    BY <2>1, FS_Interval
  <2> QED
    BY <1>1, <2>1, <2>2, FS_Subset
<1>3. ASSUME NEW i \in Nat, NEW j \in Nat
      PROVE  /\ IsFiniteSet({k \in Charged(b) : i <= k /\ k <= j})
             /\ Paid(b, i, j) \in Nat
  <2>1. IsFiniteSet({k \in Charged(b) : i <= k /\ k <= j})
    BY <1>2, FS_Subset
  <2> QED
    BY <2>1, FS_CardinalityType DEF Paid
<1>4. ASSUME NEW i \in Charged(b) PROVE SpentSince(b, i) \in Nat
  <2>1. i \in Nat /\ Len(grants) \in Nat
    BY <1>1, GrantSeq
  <2>2. Paid(b, i, Len(grants)) \in Nat /\ Cost \in Nat
    BY <1>3, <2>1, BucketFacts
  <2> QED
    BY <2>2, Products DEF SpentSince
<1> QED
  BY <1>1, <1>2, <1>3, <1>4

\* What one grant more changes: it is charged to the user and to the room.
LEMMA GrantAdded ==
    ASSUME TypeOK, NEW u \in Users, NEW n, n = Len(grants), NEW g,
           g = [user |-> u, at |-> now, passed |-> passed], grants' = Append(grants, g)
    PROVE  /\ n \in Nat /\ Len(grants') = n + 1
           /\ DOMAIN grants = 1..n /\ DOMAIN grants' = 1..(n + 1)
           /\ \A i \in 1..n : grants'[i] = grants[i]
           /\ grants'[n + 1] = g
           /\ \A b \in {u, Room} : Charged(b)' = Charged(b) \cup {n + 1}
           /\ \A b \in Buckets \ {u, Room} : Charged(b)' = Charged(b)
           /\ \A b \in Buckets, i, j \in 1..n : Paid(b, i, j)' = Paid(b, i, j)
           /\ \A b \in {u, Room} : \A i \in Charged(b) :
                 SpentSince(b, i)' = SpentSince(b, i) + Cost
           /\ \A b \in {u, Room} :
                 Paid(b, n + 1, n + 1)' = 1 /\ SpentSince(b, n + 1)' = Cost
           /\ \A b \in Buckets \ {u, Room} : \A i \in Charged(b) :
                 SpentSince(b, i)' = SpentSince(b, i)
<1>1. n \in Nat /\ DOMAIN grants = 1..n
  BY GrantSeq
<1>3. /\ Len(grants') = n + 1 /\ DOMAIN grants' = 1..(n + 1)
      /\ \A i \in 1..n : grants'[i] = grants[i]
      /\ grants'[n + 1] = g
  <2>1. grants \in Seq([user : Users, at : 0..MaxTime, passed : 0..MaxTime])
    BY DEF TypeOK
  <2>2. g \in [user : Users, at : 0..MaxTime, passed : 0..MaxTime]
    BY DEF TypeOK
  <2> QED
    BY <1>1, <2>1, <2>2
<1>4. g.user = u
  OBVIOUS
<1>5. 1..(n + 1) = 1..n \cup {n + 1} /\ n + 1 \notin 1..n
  BY <1>1
<1>6. \A b \in {u, Room} : Charged(b)' = Charged(b) \cup {n + 1}
  BY <1>1, <1>3, <1>4, <1>5 DEF Charged
<1>7. \A b \in Buckets \ {u, Room} : Charged(b)' = Charged(b)
  BY <1>1, <1>3, <1>4, <1>5 DEF Charged
<1>8. u \in Buckets /\ Room \in Buckets /\ Cost \in Nat
  BY ChatAdmissionAssumption DEF Buckets
<1>9. \A b \in Buckets : Charged(b) \subseteq 1..n
  BY <1>1, PaidFacts
<1>10. ASSUME NEW b \in Buckets, NEW i \in 1..n, NEW j \in 1..n
       PROVE  Paid(b, i, j)' = Paid(b, i, j)
  <2>1. {k \in Charged(b)' : i <= k /\ k <= j} = {k \in Charged(b) : i <= k /\ k <= j}
    BY <1>6, <1>7, <1>5
  <2> QED
    BY <2>1 DEF Paid
<1>11. ASSUME NEW b \in {u, Room}, NEW i \in Charged(b)
       PROVE  SpentSince(b, i)' = SpentSince(b, i) + Cost
  <2>1. PICK S : S = {k \in Charged(b) : i <= k /\ k <= n}
    OBVIOUS
  <2>2. {k \in Charged(b)' : i <= k /\ k <= n + 1} = S \cup {n + 1}
    BY <1>6, <1>8, <1>9, <2>1
  <2>3. IsFiniteSet(S) /\ Cardinality(S) \in Nat /\ n + 1 \notin S
    <3>1. i \in Nat /\ b \in Buckets
      BY <1>8, <1>9
    <3>2. IsFiniteSet(S)
      BY <1>1, <2>1, <3>1, PaidFacts
    <3>3. n + 1 \notin S
      BY <1>1, <2>1
    <3> QED
      BY <3>2, <3>3, FS_CardinalityType
  <2>4. Cardinality(S \cup {n + 1}) = Cardinality(S) + 1
    BY <2>3, FS_AddElement
  <2>5. SpentSince(b, i)' = Cost * (Cardinality(S) + 1) /\ SpentSince(b, i) = Cost * Cardinality(S)
    BY <1>1, <1>3, <2>1, <2>2, <2>4 DEF SpentSince, Paid
  <2>6. Cost * (Cardinality(S) + 1) = Cost * Cardinality(S) + Cost
    BY <1>8, <2>3, Products
  <2> QED
    BY <2>5, <2>6
<1>12. ASSUME NEW b \in {u, Room}
       PROVE  Paid(b, n + 1, n + 1)' = 1 /\ SpentSince(b, n + 1)' = Cost
  <2>1. {k \in Charged(b)' : n + 1 <= k /\ k <= n + 1} = {n + 1}
    BY <1>6, <1>8, <1>9
  <2>2. Cardinality({n + 1}) = 1
    BY FS_Singleton
  <2>3. Paid(b, n + 1, n + 1)' = 1
    BY <2>1, <2>2 DEF Paid
  <2>4. SpentSince(b, n + 1)' = Cost * Paid(b, n + 1, n + 1)'
    BY <1>3 DEF SpentSince, Paid
  <2>5. Cost * 1 = Cost
    BY <1>8
  <2> QED
    BY <2>3, <2>4, <2>5
<1>13. ASSUME NEW b \in Buckets \ {u, Room}, NEW i \in Charged(b)
       PROVE  SpentSince(b, i)' = SpentSince(b, i)
  <2>1. {k \in Charged(b)' : i <= k /\ k <= n + 1} = {k \in Charged(b) : i <= k /\ k <= n}
    BY <1>7, <1>9
  <2> QED
    BY <1>1, <1>3, <2>1 DEF SpentSince, Paid
<1> QED
  BY <1>1, <1>3, <1>6, <1>7, <1>10, <1>11, <1>12, <1>13

\* The invariant speaks of the stored level; the same holds of the level the script
\* finds, also in a bucket whose key has expired or is gone.
LEMMA RefillCovered ==
    ASSUME TypeOK, BucketsOK, NEW b \in Buckets, Covered(b), NEW i \in Charged(b)
    PROVE  SpentSince(b, i) + Refill(b) <= Cap(b) + Rate(b) * (passed - grants[i].passed)
<1>1. /\ now \in Nat /\ passed \in Nat /\ grants[i].passed \in Nat
      /\ SpentSince(b, i) \in Nat
  BY GrantSeq, PaidFacts
<1>2. Cap(b) \in Nat /\ Rate(b) \in Nat /\ Ttl(b) \in Nat /\ Cap(b) <= Rate(b) * Ttl(b)
  BY BucketFacts
<1>3. PICK e \in Int : e = Rate(b) * (passed - grants[i].passed)
  BY <1>1, <1>2, Products
<1>4. CASE bucket[b] = None
  <2>1. Refill(b) = Cap(b) /\ SpentSince(b, i) <= e
    BY <1>1, <1>3, <1>4, RefillFacts DEF Covered, Present
  <2> QED
    BY <1>1, <1>2, <1>3, <2>1
<1>5. CASE bucket[b] # None
  <2>1. PICK t \in Nat, w \in Nat, z \in Nat :
          /\ t = bucket[b].tokens /\ w = bucket[b].updated
          /\ z = Rate(b) * AtLeast0(now - bucket[b].updated)
    BY <1>1, <1>5, RefillFacts
  <2>2. SpentSince(b, i) + t + z <= Cap(b) + e
    BY <1>3, <1>5, <2>1 DEF Covered
  <2>3. CASE Present(b)
    <3>1. Refill(b) <= t + z /\ Refill(b) \in Nat
      BY <1>1, <1>2, <2>1, <2>3, RefillFacts
    <3> QED
      BY <1>1, <1>2, <1>3, <2>2, <3>1
  <2>4. CASE ~Present(b)
    <3>1. Refill(b) = Cap(b) /\ now >= w + Ttl(b)
      <4>1. Refill(b) = Cap(b) /\ bucket[b].expires = w + Ttl(b)
        BY <1>1, <1>5, <2>1, <2>4, RefillFacts
      <4> QED
        BY <1>1, <1>2, <1>5, <2>4, <4>1 DEF Present
    <3>2. AtLeast0(now - w) \in Nat /\ Ttl(b) <= AtLeast0(now - w)
      BY <1>1, <1>2, <3>1 DEF AtLeast0
    <3>3. Rate(b) * Ttl(b) <= z /\ Rate(b) * Ttl(b) \in Nat
      BY <1>2, <2>1, <3>2, Products
    <3> QED
      BY <1>1, <1>2, <1>3, <2>2, <3>1, <3>3
  <2> QED
    BY <2>3, <2>4
<1> QED
  BY <1>4, <1>5

\* The same for the level being the smallest that the grants leave.
LEMMA RefillTight ==
    ASSUME TypeOK, BucketsOK, NEW b \in Buckets, Tight(b), Refill(b) # Cap(b)
    PROVE  \E i \in Charged(b) :
              Refill(b) + SpentSince(b, i) = Cap(b) + Rate(b) * (now - grants[i].passed)
<1>1. now \in Nat /\ Cap(b) \in Nat /\ Rate(b) \in Nat
  BY GrantSeq, BucketFacts
<1>2. Present(b) /\ bucket[b] # None
  BY <1>1, RefillFacts DEF Present
<1>3. PICK t \in Nat, w \in Nat :
        t = bucket[b].tokens /\ w = bucket[b].updated /\ w <= now /\ t <= Cap(b)
  BY <1>1, <1>2, RefillFacts DEF Tight
<1>4. AtLeast0(now - w) = now - w /\ now - w \in Nat
  BY <1>1, <1>3 DEF AtLeast0
<1>5. Refill(b) = t + Rate(b) * (now - w) /\ Rate(b) * (now - w) \in Nat
  <2>1. Rate(b) * (now - w) \in Nat
    BY <1>1, <1>4, Products
  <2>2. Refill(b) = IF t + Rate(b) * (now - w) > Cap(b) THEN Cap(b) ELSE t + Rate(b) * (now - w)
    BY <1>1, <1>2, <1>3, <1>4, RefillFacts
  <2> QED
    BY <2>1, <2>2
<1>6. t # Cap(b)
  BY <1>1, <1>3, <1>5, RefillFacts
<1>7. PICK i \in Charged(b) : t + SpentSince(b, i) = Cap(b) + Rate(b) * (w - grants[i].passed)
  BY <1>2, <1>3, <1>6 DEF Tight
<1>8. SpentSince(b, i) \in Nat /\ grants[i].passed \in Nat
  BY GrantSeq, PaidFacts
<1>9. PICK x \in Int, y \in Int : x = now - w /\ y = w - grants[i].passed /\ now - grants[i].passed = x + y
  BY <1>1, <1>3, <1>8
<1>10. Rate(b) * (x + y) = Rate(b) * x + Rate(b) * y /\ Rate(b) * x \in Int /\ Rate(b) * y \in Int
  BY <1>1, Products
<1>11. t + Rate(b) * x + SpentSince(b, i) = Cap(b) + Rate(b) * (x + y)
  <2>1. PICK c \in Int, d \in Int, e \in Int :
          c = Rate(b) * x /\ d = Rate(b) * y /\ e = Rate(b) * (x + y) /\ e = c + d
    BY <1>10
  <2>2. t + SpentSince(b, i) = Cap(b) + d
    BY <1>7, <1>9, <2>1
  <2>3. t + c + SpentSince(b, i) = Cap(b) + e
    BY <1>1, <1>8, <2>1, <2>2
  <2> QED
    BY <2>1, <2>3
<1> QED
  BY <1>5, <1>9, <1>11

\* What the script takes for a message.
Price(u) == IF Allowed(u) THEN Cost ELSE 0

\* What a run of the script changes: both buckets are refilled and pay alike, and the
\* others stay as they are.
LEMMA ScriptFacts ==
    ASSUME TypeOK, BucketsOK, NEW u \in Users, RunScript(u)
    PROVE  /\ UNCHANGED <<now, passed, stepped>>
           /\ DOMAIN bucket' = Buckets
           /\ Price(u) \in Nat
           /\ \A i \in DOMAIN grants : i \in DOMAIN grants' /\ grants'[i] = grants[i]
           /\ \A b \in Buckets, i, j \in DOMAIN grants : Paid(b, i, j)' = Paid(b, i, j)
           /\ \A b \in Buckets \ {u, Room} :
                 /\ bucket'[b] = bucket[b] /\ Charged(b)' = Charged(b)
                 /\ \A i \in Charged(b) : SpentSince(b, i)' = SpentSince(b, i)
           /\ \A b \in {u, Room} :
                 /\ Refill(b) - Price(u) \in Nat
                 /\ bucket'[b] = [tokens |-> Refill(b) - Price(u), updated |-> now,
                                  expires |-> now + Ttl(b)]
                 /\ Charged(b) \subseteq Charged(b)'
                 /\ \A i \in Charged(b) : SpentSince(b, i)' = SpentSince(b, i) + Price(u)
                 /\ \A i \in Charged(b)' \ Charged(b) :
                       /\ Allowed(u) /\ i \in Nat /\ \A j \in DOMAIN grants : j < i
                       /\ grants'[i] = [user |-> u, at |-> now, passed |-> passed]
                       /\ i = Len(grants')
                       /\ SpentSince(b, i)' = Cost
           /\ Allowed(u) =>
                 /\ \A b \in {u, Room} : \E i \in Charged(b)' : i \notin Charged(b)
                 /\ grants' = Append(grants, [user |-> u, at |-> now, passed |-> passed])
           /\ ~Allowed(u) => grants' = grants
<1>0. /\ u \in Buckets /\ Room \in Buckets /\ Cost \in Nat /\ now \in Nat
      /\ Len(grants) \in Nat /\ DOMAIN grants = 1..Len(grants)
  BY ChatAdmissionAssumption, GrantSeq DEF Buckets
<1>1. /\ UNCHANGED <<now, passed, stepped>>
      /\ DOMAIN bucket' = Buckets
      /\ \A b \in Buckets \ {u, Room} : bucket'[b] = bucket[b]
      /\ \A b \in {u, Room} : bucket'[b] = Stored(b, u)
  BY <1>0 DEF RunScript
<1>2. Price(u) \in Nat
  BY <1>0 DEF Price
<1>3. ASSUME NEW b \in {u, Room}
      PROVE  /\ Refill(b) - Price(u) \in Nat
             /\ bucket'[b] = [tokens |-> Refill(b) - Price(u), updated |-> now,
                              expires |-> now + Ttl(b)]
  <2>1. Refill(b) \in Nat
    BY <1>0, RefillFacts
  <2>2. Allowed(u) => Refill(b) >= Cost
    BY <1>3 DEF Allowed
  <2>3. Stored(b, u).tokens = Refill(b) - Price(u)
    BY <2>1 DEF Stored, Price
  <2>4. Stored(b, u) = [tokens |-> Refill(b) - Price(u), updated |-> now, expires |-> now + Ttl(b)]
    BY <2>1 DEF Stored, Price
  <2> QED
    BY <1>0, <1>1, <2>1, <2>2, <2>4 DEF Price
<1>4. CASE Allowed(u)
  <2>1. PICK n, g : n = Len(grants) /\ g = [user |-> u, at |-> now, passed |-> passed]
    OBVIOUS
  <2>2. grants' = Append(grants, g)
    BY <1>4, <2>1 DEF RunScript
  <2>3. Price(u) = Cost
    BY <1>4 DEF Price
  <2>4. /\ n \in Nat /\ Len(grants') = n + 1
        /\ DOMAIN grants = 1..n /\ DOMAIN grants' = 1..(n + 1)
        /\ \A i \in 1..n : grants'[i] = grants[i]
        /\ grants'[n + 1] = g
        /\ \A b \in {u, Room} : Charged(b)' = Charged(b) \cup {n + 1}
        /\ \A b \in Buckets \ {u, Room} : Charged(b)' = Charged(b)
        /\ \A b \in Buckets, i, j \in 1..n : Paid(b, i, j)' = Paid(b, i, j)
        /\ \A b \in {u, Room} : \A i \in Charged(b) :
              SpentSince(b, i)' = SpentSince(b, i) + Cost
        /\ \A b \in {u, Room} : SpentSince(b, n + 1)' = Cost
        /\ \A b \in Buckets \ {u, Room} : \A i \in Charged(b) :
              SpentSince(b, i)' = SpentSince(b, i)
    BY <2>1, <2>2, GrantAdded
  <2>5. \A b \in {u, Room} : n + 1 \notin Charged(b)
    BY <2>4 DEF Charged
  <2>6. \A i \in DOMAIN grants : i \in DOMAIN grants' /\ grants'[i] = grants[i]
    BY <2>4
  <2>7. ASSUME NEW b \in {u, Room}
        PROVE  /\ Charged(b) \subseteq Charged(b)'
               /\ \A i \in Charged(b) : SpentSince(b, i)' = SpentSince(b, i) + Price(u)
               /\ \A i \in Charged(b)' \ Charged(b) :
                     /\ Allowed(u) /\ i \in Nat /\ \A j \in DOMAIN grants : j < i
                     /\ grants'[i] = [user |-> u, at |-> now, passed |-> passed]
                     /\ i = Len(grants')
                     /\ SpentSince(b, i)' = Cost
               /\ \E i \in Charged(b)' : i \notin Charged(b)
    <3>1. \A i \in Charged(b)' \ Charged(b) : i = n + 1
      BY <2>4
    <3>2. n + 1 \in Nat /\ \A j \in DOMAIN grants : j < n + 1
      BY <2>4
    <3> QED
      BY <1>4, <2>1, <2>3, <2>4, <2>5, <3>1, <3>2
  <2> QED
    BY <1>1, <1>2, <1>3, <1>4, <2>1, <2>2, <2>4, <2>6, <2>7
<1>5. CASE ~Allowed(u)
  <2>1. grants' = grants /\ Price(u) = 0
    BY <1>5 DEF RunScript, Price
  <2>2. \A b \in Buckets : Charged(b)' = Charged(b) /\ \A i, j \in Nat : Paid(b, i, j)' = Paid(b, i, j)
    BY <2>1 DEF Charged, Paid
  <2>3. \A b \in Buckets : \A i \in Charged(b) : SpentSince(b, i)' = SpentSince(b, i)
    BY <2>1 DEF SpentSince, Paid, Charged
  <2>4. \A b \in Buckets : \A i \in Charged(b) : SpentSince(b, i) \in Nat
    BY PaidFacts
  <2>5. ASSUME NEW b \in {u, Room}
        PROVE  /\ Charged(b)' = Charged(b)
               /\ \A i \in Charged(b) : SpentSince(b, i)' = SpentSince(b, i) + Price(u)
    BY <1>0, <2>1, <2>2, <2>3, <2>4
  <2>6. \A i \in DOMAIN grants : i \in DOMAIN grants' /\ grants'[i] = grants[i]
    BY <2>1
  <2>7. \A b \in Buckets, i, j \in DOMAIN grants : Paid(b, i, j)' = Paid(b, i, j)
    BY <1>0, <2>2
  <2>8. ASSUME NEW b \in Buckets \ {u, Room}
        PROVE  /\ bucket'[b] = bucket[b] /\ Charged(b)' = Charged(b)
               /\ \A i \in Charged(b) : SpentSince(b, i)' = SpentSince(b, i)
    BY <1>1, <2>2, <2>3
  <2>9. ASSUME NEW b \in {u, Room}
        PROVE  Charged(b) \subseteq Charged(b)' /\ Charged(b)' \ Charged(b) = {}
    BY <2>5
  <2> QED
    BY <1>1, <1>2, <1>3, <1>5, <2>1, <2>5, <2>6, <2>7, <2>8, <2>9
<1> QED
  BY <1>4, <1>5

\* The script keeps what the invariant says of both buckets.
LEMMA ScriptKeeps ==
    ASSUME TypeOK, BucketInv, NEW u \in Users, RunScript(u)
    PROVE  BucketInv'
<1>0. /\ BucketsOK /\ Clock /\ RateBound
      /\ \A b \in Buckets : Covered(b)
      /\ ~stepped => \A b \in Buckets : Tight(b)
  BY DEF BucketInv
<1>1. /\ u \in Buckets /\ Room \in Buckets /\ now \in Nat /\ passed \in Nat
      /\ now <= MaxTime
      /\ \A i \in DOMAIN grants : i \in Nat /\ grants[i].passed \in Nat
  BY GrantSeq DEF Buckets
<1>2. UNCHANGED <<now, passed, stepped>> /\ Price(u) \in Nat
  BY <1>0, ScriptFacts
<1>3. \A i \in DOMAIN grants : i \in DOMAIN grants' /\ grants'[i] = grants[i]
  BY <1>0, ScriptFacts
<1>4. ASSUME NEW b \in Buckets \ {u, Room}
      PROVE  /\ bucket'[b] = bucket[b] /\ Charged(b)' = Charged(b)
             /\ \A i \in Charged(b) : SpentSince(b, i)' = SpentSince(b, i)
  BY <1>0, <1>4, ScriptFacts
<1>5. ASSUME NEW b \in {u, Room}
      PROVE  /\ b \in Buckets
             /\ Refill(b) - Price(u) \in Nat /\ Refill(b) \in Nat /\ Refill(b) <= Cap(b)
             /\ bucket'[b] = [tokens |-> Refill(b) - Price(u), updated |-> now,
                              expires |-> now + Ttl(b)]
             /\ bucket'[b] \in [tokens : Nat, updated : Nat, expires : Nat]
             /\ bucket'[b] # None
             /\ bucket'[b].tokens = Refill(b) - Price(u) /\ bucket'[b].updated = now
             /\ bucket'[b].expires = now + Ttl(b)
  <2>1. b \in Buckets
    BY <1>1, <1>5
  <2>2. /\ Refill(b) - Price(u) \in Nat
        /\ bucket'[b] = [tokens |-> Refill(b) - Price(u), updated |-> now,
                         expires |-> now + Ttl(b)]
    BY <1>0, <1>5, ScriptFacts
  <2>3. Refill(b) \in Nat /\ Refill(b) <= Cap(b) /\ Ttl(b) \in Nat
    BY <1>0, <1>1, <2>1, RefillFacts, BucketFacts
  <2>4. bucket'[b] \in [tokens : Nat, updated : Nat, expires : Nat]
    BY <1>1, <2>2, <2>3
  <2> QED
    BY <2>1, <2>2, <2>3, <2>4, ChatAdmissionAssumption
<1>6. ASSUME NEW b \in {u, Room}
      PROVE  /\ Charged(b) \subseteq Charged(b)'
             /\ \A i \in Charged(b) : SpentSince(b, i)' = SpentSince(b, i) + Price(u)
             /\ \A i \in Charged(b)' \ Charged(b) :
                   /\ Allowed(u) /\ i \in Nat /\ \A j \in DOMAIN grants : j < i
                   /\ grants'[i] = [user |-> u, at |-> now, passed |-> passed]
                   /\ i = Len(grants')
                   /\ SpentSince(b, i)' = Cost
             /\ Allowed(u) => \E i \in Charged(b)' : i \notin Charged(b)
  BY <1>0, <1>6, ScriptFacts
<1>7. BucketsOK'
  <2>1. bucket' = [b \in Buckets |-> IF b \in {u, Room} THEN Stored(b, u) ELSE bucket[b]]
    BY DEF RunScript
  <2>2. \A b \in Buckets : bucket'[b] \in [tokens : Nat, updated : Nat, expires : Nat] \cup {None}
    BY <1>0, <1>4, <1>5 DEF BucketsOK
  <2>3. bucket' \in [Buckets -> [tokens : Nat, updated : Nat, expires : Nat] \cup {None}]
    BY <2>1, <2>2
  <2>4. ASSUME NEW b \in Buckets, bucket'[b] # None
        PROVE  /\ bucket'[b].tokens <= Cap(b)
               /\ bucket'[b].updated <= MaxTime
               /\ bucket'[b].expires = bucket'[b].updated + Ttl(b)
    <3>1. CASE b \in {u, Room}
      <4>1. Cap(b) \in Nat /\ Refill(b) - Price(u) <= Cap(b)
        BY <1>2, <1>5, <3>1, BucketFacts
      <4> QED
        BY <1>1, <1>5, <3>1, <4>1
    <3>2. CASE b \notin {u, Room}
      BY <1>0, <1>4, <2>4, <3>2 DEF BucketsOK
    <3> QED
      BY <3>1, <3>2
  <2> QED
    BY <2>3, <2>4 DEF BucketsOK, Cap, Ttl, Rate
<1>8. Clock'
  <2>1. ASSUME ~stepped, NEW i \in DOMAIN grants'
        PROVE  grants'[i].at = grants'[i].passed
    <3>1. CASE i \in DOMAIN grants
      BY <1>0, <1>3, <2>1, <3>1 DEF Clock
    <3>2. CASE i \notin DOMAIN grants
      <4>1. i \in Charged(Room)' \ Charged(Room)
        BY <2>1, <3>2 DEF Charged
      <4>2. grants'[i] = [user |-> u, at |-> now, passed |-> passed]
        BY <1>6, <4>1
      <4> QED
        BY <1>0, <2>1, <4>2 DEF Clock
    <3> QED
      BY <3>1, <3>2
  <2> QED
    BY <1>0, <1>2, <2>1 DEF Clock
<1>9. ASSUME NEW b \in {u, Room}, NEW i \in Charged(b)'
      PROVE  /\ SpentSince(b, i)' + (Refill(b) - Price(u))
                   <= Cap(b) + Rate(b) * (passed - grants'[i].passed)
             /\ SpentSince(b, i)' \in Nat /\ passed - grants'[i].passed \in Int
  <2>0. b \in Buckets /\ Cap(b) \in Nat /\ Rate(b) \in Nat /\ Cost \in Nat
    BY <1>5, BucketFacts
  <2>1. CASE i \in Charged(b)
    <3>1. /\ SpentSince(b, i) \in Nat /\ i \in DOMAIN grants /\ grants'[i] = grants[i]
          /\ grants[i].passed \in Nat
      BY <1>1, <1>3, <2>0, <2>1, PaidFacts
    <3>2. SpentSince(b, i) + Refill(b) <= Cap(b) + Rate(b) * (passed - grants[i].passed)
      BY <1>0, <2>0, <2>1, RefillCovered
    <3>3. SpentSince(b, i)' = SpentSince(b, i) + Price(u)
      BY <1>6, <2>1
    <3>4. SpentSince(b, i)' + (Refill(b) - Price(u)) = SpentSince(b, i) + Refill(b)
      BY <1>2, <1>5, <3>1, <3>3
    <3> QED
      BY <1>1, <1>2, <3>1, <3>2, <3>3, <3>4
  <2>2. CASE i \notin Charged(b)
    <3>1. SpentSince(b, i)' = Cost /\ Allowed(u) /\ grants'[i].passed = passed
      BY <1>6, <1>9, <2>2
    <3>2. Price(u) = Cost
      BY <3>1 DEF Price
    <3>3. passed - passed = 0 /\ Rate(b) * 0 = 0
      BY <1>1, <2>0
    <3> QED
      BY <1>1, <1>5, <2>0, <3>1, <3>2, <3>3
  <2> QED
    BY <2>1, <2>2
<1>10. ASSUME NEW b \in Buckets PROVE Covered(b)'
  <2>0. Rate(b)' = Rate(b) /\ Cap(b)' = Cap(b)
    BY DEF Rate, Cap
  <2>1. CASE b \in {u, Room}
    <3>1. AtLeast0(now - now) = 0 /\ Rate(b) * 0 = 0 /\ Rate(b) \in Nat
      BY <1>1, <1>10, BucketFacts DEF AtLeast0
    <3> SUFFICES ASSUME NEW i \in Charged(b)'
                 PROVE  SpentSince(b, i)' + bucket'[b].tokens + Rate(b) * AtLeast0(now' - bucket'[b].updated)
                           <= Cap(b) + Rate(b) * (passed' - grants'[i].passed)
      BY <1>5, <2>0, <2>1 DEF Covered
    <3>2. SpentSince(b, i)' + (Refill(b) - Price(u)) + 0
            <= Cap(b) + Rate(b) * (passed - grants'[i].passed)
      BY <1>5, <1>9, <2>1
    <3> QED
      BY <1>2, <1>5, <2>1, <3>1, <3>2
  <2>2. CASE b \notin {u, Room}
    <3>1. \A i \in Charged(b) : i \in DOMAIN grants
      BY DEF Charged
    <3> QED
      BY <1>0, <1>2, <1>3, <1>4, <2>0, <2>2, <3>1 DEF Covered
  <2> QED
    BY <2>1, <2>2
<1>11. ASSUME NEW b \in Buckets, ~stepped PROVE Tight(b)'
  <2>0. Rate(b)' = Rate(b) /\ Cap(b)' = Cap(b) /\ Cap(b) \in Nat /\ Rate(b) \in Nat /\ Cost \in Nat
    BY BucketFacts DEF Rate, Cap
  <2>1. CASE b \in {u, Room}
    <3>1. \/ Refill(b) - Price(u) = Cap(b)
          \/ \E i \in Charged(b)' :
                (Refill(b) - Price(u)) + SpentSince(b, i)'
                   = Cap(b) + Rate(b) * (now - grants'[i].passed)
      <4>1. CASE Refill(b) # Cap(b)
        <5>1. PICK i \in Charged(b) :
                Refill(b) + SpentSince(b, i) = Cap(b) + Rate(b) * (now - grants[i].passed)
          BY <1>0, <1>11, <4>1, RefillTight
        <5>2. /\ SpentSince(b, i) \in Nat /\ i \in Charged(b)' /\ grants'[i] = grants[i]
              /\ SpentSince(b, i)' = SpentSince(b, i) + Price(u)
          BY <1>3, <1>6, <2>1, PaidFacts
        <5>3. (Refill(b) - Price(u)) + SpentSince(b, i)' = Refill(b) + SpentSince(b, i)
          BY <1>2, <1>5, <2>1, <5>2
        <5> QED
          BY <5>1, <5>2, <5>3
      <4>2. CASE Refill(b) = Cap(b) /\ Allowed(u)
        <5>1. PICK i \in Charged(b)' : i \notin Charged(b)
          BY <1>6, <2>1, <4>2
        <5>2. SpentSince(b, i)' = Cost /\ grants'[i].passed = passed /\ Price(u) = Cost
          BY <1>6, <2>1, <4>2, <5>1 DEF Price
        <5>3. now - passed = 0 /\ Rate(b) * 0 = 0
          BY <1>0, <1>1, <1>11, <2>0 DEF Clock
        <5>4. (Refill(b) - Price(u)) + SpentSince(b, i)'
                = Cap(b) + Rate(b) * (now - grants'[i].passed)
          BY <2>0, <4>2, <5>2, <5>3
        <5> QED
          BY <5>4
      <4>3. CASE Refill(b) = Cap(b) /\ ~Allowed(u)
        BY <2>0, <4>3 DEF Price
      <4> QED
        BY <4>1, <4>2, <4>3
    <3>2. bucket'[b].tokens = Refill(b) - Price(u) /\ bucket'[b].updated = now /\ now' = now
      BY <1>2, <1>5, <2>1
    <3>3. bucket'[b].updated <= now'
      BY <1>1, <3>2
    <3> QED
      BY <2>0, <3>1, <3>2, <3>3 DEF Tight
  <2>2. CASE b \notin {u, Room}
    <3>1. \A i \in Charged(b) : i \in DOMAIN grants
      BY DEF Charged
    <3>2. Tight(b)
      BY <1>0, <1>11
    <3> QED
      BY <1>2, <1>3, <1>4, <2>0, <2>2, <3>1, <3>2 DEF Tight
  <2> QED
    BY <2>1, <2>2
<1>12. RateBound'
  <2> SUFFICES ASSUME NEW b \in Buckets, NEW i \in Charged(b)', NEW j \in Charged(b)', i <= j
               PROVE  Cost * Paid(b, i, j)' <= Cap(b) + Rate(b) * (grants'[j].passed - grants'[i].passed)
    BY DEF RateBound, Cap, Rate
  <2>1. Charged(b) \subseteq DOMAIN grants
    BY DEF Charged
  <2>2. CASE j \in Charged(b)
    <3>1. i \in Charged(b)
      <4>1. CASE b \in {u, Room}
        <5>1. i \notin Charged(b) => i \in Nat /\ j < i
          BY <1>6, <2>1, <2>2, <4>1
        <5> QED
          BY <1>1, <2>1, <2>2, <5>1
      <4>2. CASE b \notin {u, Room}
        BY <1>4, <4>2
      <4> QED
        BY <4>1, <4>2
    <3>2. Paid(b, i, j)' = Paid(b, i, j)
      BY <1>0, <2>1, <2>2, <3>1, ScriptFacts
    <3> QED
      BY <1>0, <1>3, <2>1, <2>2, <3>1, <3>2 DEF RateBound
  <2>3. CASE j \notin Charged(b)
    <3>1. b \in {u, Room}
      BY <1>4, <2>3
    <3>2. j = Len(grants') /\ grants'[j].passed = passed
      BY <1>6, <2>3, <3>1
    <3>3. Cost * Paid(b, i, j)' = SpentSince(b, i)'
      BY <3>2 DEF SpentSince, Paid
    <3>4. PICK e \in Int : e = Rate(b) * (passed - grants'[i].passed)
      BY <1>9, <3>1, BucketFacts, Products
    <3>5. /\ SpentSince(b, i)' + (Refill(b) - Price(u)) <= Cap(b) + e
          /\ SpentSince(b, i)' \in Nat /\ Refill(b) - Price(u) \in Nat /\ Cap(b) \in Nat
      BY <1>5, <1>9, <3>1, <3>4, BucketFacts
    <3>6. SpentSince(b, i)' <= Cap(b) + e
      BY <3>5
    <3> QED
      BY <3>2, <3>3, <3>4, <3>6
  <2> QED
    BY <2>2, <2>3
<1> QED
  BY <1>2, <1>7, <1>8, <1>10, <1>11, <1>12 DEF BucketInv

\* Nothing that is said of the buckets changes when Redis does not.
LEMMA RedisUnchanged ==
    ASSUME BucketInv, UNCHANGED redisVars
    PROVE  BucketInv' /\ \A b \in Buckets : Charged(b)' = Charged(b)
<1> USE DEF redisVars
<1>1. /\ \A b \in Buckets : Charged(b)' = Charged(b)
      /\ \A b \in Buckets, i, j \in Nat : Paid(b, i, j)' = Paid(b, i, j)
  BY DEF Charged, Paid
<1>2. BucketsOK' /\ Clock'
  BY DEF BucketInv, BucketsOK, Clock, Cap, Ttl, Rate
<1>3. \A b \in Buckets : Covered(b) => Covered(b)'
  BY DEF Covered, Charged, SpentSince, Paid, Cap, Rate, AtLeast0
<1>4. \A b \in Buckets : Tight(b) => Tight(b)'
  BY DEF Tight, Charged, SpentSince, Paid, Cap, Rate
<1>5. RateBound'
  BY DEF BucketInv, RateBound, Charged, Paid, Cap, Rate
<1> QED
  BY <1>1, <1>2, <1>3, <1>4, <1>5 DEF BucketInv

\* A step of Redis in which no script runs: grants are as they were.
LEMMA GrantsUnchanged ==
    ASSUME grants' = grants, NEW b
    PROVE  /\ Charged(b)' = Charged(b)
           /\ \A i, j : Paid(b, i, j)' = Paid(b, i, j)
           /\ \A i : SpentSince(b, i)' = SpentSince(b, i)
           /\ Cap(b)' = Cap(b) /\ Rate(b)' = Rate(b) /\ Ttl(b)' = Ttl(b)
BY DEF Charged, Paid, SpentSince, Cap, Rate, Ttl

\* A tick brings each bucket at most what it brings the bound.
LEMMA TickKeeps ==
    ASSUME TypeOK, BucketInv, Tick
    PROVE  BucketInv'
<1>0. /\ BucketsOK /\ Clock /\ RateBound
      /\ \A b \in Buckets : Covered(b)
      /\ ~stepped => \A b \in Buckets : Tight(b)
  BY DEF BucketInv
<1>1. /\ bucket' = bucket /\ grants' = grants /\ stepped' = stepped
      /\ now' = now + 1 /\ passed' = passed + 1
      /\ now \in Nat /\ passed \in Nat
  BY GrantSeq DEF Tick
<1>2. BucketsOK'
  BY <1>0, <1>1 DEF BucketsOK, Cap, Ttl, Rate
<1>3. Clock'
  BY <1>0, <1>1 DEF Clock
<1>4. RateBound'
  BY <1>0, <1>1, GrantsUnchanged DEF RateBound
<1>5. ASSUME NEW b \in Buckets, ~stepped PROVE Tight(b)'
  <2>1. bucket[b] # None => bucket[b].updated \in Nat
    BY <1>0, <1>1, RefillFacts
  <2> QED
    BY <1>0, <1>1, <1>5, <2>1, GrantsUnchanged DEF Tight
<1>6. ASSUME NEW b \in Buckets PROVE Covered(b)'
  <2>0. Rate(b) \in Nat /\ Cap(b) \in Nat
    BY BucketFacts
  <2> SUFFICES ASSUME NEW i \in Charged(b)
               PROVE  /\ bucket[b] # None =>
                           SpentSince(b, i) + bucket[b].tokens
                              + Rate(b) * AtLeast0(now' - bucket[b].updated)
                              <= Cap(b) + Rate(b) * (passed' - grants[i].passed)
                      /\ bucket[b] = None =>
                           SpentSince(b, i) <= Rate(b) * (passed' - grants[i].passed)
    BY <1>1, GrantsUnchanged DEF Covered, AtLeast0
  <2>1. SpentSince(b, i) \in Nat /\ grants[i].passed \in Nat
    BY GrantSeq, PaidFacts
  <2>2. PICK d \in Int : d = passed - grants[i].passed
    BY <1>1, <2>1
  <2>3. passed' - grants[i].passed = d + 1
    BY <1>1, <2>1, <2>2
  <2>4. Rate(b) * d \in Int /\ Rate(b) * (d + 1) = Rate(b) * d + Rate(b)
    BY <2>0, <2>2, Products
  <2>5. CASE bucket[b] = None
    <3>1. SpentSince(b, i) <= Rate(b) * d
      BY <1>0, <2>2, <2>5 DEF Covered
    <3> QED
      BY <2>0, <2>1, <2>3, <2>4, <2>5, <3>1
  <2>6. CASE bucket[b] # None
    <3>1. PICK t \in Nat, w \in Nat : t = bucket[b].tokens /\ w = bucket[b].updated
      BY <1>0, <1>1, <2>6, RefillFacts
    <3>2. PICK x \in Nat, y \in Nat :
            x = AtLeast0(now - w) /\ y = AtLeast0(now' - w) /\ y <= x + 1
      BY <1>1, <3>1 DEF AtLeast0
    <3>3. SpentSince(b, i) + t + Rate(b) * x <= Cap(b) + Rate(b) * d
      BY <1>0, <2>2, <2>6, <3>1, <3>2 DEF Covered
    <3>4. /\ Rate(b) * y <= Rate(b) * (x + 1) /\ Rate(b) * (x + 1) = Rate(b) * x + Rate(b)
          /\ Rate(b) * x \in Nat /\ Rate(b) * y \in Nat
      BY <2>0, <3>2, Products
    <3>5. SpentSince(b, i) + t + Rate(b) * y <= Cap(b) + (Rate(b) * d + Rate(b))
      <4>1. PICK p, q, e \in Int : p = Rate(b) * x /\ q = Rate(b) * y /\ e = Rate(b) * d /\ q <= p + Rate(b)
        BY <2>4, <3>4
      <4>2. SpentSince(b, i) + t + p <= Cap(b) + e
        BY <3>3, <4>1
      <4>3. SpentSince(b, i) + t + q <= Cap(b) + (e + Rate(b))
        BY <2>0, <2>1, <4>1, <4>2
      <4> QED
        BY <4>1, <4>3
    <3> QED
      BY <2>3, <2>4, <2>6, <3>1, <3>2, <3>5
  <2> QED
    BY <2>5, <2>6
<1> QED
  BY <1>1, <1>2, <1>3, <1>4, <1>5, <1>6 DEF BucketInv

\* A step back only delays what a bucket is still to get.
LEMMA StepBackKeeps ==
    ASSUME TypeOK, BucketInv, StepBack
    PROVE  BucketInv'
<1>0. BucketsOK /\ Clock /\ RateBound /\ \A b \in Buckets : Covered(b)
  BY DEF BucketInv
<1>1. /\ bucket' = bucket /\ grants' = grants /\ stepped' = TRUE /\ passed' = passed
      /\ now' \in Nat /\ now' < now /\ now \in Nat /\ passed \in Nat
  BY GrantSeq DEF StepBack
<1>2. BucketsOK'
  BY <1>0, <1>1 DEF BucketsOK, Cap, Ttl, Rate
<1>3. Clock'
  BY <1>0, <1>1 DEF Clock
<1>4. RateBound'
  BY <1>0, <1>1, GrantsUnchanged DEF RateBound
<1>5. ASSUME NEW b \in Buckets PROVE Covered(b)'
  <2>0. Rate(b) \in Nat /\ Cap(b) \in Nat
    BY BucketFacts
  <2> SUFFICES ASSUME NEW i \in Charged(b)
               PROVE  /\ bucket[b] # None =>
                           SpentSince(b, i) + bucket[b].tokens
                              + Rate(b) * AtLeast0(now' - bucket[b].updated)
                              <= Cap(b) + Rate(b) * (passed - grants[i].passed)
                      /\ bucket[b] = None =>
                           SpentSince(b, i) <= Rate(b) * (passed - grants[i].passed)
    BY <1>1, GrantsUnchanged DEF Covered, AtLeast0
  <2>1. SpentSince(b, i) \in Nat /\ grants[i].passed \in Nat
    BY GrantSeq, PaidFacts
  <2>2. PICK e \in Int : e = Rate(b) * (passed - grants[i].passed)
    BY <1>1, <2>0, <2>1, Products
  <2>3. CASE bucket[b] = None
    BY <1>0, <2>3 DEF Covered
  <2>4. CASE bucket[b] # None
    <3>1. PICK t \in Nat, w \in Nat : t = bucket[b].tokens /\ w = bucket[b].updated
      BY <1>0, <1>1, <2>4, RefillFacts
    <3>2. PICK x \in Nat, y \in Nat :
            x = AtLeast0(now - w) /\ y = AtLeast0(now' - w) /\ y <= x
      BY <1>1, <3>1 DEF AtLeast0
    <3>3. SpentSince(b, i) + t + Rate(b) * x <= Cap(b) + e
      BY <1>0, <2>2, <2>4, <3>1, <3>2 DEF Covered
    <3>4. Rate(b) * y <= Rate(b) * x /\ Rate(b) * x \in Nat /\ Rate(b) * y \in Nat
      BY <2>0, <3>2, Products
    <3>5. SpentSince(b, i) + t + Rate(b) * y <= Cap(b) + e
      <4>1. PICK p, q \in Nat : p = Rate(b) * x /\ q = Rate(b) * y /\ q <= p
        BY <3>4
      <4>2. SpentSince(b, i) + t + p <= Cap(b) + e
        BY <3>3, <4>1
      <4>3. SpentSince(b, i) + t + q <= Cap(b) + e
        BY <2>0, <2>1, <4>1, <4>2
      <4> QED
        BY <4>1, <4>3
    <3> QED
      BY <2>2, <2>4, <3>1, <3>2, <3>5
  <2> QED
    BY <2>3, <2>4
<1> QED
  BY <1>1, <1>2, <1>3, <1>4, <1>5 DEF BucketInv

\* A key that has expired was of a bucket that is full.
LEMMA ExpireKeeps ==
    ASSUME TypeOK, BucketInv, NEW c \in Buckets, Expire(c)
    PROVE  BucketInv'
<1>0. /\ BucketsOK /\ Clock /\ RateBound
      /\ \A b \in Buckets : Covered(b)
      /\ ~stepped => \A b \in Buckets : Tight(b)
  BY DEF BucketInv
<1>1. /\ grants' = grants /\ stepped' = stepped /\ passed' = passed /\ now' = now
      /\ bucket' = [bucket EXCEPT ![c] = None] /\ ~Present(c)
      /\ now \in Nat /\ passed \in Nat
  BY GrantSeq DEF Expire
<1>2. bucket'[c] = None /\ \A b \in Buckets \ {c} : bucket'[b] = bucket[b]
  BY <1>0, <1>1 DEF BucketsOK
<1>3. BucketsOK'
  <2>1. bucket' \in [Buckets -> [tokens : Nat, updated : Nat, expires : Nat] \cup {None}]
    BY <1>0, <1>1 DEF BucketsOK
  <2> QED
    BY <1>0, <1>2, <2>1 DEF BucketsOK, Cap, Ttl, Rate
<1>4. Clock'
  BY <1>0, <1>1 DEF Clock
<1>5. RateBound'
  BY <1>0, <1>1, GrantsUnchanged DEF RateBound
<1>6. ASSUME NEW b \in Buckets, ~stepped PROVE Tight(b)'
  BY <1>0, <1>1, <1>2, <1>6, GrantsUnchanged DEF Tight
<1>7. ASSUME NEW b \in Buckets PROVE Covered(b)'
  <2>1. CASE b # c
    BY <1>0, <1>1, <1>2, <2>1, GrantsUnchanged DEF Covered, AtLeast0
  <2>2. CASE b = c
    <3> SUFFICES ASSUME NEW i \in Charged(c)
                 PROVE  SpentSince(c, i) <= Rate(c) * (passed - grants[i].passed)
      BY <1>1, <1>2, <2>2, GrantsUnchanged DEF Covered
    <3>1. Refill(c) = Cap(c) /\ Cap(c) \in Nat /\ Rate(c) \in Nat
      BY <1>0, <1>1, RefillFacts, BucketFacts
    <3>2. SpentSince(c, i) \in Nat /\ grants[i].passed \in Nat
      BY GrantSeq, PaidFacts
    <3>3. PICK e \in Int : e = Rate(c) * (passed - grants[i].passed)
      <4>1. passed - grants[i].passed \in Int
        BY <1>1, <3>2
      <4>2. Rate(c) * (passed - grants[i].passed) \in Int
        BY <3>1, <4>1, Products
      <4> QED
        BY <4>2
    <3>4. SpentSince(c, i) + Cap(c) <= Cap(c) + e
      BY <1>0, <3>1, <3>3, RefillCovered
    <3> QED
      BY <3>1, <3>2, <3>3, <3>4
  <2> QED
    BY <2>1, <2>2
<1> QED
  BY <1>1, <1>3, <1>4, <1>5, <1>6, <1>7 DEF BucketInv

-----------------------------------------------------------------------------

\* The types, but for the buckets.
TypesButBuckets ==
    /\ {now, passed} \subseteq 0..MaxTime
    /\ pc \in [Requests -> {"new", "waiting", "publishing", "done"}]
    /\ command \in [Requests -> {"unsent", "sent", "allowed", "refused"}]
    /\ stray \in [Users -> Nat]
    /\ ack \in [Requests -> {None, "invalid", "limited", "unavailable", "accepted"}]
    /\ late \subseteq Requests /\ queued \subseteq Requests
    /\ faults \in 0..MaxFaults
    /\ stepped \in BOOLEAN
    /\ grants \in Seq([user : Users, at : 0..MaxTime, passed : 0..MaxTime])

\* The types without those of the buckets, which follow from their invariant.
LEMMA Types == TypeOK => TypesButBuckets
BY DEF TypeOK, TypesButBuckets

\* A step that keeps these types and the invariant of the buckets keeps all types.
LEMMA TypesBack == TypesButBuckets' /\ BucketsOK' => TypeOK'
<1> SUFFICES ASSUME TypesButBuckets', BucketsOK', NEW b \in Buckets, bucket'[b] # None
             PROVE  bucket'[b] \in [tokens : 0..Cap(b), updated : 0..MaxTime, expires : Nat]
  BY DEF TypeOK, TypesButBuckets, Cap
<1>1. bucket'[b] \in [tokens : Nat, updated : Nat, expires : Nat]
  BY DEF BucketsOK
<1>2. bucket'[b].tokens <= Cap(b) /\ bucket'[b].updated <= MaxTime
  BY DEF BucketsOK, Cap
<1>3. bucket'[b].tokens \in 0..Cap(b) /\ bucket'[b].updated \in 0..MaxTime
  BY <1>1, <1>2, BucketFacts, ChatAdmissionAssumption
<1> QED
  BY <1>1, <1>3

\* Redis time passes, steps back, or a key expires.
LEMMA TimeStep ==
    ASSUME IndInv, Tick \/ StepBack \/ \E b \in Buckets : Expire(b)
    PROVE  IndInv'
<1>0. TypeOK /\ BucketInv /\ Clock
  BY DEF IndInv, BucketInv
<1>1. UNCHANGED <<pc, command, stray, ack, late, queued, grants>>
  BY DEF Tick, StepBack, Expire, acceptVars
<1>2. BucketInv'
  BY <1>0, TickKeeps, StepBackKeeps, ExpireKeeps
<1>3. TypesButBuckets'
  <2>1. TypesButBuckets /\ MaxTime \in Nat /\ MaxFaults \in Nat
    BY <1>0, Types, ChatAdmissionAssumption
  <2>2. {now', passed'} \subseteq 0..MaxTime
    BY <1>0, <2>1 DEF Clock, Tick, StepBack, Expire, TypesButBuckets
  <2>3. faults' \in 0..MaxFaults /\ stepped' \in BOOLEAN
    <3>1. CASE StepBack
      BY <2>1, <3>1 DEF StepBack, TypesButBuckets
    <3>2. CASE Tick \/ \E b \in Buckets : Expire(b)
      <4>1. UNCHANGED <<faults, stepped>>
        BY <3>2 DEF Tick, Expire
      <4> QED
        BY <2>1, <4>1 DEF TypesButBuckets
    <3> QED
      BY <3>1, <3>2
  <2> QED
    BY <1>1, <2>1, <2>2, <2>3 DEF TypesButBuckets
<1>4. TypeOK'
  BY <1>2, <1>3, TypesBack DEF BucketInv
<1>5. \A r \in Requests : RequestInOrder(r)'
  BY <1>1 DEF IndInv, RequestInOrder
<1>6. GrantsCover'
  <2>1. \A u \in Users : Granted(u)' = Granted(u) /\ Charged(u)' = Charged(u)
    BY <1>1 DEF Granted, Charged
  <2> QED
    BY <2>1 DEF IndInv, GrantsCover
<1> QED
  BY <1>2, <1>4, <1>5, <1>6 DEF IndInv

\* What a user's grants and granted requests are counted by.
LEMMA Counted ==
    ASSUME TypeOK, NEW u \in Users
    PROVE  /\ IsFiniteSet(Granted(u)) /\ Cardinality(Granted(u)) \in Nat
           /\ IsFiniteSet(Charged(u)) /\ Cardinality(Charged(u)) \in Nat
<1>1. IsFiniteSet(Granted(u))
  BY ChatAdmissionAssumption, FS_Subset DEF Granted
<1>2. IsFiniteSet(Charged(u))
  BY PaidFacts DEF Buckets
<1> QED
  BY <1>1, <1>2, FS_CardinalityType

\* A run of the script grants at most one more and keeps the earlier grants.
LEMMA ScriptCounts ==
    ASSUME TypeOK, BucketsOK, NEW u \in Users, RunScript(u), NEW v \in Users
    PROVE  /\ Cardinality(Charged(v)') \in Nat
           /\ Cardinality(Charged(v)') >= Cardinality(Charged(v))
           /\ v = u /\ Allowed(u) => Cardinality(Charged(v)') >= Cardinality(Charged(v)) + 1
<1>1. IsFiniteSet(Charged(v)) /\ Cardinality(Charged(v)) \in Nat
  BY Counted
<1>2. CASE v # u
  <2>1. v \in Buckets \ {u, Room}
    BY <1>2, ChatAdmissionAssumption DEF Buckets
  <2>2. Charged(v)' = Charged(v)
    BY <2>1, ScriptFacts
  <2> QED
    BY <1>1, <1>2, <2>2
<1>3. CASE v = u
  <2>1. /\ Charged(u) \subseteq Charged(u)'
        /\ \A i \in Charged(u)' \ Charged(u) : i = Len(grants')
        /\ Allowed(u) => \E i \in Charged(u)' : i \notin Charged(u)
    BY ScriptFacts
  <2>2. IsFiniteSet(Charged(u) \cup {Len(grants')})
    BY <1>1, <1>3, FS_AddElement
  <2>3. Charged(u)' \subseteq Charged(u) \cup {Len(grants')}
    BY <2>1
  <2>4. IsFiniteSet(Charged(u)') /\ Cardinality(Charged(u)') \in Nat
    BY <2>2, <2>3, FS_Subset, FS_CardinalityType
  <2>5. Cardinality(Charged(u)') >= Cardinality(Charged(u))
    <3>1. Cardinality(Charged(u)) <= Cardinality(Charged(u)')
      BY <2>1, <2>4, FS_Subset
    <3> QED
      BY <1>1, <1>3, <2>4, <3>1
  <2>6. ASSUME Allowed(u)
        PROVE  Cardinality(Charged(u)') >= Cardinality(Charged(u)) + 1
    <3>1. PICK i \in Charged(u)' : i \notin Charged(u)
      BY <2>1, <2>6
    <3>2. Cardinality(Charged(u) \cup {i}) = Cardinality(Charged(u)) + 1
      BY <1>1, <1>3, <3>1, FS_AddElement
    <3>3. Charged(u) \cup {i} \subseteq Charged(u)'
      BY <2>1, <3>1
    <3>4. Cardinality(Charged(u) \cup {i}) <= Cardinality(Charged(u)')
      BY <2>4, <3>3, FS_Subset
    <3> QED
      BY <1>1, <1>3, <2>4, <3>2, <3>4
  <2> QED
    BY <1>3, <2>4, <2>5, <2>6
<1> QED
  BY <1>2, <1>3

\* The script keeps the types of Redis.
LEMMA ScriptTypes ==
    ASSUME TypeOK, BucketsOK, NEW u \in Users, RunScript(u)
    PROVE  /\ {now', passed'} \subseteq 0..MaxTime /\ stepped' \in BOOLEAN
           /\ grants' \in Seq([user : Users, at : 0..MaxTime, passed : 0..MaxTime])
<1>1. UNCHANGED <<now, passed, stepped>>
  BY DEF RunScript
<1>2. PICK g : g = [user |-> u, at |-> now, passed |-> passed]
  OBVIOUS
<1>3. PICK G : G = [user : Users, at : 0..MaxTime, passed : 0..MaxTime]
  OBVIOUS
<1>4. g \in G /\ grants \in Seq(G)
  BY <1>2, <1>3 DEF TypeOK
<1>5. grants' = Append(grants, g) \/ grants' = grants
  BY <1>2 DEF RunScript
<1>6. grants' \in Seq(G)
  BY <1>4, <1>5
<1> QED
  BY <1>1, <1>3, <1>6 DEF TypeOK

\* The command of a request runs.
LEMMA ScriptRunsStep ==
    ASSUME IndInv, NEW r \in Requests, ScriptRuns(r)
    PROVE  IndInv'
<1>0. /\ TypeOK /\ BucketInv /\ BucketsOK /\ GrantsCover /\ User[r] \in Users /\ TypesButBuckets
      /\ \A s \in Requests : RequestInOrder(s)
  BY ChatAdmissionAssumption, Types DEF IndInv, BucketInv
<1>1. /\ RunScript(User[r]) /\ UNCHANGED <<pc, stray, ack, late, queued, faults>>
      /\ command[r] = "sent"
      /\ command' = [command EXCEPT ![r] = IF Allowed(User[r]) THEN "allowed" ELSE "refused"]
  BY DEF ScriptRuns
<1>2. BucketInv'
  BY <1>0, <1>1, ScriptKeeps
<1>3. TypesButBuckets'
  <2>1. /\ {now', passed'} \subseteq 0..MaxTime /\ stepped' \in BOOLEAN
        /\ grants' \in Seq([user : Users, at : 0..MaxTime, passed : 0..MaxTime])
    BY <1>0, <1>1, ScriptTypes
  <2>2. command' \in [Requests -> {"unsent", "sent", "allowed", "refused"}]
    BY <1>0, <1>1 DEF TypesButBuckets
  <2> QED
    BY <1>0, <1>1, <2>1, <2>2 DEF TypesButBuckets
<1>4. /\ command'[r] = IF Allowed(User[r]) THEN "allowed" ELSE "refused"
      /\ \A s \in Requests \ {r} : command'[s] = command[s]
  BY <1>0, <1>1 DEF TypesButBuckets
<1>5. \A s \in Requests : RequestInOrder(s)'
  BY <1>0, <1>1, <1>4 DEF RequestInOrder
<1>6. ASSUME NEW v \in Users
      PROVE  Cardinality(Granted(v)') <= Cardinality(Charged(v)')
  <2>1. /\ IsFiniteSet(Granted(v)) /\ Cardinality(Granted(v)) \in Nat
        /\ Cardinality(Charged(v)) \in Nat /\ Cardinality(Granted(v)) <= Cardinality(Charged(v))
    BY <1>0, Counted DEF GrantsCover
  <2>2. /\ Cardinality(Charged(v)') \in Nat
        /\ Cardinality(Charged(v)') >= Cardinality(Charged(v))
        /\ v = User[r] /\ Allowed(User[r]) => Cardinality(Charged(v)') >= Cardinality(Charged(v)) + 1
    BY <1>0, <1>1, ScriptCounts
  <2>3. CASE v = User[r] /\ Allowed(User[r])
    <3>1. Granted(v)' = Granted(v) \cup {r} /\ r \notin Granted(v)
      BY <1>1, <1>4, <2>3 DEF Granted
    <3>2. Cardinality(Granted(v)') = Cardinality(Granted(v)) + 1
      BY <2>1, <3>1, FS_AddElement
    <3> QED
      BY <2>1, <2>2, <2>3, <3>2
  <2>4. CASE ~(v = User[r] /\ Allowed(User[r]))
    <3>1. Granted(v)' = Granted(v)
      BY <1>1, <1>4, <2>4 DEF Granted
    <3> QED
      BY <2>1, <2>2, <3>1
  <2> QED
    BY <2>3, <2>4
<1>7. TypeOK'
  BY <1>2, <1>3, TypesBack DEF BucketInv
<1> QED
  BY <1>2, <1>5, <1>6, <1>7 DEF IndInv, GrantsCover

\* A command runs that nobody waits for: its grant is used by no request.
LEMMA StrayRunsStep ==
    ASSUME IndInv, NEW u \in Users, StrayRuns(u)
    PROVE  IndInv'
<1>0. /\ TypeOK /\ BucketInv /\ BucketsOK /\ GrantsCover /\ TypesButBuckets
      /\ \A s \in Requests : RequestInOrder(s)
  BY Types DEF IndInv, BucketInv
<1>1. /\ RunScript(u) /\ UNCHANGED <<pc, command, ack, late, queued, faults>>
      /\ stray[u] > 0 /\ stray' = [stray EXCEPT ![u] = @ - 1]
  BY DEF StrayRuns
<1>2. BucketInv'
  BY <1>0, <1>1, ScriptKeeps
<1>3. TypesButBuckets'
  <2>1. /\ {now', passed'} \subseteq 0..MaxTime /\ stepped' \in BOOLEAN
        /\ grants' \in Seq([user : Users, at : 0..MaxTime, passed : 0..MaxTime])
    BY <1>0, <1>1, ScriptTypes
  <2>2. stray' \in [Users -> Nat]
    BY <1>0, <1>1 DEF TypesButBuckets
  <2> QED
    BY <1>0, <1>1, <2>1, <2>2 DEF TypesButBuckets
<1>4. \A s \in Requests : RequestInOrder(s)'
  BY <1>0, <1>1 DEF RequestInOrder
<1>5. ASSUME NEW v \in Users
      PROVE  Cardinality(Granted(v)') <= Cardinality(Charged(v)')
  <2>1. /\ Cardinality(Granted(v)) \in Nat /\ Cardinality(Charged(v)) \in Nat
        /\ Cardinality(Granted(v)) <= Cardinality(Charged(v))
    BY <1>0, Counted DEF GrantsCover
  <2>2. /\ Cardinality(Charged(v)') \in Nat
        /\ Cardinality(Charged(v)') >= Cardinality(Charged(v))
    BY <1>0, <1>1, ScriptCounts
  <2>3. Granted(v)' = Granted(v)
    BY <1>1 DEF Granted
  <2> QED
    BY <2>1, <2>2, <2>3
<1>6. TypeOK'
  BY <1>2, <1>3, TypesBack DEF BucketInv
<1> QED
  BY <1>2, <1>4, <1>5, <1>6 DEF IndInv, GrantsCover

\* A step of a request in which Redis does nothing makes no command granted.
LEMMA RequestSteps ==
    ASSUME IndInv, NEW r \in Requests,
           UNCHANGED redisVars,
           TypesButBuckets',
           \A s \in Requests : RequestInOrder(s)',
           \A s \in Requests : command'[s] = "allowed" => command[s] = "allowed"
    PROVE  IndInv'
<1>0. TypeOK /\ BucketInv /\ GrantsCover
  BY DEF IndInv
<1>1. BucketInv' /\ \A b \in Buckets : Charged(b)' = Charged(b)
  BY <1>0, RedisUnchanged
<1>2. TypeOK'
  BY <1>1, TypesBack DEF BucketInv
<1>3. ASSUME NEW v \in Users
      PROVE  Cardinality(Granted(v)') <= Cardinality(Charged(v)')
  <2>1. /\ IsFiniteSet(Granted(v)) /\ Cardinality(Granted(v)) \in Nat
        /\ Cardinality(Charged(v)) \in Nat /\ Cardinality(Granted(v)) <= Cardinality(Charged(v))
    BY <1>0, Counted DEF GrantsCover
  <2>2. Granted(v)' \in SUBSET Granted(v)
    BY DEF Granted
  <2>3. Cardinality(Granted(v)') <= Cardinality(Granted(v)) /\ IsFiniteSet(Granted(v)')
    BY <2>1, <2>2, FS_Subset
  <2>4. Cardinality(Granted(v)') \in Nat
    BY <2>3, FS_CardinalityType
  <2>5. Charged(v)' = Charged(v)
    BY <1>1 DEF Buckets
  <2> QED
    BY <2>1, <2>3, <2>4, <2>5
<1> QED
  BY <1>1, <1>2, <1>3 DEF IndInv, GrantsCover

\* Accept step by step.
LEMMA AcceptStep ==
    ASSUME IndInv, NEW r \in Requests,
           \/ Ask(r) \/ Resend(r) \/ AdmissionFails(r) \/ AdmissionAnswers(r)
           \/ Confirmed(r) \/ PublishFails(r) \/ BrokerTakes(r)
    PROVE  IndInv'
<1>0. /\ TypesButBuckets /\ MaxFaults \in Nat /\ User[r] \in Users
      /\ \A s \in Requests : RequestInOrder(s)
  BY Types, ChatAdmissionAssumption DEF IndInv
<1>1. UNCHANGED redisVars
  BY DEF Ask, Resend, AdmissionFails, AdmissionAnswers, Confirmed, PublishFails, BrokerTakes
<1>2. {now', passed'} \subseteq 0..MaxTime /\ stepped' \in BOOLEAN
      /\ grants' \in Seq([user : Users, at : 0..MaxTime, passed : 0..MaxTime])
  BY <1>0, <1>1 DEF redisVars, TypesButBuckets
<1>3. faults' \in 0..MaxFaults
  <2>1. faults \in 0..MaxFaults
    BY <1>0 DEF TypesButBuckets
  <2>2. faults' = faults \/ (faults < MaxFaults /\ faults' = faults + 1)
    BY DEF Ask, Resend, AdmissionFails, AdmissionAnswers, Confirmed, PublishFails, BrokerTakes
  <2> QED
    BY <1>0, <2>1, <2>2
<1>4. ASSUME Abandon(r) PROVE stray' \in [Users -> Nat]
  <2>1. stray \in [Users -> Nat] /\ stray[User[r]] + 1 \in Nat
    BY <1>0 DEF TypesButBuckets
  <2>2. CASE stray' = [stray EXCEPT ![User[r]] = stray[User[r]] + 1]
    BY <2>1, <2>2
  <2> QED
    BY <1>4, <2>1, <2>2 DEF Abandon
<1>5. CASE Ask(r)
  <2>1. TypesButBuckets'
    BY <1>0, <1>2, <1>3, <1>5 DEF Ask, Told, TypesButBuckets
  <2>2. \A s \in Requests : RequestInOrder(s)'
    BY <1>0, <1>5 DEF Ask, Told, TypesButBuckets, RequestInOrder
  <2>3. \A s \in Requests : command'[s] = "allowed" => command[s] = "allowed"
    BY <1>0, <1>5 DEF Ask, Told, TypesButBuckets
  <2> QED
    BY <1>1, <2>1, <2>2, <2>3, RequestSteps
<1>6. CASE Resend(r)
  <2>1. TypesButBuckets'
    <3>1. stray' \in [Users -> Nat]
      BY <1>4, <1>6 DEF Resend
    <3> QED
      BY <1>0, <1>2, <1>3, <1>6, <3>1 DEF Resend, TypesButBuckets
  <2>2. \A s \in Requests : RequestInOrder(s)'
    BY <1>0, <1>6 DEF Resend, TypesButBuckets, RequestInOrder
  <2>3. \A s \in Requests : command'[s] = "allowed" => command[s] = "allowed"
    BY <1>0, <1>6 DEF Resend, TypesButBuckets
  <2> QED
    BY <1>1, <2>1, <2>2, <2>3, RequestSteps
<1>7. CASE AdmissionFails(r)
  <2>1. TypesButBuckets'
    <3>1. stray' \in [Users -> Nat]
      BY <1>4, <1>7 DEF AdmissionFails
    <3> QED
      BY <1>0, <1>2, <1>3, <1>7, <3>1 DEF AdmissionFails, Told, TypesButBuckets
  <2>2. \A s \in Requests : RequestInOrder(s)'
    BY <1>0, <1>7 DEF AdmissionFails, Told, TypesButBuckets, RequestInOrder
  <2>3. \A s \in Requests : command'[s] = "allowed" => command[s] = "allowed"
    BY <1>0, <1>7 DEF AdmissionFails, Told, TypesButBuckets
  <2> QED
    BY <1>1, <2>1, <2>2, <2>3, RequestSteps
<1>8. CASE AdmissionAnswers(r)
  <2>1. TypesButBuckets'
    BY <1>0, <1>2, <1>3, <1>8 DEF AdmissionAnswers, Told, TypesButBuckets
  <2>2. \A s \in Requests : RequestInOrder(s)'
    BY <1>0, <1>8 DEF AdmissionAnswers, Told, TypesButBuckets, RequestInOrder
  <2>3. \A s \in Requests : command'[s] = "allowed" => command[s] = "allowed"
    BY <1>8 DEF AdmissionAnswers
  <2> QED
    BY <1>1, <2>1, <2>2, <2>3, RequestSteps
<1>9. CASE Confirmed(r)
  <2>1. TypesButBuckets'
    BY <1>0, <1>2, <1>3, <1>9 DEF Confirmed, TypesButBuckets
  <2>2. \A s \in Requests : RequestInOrder(s)'
    BY <1>0, <1>9 DEF Confirmed, TypesButBuckets, RequestInOrder
  <2>3. \A s \in Requests : command'[s] = "allowed" => command[s] = "allowed"
    BY <1>9 DEF Confirmed
  <2> QED
    BY <1>1, <2>1, <2>2, <2>3, RequestSteps
<1>10. CASE PublishFails(r)
  <2>1. TypesButBuckets'
    BY <1>0, <1>2, <1>3, <1>10 DEF PublishFails, Told, TypesButBuckets
  <2>2. \A s \in Requests : RequestInOrder(s)'
    BY <1>0, <1>10 DEF PublishFails, Told, TypesButBuckets, RequestInOrder
  <2>3. \A s \in Requests : command'[s] = "allowed" => command[s] = "allowed"
    BY <1>10 DEF PublishFails
  <2> QED
    BY <1>1, <2>1, <2>2, <2>3, RequestSteps
<1>11. CASE BrokerTakes(r)
  <2>1. TypesButBuckets'
    BY <1>0, <1>2, <1>3, <1>11 DEF BrokerTakes, TypesButBuckets
  <2>2. \A s \in Requests : RequestInOrder(s)'
    BY <1>0, <1>11 DEF BrokerTakes, RequestInOrder
  <2>3. \A s \in Requests : command'[s] = "allowed" => command[s] = "allowed"
    BY <1>11 DEF BrokerTakes
  <2> QED
    BY <1>1, <2>1, <2>2, <2>3, RequestSteps
<1> QED
  BY <1>5, <1>6, <1>7, <1>8, <1>9, <1>10, <1>11

-----------------------------------------------------------------------------

\* The invariant holds when nothing was asked yet.
LEMMA InitInv == Init => IndInv
<1> SUFFICES ASSUME Init PROVE IndInv
  OBVIOUS
<1>1. Len(grants) = 0 /\ DOMAIN grants = {} /\ \A b \in Buckets : Charged(b) = {}
  BY DEF Init, Charged
<1>2. TypeOK
  <2>1. <<>> \in Seq([user : Users, at : 0..MaxTime, passed : 0..MaxTime])
    OBVIOUS
  <2>2. {now, passed} \subseteq 0..MaxTime /\ faults \in 0..MaxFaults /\ stray \in [Users -> Nat]
    BY ChatAdmissionAssumption DEF Init
  <2>3. \A b \in Buckets : bucket[b] = None
    BY DEF Init
  <2>4. /\ pc \in [Requests -> {"new", "waiting", "publishing", "done"}]
        /\ command \in [Requests -> {"unsent", "sent", "allowed", "refused"}]
        /\ ack \in [Requests -> {None, "invalid", "limited", "unavailable", "accepted"}]
    BY DEF Init
  <2>5. late \subseteq Requests /\ queued \subseteq Requests /\ stepped \in BOOLEAN
    BY DEF Init
  <2>6. grants \in Seq([user : Users, at : 0..MaxTime, passed : 0..MaxTime])
    BY <2>1 DEF Init
  <2> QED
    BY <2>2, <2>3, <2>4, <2>5, <2>6, Zenon DEF TypeOK
<1>3. BucketInv
  <2>1. BucketsOK /\ Clock
    BY <1>1 DEF Init, BucketsOK, Clock
  <2>2. \A b \in Buckets : Covered(b) /\ Tight(b)
    BY <1>1 DEF Init, Covered, Tight
  <2>3. RateBound
    BY <1>1 DEF RateBound
  <2> QED
    BY <2>1, <2>2, <2>3 DEF BucketInv
<1>4. \A r \in Requests : RequestInOrder(r)
  BY ChatAdmissionAssumption DEF Init, RequestInOrder
<1>5. GrantsCover
  <2>1. \A u \in Users : Granted(u) = {} /\ Charged(u) = {}
    BY <1>1 DEF Init, Granted, Buckets
  <2> QED
    BY <2>1, FS_EmptySet DEF GrantsCover
<1> QED
  BY <1>2, <1>3, <1>4, <1>5 DEF IndInv

\* Every step keeps the invariant.
LEMMA NextInv == IndInv /\ [Next]_vars => IndInv'
<1> SUFFICES ASSUME IndInv, [Next]_vars PROVE IndInv'
  OBVIOUS
<1>1. CASE UNCHANGED vars
  <2>1. UNCHANGED redisVars /\ UNCHANGED <<pc, command, stray, ack, late, queued, faults>>
    BY <1>1 DEF vars, acceptVars
  <2>2. BucketInv' /\ \A b \in Buckets : Charged(b)' = Charged(b)
    BY <2>1, RedisUnchanged DEF IndInv
  <2>3. TypesButBuckets'
    BY <2>1, Types DEF IndInv, TypesButBuckets, redisVars
  <2>4. TypeOK'
    BY <2>2, <2>3, TypesBack DEF BucketInv
  <2>5. \A r \in Requests : RequestInOrder(r)'
    BY <2>1 DEF IndInv, RequestInOrder
  <2>6. GrantsCover'
    <3>1. \A u \in Users : Granted(u)' = Granted(u) /\ Charged(u)' = Charged(u)
      BY <2>1, <2>2 DEF Granted, Buckets
    <3> QED
      BY <3>1 DEF IndInv, GrantsCover
  <2> QED
    BY <2>2, <2>4, <2>5, <2>6 DEF IndInv
<1>2. CASE Next
  BY <1>2, TimeStep, ScriptRunsStep, StrayRunsStep, AcceptStep DEF Next
<1> QED
  BY <1>1, <1>2

\* The invariant holds in every reachable state.
THEOREM Invariance == Spec => []IndInv
BY InitInv, NextInv, PTL DEF Spec

\* Every variable keeps its type, and no bucket is overfull or overdrawn, whatever the
\* clock does.
THEOREM TypeCorrect == Spec => []TypeOK
<1>1. IndInv => TypeOK
  BY DEF IndInv
<1> QED
  BY <1>1, Invariance, PTL

\* No stretch of time grants more than the burst and what the ticks of that stretch
\* bring, for each user and for the room, even when Redis time steps back, keys expire
\* and the script runs for calls that were given up or sent twice.
THEOREM RateHolds == Spec => []RateBound
<1>1. IndInv => RateBound
  BY DEF IndInv, BucketInv
<1> QED
  BY <1>1, Invariance, PTL

\* The smallest element of a set of integers, named.
LEMMA MinIs ==
    ASSUME NEW S \in SUBSET Int, NEW m \in S, \A y \in S : m <= y
    PROVE  Min(S) = m
<1>1. \A x \in S : (\A y \in S : x <= y) => x = m
  OBVIOUS
<1> QED
  BY <1>1 DEF Min

\* While Redis time goes forward, what the script finds in a bucket is its capacity less
\* exactly what the grants took and time did not bring back: expiry, refusals and
\* repeated calls neither give nor take anything.
THEOREM LevelExact == Spec => []LevelIsExact
<1>1. IndInv => LevelIsExact
  <2> SUFFICES ASSUME IndInv, ~stepped, NEW b \in Buckets
               PROVE  Refill(b) = Level(b)
    BY DEF LevelIsExact
  <2> DEFINE L(i) == Cap(b) + Rate(b) * (now - grants[i].at) - Cost * Paid(b, i, Len(grants))
             S == {Cap(b)} \cup {L(i) : i \in Charged(b)}
  <2>0. /\ TypeOK /\ BucketsOK /\ Clock /\ Covered(b) /\ Tight(b)
        /\ Cap(b) \in Nat /\ Rate(b) \in Nat
    BY BucketFacts DEF IndInv, BucketInv
  <2>1. now = passed /\ now \in Nat /\ Refill(b) \in Nat /\ Refill(b) <= Cap(b)
    BY <2>0, GrantSeq, RefillFacts DEF Clock
  <2>2. ASSUME NEW i \in Charged(b)
        PROVE  /\ L(i) = Cap(b) + Rate(b) * (now - grants[i].passed) - SpentSince(b, i)
               /\ Rate(b) * (now - grants[i].passed) \in Int /\ SpentSince(b, i) \in Nat
               /\ L(i) \in Int /\ Refill(b) <= L(i)
    <3>1. /\ SpentSince(b, i) \in Nat /\ grants[i].passed \in Nat
          /\ grants[i].at = grants[i].passed
      BY <2>0, GrantSeq, PaidFacts DEF Clock
    <3>2. now - grants[i].passed \in Int
      BY <2>1, <3>1
    <3>3. PICK e \in Int : e = Rate(b) * (now - grants[i].passed)
      BY <2>0, <3>2, Products
    <3>4. L(i) = Cap(b) + e - SpentSince(b, i)
      BY <3>1, <3>3 DEF SpentSince
    <3>5. SpentSince(b, i) + Refill(b) <= Cap(b) + e
      BY <2>0, <2>1, <3>3, RefillCovered
    <3>6. Cap(b) + e - SpentSince(b, i) \in Int /\ Refill(b) <= Cap(b) + e - SpentSince(b, i)
      BY <2>0, <2>1, <3>1, <3>5
    <3> QED
      BY <3>1, <3>3, <3>4, <3>6
  <2>3. Refill(b) \in S
    <3>1. CASE Refill(b) = Cap(b)
      BY <3>1
    <3>2. CASE Refill(b) # Cap(b)
      <4>1. PICK i \in Charged(b) :
              Refill(b) + SpentSince(b, i) = Cap(b) + Rate(b) * (now - grants[i].passed)
        BY <2>0, <3>2, RefillTight
      <4>2. PICK e \in Int : e = Rate(b) * (now - grants[i].passed)
        BY <2>2
      <4>3. L(i) = Cap(b) + e - SpentSince(b, i) /\ SpentSince(b, i) \in Nat
        BY <2>2, <4>2
      <4> HIDE DEF L
      <4>4. Refill(b) + SpentSince(b, i) = Cap(b) + e
        BY <4>1, <4>2
      <4>5. Refill(b) = L(i)
        BY <2>0, <2>1, <4>3, <4>4
      <4> QED
        BY <4>5
    <3> QED
      BY <3>1, <3>2
  <2>4. S \in SUBSET Int /\ \A y \in S : Refill(b) <= y
    <3> HIDE DEF L
    <3> QED
      BY <2>0, <2>1, <2>2
  <2>5. Min(S) = Refill(b)
    <3> HIDE DEF S
    <3> QED
      BY <2>3, <2>4, MinIs
  <2> QED
    BY <2>5 DEF Level
<1> QED
  BY <1>1, Invariance, PTL

\* Admission fails closed: each event that the broker took or may yet take was admitted
\* and paid for by a grant of its own; its sender was told "accepted" or "unavailable",
\* never that it is invalid or over the limit; and what was "accepted" is queued.
THEOREM FailsClosed == Spec => []PublishedWasGranted
<1>1. IndInv => PublishedWasGranted
  <2> SUFFICES ASSUME IndInv PROVE PublishedWasGranted
    OBVIOUS
  <2>0. TypeOK /\ GrantsCover /\ \A r \in Requests : RequestInOrder(r)
    BY DEF IndInv
  <2>1. queued \cup late \subseteq Requests
    BY <2>0 DEF TypeOK
  <2>2. ASSUME NEW u \in Users
        PROVE  Cardinality({r \in queued \cup late : User[r] = u}) <= Cardinality(Charged(u))
    <3>1. PICK P : P = {r \in queued \cup late : User[r] = u}
      OBVIOUS
    <3>2. P \in SUBSET Granted(u)
      BY <2>0, <2>1, <3>1 DEF RequestInOrder, Granted
    <3>3. /\ IsFiniteSet(Granted(u)) /\ Cardinality(Granted(u)) \in Nat
          /\ Cardinality(Charged(u)) \in Nat /\ Cardinality(Granted(u)) <= Cardinality(Charged(u))
      BY <2>0, Counted DEF GrantsCover
    <3>4. Cardinality(P) <= Cardinality(Granted(u)) /\ IsFiniteSet(P)
      BY <3>2, <3>3, FS_Subset
    <3>5. Cardinality(P) \in Nat
      BY <3>4, FS_CardinalityType
    <3> QED
      BY <3>1, <3>3, <3>4, <3>5
  <2> QED
    BY <2>0, <2>1, <2>2 DEF PublishedWasGranted, RequestInOrder
<1> QED
  BY <1>1, Invariance, PTL
=============================================================================

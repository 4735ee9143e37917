------------------------ MODULE CoalescedReadsProofs ------------------------
(***************************************************************************)
(* Proofs about CoalescedReads, for any finite set of readers, any number  *)
(* of versions and any failures.                                           *)
(***************************************************************************)
EXTENDS CoalescedReads, FiniteSetTheorems, SequenceTheorems, WellFoundedInduction, TLAPS

----------------------------------------------------------------------------
(* Constants and minima.                                                   *)

\* Versions are natural numbers; nothing else a map or a reader may have is one.
LEMMA Constants ==
  /\ IsFiniteSet(Readers)
  /\ Versions \subseteq Nat /\ 0 \in Versions
  /\ undefined \notin Versions /\ undefined \notin Readers
  /\ rejected \notin Versions /\ rejected \notin Readers
  /\ undefined # rejected
  /\ Nothing \notin Outcomes /\ Nothing \notin Readers /\ Nothing \notin Versions
  /\ Nothing # undefined /\ Nothing # rejected
  /\ \A r \in Readers : r \notin Versions /\ r \notin Outcomes
BY CoalescedReadsAssumption DEF Versions, Outcomes

\* Every set of versions but the empty one has an oldest.
LEMMA LeastOf ==
  ASSUME NEW S \in SUBSET Nat, S # {}
  PROVE  \E v \in S : \A w \in S : v <= w
<1>1. PICK v \in S : \A w \in S : ~ (<<w, v>> \in OpToRel(<, Nat))
  BY WFMin, NatLessThanWellFounded, Zenon
<1>2. \A w \in S : ~ (w < v)
  BY <1>1 DEF OpToRel
<1>. QED
  BY <1>2

LEMMA OldestOf ==
  ASSUME NEW S \in SUBSET Versions, S # {}
  PROVE  Oldest(S) \in S /\ \A w \in S : Oldest(S) <= w
<1>1. \E v \in S : \A w \in S : v <= w
  BY Constants, LeastOf
<1>. QED
  BY <1>1, Zenon DEF Oldest

\* What a read may count from when it begins.
LEMMA CountsFrom ==
  ASSUME TypeOK
  PROVE  /\ Oldest(Around) \in Versions
         /\ \A v \in Around : Oldest(Around) <= v
         /\ Oldest(Current) \in Versions
         /\ \A v \in Current : Oldest(Current) <= v
<1>1. Around \in SUBSET Versions /\ version \in Around
  BY DEF TypeOK, Around
<1>2. Current \in SUBSET Versions /\ version \in Current
  BY DEF TypeOK, Current
<1>. QED
  BY <1>1, <1>2, OldestOf, Zenon

----------------------------------------------------------------------------
(* Queues of readers.                                                      *)

In(r, q) == \E i \in DOMAIN q : q[i] = r

Once(q) == \A i, j \in DOMAIN q : q[i] = q[j] => i = j

\* p is q followed by the readers of N, one by one.
Follow(q, N, p) ==
  /\ p \in Seq(Readers)
  /\ DOMAIN q \subseteq DOMAIN p
  /\ \A i \in DOMAIN q : p[i] = q[i]
  /\ \A j \in DOMAIN p : j \in DOMAIN q \/ (p[j] \in N /\ \A i \in DOMAIN q : i < j)
  /\ \A r \in N : \E j \in DOMAIN p : j \notin DOMAIN q /\ p[j] = r
  /\ \A j, k \in DOMAIN p : j \notin DOMAIN q /\ k \notin DOMAIN q /\ p[j] = p[k] => j = k

LEMMA QueueOf ==
  ASSUME NEW q \in Seq(Readers)
  PROVE  /\ Len(q) \in Nat
         /\ DOMAIN q = 1..Len(q)
         /\ \A i \in DOMAIN q : q[i] \in Readers
         /\ q # <<>> => 1 \in DOMAIN q /\ Head(q) = q[1]
<1>1. Len(q) \in Nat /\ DOMAIN q = 1..Len(q) /\ \A i \in DOMAIN q : q[i] \in Readers
  BY LenProperties, ElementOfSeq
<1>2. q # <<>> => Len(q) # 0
  BY EmptySeq
<1>3. q # <<>> => Head(q) = q[1]
  OBVIOUS
<1>. QED
  BY <1>1, <1>2, <1>3

LEMMA TailOf ==
  ASSUME NEW q \in Seq(Readers), q # <<>>
  PROVE  /\ Tail(q) \in Seq(Readers)
         /\ \A i \in Int : i \in DOMAIN Tail(q) <=> i >= 1 /\ i + 1 \in DOMAIN q
         /\ \A i \in DOMAIN Tail(q) : Tail(q)[i] = q[i + 1]
<1>1. /\ Tail(q) \in Seq(Readers)
      /\ Len(Tail(q)) = Len(q) - 1
      /\ \A i \in 1..Len(Tail(q)) : Tail(q)[i] = q[i + 1]
  BY HeadTailProperties, Zenon
<1>2. DOMAIN q = 1..Len(q) /\ Len(q) \in Nat /\ DOMAIN Tail(q) = 1..Len(Tail(q))
  BY <1>1, QueueOf
<1>. QED
  BY <1>1, <1>2

LEMMA FollowedByOne ==
  ASSUME NEW q \in Seq(Readers), NEW r \in Readers
  PROVE  Follow(q, {r}, Append(q, r))
<1>. DEFINE p == Append(q, r)
<1>1. /\ p \in Seq(Readers)
      /\ Len(p) = Len(q) + 1
      /\ \A i \in 1..Len(q) : p[i] = q[i]
      /\ p[Len(q) + 1] = r
  BY AppendProperties
<1>2. Len(q) \in Nat /\ DOMAIN q = 1..Len(q) /\ DOMAIN p = 1..Len(q) + 1
  BY <1>1, QueueOf
<1>. QED
  BY <1>1, <1>2 DEF Follow

LEMMA FollowedByAll ==
  ASSUME NEW q \in Seq(Readers), NEW N \in SUBSET Readers, NEW n \in Nat,
         NEW order \in Bijection(1..n, N)
  PROVE  Follow(q, N, q \o order)
<1>. DEFINE p == q \o order
<1>1. /\ order \in [1..n -> N]
      /\ \A i, j \in 1..n : order[i] = order[j] => i = j
      /\ \A r \in N : \E i \in 1..n : order[i] = r
  BY DEF Bijection, Injection, Surjection, IsInjective
<1>2. order \in Seq(Readers) /\ Len(order) = n /\ DOMAIN order = 1..n
  <2>1. order \in [1..n -> Readers]
    BY <1>1
  <2>. QED
    BY <2>1, SeqDef
<1>3. /\ p \in Seq(Readers) /\ Len(p) = Len(q) + n
      /\ \A i \in 1..Len(q) + n : p[i] = IF i <= Len(q) THEN q[i] ELSE order[i - Len(q)]
  BY <1>2, ConcatProperties
<1>4. Len(q) \in Nat /\ DOMAIN q = 1..Len(q) /\ DOMAIN p = 1..Len(q) + n
  BY <1>3, QueueOf
<1>5. \A i \in 1..n : Len(q) + i \in DOMAIN p /\ p[Len(q) + i] = order[i] /\ Len(q) + i \notin DOMAIN q
  <2>. TAKE i \in 1..n
  <2>1. Len(q) + i \in 1..Len(q) + n /\ ~ (Len(q) + i <= Len(q)) /\ (Len(q) + i) - Len(q) = i
    BY <1>4
  <2>. QED
    BY <1>3, <1>4, <2>1
<1>6. ASSUME NEW j \in DOMAIN p, j \notin DOMAIN q
      PROVE  j - Len(q) \in 1..n /\ p[j] = order[j - Len(q)] /\ \A i \in DOMAIN q : i < j
  BY <1>3, <1>4, <1>6
<1>7. /\ \A i \in DOMAIN q : p[i] = q[i]
      /\ DOMAIN q \subseteq DOMAIN p
  BY <1>3, <1>4
<1>8. \A r \in N : \E j \in DOMAIN p : j \notin DOMAIN q /\ p[j] = r
  BY <1>1, <1>5
<1>9. \A j, k \in DOMAIN p : j \notin DOMAIN q /\ k \notin DOMAIN q /\ p[j] = p[k] => j = k
  <2>. TAKE j, k \in DOMAIN p
  <2>. HAVE j \notin DOMAIN q /\ k \notin DOMAIN q /\ p[j] = p[k]
  <2>1. j - Len(q) = k - Len(q)
    BY <1>1, <1>6
  <2>. QED
    BY <2>1, <1>4
<1>10. \A j \in DOMAIN p : j \in DOMAIN q \/ (p[j] \in N /\ \A i \in DOMAIN q : i < j)
  BY <1>1, <1>6
<1>. QED
  BY <1>3, <1>7, <1>8, <1>9, <1>10 DEF Follow

\* Who is in a queue, and once.
LEMMA FollowIn ==
  ASSUME NEW q \in Seq(Readers), NEW N \in SUBSET Readers, NEW p, Follow(q, N, p)
  PROVE  /\ \A r : In(r, p) <=> In(r, q) \/ r \in N
         /\ Once(q) /\ (\A r \in N : ~ In(r, q)) => Once(p)
<1>1. \A r : In(r, p) <=> In(r, q) \/ r \in N
  BY DEF Follow, In
<1>2. ASSUME Once(q), \A r \in N : ~ In(r, q), NEW j \in DOMAIN p, NEW k \in DOMAIN p, p[j] = p[k]
      PROVE  j = k
  <2>1. CASE j \in DOMAIN q /\ k \in DOMAIN q
    BY <1>2, <2>1 DEF Follow, Once
  <2>2. CASE j \notin DOMAIN q /\ k \notin DOMAIN q
    BY <1>2, <2>2 DEF Follow
  <2>3. CASE j \in DOMAIN q /\ k \notin DOMAIN q
    BY <1>2, <2>3 DEF Follow, In
  <2>4. CASE j \notin DOMAIN q /\ k \in DOMAIN q
    BY <1>2, <2>4 DEF Follow, In
  <2>. QED
    BY <2>1, <2>2, <2>3, <2>4
<1>. QED
  BY <1>1, <1>2 DEF Once

LEMMA FollowOneIn ==
  ASSUME NEW q \in Seq(Readers), NEW r \in Readers, NEW p, Follow(q, {r}, p), Once(q), ~ In(r, q)
  PROVE  Once(p) /\ \A x : In(x, p) <=> In(x, q) \/ x = r
<1>. DEFINE N == {r}
<1>1. N \in SUBSET Readers /\ \A x : x \in N <=> x = r
  OBVIOUS
<1>2. Follow(q, N, p)
  OBVIOUS
<1>. HIDE DEF N
<1>. QED
  BY <1>1, <1>2, FollowIn

LEMMA TailIn ==
  ASSUME NEW q \in Seq(Readers), q # <<>>, Once(q)
  PROVE  /\ Once(Tail(q))
         /\ \A r : In(r, Tail(q)) <=> In(r, q) /\ r # Head(q)
<1>1. DOMAIN q = 1..Len(q) /\ Len(q) \in Nat /\ 1 \in DOMAIN q /\ Head(q) = q[1]
  BY QueueOf
<1>2. DOMAIN Tail(q) \subseteq Nat
  BY TailOf, QueueOf
<1>3. Once(Tail(q))
  BY <1>1, <1>2, TailOf DEF Once
<1>4. ASSUME NEW r, In(r, Tail(q))
      PROVE  In(r, q) /\ r # Head(q)
  BY <1>1, <1>2, <1>4, TailOf DEF In, Once
<1>5. ASSUME NEW r, In(r, q), r # Head(q)
      PROVE  In(r, Tail(q))
  <2>1. PICK i \in DOMAIN q : q[i] = r
    BY <1>5 DEF In
  <2>2. i - 1 \in DOMAIN Tail(q) /\ (i - 1) + 1 = i
    BY <1>1, <1>5, <2>1, TailOf
  <2>. QED
    BY <2>1, <2>2, TailOf DEF In
<1>. QED
  BY <1>3, <1>4, <1>5

\* One of C comes before r in q, if r is there.
Ahead(q, C, r) == \E i \in DOMAIN q : q[i] \in C /\ \A j \in DOMAIN q : q[j] = r => i < j

LEMMA FollowAhead ==
  ASSUME NEW q \in Seq(Readers), NEW N \in SUBSET Readers, NEW p, Follow(q, N, p),
         NEW C, NEW r
  PROVE  /\ Ahead(q, C, r) => Ahead(p, C, r)
         /\ ~ In(r, q) /\ (\E c \in C : In(c, q)) => Ahead(p, C, r)
BY DEF Follow, Ahead, In

LEMMA TailAhead ==
  ASSUME NEW q \in Seq(Readers), q # <<>>, NEW C, Head(q) \notin C, NEW r, Ahead(q, C, r)
  PROVE  Ahead(Tail(q), C, r)
<1>1. DOMAIN q = 1..Len(q) /\ Len(q) \in Nat /\ 1 \in DOMAIN q /\ Head(q) = q[1]
  BY QueueOf
<1>2. PICK i \in DOMAIN q : q[i] \in C /\ \A j \in DOMAIN q : q[j] = r => i < j
  BY DEF Ahead
<1>3. i - 1 \in DOMAIN Tail(q) /\ (i - 1) + 1 = i
  BY <1>1, <1>2, TailOf
<1>4. Tail(q)[i - 1] \in C
  BY <1>2, <1>3, TailOf
<1>5. \A j \in DOMAIN Tail(q) : Tail(q)[j] = r => i - 1 < j
  <2>. TAKE j \in DOMAIN Tail(q)
  <2>1. j \in Int /\ j + 1 \in DOMAIN q /\ Tail(q)[j] = q[j + 1]
    BY TailOf, QueueOf
  <2>. QED
    BY <1>1, <1>2, <2>1
<1>. QED
  BY <1>3, <1>4, <1>5 DEF Ahead

LEMMA HeadNotAhead ==
  ASSUME NEW q \in Seq(Readers), q # <<>>, NEW C
  PROVE  ~ Ahead(q, C, Head(q))
BY QueueOf DEF Ahead

\* The readers of C in q are in one row, and in front.
Row(q, C) ==
  \A i, j, k \in DOMAIN q : i < j /\ j < k /\ q[i] \in C /\ q[k] \in C => q[j] \in C

Front(q, C) == \A i \in DOMAIN q : q[i] \in C => q[1] \in C

Free(q, C) == \A i \in DOMAIN q : q[i] \notin C

LEMMA FollowRow ==
  ASSUME NEW q \in Seq(Readers), NEW N \in SUBSET Readers, NEW p, Follow(q, N, p), NEW C
  PROVE  /\ (\A r \in N : r \notin C) /\ Row(q, C) => Row(p, C)
         /\ (\A r \in N : r \notin C) /\ Front(q, C) => Front(p, C)
         /\ (\A r \in N : r \notin C) /\ Free(q, C) => Free(p, C)
         /\ N \subseteq C /\ Free(q, C) => Row(p, C)
<1>1. /\ DOMAIN q \subseteq DOMAIN p /\ p \in Seq(Readers)
      /\ \A i \in DOMAIN q : p[i] = q[i]
      /\ \A j \in DOMAIN p : j \in DOMAIN q \/ (p[j] \in N /\ \A i \in DOMAIN q : i < j)
  BY DEF Follow
<1>2. /\ DOMAIN q = 1..Len(q) /\ Len(q) \in Nat
      /\ DOMAIN p = 1..Len(p) /\ Len(p) \in Nat
  BY <1>1, QueueOf
<1>3. ASSUME \A r \in N : r \notin C, Row(q, C)
      PROVE  Row(p, C)
  <2>1. \A k \in DOMAIN p : p[k] \in C => k \in DOMAIN q
    BY <1>1, <1>3
  <2>2. \A j \in DOMAIN p, k \in DOMAIN q : j < k => j \in DOMAIN q
    BY <1>2
  <2>. QED
    BY <1>1, <1>3, <2>1, <2>2 DEF Row
<1>4. ASSUME \A r \in N : r \notin C, Front(q, C)
      PROVE  Front(p, C)
  <2>1. \A k \in DOMAIN p : p[k] \in C => k \in DOMAIN q /\ 1 \in DOMAIN q
    BY <1>1, <1>2, <1>4
  <2>. QED
    BY <1>1, <1>4, <2>1 DEF Front
<1>5. ASSUME \A r \in N : r \notin C, Free(q, C)
      PROVE  Free(p, C)
  BY <1>1, <1>5 DEF Free
<1>6. ASSUME N \subseteq C, Free(q, C)
      PROVE  Row(p, C)
  <2>1. \A i \in DOMAIN p : p[i] \in C => i \notin DOMAIN q
    BY <1>1, <1>6 DEF Free
  <2>2. \A i, j \in DOMAIN p : i \notin DOMAIN q /\ i < j => j \notin DOMAIN q
    BY <1>2
  <2>. QED
    BY <1>1, <1>6, <2>1, <2>2 DEF Row
<1>. QED
  BY <1>3, <1>4, <1>5, <1>6

LEMMA TailRow ==
  ASSUME NEW q \in Seq(Readers), q # <<>>, NEW C
  PROVE  /\ Row(q, C) => Row(Tail(q), C)
         /\ Head(q) \in C /\ Row(q, C) => Front(Tail(q), C)
         /\ Head(q) \notin C /\ Front(q, C) => Free(q, C)
         /\ Free(q, C) => Free(Tail(q), C)
<1>1. DOMAIN q = 1..Len(q) /\ Len(q) \in Nat /\ 1 \in DOMAIN q /\ Head(q) = q[1]
  BY QueueOf
<1>2. \A i \in DOMAIN Tail(q) : i \in Nat /\ i + 1 \in DOMAIN q /\ Tail(q)[i] = q[i + 1]
  BY TailOf, QueueOf
<1>3. \A i, j \in DOMAIN Tail(q) : i < j => i + 1 < j + 1
  BY <1>2
<1>4. ASSUME Row(q, C)
      PROVE  Row(Tail(q), C)
  BY <1>2, <1>3, <1>4 DEF Row
<1>5. ASSUME Head(q) \in C, Row(q, C), NEW i \in DOMAIN Tail(q), Tail(q)[i] \in C
      PROVE  Tail(q)[1] \in C
  <2>1. i \in Nat /\ i # 0 /\ i + 1 \in DOMAIN q /\ q[i + 1] \in C
    BY <1>1, <1>2, <1>5, TailOf
  <2>2. 1 \in DOMAIN Tail(q) /\ 2 \in DOMAIN q /\ Tail(q)[1] = q[2]
    BY <1>1, <1>2, <2>1, TailOf
  <2>3. CASE i = 1
    BY <1>5, <2>3
  <2>4. CASE i # 1
    <3>1. 1 < 2 /\ 2 < i + 1
      BY <2>1, <2>4
    <3>. QED
      BY <1>1, <1>5, <2>1, <2>2, <3>1 DEF Row
  <2>. QED
    BY <2>3, <2>4
<1>6. ASSUME Head(q) \notin C, Front(q, C)
      PROVE  Free(q, C)
  BY <1>1, <1>6 DEF Front, Free
<1>7. ASSUME Free(q, C)
      PROVE  Free(Tail(q), C)
  BY <1>2, <1>7 DEF Free
<1>. QED
  BY <1>4, <1>5, <1>6, <1>7 DEF Front

----------------------------------------------------------------------------
(* Types.                                                                  *)

LEMMA AwaitEffect ==
  ASSUME NEW r \in Readers, NEW p, NEW tasks \in Seq(Readers), Await(r, p, tasks)
  PROVE  /\ awaits' = [awaits EXCEPT ![r] = p]
         /\ p \in Readers => queue' = tasks
         /\ p \notin Readers => Follow(tasks, {r}, queue')
         /\ queue' \in Seq(Readers)
<1>1. /\ awaits' = [awaits EXCEPT ![r] = p]
      /\ p \in Readers => queue' = tasks
      /\ p \notin Readers => Follow(tasks, {r}, queue')
  BY FollowedByOne DEF Await
<1>. QED
  BY <1>1 DEF Follow

Sharers(o) == {r \in Readers : awaits[r] = o}

LEMMA SettleEffect ==
  ASSUME TypeOK, NEW o \in Readers, NEW v, Settle(o, v)
  PROVE  /\ awaits' = [r \in Readers |-> IF awaits[r] = o THEN v ELSE awaits[r]]
         /\ read' = [read EXCEPT ![o] = Nothing]
         /\ pendingGet' = IF pendingGet = o THEN v ELSE pendingGet
         /\ pendingCall' = IF pendingCall = o THEN v ELSE pendingCall
         /\ Follow(queue, Sharers(o), queue')
         /\ queue' \in Seq(Readers)
<1>. DEFINE W == Sharers(o)
<1>1. \E order \in Bijection(1..Cardinality(W), W) : queue' = queue \o order
  BY DEF Settle, Sharers
<1>2. Cardinality(W) \in Nat
  BY Constants, FS_Subset, FS_CardinalityType DEF Sharers
<1>3. Follow(queue, W, queue')
  <2>1. W \in SUBSET Readers /\ queue \in Seq(Readers)
    BY DEF TypeOK, Sharers
  <2>. HIDE DEF W
  <2>. QED
    BY <1>1, <1>2, <2>1, FollowedByAll
<1>4. queue' \in Seq(Readers)
  BY <1>3 DEF Follow
<1>. QED
  BY <1>3, <1>4 DEF Settle

\* A promise issued at s settles with what was read, or fails.
Settles(s, o, v) ==
  /\ Issued(o, s)
  /\ Settle(o, v)
  /\ \/ v = rejected /\ faults' = faults + 1
     \/ v = read[o] /\ v # Nothing /\ faults' = faults
  /\ UNCHANGED <<version, entry, pc, sets, answer, floor, since, before, late>>

\* The steps there are.
LEMMA Steps ==
  ASSUME [Next]_vars
  PROVE  \/ UNCHANGED vars
         \/ Update
         \/ Expire
         \/ \E r \in Readers : \/ Start(r) \/ StoreReads(r) \/ CallReads(r)
                               \/ Fetched(r) \/ Hits(r) \/ Fails(r) \/ Misses(r)
                               \/ Stores(r) \/ Throws(r)
         \/ \E o \in Readers : \E s \in {"getting", "calling"} : \E v : Settles(s, o, v)
         \/ \E s \in sets : SetLands(s) \/ SetFails(s)
<1>1. ASSUME NEW o \in Readers,
             GetReturns(o) \/ GetFails(o) \/ CallReturns(o) \/ CallFails(o)
      PROVE  \E s \in {"getting", "calling"} : \E v : Settles(s, o, v)
  <2>1. CASE GetReturns(o)
    <3>1. Settles("getting", o, read[o])
      BY <2>1 DEF GetReturns, Settles
    <3>. QED
      BY <3>1
  <2>2. CASE GetFails(o)
    <3>1. Settles("getting", o, rejected)
      BY <2>2 DEF GetFails, Fault, Settles
    <3>. QED
      BY <3>1
  <2>3. CASE CallReturns(o)
    <3>1. Settles("calling", o, read[o])
      BY <2>3 DEF CallReturns, Settles
    <3>. QED
      BY <3>1
  <2>4. CASE CallFails(o)
    <3>1. Settles("calling", o, rejected)
      BY <2>4 DEF CallFails, Fault, Settles
    <3>. QED
      BY <3>1
  <2>. QED
    BY <1>1, <2>1, <2>2, <2>3, <2>4
<1>. QED
  BY <1>1, Zenon DEF Next, Microtask

\* What a promise settles with.
LEMMA SettlesWith ==
  ASSUME TypeOK, NEW o \in Readers, NEW s, NEW v, Settles(s, o, v)
  PROVE  v \in Outcomes /\ v \notin Readers /\ v # Nothing
BY Constants DEF TypeOK, Settles, Outcomes

\* The queue after the microtask of r has run.
LEMMA AfterHead ==
  ASSUME TypeOK, NEW r, NEW s, Resumes(r, s)
  PROVE  /\ queue # <<>> /\ Head(queue) = r /\ queue[1] = r /\ 1 \in DOMAIN queue
         /\ r \in Readers /\ In(r, queue)
         /\ Tail(queue) \in Seq(Readers)
BY QueueOf, TailOf DEF Resumes, TypeOK, In

LEMMA TypeStep ==
  ASSUME TypeOK, [Next]_vars
  PROVE  TypeOK'
<1>. USE Constants DEF TypeOK
<1>1. CASE Update
  BY <1>1, CoalescedReadsAssumption DEF Update, Versions
<1>2. CASE Expire
  BY <1>2 DEF Expire
<1>3. ASSUME NEW r \in Readers, Start(r)
      PROVE  TypeOK'
  <2>1. Oldest(Around) \in Versions /\ Oldest(Current) \in Versions
    BY CountsFrom
  <2>2. PICK p : p = IF pendingGet = Nothing THEN r ELSE pendingGet
    OBVIOUS
  <2>3. p \in Readers \cup Outcomes /\ pendingGet' = p /\ Await(r, p, queue)
    BY <1>3, <2>2 DEF Start
  <2>4. awaits' = [awaits EXCEPT ![r] = p] /\ queue' \in Seq(Readers)
    <3>1. queue \in Seq(Readers)
      OBVIOUS
    <3>. HIDE DEF TypeOK
    <3>. QED
      BY <2>3, <3>1, AwaitEffect, Zenon
  <2>5. before' \in [Readers -> Int]
    BY <1>3 DEF Start
  <2>. QED
    BY <1>3, <2>1, <2>3, <2>4, <2>5 DEF Start, NoAnswer, Answer
<1>4. ASSUME NEW r \in Readers, StoreReads(r)
      PROVE  TypeOK'
  BY <1>4 DEF StoreReads
<1>5. ASSUME NEW r \in Readers, CallReads(r)
      PROVE  TypeOK'
  BY <1>5 DEF CallReads
<1>6. ASSUME NEW r \in Readers, Fetched(r)
      PROVE  TypeOK'
  <2>1. queue' \in Seq(Readers)
    BY <1>6, AfterHead, FollowedByOne DEF Fetched, Follow
  <2>. QED
    BY <1>6, <2>1 DEF Fetched
<1>7. ASSUME NEW r \in Readers, Hits(r)
      PROVE  TypeOK'
  <2>1. queue' \in Seq(Readers)
    BY <1>7, AfterHead DEF Hits
  <2>. QED
    BY <1>7, <2>1 DEF Hits, Answers, Answer, Outcomes
<1>8. ASSUME NEW r \in Readers, Fails(r)
      PROVE  TypeOK'
  <2>1. queue' \in Seq(Readers)
    BY <1>8, AfterHead DEF Fails
  <2>. QED
    BY <1>8, <2>1 DEF Fails, Answers, Error, Answer, Outcomes
<1>9. ASSUME NEW r \in Readers, Misses(r)
      PROVE  TypeOK'
  <2>1. PICK p : p = IF pendingCall = Nothing THEN r ELSE pendingCall
    OBVIOUS
  <2>2. p \in Readers \cup Outcomes /\ pendingCall' = p /\ Await(r, p, Tail(queue))
        /\ late' = (late \/ p \notin Readers)
    BY <1>9, <2>1 DEF Misses
  <2>3. awaits' = [awaits EXCEPT ![r] = p] /\ queue' \in Seq(Readers)
    <3>1. Tail(queue) \in Seq(Readers)
      BY <1>9, AfterHead DEF Misses
    <3>. HIDE DEF TypeOK
    <3>. QED
      BY <2>2, <3>1, AwaitEffect, Zenon
  <2>. QED
    BY <1>9, <2>2, <2>3 DEF Misses
<1>10. ASSUME NEW r \in Readers, Stores(r)
       PROVE  TypeOK'
  <2>1. queue' \in Seq(Readers)
    BY <1>10, AfterHead DEF Stores
  <2>2. sets' \subseteq Set
    BY <1>10 DEF Stores, Set
  <2>. QED
    BY <1>10, <2>1, <2>2 DEF Stores, ForgetCall
<1>11. ASSUME NEW r \in Readers, Throws(r)
       PROVE  TypeOK'
  <2>1. queue' \in Seq(Readers)
    BY <1>11, AfterHead DEF Throws
  <2>. QED
    BY <1>11, <2>1 DEF Throws, ForgetCall, Answers, Error, Answer, Outcomes
<1>12. ASSUME NEW o \in Readers, NEW s \in {"getting", "calling"}, NEW v, Settles(s, o, v)
       PROVE  TypeOK'
  <2>1. v \in Outcomes /\ Settle(o, v) /\ faults' \in Nat
    BY <1>12, SettlesWith DEF Settles
  <2>2. /\ awaits' = [r \in Readers |-> IF awaits[r] = o THEN v ELSE awaits[r]]
        /\ read' = [read EXCEPT ![o] = Nothing]
        /\ pendingGet' = IF pendingGet = o THEN v ELSE pendingGet
        /\ pendingCall' = IF pendingCall = o THEN v ELSE pendingCall
        /\ queue' \in Seq(Readers)
    <3>. HIDE DEF TypeOK
    <3>. QED
      BY <2>1, SettleEffect, Zenon
  <2>. QED
    BY <1>12, <2>1, <2>2 DEF Settles
<1>13. ASSUME NEW s \in sets, SetLands(s)
       PROVE  TypeOK'
  BY <1>13 DEF SetLands, Answers, Answer, Set, Outcomes
<1>14. ASSUME NEW s \in sets, SetFails(s)
       PROVE  TypeOK'
  BY <1>14 DEF SetFails, Fault, Answers, Error, Answer, Set, Outcomes
<1>15. CASE UNCHANGED vars
  BY <1>15 DEF vars
<1>. QED
  BY <1>1, <1>2, <1>3, <1>4, <1>5, <1>6, <1>7, <1>8, <1>9, <1>10, <1>11,
     <1>12, <1>13, <1>14, <1>15, Steps

LEMMA TypeInit == Init => TypeOK
<1>. SUFFICES ASSUME Init PROVE TypeOK
  OBVIOUS
<1>. USE Constants DEF Init
<1>1. queue \in Seq(Readers)
  BY EmptySeq
<1>2. answer \in [Readers -> Answer]
  BY DEF NoAnswer, Answer
<1>3. /\ awaits \in [Readers -> Readers \cup Outcomes]
      /\ pc \in [Readers -> {"idle", "getting", "fetched", "calling", "setting"}]
      /\ read \in [Readers -> Versions \cup {undefined, Nothing}]
      /\ floor \in [Readers -> Versions] /\ since \in [Readers -> Versions]
      /\ before \in [Readers -> Int]
  BY DEF Outcomes
<1>. QED
  BY <1>1, <1>2, <1>3 DEF TypeOK

\* The state of CoalescedReads keeps its types, whatever fails.
THEOREM TypeCorrect == Spec => []TypeOK
BY TypeInit, TypeStep, PTL DEF Spec

----------------------------------------------------------------------------
(* Who waits, and who is to resume.                                        *)

Ready(r) == pc[r] \in {"getting", "fetched", "calling"} /\ awaits[r] \in Outcomes

\* A reader that resumes waits for nothing, and nobody waits for it.
LEMMA Resuming ==
  ASSUME TypeOK, Scheduled, Pending, NEW r, NEW s, Resumes(r, s)
  PROVE  /\ r \in Readers /\ pc[r] = s /\ awaits[r] \in Outcomes /\ awaits[r] \notin Readers
         /\ s \in {"getting", "fetched", "calling"}
         /\ \A q \in Readers : awaits[q] # r
         /\ read[r] = Nothing
<1>1. r \in Readers /\ In(r, queue) /\ pc[r] = s
  BY AfterHead DEF Resumes
<1>2. awaits[r] \in Outcomes /\ s \in {"getting", "fetched", "calling"}
  BY <1>1 DEF Scheduled, In
<1>3. awaits[r] \notin Readers
  BY <1>2, Constants
<1>. QED
  BY <1>1, <1>2, <1>3 DEF Pending, Issued

\* A reader that waits for its set waits for nothing else, and nobody for it.
LEMMA Setting ==
  ASSUME TypeOK, Pending, NEW s \in sets
  PROVE  /\ s.by \in Readers /\ s.val \in Versions /\ pc[s.by] = "setting"
         /\ awaits[s.by] \notin Readers
         /\ \A q \in Readers : awaits[q] # s.by
         /\ read[s.by] = Nothing
<1>1. s.by \in Readers /\ s.val \in Versions /\ pc[s.by] = "setting"
  BY DEF TypeOK, Set, Pending
<1>. QED
  BY <1>1 DEF Pending, Issued

LEMMA PendingStep ==
  ASSUME TypeOK, Scheduled, Pending, [Next]_vars
  PROVE  Pending'
<1>. USE Constants DEF TypeOK, Pending, Issued
<1>1. CASE Update
  BY <1>1 DEF Update
<1>2. CASE Expire
  BY <1>2 DEF Expire
<1>3. ASSUME NEW r \in Readers, Start(r)
      PROVE  Pending'
  <2>1. PICK p : p = IF pendingGet = Nothing THEN r ELSE pendingGet
    OBVIOUS
  <2>2. /\ pendingGet' = p /\ awaits' = [awaits EXCEPT ![r] = p]
        /\ pc[r] = "idle" /\ pc' = [pc EXCEPT ![r] = "getting"]
        /\ UNCHANGED <<read, pendingCall, sets>>
    BY <1>3, <2>1 DEF Start, Await
  <2>3. /\ \A q \in Readers : awaits[q] # r
        /\ \A s \in sets : s.by # r
    BY <2>2
  <2>4. p \in Readers /\ p # r => pc[p] = "getting" /\ awaits[p] = p
    BY <2>1
  <2>. QED
    BY <2>2, <2>3, <2>4 DEF Set
<1>4. ASSUME NEW r \in Readers, StoreReads(r)
      PROVE  Pending'
  BY <1>4 DEF StoreReads
<1>5. ASSUME NEW r \in Readers, CallReads(r)
      PROVE  Pending'
  BY <1>5 DEF CallReads
<1>6. ASSUME NEW r \in Readers, Fetched(r)
      PROVE  Pending'
  <2>1. /\ pc[r] = "getting" /\ awaits[r] \notin Readers
        /\ read[r] = Nothing /\ \A q \in Readers : awaits[q] # r
    BY <1>6, Resuming DEF Fetched
  <2>. QED
    BY <1>6, <2>1 DEF Fetched, Set
<1>7. ASSUME NEW r \in Readers, Hits(r)
      PROVE  Pending'
  <2>1. /\ pc[r] = "fetched" /\ awaits[r] \notin Readers
        /\ read[r] = Nothing /\ \A q \in Readers : awaits[q] # r
    BY <1>7, Resuming DEF Hits
  <2>. QED
    BY <1>7, <2>1 DEF Hits, Answers, Set
<1>8. ASSUME NEW r \in Readers, Fails(r)
      PROVE  Pending'
  <2>1. /\ pc[r] = "fetched" /\ awaits[r] \notin Readers
        /\ read[r] = Nothing /\ \A q \in Readers : awaits[q] # r
    BY <1>8, Resuming DEF Fails
  <2>. QED
    BY <1>8, <2>1 DEF Fails, Answers, Set
<1>9. ASSUME NEW r \in Readers, Misses(r)
      PROVE  Pending'
  <2>1. /\ pc[r] = "fetched" /\ awaits[r] \notin Readers
        /\ read[r] = Nothing /\ \A q \in Readers : awaits[q] # r
    BY <1>9, Resuming DEF Misses
  <2>2. PICK p : p = IF pendingCall = Nothing THEN r ELSE pendingCall
    OBVIOUS
  <2>3. /\ pendingCall' = p /\ awaits' = [awaits EXCEPT ![r] = p]
        /\ pc' = [pc EXCEPT ![r] = "calling"]
        /\ UNCHANGED <<read, pendingGet, sets>>
    BY <1>9, <2>2 DEF Misses, Await
  <2>4. p \in Readers /\ p # r => pc[p] = "calling" /\ awaits[p] = p
    BY <2>2
  <2>. QED
    BY <2>1, <2>3, <2>4 DEF Set
<1>10. ASSUME NEW r \in Readers, Stores(r)
       PROVE  Pending'
  <2>1. /\ pc[r] = "calling" /\ awaits[r] \notin Readers
        /\ read[r] = Nothing /\ \A q \in Readers : awaits[q] # r
    BY <1>10, Resuming DEF Stores
  <2>2. \A s \in sets : s.by # r
    BY <2>1
  <2>. QED
    BY <1>10, <2>1, <2>2 DEF Stores, ForgetCall, Set
<1>11. ASSUME NEW r \in Readers, Throws(r)
       PROVE  Pending'
  <2>1. /\ pc[r] = "calling" /\ awaits[r] \notin Readers
        /\ read[r] = Nothing /\ \A q \in Readers : awaits[q] # r
    BY <1>11, Resuming DEF Throws
  <2>. QED
    BY <1>11, <2>1 DEF Throws, ForgetCall, Answers, Set
<1>12. ASSUME NEW o \in Readers, NEW s \in {"getting", "calling"}, NEW v, Settles(s, o, v)
       PROVE  Pending'
  <2>1. v \in Outcomes /\ v \notin Readers /\ v # Nothing
    BY <1>12, SettlesWith
  <2>2. /\ awaits' = [r \in Readers |-> IF awaits[r] = o THEN v ELSE awaits[r]]
        /\ read' = [read EXCEPT ![o] = Nothing]
        /\ pendingGet' = IF pendingGet = o THEN v ELSE pendingGet
        /\ pendingCall' = IF pendingCall = o THEN v ELSE pendingCall
    <3>1. Settle(o, v)
      BY <1>12 DEF Settles
    <3>. HIDE DEF TypeOK, Pending, Issued
    <3>. QED
      BY <3>1, SettleEffect, Zenon
  <2>3. pc' = pc /\ sets' = sets
    BY <1>12 DEF Settles
  <2>4. \A r \in Readers : awaits'[r] \in Readers => awaits'[r] = awaits[r] /\ awaits[r] # o
    BY <2>1, <2>2
  <2>. QED
    BY <2>1, <2>2, <2>3, <2>4
<1>13. ASSUME NEW s \in sets, SetLands(s)
       PROVE  Pending'
  BY <1>13, Setting DEF SetLands, Answers, Set
<1>14. ASSUME NEW s \in sets, SetFails(s)
       PROVE  Pending'
  BY <1>14, Setting DEF SetFails, Answers, Set
<1>15. CASE UNCHANGED vars
  BY <1>15 DEF vars
<1>. QED
  BY <1>1, <1>2, <1>3, <1>4, <1>5, <1>6, <1>7, <1>8, <1>9, <1>10, <1>11,
     <1>12, <1>13, <1>14, <1>15, Steps

\* The steps with a promise in them, taken apart.
LEMMA StartEffect ==
  ASSUME TypeOK, NEW r \in Readers, Start(r)
  PROVE  \E p \in Readers \cup Outcomes :
           /\ p = IF pendingGet = Nothing THEN r ELSE pendingGet
           /\ pendingGet' = p
           /\ awaits' = [awaits EXCEPT ![r] = p]
           /\ p \in Readers => queue' = queue
           /\ p \notin Readers => Follow(queue, {r}, queue')
           /\ pc[r] = "idle" /\ pc' = [pc EXCEPT ![r] = "getting"]
<1>1. PICK p : p = IF pendingGet = Nothing THEN r ELSE pendingGet
  OBVIOUS
<1>2. p \in Readers \cup Outcomes /\ queue \in Seq(Readers)
  BY <1>1 DEF TypeOK
<1>3. Await(r, p, queue) /\ pendingGet' = p
  BY <1>1 DEF Start
<1>4. pc[r] = "idle" /\ pc' = [pc EXCEPT ![r] = "getting"]
  BY DEF Start
<1>. QED
  BY <1>1, <1>2, <1>3, <1>4, AwaitEffect

LEMMA MissesEffect ==
  ASSUME TypeOK, NEW r \in Readers, Misses(r)
  PROVE  \E p \in Readers \cup Outcomes :
           /\ p = IF pendingCall = Nothing THEN r ELSE pendingCall
           /\ pendingCall' = p
           /\ awaits' = [awaits EXCEPT ![r] = p]
           /\ p \in Readers => queue' = Tail(queue)
           /\ p \notin Readers => Follow(Tail(queue), {r}, queue')
           /\ late' = (late \/ p \notin Readers)
           /\ pc' = [pc EXCEPT ![r] = "calling"]
<1>1. PICK p : p = IF pendingCall = Nothing THEN r ELSE pendingCall
  OBVIOUS
<1>2. p \in Readers \cup Outcomes
  BY <1>1 DEF TypeOK
<1>3. Tail(queue) \in Seq(Readers)
  BY AfterHead DEF Misses
<1>4. Await(r, p, Tail(queue)) /\ pendingCall' = p /\ late' = (late \/ p \notin Readers)
      /\ pc' = [pc EXCEPT ![r] = "calling"]
  BY <1>1 DEF Misses
<1>. QED
  BY <1>1, <1>2, <1>3, <1>4, AwaitEffect

LEMMA SettlesEffect ==
  ASSUME TypeOK, NEW o \in Readers, NEW s, NEW v, Settles(s, o, v)
  PROVE  /\ v \in Outcomes /\ v \notin Readers /\ v # Nothing
         /\ awaits' = [r \in Readers |-> IF awaits[r] = o THEN v ELSE awaits[r]]
         /\ read' = [read EXCEPT ![o] = Nothing]
         /\ pendingGet' = IF pendingGet = o THEN v ELSE pendingGet
         /\ pendingCall' = IF pendingCall = o THEN v ELSE pendingCall
         /\ Follow(queue, Sharers(o), queue')
         /\ pc[o] = s /\ awaits[o] = o
<1>1. v \in Outcomes /\ v \notin Readers /\ v # Nothing
  BY SettlesWith
<1>2. Settle(o, v)
  BY DEF Settles
<1>3. /\ awaits' = [r \in Readers |-> IF awaits[r] = o THEN v ELSE awaits[r]]
      /\ read' = [read EXCEPT ![o] = Nothing]
      /\ pendingGet' = IF pendingGet = o THEN v ELSE pendingGet
      /\ pendingCall' = IF pendingCall = o THEN v ELSE pendingCall
      /\ Follow(queue, Sharers(o), queue')
  BY <1>2, SettleEffect, Zenon
<1>. QED
  BY <1>1, <1>3 DEF Settles, Issued

\* Whoever shares what o issued is where o is.
LEMMA Sharing ==
  ASSUME TypeOK, Pending, NEW o \in Readers, NEW s, Issued(o, s)
  PROVE  \A r \in Readers : awaits[r] = o => pc[r] = s /\ pc[r] \in {"getting", "calling"}
BY DEF Pending, Issued

LEMMA ScheduledMeans ==
  ASSUME TypeOK
  PROVE  Scheduled <=> Once(queue) /\ \A r \in Readers : In(r, queue) <=> Ready(r)
BY DEF Scheduled, Once, In, Ready

LEMMA ScheduledAfter ==
  ASSUME Once(queue)', \A r \in Readers : In(r, queue)' <=> Ready(r)'
  PROVE  Scheduled'
BY DEF Scheduled, Once, In, Ready

LEMMA ScheduledStep ==
  ASSUME TypeOK, Scheduled, Pending, [Next]_vars
  PROVE  Scheduled'
<1>. DEFINE Q == Once(queue') /\ \A r \in Readers : In(r, queue') <=> Ready(r)'
<1>1. Once(queue) /\ \A r \in Readers : In(r, queue) <=> Ready(r)
  BY ScheduledMeans
<1>2. queue \in Seq(Readers) /\ pc \in [Readers -> {"idle", "getting", "fetched", "calling", "setting"}]
      /\ awaits \in [Readers -> Readers \cup Outcomes]
  BY DEF TypeOK
<1>3. SUFFICES Q
  BY ScheduledAfter DEF Once, In
<1>4. ASSUME NEW r \in Readers, NEW s, Resumes(r, s)
      PROVE  /\ Once(Tail(queue)) /\ Tail(queue) \in Seq(Readers)
             /\ \A q \in Readers : In(q, Tail(queue)) <=> Ready(q) /\ q # r
             /\ pc[r] = s /\ awaits[r] \in Outcomes
  BY <1>1, <1>2, <1>4, AfterHead, TailIn, Resuming
<1>5. ASSUME NEW r \in Readers, NEW s, Resumes(r, s), queue' = Tail(queue), ~ Ready(r)',
             \A q \in Readers \ {r} : Ready(q)' = Ready(q)
      PROVE  Q
  BY <1>4, <1>5
<1>6. CASE UNCHANGED <<queue, pc, awaits>>
  BY <1>1, <1>6 DEF Ready
<1>7. ASSUME NEW r \in Readers, Start(r)
      PROVE  Q
  <2>1. PICK p \in Readers \cup Outcomes :
           /\ awaits' = [awaits EXCEPT ![r] = p]
           /\ p \in Readers => queue' = queue
           /\ p \notin Readers => Follow(queue, {r}, queue')
           /\ pc[r] = "idle" /\ pc' = [pc EXCEPT ![r] = "getting"]
    BY <1>7, StartEffect
  <2>2. ~ Ready(r) /\ \A q \in Readers \ {r} : Ready(q)' = Ready(q)
    BY <1>2, <2>1 DEF Ready
  <2>3. Ready(r)' <=> p \notin Readers
    BY <1>2, <2>1, Constants DEF Ready
  <2>4. CASE p \in Readers
    BY <1>1, <2>1, <2>2, <2>3, <2>4
  <2>5. CASE p \notin Readers
    <3>1. Once(queue') /\ \A q : In(q, queue') <=> In(q, queue) \/ q = r
      BY <1>1, <1>2, <2>1, <2>2, <2>5, FollowOneIn
    <3>. QED
      BY <1>1, <2>2, <2>3, <2>5, <3>1
  <2>. QED
    BY <2>4, <2>5
<1>8. ASSUME NEW r \in Readers, Fetched(r)
      PROVE  Q
  <2>1. Resumes(r, "getting") /\ queue' = Append(Tail(queue), r)
        /\ pc' = [pc EXCEPT ![r] = "fetched"] /\ awaits' = awaits
    BY <1>8 DEF Fetched
  <2>2. Follow(Tail(queue), {r}, queue')
    BY <1>4, <2>1, FollowedByOne
  <2>3. Ready(r)' /\ \A q \in Readers \ {r} : Ready(q)' = Ready(q)
    BY <1>2, <1>4, <2>1 DEF Ready
  <2>4. Once(queue') /\ \A q : In(q, queue') <=> In(q, Tail(queue)) \/ q = r
    BY <1>4, <2>1, <2>2, FollowOneIn
  <2>. QED
    BY <1>4, <2>1, <2>3, <2>4
<1>9. ASSUME NEW r \in Readers, Hits(r) \/ Fails(r)
      PROVE  Q
  <2>1. Resumes(r, "fetched") /\ queue' = Tail(queue)
        /\ pc' = [pc EXCEPT ![r] = "idle"] /\ awaits' = [awaits EXCEPT ![r] = undefined]
    BY <1>9 DEF Hits, Fails, Answers
  <2>. QED
    BY <1>2, <1>5, <2>1 DEF Ready
<1>10. ASSUME NEW r \in Readers, Misses(r)
       PROVE  Q
  <2>1. PICK p \in Readers \cup Outcomes :
           /\ awaits' = [awaits EXCEPT ![r] = p]
           /\ p \in Readers => queue' = Tail(queue)
           /\ p \notin Readers => Follow(Tail(queue), {r}, queue')
           /\ pc' = [pc EXCEPT ![r] = "calling"]
    BY <1>10, MissesEffect
  <2>2. Resumes(r, "fetched")
    BY <1>10 DEF Misses
  <2>3. \A q \in Readers \ {r} : Ready(q)' = Ready(q)
    BY <1>2, <2>1 DEF Ready
  <2>4. Ready(r)' <=> p \notin Readers
    BY <1>2, <2>1, Constants DEF Ready
  <2>5. CASE p \in Readers
    BY <1>4, <2>1, <2>2, <2>3, <2>4, <2>5
  <2>6. CASE p \notin Readers
    <3>1. Once(queue') /\ \A q : In(q, queue') <=> In(q, Tail(queue)) \/ q = r
      BY <1>4, <2>1, <2>2, <2>6, FollowOneIn
    <3>. QED
      BY <1>4, <2>2, <2>3, <2>4, <2>6, <3>1
  <2>. QED
    BY <2>5, <2>6
<1>11. ASSUME NEW r \in Readers, Stores(r)
       PROVE  Q
  <2>1. Resumes(r, "calling") /\ queue' = Tail(queue)
        /\ pc' = [pc EXCEPT ![r] = "setting"] /\ awaits' = awaits
    BY <1>11 DEF Stores
  <2>. QED
    BY <1>2, <1>5, <2>1 DEF Ready
<1>12. ASSUME NEW r \in Readers, Throws(r)
       PROVE  Q
  <2>1. Resumes(r, "calling") /\ queue' = Tail(queue)
        /\ pc' = [pc EXCEPT ![r] = "idle"] /\ awaits' = [awaits EXCEPT ![r] = undefined]
    BY <1>12 DEF Throws, Answers
  <2>. QED
    BY <1>2, <1>5, <2>1 DEF Ready
<1>13. ASSUME NEW o \in Readers, NEW s \in {"getting", "calling"}, NEW v, Settles(s, o, v)
       PROVE  Q
  <2>. DEFINE W == Sharers(o)
  <2>1. /\ awaits' = [r \in Readers |-> IF awaits[r] = o THEN v ELSE awaits[r]]
        /\ Follow(queue, W, queue')
        /\ v \in Outcomes
    BY <1>13, SettlesEffect
  <2>6. pc' = pc
    BY <1>13 DEF Settles
  <2>2. \A r \in W : pc[r] \in {"getting", "calling"}
    BY <1>13, Sharing DEF Settles, Sharers
  <2>3. \A r \in W : ~ Ready(r) /\ Ready(r)'
    BY <1>2, <2>1, <2>2, <2>6, Constants DEF Ready, Sharers
  <2>4. \A r \in Readers \ W : Ready(r)' = Ready(r)
    BY <1>2, <2>1, <2>6 DEF Ready, Sharers
  <2>5. Once(queue') /\ \A r : In(r, queue') <=> In(r, queue) \/ r \in W
    <3>1. W \in SUBSET Readers
      BY DEF Sharers
    <3>2. \A r \in W : ~ In(r, queue)
      BY <1>1, <2>3, <3>1
    <3>. HIDE DEF W
    <3>. QED
      BY <1>1, <1>2, <2>1, <3>1, <3>2, FollowIn
  <2>. QED
    BY <1>1, <2>3, <2>4, <2>5
<1>14. ASSUME NEW s \in sets, SetLands(s) \/ SetFails(s)
       PROVE  Q
  <2>1. /\ queue' = queue /\ pc' = [pc EXCEPT ![s.by] = "idle"]
        /\ awaits' = [awaits EXCEPT ![s.by] = undefined]
    BY <1>14 DEF SetLands, SetFails, Answers
  <2>2. s.by \in Readers /\ pc[s.by] = "setting"
    BY Setting
  <2>. QED
    BY <1>1, <1>2, <2>1, <2>2 DEF Ready
<1>15. CASE \/ UNCHANGED vars \/ Update \/ Expire
            \/ \E r \in Readers : StoreReads(r) \/ CallReads(r)
  BY <1>6, <1>15 DEF vars, Update, Expire, StoreReads, CallReads
<1>. QED
  BY <1>7, <1>8, <1>9, <1>10, <1>11, <1>12, <1>13, <1>14, <1>15, Steps

----------------------------------------------------------------------------
(* Bounded staleness.                                                      *)

\* v is, or may get, into the cache.
Reaches(v) ==
  \/ v \in {version, entry}
  \/ \E s \in sets : v = s.val
  \/ \E q \in Readers : pc[q] = "calling" /\ v = Promised(awaits[q])

Fetching(r) == pc[r] \in {"getting", "fetched"}

LEMMA FloorMeans ==
  FloorBelow <=>
    \A r \in Readers :
      /\ \A v \in Versions : Reaches(v) => floor[r] <= v
      /\ Fetching(r) /\ Promised(awaits[r]) \in Versions => floor[r] <= Promised(awaits[r])
BY DEF FloorBelow, Reaches, Fetching

\* Nothing gets around that did not before, and nobody counts from another floor.
LEMMA FloorKept ==
  ASSUME TypeOK, FloorBelow,
         \A v \in Versions : Reaches(v)' => Reaches(v) \/ v = version',
         version' \in Versions, version <= version',
         floor' = floor,
         \A r \in Readers : Fetching(r)' /\ Promised(awaits[r])' \in Versions =>
           \/ Fetching(r) /\ Promised(awaits[r])' = Promised(awaits[r])
           \/ Reaches(Promised(awaits[r])')
  PROVE  FloorBelow'
<1>1. \A r \in Readers : floor[r] \in Versions /\ floor[r] <= version
  BY FloorMeans DEF TypeOK, Reaches
<1>2. ASSUME NEW r \in Readers, NEW v \in Versions, Reaches(v)'
      PROVE  floor'[r] <= v
  <2>1. CASE Reaches(v)
    BY <2>1, FloorMeans
  <2>2. CASE v = version'
    <3>1. floor[r] \in Nat /\ version \in Nat /\ version' \in Nat /\ floor[r] <= version
      BY <1>1, Constants DEF TypeOK
    <3>. QED
      BY <2>2, <3>1
  <2>. QED
    BY <1>2, <2>1, <2>2
<1>3. ASSUME NEW r \in Readers, Fetching(r)', Promised(awaits[r])' \in Versions
      PROVE  floor'[r] <= Promised(awaits[r])'
  BY <1>3, FloorMeans
<1>4. \A r \in Readers :
        /\ \A v \in Versions : Reaches(v)' => floor'[r] <= v
        /\ Fetching(r)' /\ Promised(awaits[r])' \in Versions => floor'[r] <= Promised(awaits[r])'
  BY <1>2, <1>3
<1>. QED
  BY <1>4 DEF FloorBelow, Reaches, Fetching

\* What the store or the method has read comes from what was around.
LEMMA FloorStep ==
  ASSUME TypeOK, Scheduled, Pending, FloorBelow, NeverOlder, [Next]_vars
  PROVE  FloorBelow' /\ NeverOlder'
<1>. DEFINE Same == \A r \in Readers : Fetching(r)' /\ Promised(awaits[r])' \in Versions =>
                      \/ Fetching(r) /\ Promised(awaits[r])' = Promised(awaits[r])
                      \/ Reaches(Promised(awaits[r])')
            Less == \A v \in Versions : Reaches(v)' => Reaches(v) \/ v = version'
<1>1. /\ pc \in [Readers -> {"idle", "getting", "fetched", "calling", "setting"}]
      /\ awaits \in [Readers -> Readers \cup Outcomes]
      /\ read \in [Readers -> Versions \cup {undefined, Nothing}]
      /\ version \in Nat /\ version \in Versions /\ version <= version
      /\ floor \in [Readers -> Versions] /\ answer \in [Readers -> Answer]
      /\ entry \in Versions \cup {undefined}
  BY Constants DEF TypeOK
<1>2. ASSUME floor' = floor, version' = version, Less, Same
      PROVE  FloorBelow'
  BY <1>1, <1>2, FloorKept
<1>3. ASSUME UNCHANGED <<answer, floor>>
      PROVE  NeverOlder'
  BY <1>3 DEF NeverOlder
<1>4. CASE Update
  <2>1. /\ version' \in Versions /\ version' = version + 1
        /\ UNCHANGED <<entry, pc, awaits, read, sets, answer, floor>>
    BY <1>4, CoalescedReadsAssumption, <1>1 DEF Update, Versions
  <2>2. Less /\ Same
    BY <2>1 DEF Reaches, Fetching, Promised
  <2>. QED
    BY <1>1, <1>3, <2>1, <2>2, FloorKept
<1>5. CASE Expire
  <2>1. /\ entry' = undefined
        /\ UNCHANGED <<version, pc, awaits, read, sets, answer, floor>>
    BY <1>5 DEF Expire
  <2>2. Less /\ Same
    BY <2>1, Constants DEF Reaches, Fetching, Promised
  <2>. QED
    BY <1>2, <1>3, <2>1, <2>2
<1>6. ASSUME NEW r \in Readers, Start(r)
      PROVE  FloorBelow' /\ NeverOlder'
  <2>1. PICK p \in Readers \cup Outcomes :
           /\ p = IF pendingGet = Nothing THEN r ELSE pendingGet
           /\ awaits' = [awaits EXCEPT ![r] = p]
           /\ pc[r] = "idle" /\ pc' = [pc EXCEPT ![r] = "getting"]
    BY <1>6, StartEffect
  <2>2. /\ UNCHANGED <<version, entry, read, sets>>
        /\ answer' = [answer EXCEPT ![r] = NoAnswer]
        /\ floor' = [floor EXCEPT ![r] = Oldest(Around)]
    BY <1>6 DEF Start
  <2>3. \A v \in Versions : Reaches(v)' <=> Reaches(v)
    BY <1>1, <2>1, <2>2 DEF Reaches, Promised
  <2>4. \A v \in Versions : Reaches(v) => v \in Around
    BY DEF Reaches, Around
  <2>5. Promised(p) \in Versions => Promised(p) \in Around
    <3>1. read[r] = Nothing
      BY <2>1 DEF Pending, Issued
    <3>2. CASE pendingGet = Nothing
      BY <2>1, <3>1, <3>2, Constants DEF Promised
    <3>3. CASE pendingGet # Nothing
      <4>1. PICK q \in Readers : pc[q] = "getting" /\ awaits[q] = pendingGet
        BY <3>3 DEF Pending
      <4>2. q \in GetSharers /\ p = awaits[q]
        BY <2>1, <3>3, <4>1 DEF GetSharers
      <4>. QED
        BY <4>2 DEF Around
    <3>. QED
      BY <3>2, <3>3
  <2>6. \A v \in Around : Oldest(Around) <= v
    BY CountsFrom
  <2>7. \A q \in Readers : q # r =>
          /\ floor'[q] = floor[q] /\ awaits'[q] = awaits[q] /\ pc'[q] = pc[q]
          /\ answer'[q] = answer[q]
    BY <1>1, <2>1, <2>2
  <2>8. floor'[r] = Oldest(Around) /\ awaits'[r] = p /\ answer'[r] = NoAnswer
    BY <1>1, <2>1, <2>2
  <2>9. \A x : Promised(x)' = Promised(x)
    BY <2>2 DEF Promised
  <2>10. ASSUME NEW q \in Readers
         PROVE  /\ \A v \in Versions : Reaches(v)' => floor'[q] <= v
                /\ Fetching(q)' /\ Promised(awaits[q])' \in Versions => floor'[q] <= Promised(awaits[q])'
    <3>1. CASE q = r
      <4>1. Promised(awaits[q])' = Promised(p)
        BY <2>2, <2>8, <3>1 DEF Promised
      <4>. QED
        BY <2>3, <2>4, <2>5, <2>6, <2>8, <3>1, <4>1
    <3>2. CASE q # r
      <4>1. Promised(awaits[q])' = Promised(awaits[q]) /\ (Fetching(q)' <=> Fetching(q))
        BY <2>2, <2>7, <3>2 DEF Promised, Fetching
      <4>. QED
        BY <2>3, <2>7, <3>2, <4>1, FloorMeans
    <3>. QED
      BY <3>1, <3>2
  <2>11. FloorBelow'
    BY <2>10 DEF FloorBelow, Reaches, Fetching
  <2>12. NeverOlder'
    BY <2>7, <2>8 DEF NeverOlder, NoAnswer
  <2>. QED
    BY <2>11, <2>12
<1>7. ASSUME NEW r \in Readers, StoreReads(r)
      PROVE  FloorBelow' /\ NeverOlder'
  <2>1. /\ pc[r] = "getting" /\ awaits[r] = r /\ read' = [read EXCEPT ![r] = entry]
        /\ UNCHANGED <<version, entry, pc, awaits, sets, answer, floor>>
    BY <1>7 DEF StoreReads, Issued
  <2>2. \A q \in Readers : awaits[q] = r => pc[q] = "getting"
    BY <2>1 DEF Pending, Issued
  <2>3. \A x : x # r => Promised(x)' = Promised(x)
    BY <1>1, <2>1 DEF Promised
  <2>4. Promised(r)' = entry
    BY <1>1, <2>1 DEF Promised
  <2>5. Less
    BY <2>1, <2>2, <2>3 DEF Reaches
  <2>6. Same
    BY <2>1, <2>3, <2>4 DEF Reaches, Fetching
  <2>. QED
    BY <1>2, <1>3, <2>1, <2>5, <2>6
<1>8. ASSUME NEW r \in Readers, CallReads(r)
      PROVE  FloorBelow' /\ NeverOlder'
  <2>1. /\ pc[r] = "calling" /\ awaits[r] = r /\ read' = [read EXCEPT ![r] = version]
        /\ UNCHANGED <<version, entry, pc, awaits, sets, answer, floor>>
    BY <1>8 DEF CallReads, Issued
  <2>2. \A q \in Readers : awaits[q] = r => pc[q] = "calling"
    BY <2>1 DEF Pending, Issued
  <2>3. \A x : x # r => Promised(x)' = Promised(x)
    BY <1>1, <2>1 DEF Promised
  <2>4. Promised(r)' = version
    BY <1>1, <2>1 DEF Promised
  <2>5. Less
    BY <2>1, <2>3, <2>4 DEF Reaches
  <2>6. Same
    BY <2>1, <2>2, <2>3 DEF Reaches, Fetching
  <2>. QED
    BY <1>2, <1>3, <2>1, <2>5, <2>6
<1>9. ASSUME NEW r \in Readers, Fetched(r)
      PROVE  FloorBelow' /\ NeverOlder'
  <2>1. /\ pc[r] = "getting" /\ pc' = [pc EXCEPT ![r] = "fetched"]
        /\ UNCHANGED <<version, entry, awaits, read, sets, answer, floor>>
    BY <1>9 DEF Fetched, Resumes
  <2>2. \A x : Promised(x)' = Promised(x)
    BY <2>1 DEF Promised
  <2>3. Less /\ Same
    BY <1>1, <2>1, <2>2 DEF Reaches, Fetching
  <2>. QED
    BY <1>2, <1>3, <2>1, <2>3
<1>10. ASSUME NEW r \in Readers, Hits(r) \/ Fails(r)
       PROVE  FloorBelow' /\ NeverOlder'
  <2>1. /\ pc[r] = "fetched" /\ pc' = [pc EXCEPT ![r] = "idle"]
        /\ awaits' = [awaits EXCEPT ![r] = undefined]
        /\ UNCHANGED <<version, entry, read, sets, floor>>
        /\ \/ /\ awaits[r] \in Versions
              /\ answer' = [answer EXCEPT ![r] = [how |-> "cache", val |-> awaits[r]]]
           \/ answer' = [answer EXCEPT ![r] = Error]
    BY <1>10 DEF Hits, Fails, Answers, Resumes
  <2>2. \A x : Promised(x)' = Promised(x)
    BY <2>1 DEF Promised
  <2>3. Less /\ Same
    BY <1>1, <2>1, <2>2 DEF Reaches, Fetching
  <2>4. awaits[r] \in Versions => floor[r] <= awaits[r]
    <3>1. awaits[r] \in Versions => Promised(awaits[r]) = awaits[r]
      BY Constants DEF Promised
    <3>. QED
      BY <2>1, <3>1, FloorMeans DEF Fetching
  <2>5. NeverOlder'
    BY <1>1, <2>1, <2>4, Constants DEF NeverOlder, Error
  <2>. QED
    BY <1>2, <2>1, <2>3, <2>5
<1>11. ASSUME NEW r \in Readers, Misses(r)
       PROVE  FloorBelow' /\ NeverOlder'
  <2>1. PICK p \in Readers \cup Outcomes :
           /\ p = IF pendingCall = Nothing THEN r ELSE pendingCall
           /\ awaits' = [awaits EXCEPT ![r] = p]
           /\ pc' = [pc EXCEPT ![r] = "calling"]
    BY <1>11, MissesEffect
  <2>2. UNCHANGED <<version, entry, read, sets, answer, floor>>
    BY <1>11 DEF Misses
  <2>3. \A x : Promised(x)' = Promised(x)
    BY <2>2 DEF Promised
  <2>4. read[r] = Nothing /\ pc[r] = "fetched"
    BY <1>11, Resuming DEF Misses
  <2>5. Promised(p) \in Versions => Reaches(Promised(p))
    <3>1. CASE pendingCall = Nothing
      BY <2>1, <2>4, <3>1, Constants DEF Promised
    <3>2. CASE pendingCall # Nothing
      <4>1. PICK q \in Readers : pc[q] = "calling" /\ awaits[q] = pendingCall
        BY <3>2 DEF Pending
      <4>. QED
        BY <2>1, <3>2, <4>1 DEF Reaches
    <3>. QED
      BY <3>1, <3>2
  <2>6. /\ \A q \in Readers : q # r => awaits'[q] = awaits[q] /\ pc'[q] = pc[q]
        /\ awaits'[r] = p /\ pc'[r] = "calling"
    BY <1>1, <2>1
  <2>7. Less
    <3>. SUFFICES ASSUME NEW v \in Versions, Reaches(v)'
                  PROVE  Reaches(v)
      OBVIOUS
    <3>1. CASE v \in {version', entry'} \/ \E s \in sets' : v = s.val
      BY <2>2, <3>1 DEF Reaches
    <3>2. CASE \E q \in Readers : pc'[q] = "calling" /\ v = Promised(awaits[q])'
      <4>1. PICK q \in Readers : pc'[q] = "calling" /\ v = Promised(awaits[q])'
        BY <3>2
      <4>2. CASE q = r
        <5>1. v = Promised(p)
          BY <2>2, <2>6, <4>1, <4>2 DEF Promised
        <5>. QED
          BY <2>5, <5>1
      <4>3. CASE q # r
        <5>1. v = Promised(awaits[q]) /\ pc[q] = "calling"
          BY <2>2, <2>6, <4>1, <4>3 DEF Promised
        <5>. QED
          BY <5>1 DEF Reaches
      <4>. QED
        BY <4>2, <4>3
    <3>. QED
      BY <3>1, <3>2 DEF Reaches
  <2>8. Same
    BY <2>2, <2>6 DEF Fetching, Promised
  <2>. QED
    BY <1>2, <1>3, <2>2, <2>7, <2>8
<1>12. ASSUME NEW r \in Readers, Stores(r) \/ Throws(r)
       PROVE  FloorBelow' /\ NeverOlder'
  <2>1. /\ pc[r] = "calling" /\ pc' \in {[pc EXCEPT ![r] = "setting"], [pc EXCEPT ![r] = "idle"]}
        /\ awaits' \in {awaits, [awaits EXCEPT ![r] = undefined]}
        /\ UNCHANGED <<version, entry, read, floor>>
        /\ \/ sets' = sets
           \/ awaits[r] \in Versions /\ sets' = sets \cup {[by |-> r, val |-> awaits[r]]}
        /\ answer' \in {answer, [answer EXCEPT ![r] = Error]}
    BY <1>12 DEF Stores, Throws, Answers, Resumes
  <2>2. \A x : Promised(x)' = Promised(x)
    BY <2>1 DEF Promised
  <2>3. awaits[r] \in Versions => Reaches(awaits[r])
    <3>1. awaits[r] \in Versions => Promised(awaits[r]) = awaits[r]
      BY Constants DEF Promised
    <3>. QED
      BY <2>1, <3>1 DEF Reaches
  <2>4. /\ \A q \in Readers : q # r => awaits'[q] = awaits[q] /\ pc'[q] = pc[q]
        /\ pc'[r] \notin {"getting", "fetched", "calling"}
    BY <1>1, <2>1
  <2>5. Less
    BY <2>1, <2>2, <2>3, <2>4 DEF Reaches
  <2>6. Same
    BY <2>2, <2>4 DEF Fetching
  <2>7. NeverOlder'
    BY <1>1, <2>1 DEF NeverOlder, Error
  <2>. QED
    BY <1>2, <2>1, <2>5, <2>6, <2>7
<1>13. ASSUME NEW o \in Readers, NEW s \in {"getting", "calling"}, NEW v, Settles(s, o, v)
       PROVE  FloorBelow' /\ NeverOlder'
  <2>1. /\ v \in Outcomes /\ v \notin Readers
        /\ awaits' = [r \in Readers |-> IF awaits[r] = o THEN v ELSE awaits[r]]
        /\ read' = [read EXCEPT ![o] = Nothing]
    BY <1>13, SettlesEffect
  <2>2. /\ UNCHANGED <<version, entry, pc, sets, answer, floor>>
        /\ v = rejected \/ v = read[o]
    BY <1>13 DEF Settles
  <2>3. ASSUME NEW q \in Readers, Promised(awaits[q])' \in Versions
        PROVE  Promised(awaits[q])' = Promised(awaits[q])
    <3>1. CASE awaits[q] = o
      <4>1. Promised(awaits[q])' = v /\ Promised(awaits[q]) = read[o]
        BY <2>1, <3>1 DEF Promised
      <4>. QED
        BY <2>2, <2>3, <4>1, Constants
    <3>2. CASE awaits[q] # o
      BY <1>1, <2>1, <3>2 DEF Promised
    <3>. QED
      BY <3>1, <3>2
  <2>4. Less
    BY <2>2, <2>3 DEF Reaches
  <2>5. Same
    BY <2>2, <2>3 DEF Fetching
  <2>. QED
    BY <1>2, <1>3, <2>2, <2>4, <2>5
<1>14. ASSUME NEW s \in sets, SetLands(s) \/ SetFails(s)
       PROVE  FloorBelow' /\ NeverOlder'
  <2>1. /\ pc' = [pc EXCEPT ![s.by] = "idle"] /\ awaits' = [awaits EXCEPT ![s.by] = undefined]
        /\ sets' = sets \ {s} /\ entry' \in {entry, s.val}
        /\ UNCHANGED <<version, read, floor>>
        /\ \/ answer' = [answer EXCEPT ![s.by] = [how |-> "method", val |-> s.val]]
           \/ answer' = [answer EXCEPT ![s.by] = Error]
    BY <1>14 DEF SetLands, SetFails, Answers
  <2>2. s.by \in Readers /\ s.val \in Versions /\ Reaches(s.val)
    BY Setting DEF Reaches
  <2>3. \A x : Promised(x)' = Promised(x)
    BY <2>1 DEF Promised
  <2>4. /\ \A q \in Readers : q # s.by => awaits'[q] = awaits[q] /\ pc'[q] = pc[q]
        /\ pc'[s.by] = "idle"
    BY <1>1, <2>1, <2>2
  <2>5. Less
    BY <2>1, <2>2, <2>3, <2>4 DEF Reaches
  <2>6. Same
    BY <2>3, <2>4 DEF Fetching
  <2>7. floor[s.by] <= s.val
    BY <2>2, FloorMeans
  <2>8. NeverOlder'
    BY <1>1, <2>1, <2>2, <2>7, Constants DEF NeverOlder, Error
  <2>. QED
    BY <1>2, <2>1, <2>5, <2>6, <2>8
<1>15. CASE UNCHANGED vars
  <2>1. UNCHANGED <<version, entry, pc, awaits, read, sets, answer, floor>>
    BY <1>15 DEF vars
  <2>2. Less /\ Same
    BY <2>1 DEF Reaches, Fetching, Promised
  <2>. QED
    BY <1>2, <1>3, <2>1, <2>2
<1>. QED
  BY <1>4, <1>5, <1>6, <1>7, <1>8, <1>9, <1>10, <1>11, <1>12, <1>13, <1>14, <1>15, Steps

----------------------------------------------------------------------------
(* Calls that are over.                                                    *)

Callers == {q \in Readers : pc[q] = "calling"}

\* A reader that joined the call in the map now would not regret it.
Joinable(r) ==
  /\ pendingCall \in Versions => since[r] <= pendingCall
  /\ pendingCall = rejected => before[r] < faults

LEMMA BehindMeans ==
  ASSUME TypeOK, NEW r
  PROVE  Behind(r) <=> Ahead(queue, Callers, r)
<1>1. \A i \in DOMAIN queue : queue[i] \in Readers
  BY QueueOf DEF TypeOK
<1>. QED
  BY <1>1 DEF Behind, Ahead, Callers

LEMMA SettledMeans ==
  ASSUME TypeOK
  PROVE  SettledCall <=>
           \A r \in Readers : Fetching(r) => Joinable(r) \/ Ahead(queue, Callers, r)
BY BehindMeans, Constants DEF SettledCall, Fetching, Joinable

LEMMA SettledAfter ==
  ASSUME TypeOK',
         \A r \in Readers : Fetching(r)' => Joinable(r)' \/ Ahead(queue', Callers', r)
  PROVE  SettledCall'
<1>1. \A i \in DOMAIN queue' : queue'[i] \in Readers
  BY QueueOf DEF TypeOK
<1>2. \A r : Behind(r)' <=> Ahead(queue', Callers', r)
  BY <1>1 DEF Behind, Ahead, Callers
<1>. QED
  BY <1>2, Constants DEF SettledCall, Fetching, Joinable

LEMMA MoreAhead ==
  ASSUME NEW q, NEW C, NEW D, C \subseteq D, NEW r, Ahead(q, C, r)
  PROVE  Ahead(q, D, r)
BY DEF Ahead

LEMMA FollowOneAhead ==
  ASSUME NEW q \in Seq(Readers), NEW x \in Readers, NEW p, Follow(q, {x}, p), NEW C, NEW r
  PROVE  /\ Ahead(q, C, r) => Ahead(p, C, r)
         /\ ~ In(r, q) /\ (\E c \in C : In(c, q)) => Ahead(p, C, r)
<1>. DEFINE N == {x}
<1>1. N \in SUBSET Readers /\ Follow(q, N, p)
  OBVIOUS
<1>. HIDE DEF N
<1>. QED
  BY <1>1, FollowAhead

\* While the map has a call that is over, one who shared it has yet to resume.
LEMMA CallerQueued ==
  ASSUME TypeOK, Scheduled, Pending, pendingCall \in Outcomes
  PROVE  \E c \in Callers : In(c, queue)
<1>1. PICK c \in Readers : pc[c] = "calling" /\ awaits[c] = pendingCall
  BY Constants DEF Pending
<1>2. In(c, queue)
  BY <1>1 DEF Scheduled, In
<1>. QED
  BY <1>1, <1>2 DEF Callers

LEMMA SettledStep ==
  ASSUME TypeOK, TypeOK', Scheduled, Pending, SettledCall, SinceBelow, FailedSince, [Next]_vars
  PROVE  SettledCall'
<1>. DEFINE Q == \A r \in Readers : Fetching(r)' => Joinable(r)' \/ Ahead(queue', Callers', r)
<1>1. \A r \in Readers : Fetching(r) => Joinable(r) \/ Ahead(queue, Callers, r)
  BY SettledMeans
<1>2. /\ queue \in Seq(Readers) /\ faults \in Nat
      /\ pc \in [Readers -> {"idle", "getting", "fetched", "calling", "setting"}]
      /\ awaits \in [Readers -> Readers \cup Outcomes]
      /\ since \in [Readers -> Versions] /\ before \in [Readers -> Int]
      /\ pendingCall \in Readers \cup Outcomes \cup {Nothing}
  BY DEF TypeOK
<1>3. SUFFICES Q
  BY SettledAfter
<1>4. ASSUME NEW r, pendingCall' \in Readers \cup {Nothing}
      PROVE  Joinable(r)'
  BY <1>4, Constants DEF Joinable
<1>5. ASSUME NEW r \in Readers, UNCHANGED <<pendingCall, since, before>>,
             faults' \in Nat, faults <= faults', Joinable(r)
      PROVE  Joinable(r)'
  BY <1>2, <1>5 DEF Joinable
<1>6. ASSUME UNCHANGED <<queue, pendingCall, since, before>>, faults' \in Nat, faults <= faults',
             \A r \in Readers : pc'[r] = pc[r] \/ (pc[r] = "setting" /\ pc'[r] = "idle")
      PROVE  Q
  <2>1. Callers' = Callers /\ \A r \in Readers : Fetching(r)' <=> Fetching(r)
    BY <1>6 DEF Callers, Fetching
  <2>. QED
    BY <1>1, <1>5, <1>6, <2>1
<1>7. ASSUME NEW r \in Readers, Start(r)
      PROVE  Q
  <2>1. PICK p \in Readers \cup Outcomes :
           /\ p \in Readers => queue' = queue
           /\ p \notin Readers => Follow(queue, {r}, queue')
           /\ pc[r] = "idle" /\ pc' = [pc EXCEPT ![r] = "getting"]
    BY <1>7, StartEffect
  <2>2. /\ UNCHANGED <<pendingCall, faults>>
        /\ \A q \in Readers : q # r => since'[q] = since[q] /\ before'[q] = before[q]
    BY <1>2, <1>7 DEF Start
  <2>3. Callers' = Callers
    BY <1>2, <2>1 DEF Callers
  <2>4. ASSUME NEW q \in Readers, Ahead(queue, Callers, q)
        PROVE  Ahead(queue', Callers', q)
    BY <1>2, <2>1, <2>3, <2>4, FollowOneAhead
  <2>5. ASSUME NEW q \in Readers, q # r, Fetching(q)'
        PROVE  Joinable(q)' \/ Ahead(queue', Callers', q)
    <3>1. Fetching(q) /\ (Joinable(q) => Joinable(q)')
      BY <1>2, <2>1, <2>2, <2>5 DEF Fetching, Joinable
    <3>. QED
      BY <1>1, <2>4, <3>1
  <2>6. Joinable(r)' \/ Ahead(queue', Callers', r)
    <3>1. CASE pendingCall \in Outcomes
      <4>1. ~ In(r, queue)
        BY <2>1 DEF Scheduled, In
      <4>2. \E c \in Callers : In(c, queue)
        BY <3>1, CallerQueued
      <4>3. CASE p \in Readers
        BY <2>1, <2>3, <4>1, <4>2, <4>3 DEF Ahead, In
      <4>4. CASE p \notin Readers
        BY <1>2, <2>1, <2>3, <4>1, <4>2, <4>4, FollowOneAhead
      <4>. QED
        BY <4>3, <4>4
    <3>2. CASE pendingCall \notin Outcomes
      BY <1>2, <1>4, <2>2, <3>2
    <3>. QED
      BY <3>1, <3>2
  <2>. QED
    BY <2>5, <2>6
<1>8. ASSUME NEW r \in Readers, NEW s, Resumes(r, s), r \notin Callers
      PROVE  /\ queue # <<>> /\ Head(queue) = r /\ Tail(queue) \in Seq(Readers)
             /\ \A q : Ahead(queue, Callers, q) => Ahead(Tail(queue), Callers, q)
             /\ Fetching(r) => Joinable(r)
  <2>1. queue # <<>> /\ Head(queue) = r /\ Tail(queue) \in Seq(Readers)
    BY <1>8, AfterHead
  <2>2. \A q : Ahead(queue, Callers, q) => Ahead(Tail(queue), Callers, q)
    BY <1>2, <1>8, <2>1, TailAhead
  <2>3. ~ Ahead(queue, Callers, r)
    BY <1>2, <2>1, HeadNotAhead
  <2>. QED
    BY <1>1, <2>1, <2>2, <2>3
<1>9. ASSUME NEW r \in Readers, Fetched(r)
      PROVE  Q
  <2>1. /\ Resumes(r, "getting") /\ pc[r] = "getting" /\ pc' = [pc EXCEPT ![r] = "fetched"]
        /\ queue' = Append(Tail(queue), r)
        /\ UNCHANGED <<pendingCall, since, before, faults>>
    BY <1>9 DEF Fetched, Resumes
  <2>2. r \notin Callers /\ Callers' = Callers /\ Fetching(r)
        /\ \A q \in Readers : Fetching(q)' <=> Fetching(q)
    BY <1>2, <2>1 DEF Callers, Fetching
  <2>3. Tail(queue) \in Seq(Readers) /\ Follow(Tail(queue), {r}, queue')
    BY <1>8, <2>1, <2>2, FollowedByOne
  <2>4. ASSUME NEW q \in Readers, Ahead(queue, Callers, q)
        PROVE  Ahead(queue', Callers', q)
    BY <1>8, <2>1, <2>2, <2>3, <2>4, FollowOneAhead
  <2>5. \A q \in Readers : Joinable(q) => Joinable(q)'
    BY <2>1 DEF Joinable
  <2>. QED
    BY <1>1, <2>2, <2>4, <2>5
<1>10. ASSUME NEW r \in Readers, Hits(r) \/ Fails(r)
       PROVE  Q
  <2>1. /\ Resumes(r, "fetched") /\ pc[r] = "fetched" /\ pc' = [pc EXCEPT ![r] = "idle"]
        /\ queue' = Tail(queue)
        /\ UNCHANGED <<pendingCall, since, before, faults>>
    BY <1>10 DEF Hits, Fails, Answers, Resumes
  <2>2. r \notin Callers /\ Callers' = Callers
        /\ \A q \in Readers : Fetching(q)' => Fetching(q)
    BY <1>2, <2>1 DEF Callers, Fetching
  <2>3. \A q \in Readers : Joinable(q) => Joinable(q)'
    BY <2>1 DEF Joinable
  <2>. QED
    BY <1>1, <1>8, <2>1, <2>2, <2>3
<1>11. ASSUME NEW r \in Readers, Misses(r)
       PROVE  Q
  <2>1. PICK p \in Readers \cup Outcomes :
           /\ p = IF pendingCall = Nothing THEN r ELSE pendingCall
           /\ pendingCall' = p
           /\ p \notin Readers => Follow(Tail(queue), {r}, queue')
           /\ pc' = [pc EXCEPT ![r] = "calling"]
    BY <1>11, MissesEffect
  <2>2. /\ Resumes(r, "fetched") /\ pc[r] = "fetched"
        /\ UNCHANGED <<since, before, faults>>
    BY <1>11 DEF Misses, Resumes
  <2>3. CASE p \in Readers
    BY <1>4, <2>1, <2>3
  <2>4. CASE p \notin Readers
    <3>1. pendingCall' = pendingCall
      BY <2>1, <2>4
    <3>2. r \notin Callers /\ Callers \subseteq Callers'
          /\ \A q \in Readers : Fetching(q)' => Fetching(q)
      BY <1>2, <2>1, <2>2 DEF Callers, Fetching
    <3>3. ASSUME NEW q \in Readers, Ahead(queue, Callers, q)
          PROVE  Ahead(queue', Callers', q)
      <4>1. Ahead(queue', Callers, q)
        BY <1>8, <2>1, <2>2, <2>4, <3>2, <3>3, FollowOneAhead
      <4>. QED
        BY <3>2, <4>1, MoreAhead
    <3>4. \A q \in Readers : Joinable(q) => Joinable(q)'
      BY <2>2, <3>1 DEF Joinable
    <3>. QED
      BY <1>1, <3>2, <3>3, <3>4
  <2>. QED
    BY <2>3, <2>4
<1>12. ASSUME NEW r \in Readers, Stores(r) \/ Throws(r)
       PROVE  Q
  <2>1. pendingCall' = Nothing
    BY <1>12 DEF Stores, Throws, ForgetCall
  <2>. QED
    BY <1>4, <2>1
<1>13. ASSUME NEW o \in Readers, NEW s \in {"getting", "calling"}, NEW v, Settles(s, o, v)
       PROVE  Q
  <2>1. /\ pendingCall' = IF pendingCall = o THEN v ELSE pendingCall
        /\ Follow(queue, Sharers(o), queue')
        /\ v \notin Readers
    BY <1>13, SettlesEffect
  <2>2. /\ UNCHANGED <<pc, since, before>>
        /\ \/ v = rejected /\ faults' = faults + 1
           \/ v = read[o] /\ v # Nothing /\ faults' = faults
        /\ Issued(o, s)
    BY <1>13 DEF Settles
  <2>3. faults' \in Nat /\ faults <= faults'
    BY <1>2, <2>2
  <2>4. CASE pendingCall = o
    <3>1. s = "calling"
      <4>1. PICK q \in Readers : pc[q] = "calling" /\ awaits[q] = o
        BY <2>4, Constants DEF Pending
      <4>. QED
        BY <2>2, <4>1, Sharing
    <3>2. \A r \in Readers : since[r] <= v \/ v = rejected
      BY <2>2, <3>1 DEF SinceBelow
    <3>3. \A r \in Readers : before[r] <= faults
      BY DEF FailedSince
    <3>4. v # rejected \/ faults' = faults + 1
      BY <2>2, Constants DEF TypeOK
    <3>5. ASSUME NEW r \in Readers
          PROVE  Joinable(r)'
      <4>1. /\ pendingCall' = v /\ since'[r] = since[r] /\ before'[r] = before[r]
            /\ before[r] \in Int /\ before[r] <= faults
        BY <1>2, <2>1, <2>2, <2>4, <3>3
      <4>. QED
        BY <1>2, <3>2, <3>4, <4>1, Constants DEF Joinable
    <3>. QED
      BY <3>5
  <2>5. CASE pendingCall # o
    <3>1. Callers' = Callers /\ \A r \in Readers : Fetching(r)' <=> Fetching(r)
      BY <2>2 DEF Callers, Fetching
    <3>2. \A r \in Readers : Joinable(r) => Joinable(r)'
      BY <1>2, <2>1, <2>2, <2>3, <2>5 DEF Joinable
    <3>3. Sharers(o) \in SUBSET Readers
      BY DEF Sharers
    <3>4. \A r \in Readers : Ahead(queue, Callers, r) => Ahead(queue', Callers', r)
      BY <1>2, <2>1, <3>1, <3>3, FollowAhead
    <3>. QED
      BY <1>1, <3>1, <3>2, <3>4
  <2>. QED
    BY <2>4, <2>5
<1>14. ASSUME NEW s \in sets, SetLands(s) \/ SetFails(s)
       PROVE  Q
  <2>1. /\ UNCHANGED <<queue, pendingCall, since, before>>
        /\ pc' = [pc EXCEPT ![s.by] = "idle"]
        /\ faults' = faults \/ faults' = faults + 1
    BY <1>14 DEF SetLands, SetFails, Answers, Fault
  <2>2. s.by \in Readers /\ pc[s.by] = "setting"
    BY Setting
  <2>. QED
    BY <1>2, <1>6, <2>1, <2>2
<1>15. CASE \/ UNCHANGED vars \/ Update \/ Expire
            \/ \E r \in Readers : StoreReads(r) \/ CallReads(r)
  <2>1. UNCHANGED <<queue, pendingCall, since, before, faults, pc>>
    BY <1>15 DEF vars, Update, Expire, StoreReads, CallReads
  <2>. QED
    BY <1>2, <1>6, <2>1
<1>. QED
  BY <1>7, <1>9, <1>10, <1>11, <1>12, <1>13, <1>14, <1>15, Steps

\* A reader that misses comes before all who share a call, or finds no such.
LEMMA MissesJoinable ==
  ASSUME TypeOK, SettledCall, NEW r \in Readers, NEW s, Resumes(r, s), Fetching(r)
  PROVE  Joinable(r)
<1>1. queue # <<>> /\ Head(queue) = r /\ queue \in Seq(Readers)
  BY AfterHead DEF TypeOK
<1>2. ~ Ahead(queue, Callers, r)
  BY <1>1, HeadNotAhead
<1>. QED
  BY <1>2, SettledMeans

\* A call has not read anything from before the reads that wait for it.
LEMMA SinceStep ==
  ASSUME TypeOK, Scheduled, Pending, SettledCall, SinceBelow, MissIsFresh, [Next]_vars
  PROVE  SinceBelow' /\ MissIsFresh'
<1>. USE DEF SinceBelow, MissIsFresh, Issued
<1>1. /\ pc \in [Readers -> {"idle", "getting", "fetched", "calling", "setting"}]
      /\ awaits \in [Readers -> Readers \cup Outcomes]
      /\ read \in [Readers -> Versions \cup {undefined, Nothing}]
      /\ version \in Versions /\ Versions \subseteq Nat
      /\ since \in [Readers -> Versions] /\ answer \in [Readers -> Answer]
      /\ sets \subseteq Set
  BY Constants DEF TypeOK
<1>2. CASE Update
  <2>1. /\ version' = version + 1 /\ version \in Nat
        /\ UNCHANGED <<pc, awaits, read, sets, answer, since>>
    BY <1>1, <1>2 DEF Update
  <2>2. \A r \in Readers : since[r] \in Nat /\ since[r] <= version
    BY <1>1
  <2>3. \A r \in Readers : since'[r] <= version'
    BY <2>1, <2>2
  <2>4. MissIsFresh'
    BY <2>1
  <2>. QED
    BY <2>1, <2>3, <2>4
<1>3. CASE Expire \/ UNCHANGED vars
  BY <1>3 DEF Expire, vars
<1>4. ASSUME NEW r \in Readers, Start(r)
      PROVE  SinceBelow' /\ MissIsFresh'
  <2>1. PICK p \in Readers \cup Outcomes :
           /\ p = IF pendingGet = Nothing THEN r ELSE pendingGet
           /\ awaits' = [awaits EXCEPT ![r] = p]
           /\ pc[r] = "idle" /\ pc' = [pc EXCEPT ![r] = "getting"]
    BY <1>4, StartEffect
  <2>2. /\ UNCHANGED <<version, read, sets>>
        /\ answer' = [answer EXCEPT ![r] = NoAnswer]
        /\ since' = [since EXCEPT ![r] = Oldest(Current)]
    BY <1>4 DEF Start
  <2>3. /\ Oldest(Current) <= version
        /\ \A o \in Readers : Issued(o, "calling") /\ read[o] # Nothing => Oldest(Current) <= read[o]
    <3>1. \A v \in Current : Oldest(Current) <= v
      BY CountsFrom
    <3>2. \A o \in Readers : Issued(o, "calling") /\ read[o] # Nothing => read[o] \in Versions
      BY DEF Pending
    <3>. QED
      BY <3>1, <3>2 DEF Current
  <2>4. \A s \in sets : s.by # r
    BY <2>1 DEF Pending
  <2>. QED
    BY <1>1, <2>1, <2>2, <2>3, <2>4 DEF NoAnswer
<1>5. ASSUME NEW r \in Readers, StoreReads(r)
      PROVE  SinceBelow' /\ MissIsFresh'
  BY <1>1, <1>5 DEF StoreReads
<1>6. ASSUME NEW r \in Readers, CallReads(r)
      PROVE  SinceBelow' /\ MissIsFresh'
  BY <1>1, <1>6 DEF CallReads
<1>7. ASSUME NEW r \in Readers, Fetched(r)
      PROVE  SinceBelow' /\ MissIsFresh'
  BY <1>1, <1>7 DEF Fetched
<1>8. ASSUME NEW r \in Readers, Hits(r) \/ Fails(r)
      PROVE  SinceBelow' /\ MissIsFresh'
  BY <1>1, <1>8, Constants DEF Hits, Fails, Answers, Error
<1>9. ASSUME NEW r \in Readers, Misses(r)
      PROVE  SinceBelow' /\ MissIsFresh'
  <2>1. PICK p \in Readers \cup Outcomes :
           /\ p = IF pendingCall = Nothing THEN r ELSE pendingCall
           /\ awaits' = [awaits EXCEPT ![r] = p]
           /\ pc' = [pc EXCEPT ![r] = "calling"]
    BY <1>9, MissesEffect
  <2>2. UNCHANGED <<version, read, sets, answer, since>>
    BY <1>9 DEF Misses
  <2>3. Resumes(r, "fetched") /\ Fetching(r)
    BY <1>9 DEF Misses, Resumes, Fetching
  <2>4. read[r] = Nothing
    BY <2>3, Resuming
  <2>5. p \in Versions => since[r] <= p
    <3>1. p \in Versions => p = pendingCall
      BY <2>1, Constants
    <3>. QED
      BY <2>3, <3>1, MissesJoinable DEF Joinable
  <2>. QED
    BY <1>1, <2>1, <2>2, <2>4, <2>5, Constants
<1>10. ASSUME NEW r \in Readers, Stores(r) \/ Throws(r)
       PROVE  SinceBelow' /\ MissIsFresh'
  <2>1. /\ pc[r] = "calling" /\ awaits[r] \notin Readers
        /\ pc' \in {[pc EXCEPT ![r] = "setting"], [pc EXCEPT ![r] = "idle"]}
        /\ awaits' \in {awaits, [awaits EXCEPT ![r] = undefined]}
        /\ UNCHANGED <<version, read, since>>
        /\ \/ sets' = sets
           \/ awaits[r] \in Versions /\ sets' = sets \cup {[by |-> r, val |-> awaits[r]]}
        /\ answer' \in {answer, [answer EXCEPT ![r] = Error]}
    BY <1>10, Resuming DEF Stores, Throws, Answers, Resumes
  <2>. QED
    BY <1>1, <2>1, Constants DEF Error
<1>11. ASSUME NEW o \in Readers, NEW s \in {"getting", "calling"}, NEW v, Settles(s, o, v)
       PROVE  SinceBelow' /\ MissIsFresh'
  <2>1. /\ v \in Outcomes /\ v \notin Readers
        /\ awaits' = [r \in Readers |-> IF awaits[r] = o THEN v ELSE awaits[r]]
        /\ read' = [read EXCEPT ![o] = Nothing]
    BY <1>11, SettlesEffect
  <2>2. /\ UNCHANGED <<version, pc, sets, answer, since>>
        /\ v = rejected \/ (v = read[o] /\ v # Nothing)
        /\ Issued(o, s)
    BY <1>11 DEF Settles
  <2>3. \A r \in Readers : awaits[r] = o => pc[r] = s
    BY <2>2, Sharing
  <2>4. ASSUME NEW r \in Readers, pc[r] = "calling", awaits[r] = o, v \in Versions
        PROVE  since[r] <= v
    BY <2>2, <2>3, <2>4, Constants
  <2>. QED
    BY <1>1, <2>1, <2>2, <2>4, Constants
<1>12. ASSUME NEW s \in sets, SetLands(s) \/ SetFails(s)
       PROVE  SinceBelow' /\ MissIsFresh'
  <2>1. /\ pc' = [pc EXCEPT ![s.by] = "idle"] /\ awaits' = [awaits EXCEPT ![s.by] = undefined]
        /\ sets' = sets \ {s}
        /\ UNCHANGED <<version, read, since>>
        /\ \/ answer' = [answer EXCEPT ![s.by] = [how |-> "method", val |-> s.val]]
           \/ answer' = [answer EXCEPT ![s.by] = Error]
    BY <1>12 DEF SetLands, SetFails, Answers
  <2>2. s.by \in Readers /\ s.val \in Versions /\ since[s.by] <= s.val
    BY Setting
  <2>. QED
    BY <1>1, <2>1, <2>2, Constants DEF Error
<1>. QED
  BY <1>2, <1>3, <1>4, <1>5, <1>6, <1>7, <1>8, <1>9, <1>10, <1>11, <1>12, Steps

\* A failure reaches those who began before it was over.
LEMMA FailedStep ==
  ASSUME TypeOK, Scheduled, Pending, SettledCall, FailedSince, FailuresForgotten, [Next]_vars
  PROVE  FailedSince' /\ FailuresForgotten'
<1>. USE DEF FailedSince, FailuresForgotten
<1>1. /\ pc \in [Readers -> {"idle", "getting", "fetched", "calling", "setting"}]
      /\ awaits \in [Readers -> Readers \cup Outcomes]
      /\ before \in [Readers -> Int] /\ faults \in Nat /\ answer \in [Readers -> Answer]
  BY DEF TypeOK
<1>2. CASE \/ UNCHANGED vars \/ Update \/ Expire
           \/ \E r \in Readers : StoreReads(r) \/ CallReads(r)
  BY <1>2 DEF vars, Update, Expire, StoreReads, CallReads
<1>3. ASSUME NEW r \in Readers, Start(r)
      PROVE  FailedSince' /\ FailuresForgotten'
  <2>1. PICK p \in Readers \cup Outcomes :
           /\ p = IF pendingGet = Nothing THEN r ELSE pendingGet
           /\ awaits' = [awaits EXCEPT ![r] = p]
           /\ pc[r] = "idle" /\ pc' = [pc EXCEPT ![r] = "getting"]
    BY <1>3, StartEffect
  <2>2. /\ faults' = faults
        /\ answer' = [answer EXCEPT ![r] = NoAnswer]
        /\ before' = [before EXCEPT ![r] =
                        IF pendingGet = rejected /\ GetSharers # {} THEN faults - 1 ELSE faults]
    BY <1>3 DEF Start
  <2>3. p = rejected => before'[r] = faults - 1
    <3>1. p = rejected => pendingGet = rejected
      BY <2>1, Constants
    <3>2. pendingGet # Nothing => GetSharers # {}
      BY DEF Pending, GetSharers
    <3>. QED
      BY <1>1, <2>2, <3>1, <3>2, Constants
  <2>. QED
    BY <1>1, <2>1, <2>2, <2>3 DEF NoAnswer
<1>4. ASSUME NEW r \in Readers, Fetched(r)
      PROVE  FailedSince' /\ FailuresForgotten'
  BY <1>1, <1>4 DEF Fetched, Resumes
<1>5. ASSUME NEW r \in Readers, Hits(r)
      PROVE  FailedSince' /\ FailuresForgotten'
  BY <1>1, <1>5 DEF Hits, Answers
<1>6. ASSUME NEW r \in Readers, Fails(r)
      PROVE  FailedSince' /\ FailuresForgotten'
  BY <1>1, <1>6 DEF Fails, Answers, Resumes, Error
<1>7. ASSUME NEW r \in Readers, Misses(r)
      PROVE  FailedSince' /\ FailuresForgotten'
  <2>1. PICK p \in Readers \cup Outcomes :
           /\ p = IF pendingCall = Nothing THEN r ELSE pendingCall
           /\ awaits' = [awaits EXCEPT ![r] = p]
           /\ pc' = [pc EXCEPT ![r] = "calling"]
    BY <1>7, MissesEffect
  <2>2. UNCHANGED <<answer, before, faults>>
    BY <1>7 DEF Misses
  <2>3. Resumes(r, "fetched") /\ Fetching(r)
    BY <1>7 DEF Misses, Resumes, Fetching
  <2>4. p = rejected => before[r] < faults
    <3>1. p = rejected => p = pendingCall
      BY <2>1, Constants
    <3>. QED
      BY <2>3, <3>1, MissesJoinable DEF Joinable
  <2>. QED
    BY <1>1, <2>1, <2>2, <2>4
<1>8. ASSUME NEW r \in Readers, Stores(r)
      PROVE  FailedSince' /\ FailuresForgotten'
  BY <1>1, <1>8 DEF Stores
<1>9. ASSUME NEW r \in Readers, Throws(r)
      PROVE  FailedSince' /\ FailuresForgotten'
  BY <1>1, <1>9 DEF Throws, Answers, Resumes, Error
<1>10. ASSUME NEW o \in Readers, NEW s \in {"getting", "calling"}, NEW v, Settles(s, o, v)
       PROVE  FailedSince' /\ FailuresForgotten'
  <2>1. awaits' = [r \in Readers |-> IF awaits[r] = o THEN v ELSE awaits[r]]
    BY <1>10, SettlesEffect
  <2>2. /\ UNCHANGED <<pc, answer, before>>
        /\ \/ v = rejected /\ faults' = faults + 1
           \/ v = read[o] /\ v # Nothing /\ faults' = faults
    BY <1>10 DEF Settles
  <2>3. \/ faults' = faults + 1
        \/ v # rejected /\ faults' = faults
    BY <2>2, Constants DEF TypeOK
  <2>. QED
    BY <1>1, <2>1, <2>2, <2>3
<1>11. ASSUME NEW s \in sets, SetLands(s)
       PROVE  FailedSince' /\ FailuresForgotten'
  BY <1>1, <1>11, Setting DEF SetLands, Answers
<1>12. ASSUME NEW s \in sets, SetFails(s)
       PROVE  FailedSince' /\ FailuresForgotten'
  BY <1>1, <1>12, Setting DEF SetFails, Fault, Answers
<1>. QED
  BY <1>2, <1>3, <1>4, <1>5, <1>6, <1>7, <1>8, <1>9, <1>10, <1>11, <1>12, Steps

----------------------------------------------------------------------------
(* One call at a time.                                                     *)

\* How those who share the call stand in q.
Rowed(q) ==
  /\ pendingCall \in Readers => Free(q, Callers)
  /\ pendingCall = Nothing => Front(q, Callers)
  /\ Row(q, Callers)

Together == \A r \in Callers : awaits[r] \in Readers => awaits[r] = pendingCall

LEMMA SharedMeans ==
  ASSUME TypeOK
  PROVE  CallShared <=> (~ late => Together /\ Rowed(queue))
<1>1. /\ \A i \in DOMAIN queue : queue[i] \in Readers /\ 1 \in DOMAIN queue
      /\ \A i \in DOMAIN queue : pc[queue[i]] = "calling" <=> queue[i] \in Callers
  <2>1. queue \in Seq(Readers)
    BY DEF TypeOK
  <2>. QED
    BY <2>1, QueueOf DEF Callers
<1>2. Together <=> \A r \in Readers : pc[r] = "calling" /\ awaits[r] \in Readers => awaits[r] = pendingCall
  BY DEF Together, Callers
<1>. QED
  BY <1>1, <1>2 DEF CallShared, Rowed, Free, Front, Row

LEMMA RowedTail ==
  ASSUME NEW q \in Seq(Readers), q # <<>>, Head(q) \notin Callers, Rowed(q)
  PROVE  Rowed(Tail(q))
<1>1. Free(Tail(q), Callers) => Front(Tail(q), Callers)
  BY DEF Free, Front
<1>. QED
  BY <1>1, TailRow DEF Rowed

LEMMA RowedFollow ==
  ASSUME NEW q \in Seq(Readers), NEW N \in SUBSET Readers, NEW p, Follow(q, N, p),
         \A r \in N : r \notin Callers, Rowed(q)
  PROVE  Rowed(p)
BY FollowRow DEF Rowed

LEMMA RowedFollowOne ==
  ASSUME NEW q \in Seq(Readers), NEW r \in Readers, NEW p, Follow(q, {r}, p),
         r \notin Callers, Rowed(q)
  PROVE  Rowed(p)
<1>. DEFINE N == {r}
<1>1. N \in SUBSET Readers /\ Follow(q, N, p) /\ \A x \in N : x \notin Callers
  OBVIOUS
<1>. HIDE DEF N
<1>. QED
  BY <1>1, RowedFollow

\* Nothing happens to those who share a call.
LEMMA RowedAfter ==
  ASSUME Together, UNCHANGED <<pc, pendingCall>> \/ (Callers' = Callers /\ pendingCall' = pendingCall),
         \A r \in Callers : awaits'[r] = awaits[r] \/ awaits'[r] \notin Readers,
         Rowed(queue')
  PROVE  Together' /\ Rowed(queue)'
<1>1. Callers' = Callers /\ pendingCall' = pendingCall
  BY DEF Callers
<1>. QED
  BY <1>1 DEF Together, Rowed, Free, Front, Row

LEMMA SharedStep ==
  ASSUME TypeOK, TypeOK', Scheduled, Pending, CallShared, [Next]_vars
  PROVE  CallShared'
<1>. DEFINE Q == Together' /\ Rowed(queue)'
<1>1. SUFFICES ASSUME ~ late' PROVE Q
  <2>1. CallShared' <=> (~ late' => Q)
    BY SharedMeans, PTL
  <2>. QED
    BY <2>1
<1>2. ~ late => Together /\ Rowed(queue)
  BY SharedMeans
<1>3. /\ queue \in Seq(Readers)
      /\ pc \in [Readers -> {"idle", "getting", "fetched", "calling", "setting"}]
      /\ awaits \in [Readers -> Readers \cup Outcomes]
      /\ pendingCall \in Readers \cup Outcomes \cup {Nothing}
  BY DEF TypeOK
<1>4. CASE \/ UNCHANGED vars \/ Update \/ Expire
           \/ \E r \in Readers : StoreReads(r) \/ CallReads(r)
  <2>1. UNCHANGED <<queue, pc, awaits, pendingCall, late>>
    BY <1>4 DEF vars, Update, Expire, StoreReads, CallReads
  <2>. QED
    BY <1>1, <1>2, <2>1, RowedAfter
<1>5. ASSUME NEW r \in Readers, Start(r)
      PROVE  Q
  <2>1. PICK p \in Readers \cup Outcomes :
           /\ awaits' = [awaits EXCEPT ![r] = p]
           /\ p \in Readers => queue' = queue
           /\ p \notin Readers => Follow(queue, {r}, queue')
           /\ pc[r] = "idle" /\ pc' = [pc EXCEPT ![r] = "getting"]
    BY <1>5, StartEffect
  <2>2. UNCHANGED <<pendingCall, late>>
    BY <1>5 DEF Start
  <2>3. r \notin Callers /\ Callers' = Callers
    BY <1>3, <2>1 DEF Callers
  <2>4. \A q \in Callers : awaits'[q] = awaits[q]
    BY <1>3, <2>1, <2>3 DEF Callers
  <2>5. Together /\ Rowed(queue)
    BY <1>1, <1>2, <2>2
  <2>6. Rowed(queue')
    BY <1>3, <2>1, <2>3, <2>5, RowedFollowOne
  <2>. QED
    BY <2>2, <2>3, <2>4, <2>5, <2>6, RowedAfter
<1>6. ASSUME NEW r \in Readers, Fetched(r)
      PROVE  Q
  <2>1. /\ Resumes(r, "getting") /\ pc[r] = "getting" /\ pc' = [pc EXCEPT ![r] = "fetched"]
        /\ queue' = Append(Tail(queue), r)
        /\ UNCHANGED <<awaits, pendingCall, late>>
    BY <1>6 DEF Fetched, Resumes
  <2>2. r \notin Callers /\ Callers' = Callers
    BY <1>3, <2>1 DEF Callers
  <2>3. queue # <<>> /\ Head(queue) = r /\ Tail(queue) \in Seq(Readers)
    BY <2>1, AfterHead
  <2>4. Together /\ Rowed(queue)
    BY <1>1, <1>2, <2>1
  <2>5. Rowed(Tail(queue))
    BY <1>3, <2>2, <2>3, <2>4, RowedTail
  <2>6. Rowed(queue')
    BY <2>1, <2>2, <2>3, <2>5, FollowedByOne, RowedFollowOne
  <2>. QED
    BY <2>1, <2>2, <2>4, <2>6, RowedAfter
<1>7. ASSUME NEW r \in Readers, Hits(r) \/ Fails(r)
      PROVE  Q
  <2>1. /\ Resumes(r, "fetched") /\ pc[r] = "fetched" /\ pc' = [pc EXCEPT ![r] = "idle"]
        /\ queue' = Tail(queue) /\ awaits' = [awaits EXCEPT ![r] = undefined]
        /\ UNCHANGED <<pendingCall, late>>
    BY <1>7 DEF Hits, Fails, Answers, Resumes
  <2>2. r \notin Callers /\ Callers' = Callers
    BY <1>3, <2>1 DEF Callers
  <2>3. queue # <<>> /\ Head(queue) = r
    BY <2>1, AfterHead
  <2>4. Together /\ Rowed(queue)
    BY <1>1, <1>2, <2>1
  <2>5. Rowed(queue')
    BY <1>3, <2>1, <2>2, <2>3, <2>4, RowedTail
  <2>6. \A q \in Callers : awaits'[q] = awaits[q]
    BY <1>3, <2>1, <2>2 DEF Callers
  <2>. QED
    BY <2>1, <2>2, <2>4, <2>5, <2>6, RowedAfter
<1>8. ASSUME NEW r \in Readers, NEW s, Resumes(r, s)
      PROVE  /\ queue # <<>> /\ Head(queue) = r /\ Tail(queue) \in Seq(Readers)
             /\ \A i \in DOMAIN Tail(queue) : Tail(queue)[i] # r
  <2>1. queue # <<>> /\ Head(queue) = r /\ Tail(queue) \in Seq(Readers)
    BY <1>8, AfterHead
  <2>2. ~ In(r, Tail(queue))
    BY <1>3, <2>1, TailIn, ScheduledMeans
  <2>. QED
    BY <2>1, <2>2 DEF In
<1>9. ASSUME NEW r \in Readers, Misses(r)
      PROVE  Q
  <2>1. PICK p \in Readers \cup Outcomes :
           /\ p = IF pendingCall = Nothing THEN r ELSE pendingCall
           /\ pendingCall' = p
           /\ awaits' = [awaits EXCEPT ![r] = p]
           /\ p \in Readers => queue' = Tail(queue)
           /\ late' = (late \/ p \notin Readers)
           /\ pc' = [pc EXCEPT ![r] = "calling"]
    BY <1>9, MissesEffect
  <2>2. Resumes(r, "fetched") /\ pc[r] = "fetched"
    BY <1>9 DEF Misses, Resumes
  <2>3. ~ late /\ p \in Readers /\ queue' = Tail(queue)
    BY <1>1, <2>1
  <2>4. r \notin Callers /\ \A q \in Callers' : q = r \/ q \in Callers
    BY <1>3, <2>1, <2>2 DEF Callers
  <2>5. Free(queue, Callers)
    <3>1. CASE pendingCall = Nothing
      BY <1>2, <1>3, <1>8, <2>2, <2>3, <2>4, <3>1, TailRow DEF Rowed
    <3>2. CASE pendingCall # Nothing
      BY <1>2, <2>1, <2>3, <3>2 DEF Rowed
    <3>. QED
      BY <3>1, <3>2
  <2>6. Free(Tail(queue), Callers)
    BY <1>3, <1>8, <2>2, <2>5, TailRow
  <2>7. \A i \in DOMAIN Tail(queue) : Tail(queue)[i] \notin Callers'
    BY <1>8, <2>2, <2>4, <2>6 DEF Free
  <2>8. Rowed(queue)'
    BY <2>3, <2>7 DEF Rowed, Free, Front, Row
  <2>9. \A q \in Callers : awaits[q] \in Readers => awaits[q] = p
    <3>1. \A q \in Callers : awaits[q] \in Readers => awaits[q] = pendingCall
      BY <1>2, <2>3 DEF Together
    <3>. QED
      BY <2>1, <3>1, Constants
  <2>10. Together'
    BY <1>3, <2>1, <2>4, <2>9 DEF Together, Callers
  <2>. QED
    BY <2>8, <2>10
<1>10. ASSUME NEW r \in Readers, Stores(r) \/ Throws(r)
       PROVE  Q
  <2>1. /\ Resumes(r, "calling") /\ pc[r] = "calling"
        /\ pc' \in {[pc EXCEPT ![r] = "setting"], [pc EXCEPT ![r] = "idle"]}
        /\ awaits' \in {awaits, [awaits EXCEPT ![r] = undefined]}
        /\ pendingCall' = Nothing
        /\ late' = (late /\ \E q \in Readers \ {r} : pc[q] = "calling")
        /\ queue' = Tail(queue)
    BY <1>10 DEF Stores, Throws, Answers, Resumes, ForgetCall
  <2>2. r \in Callers /\ Callers' = Callers \ {r}
    BY <1>3, <2>1 DEF Callers
  <2>3. CASE late
    <3>1. Callers' = {}
      BY <1>1, <2>1, <2>2, <2>3 DEF Callers
    <3>. QED
      BY <3>1 DEF Together, Rowed, Free, Front, Row
  <2>4. CASE ~ late
    <3>1. Together /\ Rowed(queue)
      BY <1>2, <2>4
    <3>2. Row(Tail(queue), Callers) /\ Front(Tail(queue), Callers)
      BY <1>3, <1>8, <2>1, <2>2, <3>1, TailRow DEF Rowed
    <3>3. \A i \in DOMAIN Tail(queue) : Tail(queue)[i] \in Callers' <=> Tail(queue)[i] \in Callers
      BY <1>8, <2>1, <2>2
    <3>4. \A i \in DOMAIN Tail(queue) : 1 \in DOMAIN Tail(queue)
      BY <1>8, <2>1, QueueOf
    <3>5. Rowed(queue)'
      <4>1. Row(Tail(queue), Callers')
        BY <3>2, <3>3 DEF Row
      <4>2. Front(Tail(queue), Callers')
        BY <3>2, <3>3, <3>4 DEF Front
      <4>. QED
        BY <2>1, <4>1, <4>2, Constants DEF Rowed, Free, Front, Row
    <3>6. pendingCall \notin Readers
      <4>1. 1 \in DOMAIN queue /\ queue[1] = r
        BY <2>1, AfterHead
      <4>. QED
        BY <2>2, <3>1, <4>1 DEF Rowed, Free
    <3>7. \A q \in Callers : awaits[q] \notin Readers
      BY <3>1, <3>6 DEF Together
    <3>8. Together'
      BY <1>3, <2>1, <2>2, <3>7, Constants DEF Together, Callers
    <3>. QED
      BY <3>5, <3>8
  <2>. QED
    BY <2>3, <2>4
<1>11. ASSUME NEW o \in Readers, NEW s \in {"getting", "calling"}, NEW v, Settles(s, o, v)
       PROVE  Q
  <2>1. /\ v \in Outcomes /\ v \notin Readers /\ v # Nothing
        /\ awaits' = [r \in Readers |-> IF awaits[r] = o THEN v ELSE awaits[r]]
        /\ pendingCall' = IF pendingCall = o THEN v ELSE pendingCall
        /\ Follow(queue, Sharers(o), queue')
        /\ awaits[o] = o /\ pc[o] = s
    BY <1>11, SettlesEffect
  <2>2. UNCHANGED <<pc, late>> /\ Issued(o, s)
    BY <1>11 DEF Settles
  <2>3. Together /\ Rowed(queue)
    BY <1>1, <1>2, <2>2
  <2>4. Sharers(o) \in SUBSET Readers /\ \A r \in Sharers(o) : pc[r] = s
    BY <2>2, Sharing DEF Sharers
  <2>5. CASE s = "getting"
    <3>1. \A r \in Sharers(o) : r \notin Callers
      BY <2>4, <2>5 DEF Callers
    <3>2. pendingCall # o
      BY <2>2, <2>5, Sharing, Constants DEF Pending
    <3>3. pendingCall' = pendingCall
      BY <2>1, <3>2
    <3>4. \A r \in Callers : awaits'[r] = awaits[r]
      BY <2>1, <3>1 DEF Sharers, Callers
    <3>5. Rowed(queue')
      BY <1>3, <2>1, <2>3, <2>4, <3>1, RowedFollow
    <3>. QED
      BY <2>2, <2>3, <3>3, <3>4, <3>5, RowedAfter
  <2>6. CASE s = "calling"
    <3>1. Sharers(o) \subseteq Callers /\ o \in Callers /\ Callers' = Callers
      BY <2>1, <2>2, <2>4, <2>6 DEF Callers
    <3>2. pendingCall = o /\ pendingCall' = v
      BY <2>1, <2>3, <3>1 DEF Together
    <3>3. Row(queue', Callers)
      BY <1>3, <2>1, <2>3, <2>4, <3>1, <3>2, FollowRow DEF Rowed
    <3>4. Rowed(queue)'
      BY <2>1, <3>1, <3>2, <3>3 DEF Rowed, Row
    <3>5. Together'
      BY <2>1, <2>3, <3>1, <3>2 DEF Together, Callers
    <3>. QED
      BY <3>4, <3>5
  <2>. QED
    BY <2>5, <2>6
<1>12. ASSUME NEW s \in sets, SetLands(s) \/ SetFails(s)
       PROVE  Q
  <2>1. /\ UNCHANGED <<queue, pendingCall, late>>
        /\ pc' = [pc EXCEPT ![s.by] = "idle"]
        /\ awaits' = [awaits EXCEPT ![s.by] = undefined]
    BY <1>12 DEF SetLands, SetFails, Answers
  <2>2. s.by \in Readers /\ pc[s.by] = "setting"
    BY Setting
  <2>3. Callers' = Callers /\ s.by \notin Callers
    BY <1>3, <2>1, <2>2 DEF Callers
  <2>4. \A q \in Callers : awaits'[q] = awaits[q]
    BY <1>3, <2>1, <2>3 DEF Callers
  <2>5. Together /\ Rowed(queue')
    BY <1>1, <1>2, <2>1
  <2>. QED
    BY <2>1, <2>3, <2>4, <2>5, RowedAfter
<1>. QED
  BY <1>4, <1>5, <1>6, <1>7, <1>9, <1>10, <1>11, <1>12, Steps

----------------------------------------------------------------------------
(* The theorems.                                                           *)

LEMMA InvInit == Init => IInv
<1>. SUFFICES ASSUME Init PROVE IInv
  OBVIOUS
<1>1. TypeOK
  BY TypeInit
<1>2. DOMAIN queue = {}
  BY DEF Init
<1>3. \A r \in Readers :
        /\ pc[r] = "idle" /\ awaits[r] = undefined /\ read[r] = Nothing
        /\ floor[r] = 0 /\ since[r] = 0 /\ before[r] = 0 /\ answer[r] = NoAnswer
  BY DEF Init
<1>4. Scheduled
  BY <1>2, <1>3 DEF Scheduled
<1>5. sets = {} /\ pendingGet = Nothing /\ pendingCall = Nothing /\ version = 0 /\ faults = 0
  BY DEF Init
<1>6. Pending
  BY <1>3, <1>5, Constants DEF Pending, Issued
<1>7. FloorBelow
  BY <1>3, Constants DEF FloorBelow, Versions
<1>8. SettledCall
  BY <1>3 DEF SettledCall
<1>9. SinceBelow
  BY <1>3, <1>5 DEF SinceBelow, Issued
<1>10. FailedSince
  BY <1>3, <1>5 DEF FailedSince
<1>11. CallShared
  BY <1>2, <1>3 DEF CallShared
<1>12. NeverOlder /\ MissIsFresh /\ FailuresForgotten
  BY <1>3 DEF NeverOlder, MissIsFresh, FailuresForgotten, NoAnswer
<1>. QED
  BY <1>1, <1>4, <1>6, <1>7, <1>8, <1>9, <1>10, <1>11, <1>12 DEF IInv

LEMMA InvStep ==
  ASSUME IInv, [Next]_vars
  PROVE  IInv'
<1>1. TypeOK'
  BY TypeStep DEF IInv
<1>2. Scheduled' /\ Pending'
  BY ScheduledStep, PendingStep DEF IInv
<1>3. FloorBelow' /\ NeverOlder'
  BY FloorStep DEF IInv
<1>4. SettledCall'
  BY <1>1, SettledStep DEF IInv
<1>5. SinceBelow' /\ MissIsFresh'
  BY SinceStep DEF IInv
<1>6. FailedSince' /\ FailuresForgotten'
  BY FailedStep DEF IInv
<1>7. CallShared'
  BY <1>1, SharedStep DEF IInv
<1>. QED
  BY <1>1, <1>2, <1>3, <1>4, <1>5, <1>6, <1>7 DEF IInv

\* What CoalescedReads lists about promises, microtasks and the two maps holds at
\* every await of cacheableHandle (cache.helpers.ts).
THEOREM Invariance == Spec => []IInv
<1>. QED
  BY InvInit, InvStep, PTL DEF Spec

\* A read returns nothing older than what could still reach it, or those who
\* shared the get it joined, when it began, whoever else expires, updates, reads
\* or sets meanwhile: fetchCachedValue and cacheableHandle of cache.helpers.ts.
THEOREM StalenessBounded == Spec => []NeverOlder
<1>1. IInv => NeverOlder
  BY DEF IInv
<1>. QED
  BY <1>1, Invariance, PTL

\* A read that misses, and may join a call of the method that is over, still
\* returns nothing older than what the calls that ran when it began had read:
\* those who wait for a call that is over resume before it and delete that call.
THEOREM MissesFresh == Spec => []MissIsFresh
<1>1. IInv => MissIsFresh
  BY DEF IInv
<1>. QED
  BY <1>1, Invariance, PTL

\* A failed get or call is never handed to a read that begins after those who
\* shared it have resumed: the finally of both maps runs on a failure too.
THEOREM FailuresNotKept == Spec => []FailuresForgotten
<1>1. IInv => FailuresForgotten
  BY DEF IInv
<1>. QED
  BY <1>1, Invariance, PTL

\* pendingMethodCallMap lets the method run once at a time, as long as no read
\* joins a call that is over.
THEOREM SingleFlight == Spec => []OneCallInFlight
<1>1. ASSUME CallShared, Pending
      PROVE  OneCallInFlight
  BY <1>1 DEF CallShared, OneCallInFlight, Issued
<1>2. IInv => OneCallInFlight
  BY <1>1 DEF IInv
<1>. QED
  BY <1>2, Invariance, PTL
=============================================================================

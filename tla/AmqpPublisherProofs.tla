------------------------ MODULE AmqpPublisherProofs ------------------------
(***************************************************************************)
(* Proofs about AmqpPublisher, for any requests, any messages in them and  *)
(* any number of disturbances.                                             *)
(***************************************************************************)
EXTENDS AmqpPublisher, SequenceTheorems, WellFoundedInduction, TLAPS

----------------------------------------------------------------------------
(* The wrapper's lists, by what they contain. *)

\* What a message says of the request it belongs to.
LEMMA ItemOf ==
  /\ \A r \in Requests : \A it \in ItemsOf(r) : it \in Items /\ it[1] = r
  /\ \A it \in Items : it[1] \in Requests /\ it \in ItemsOf(it[1])
BY DEF Items, ItemsOf

LEMMA EmptyList ==
  /\ <<>> \in Seq(Items) /\ IsInjective(<<>>)
  /\ \A x : ~ Contains(<<>>, x)
<1>1. <<>> \in Seq(Items) /\ Len(<<>>) = 0 /\ DOMAIN <<>> = {}
  BY EmptySeq
<1>. QED
  BY <1>1 DEF IsInjective, Contains

\* Two lists, one after the other.
LEMMA JoinedList ==
  ASSUME NEW s \in Seq(Items), NEW t \in Seq(Items)
  PROVE  /\ s \o t \in Seq(Items)
         /\ \A x : Contains(s \o t, x) <=> Contains(s, x) \/ Contains(t, x)
         /\ /\ IsInjective(s) /\ IsInjective(t)
            /\ \A it \in Items : Contains(s, it) => ~ Contains(t, it)
            => IsInjective(s \o t)
<1>1. PICK u : u = s \o t
  OBVIOUS
<1>2. /\ u \in Seq(Items) /\ Len(u) = Len(s) + Len(t)
      /\ Len(s) \in Nat /\ Len(t) \in Nat /\ DOMAIN s = 1..Len(s) /\ DOMAIN t = 1..Len(t)
      /\ DOMAIN u = 1..Len(u)
      /\ \A i \in 1 .. Len(s) + Len(t) : u[i] = IF i <= Len(s) THEN s[i] ELSE t[i - Len(s)]
  BY <1>1, ConcatProperties, LenProperties
<1>3. /\ \A i \in 1..Len(s) : i \in 1..Len(u) /\ u[i] = s[i]
      /\ \A i \in 1..Len(t) : Len(s) + i \in 1..Len(u) /\ u[Len(s) + i] = t[i]
  <2>1. \A i \in 1..Len(s) : i \in 1..Len(u) /\ u[i] = s[i]
    BY <1>2
  <2>2. ASSUME NEW i \in 1..Len(t)
        PROVE  Len(s) + i \in 1..Len(u) /\ u[Len(s) + i] = t[i]
    <3>1. Len(s) + i \in 1..Len(u) /\ ~ (Len(s) + i <= Len(s)) /\ (Len(s) + i) - Len(s) = i
      BY <1>2
    <3>. QED
      BY <1>2, <3>1
  <2>. QED
    BY <2>1, <2>2
<1>4. \A i \in 1..Len(u) : \/ i \in 1..Len(s) /\ u[i] = s[i]
                           \/ i - Len(s) \in 1..Len(t) /\ u[i] = t[i - Len(s)]
  BY <1>2
<1>5. \A x : Contains(u, x) <=> Contains(s, x) \/ Contains(t, x)
  BY <1>3, <1>4 DEF Contains
<1>6. ASSUME IsInjective(s), IsInjective(t),
             \A it \in Items : Contains(s, it) => ~ Contains(t, it),
             NEW i \in 1..Len(u), NEW k \in 1..Len(u), u[i] = u[k]
      PROVE  i = k
  <2>1. \A l \in 1..Len(s) : s[l] \in Items
    BY ElementOfSeq
  <2>2. \A l \in 1..Len(s), n \in 1..Len(t) : s[l] # t[n]
    BY <1>6, <2>1 DEF Contains
  <2>3. CASE i \in 1..Len(s) /\ k \in 1..Len(s)
    BY <1>2, <1>3, <1>6, <2>3 DEF IsInjective
  <2>4. CASE /\ i - Len(s) \in 1..Len(t) /\ u[i] = t[i - Len(s)]
             /\ k - Len(s) \in 1..Len(t) /\ u[k] = t[k - Len(s)]
    <3>1. i - Len(s) = k - Len(s)
      BY <1>2, <1>6, <2>4 DEF IsInjective
    <3>. QED
      BY <1>2, <3>1
  <2>. QED
    BY <1>4, <1>6, <2>2, <2>3, <2>4
<1>. QED
  BY <1>1, <1>2, <1>5, <1>6 DEF IsInjective

\* A list and one more message.
LEMMA LongerList ==
  ASSUME NEW s \in Seq(Items), NEW it \in Items
  PROVE  /\ Append(s, it) \in Seq(Items)
         /\ \A x : Contains(Append(s, it), x) <=> Contains(s, x) \/ x = it
         /\ IsInjective(s) /\ ~ Contains(s, it) => IsInjective(Append(s, it))
<1>1. PICK u : u = Append(s, it)
  OBVIOUS
<1>2. /\ u \in Seq(Items) /\ Len(u) = Len(s) + 1
      /\ \A i \in 1..Len(u) : u[i] = IF i = Len(s) + 1 THEN it ELSE s[i]
      /\ Len(s) \in Nat /\ DOMAIN s = 1..Len(s) /\ DOMAIN u = 1..Len(u)
  BY <1>1, AppendProperties, LenProperties
<1>3. /\ \A i \in 1..Len(u) : \/ i \in 1..Len(s) /\ u[i] = s[i]
                              \/ i = Len(u) /\ u[i] = it
      /\ \A i \in 1..Len(s) : i \in 1..Len(u) /\ u[i] = s[i]
      /\ Len(u) \in 1..Len(u) /\ u[Len(u)] = it
  <2>1. \A i \in 1..Len(u) : i \in 1..Len(s) \/ i = Len(s) + 1
    BY <1>2
  <2>2. \A i \in 1..Len(s) : i \in 1..Len(u) /\ i # Len(s) + 1
    BY <1>2
  <2>3. Len(u) \in 1..Len(u) /\ u[Len(u)] = it
    BY <1>2
  <2>4. \A i \in 1..Len(s) : u[i] = s[i]
    BY <1>2, <2>2
  <2>5. Len(s) + 1 = Len(u)
    BY <1>2
  <2>. QED
    BY <2>1, <2>2, <2>3, <2>4, <2>5
<1>4. \A x : Contains(u, x) <=> Contains(s, x) \/ x = it
  BY <1>3 DEF Contains
<1>5. ASSUME IsInjective(s), ~ Contains(s, it),
             NEW i \in 1..Len(u), NEW k \in 1..Len(u), u[i] = u[k]
      PROVE  i = k
  BY <1>2, <1>3, <1>5 DEF IsInjective, Contains
<1>. QED
  BY <1>1, <1>2, <1>4, <1>5 DEF IsInjective

\* A list without its first message.
LEMMA ShorterList ==
  ASSUME NEW s \in Seq(Items), s # <<>>
  PROVE  /\ Head(s) \in Items /\ Contains(s, Head(s)) /\ Tail(s) \in Seq(Items)
         /\ \A x : Contains(s, x) <=> x = Head(s) \/ Contains(Tail(s), x)
         /\ IsInjective(s) => IsInjective(Tail(s)) /\ ~ Contains(Tail(s), Head(s))
<1>1. PICK u : u = Tail(s)
  OBVIOUS
<1>2. /\ Head(s) \in Items /\ u \in Seq(Items) /\ Len(u) = Len(s) - 1
      /\ \A i \in 1..Len(u) : u[i] = s[i+1]
      /\ Len(s) \in Nat /\ Len(s) # 0 /\ Len(u) \in Nat
      /\ DOMAIN s = 1..Len(s) /\ DOMAIN u = 1..Len(u)
  BY <1>1, HeadTailProperties, LenProperties, EmptySeq
<1>3. /\ 1 \in 1..Len(s) /\ Head(s) = s[1]
      /\ \A i \in 1..Len(u) : i + 1 \in 1..Len(s) /\ i + 1 # 1 /\ u[i] = s[i+1]
      /\ \A i \in 1..Len(s) : i # 1 => i - 1 \in 1..Len(u) /\ u[i-1] = s[i]
  BY SMTT(30), <1>2
<1>4. \A x : Contains(s, x) <=> x = Head(s) \/ Contains(u, x)
  BY SMTT(30), <1>3 DEF Contains
<1>5. ASSUME IsInjective(s)
      PROVE  IsInjective(u) /\ ~ Contains(u, Head(s))
  <2>1. ASSUME NEW i \in 1..Len(u), NEW k \in 1..Len(u), u[i] = u[k]
        PROVE  i = k
    <3>1. s[i + 1] = s[k + 1] /\ i + 1 \in DOMAIN s /\ k + 1 \in DOMAIN s
      BY <1>2, <1>3, <2>1
    <3>2. i + 1 = k + 1
      BY <1>5, <3>1 DEF IsInjective
    <3>. QED
      BY <1>2, <3>2
  <2>2. ASSUME NEW i \in 1..Len(u), u[i] = Head(s)
        PROVE  FALSE
    <3>1. s[i + 1] = s[1] /\ i + 1 \in DOMAIN s /\ 1 \in DOMAIN s /\ i + 1 # 1
      BY <1>2, <1>3, <2>2
    <3>. QED
      BY <1>5, <3>1 DEF IsInjective
  <2>. QED
    BY <1>2, <2>1, <2>2 DEF IsInjective, Contains
<1>. QED
  BY <1>1, <1>2, <1>3, <1>4, <1>5 DEF Contains

\* A list without a message that it contains once.
LEMMA CutList ==
  ASSUME NEW s \in Seq(Items), NEW it \in Items, Contains(s, it), IsInjective(s)
  PROVE  /\ Without(s, it) \in Seq(Items)
         /\ IsInjective(Without(s, it))
         /\ \A x : Contains(Without(s, it), x) <=> Contains(s, x) /\ x # it
<1>1. PICK n : n = CHOOSE i \in DOMAIN s : s[i] = it
  OBVIOUS
<1>2. Len(s) \in Nat /\ DOMAIN s = 1..Len(s) /\ \A i \in 1..Len(s) : s[i] \in Items
  BY LenProperties, ElementOfSeq
<1>3. n \in 1..Len(s) /\ s[n] = it
  BY <1>1, <1>2 DEF Contains
<1>4. PICK a, b : a = SubSeq(s, 1, n-1) /\ b = SubSeq(s, n+1, Len(s))
  OBVIOUS
<1>5. /\ a \in Seq(Items) /\ Len(a) = n - 1
      /\ \A i \in 1..n-1 : a[i] = s[i]
  <2>1. /\ 1 \in Int /\ n-1 \in Int
        /\ \A i \in 1..n-1 : s[i] \in Items
    BY <1>2, <1>3
  <2>2. /\ a \in Seq(Items) /\ Len(a) = IF 1 <= n-1 THEN (n-1)-1+1 ELSE 0
        /\ \A i \in 1 .. (n-1)-1+1 : a[i] = s[1+i-1]
    BY <1>4, <2>1, SubSeqProperties
  <2>. QED
    BY <1>2, <1>3, <2>2
<1>6. /\ b \in Seq(Items) /\ Len(b) = Len(s) - n
      /\ \A i \in 1..Len(s)-n : b[i] = s[n+i]
  <2>1. /\ n+1 \in Int /\ Len(s) \in Int
        /\ \A i \in n+1..Len(s) : s[i] \in Items
    BY <1>2, <1>3
  <2>2. /\ b \in Seq(Items) /\ Len(b) = IF n+1 <= Len(s) THEN Len(s)-(n+1)+1 ELSE 0
        /\ \A i \in 1 .. Len(s)-(n+1)+1 : b[i] = s[(n+1)+i-1]
    BY <1>4, <2>1, SubSeqProperties
  <2>3. Len(b) = Len(s) - n
    <3>1. CASE n + 1 <= Len(s)
      <4>1. Len(b) = Len(s)-(n+1)+1 /\ Len(s)-(n+1)+1 = Len(s) - n
        BY <1>2, <1>3, <2>2, <3>1
      <4>. QED
        BY <4>1
    <3>2. CASE ~ (n + 1 <= Len(s))
      <4>. n \in Nat /\ n <= Len(s) /\ Len(s) \in Nat
        BY <1>2, <1>3
      <4>1. n = Len(s)
        BY <3>2
      <4>2. Len(b) = 0
        BY <2>2, <3>2
      <4>. QED
        BY <1>2, <4>1, <4>2
    <3>. QED
      BY <3>1, <3>2
  <2>4. ASSUME NEW i \in 1..Len(s)-n
        PROVE  b[i] = s[n+i]
    <3>1. i \in 1 .. Len(s)-(n+1)+1 /\ (n+1)+i-1 = n+i
      BY <1>2, <1>3
    <3>. QED
      BY <2>2, <3>1
  <2>. QED
    BY <2>2, <2>3, <2>4
<1>7. Without(s, it) = a \o b
  BY <1>1, <1>4 DEF Without, RemoveAt
<1>8. DOMAIN a = 1..n-1 /\ DOMAIN b = 1..Len(s)-n
  BY <1>2, <1>3, <1>5, <1>6, LenProperties
<1>9. IsInjective(a) /\ IsInjective(b)
  <2>1. \A i, k \in 1..n-1 : a[i] = a[k] => i = k
    BY <1>2, <1>3, <1>5 DEF IsInjective
  <2>2. ASSUME NEW i \in 1..Len(s)-n, NEW k \in 1..Len(s)-n, b[i] = b[k]
        PROVE  i = k
    <3>1. n+i \in 1..Len(s) /\ n+k \in 1..Len(s) /\ s[n+i] = s[n+k]
      BY <1>2, <1>3, <1>6, <2>2
    <3>2. n+i = n+k
      BY <1>2, <3>1 DEF IsInjective
    <3>. QED
      BY <1>2, <1>3, <3>2
  <2>. QED
    BY <1>8, <2>1, <2>2 DEF IsInjective
<1>10. \A x : Contains(a, x) <=> \E i \in 1..Len(s) : i < n /\ s[i] = x
  BY <1>2, <1>3, <1>5 DEF Contains
<1>11. \A x : Contains(b, x) <=> \E i \in 1..Len(s) : i > n /\ s[i] = x
  <2>1. ASSUME NEW i \in 1..Len(s), i > n
        PROVE  i - n \in 1..Len(b) /\ b[i - n] = s[i]
    <3>1. i - n \in 1..Len(s)-n /\ n + (i - n) = i
      BY <1>2, <1>3, <2>1
    <3>. QED
      BY <1>6, <3>1
  <2>2. ASSUME NEW i \in 1..Len(b)
        PROVE  n + i \in 1..Len(s) /\ n + i > n /\ b[i] = s[n + i]
    BY <1>2, <1>3, <1>6, <2>2
  <2>. QED
    BY <2>1, <2>2 DEF Contains
<1>12. \A x : ~ (Contains(a, x) /\ Contains(b, x))
  BY <1>2, <1>3, <1>10, <1>11 DEF IsInjective
<1>13. \A x : Contains(a, x) \/ Contains(b, x) <=> Contains(s, x) /\ x # it
  <2>1. \A i \in 1..Len(s) : s[i] = it => i = n
    BY <1>2, <1>3 DEF IsInjective
  <2>2. \A i \in 1..Len(s) : i < n \/ i = n \/ i > n
    BY <1>2, <1>3
  <2>3. ~ (n < n) /\ ~ (n > n)
    BY <1>2, <1>3
  <2>. QED
    BY SMTT(30), <1>3, <1>10, <1>11, <2>1, <2>2, <2>3 DEF Contains
<1>. QED
  BY <1>5, <1>6, <1>7, <1>9, <1>12, <1>13, JoinedList

\* What a request hands to the wrapper: messages of its own, each once.
LEMMA HandedList ==
  ASSUME NEW r \in Requests
  PROVE  /\ Handed(r) \in Seq(Items)
         /\ IsInjective(Handed(r))
         /\ \A x : Contains(Handed(r), x) => x \in ItemsOf(r)
<1>. DEFINE bad == {i \in DOMAIN Payload[r] : Payload[r][i] = "cyclic"}
            n == IF bad = {} THEN Len(Payload[r])
                 ELSE (CHOOSE i \in bad : \A k \in bad : i <= k) - 1
<1>1. /\ Payload[r] \in Seq(Contents) /\ Len(Payload[r]) \in Nat
      /\ DOMAIN Payload[r] = 1..Len(Payload[r])
  BY PublisherAssumption, LenProperties
<1>2. n \in Nat /\ n <= Len(Payload[r])
  <2>1. CASE bad = {}
    BY <1>1, <2>1
  <2>2. CASE bad # {}
    <3>1. bad \in SUBSET Nat
      BY <1>1
    <3>2. PICK v \in bad : \A w \in bad : ~ (<<w, v>> \in OpToRel(<, Nat))
      BY <2>2, <3>1, WFMin, NatLessThanWellFounded, Zenon
    <3>3. \A w \in bad : ~ (w < v)
      BY <3>1, <3>2 DEF OpToRel
    <3>4. \E i \in bad : \A k \in bad : i <= k
      BY <3>1, <3>3
    <3>5. (CHOOSE i \in bad : \A k \in bad : i <= k) \in bad
      BY <3>4
    <3>6. PICK l \in bad : l = CHOOSE i \in bad : \A k \in bad : i <= k
      BY <3>5
    <3>7. l \in 1..Len(Payload[r])
      BY <1>1
    <3>8. n = l - 1
      BY <2>2, <3>6
    <3>. HIDE DEF n, bad
    <3>. QED
      BY <1>1, <3>7, <3>8
  <2>. QED
    BY <2>1, <2>2
<1>3. Handed(r) = [i \in 1..n |-> <<r, i>>]
  BY DEF Handed
<1>. HIDE DEF n
<1>4. \A i \in 1..n : <<r, i>> \in ItemsOf(r) /\ <<r, i>> \in Items
  BY <1>1, <1>2 DEF ItemsOf, Items
<1>5. PICK h : h = [i \in 1..n |-> <<r, i>>]
  OBVIOUS
<1>6. h \in Seq(Items) /\ Len(h) = n /\ DOMAIN h = 1..n /\ \A i \in 1..n : h[i] = <<r, i>>
  BY <1>2, <1>4, <1>5
<1>7. IsInjective(h)
  BY <1>6 DEF IsInjective
<1>8. \A x : Contains(h, x) => x \in ItemsOf(r)
  BY <1>4, <1>6 DEF Contains
<1>. QED
  BY <1>3, <1>5, <1>6, <1>7, <1>8

----------------------------------------------------------------------------
(* Types. *)

LEMMA TypeStep ==
  ASSUME IInv, Next
  PROVE  TypeOK'
<1>. TypeOK
  BY DEF IInv
<1>. USE DEF TypeOK
<1>1. CASE Reconnect
  BY <1>1 DEF Reconnect
<1>1a. CASE ConnectionLost \/ ChannelClosed
  <2>1. wire' = <<>> /\ <<>> \in Seq(Items)
    BY <1>1a, EmptyList DEF ConnectionLost, ChannelClosed
  <2>2. CASE ConnectionLost
    <3>1. connected' \in BOOLEAN /\ channel' \in {"closed", "opening", "open"}
      BY <2>2 DEF ConnectionLost
    <3>2. faults' \in Nat /\ confirms' = {}
      BY <2>2 DEF ConnectionLost, Disturbance
    <3>. QED
      BY <2>1, <2>2, <3>1, <3>2 DEF ConnectionLost
  <2>3. CASE ChannelClosed
    BY <2>1, <2>3 DEF ChannelClosed, Disturbance
  <2>. QED
    BY <1>1a, <2>2, <2>3
<1>2. CASE ChannelOpens
  <2>1. buffer' \in Seq(Items)
    BY <1>2, JoinedList DEF ChannelOpens
  <2>2. unconfirmed' \in Seq(Items)
    BY <1>2, EmptyList DEF ChannelOpens
  <2>. QED
    BY <1>2, <2>1, <2>2 DEF ChannelOpens
<1>3. ASSUME Crash
      PROVE  /\ connected' \in BOOLEAN /\ channel' \in {"closed", "opening", "open"}
             /\ phase' \in [Requests -> {"idle", "waiting", "resolved", "rejected", "thrown"}]
             /\ answer' \in [Requests -> {"none", "ok", "failed"}]
             /\ buffer' \in Seq(Items) /\ unconfirmed' \in Seq(Items) /\ wire' \in Seq(Items)
             /\ confirms' \subseteq [item : Items, ack : BOOLEAN]
  BY <1>3, EmptyList DEF Crash
<1>4. CASE Kill
  BY <1>3, <1>4 DEF Kill, Disturbance
<1>5. CASE Send
  <2>1. Head(buffer) \in Items /\ Tail(buffer) \in Seq(Items)
    BY <1>5, ShorterList DEF Send
  <2>. QED
    BY <1>5, <2>1, LongerList DEF Send
<1>6. CASE BrokerStores \/ BrokerRefuses
  <2>1. PICK h \in Items : h = Head(wire)
    BY <1>6, ShorterList DEF BrokerStores, BrokerRefuses
  <2>2. wire' \in Seq(Items)
    BY <1>6, ShorterList DEF BrokerStores, BrokerRefuses
  <2>3. ASSUME NEW a \in BOOLEAN, confirms' = confirms \cup {[item |-> h, ack |-> a]}
        PROVE  confirms' \subseteq [item : Items, ack : BOOLEAN]
    <3>1. [item |-> h, ack |-> a] \in [item : Items, ack : BOOLEAN]
      OBVIOUS
    <3>. QED
      BY <2>3, <3>1, Zenon
  <2>4. CASE BrokerStores
    <3>1. confirms' \subseteq [item : Items, ack : BOOLEAN]
      BY <2>1, <2>3, <2>4 DEF BrokerStores
    <3>2. stored' \in [Items -> Nat]
      BY <2>1, <2>4 DEF BrokerStores
    <3>. QED
      BY <2>2, <2>4, <3>1, <3>2 DEF BrokerStores
  <2>5. CASE BrokerRefuses
    <3>1. confirms' \subseteq [item : Items, ack : BOOLEAN]
      BY <2>1, <2>3, <2>5 DEF BrokerRefuses
    <3>2. faults' \in Nat
      BY <2>5 DEF BrokerRefuses, Disturbance
    <3>. QED
      BY <2>2, <2>5, <3>1, <3>2 DEF BrokerRefuses
  <2>. QED
    BY <1>6, <2>4, <2>5
<1>7. ASSUME NEW r \in Requests, NEW a \in {"ok", "failed"}, Answer(r, a)
      PROVE  answer' \in [Requests -> {"none", "ok", "failed"}]
  BY <1>7 DEF Answer
<1>8. ASSUME NEW r \in Requests, Publish(r)
      PROVE  TypeOK'
  <2>1. buffer' \in Seq(Items)
    BY <1>8, HandedList, JoinedList DEF Publish
  <2>2. answer' \in [Requests -> {"none", "ok", "failed"}]
    BY <1>7, <1>8 DEF Publish
  <2>3. phase' \in [Requests -> {"idle", "waiting", "resolved", "rejected", "thrown"}]
    BY <1>8 DEF Publish
  <2>. QED
    BY <1>8, <2>1, <2>2, <2>3 DEF Publish
<1>9. ASSUME NEW r \in Requests, Timeout(r)
      PROVE  TypeOK'
  BY <1>7, <1>9 DEF Timeout
<1>10. ASSUME NEW c \in confirms, Confirm(c)
       PROVE  TypeOK'
  <2>1. c.item \in Items /\ c.item[1] \in Requests
    BY ItemOf
  <2>. unconfirmed' \in Seq(Items)
    <3>1. Contains(unconfirmed, c.item) /\ unconfirmed \in Seq(Items) /\ IsInjective(unconfirmed)
      BY <1>10 DEF Confirm, IInv, OneCopy, UnderWay
    <3>2. unconfirmed' = Without(unconfirmed, c.item)
      BY <1>10 DEF Confirm
    <3>. QED
      BY <3>1, <3>2, CutList
  <2>2. answer' \in [Requests -> {"none", "ok", "failed"}]
    BY <1>7, <1>10, <2>1 DEF Confirm
  <2>3. phase' \in [Requests -> {"idle", "waiting", "resolved", "rejected", "thrown"}]
    <3>1. \/ phase' = [phase EXCEPT ![c.item[1]] = "rejected"]
          \/ phase' = [phase EXCEPT ![c.item[1]] = "resolved"]
          \/ phase' = phase
      BY <1>10 DEF Confirm
    <3>. QED
      BY <2>1, <3>1
  <2>4. settled' \in [Items -> {"none", "confirmed", "refused"}]
    BY <1>10, <2>1 DEF Confirm
  <2>. QED
    BY <1>10, <2>2, <2>3, <2>4 DEF Confirm
<1>11. ASSUME NEW c \in confirms, OrphanRefused(c)
       PROVE  TypeOK'
  BY <1>3, <1>11 DEF OrphanRefused
<1>. QED
  BY <1>1, <1>1a, <1>2, <1>4, <1>5, <1>6, <1>8, <1>9, <1>10, <1>11 DEF Next

----------------------------------------------------------------------------
(* The invariant, step by step.                                            *)

\* The account of a message stays balanced when nothing new is ahead of it.
LEMMA AccountKept ==
  ASSUME TypeOK, NEW it \in Items, StorePaid(it), stored'[it] = stored[it],
         faults' = faults \/ faults' = faults + 1,
         StoreAhead(it)' => StoreAhead(it) \/ faults' = faults + 1
  PROVE  StorePaid(it)'
<1>1. stored[it] \in Nat /\ faults \in Nat
  BY DEF TypeOK
<1>. QED
  BY <1>1 DEF StorePaid

\* What was under way on a channel that is gone may be sent again: the loss of
\* the channel pays for it, and where the process died nothing is left to send.
LEMMA ChannelGoneSafe ==
  ASSUME IInv, channel' = "closed", wire' = <<>>, confirms' = {}, stored' = stored,
         \A r \in Requests : phase'[r] = "idle" <=> phase[r] = "idle",
         \A r \in Requests : answer'[r] = "ok" => answer[r] = "ok",
         \A it \in Items : settled'[it] = "confirmed" => settled[it] = "confirmed",
         \/ UNCHANGED <<buffer, unconfirmed>> /\ faults' = faults + 1
         \/ /\ buffer' = <<>> /\ unconfirmed' = <<>>
            /\ faults' = faults \/ faults' = faults + 1
  PROVE  /\ OnlyWhileOpen' /\ OneCopy' /\ UnderWay' /\ StoresPaid' /\ ConfirmedStored'
         /\ OkMeansStored'
<1>1. /\ \A it \in Items : it[1] \in Requests
      /\ IsInjective(<<>>) /\ \A x : ~ Contains(<<>>, x)
  BY ItemOf, EmptyList
<1>2. OnlyWhileOpen' /\ UnderWay'
  BY <1>1 DEF OnlyWhileOpen, UnderWay
<1>3. OneCopy'
  BY <1>1 DEF IInv, OneCopy
<1>4. ConfirmedStored' /\ OkMeansStored'
  BY DEF IInv, ConfirmedStored, OkMeansStored
<1>5. ASSUME NEW it \in Items
      PROVE  StorePaid(it)'
  <2>1. StoreAhead(it)' => StoreAhead(it) \/ faults' = faults + 1
    BY <1>1 DEF StoreAhead
  <2>. QED
    BY <2>1, AccountKept DEF IInv, StoresPaid
<1>. QED
  BY <1>2, <1>3, <1>4, <1>5 DEF StoresPaid

LEMMA CrashSafe ==
  ASSUME IInv, Crash, stored' = stored, faults' = faults \/ faults' = faults + 1,
         \A it \in Items : settled'[it] = "confirmed" => settled[it] = "confirmed"
  PROVE  /\ OnlyWhileOpen' /\ OneCopy' /\ UnderWay' /\ StoresPaid' /\ ConfirmedStored'
         /\ OkMeansStored'
<1>1. /\ \A r \in Requests : phase'[r] = "idle" <=> phase[r] = "idle"
      /\ \A r \in Requests : answer'[r] = "ok" => answer[r] = "ok"
  BY DEF Crash
<1>. QED
  BY <1>1, ChannelGoneSafe DEF Crash

LEMMA ReconnectSafe ==
  ASSUME IInv, Reconnect
  PROVE  /\ OnlyWhileOpen' /\ OneCopy' /\ UnderWay' /\ StoresPaid' /\ ConfirmedStored'
         /\ OkMeansStored'
<1>1. UNCHANGED <<phase, answer, buffer, unconfirmed, wire, confirms, settled, stored, faults>>
  BY DEF Reconnect
<1>2. OnlyWhileOpen' /\ (channel' # "open" <=> channel # "open")
  BY DEF IInv, OnlyWhileOpen, Reconnect
<1>3. OneCopy' /\ UnderWay' /\ ConfirmedStored' /\ OkMeansStored'
  BY <1>1 DEF IInv, OneCopy, UnderWay, ConfirmedStored, OkMeansStored
<1>4. StoresPaid'
  BY <1>1, <1>2 DEF IInv, StoresPaid, StorePaid, StoreAhead
<1>. QED
  BY <1>2, <1>3, <1>4

\* What is to be sent again is not under way.
LEMMA ChannelOpensSafe ==
  ASSUME IInv, ChannelOpens
  PROVE  /\ OnlyWhileOpen' /\ OneCopy' /\ UnderWay' /\ StoresPaid' /\ ConfirmedStored'
         /\ OkMeansStored'
<1>1. /\ UNCHANGED <<connected, phase, answer, wire, confirms, settled, stored, faults>>
      /\ channel = "opening" /\ channel' = "open" /\ unconfirmed' = <<>>
      /\ buffer' = buffer \o unconfirmed
      /\ wire = <<>> /\ confirms = {}
      /\ buffer \in Seq(Items) /\ unconfirmed \in Seq(Items)
  BY DEF ChannelOpens, IInv, OnlyWhileOpen, TypeOK
<1>2. IsInjective(<<>>) /\ \A x : ~ Contains(<<>>, x)
  BY EmptyList
<1>3. \A x : Contains(buffer', x) <=> Contains(buffer, x) \/ Contains(unconfirmed, x)
  BY <1>1, JoinedList
<1>4. OneCopy'
  <2>1. IsInjective(buffer')
    <3>1. /\ IsInjective(buffer) /\ IsInjective(unconfirmed)
          /\ \A it \in Items : Contains(buffer, it) => ~ Contains(unconfirmed, it)
      BY DEF IInv, OneCopy
    <3>. QED
      BY <1>1, <3>1, JoinedList
  <2>. QED
    BY <1>1, <1>2, <1>3, <2>1 DEF IInv, OneCopy
<1>5. OnlyWhileOpen' /\ UnderWay' /\ ConfirmedStored' /\ OkMeansStored'
  BY <1>1, <1>2 DEF IInv, OnlyWhileOpen, UnderWay, ConfirmedStored, OkMeansStored
<1>6. ASSUME NEW it \in Items
      PROVE  StorePaid(it)'
  <2>1. StoreAhead(it)' => StoreAhead(it)
    BY <1>1, <1>2, <1>3 DEF StoreAhead
  <2>2. faults' = faults /\ stored' = stored
    BY <1>1
  <2>. QED
    BY <2>1, <2>2, AccountKept DEF IInv, StoresPaid
<1>. QED
  BY <1>4, <1>5, <1>6 DEF StoresPaid

LEMMA SendSafe ==
  ASSUME IInv, Send
  PROVE  /\ OnlyWhileOpen' /\ OneCopy' /\ UnderWay' /\ StoresPaid' /\ ConfirmedStored'
         /\ OkMeansStored'
<1>1. PICK h : h = Head(buffer)
  OBVIOUS
<1>2. /\ UNCHANGED <<connected, channel, phase, answer, confirms, settled, stored, faults>>
      /\ channel = "open" /\ buffer # <<>> /\ buffer' = Tail(buffer)
      /\ unconfirmed' = Append(unconfirmed, h) /\ wire' = Append(wire, h)
      /\ buffer \in Seq(Items) /\ unconfirmed \in Seq(Items) /\ wire \in Seq(Items)
  BY <1>1 DEF Send, IInv, TypeOK
<1>3. /\ IsInjective(buffer) /\ IsInjective(unconfirmed) /\ IsInjective(wire)
  BY DEF IInv, OneCopy, UnderWay
<1>4. /\ h \in Items /\ Contains(buffer, h) /\ ~ Contains(buffer', h) /\ IsInjective(buffer')
      /\ \A x : Contains(buffer, x) <=> x = h \/ Contains(buffer', x)
  BY <1>1, <1>2, <1>3, ShorterList
<1>5. ~ Contains(unconfirmed, h) /\ ~ Contains(wire, h)
  BY <1>4 DEF IInv, OneCopy, UnderWay
<1>6. /\ IsInjective(unconfirmed') /\ IsInjective(wire')
      /\ \A x : Contains(unconfirmed', x) <=> Contains(unconfirmed, x) \/ x = h
      /\ \A x : Contains(wire', x) <=> Contains(wire, x) \/ x = h
  BY <1>2, <1>3, <1>4, <1>5, LongerList
<1>7. OneCopy'
  BY <1>2, <1>4, <1>6 DEF IInv, OneCopy
<1>8. UnderWay'
  <2>1. \A c \in confirms : Contains(unconfirmed, c.item)
    BY DEF IInv, UnderWay
  <2>2. \A c \in confirms : c.item # h
    BY <1>5, <2>1
  <2>. QED
    BY <1>2, <1>6, <2>2 DEF IInv, UnderWay
<1>9. OnlyWhileOpen' /\ ConfirmedStored' /\ OkMeansStored'
  BY <1>2 DEF IInv, OnlyWhileOpen, ConfirmedStored, OkMeansStored
<1>10. ASSUME NEW it \in Items
       PROVE  StorePaid(it)'
  <2>1. StoreAhead(it)' => StoreAhead(it)
    BY <1>2, <1>4, <1>6 DEF StoreAhead
  <2>2. faults' = faults /\ stored' = stored
    BY <1>2
  <2>. QED
    BY <2>1, <2>2, AccountKept DEF IInv, StoresPaid
<1>. QED
  BY <1>7, <1>8, <1>9, <1>10 DEF StoresPaid

\* The broker answers the first message on the wire, storing it or not.
LEMMA BrokerAnswersSafe ==
  ASSUME IInv, BrokerStores \/ BrokerRefuses
  PROVE  /\ OnlyWhileOpen' /\ OneCopy' /\ UnderWay' /\ StoresPaid' /\ ConfirmedStored'
         /\ OkMeansStored'
<1>1. PICK h : h = Head(wire)
  OBVIOUS
<1>2. /\ UNCHANGED <<connected, channel, phase, answer, buffer, unconfirmed, settled>>
      /\ wire # <<>> /\ wire' = Tail(wire) /\ wire \in Seq(Items)
      /\ IsInjective(wire)
  BY DEF BrokerStores, BrokerRefuses, IInv, TypeOK, UnderWay
<1>3. /\ h \in Items /\ Contains(wire, h) /\ ~ Contains(wire', h) /\ IsInjective(wire')
      /\ \A x : Contains(wire, x) <=> x = h \/ Contains(wire', x)
  BY <1>1, <1>2, ShorterList
<1>4. PICK g : /\ confirms' = confirms \cup {g} /\ g.item = h
               /\ \/ /\ g.ack /\ faults' = faults
                     /\ stored' = [stored EXCEPT ![h] = @ + 1]
                  \/ /\ ~ g.ack /\ faults' = faults + 1
                     /\ stored' = stored
  <2>1. CASE BrokerStores
    <3>1. PICK g : g = [item |-> h, ack |-> TRUE]
      OBVIOUS
    <3>2. g.item = h /\ g.ack
      BY <3>1
    <3>. QED
      BY <1>1, <2>1, <3>1, <3>2 DEF BrokerStores
  <2>2. CASE BrokerRefuses
    <3>1. PICK g : g = [item |-> h, ack |-> FALSE]
      OBVIOUS
    <3>2. g.item = h /\ ~ g.ack
      BY <3>1
    <3>. QED
      BY <1>1, <2>2, <3>1, <3>2 DEF BrokerRefuses, Disturbance
  <2>. QED
    BY <2>1, <2>2
<1>5. /\ channel = "open" /\ connected /\ Contains(unconfirmed, h)
      /\ ~ Contains(buffer, h) /\ phase[h[1]] # "idle"
  <2>1. channel = "open" /\ connected
    BY <1>2 DEF IInv, OnlyWhileOpen, TypeOK
  <2>2. Contains(unconfirmed, h)
    BY <1>3 DEF IInv, UnderWay
  <2>. QED
    BY <1>3, <2>1, <2>2 DEF IInv, OneCopy
<1>6. OnlyWhileOpen' /\ OneCopy'
  BY <1>2, <1>5 DEF IInv, OnlyWhileOpen, OneCopy
<1>7. UnderWay'
  <2>1. \A c \in confirms : Contains(unconfirmed, c.item) /\ ~ Contains(wire, c.item)
    BY DEF IInv, UnderWay
  <2>2. \A c \in confirms : c.item # h /\ ~ Contains(wire', c.item)
    BY <1>3, <2>1
  <2>3. \A it \in Items : Contains(wire', it) => Contains(unconfirmed', it)
    BY <1>2, <1>3 DEF IInv, UnderWay
  <2>4. \A c \in confirms' : Contains(unconfirmed', c.item) /\ ~ Contains(wire', c.item)
    BY <1>2, <1>3, <1>4, <1>5, <2>1, <2>2
  <2>5. \A c, e \in confirms' : c.item = e.item => c = e
    BY <1>4, <2>2 DEF IInv, UnderWay
  <2>. QED
    BY <1>3, <2>3, <2>4, <2>5 DEF UnderWay
<1>8. \A it \in Items : /\ stored[it] \in Nat /\ stored'[it] \in Nat
                        /\ it # h => stored'[it] = stored[it]
                        /\ stored'[it] >= stored[it]
                        /\ g.ack => stored'[h] = stored[h] + 1
  BY <1>3, <1>4 DEF IInv, TypeOK
<1>9. ConfirmedStored'
  <2>1. ASSUME NEW c \in confirms', c.ack
        PROVE  stored'[c.item] > 0
    <3>1. CASE c = g
      BY <1>3, <1>4, <1>8, <2>1, <3>1
    <3>2. CASE c \in confirms
      <4>1. c.item \in Items /\ stored[c.item] > 0
        BY <2>1, <3>2 DEF IInv, TypeOK, ConfirmedStored
      <4>. QED
        BY <1>8, <4>1
    <3>. QED
      BY <1>4, <3>1, <3>2
  <2>2. \A it \in Items : settled'[it] = "confirmed" => stored'[it] > 0
    <3>1. TAKE it \in Items
    <3>2. settled[it] = "confirmed" => stored[it] > 0
      BY DEF IInv, ConfirmedStored
    <3>. QED
      BY <1>2, <1>8, <3>2
  <2>. QED
    BY <2>1, <2>2 DEF ConfirmedStored
<1>10. OkMeansStored'
  <2>1. ASSUME NEW r \in Requests, answer'[r] = "ok", NEW it \in ItemsOf(r)
        PROVE  stored'[it] > 0
    <3>1. it \in Items /\ stored[it] > 0
      BY <1>2, <2>1, ItemOf DEF IInv, OkMeansStored
    <3>. QED
      BY <1>8, <3>1
  <2>. QED
    BY <2>1 DEF OkMeansStored
<1>11. ASSUME NEW it \in Items
       PROVE  StorePaid(it)'
  <2>1. StorePaid(it) /\ faults \in Nat /\ TypeOK
    BY DEF IInv, StoresPaid, TypeOK
  <2>2. CASE it # h \/ ~ g.ack
    <3>1. StoreAhead(it)' => StoreAhead(it)
      BY <1>2, <1>3 DEF StoreAhead
    <3>2. stored'[it] = stored[it]
      BY <1>4, <1>8, <2>2
    <3>3. faults' = faults \/ faults' = faults + 1
      BY <1>4
    <3>. QED
      BY <2>1, <3>1, <3>2, <3>3, AccountKept
  <2>3. CASE it = h /\ g.ack
    <3>1. StoreAhead(h) /\ ~ StoreAhead(h)'
      BY <1>2, <1>3, <1>5 DEF StoreAhead
    <3>2. stored'[h] = stored[h] + 1 /\ stored[h] \in Nat /\ faults' = faults
      BY <1>3, <1>4, <1>8, <2>3
    <3>. QED
      BY <2>1, <2>3, <3>1, <3>2 DEF StorePaid
  <2>. QED
    BY <2>2, <2>3
<1>. QED
  BY <1>6, <1>7, <1>9, <1>10, <1>11 DEF StoresPaid

LEMMA AnswerKeeps ==
  ASSUME TypeOK, NEW r \in Requests, NEW a \in {"ok", "failed"}, Answer(r, a)
  PROVE  \A q \in Requests : answer'[q] = "ok" => answer[q] = "ok" \/ (q = r /\ a = "ok")
BY DEF Answer, TypeOK

LEMMA PublishSafe ==
  ASSUME IInv, NEW r \in Requests, Publish(r)
  PROVE  /\ OnlyWhileOpen' /\ OneCopy' /\ UnderWay' /\ StoresPaid' /\ ConfirmedStored'
         /\ OkMeansStored'
<1>1. /\ UNCHANGED <<connected, channel, unconfirmed, wire, confirms, settled, stored, faults>>
      /\ phase[r] = "idle" /\ TypeOK /\ buffer \in Seq(Items)
      /\ \A q \in Requests : answer'[q] = "ok" => answer[q] = "ok" \/ (q = r /\ Payload[r] = <<>>)
      /\ buffer' = buffer \/ buffer' = buffer \o Handed(r)
  <2>1. TypeOK
    BY DEF IInv
  <2>2. answer' = answer \/ Answer(r, "failed") \/ (Answer(r, "ok") /\ Payload[r] = <<>>)
    BY DEF Publish
  <2>3. \A q \in Requests : answer'[q] = "ok" => answer[q] = "ok" \/ (q = r /\ Payload[r] = <<>>)
    BY <2>1, <2>2, AnswerKeeps
  <2>. QED
    BY <2>1, <2>3 DEF Publish, TypeOK
<1>2. /\ phase'[r] # "idle"
      /\ \A q \in Requests : q # r => phase'[q] = phase[q]
  BY <1>1 DEF Publish, TypeOK
<1>3. /\ Handed(r) \in Seq(Items) /\ IsInjective(Handed(r))
      /\ \A x : Contains(Handed(r), x) => x \in Items /\ x[1] = r
  BY HandedList, ItemOf
<1>4. \A it \in Items : it[1] \in Requests
  BY ItemOf
<1>5. \A it \in Items : it[1] = r => ~ Contains(buffer, it) /\ ~ Contains(unconfirmed, it)
  BY <1>1 DEF IInv, OneCopy
<1>6. /\ IsInjective(buffer')
      /\ \A x : Contains(buffer', x) =>
           Contains(buffer, x) \/ (x \in Items /\ x[1] = r)
  <2>1. IsInjective(buffer)
    BY DEF IInv, OneCopy
  <2>2. CASE buffer' = buffer
    BY <2>1, <2>2
  <2>3. CASE buffer' = buffer \o Handed(r)
    <3>1. \A it \in Items : Contains(buffer, it) => ~ Contains(Handed(r), it)
      BY <1>3, <1>5
    <3>2. IsInjective(buffer \o Handed(r))
      BY <1>1, <1>3, <2>1, <3>1, JoinedList
    <3>3. \A x : Contains(buffer \o Handed(r), x) <=>
            Contains(buffer, x) \/ Contains(Handed(r), x)
      BY <1>1, <1>3, JoinedList
    <3>. QED
      BY <1>3, <2>3, <3>2, <3>3
  <2>. QED
    BY <1>1, <2>2, <2>3
<1>7. OneCopy'
  <2>1. ASSUME NEW it \in Items
        PROVE  /\ Contains(buffer', it) => ~ Contains(unconfirmed', it)
               /\ phase'[it[1]] = "idle" =>
                    ~ Contains(buffer', it) /\ ~ Contains(unconfirmed', it)
    BY <1>1, <1>2, <1>4, <1>5, <1>6 DEF IInv, OneCopy
  <2>. QED
    BY <1>1, <1>6, <2>1 DEF IInv, OneCopy
<1>8. OnlyWhileOpen' /\ UnderWay' /\ ConfirmedStored' /\ OkMeansStored'
  <2>1. OnlyWhileOpen' /\ UnderWay' /\ ConfirmedStored'
    BY <1>1 DEF IInv, OnlyWhileOpen, UnderWay, ConfirmedStored
  <2>2. Payload[r] = <<>> => ItemsOf(r) = {}
    BY EmptySeq DEF ItemsOf
  <2>3. OkMeansStored'
    BY <1>1, <2>2 DEF IInv, OkMeansStored
  <2>. QED
    BY <2>1, <2>3
<1>9. ASSUME NEW it \in Items
      PROVE  StorePaid(it)'
  <2>1. StoreAhead(it)' => StoreAhead(it)
    BY <1>1, <1>2, <1>4, <1>6 DEF StoreAhead
  <2>2. faults' = faults /\ stored' = stored
    BY <1>1
  <2>. QED
    BY <1>1, <2>1, <2>2, AccountKept DEF IInv, StoresPaid
<1>. QED
  BY <1>7, <1>8, <1>9 DEF StoresPaid

LEMMA ConfirmSafe ==
  ASSUME IInv, NEW c \in confirms, Confirm(c)
  PROVE  /\ OnlyWhileOpen' /\ OneCopy' /\ UnderWay' /\ StoresPaid' /\ ConfirmedStored'
         /\ OkMeansStored'
<1>. DEFINE r == c.item[1]
<1>1. /\ UNCHANGED <<connected, channel, buffer, wire, stored, faults>>
      /\ confirms' = confirms \ {c} /\ unconfirmed' = Without(unconfirmed, c.item)
      /\ settled' = [settled EXCEPT ![c.item] = IF c.ack THEN "confirmed" ELSE "refused"]
      /\ TypeOK /\ unconfirmed \in Seq(Items)
      /\ c.item \in Items /\ r \in Requests
  BY ItemOf DEF Confirm, IInv, TypeOK
<1>2. Contains(unconfirmed, c.item) /\ ~ Contains(wire, c.item) /\ IsInjective(unconfirmed)
  BY DEF IInv, UnderWay, OneCopy
<1>3. /\ IsInjective(unconfirmed')
      /\ \A x : Contains(unconfirmed', x) <=> Contains(unconfirmed, x) /\ x # c.item
  BY <1>1, <1>2, CutList
<1>4. \A q \in Requests : phase'[q] = "idle" <=> phase[q] = "idle"
  BY <1>1 DEF Confirm, TypeOK
<1>5. \A it \in Items : it[1] \in Requests
  BY ItemOf
<1>6. OneCopy'
  BY <1>1, <1>3, <1>4, <1>5 DEF IInv, OneCopy
<1>7. UnderWay'
  <2>1. \A e \in confirms' : e.item # c.item
    BY <1>1 DEF IInv, UnderWay
  <2>2. \A it \in Items : Contains(wire, it) => Contains(unconfirmed', it)
    BY <1>2, <1>3 DEF IInv, UnderWay
  <2>. QED
    BY <1>1, <1>3, <2>1, <2>2 DEF IInv, UnderWay
<1>8. ConfirmedStored'
  <2>1. c.ack => stored[c.item] > 0
    BY DEF IInv, ConfirmedStored
  <2>2. \A it \in Items : settled'[it] = "confirmed" =>
          settled[it] = "confirmed" \/ (it = c.item /\ c.ack)
    BY <1>1 DEF TypeOK
  <2>. QED
    BY <1>1, <2>1, <2>2 DEF IInv, ConfirmedStored
<1>9. OkMeansStored'
  <2>1. ASSUME NEW q \in Requests, answer'[q] = "ok", NEW it \in ItemsOf(q)
        PROVE  stored[it] > 0
    <3>1. CASE answer[q] = "ok"
      BY <2>1, <3>1 DEF IInv, OkMeansStored
    <3>2. CASE answer[q] # "ok"
      <4>1. q = r /\ AllConfirmed(r)
        <5>1. \/ answer' = answer
              \/ Answer(r, "failed")
              \/ Answer(r, "ok") /\ AllConfirmed(r)
          BY DEF Confirm
        <5>. QED
          BY <1>1, <2>1, <3>2, <5>1, AnswerKeeps
      <4>2. settled'[it] = "confirmed" /\ it \in Items
        BY <2>1, <4>1, ItemOf DEF AllConfirmed
      <4>. QED
        BY <1>1, <1>8, <4>2 DEF ConfirmedStored
    <3>. QED
      BY <3>1, <3>2
  <2>. QED
    BY <1>1, <2>1 DEF OkMeansStored
<1>10. OnlyWhileOpen'
  BY <1>1 DEF IInv, OnlyWhileOpen
<1>11. ASSUME NEW it \in Items
       PROVE  StorePaid(it)'
  <2>1. StoreAhead(it)' => StoreAhead(it)
    BY <1>1, <1>3, <1>4, <1>5 DEF StoreAhead
  <2>2. faults' = faults /\ stored' = stored
    BY <1>1
  <2>. QED
    BY <1>1, <2>1, <2>2, AccountKept DEF IInv, StoresPaid
<1>. QED
  BY <1>6, <1>7, <1>8, <1>9, <1>10, <1>11 DEF StoresPaid

\* Every step preserves the invariant.
LEMMA InvStep ==
  ASSUME IInv, [Next]_vars
  PROVE  IInv'
<1>1. ASSUME UNCHANGED vars
      PROVE  IInv'
  BY <1>1 DEF vars, IInv, TypeOK, OnlyWhileOpen, OneCopy, UnderWay, StoresPaid, StorePaid,
              StoreAhead, ConfirmedStored, OkMeansStored
<1>2. SUFFICES ASSUME Next
               PROVE  /\ OnlyWhileOpen' /\ OneCopy' /\ UnderWay' /\ StoresPaid'
                      /\ ConfirmedStored' /\ OkMeansStored'
  BY <1>1, TypeStep DEF IInv
<1>3. CASE Reconnect \/ ChannelOpens
  BY <1>3, ReconnectSafe, ChannelOpensSafe
<1>4. CASE ConnectionLost \/ ChannelClosed
  <2>1. /\ channel' = "closed" /\ wire' = <<>> /\ confirms' = {} /\ faults' = faults + 1
        /\ UNCHANGED <<phase, answer, buffer, unconfirmed, settled, stored>>
    BY <1>4 DEF ConnectionLost, ChannelClosed, Disturbance
  <2>. QED
    BY <2>1, ChannelGoneSafe
<1>5. CASE Kill
  BY <1>5, CrashSafe DEF Kill, Disturbance
<1>6. CASE Send \/ BrokerStores \/ BrokerRefuses
  BY <1>6, SendSafe, BrokerAnswersSafe
<1>7. ASSUME NEW r \in Requests, Publish(r)
      PROVE  /\ OnlyWhileOpen' /\ OneCopy' /\ UnderWay' /\ StoresPaid'
             /\ ConfirmedStored' /\ OkMeansStored'
  BY <1>7, PublishSafe
<1>8. ASSUME NEW r \in Requests, Timeout(r)
      PROVE  /\ OnlyWhileOpen' /\ OneCopy' /\ UnderWay' /\ StoresPaid'
             /\ ConfirmedStored' /\ OkMeansStored'
  <2>1. UNCHANGED <<connected, channel, phase, buffer, unconfirmed, wire, confirms, settled,
                    stored, faults>>
    BY <1>8 DEF Timeout
  <2>2. \A q \in Requests : answer'[q] = "ok" => answer[q] = "ok"
    BY <1>8, AnswerKeeps DEF Timeout, IInv
  <2>. QED
    BY <2>1, <2>2 DEF IInv, OnlyWhileOpen, OneCopy, UnderWay, StoresPaid, StorePaid,
                      StoreAhead, ConfirmedStored, OkMeansStored
<1>9. ASSUME NEW c \in confirms, Confirm(c)
      PROVE  /\ OnlyWhileOpen' /\ OneCopy' /\ UnderWay' /\ StoresPaid'
             /\ ConfirmedStored' /\ OkMeansStored'
  BY <1>9, ConfirmSafe
<1>10. ASSUME NEW c \in confirms, OrphanRefused(c)
       PROVE  /\ OnlyWhileOpen' /\ OneCopy' /\ UnderWay' /\ StoresPaid'
              /\ ConfirmedStored' /\ OkMeansStored'
  <2>1. \A it \in Items : settled'[it] = "confirmed" => settled[it] = "confirmed"
    BY <1>10 DEF OrphanRefused, IInv, TypeOK
  <2>. QED
    BY <1>10, <2>1, CrashSafe DEF OrphanRefused
<1>. QED
  BY <1>2, <1>3, <1>4, <1>5, <1>6, <1>7, <1>8, <1>9, <1>10 DEF Next

LEMMA InvInit == Init => IInv
<1>. SUFFICES ASSUME Init PROVE IInv
  OBVIOUS
<1>1. /\ <<>> \in Seq(Items) /\ IsInjective(<<>>) /\ \A x : ~ Contains(<<>>, x)
      /\ \A it \in Items : it[1] \in Requests
  BY EmptyList, ItemOf
<1>2. TypeOK
  BY <1>1 DEF Init, TypeOK
<1>3. OnlyWhileOpen /\ OneCopy /\ UnderWay /\ ConfirmedStored /\ OkMeansStored
  BY <1>1 DEF Init, OnlyWhileOpen, OneCopy, UnderWay, ConfirmedStored, OkMeansStored
<1>4. StoresPaid
  BY DEF Init, StoresPaid, StorePaid
<1>. QED
  BY <1>2, <1>3, <1>4 DEF IInv

\* The inductive invariant holds in every reachable state.
THEOREM Invariance == Spec => []IInv
BY InvInit, InvStep, PTL DEF Spec

THEOREM TypeCorrect == Spec => []TypeOK
<1>1. IInv => TypeOK
  BY DEF IInv
<1>. QED
  BY <1>1, Invariance, PTL

\* A client that is answered ok can rely on it: the broker has stored every one
\* of its messages, whatever channels they were sent on.
THEOREM OkReliable == Spec => []OkMeansStored
<1>1. IInv => OkMeansStored
  BY DEF IInv
<1>. QED
  BY <1>1, Invariance, PTL

\* The wrapper's resending costs at most one more copy per disturbance, although
\* the timeout answers the client while its messages are still on their way.
THEOREM CopiesBounded == Spec => []StoredBounded
<1>1. ASSUME IInv, NEW it \in Items
      PROVE  stored[it] <= 1 + faults
  <2>1. StorePaid(it) /\ stored[it] \in Nat /\ faults \in Nat
    BY <1>1 DEF IInv, TypeOK, StoresPaid
  <2>. QED
    BY <2>1 DEF StorePaid
<1>2. IInv => StoredBounded
  BY <1>1 DEF StoredBounded
<1>. QED
  BY <1>2, Invariance, PTL
=============================================================================

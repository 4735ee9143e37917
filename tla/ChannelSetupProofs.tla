------------------------ MODULE ChannelSetupProofs ------------------------
(***************************************************************************)
(* Proofs about ChannelSetup, for any consumers, bindings and channels, any *)
(* options of theirs and any number of disturbances.                       *)
(***************************************************************************)
EXTENDS ChannelSetup, SequenceTheorems, WellFoundedInduction, TLAPS

----------------------------------------------------------------------------
(* Lists, by what they have of a set.                                      *)

Has(s, T) == \E i \in DOMAIN s : s[i] \in T

AtMostOne(s, T) == \A i, k \in DOMAIN s : s[i] \in T /\ s[k] \in T => i = k

\* Induction, in the form used below.
LEMMA LeastOf ==
  ASSUME NEW B \in SUBSET Nat, B # {}
  PROVE  \E m \in B : \A k \in B : m <= k
<1>1. PICK v \in B : \A w \in B : ~ (<<w, v>> \in OpToRel(<, Nat))
  BY WFMin, NatLessThanWellFounded, Zenon
<1>2. \A w \in B : ~ (w < v)
  BY <1>1 DEF OpToRel
<1>. QED
  BY <1>2

LEMMA ContainsHas ==
  ASSUME NEW S, NEW s \in Seq(S)
  PROVE  /\ \A x : Contains(s, x) <=> Has(s, {x})
         /\ \A x : Contains(s, x) <=> x \in Range(s)
         /\ \A T : Has(s, T) <=> \E x \in T : Contains(s, x)
         /\ IsInjective(s) <=> \A x : AtMostOne(s, {x})
         /\ \A x : Contains(s, x) => x \in S
<1>1. DOMAIN s = 1..Len(s) /\ \A i \in 1..Len(s) : s[i] \in S
  BY LenProperties, ElementOfSeq
<1>2. IsInjective(s) <=> \A x : AtMostOne(s, {x})
  BY DEF IsInjective, AtMostOne
<1>. QED
  BY <1>1, <1>2 DEF Contains, Has, Range

LEMMA EmptyList ==
  /\ \A S : <<>> \in Seq(S)
  /\ \A T : ~ Has(<<>>, T) /\ AtMostOne(<<>>, T)
  /\ \A x : ~ Contains(<<>>, x)
  /\ IsInjective(<<>>)
<1>1. Len(<<>>) = 0 /\ DOMAIN <<>> = {} /\ \A S : <<>> \in Seq(S)
  BY EmptySeq
<1>. QED
  BY <1>1 DEF Has, AtMostOne, Contains, IsInjective

LEMMA SingleList ==
  ASSUME NEW S, NEW x \in S
  PROVE  /\ <<x>> \in Seq(S) /\ <<x>>[1] = x /\ <<x>> # <<>> /\ DOMAIN <<x>> = {1}
         /\ \A y : Contains(<<x>>, y) <=> y = x
         /\ \A T : AtMostOne(<<x>>, T) /\ (Has(<<x>>, T) <=> x \in T)
         /\ IsInjective(<<x>>)
<1>1. PICK s : s = <<x>>
  OBVIOUS
<1>2. s \in Seq(S) /\ Len(s) = 1 /\ s[1] = x /\ DOMAIN s = 1..1 /\ s # <<>>
  BY <1>1
<1>3. DOMAIN s = {1}
  BY <1>2
<1>. QED
  BY <1>1, <1>2, <1>3 DEF Contains, AtMostOne, Has, IsInjective

LEMMA ShortLists ==
  ASSUME NEW x, NEW y
  PROVE  /\ <<x>> \o <<y>> = <<x, y>>
         /\ Append(<<x>>, y) = <<x, y>> /\ Append(<<>>, x) = <<x>>
         /\ Len(<<x>>) = 1 /\ Len(<<x, y>>) = 2 /\ <<x, y>>[1] = x /\ <<x, y>>[2] = y
         /\ DOMAIN <<x>> = 1..1 /\ DOMAIN <<x, y>> = 1..2 /\ <<x>>[1] = x
<1>1. PICK s, t, u : s = <<x>> /\ t = <<y>> /\ u = <<x, y>>
  OBVIOUS
<1>2. s \in Seq({x, y}) /\ t \in Seq({x, y}) /\ u \in Seq({x, y})
  BY <1>1
<1>3. Len(s) = 1 /\ s[1] = x /\ Len(t) = 1 /\ t[1] = y /\ Len(u) = 2 /\ u[1] = x /\ u[2] = y
  BY <1>1
<1>4. s \o t = u
  <2>1. /\ s \o t \in Seq({x, y}) /\ Len(s \o t) = 2
        /\ \A i \in 1..2 : (s \o t)[i] = IF i <= 1 THEN s[i] ELSE t[i - 1]
    BY <1>2, <1>3, ConcatProperties
  <2>2. \A i \in 1..Len(u) : (s \o t)[i] = u[i]
    BY <1>3, <2>1
  <2>. QED
    BY <1>2, <1>3, <2>1, <2>2, SeqEqual
<1>5. Append(s, y) = u
  <2>1. Append(s, y) = s \o t
    BY <1>1, <1>2, AppendIsConcat
  <2>. QED
    BY <1>4, <2>1
<1>6. Append(<<>>, x) = s
  BY <1>1
<1>7. DOMAIN <<x>> = 1..1 /\ DOMAIN <<x, y>> = 1..2
  OBVIOUS
<1>. QED
  BY <1>1, <1>3, <1>4, <1>5, <1>6, <1>7

\* Two lists, one after the other.
LEMMA JoinedList ==
  ASSUME NEW S, NEW s \in Seq(S), NEW t \in Seq(S)
  PROVE  /\ s \o t \in Seq(S)
         /\ s # <<>> => s \o t # <<>> /\ (s \o t)[1] = s[1]
         /\ \A x : Contains(s \o t, x) <=> Contains(s, x) \/ Contains(t, x)
         /\ \A T : Has(s \o t, T) <=> Has(s, T) \/ Has(t, T)
         /\ \A T : AtMostOne(s \o t, T) <=> /\ AtMostOne(s, T) /\ AtMostOne(t, T)
                                            /\ ~ (Has(s, T) /\ Has(t, T))
<1>1. PICK u : u = s \o t
  OBVIOUS
<1>2. /\ u \in Seq(S) /\ Len(u) = Len(s) + Len(t)
      /\ Len(s) \in Nat /\ Len(t) \in Nat /\ DOMAIN s = 1..Len(s) /\ DOMAIN t = 1..Len(t)
      /\ DOMAIN u = 1..Len(u)
      /\ \A i \in 1 .. Len(s) + Len(t) : u[i] = IF i <= Len(s) THEN s[i] ELSE t[i - Len(s)]
  BY <1>1, ConcatProperties, LenProperties
<1>3. \A i \in DOMAIN s : i \in DOMAIN u /\ u[i] = s[i]
  BY <1>2
<1>4. ASSUME NEW i \in DOMAIN t
      PROVE  Len(s) + i \in DOMAIN u /\ u[Len(s) + i] = t[i]
  <2>1. Len(s) + i \in 1..Len(u) /\ ~ (Len(s) + i <= Len(s)) /\ (Len(s) + i) - Len(s) = i
    BY <1>2
  <2>. QED
    BY <1>2, <2>1
<1>5. \A i \in DOMAIN u : \/ i \in DOMAIN s /\ u[i] = s[i]
                          \/ \E k \in DOMAIN t : i = Len(s) + k /\ u[i] = t[k]
  <2>1. \A i \in DOMAIN u : ~ (i <= Len(s)) =>
          i - Len(s) \in DOMAIN t /\ i = Len(s) + (i - Len(s)) /\ u[i] = t[i - Len(s)]
    BY <1>2
  <2>2. \A i \in DOMAIN u : i <= Len(s) => i \in DOMAIN s /\ u[i] = s[i]
    BY <1>2
  <2>. QED
    BY <2>1, <2>2
<1>6. \A T : Has(u, T) <=> Has(s, T) \/ Has(t, T)
  BY <1>3, <1>4, <1>5 DEF Has
<1>7. ASSUME NEW T, AtMostOne(s, T), AtMostOne(t, T), ~ (Has(s, T) /\ Has(t, T)),
             NEW i \in DOMAIN u, NEW k \in DOMAIN u, u[i] \in T, u[k] \in T
      PROVE  i = k
  BY <1>5, <1>7 DEF AtMostOne, Has
<1>8. ASSUME NEW T, AtMostOne(u, T)
      PROVE  AtMostOne(s, T) /\ AtMostOne(t, T) /\ ~ (Has(s, T) /\ Has(t, T))
  <2>1. AtMostOne(s, T)
    BY <1>3, <1>8 DEF AtMostOne
  <2>2. ASSUME NEW i \in DOMAIN t, NEW k \in DOMAIN t, t[i] \in T, t[k] \in T
        PROVE  i = k
    <3>1. Len(s) + i = Len(s) + k
      BY <1>4, <1>8, <2>2 DEF AtMostOne
    <3>2. i \in Nat /\ k \in Nat
      BY <1>2
    <3>. QED
      BY <1>2, <3>1, <3>2
  <2>3. ASSUME NEW i \in DOMAIN s, NEW k \in DOMAIN t, s[i] \in T, t[k] \in T
        PROVE  FALSE
    <3>1. i = Len(s) + k
      BY <1>3, <1>4, <1>8, <2>3 DEF AtMostOne
    <3>2. i \in 1..Len(s) /\ k \in 1..Len(t)
      BY <1>2
    <3>. QED
      BY <1>2, <3>1, <3>2
  <2>. QED
    BY <2>1, <2>2, <2>3 DEF AtMostOne, Has
<1>9. \A T : AtMostOne(u, T) <=> /\ AtMostOne(s, T) /\ AtMostOne(t, T)
                                 /\ ~ (Has(s, T) /\ Has(t, T))
  BY <1>7, <1>8 DEF AtMostOne
<1>10. s # <<>> => u # <<>> /\ u[1] = s[1]
  <2>1. s # <<>> => 1 \in DOMAIN s
    BY <1>2, EmptySeq
  <2>. QED
    BY <1>3, <2>1, EmptySeq
<1>11. \A x : Contains(u, x) <=> Contains(s, x) \/ Contains(t, x)
  BY <1>2, <1>6, ContainsHas
<1>. QED
  BY <1>1, <1>2, <1>6, <1>9, <1>10, <1>11

\* FlattenSeq joins its parts from the first one on.
LEMMA Flattening ==
  ASSUME NEW S, NEW ss \in Seq(Seq(S))
  PROVE  \E g \in [0..Len(ss) -> Seq(S)] :
           /\ g[0] = <<>> /\ \A i \in 1..Len(ss) : g[i] = g[i-1] \o ss[i]
           /\ FlattenSeq(ss) = g[Len(ss)]
<1>. DEFINE n == Len(ss)
            Joins(g, m) == /\ g \in [0..m -> Seq(S)] /\ g[0] = <<>>
                           /\ \A i \in 1..m : g[i] = g[i-1] \o ss[i]
            Bad == {m \in 0..n : ~ \E g : Joins(g, m)}
<1>1. n \in Nat /\ \A i \in 1..n : ss[i] \in Seq(S)
  BY LenProperties, ElementOfSeq
<1>2. \E g : Joins(g, n)
  <2>. HIDE DEF Joins
  <2>1. SUFFICES ASSUME ~ \E g : Joins(g, n) PROVE FALSE
    OBVIOUS
  <2>2. Bad \in SUBSET Nat /\ Bad # {}
    <3>1. n \in Bad
      BY <1>1, <2>1
    <3>. QED
      BY <1>1, <3>1
  <2>. HIDE DEF Bad
  <2>3. PICK m \in Bad : \A k \in Bad : m <= k
    BY <2>2, LeastOf
  <2>. USE DEF Bad
  <2>4. m \in 0..n /\ ~ \E g : Joins(g, m)
    OBVIOUS
  <2>5. CASE m = 0
    <3>1. PICK g : g = [i \in 0..0 |-> <<>>]
      OBVIOUS
    <3>2. g \in [0..0 -> Seq(S)] /\ g[0] = <<>>
      BY <3>1, EmptyList
    <3>3. Joins(g, m)
      BY <2>5, <3>2 DEF Joins
    <3>. QED
      BY <2>4, <3>3
  <2>6. CASE m # 0
    <3>1. m-1 \in 0..n /\ m-1 \in Nat /\ ~ (m <= m-1)
      BY <1>1, <2>4, <2>6
    <3>2. PICK g : Joins(g, m-1)
      <4>1. m-1 \notin Bad
        BY <2>3, <3>1
      <4>. QED
        BY <3>1, <4>1
    <3>. USE DEF Joins
    <3>3. PICK h : h = [i \in 0..m |-> IF i = m THEN g[m-1] \o ss[m] ELSE g[i]]
      OBVIOUS
    <3>4. g[m-1] \o ss[m] \in Seq(S)
      <4>1. g[m-1] \in Seq(S) /\ ss[m] \in Seq(S)
        BY <1>1, <2>4, <2>6, <3>1, <3>2
      <4>. QED
        BY <4>1, ConcatProperties
    <3>5. h \in [0..m -> Seq(S)]
      <4>1. \A i \in 0..m : i # m => i \in 0..(m-1)
        BY <2>4
      <4>. QED
        BY <3>2, <3>3, <3>4, <4>1
    <3>6. h[0] = <<>>
      BY <2>4, <2>6, <3>2, <3>3
    <3>7. ASSUME NEW i \in 1..m
          PROVE  h[i] = h[i-1] \o ss[i]
      <4>1. i - 1 \in 0..m /\ i - 1 # m /\ i \in 0..m
        BY <2>4
      <4>2. h[i-1] = g[i-1]
        BY <3>3, <4>1
      <4>3. CASE i = m
        BY <3>3, <4>1, <4>2, <4>3
      <4>4. CASE i # m
        <5>1. i \in 1..(m-1)
          BY <2>4, <4>4
        <5>2. g[i] = g[i-1] \o ss[i]
          BY <3>2, <5>1
        <5>. QED
          BY <3>3, <4>1, <4>2, <4>4, <5>2
      <4>. QED
        BY <4>3, <4>4
    <3>. QED
      BY <2>4, <3>5, <3>6, <3>7
  <2>. QED
    BY <2>5, <2>6
<1>3. PICK g : Joins(g, n)
  BY <1>2
<1>4. FlattenSeq(ss) = g[n]
  <2>1. CASE n = 0
    BY <1>3, <2>1, EmptySeq DEF FlattenSeq
  <2>2. CASE n # 0
    <3>. DEFINE Body(f) == [i \in 1..n |-> IF i = 1 THEN ss[i] ELSE f[i-1] \o ss[i]]
                F == CHOOSE f : f = Body(f)
    <3>1. FlattenSeq(ss) = F[n]
      BY <2>2 DEF FlattenSeq
    <3>2. PICK e : e = [i \in 1..n |-> g[i]]
      OBVIOUS
    <3>3. e = Body(e)
      <4>1. ASSUME NEW i \in 1..n
            PROVE  e[i] = IF i = 1 THEN ss[i] ELSE e[i-1] \o ss[i]
        <5>1. e[i] = g[i-1] \o ss[i]
          BY <1>3, <3>2
        <5>2. CASE i = 1
          <6>1. g[i-1] = <<>>
            BY <1>3, <5>2
          <6>. QED
            BY <1>1, <5>1, <5>2, <6>1, ConcatEmptySeq
        <5>3. CASE i # 1
          <6>1. i-1 \in 1..n
            BY <1>1, <5>3
          <6>. QED
            BY <3>2, <5>1, <5>3, <6>1
        <5>. QED
          BY <5>2, <5>3
      <4>. QED
        BY <3>2, <4>1
    <3>4. F = Body(F)
      BY <3>3
    <3>. HIDE DEF F
    <3>5. ASSUME F[n] # g[n]
          PROVE  FALSE
      <4>. DEFINE Off == {i \in 1..n : F[i] # g[i]}
      <4>1. Off \in SUBSET Nat /\ Off # {}
        <5>1. n \in 1..n
          BY <1>1, <2>2
        <5>2. n \in Off
          BY <3>5, <5>1
        <5>. QED
          BY <1>1, <5>2
      <4>. HIDE DEF Off
      <4>2. PICK i \in Off : \A k \in Off : i <= k
        BY <4>1, LeastOf
      <4>. USE DEF Off
      <4>3. i \in 1..n /\ F[i] # g[i]
        OBVIOUS
      <4>4. F[i] = IF i = 1 THEN ss[i] ELSE F[i-1] \o ss[i]
        BY <3>4, <4>3
      <4>5. g[i] = g[i-1] \o ss[i]
        BY <1>3, <4>3
      <4>6. CASE i = 1
        <5>1. g[i-1] = <<>>
          BY <1>3, <4>6
        <5>. QED
          BY <1>1, <4>3, <4>4, <4>5, <4>6, <5>1, ConcatEmptySeq
      <4>7. CASE i # 1
        <5>1. i-1 \in 1..n /\ i-1 \notin Off
          BY <1>1, <4>2, <4>3, <4>7
        <5>. QED
          BY <4>3, <4>4, <4>5, <4>7, <5>1
      <4>. QED
        BY <4>6, <4>7
    <3>. QED
      BY <3>1, <3>5
  <2>. QED
    BY <2>1, <2>2
<1>. QED
  BY <1>3, <1>4

\* What the joined parts have, one of them has, and each as often as they do.
LEMMA FlatList ==
  ASSUME NEW S, NEW ss \in Seq(Seq(S))
  PROVE  /\ FlattenSeq(ss) \in Seq(S)
         /\ \A T : Has(FlattenSeq(ss), T) <=> \E i \in 1..Len(ss) : Has(ss[i], T)
         /\ \A T : /\ \A i \in 1..Len(ss) : AtMostOne(ss[i], T)
                   /\ \A i, k \in 1..Len(ss) : Has(ss[i], T) /\ Has(ss[k], T) => i = k
                   => AtMostOne(FlattenSeq(ss), T)
         /\ \A x : Contains(FlattenSeq(ss), x) <=> \E i \in 1..Len(ss) : Contains(ss[i], x)
         /\ Len(ss) > 0 /\ ss[1] # <<>> => FlattenSeq(ss) # <<>> /\ FlattenSeq(ss)[1] = ss[1][1]
<1>. DEFINE n == Len(ss)
<1>1. n \in Nat /\ \A i \in 1..n : ss[i] \in Seq(S)
  BY LenProperties, ElementOfSeq
<1>2. PICK g : /\ g \in [0..n -> Seq(S)]
               /\ g[0] = <<>> /\ \A i \in 1..n : g[i] = g[i-1] \o ss[i]
               /\ FlattenSeq(ss) = g[n]
  BY Flattening
<1>. HIDE DEF n
<1>3. ASSUME NEW i \in 1..n
      PROVE  i - 1 \in 0..n /\ g[i-1] \in Seq(S) /\ ss[i] \in Seq(S) /\ g[i] = g[i-1] \o ss[i]
  <2>1. i - 1 \in 0..n
    BY <1>1
  <2>2. g[i-1] \in Seq(S)
    BY <1>2, <2>1
  <2>. QED
    BY <1>1, <1>2, <2>1, <2>2
<1>4. ASSUME NEW T
      PROVE  \A m \in 0..n : Has(g[m], T) <=> \E i \in 1..m : Has(ss[i], T)
  <2>. DEFINE Good(m) == Has(g[m], T) <=> \E i \in 1..m : Has(ss[i], T)
              Bad == {m \in 0..n : ~ Good(m)}
  <2>1. SUFFICES ASSUME Bad # {} PROVE FALSE
    OBVIOUS
  <2>2. Bad \in SUBSET Nat
    BY <1>1
  <2>. HIDE DEF Bad
  <2>3. PICK m \in Bad : \A k \in Bad : m <= k
    BY <2>1, <2>2, LeastOf
  <2>4. m \in 0..n /\ ~ Good(m)
    BY DEF Bad
  <2>5. m # 0
    BY <1>2, <2>4, EmptyList
  <2>6. m \in 1..n /\ m-1 \in 0..n /\ ~ (m <= m-1)
    BY <1>1, <2>4, <2>5
  <2>7. Good(m-1)
    <3>. HIDE DEF Good
    <3>. QED
      BY <2>3, <2>6 DEF Bad
  <2>8. Has(g[m], T) <=> Has(g[m-1], T) \/ Has(ss[m], T)
    <3>1. g[m-1] \in Seq(S) /\ ss[m] \in Seq(S) /\ g[m] = g[m-1] \o ss[m]
      BY <1>3, <2>6
    <3>. QED
      BY <3>1, JoinedList
  <2>9. \A i : i \in 1..m <=> i \in 1..(m-1) \/ i = m
    BY <2>6
  <2>. QED
    BY <2>4, <2>7, <2>8, <2>9
<1>5. ASSUME NEW T, \A i \in 1..n : AtMostOne(ss[i], T),
             \A i, k \in 1..n : Has(ss[i], T) /\ Has(ss[k], T) => i = k
      PROVE  AtMostOne(g[n], T)
  <2>. DEFINE Bad == {m \in 0..n : ~ AtMostOne(g[m], T)}
  <2>1. SUFFICES ASSUME Bad # {} PROVE FALSE
    BY <1>1
  <2>2. Bad \in SUBSET Nat
    BY <1>1
  <2>. HIDE DEF Bad
  <2>3. PICK m \in Bad : \A k \in Bad : m <= k
    BY <2>1, <2>2, LeastOf
  <2>4. m \in 0..n /\ ~ AtMostOne(g[m], T)
    BY DEF Bad
  <2>5. m # 0
    BY <1>2, <2>4, EmptyList
  <2>6. m \in 1..n /\ m-1 \in 0..n /\ ~ (m <= m-1)
    BY <1>1, <2>4, <2>5
  <2>7. AtMostOne(g[m-1], T)
    BY <2>3, <2>6 DEF Bad
  <2>8. ASSUME Has(g[m-1], T), Has(ss[m], T)
        PROVE  FALSE
    <3>1. PICK i \in 1..(m-1) : Has(ss[i], T)
      BY <1>4, <2>6, <2>8
    <3>2. i \in 1..n /\ i # m
      BY <1>1, <2>6
    <3>. QED
      BY <1>5, <2>6, <2>8, <3>1, <3>2
  <2>9. AtMostOne(g[m], T)
    <3>1. g[m-1] \in Seq(S) /\ ss[m] \in Seq(S) /\ g[m] = g[m-1] \o ss[m]
      BY <1>3, <2>6
    <3>2. AtMostOne(ss[m], T)
      BY <1>5, <2>6
    <3>. QED
      BY <2>7, <2>8, <3>1, <3>2, JoinedList
  <2>. QED
    BY <2>4, <2>9
<1>6. g[n] \in Seq(S)
  BY <1>1, <1>2
<1>7. ASSUME n > 0, ss[1] # <<>>
      PROVE  g[n] # <<>> /\ g[n][1] = ss[1][1]
  <2>. DEFINE Good(m) == g[m] # <<>> /\ g[m][1] = ss[1][1]
              Bad == {m \in 1..n : ~ Good(m)}
  <2>. HIDE DEF Good
  <2>1. SUFFICES ASSUME Bad # {} PROVE FALSE
    <3>1. n \in 1..n
      BY <1>1, <1>7
    <3>. QED
      BY <3>1 DEF Good
  <2>2. Bad \in SUBSET Nat
    BY <1>1
  <2>. HIDE DEF Bad
  <2>3. PICK m \in Bad : \A k \in Bad : m <= k
    BY <2>1, <2>2, LeastOf
  <2>4. m \in 1..n /\ ~ Good(m)
    BY DEF Bad
  <2>5. CASE m = 1
    <3>1. g[1] = <<>> \o ss[1] /\ ss[1] \in Seq(S)
      <4>1. \A i \in 1..n : i = 1 => g[i] = g[0] \o ss[i] /\ ss[i] \in Seq(S)
        <5>1. \A i \in 1..n : i = 1 => i-1 = 0
          OBVIOUS
        <5>. QED
          BY <1>3, <5>1
      <4>. QED
        BY <1>2, <2>4, <2>5, <4>1
    <3>2. g[1] = ss[1]
      BY <3>1, ConcatEmptySeq
    <3>. QED
      BY <1>7, <2>4, <2>5, <3>2 DEF Good
  <2>6. CASE m # 1
    <3>1. m-1 \in 1..n /\ ~ (m <= m-1)
      BY <1>1, <2>4, <2>6
    <3>2. Good(m-1)
      BY <2>3, <3>1 DEF Bad
    <3>3. g[m] # <<>> /\ g[m][1] = g[m-1][1]
      <4>1. g[m-1] \in Seq(S) /\ ss[m] \in Seq(S) /\ g[m] = g[m-1] \o ss[m]
        BY <1>3, <2>4
      <4>2. g[m-1] # <<>>
        BY <3>2 DEF Good
      <4>3. \A s, t \in Seq(S) : s # <<>> => s \o t # <<>> /\ (s \o t)[1] = s[1]
        BY JoinedList
      <4>4. g[m-1] \o ss[m] # <<>> /\ (g[m-1] \o ss[m])[1] = g[m-1][1]
        BY <4>1, <4>2, <4>3
      <4>. QED
        BY <4>1, <4>4
    <3>. QED
      BY <2>4, <3>2, <3>3 DEF Good
  <2>. QED
    BY <2>5, <2>6
<1>8. \A T : Has(g[n], T) <=> \E i \in 1..n : Has(ss[i], T)
  <2>1. n \in 0..n
    BY <1>1
  <2>. QED
    BY <1>4, <2>1
<1>9. \A x : Contains(g[n], x) <=> \E i \in 1..n : Contains(ss[i], x)
  BY <1>1, <1>6, <1>8, ContainsHas
<1>. QED
  BY <1>2, <1>5, <1>6, <1>7, <1>8, <1>9 DEF n

\* Only keeps what is in T, in order.
LEMMA OnlyList ==
  ASSUME NEW S, NEW s \in Seq(S), NEW T
  PROVE  /\ Only(s, T) \in Seq(S)
         /\ \A x : Contains(Only(s, T), x) <=> x \in T /\ Contains(s, x)
         /\ IsInjective(s) => IsInjective(Only(s, T))
<1>1. PICK ss : ss = [i \in 1..Len(s) |-> IF s[i] \in T THEN <<s[i]>> ELSE <<>>]
  OBVIOUS
<1>2. Len(s) \in Nat /\ DOMAIN s = 1..Len(s) /\ \A i \in 1..Len(s) : s[i] \in S
  BY LenProperties, ElementOfSeq
<1>3. \A i \in 1..Len(s) :
        /\ ss[i] \in Seq(S)
        /\ \A x : Contains(ss[i], x) <=> s[i] \in T /\ x = s[i]
        /\ \A U : AtMostOne(ss[i], U)
  BY <1>1, <1>2, EmptyList, SingleList
<1>4. ss \in Seq(Seq(S)) /\ Len(ss) = Len(s)
  BY <1>1, <1>2, <1>3
<1>5. /\ FlattenSeq(ss) \in Seq(S)
      /\ \A x : Contains(FlattenSeq(ss), x) <=> \E i \in 1..Len(s) : Contains(ss[i], x)
  BY <1>4, FlatList
<1>6. \A x : Contains(FlattenSeq(ss), x) <=> x \in T /\ Contains(s, x)
  <2>1. \A x : Contains(FlattenSeq(ss), x) <=> \E i \in 1..Len(s) : s[i] \in T /\ x = s[i]
    BY <1>3, <1>5
  <2>2. \A x : Contains(s, x) <=> \E i \in 1..Len(s) : x = s[i]
    BY DEF Contains
  <2>. QED
    BY <2>1, <2>2
<1>7. ASSUME IsInjective(s)
      PROVE  IsInjective(FlattenSeq(ss))
  <2>1. ASSUME NEW x
        PROVE  AtMostOne(FlattenSeq(ss), {x})
    <3>1. ASSUME NEW i \in 1..Len(s), NEW k \in 1..Len(s), Has(ss[i], {x}), Has(ss[k], {x})
          PROVE  i = k
      <4>1. Contains(ss[i], x) /\ Contains(ss[k], x)
        BY <1>3, <3>1, ContainsHas
      <4>2. s[i] = s[k]
        BY <1>3, <4>1
      <4>. QED
        BY <1>2, <1>7, <4>2 DEF IsInjective
    <3>. QED
      BY <1>3, <1>4, <3>1, FlatList
  <2>. QED
    BY <1>5, <2>1, ContainsHas
<1>. QED
  BY <1>1, <1>5, <1>6, <1>7 DEF Only

----------------------------------------------------------------------------
(* The channels, and the one a consumer gets.                              *)

\* The count of a configured channel.
CountOf(i) == IF channels[i].prefetchCount = 0 THEN prefetchCount ELSE channels[i].prefetchCount

LEMMA OptionsOf ==
  ASSUME NEW c \in Consumers \cup Bindings
  PROVE  /\ options[c].batchSize \in Nat /\ options[c].enable \in BOOLEAN
         /\ options[c].createQueue \in BOOLEAN
         /\ options[c].queue \in STRING
         /\ options[c].exchange \in Range(exchanges) \cup {"none"}
BY SetupAssumption DEF Options

LEMMA ChannelsGiven ==
  /\ Len(channels) \in Nat /\ DOMAIN channels = 1..Len(channels)
  /\ \A i \in DOMAIN channels : channels[i].name \in STRING /\ channels[i].prefetchCount \in Nat
<1>1. channels \in Seq([name : STRING, prefetchCount : Nat])
  BY SetupAssumption
<1>2. \A i \in DOMAIN channels : channels[i] \in [name : STRING, prefetchCount : Nat]
  BY <1>1, ElementOfSeq, LenProperties
<1>. QED
  BY <1>1, <1>2, LenProperties

LEMMA WrappersMade ==
  /\ Len(Wrappers) \in Nat /\ Channels = 1..Len(Wrappers)
  /\ Default \in Channels
  /\ Wrappers[Default] = Wrapper(Named("AmqpConnection"), prefetchCount)
  /\ Len(channels) \in Nat /\ DOMAIN channels = 1..Len(channels)
  /\ \A i \in DOMAIN channels :
       i + 1 \in Channels /\ Wrappers[i + 1] = Wrapper(Named(channels[i].name), CountOf(i))
  /\ \A w \in Channels :
       \/ w = Default
       \/ \E i \in DOMAIN channels : w = i + 1
       \/ \E c \in Consumers : /\ options[c].batchSize > 0
                               /\ Wrappers[w] = Wrapper(GetChannelName(c), options[c].batchSize)
  /\ \A c \in Range(consumer) : options[c].batchSize > 0 =>
       \E w \in Channels : Wrappers[w] = Wrapper(GetChannelName(c), options[c].batchSize)
<1>. DEFINE Names == (STRING \cup {"AmqpConnection"}) \X Nat
            W == [name : Names, prefetchCount : Nat]
            B == Only(consumer, {c \in Consumers : options[c].batchSize > 0})
            first == <<Wrapper(Named("AmqpConnection"), prefetchCount)>>
            named == [i \in DOMAIN channels |-> Wrapper(Named(channels[i].name), CountOf(i))]
            batches == [i \in DOMAIN B |-> Wrapper(GetChannelName(B[i]), options[B[i]].batchSize)]
<1>1. Wrappers = first \o named \o batches
  BY DEF Wrappers, CountOf
<1>2. consumer \in Seq(Consumers) /\ prefetchCount \in Nat
  BY SetupAssumption
<1>3. /\ B \in Seq(Consumers)
      /\ \A x : Contains(B, x) <=> x \in Consumers /\ options[x].batchSize > 0 /\ Contains(consumer, x)
  BY <1>2, OnlyList
<1>4. /\ Len(channels) \in Nat /\ DOMAIN channels = 1..Len(channels)
      /\ \A i \in DOMAIN channels :
           channels[i].name \in STRING /\ channels[i].prefetchCount \in Nat
  BY ChannelsGiven
<1>5. first \in Seq(W) /\ Len(first) = 1 /\ first[1] = Wrapper(Named("AmqpConnection"), prefetchCount)
  <2>1. Wrapper(Named("AmqpConnection"), prefetchCount) \in W
    BY <1>2 DEF Wrapper, Named
  <2>2. PICK x \in W : x = Wrapper(Named("AmqpConnection"), prefetchCount)
    BY <2>1
  <2>3. <<x>> \in Seq(W) /\ Len(<<x>>) = 1 /\ <<x>>[1] = x
    BY <2>2
  <2>. QED
    BY <2>2, <2>3
<1>6. named \in Seq(W) /\ Len(named) = Len(channels) /\ DOMAIN named = DOMAIN channels
  <2>1. \A i \in DOMAIN channels : Wrapper(Named(channels[i].name), CountOf(i)) \in W
    BY <1>2, <1>4 DEF Wrapper, Named, CountOf
  <2>2. named \in [1..Len(channels) -> W]
    BY <1>4, <2>1
  <2>. QED
    BY <1>4, <2>2
<1>7. /\ Len(B) \in Nat /\ DOMAIN B = 1..Len(B)
      /\ \A i \in 1..Len(B) : B[i] \in Consumers /\ options[B[i]].batchSize > 0
  <2>1. Len(B) \in Nat /\ DOMAIN B = 1..Len(B)
    BY <1>3, LenProperties
  <2>2. \A i \in 1..Len(B) : Contains(B, B[i])
    BY DEF Contains
  <2>. QED
    BY <1>3, <2>1, <2>2
<1>8. batches \in Seq(W) /\ Len(batches) = Len(B) /\ DOMAIN batches = DOMAIN B
  <2>. HIDE DEF B
  <2>1. \A c \in Consumers : Wrapper(GetChannelName(c), options[c].batchSize) \in W
    BY OptionsOf DEF Wrapper, GetChannelName
  <2>2. batches \in [1..Len(B) -> W]
    BY <1>7, <2>1
  <2>. QED
    BY <1>7, <2>2
<1>. HIDE DEF first, named, batches, W, B
<1>9. PICK fn \in Seq(W) :
        /\ fn = first \o named /\ Len(fn) = 1 + Len(channels)
        /\ fn[1] = first[1] /\ \A i \in DOMAIN channels : fn[i + 1] = named[i]
  <2>1. first \o named \in Seq(W) /\ Len(first \o named) = 1 + Len(channels)
        /\ \A i \in 1 .. Len(first) + Len(named) :
             (first \o named)[i] = IF i <= Len(first) THEN first[i] ELSE named[i - Len(first)]
    <3>1. \A s, t \in Seq(W) :
            /\ s \o t \in Seq(W) /\ Len(s \o t) = Len(s) + Len(t)
            /\ \A i \in 1 .. Len(s) + Len(t) :
                 (s \o t)[i] = IF i <= Len(s) THEN s[i] ELSE t[i - Len(s)]
      BY ConcatProperties
    <3>. QED
      BY <1>5, <1>6, <3>1
  <2>2. (first \o named)[1] = first[1]
    BY <1>4, <1>5, <1>6, <2>1
  <2>3. ASSUME NEW i \in DOMAIN channels
        PROVE  (first \o named)[i + 1] = named[i]
    <3>1. i + 1 \in 1 .. 1 + Len(channels) /\ ~ (i + 1 <= 1) /\ (i + 1) - 1 = i
      BY <1>4
    <3>. QED
      BY <1>5, <1>6, <2>1, <3>1
  <2>. QED
    BY <2>1, <2>2, <2>3
<1>10. /\ Wrappers \in Seq(W) /\ Len(Wrappers) = (1 + Len(channels)) + Len(B)
       /\ \A i \in 1 .. (1 + Len(channels)) + Len(B) :
            Wrappers[i] = IF i <= 1 + Len(channels) THEN fn[i] ELSE batches[i - (1 + Len(channels))]
  <2>1. fn \o batches \in Seq(W) /\ Len(fn \o batches) = Len(fn) + Len(batches)
        /\ \A i \in 1 .. Len(fn) + Len(batches) :
             (fn \o batches)[i] = IF i <= Len(fn) THEN fn[i] ELSE batches[i - Len(fn)]
    <3>1. \A s, t \in Seq(W) :
            /\ s \o t \in Seq(W) /\ Len(s \o t) = Len(s) + Len(t)
            /\ \A i \in 1 .. Len(s) + Len(t) :
                 (s \o t)[i] = IF i <= Len(s) THEN s[i] ELSE t[i - Len(s)]
      BY ConcatProperties
    <3>. QED
      BY <1>8, <1>9, <3>1
  <2>2. Wrappers = fn \o batches
    BY <1>1, <1>9
  <2>. QED
    BY <1>8, <1>9, <2>1, <2>2
<1>11. Len(Wrappers) \in Nat /\ Channels = 1..Len(Wrappers)
  BY <1>10, LenProperties DEF Channels
<1>12. Default \in Channels /\ Wrappers[Default] = Wrapper(Named("AmqpConnection"), prefetchCount)
  <2>1. 1 \in 1 .. (1 + Len(channels)) + Len(B) /\ 1 <= 1 + Len(channels)
    BY <1>4, <1>7
  <2>. QED
    BY <1>5, <1>9, <1>10, <1>11, <2>1 DEF Default
<1>13. ASSUME NEW i \in DOMAIN channels
       PROVE  i + 1 \in Channels /\ Wrappers[i + 1] = Wrapper(Named(channels[i].name), CountOf(i))
  <2>1. i + 1 \in 1 .. (1 + Len(channels)) + Len(B) /\ i + 1 <= 1 + Len(channels)
    BY <1>4, <1>7
  <2>2. Wrappers[i + 1] = named[i]
    BY <1>9, <1>10, <2>1
  <2>. QED
    BY <1>10, <1>11, <2>1, <2>2 DEF named
<1>14. ASSUME NEW k \in 1..Len(B)
       PROVE  /\ (1 + Len(channels)) + k \in Channels
              /\ Wrappers[(1 + Len(channels)) + k] = Wrapper(GetChannelName(B[k]), options[B[k]].batchSize)
  <2>. DEFINE i == (1 + Len(channels)) + k
  <2>1. i \in 1 .. (1 + Len(channels)) + Len(B) /\ ~ (i <= 1 + Len(channels)) /\ i - (1 + Len(channels)) = k
    BY <1>4, <1>7
  <2>. HIDE DEF i
  <2>2. Wrappers[i] = batches[k]
    BY <1>10, <2>1
  <2>. QED
    BY <1>7, <1>10, <1>11, <2>1, <2>2 DEF batches, i
<1>15. ASSUME NEW w \in Channels, w # Default, ~ \E i \in DOMAIN channels : w = i + 1
       PROVE  \E c \in Consumers : /\ options[c].batchSize > 0
                                   /\ Wrappers[w] = Wrapper(GetChannelName(c), options[c].batchSize)
  <2>1. w \in 1 .. (1 + Len(channels)) + Len(B) /\ w # 1
    BY <1>10, <1>11, <1>15 DEF Default
  <2>2. ~ (w - 1 \in 1..Len(channels))
    <3>1. w = (w - 1) + 1
      BY <2>1
    <3>. QED
      BY <1>4, <1>15, <3>1
  <2>3. w - (1 + Len(channels)) \in 1..Len(B) /\ w = (1 + Len(channels)) + (w - (1 + Len(channels)))
    BY <1>4, <1>7, <2>1, <2>2
  <2>. QED
    BY <1>7, <1>14, <2>3
<1>16. ASSUME NEW c \in Range(consumer), options[c].batchSize > 0
       PROVE  \E w \in Channels : Wrappers[w] = Wrapper(GetChannelName(c), options[c].batchSize)
  <2>1. Contains(consumer, c) /\ c \in Consumers
    BY <1>2, ContainsHas
  <2>2. PICK k \in 1..Len(B) : B[k] = c
    BY <1>3, <1>16, <2>1 DEF Contains
  <2>. QED
    BY <1>14, <2>2
<1>. QED
  BY <1>4, <1>11, <1>12, <1>13, <1>15, <1>16

LEMMA CountPositive ==
  ASSUME NEW w \in Channels
  PROVE  Wrappers[w].prefetchCount \in Nat \ {0}
<1>1. prefetchCount \in Nat \ {0}
  BY SetupAssumption
<1>2. \A i \in DOMAIN channels : CountOf(i) \in Nat \ {0}
  BY <1>1, ChannelsGiven DEF CountOf
<1>3. \A x, y : Wrapper(x, y).prefetchCount = y
  BY DEF Wrapper
<1>4. CASE w = Default
  BY <1>1, <1>3, <1>4, WrappersMade
<1>5. ASSUME NEW i \in DOMAIN channels, w = i + 1
      PROVE  Wrappers[w].prefetchCount \in Nat \ {0}
  BY <1>2, <1>3, <1>5, WrappersMade
<1>6. ASSUME NEW c \in Consumers, options[c].batchSize > 0,
             Wrappers[w] = Wrapper(GetChannelName(c), options[c].batchSize)
      PROVE  Wrappers[w].prefetchCount \in Nat \ {0}
  BY <1>3, <1>6, OptionsOf
<1>. QED
  BY <1>4, <1>5, <1>6, WrappersMade

LEMMA LastOfName ==
  ASSUME NEW P \in SUBSET Channels, P # {}
  PROVE  Max(P) \in P /\ \A w \in P : w <= Max(P)
<1>. DEFINE n == Len(Wrappers)
            B == {n - w : w \in P}
<1>1. n \in Nat /\ Channels = 1..n
  BY WrappersMade
<1>. HIDE DEF n
<1>2. B \in SUBSET Nat /\ B # {}
  <2>1. \A w \in P : n - w \in Nat
    BY <1>1
  <2>. QED
    BY <2>1
<1>. HIDE DEF B
<1>3. PICK m \in B : \A k \in B : m <= k
  BY <1>2, LeastOf
<1>4. PICK w \in P : m = n - w
  BY DEF B
<1>5. ASSUME NEW v \in P
      PROVE  v <= w
  <2>1. n - v \in B
    BY DEF B
  <2>2. n - w <= n - v
    BY <1>3, <1>4, <2>1
  <2>3. v \in 1..n /\ w \in 1..n
    BY <1>1, <1>4
  <2>. QED
    BY <1>1, <2>2, <2>3
<1>6. \A v \in P : w >= v
  <2>1. \A v \in P : v \in Nat
    BY <1>1
  <2>. QED
    BY <1>4, <1>5, <2>1
<1>7. Max(P) \in P /\ \A v \in P : Max(P) >= v
  BY <1>6 DEF Max
<1>8. \A v \in P : v \in Nat
  BY <1>1
<1>. QED
  BY <1>7, <1>8

\* An enabled consumer gets a channel, one with the count meant for it.
LEMMA Selected ==
  ASSUME NEW c \in Consumers, options[c].enable
  PROVE  /\ SelectManagedChannel(c) \in Channels
         /\ Wrappers[SelectManagedChannel(c)].prefetchCount = PrefetchOf(c)
<1>. DEFINE OfName(name) == {w \in Channels : Wrappers[w].name = name}
            ch == options[c].channel
            named == {i \in DOMAIN channels : channels[i].name = ch}
<1>1. /\ options[c].batchSize \in Nat
      /\ \A d \in Consumers : options[d].batchSize \in Nat
  BY OptionsOf
<1>2. /\ \A w \in Channels :
           \/ w = Default /\ Wrappers[w] = Wrapper(Named("AmqpConnection"), prefetchCount)
           \/ \E i \in DOMAIN channels : w = i + 1 /\ Wrappers[w] = Wrapper(Named(channels[i].name), CountOf(i))
           \/ \E d \in Consumers : /\ options[d].batchSize > 0
                                   /\ Wrappers[w] = Wrapper(GetChannelName(d), options[d].batchSize)
      /\ \A i \in DOMAIN channels :
           i + 1 \in Channels /\ Wrappers[i + 1] = Wrapper(Named(channels[i].name), CountOf(i))
  BY WrappersMade
<1>3. /\ \A x, y : Wrapper(x, y).name = x /\ Wrapper(x, y).prefetchCount = y
      /\ \A x, y : Named(x) = Named(y) <=> x = y
      /\ \A d, e \in Consumers : GetChannelName(d) = GetChannelName(e) => options[d].batchSize = options[e].batchSize
      /\ \A x : \A d \in Consumers : options[d].batchSize > 0 => GetChannelName(d) # Named(x)
  BY <1>1 DEF Wrapper, Named, GetChannelName
<1>4. CASE options[c].batchSize > 0
  <2>1. SelectManagedChannel(c) = Max(OfName(GetChannelName(c)))
    BY <1>4 DEF SelectManagedChannel, ManagedChannels
  <2>2. PrefetchOf(c) = options[c].batchSize
    BY <1>4 DEF PrefetchOf
  <2>3. PICK d \in Range(consumer) : GetChannelName(d) = GetChannelName(c)
    BY <1>4, SetupAssumption
  <2>4. d \in Consumers
    BY SetupAssumption, ContainsHas
  <2>5. options[d].batchSize > 0
    BY <1>3, <1>4, <2>3, <2>4
  <2>6. PICK w \in Channels : Wrappers[w] = Wrapper(GetChannelName(d), options[d].batchSize)
    BY <2>5, WrappersMade
  <2>7. w \in OfName(GetChannelName(c))
    BY <1>3, <2>3, <2>6
  <2>8. PICK m \in OfName(GetChannelName(c)) : m = SelectManagedChannel(c)
    BY <2>1, <2>7, LastOfName
  <2>9. m \in Channels /\ Wrappers[m].name = GetChannelName(c)
    BY <2>8
  <2>10. PICK e \in Consumers : Wrappers[m] = Wrapper(GetChannelName(e), options[e].batchSize)
    BY <1>2, <1>3, <1>4, <2>9
  <2>11. Wrappers[m].prefetchCount = options[c].batchSize
    BY <1>3, <2>9, <2>10
  <2>. QED
    BY <2>2, <2>8, <2>9, <2>11
<1>5. CASE ~ (options[c].batchSize > 0) /\ OfName(Named(ch)) # {}
  <2>1. SelectManagedChannel(c) = Max(OfName(Named(ch)))
    BY <1>5 DEF SelectManagedChannel, ManagedChannels
  <2>2. PICK m \in OfName(Named(ch)) : m = SelectManagedChannel(c) /\ \A w \in OfName(Named(ch)) : w <= m
    BY <1>5, <2>1, LastOfName
  <2>3. m \in Channels /\ Wrappers[m].name = Named(ch)
    BY <2>2
  <2>4. \A i \in named : i + 1 <= m
    <3>1. \A i \in named : i + 1 \in OfName(Named(ch))
      BY <1>2, <1>3
    <3>. QED
      BY <2>2, <3>1
  <2>5. CASE m = Default /\ Wrappers[m] = Wrapper(Named("AmqpConnection"), prefetchCount)
    <3>1. named = {}
      <4>1. \A i \in named : i \in Nat \ {0}
        BY WrappersMade
      <4>. QED
        BY <2>4, <2>5, <4>1 DEF Default
    <3>2. PrefetchOf(c) = prefetchCount
      BY <1>5, <3>1 DEF PrefetchOf
    <3>. QED
      BY <1>3, <2>2, <2>3, <2>5, <3>2
  <2>6. ASSUME NEW i \in DOMAIN channels, Wrappers[m] = Wrapper(Named(channels[i].name), CountOf(i))
        PROVE  Wrappers[m].prefetchCount = PrefetchOf(c)
    <3>1. channels[i].name = ch
      BY <1>3, <2>3, <2>6
    <3>2. named = {i}
      BY <3>1, SetupAssumption
    <3>3. (CHOOSE k \in named : TRUE) = i
      BY <3>2
    <3>4. channels[i].prefetchCount \in Nat
      BY ChannelsGiven
    <3>5. PrefetchOf(c) = IF channels[i].prefetchCount > 0 THEN channels[i].prefetchCount ELSE prefetchCount
      BY <1>5, <3>2, <3>3 DEF PrefetchOf
    <3>. QED
      BY <1>3, <2>6, <3>4, <3>5 DEF CountOf
  <2>7. ~ \E d \in Consumers : /\ options[d].batchSize > 0
                               /\ Wrappers[m] = Wrapper(GetChannelName(d), options[d].batchSize)
    BY <1>3, <2>3
  <2>. QED
    BY <1>2, <2>2, <2>3, <2>5, <2>6, <2>7
<1>6. CASE ~ (options[c].batchSize > 0) /\ OfName(Named(ch)) = {}
  <2>1. SelectManagedChannel(c) = Default
    BY <1>6 DEF SelectManagedChannel
  <2>2. named = {}
    BY <1>2, <1>3, <1>6
  <2>3. PrefetchOf(c) = prefetchCount
    BY <1>6, <2>2 DEF PrefetchOf
  <2>. QED
    BY <1>3, <2>1, <2>3, WrappersMade
<1>. QED
  BY <1>4, <1>5, <1>6

----------------------------------------------------------------------------
(* The steps of a setup.                                                   *)

Raw == [op : {"prefetch", "assertExchange", "assertQueue", "bindQueue", "consume"},
        arg : Range(exchanges) \cup {"none"} \cup Nat]

\* A step that setup s may have on ch.
Proper(ch, s, step) ==
  /\ step \in Seq(Raw) /\ step # <<>>
  /\ \A k \in DOMAIN step :
       \/ step[k].op \in {"assertExchange", "bindQueue"} /\ step[k].arg \in Range(exchanges)
       \/ /\ step[k].op = "prefetch" /\ step[k].arg = Wrappers[ch].prefetchCount
          /\ k = Len(step) /\ s = "base"
       \/ /\ step[k].op \in {"assertQueue", "consume"} /\ step[k].arg = "none"
          /\ k = Len(step)

RawStepsOf(ch, s) ==
  IF s = "base" THEN SetupChannel(ch)
  ELSE IF s \in Bindings THEN SetupBinding(s) ELSE SetupSubscriber(s)

LEMMA SingleStep ==
  ASSUME NEW ch, NEW s, NEW a \in Raw,
         \/ a.op \in {"assertExchange", "bindQueue"} /\ a.arg \in Range(exchanges)
         \/ a.op = "prefetch" /\ a.arg = Wrappers[ch].prefetchCount /\ s = "base"
         \/ a.op \in {"assertQueue", "consume"} /\ a.arg = "none"
  PROVE  Proper(ch, s, <<a>>) /\ <<a>>[Len(<<a>>)] = a /\ \A k \in DOMAIN <<a>> : <<a>>[k] = a
<1>1. PICK step : step = <<a>>
  OBVIOUS
<1>2. step \in Seq(Raw) /\ step # <<>> /\ Len(step) = 1 /\ step[1] = a /\ DOMAIN step = {1}
  BY <1>1, SingleList
<1>. QED
  BY <1>1, <1>2 DEF Proper

\* createChannel's setup: the count, then exchanges.
LEMMA BaseSteps ==
  ASSUME NEW ch \in Channels
  PROVE  LET steps == SetupChannel(ch)
         IN /\ Len(steps) \in Nat /\ DOMAIN steps = 1..Len(steps) /\ 1 \in DOMAIN steps
            /\ \A i \in DOMAIN steps : /\ Proper(ch, "base", steps[i])
                                       /\ \A k \in DOMAIN steps[i] : steps[i][k].op # "consume"
            /\ steps[1][1].op = "prefetch"
<1>. DEFINE q == [op |-> "prefetch", arg |-> Wrappers[ch].prefetchCount]
            d(i) == [op |-> "assertExchange", arg |-> exchanges[i]]
<1>1. /\ q \in Raw /\ \A i \in DOMAIN exchanges : d(i) \in Raw /\ exchanges[i] \in Range(exchanges)
  BY CountPositive DEF Raw, Range
<1>2. /\ Proper(ch, "base", <<q>>) /\ <<q>>[1] = q
      /\ \A k \in DOMAIN <<q>> : <<q>>[k] = q
  <2>1. <<q>>[1] = q
    OBVIOUS
  <2>. QED
    BY <1>1, <2>1, SingleStep
<1>3. \A i \in DOMAIN exchanges : /\ Proper(ch, "base", <<d(i)>>)
                                  /\ \A k \in DOMAIN <<d(i)>> : <<d(i)>>[k] = d(i)
  BY <1>1, SingleStep
<1>4. Qos(ch) = <<q>> /\ Declare = [i \in 1..Len(exchanges) |-> <<d(i)>>]
  BY DEF Qos, Declare
<1>5. exchanges \in Seq(Range(exchanges)) /\ Len(exchanges) \in Nat /\ DOMAIN exchanges = 1..Len(exchanges)
  BY SetupAssumption, LenProperties
<1>6. PICK D : D = Declare
  OBVIOUS
<1>7. PICK e : e = <<q>>
  OBVIOUS
<1>8. e \in Seq(Raw) /\ Proper(ch, "base", e) /\ e[1] = q /\ \A k \in DOMAIN e : e[k] = q
  BY <1>2, <1>7 DEF Proper
<1>9. /\ D \in Seq(Seq(Raw)) /\ Len(D) = Len(exchanges)
      /\ \A i \in 1..Len(exchanges) : /\ Proper(ch, "base", D[i])
                                     /\ \A k \in DOMAIN D[i] : D[i][k].op = "assertExchange"
  <2>1. \A i \in 1..Len(exchanges) :
          /\ D[i] = <<d(i)>> /\ Proper(ch, "base", <<d(i)>>)
          /\ \A k \in DOMAIN <<d(i)>> : <<d(i)>>[k] = d(i)
    BY <1>3, <1>4, <1>5, <1>6
  <2>2. \A i \in 1..Len(exchanges) : D[i] \in Seq(Raw)
    BY <2>1 DEF Proper
  <2>3. D \in [1..Len(exchanges) -> Seq(Raw)]
    BY <1>4, <1>6, <2>2
  <2>4. D \in Seq(Seq(Raw)) /\ Len(D) = Len(exchanges)
    BY <1>5, <2>3
  <2>5. \A i : d(i).op = "assertExchange"
    OBVIOUS
  <2>6. \A i \in 1..Len(exchanges) : \A k \in DOMAIN D[i] : D[i][k] = d(i)
    BY <2>1
  <2>. HIDE DEF d
  <2>. QED
    BY <2>1, <2>4, <2>5, <2>6
<1>. HIDE DEF q, d
<1>10. q.op = "prefetch"
  BY DEF q
<1>11. CASE ch = Default
  <2>1. SetupChannel(ch) = <<e>> \o D
    BY <1>4, <1>6, <1>7, <1>11 DEF SetupChannel
  <2>2. PICK u : u = <<e>> \o D
    OBVIOUS
  <2>3. <<e>> \in Seq(Seq(Raw)) /\ Len(<<e>>) = 1 /\ <<e>>[1] = e
    BY <1>8
  <2>4. /\ u \in Seq(Seq(Raw)) /\ Len(u) = 1 + Len(D)
        /\ \A i \in 1 .. 1 + Len(D) : u[i] = IF i <= 1 THEN <<e>>[i] ELSE D[i - 1]
    <3>1. \A s, t \in Seq(Seq(Raw)) :
            /\ s \o t \in Seq(Seq(Raw)) /\ Len(s \o t) = Len(s) + Len(t)
            /\ \A i \in 1 .. Len(s) + Len(t) :
                 (s \o t)[i] = IF i <= Len(s) THEN s[i] ELSE t[i - Len(s)]
      BY ConcatProperties
    <3>2. <<e>> \in Seq(Seq(Raw)) /\ D \in Seq(Seq(Raw)) /\ Len(<<e>>) = 1 /\ u = <<e>> \o D
      BY <1>9, <2>2, <2>3
    <3>. QED
      BY <3>1, <3>2
  <2>5. u[1] = e
    BY <1>5, <1>9, <2>3, <2>4
  <2>6. \A i \in 1 .. 1 + Len(exchanges) : i = 1 \/ (i - 1 \in 1..Len(exchanges) /\ u[i] = D[i - 1])
    BY <1>5, <1>9, <2>4
  <2>7. Len(u) \in Nat /\ DOMAIN u = 1..Len(u) /\ 1 \in DOMAIN u /\ Len(u) = 1 + Len(exchanges)
    BY <1>5, <1>9, <2>4, LenProperties
  <2>8. ASSUME NEW i \in DOMAIN u
        PROVE  Proper(ch, "base", u[i]) /\ \A k \in DOMAIN u[i] : u[i][k].op # "consume"
    <3>1. CASE i = 1
      BY <1>8, <1>10, <2>5, <3>1
    <3>2. CASE i # 1
      BY <1>9, <2>6, <2>7, <3>2
    <3>. QED
      BY <3>1, <3>2
  <2>. QED
    BY <1>8, <1>10, <2>1, <2>2, <2>5, <2>7, <2>8
<1>12. CASE ch # Default
  <2>1. PICK u : u = <<e>>
    OBVIOUS
  <2>2. SetupChannel(ch) = u
    BY <1>4, <1>7, <1>12, <2>1 DEF SetupChannel
  <2>3. Len(u) = 1 /\ DOMAIN u = {1} /\ u[1] = e
    BY <2>1
  <2>. QED
    BY <1>8, <1>10, <2>2, <2>3
<1>. QED
  BY <1>11, <1>12

\* The last step of a consumer registers it, the others it waits for.
LEMMA SubscriberSteps ==
  ASSUME NEW ch \in Channels, NEW c \in Consumers
  PROVE  LET steps == SetupSubscriber(c)
         IN /\ Len(steps) \in Nat /\ DOMAIN steps = 1..Len(steps) /\ 1 \in DOMAIN steps
            /\ \A i \in DOMAIN steps :
                 /\ Proper(ch, c, steps[i]) /\ Awaited(steps[i])
                 /\ (\E k \in DOMAIN steps[i] : steps[i][k].op = "consume") <=> i = Len(steps)
                 /\ i = Len(steps) => steps[i][Len(steps[i])].op = "consume"
<1>. DEFINE a == [op |-> "assertQueue", arg |-> "none"]
            b == [op |-> "bindQueue", arg |-> options[c].exchange]
            r == [op |-> "consume", arg |-> "none"]
            last == IF options[c].exchange = "none" THEN Consume ELSE Bind(c) \o Consume
<1>1. a \in Raw /\ r \in Raw /\ (options[c].exchange # "none" => b \in Raw /\ b.arg \in Range(exchanges))
  BY OptionsOf DEF Raw
<1>2. /\ Proper(ch, c, <<a>>) /\ <<a>>[Len(<<a>>)] = a
      /\ \A k \in DOMAIN <<a>> : <<a>>[k] = a
  BY <1>1, SingleStep
<1>3. Proper(ch, c, <<r>>) /\ <<r>>[Len(<<r>>)] = r /\ DOMAIN <<r>> = {1} /\ <<r>>[1] = r
  BY <1>1, SingleStep
<1>4. /\ Proper(ch, c, last) /\ Len(last) \in DOMAIN last /\ last[Len(last)].op = "consume"
  <2>1. CASE options[c].exchange = "none"
    <3>1. last = <<r>>
      BY <2>1 DEF Consume
    <3>2. Len(<<r>>) = 1 /\ 1 \in DOMAIN <<r>> /\ r.op = "consume"
      BY <1>3
    <3>3. PICK u : u = <<r>>
      OBVIOUS
    <3>. HIDE DEF last, r
    <3>. QED
      BY <1>3, <3>1, <3>2, <3>3
  <2>2. CASE options[c].exchange # "none"
    <3>1. PICK u : u = <<b, r>>
      OBVIOUS
    <3>2. last = u
      <4>1. last = <<b>> \o <<r>>
        BY <2>2 DEF Bind, Consume
      <4>. HIDE DEF last, b, r
      <4>. QED
        BY <3>1, <4>1, ShortLists
    <3>3. Len(u) = 2 /\ u[1] = b /\ u[2] = r /\ DOMAIN u = 1..2 /\ u # <<>>
      BY <3>1
    <3>4. u \in Seq(Raw)
      BY <1>1, <2>2, <3>1
    <3>5. \A k \in DOMAIN u : k = 1 \/ k = Len(u)
      BY <3>3
    <3>6. Proper(ch, c, u)
      BY <1>1, <2>2, <3>3, <3>4, <3>5 DEF Proper
    <3>7. r.op = "consume"
      OBVIOUS
    <3>. HIDE DEF last, r, b
    <3>. QED
      BY <3>2, <3>3, <3>6, <3>7
  <2>. QED
    BY <2>1, <2>2
<1>5. PICK l, e : l = last /\ e = <<a>>
  OBVIOUS
<1>6. /\ Proper(ch, c, l) /\ Len(l) \in DOMAIN l /\ l[Len(l)].op = "consume" /\ Awaited(l)
      /\ Proper(ch, c, e) /\ Awaited(e) /\ \A k \in DOMAIN e : e[k].op # "consume"
  BY <1>2, <1>4, <1>5 DEF Awaited
<1>7. SetupSubscriber(c) = Append(AssertQueue(c), l)
  BY <1>5 DEF SetupSubscriber
<1>. HIDE DEF last, a, b, r
<1>8. CASE options[c].createQueue
  <2>1. AssertQueue(c) = <<e>>
    BY <1>5, <1>8 DEF AssertQueue, a
  <2>2. PICK u : u = <<e, l>>
    OBVIOUS
  <2>3. SetupSubscriber(c) = u
    BY <1>7, <2>1, <2>2, ShortLists
  <2>4. Len(u) = 2 /\ u[1] = e /\ u[2] = l /\ DOMAIN u = 1..2
    BY <2>2, ShortLists
  <2>5. \A i \in DOMAIN u : (i = 1 /\ u[i] = e) \/ (i = 2 /\ u[i] = l)
    BY <2>4
  <2>. QED
    BY <1>6, <2>3, <2>4, <2>5
<1>9. CASE ~ options[c].createQueue
  <2>1. AssertQueue(c) = <<>>
    BY <1>9 DEF AssertQueue
  <2>2. PICK u : u = <<l>>
    OBVIOUS
  <2>3. SetupSubscriber(c) = u
    BY <1>7, <2>1, <2>2, ShortLists
  <2>4. Len(u) = 1 /\ u[1] = l /\ DOMAIN u = 1..1
    BY <2>2, ShortLists
  <2>5. \A i \in DOMAIN u : i = 1 /\ u[i] = l
    BY <2>4
  <2>. QED
    BY <1>6, <2>3, <2>4, <2>5
<1>. QED
  BY <1>8, <1>9

LEMMA BindingSteps ==
  ASSUME NEW ch \in Channels, NEW b \in Bindings
  PROVE  LET steps == SetupBinding(b)
         IN /\ Len(steps) \in Nat /\ DOMAIN steps = 1..Len(steps)
            /\ \A i \in DOMAIN steps : /\ Proper(ch, b, steps[i])
                                       /\ \A k \in DOMAIN steps[i] : steps[i][k].op # "consume"
<1>. DEFINE a == [op |-> "assertQueue", arg |-> "none"]
            d == [op |-> "bindQueue", arg |-> options[b].exchange]
<1>1. a \in Raw /\ (options[b].exchange # "none" => d \in Raw /\ d.arg \in Range(exchanges))
  BY OptionsOf DEF Raw
<1>2. PICK e, f : e = <<a>> /\ f = <<d>>
  OBVIOUS
<1>3. Proper(ch, b, e) /\ \A k \in DOMAIN e : e[k].op # "consume"
  BY <1>1, <1>2, SingleStep
<1>4. options[b].exchange # "none" =>
        Proper(ch, b, f) /\ \A k \in DOMAIN f : f[k].op # "consume"
  BY <1>1, <1>2, SingleStep
<1>5. AssertQueue(b) = (IF options[b].createQueue THEN <<e>> ELSE <<>>) /\ Bind(b) = f
  BY <1>2 DEF AssertQueue, Bind
<1>. HIDE DEF a, d
<1>6. PICK u : u = SetupBinding(b)
  OBVIOUS
<1>7. \/ u = <<>>
      \/ u = <<e>>
      \/ options[b].exchange # "none" /\ u = <<f>>
      \/ options[b].exchange # "none" /\ u = <<e, f>>
  <2>1. CASE options[b].exchange = "none"
    BY <1>5, <1>6, <2>1 DEF SetupBinding
  <2>2. CASE options[b].exchange # "none"
    <3>1. u = Append(AssertQueue(b), f)
      BY <1>5, <1>6, <2>2 DEF SetupBinding
    <3>2. CASE options[b].createQueue
      <4>1. u = Append(<<e>>, f)
        BY <1>5, <3>1, <3>2
      <4>. QED
        BY <2>2, <4>1, ShortLists
    <3>3. CASE ~ options[b].createQueue
      <4>1. u = Append(<<>>, f)
        BY <1>5, <3>1, <3>3
      <4>. QED
        BY <2>2, <4>1, ShortLists
    <3>. QED
      BY <3>2, <3>3
  <2>. QED
    BY <2>1, <2>2
<1>8. CASE u = <<>>
  <2>1. Len(u) = 0 /\ DOMAIN u = 1..0
    BY <1>8
  <2>. QED
    BY <1>6, <2>1
<1>9. CASE u = <<e>>
  <2>1. Len(u) = 1 /\ DOMAIN u = 1..1 /\ \A i \in 1..1 : u[i] = e
    BY <1>9
  <2>. QED
    BY <1>3, <1>6, <2>1
<1>10. CASE options[b].exchange # "none" /\ u = <<f>>
  <2>1. Len(u) = 1 /\ DOMAIN u = 1..1 /\ \A i \in 1..1 : u[i] = f
    BY <1>10
  <2>. QED
    BY <1>4, <1>6, <1>10, <2>1
<1>11. CASE options[b].exchange # "none" /\ u = <<e, f>>
  <2>1. Len(u) = 2 /\ DOMAIN u = 1..2 /\ \A i \in 1..2 : u[i] = e \/ u[i] = f
    BY <1>11
  <2>. QED
    BY <1>3, <1>4, <1>6, <1>11, <2>1
<1>. QED
  BY <1>7, <1>8, <1>9, <1>10, <1>11

LEMMA RawSteps ==
  ASSUME NEW ch \in Channels, NEW s \in Setups
  PROVE  LET steps == RawStepsOf(ch, s)
         IN /\ Len(steps) \in Nat /\ DOMAIN steps = 1..Len(steps)
            /\ \A i \in DOMAIN steps :
                 /\ Proper(ch, s, steps[i])
                 /\ \A k \in DOMAIN steps[i] :
                      steps[i][k].op = "consume" => s \in Consumers /\ i = Len(steps)
            /\ s = "base" => 1 \in DOMAIN steps /\ steps[1][1].op = "prefetch"
            /\ s \in Consumers =>
                 /\ 1 \in DOMAIN steps
                 /\ \A i \in DOMAIN steps :
                      /\ Awaited(steps[i])
                      /\ i = Len(steps) => steps[i][Len(steps[i])].op = "consume"
<1>1. "base" \notin Consumers \cup Bindings /\ Consumers \cap Bindings = {}
  BY SetupAssumption
<1>2. CASE s = "base"
  <2>1. RawStepsOf(ch, s) = SetupChannel(ch)
    BY <1>2 DEF RawStepsOf
  <2>. QED
    BY <1>1, <1>2, <2>1, BaseSteps
<1>3. CASE s \in Bindings
  <2>1. RawStepsOf(ch, s) = SetupBinding(s)
    BY <1>1, <1>3 DEF RawStepsOf
  <2>. QED
    BY <1>1, <1>3, <2>1, BindingSteps
<1>4. CASE s \in Consumers
  <2>1. RawStepsOf(ch, s) = SetupSubscriber(s)
    BY <1>1, <1>4 DEF RawStepsOf
  <2>. QED
    BY <1>1, <1>4, <2>1, SubscriberSteps
<1>. QED
  BY <1>2, <1>3, <1>4 DEF Setups

\* A step as a request of setup s, waited for if it ends in no binding.
Annotated(s, step) ==
  [k \in DOMAIN step |->
     [setup |-> s, op |-> step[k].op, arg |-> step[k].arg,
      last |-> k = Len(step) /\ Awaited(step)]]

LEMMA AnnotatedStep ==
  ASSUME NEW ch \in Channels, NEW s \in Setups, NEW step, Proper(ch, s, step)
  PROVE  LET t == Annotated(s, step)
         IN /\ t \in Seq(Request) /\ t # <<>> /\ Len(t) = Len(step) /\ DOMAIN t = DOMAIN step
            /\ Len(t) \in DOMAIN t /\ 1 \in DOMAIN t
            /\ Awaited(t) <=> Awaited(step)
            /\ \A k \in DOMAIN t :
                 /\ t[k].setup = s /\ t[k].op = step[k].op
                 /\ t[k].last <=> k = Len(t) /\ Awaited(t)
                 /\ t[k].op = "prefetch" => t[k].arg = Wrappers[ch].prefetchCount
<1>1. /\ step \in Seq(Raw) /\ Len(step) \in Nat /\ DOMAIN step = 1..Len(step) /\ step # <<>>
  BY LenProperties DEF Proper
<1>2. Len(step) \in DOMAIN step /\ 1 \in DOMAIN step
  BY <1>1, EmptySeq
<1>3. PICK t : t = Annotated(s, step)
  OBVIOUS
<1>4. /\ DOMAIN t = DOMAIN step
      /\ \A k \in DOMAIN step :
           t[k] = [setup |-> s, op |-> step[k].op, arg |-> step[k].arg,
                   last |-> k = Len(step) /\ Awaited(step)]
  BY <1>3 DEF Annotated
<1>5. ASSUME NEW k \in DOMAIN step
      PROVE  t[k] \in Request
  <2>1. CASE step[k].op \in {"assertExchange", "bindQueue"} /\ step[k].arg \in Range(exchanges)
    <3>1. PICK l \in BOOLEAN : l = (k = Len(step) /\ Awaited(step))
      OBVIOUS
    <3>2. t[k] = [setup |-> s, op |-> step[k].op, arg |-> step[k].arg, last |-> l]
      BY <1>4, <3>1, Zenon
    <3>3. [setup |-> s, op |-> step[k].op, arg |-> step[k].arg, last |-> l] \in Request
      BY <2>1 DEF Request
    <3>. QED
      BY <3>2, <3>3
  <2>2. CASE /\ step[k].op = "prefetch" /\ step[k].arg = Wrappers[ch].prefetchCount
             /\ k = Len(step) /\ s = "base"
    <3>1. Awaited(step)
      BY <2>2 DEF Awaited
    <3>2. Wrappers[ch].prefetchCount \in Nat \ {0}
      BY CountPositive
    <3>3. t[k] = [setup |-> "base", op |-> "prefetch", arg |-> Wrappers[ch].prefetchCount, last |-> TRUE]
      BY <1>4, <2>2, <3>1
    <3>. QED
      BY <3>2, <3>3 DEF Request
  <2>3. CASE step[k].op \in {"assertQueue", "consume"} /\ step[k].arg = "none" /\ k = Len(step)
    <3>1. Awaited(step)
      BY <2>3 DEF Awaited
    <3>2. t[k] = [setup |-> s, op |-> step[k].op, arg |-> "none", last |-> TRUE]
      BY <1>4, <2>3, <3>1
    <3>. QED
      BY <2>3, <3>2 DEF Request
  <2>. QED
    BY <2>1, <2>2, <2>3 DEF Proper
<1>6. t \in Seq(Request) /\ Len(t) = Len(step)
  <2>1. t = [k \in DOMAIN step |-> t[k]]
    BY <1>3, <1>4 DEF Annotated
  <2>2. t \in [1..Len(step) -> Request]
    BY <1>1, <1>5, <2>1
  <2>. QED
    BY <1>1, <2>2
<1>7. t # <<>>
  BY <1>2, <1>4, EmptySeq
<1>8. Awaited(t) <=> Awaited(step)
  <2>1. t[Len(t)].op = step[Len(step)].op
    BY <1>2, <1>4, <1>6
  <2>. QED
    BY <2>1 DEF Awaited
<1>9. ASSUME NEW k \in DOMAIN t
      PROVE  /\ t[k].setup = s /\ t[k].op = step[k].op
             /\ t[k].last <=> k = Len(t) /\ Awaited(t)
             /\ t[k].op = "prefetch" => t[k].arg = Wrappers[ch].prefetchCount
  <2>1. t[k].setup = s /\ t[k].op = step[k].op /\ t[k].arg = step[k].arg
    BY <1>4
  <2>2. t[k].last = (k = Len(step) /\ Awaited(step))
    BY <1>4
  <2>3. t[k].last <=> k = Len(t) /\ Awaited(t)
    BY <1>6, <1>8, <2>2
  <2>4. step[k].op = "prefetch" => step[k].arg = Wrappers[ch].prefetchCount
    BY <1>4 DEF Proper
  <2>. QED
    BY <2>1, <2>3, <2>4
<1>. QED
  BY <1>2, <1>3, <1>4, <1>6, <1>7, <1>8, <1>9

\* What the proofs need to know of the steps of a setup.
LEMMA StepsOf ==
  ASSUME NEW ch \in Channels, NEW s \in Setups
  PROVE  LET P == Program[ch][s]
         IN /\ DOMAIN P \subseteq Nat \ {0}
            /\ \A i \in DOMAIN P :
                 /\ P[i] \in Seq(Request) /\ P[i] # <<>> /\ Len(P[i]) \in DOMAIN P[i]
                 /\ \A k \in DOMAIN P[i] :
                      /\ P[i][k].setup = s
                      /\ P[i][k].last <=> k = Len(P[i]) /\ Awaited(P[i])
                      /\ P[i][k].op = "prefetch" => P[i][k].arg = Wrappers[ch].prefetchCount
                      /\ P[i][k].op = "consume" => s \in Consumers /\ i + 1 \notin DOMAIN P
            /\ s = "base" => 1 \in DOMAIN P /\ P[1][1].op = "prefetch"
            /\ s \in Consumers =>
                 /\ 1 \in DOMAIN P
                 /\ \A i \in DOMAIN P : /\ Awaited(P[i])
                                        /\ i + 1 \in DOMAIN P \/ P[i][Len(P[i])].op = "consume"
<1>1. PICK T : T = RawStepsOf(ch, s)
  OBVIOUS
<1>. DEFINE P == Program[ch][s]
<1>3. P = [i \in DOMAIN T |-> Annotated(s, T[i])]
  BY <1>1 DEF Program, Annotated, RawStepsOf
<1>4. /\ Len(T) \in Nat /\ DOMAIN T = 1..Len(T)
      /\ \A i \in DOMAIN T :
           /\ Proper(ch, s, T[i])
           /\ \A k \in DOMAIN T[i] : T[i][k].op = "consume" => s \in Consumers /\ i = Len(T)
      /\ s = "base" => 1 \in DOMAIN T /\ T[1][1].op = "prefetch"
      /\ s \in Consumers =>
           /\ 1 \in DOMAIN T
           /\ \A i \in DOMAIN T : /\ Awaited(T[i])
                                  /\ i = Len(T) => T[i][Len(T[i])].op = "consume"
  BY <1>1, RawSteps
<1>5. DOMAIN P = 1..Len(T)
  BY <1>3, <1>4
<1>6. ASSUME NEW i \in 1..Len(T)
      PROVE  /\ P[i] \in Seq(Request) /\ P[i] # <<>> /\ Len(P[i]) \in DOMAIN P[i]
             /\ 1 \in DOMAIN P[i] /\ Len(P[i]) = Len(T[i]) /\ DOMAIN P[i] = DOMAIN T[i]
             /\ Awaited(P[i]) <=> Awaited(T[i])
             /\ \A k \in DOMAIN P[i] :
                  /\ P[i][k].setup = s /\ P[i][k].op = T[i][k].op
                  /\ P[i][k].last <=> k = Len(P[i]) /\ Awaited(P[i])
                  /\ P[i][k].op = "prefetch" => P[i][k].arg = Wrappers[ch].prefetchCount
  <2>1. P[i] = Annotated(s, T[i]) /\ Proper(ch, s, T[i])
    BY <1>3, <1>4
  <2>. QED
    BY <2>1, AnnotatedStep
<1>7. \A i \in 1..Len(T) : i \in Nat \ {0} /\ (i = Len(T) <=> i + 1 \notin 1..Len(T))
  <2>1. Len(T) \in Nat
    BY <1>4
  <2>. QED
    BY <2>1
<1>8. \A i \in 1..Len(T) : \A k \in DOMAIN P[i] :
        P[i][k].op = "consume" => s \in Consumers /\ i + 1 \notin 1..Len(T)
  <2>1. SUFFICES ASSUME NEW i \in 1..Len(T), NEW k \in DOMAIN P[i], P[i][k].op = "consume"
                 PROVE  s \in Consumers /\ i = Len(T)
    BY <1>7
  <2>2. T[i][k].op = "consume" /\ k \in DOMAIN T[i]
    BY <1>6, <2>1
  <2>. QED
    BY <1>4, <2>2
<1>9. s = "base" => 1 \in 1..Len(T) /\ P[1][1].op = "prefetch"
  BY <1>4, <1>6
<1>10. s \in Consumers =>
         /\ 1 \in 1..Len(T)
         /\ \A i \in 1..Len(T) : /\ Awaited(P[i])
                                 /\ i + 1 \in 1..Len(T) \/ P[i][Len(P[i])].op = "consume"
  <2>1. SUFFICES ASSUME s \in Consumers
                 PROVE  /\ 1 \in 1..Len(T)
                        /\ \A i \in 1..Len(T) :
                             /\ Awaited(P[i])
                             /\ i = Len(T) => P[i][Len(P[i])].op = "consume"
    BY <1>7
  <2>2. ASSUME NEW i \in 1..Len(T)
        PROVE  /\ Awaited(P[i])
               /\ i = Len(T) => P[i][Len(P[i])].op = "consume"
    <3>1. Awaited(T[i]) /\ (i = Len(T) => T[i][Len(T[i])].op = "consume")
      BY <1>4, <2>1
    <3>. QED
      BY <1>6, <3>1
  <2>. QED
    BY <1>4, <2>1, <2>2
<1>11. \A i \in 1..Len(T) :
         /\ P[i] \in Seq(Request) /\ P[i] # <<>> /\ Len(P[i]) \in DOMAIN P[i]
         /\ \A k \in DOMAIN P[i] :
              /\ P[i][k].setup = s
              /\ P[i][k].last <=> k = Len(P[i]) /\ Awaited(P[i])
              /\ P[i][k].op = "prefetch" => P[i][k].arg = Wrappers[ch].prefetchCount
              /\ P[i][k].op = "consume" => s \in Consumers /\ i + 1 \notin 1..Len(T)
  BY <1>6, <1>8
<1>12. 1..Len(T) \subseteq Nat \ {0}
  BY <1>7
<1>. QED
  BY <1>5, <1>9, <1>10, <1>11, <1>12, SMTT(30)

----------------------------------------------------------------------------
(* The requests of steps, and of several setups that start.                *)

\* The requests that setup s waits for.
Awaiting(s) == {q \in Request : q.last /\ q.setup = s}

LEMMA RequestsOf ==
  ASSUME NEW ch \in Channels, NEW s \in Setups, NEW i
  PROVE  LET R == Requests(ch, s, i)
         IN /\ R \in Seq(Request)
            /\ \A q : Contains(R, q) => q.setup = s
            /\ \A q : Contains(R, q) /\ q.last =>
                 /\ i \in DOMAIN Program[ch][s] /\ Position(ch, s, i) = i
                 /\ q = Last(Program[ch][s][i])
            /\ \A x : AtMostOne(R, Awaiting(x))
            /\ \A x : Has(R, Awaiting(x)) => x = s
<1>1. CASE i \notin DOMAIN Program[ch][s]
  <2>1. Requests(ch, s, i) = <<>>
    BY <1>1 DEF Requests
  <2>. QED
    BY <2>1, EmptyList
<1>2. CASE i \in DOMAIN Program[ch][s]
  <2>1. PICK P : P = Program[ch][s][i]
    OBVIOUS
  <2>2. Requests(ch, s, i) = P
    BY <1>2, <2>1 DEF Requests
  <2>3. /\ P \in Seq(Request) /\ Len(P) \in DOMAIN P
        /\ \A k \in DOMAIN P : P[k].setup = s /\ (P[k].last <=> k = Len(P) /\ Awaited(P))
    BY <1>2, <2>1, StepsOf
  <2>4. Awaited(P) => Position(ch, s, i) = i
    BY <1>2, <2>1 DEF Position
  <2>5. DOMAIN P = 1..Len(P)
    BY <2>3, LenProperties
  <2>6. ASSUME NEW q, Contains(P, q)
        PROVE  q.setup = s /\ (q.last => Awaited(P) /\ q = Last(P))
    <3>1. PICK k \in DOMAIN P : P[k] = q
      BY <2>5, <2>6 DEF Contains
    <3>. QED
      BY <2>3, <3>1 DEF Last
  <2>7. \A x : AtMostOne(P, Awaiting(x)) /\ (Has(P, Awaiting(x)) => x = s)
    BY <2>3 DEF AtMostOne, Has, Awaiting
  <2>. QED
    BY <1>2, <2>1, <2>2, <2>3, <2>4, <2>6, <2>7
<1>. QED
  BY <1>1, <1>2

LEMMA PositionOf ==
  ASSUME NEW ch \in Channels, NEW s \in Setups, NEW i
  PROVE  /\ Position(ch, s, i) \in Nat
         /\ Position(ch, s, i) > 0 => i \in DOMAIN Program[ch][s] /\ Position(ch, s, i) = i
         /\ s \in Consumers /\ i \in DOMAIN Program[ch][s] => Position(ch, s, i) = i /\ i > 0
<1>1. /\ DOMAIN Program[ch][s] \subseteq Nat \ {0}
      /\ s \in Consumers => \A k \in DOMAIN Program[ch][s] : Awaited(Program[ch][s][k])
  BY StepsOf
<1>. QED
  BY <1>1 DEF Position

LEMMA FirstOnes ==
  ASSUME NEW ch \in Channels, NEW ss \in Seq(Setups)
  PROVE  LET F == FirstRequests(ch, ss)
         IN /\ F \in Seq(Request)
            /\ \A q : Contains(F, q) => Contains(ss, q.setup)
            /\ \A q : Contains(F, q) /\ q.last =>
                 /\ 1 \in DOMAIN Program[ch][q.setup] /\ Position(ch, q.setup, 1) = 1
                 /\ q = Last(Program[ch][q.setup][1])
            /\ IsInjective(ss) => \A x : AtMostOne(F, Awaiting(x))
            /\ \A x : Has(F, Awaiting(x)) => Contains(ss, x)
            /\ ss # <<>> /\ ss[1] = "base" => F # <<>> /\ F[1].op = "prefetch"
<1>1. PICK R : R = [i \in 1..Len(ss) |-> Requests(ch, ss[i], 1)]
  OBVIOUS
<1>2. Len(ss) \in Nat /\ DOMAIN ss = 1..Len(ss) /\ \A i \in 1..Len(ss) : ss[i] \in Setups
  BY LenProperties, ElementOfSeq
<1>3. \A i \in 1..Len(ss) :
        /\ R[i] \in Seq(Request)
        /\ \A q : Contains(R[i], q) => q.setup = ss[i]
        /\ \A q : Contains(R[i], q) /\ q.last =>
             /\ 1 \in DOMAIN Program[ch][ss[i]] /\ Position(ch, ss[i], 1) = 1
             /\ q = Last(Program[ch][ss[i]][1])
        /\ \A x : AtMostOne(R[i], Awaiting(x))
        /\ \A x : Has(R[i], Awaiting(x)) => x = ss[i]
  <2>1. ASSUME NEW i \in 1..Len(ss)
        PROVE  R[i] = Requests(ch, ss[i], 1) /\ ss[i] \in Setups
    BY <1>1, <1>2
  <2>. QED
    BY <2>1, RequestsOf
<1>4. R \in Seq(Seq(Request)) /\ Len(R) = Len(ss)
  <2>1. R \in [1..Len(ss) -> Seq(Request)]
    BY <1>1, <1>3
  <2>. QED
    BY <1>2, <2>1
<1>5. PICK F : F = FlattenSeq(R)
  OBVIOUS
<1>6. FirstRequests(ch, ss) = F
  BY <1>1, <1>5 DEF FirstRequests
<1>7. /\ F \in Seq(Request)
      /\ \A T : Has(F, T) <=> \E i \in 1..Len(ss) : Has(R[i], T)
      /\ \A T : /\ \A i \in 1..Len(ss) : AtMostOne(R[i], T)
                /\ \A i, k \in 1..Len(ss) : Has(R[i], T) /\ Has(R[k], T) => i = k
                => AtMostOne(F, T)
      /\ \A x : Contains(F, x) <=> \E i \in 1..Len(ss) : Contains(R[i], x)
      /\ Len(ss) > 0 /\ R[1] # <<>> => F # <<>> /\ F[1] = R[1][1]
  BY <1>4, <1>5, FlatList
<1>8. ASSUME NEW q, Contains(F, q)
      PROVE  /\ Contains(ss, q.setup)
             /\ q.last => /\ 1 \in DOMAIN Program[ch][q.setup] /\ Position(ch, q.setup, 1) = 1
                          /\ q = Last(Program[ch][q.setup][1])
  <2>1. PICK i \in 1..Len(ss) : Contains(R[i], q)
    BY <1>7, <1>8
  <2>2. q.setup = ss[i]
    BY <1>3, <2>1
  <2>3. Contains(ss, q.setup)
    BY <2>2 DEF Contains
  <2>4. q.last => /\ 1 \in DOMAIN Program[ch][q.setup] /\ Position(ch, q.setup, 1) = 1
                  /\ q = Last(Program[ch][q.setup][1])
    BY <1>3, <2>1, <2>2
  <2>. QED
    BY <2>3, <2>4
<1>9. ASSUME NEW x, Has(F, Awaiting(x))
      PROVE  Contains(ss, x)
  <2>1. PICK i \in 1..Len(ss) : Has(R[i], Awaiting(x))
    BY <1>7, <1>9
  <2>. QED
    BY <1>3, <2>1 DEF Contains
<1>10. ASSUME IsInjective(ss), NEW x
       PROVE  AtMostOne(F, Awaiting(x))
  <2>1. ASSUME NEW i \in 1..Len(ss), NEW k \in 1..Len(ss),
               Has(R[i], Awaiting(x)), Has(R[k], Awaiting(x))
        PROVE  i = k
    <3>1. ss[i] = ss[k]
      BY <1>3, <2>1
    <3>. QED
      BY <1>2, <1>10, <3>1 DEF IsInjective
  <2>. QED
    BY <1>3, <1>7, <2>1
<1>11. ASSUME ss # <<>>, ss[1] = "base"
       PROVE  F # <<>> /\ F[1].op = "prefetch"
  <2>1. Len(ss) > 0 /\ 1 \in 1..Len(ss)
    BY <1>2, <1>11, EmptySeq
  <2>2. R[1] = Requests(ch, "base", 1)
    BY <1>1, <1>11, <2>1
  <2>3. "base" \in Setups
    BY DEF Setups
  <2>4. /\ 1 \in DOMAIN Program[ch]["base"] /\ Program[ch]["base"][1] # <<>>
        /\ Program[ch]["base"][1][1].op = "prefetch"
    BY <2>3, StepsOf
  <2>5. R[1] # <<>> /\ R[1][1].op = "prefetch"
    BY <2>2, <2>4 DEF Requests
  <2>. QED
    BY <1>7, <2>1, <2>5
<1>. QED
  BY <1>6, <1>7, <1>8, <1>9, <1>10, <1>11

----------------------------------------------------------------------------
(* The stages of the start.                                                *)

LEMMA GroupsOf ==
  /\ Len(Groups) \in Nat /\ DOMAIN Groups = 1..Len(Groups)
  /\ \A n \in DOMAIN Groups :
       /\ Groups[n] \in Seq(Consumers) /\ IsInjective(Groups[n])
       /\ \A m \in DOMAIN Groups : \A s \in Range(Groups[n]) : s \in Range(Groups[m]) => m = n
<1>1. Groups \in Seq(Seq(Consumers))
  BY SetupAssumption
<1>2. /\ Len(Groups) \in Nat /\ DOMAIN Groups = 1..Len(Groups)
      /\ \A n \in DOMAIN Groups : Groups[n] \in Seq(Consumers)
  BY <1>1, LenProperties, ElementOfSeq
<1>3. \A m, n \in DOMAIN Groups : \A i \in DOMAIN Groups[m], k \in DOMAIN Groups[n] :
        Groups[m][i] = Groups[n][k] => m = n /\ i = k
  BY SetupAssumption
<1>4. \A n \in DOMAIN Groups : IsInjective(Groups[n])
  BY <1>3 DEF IsInjective
<1>5. \A m, n \in DOMAIN Groups : \A s \in Range(Groups[n]) : s \in Range(Groups[m]) => m = n
  BY <1>3 DEF Range
<1>. QED
  BY <1>2, <1>4, <1>5

\* What a stage adds to ch: its base, when it is the stage of that, and the
\* consumers of its provider that register on ch.
LEMMA StagesOf ==
  ASSUME NEW k \in 1..Started, NEW ch \in Channels
  PROVE  LET ss == Stages[k][ch]
         IN /\ ss \in Seq(Setups) /\ IsInjective(ss)
            /\ k < BaseStage(ch) => ss = <<>>
            /\ k = BaseStage(ch) => ss = <<"base">>
            /\ \A s : Contains(ss, s) <=>
                 \/ s = "base" /\ BaseStage(ch) = k
                 \/ /\ s \in ConsumersOf(ch)
                    /\ k - 3 \in DOMAIN Groups /\ s \in Range(Groups[k - 3])
<1>. DEFINE Bases(new) == [w \in Channels |-> IF w \in new THEN <<"base">> ELSE <<>>]
            named == 2..(Len(channels) + 1)
            OfGroup(n) == [w \in Channels |-> Only(Groups[n], ConsumersOf(w))]
            W == [Channels -> Seq(Setups)]
<1>1. /\ Len(Groups) \in Nat /\ DOMAIN Groups = 1..Len(Groups)
      /\ \A n \in DOMAIN Groups : Groups[n] \in Seq(Consumers) /\ IsInjective(Groups[n])
  BY GroupsOf
<1>2. /\ <<"base">> \in Seq(Setups) /\ <<>> \in Seq(Setups)
      /\ IsInjective(<<"base">>) /\ IsInjective(<<>>)
      /\ \A s : ~ Contains(<<>>, s) /\ (Contains(<<"base">>, s) <=> s = "base")
  <2>1. "base" \in Setups
    BY DEF Setups
  <2>. QED
    BY <2>1, EmptyList, SingleList
<1>3. \A new : Bases(new) \in W
  BY <1>2
<1>4. \A n \in DOMAIN Groups, w \in Channels :
        LET ss == Only(Groups[n], ConsumersOf(w))
        IN /\ ss \in Seq(Consumers) /\ ss \in Seq(Setups) /\ IsInjective(ss)
           /\ \A s : Contains(ss, s) <=> s \in ConsumersOf(w) /\ s \in Range(Groups[n])
  <2>1. SUFFICES ASSUME NEW n \in DOMAIN Groups, NEW w \in Channels, NEW ss,
                        ss = Only(Groups[n], ConsumersOf(w))
                 PROVE  /\ ss \in Seq(Consumers) /\ ss \in Seq(Setups) /\ IsInjective(ss)
                        /\ \A s : Contains(ss, s) <=> s \in ConsumersOf(w) /\ s \in Range(Groups[n])
    BY Zenon
  <2>2. /\ ss \in Seq(Consumers)
        /\ \A s : Contains(ss, s) <=> s \in ConsumersOf(w) /\ Contains(Groups[n], s)
        /\ IsInjective(ss)
    BY <1>1, <2>1, OnlyList
  <2>3. \A s : Contains(Groups[n], s) <=> s \in Range(Groups[n])
    BY <1>1, ContainsHas
  <2>4. ss \in Seq(Setups)
    <3>1. ss \in [1..Len(ss) -> Consumers] /\ Len(ss) \in Nat
      BY <2>2, LenProperties
    <3>2. ss \in [1..Len(ss) -> Setups]
      BY <3>1 DEF Setups
    <3>. QED
      BY <3>1, <3>2
  <2>. QED
    BY <2>2, <2>3, <2>4
<1>. HIDE DEF Bases, OfGroup, W
<1>5. PICK first, rest : /\ first = <<Bases({Default}), Bases(named), Bases(Channels \ ({Default} \cup named))>>
                         /\ rest = [n \in DOMAIN Groups |-> OfGroup(n)]
  OBVIOUS
<1>6. Stages = first \o rest
  BY <1>5, Zenon DEF Stages, Bases, OfGroup
<1>7. first \in Seq(W) /\ Len(first) = 3
      /\ first[1] = Bases({Default}) /\ first[2] = Bases(named)
      /\ first[3] = Bases(Channels \ ({Default} \cup named))
  BY <1>3, <1>5
<1>8. rest \in Seq(W) /\ Len(rest) = Len(Groups)
  <2>1. \A n \in DOMAIN Groups : OfGroup(n) \in W
    BY <1>4 DEF OfGroup, W
  <2>2. rest \in [1..Len(Groups) -> W]
    BY <1>1, <1>5, <2>1
  <2>. QED
    BY <1>1, <2>2
<1>9. \A i \in 1 .. 3 + Len(Groups) : Stages[i] = IF i <= 3 THEN first[i] ELSE rest[i - 3]
  <2>1. \A s, t \in Seq(W) : \A i \in 1 .. Len(s) + Len(t) :
          (s \o t)[i] = IF i <= Len(s) THEN s[i] ELSE t[i - Len(s)]
    BY ConcatProperties
  <2>2. \A i \in 1 .. Len(first) + Len(rest) :
          (first \o rest)[i] = IF i <= Len(first) THEN first[i] ELSE rest[i - Len(first)]
    <3>1. first \in Seq(W) /\ rest \in Seq(W)
      BY <1>7, <1>8
    <3>. QED
      BY <2>1, <3>1
  <2>3. Len(first) = 3 /\ Len(rest) = Len(Groups)
    BY <1>7, <1>8
  <2>. QED
    BY <1>6, <2>2, <2>3
<1>10. k \in 1 .. 3 + Len(Groups)
  BY <1>1 DEF Started
<1>11. BaseStage(ch) \in {1, 2, 3}
  BY DEF BaseStage
<1>12. CASE k > 3
  <2>1. k - 3 \in DOMAIN Groups
    BY <1>1, <1>10, <1>12
  <2>2. Stages[k] = OfGroup(k - 3)
    BY <1>5, <1>9, <1>10, <1>12, <2>1
  <2>3. Stages[k][ch] = Only(Groups[k - 3], ConsumersOf(ch))
    BY <2>2 DEF OfGroup
  <2>4. ~ (k < BaseStage(ch)) /\ k # BaseStage(ch)
    BY <1>11, <1>12
  <2>. QED
    BY <1>4, <2>1, <2>3, <2>4
<1>13. CASE k <= 3
  <2>1. Stages[k][ch] = IF k = BaseStage(ch) THEN <<"base">> ELSE <<>>
    <3>1. Len(channels) \in Nat /\ ch \in Nat \ {0} /\ Default \in Channels
      BY WrappersMade
    <3>2. CASE k = 1
      BY <1>7, <1>9, <1>10, <3>1, <3>2 DEF Bases, BaseStage, Default
    <3>3. CASE k = 2
      BY <1>7, <1>9, <1>10, <3>1, <3>3 DEF Bases, BaseStage, Default
    <3>4. CASE k = 3
      BY <1>7, <1>9, <1>10, <3>1, <3>4 DEF Bases, BaseStage, Default
    <3>. QED
      BY <1>10, <1>13, <3>2, <3>3, <3>4
  <2>2. k - 3 \notin DOMAIN Groups
    BY <1>1, <1>10, <1>13
  <2>. QED
    BY <1>2, <2>1, <2>2
<1>. QED
  BY <1>10, <1>12, <1>13

----------------------------------------------------------------------------
(* Requests that are waited for.                                           *)

\* LastAwaited for the requests rs of ch and the positions pos.
WaitedFor(ch, rs, pos) ==
  /\ \A q : Contains(rs, q) /\ q.last =>
       /\ pos[q.setup] \in DOMAIN Program[ch][q.setup]
       /\ q = Last(Program[ch][q.setup][pos[q.setup]])
  /\ \A s : AtMostOne(rs, Awaiting(s))

LEMMA LastAwaitedOf ==
  ASSUME NEW ch \in Channels, NEW rs \in Seq(Request), NEW pos
  PROVE  /\ \A i \in DOMAIN rs :
              LET q == rs[i]
                  p == pos[q.setup]
              IN q.last => /\ p \in DOMAIN Program[ch][q.setup]
                           /\ q = Last(Program[ch][q.setup][p])
                           /\ \A k \in DOMAIN rs : rs[k].last /\ rs[k].setup = q.setup => k = i
         <=> WaitedFor(ch, rs, pos)
<1>1. DOMAIN rs = 1..Len(rs) /\ \A i \in DOMAIN rs : rs[i] \in Request
  BY LenProperties, ElementOfSeq
<1>2. \A s : \A i \in DOMAIN rs : rs[i] \in Awaiting(s) <=> rs[i].last /\ rs[i].setup = s
  BY <1>1 DEF Awaiting
<1>3. \A q : Contains(rs, q) <=> \E i \in DOMAIN rs : rs[i] = q
  BY <1>1 DEF Contains
<1>4. (\A s : AtMostOne(rs, Awaiting(s))) <=>
        \A i, k \in DOMAIN rs : rs[i].last /\ rs[k].last /\ rs[k].setup = rs[i].setup => k = i
  BY <1>2 DEF AtMostOne
<1>. QED
  BY <1>3, <1>4 DEF WaitedFor

\* The positions once the setups in ss have started.
Begins(ch, ss, pos) == [s \in Setups |-> IF s \in Range(ss) THEN Position(ch, s, 1) ELSE pos[s]]

\* Setups that start and did not run.
LEMMA Starting ==
  ASSUME NEW ch \in Channels, NEW rs \in Seq(Request), NEW pos \in [Setups -> Nat],
         NEW ss \in Seq(Setups), IsInjective(ss), WaitedFor(ch, rs, pos),
         \A s : Contains(ss, s) => pos[s] = 0
  PROVE  /\ Begins(ch, ss, pos) \in [Setups -> Nat]
         /\ \A s \in Setups : ~ Contains(ss, s) => Begins(ch, ss, pos)[s] = pos[s]
         /\ \A c \in Consumers : Contains(ss, c) => Begins(ch, ss, pos)[c] > 0
         /\ rs \o FirstRequests(ch, ss) \in Seq(Request)
         /\ rs # <<>> => /\ rs \o FirstRequests(ch, ss) # <<>>
                         /\ (rs \o FirstRequests(ch, ss))[1] = rs[1]
         /\ WaitedFor(ch, rs \o FirstRequests(ch, ss), Begins(ch, ss, pos))
<1>. PICK new : new = Begins(ch, ss, pos)
  OBVIOUS
<1>. new = [s \in Setups |-> IF s \in Range(ss) THEN Position(ch, s, 1) ELSE pos[s]]
  BY DEF Begins
<1>1. \A s : Contains(ss, s) <=> s \in Range(ss)
  BY ContainsHas
<1>2. new \in [Setups -> Nat]
  BY PositionOf
<1>3. \A s \in Setups : ~ Contains(ss, s) => new[s] = pos[s]
  BY <1>1
<1>4. ASSUME NEW s, Contains(ss, s)
      PROVE  s \in Setups /\ new[s] = Position(ch, s, 1) /\ pos[s] = 0
  BY <1>1, <1>4, ContainsHas
<1>5. ASSUME NEW c \in Consumers, Contains(ss, c)
      PROVE  new[c] > 0
  <2>1. c \in Setups /\ 1 \in DOMAIN Program[ch][c]
    <3>1. c \in Setups
      BY DEF Setups
    <3>. QED
      BY <3>1, StepsOf
  <2>2. Position(ch, c, 1) = 1
    BY <2>1, PositionOf
  <2>3. new[c] = Position(ch, c, 1)
    BY <1>4, <1>5
  <2>. QED
    BY <2>2, <2>3
<1>6. PICK F : F = FirstRequests(ch, ss)
  OBVIOUS
<1>7. /\ F \in Seq(Request)
      /\ \A q : Contains(F, q) => Contains(ss, q.setup)
      /\ \A q : Contains(F, q) /\ q.last =>
           /\ 1 \in DOMAIN Program[ch][q.setup] /\ Position(ch, q.setup, 1) = 1
           /\ q = Last(Program[ch][q.setup][1])
      /\ \A x : AtMostOne(F, Awaiting(x))
      /\ \A x : Has(F, Awaiting(x)) => Contains(ss, x)
  BY <1>6, FirstOnes
<1>8. /\ rs \o F \in Seq(Request)
      /\ rs # <<>> => rs \o F # <<>> /\ (rs \o F)[1] = rs[1]
      /\ \A q : Contains(rs \o F, q) <=> Contains(rs, q) \/ Contains(F, q)
      /\ \A T : AtMostOne(rs \o F, T) <=> AtMostOne(rs, T) /\ AtMostOne(F, T) /\ ~ (Has(rs, T) /\ Has(F, T))
  BY <1>7, JoinedList
<1>9. \A q : Contains(rs, q) => q \in Request /\ q.setup \in Setups
  <2>1. \A q \in Request : q.setup \in Setups
    BY DEF Request, Setups
  <2>. QED
    BY <2>1, ContainsHas
<1>10. ASSUME NEW q, Contains(rs, q), q.last
       PROVE  ~ Contains(ss, q.setup)
  <2>1. pos[q.setup] \in DOMAIN Program[ch][q.setup] /\ q.setup \in Setups
    BY <1>9, <1>10 DEF WaitedFor
  <2>2. pos[q.setup] \in Nat \ {0}
    BY <2>1, StepsOf
  <2>. QED
    BY <2>2
<1>11. ASSUME NEW q, Contains(rs \o F, q), q.last
       PROVE  /\ new[q.setup] \in DOMAIN Program[ch][q.setup]
              /\ q = Last(Program[ch][q.setup][new[q.setup]])
  <2>1. CASE Contains(rs, q)
    BY <1>3, <1>9, <1>10, <1>11, <2>1 DEF WaitedFor
  <2>2. CASE Contains(F, q)
    BY <1>4, <1>7, <1>11, <2>2
  <2>. QED
    BY <1>8, <1>11, <2>1, <2>2
<1>12. ASSUME NEW x
       PROVE  AtMostOne(rs \o F, Awaiting(x))
  <2>1. ~ (Has(rs, Awaiting(x)) /\ Has(F, Awaiting(x)))
    <3>1. SUFFICES ASSUME Has(rs, Awaiting(x)), Has(F, Awaiting(x)) PROVE FALSE
      OBVIOUS
    <3>2. PICK q \in Awaiting(x) : Contains(rs, q)
      BY <3>1, ContainsHas
    <3>. QED
      BY <1>7, <1>10, <3>1, <3>2 DEF Awaiting
  <2>. QED
    BY <1>7, <1>8, <2>1 DEF WaitedFor
<1>13. WaitedFor(ch, rs \o F, new)
  BY <1>11, <1>12 DEF WaitedFor
<1>. QED
  BY <1>2, <1>3, <1>5, <1>6, <1>8, <1>13

----------------------------------------------------------------------------
(* Setups that are added.                                                  *)

LEMMA JoinedOnce ==
  ASSUME NEW S, NEW s \in Seq(S), NEW t \in Seq(S)
  PROVE  /\ s \o t \in Seq(S)
         /\ \A x : Contains(s \o t, x) <=> Contains(s, x) \/ Contains(t, x)
         /\ IsInjective(s \o t) <=> /\ IsInjective(s) /\ IsInjective(t)
                                    /\ \A x : ~ (Contains(s, x) /\ Contains(t, x))
         /\ s # <<>> => s \o t # <<>> /\ (s \o t)[1] = s[1]
<1>1. PICK u : u = s \o t
  OBVIOUS
<1>2. /\ u \in Seq(S)
      /\ s # <<>> => u # <<>> /\ u[1] = s[1]
      /\ \A x : Contains(u, x) <=> Contains(s, x) \/ Contains(t, x)
      /\ \A T : AtMostOne(u, T) <=> AtMostOne(s, T) /\ AtMostOne(t, T) /\ ~ (Has(s, T) /\ Has(t, T))
  BY <1>1, JoinedList
<1>3. \A r \in Seq(S) : /\ IsInjective(r) <=> \A x : AtMostOne(r, {x})
                        /\ \A x : Contains(r, x) <=> Has(r, {x})
  BY ContainsHas
<1>4. IsInjective(u) <=> /\ IsInjective(s) /\ IsInjective(t)
                         /\ \A x : ~ (Contains(s, x) /\ Contains(t, x))
  BY <1>2, <1>3
<1>. QED
  BY <1>1, <1>2, <1>4

\* What ch keeps is once in its setups or once in those that wait.
LEMMA KeptOnce ==
  ASSUME TypeOK, AddedKept, NEW ch \in Channels
  PROVE  /\ setups[ch] \in Seq(Setups) /\ waiting[ch] \in Seq(Setups)
         /\ \A s : Contains(Kept(ch), s) <=> Contains(setups[ch], s) \/ Contains(waiting[ch], s)
         /\ IsInjective(setups[ch]) /\ IsInjective(waiting[ch])
         /\ \A s : ~ (Contains(setups[ch], s) /\ Contains(waiting[ch], s))
<1>1. setups[ch] \in Seq(Setups) /\ waiting[ch] \in Seq(Setups)
  BY DEF TypeOK
<1>2. IsInjective(setups[ch] \o waiting[ch])
  BY DEF AddedKept, Kept
<1>. QED
  BY <1>1, <1>2, JoinedOnce DEF Kept

LEMMA AddedOnce ==
  ASSUME TypeOK, AddedKept, ClosedIdle, NEW ch \in Channels,
         NEW added, added[ch] \in Seq(Setups), IsInjective(added[ch]),
         \A s : Contains(added[ch], s) => ~ Contains(Kept(ch), s),
         AddSetups(added)
  PROVE  /\ setups'[ch] \in Seq(Setups) /\ waiting'[ch] \in Seq(Setups)
         /\ channel[ch] # "opening" => /\ setups'[ch] = setups[ch] \o added[ch]
                                       /\ waiting'[ch] = <<>>
         /\ channel[ch] = "opening" => /\ setups'[ch] = setups[ch]
                                       /\ waiting'[ch] = waiting[ch] \o added[ch]
         /\ \A s : Contains(setups[ch], s) => Contains(setups'[ch], s)
         /\ setups[ch] # <<>> => setups'[ch] # <<>> /\ setups'[ch][1] = setups[ch][1]
         /\ IsInjective(setups'[ch] \o waiting'[ch])
         /\ \A s : Contains(setups'[ch] \o waiting'[ch], s)
                   <=> Contains(Kept(ch), s) \/ Contains(added[ch], s)
<1>1. /\ setups[ch] \in Seq(Setups) /\ waiting[ch] \in Seq(Setups)
      /\ \A s : Contains(Kept(ch), s) <=> Contains(setups[ch], s) \/ Contains(waiting[ch], s)
      /\ IsInjective(setups[ch]) /\ IsInjective(waiting[ch])
      /\ \A s : ~ (Contains(setups[ch], s) /\ Contains(waiting[ch], s))
  BY KeptOnce
<1>2. \A s, t \in Seq(Setups) :
        /\ s \o t \in Seq(Setups)
        /\ \A x : Contains(s \o t, x) <=> Contains(s, x) \/ Contains(t, x)
        /\ IsInjective(s \o t) <=> /\ IsInjective(s) /\ IsInjective(t)
                                   /\ \A x : ~ (Contains(s, x) /\ Contains(t, x))
        /\ s # <<>> => s \o t # <<>> /\ (s \o t)[1] = s[1]
  BY JoinedOnce
<1>3. <<>> \in Seq(Setups) /\ IsInjective(<<>>) /\ \A s : ~ Contains(<<>>, s)
  BY EmptyList
<1>4. CASE channel[ch] # "opening"
  <2>1. setups'[ch] = setups[ch] \o added[ch] /\ waiting'[ch] = <<>> /\ waiting[ch] = <<>>
    BY <1>4 DEF AddSetups, ClosedIdle
  <2>2. PICK old, new, st : old = setups[ch] /\ new = added[ch] /\ st = setups'[ch]
    OBVIOUS
  <2>3. /\ st \in Seq(Setups) /\ IsInjective(st)
        /\ \A s : Contains(st, s) <=> Contains(setups[ch], s) \/ Contains(added[ch], s)
        /\ setups[ch] # <<>> => st # <<>> /\ st[1] = setups[ch][1]
    <3>1. /\ old \in Seq(Setups) /\ new \in Seq(Setups) /\ st = old \o new
          /\ IsInjective(old) /\ IsInjective(new)
          /\ \A s : ~ (Contains(old, s) /\ Contains(new, s))
      BY <1>1, <2>1, <2>2
    <3>2. /\ st \in Seq(Setups) /\ IsInjective(st)
          /\ \A s : Contains(st, s) <=> Contains(old, s) \/ Contains(new, s)
          /\ old # <<>> => st # <<>> /\ st[1] = old[1]
      BY <1>2, <3>1
    <3>. QED
      BY <2>2, <3>2
  <2>4. /\ IsInjective(st \o <<>>) /\ \A s : Contains(st \o <<>>, s) <=> Contains(st, s)
    BY <1>2, <1>3, <2>3
  <2>. QED
    BY <1>1, <1>3, <1>4, <2>1, <2>2, <2>3, <2>4
<1>5. CASE channel[ch] = "opening"
  <2>1. setups'[ch] = setups[ch] /\ waiting'[ch] = waiting[ch] \o added[ch]
    BY <1>5 DEF AddSetups
  <2>2. PICK wt : wt = waiting'[ch]
    OBVIOUS
  <2>3. /\ wt \in Seq(Setups) /\ IsInjective(wt)
        /\ \A s : Contains(wt, s) <=> Contains(waiting[ch], s) \/ Contains(added[ch], s)
    BY <1>1, <1>2, <2>1, <2>2
  <2>4. /\ IsInjective(setups[ch] \o wt)
        /\ \A s : Contains(setups[ch] \o wt, s) <=> Contains(setups[ch], s) \/ Contains(wt, s)
    BY <1>1, <1>2, <2>3
  <2>. QED
    BY <1>1, <1>5, <2>1, <2>2, <2>3, <2>4
<1>. QED
  BY <1>4, <1>5

----------------------------------------------------------------------------
(* The parts of the invariant that are about one channel.                  *)

Registered(ch) ==
  \A c \in ConsumersOf(ch) :
    IF channel[ch] # "closed" /\ Contains(setups[ch], c)
    THEN /\ subscribed[c] = IF position[ch][c] > 0 THEN 0 ELSE 1
         /\ subscribed[c] > 0 => prefetch[ch] = Wrappers[ch].prefetchCount
    ELSE subscribed[c] = 0

ChannelOK(ch) ==
  /\ channel[ch] # "opening" => waiting[ch] = <<>>
  /\ channel[ch] = "closed" => rpcs[ch] = <<>> /\ \A s \in Setups : position[ch][s] = 0
  /\ \A s \in Setups : position[ch][s] > 0 => Contains(setups[ch], s)
  /\ WaitedFor(ch, rpcs[ch], position[ch])
  /\ channel[ch] # "closed" => \/ prefetch[ch] = Wrappers[ch].prefetchCount
                               \/ rpcs[ch] # <<>> /\ rpcs[ch][1].op = "prefetch"
  /\ Registered(ch)

EachChannel ==
  ClosedIdle /\ RunningKept /\ LastAwaited /\ PrefetchAhead /\ RegisteredOrRunning

LEMMA ChannelByChannel ==
  /\ TypeOK => (EachChannel <=> \A ch \in Channels : ChannelOK(ch))
  /\ TypeOK' => (EachChannel' <=> \A ch \in Channels : ChannelOK(ch)')
<1>1. ASSUME TypeOK
      PROVE  EachChannel <=> \A ch \in Channels : ChannelOK(ch)
  <2>1. \A ch \in Channels : rpcs[ch] \in Seq(Request)
    BY <1>1 DEF TypeOK
  <2>2. LastAwaited <=> \A ch \in Channels : WaitedFor(ch, rpcs[ch], position[ch])
    BY <2>1, LastAwaitedOf, SMTT(30) DEF LastAwaited
  <2>. QED
    BY <2>2 DEF EachChannel, ClosedIdle, RunningKept, PrefetchAhead, RegisteredOrRunning,
                ChannelOK, Registered
<1>2. ASSUME TypeOK'
      PROVE  EachChannel' <=> \A ch \in Channels : ChannelOK(ch)'
  <2>1. \A ch \in Channels : rpcs'[ch] \in Seq(Request)
    BY <1>2 DEF TypeOK
  <2>2. LastAwaited' <=> \A ch \in Channels : WaitedFor(ch, rpcs'[ch], position'[ch])
    BY <2>1, LastAwaitedOf, SMTT(30) DEF LastAwaited
  <2>. QED
    BY <2>2 DEF EachChannel, ClosedIdle, RunningKept, PrefetchAhead, RegisteredOrRunning,
                ChannelOK, Registered, WaitedFor
<1>. QED
  BY <1>1, <1>2

LEMMA SameChannel ==
  ASSUME NEW ch \in Channels, ChannelOK(ch),
         channel'[ch] = channel[ch], setups'[ch] = setups[ch], waiting'[ch] = waiting[ch],
         rpcs'[ch] = rpcs[ch], position'[ch] = position[ch], prefetch'[ch] = prefetch[ch],
         \A c \in ConsumersOf(ch) : subscribed'[c] = subscribed[c]
  PROVE  ChannelOK(ch)'
BY DEF ChannelOK, Registered, WaitedFor

\* Setups that are added run where they may, and leave the channel in order.
LEMMA AddedRuns ==
  ASSUME TypeOK, AddedKept, ClosedIdle, NEW ch \in Channels, ChannelOK(ch),
         NEW added, added[ch] \in Seq(Setups), IsInjective(added[ch]),
         \A s : Contains(added[ch], s) => ~ Contains(Kept(ch), s),
         AddSetups(added), UNCHANGED <<channel, prefetch, subscribed>>
  PROVE  /\ rpcs'[ch] \in Seq(Request) /\ position'[ch] \in [Setups -> Nat]
         /\ ChannelOK(ch)'
         /\ \A c \in Consumers :
              (channel[ch] = "open" /\ position'[ch][c] > 0) \/ Contains(waiting'[ch], c) =>
                \/ channel[ch] = "open" /\ position[ch][c] > 0
                \/ Contains(waiting[ch], c)
                \/ channel[ch] # "closed" /\ Contains(added[ch], c)
<1>1. /\ setups[ch] \in Seq(Setups) /\ waiting[ch] \in Seq(Setups)
      /\ \A s : Contains(Kept(ch), s) <=> Contains(setups[ch], s) \/ Contains(waiting[ch], s)
  BY KeptOnce
<1>2. /\ setups'[ch] \in Seq(Setups) /\ waiting'[ch] \in Seq(Setups)
      /\ channel[ch] # "opening" => /\ setups'[ch] = setups[ch] \o added[ch]
                                    /\ waiting'[ch] = <<>>
      /\ channel[ch] = "opening" => /\ setups'[ch] = setups[ch]
                                    /\ waiting'[ch] = waiting[ch] \o added[ch]
      /\ \A s : Contains(setups[ch], s) => Contains(setups'[ch], s)
  BY AddedOnce
<1>3. /\ \A c \in ConsumersOf(ch) : c \in Consumers
      /\ Consumers \subseteq Setups
  BY DEF ConsumersOf, Setups
<1>4. /\ rpcs[ch] \in Seq(Request) /\ position[ch] \in [Setups -> Nat]
      /\ channel[ch] \in {"closed", "opening", "open"}
  BY DEF TypeOK
<1>5. /\ \A x : Contains(setups[ch] \o added[ch], x) <=> Contains(setups[ch], x) \/ Contains(added[ch], x)
      /\ \A x : Contains(waiting[ch] \o added[ch], x) <=> Contains(waiting[ch], x) \/ Contains(added[ch], x)
  <2>1. \A s, t \in Seq(Setups) : \A x : Contains(s \o t, x) <=> Contains(s, x) \/ Contains(t, x)
    BY JoinedOnce
  <2>. QED
    BY <1>1, <2>1
<1>6. \A x : ~ Contains(<<>>, x)
  BY EmptyList
<1>7. CASE channel[ch] = "closed"
  <2>1. rpcs'[ch] = rpcs[ch] /\ position'[ch] = position[ch] /\ channel'[ch] = "closed"
    BY <1>7 DEF AddSetups
  <2>2. waiting'[ch] = <<>>
    BY <1>2, <1>7
  <2>3. Registered(ch)'
    BY <1>7, <2>1 DEF ChannelOK, Registered
  <2>4. ChannelOK(ch)'
    BY <1>2, <1>7, <2>1, <2>2, <2>3 DEF ChannelOK, WaitedFor
  <2>. QED
    BY <1>4, <1>6, <1>7, <2>1, <2>2, <2>4
<1>8. CASE channel[ch] = "opening"
  <2>1. /\ rpcs'[ch] = rpcs[ch] /\ position'[ch] = position[ch] /\ channel'[ch] = "opening"
        /\ prefetch'[ch] = prefetch[ch]
    BY <1>8 DEF AddSetups
  <2>2. Registered(ch)'
    BY <1>2, <1>8, <2>1 DEF ChannelOK, Registered
  <2>3. ChannelOK(ch)'
    BY <1>2, <1>8, <2>1, <2>2 DEF ChannelOK, WaitedFor
  <2>4. \A x : Contains(waiting'[ch], x) => Contains(waiting[ch], x) \/ Contains(added[ch], x)
    BY <1>1, <1>2, <1>5, <1>8
  <2>. QED
    BY <1>4, <1>8, <2>1, <2>3, <2>4
<1>9. CASE channel[ch] = "open"
  <2>1. /\ rpcs'[ch] = rpcs[ch] \o FirstRequests(ch, added[ch])
        /\ position'[ch] = Begun(ch, added[ch])
        /\ channel'[ch] = "open" /\ prefetch'[ch] = prefetch[ch]
    BY <1>9 DEF AddSetups
  <2>2. ASSUME NEW s, Contains(added[ch], s)
        PROVE  /\ s \in Setups /\ position[ch][s] = 0
               /\ ~ Contains(setups[ch], s)
    <3>1. s \in Setups /\ ~ Contains(setups[ch], s)
      BY <1>1, <2>2, ContainsHas
    <3>2. position[ch][s] \in Nat /\ ~ (position[ch][s] > 0)
      BY <1>4, <3>1 DEF ChannelOK
    <3>. QED
      BY <3>1, <3>2
  <2>3. /\ position'[ch] \in [Setups -> Nat]
        /\ \A s \in Setups : ~ Contains(added[ch], s) => position'[ch][s] = position[ch][s]
        /\ \A c \in Consumers : Contains(added[ch], c) => position'[ch][c] > 0
        /\ rpcs'[ch] \in Seq(Request)
        /\ rpcs[ch] # <<>> => rpcs'[ch] # <<>> /\ rpcs'[ch][1] = rpcs[ch][1]
        /\ WaitedFor(ch, rpcs'[ch], position'[ch])
    <3>1. WaitedFor(ch, rpcs[ch], position[ch])
      BY DEF ChannelOK
    <3>2. PICK rs, pos, ss, new : /\ rs = rpcs[ch] /\ pos = position[ch] /\ ss = added[ch]
                                  /\ new = position'[ch]
      OBVIOUS
    <3>3. /\ rs \in Seq(Request) /\ pos \in [Setups -> Nat]
          /\ ss \in Seq(Setups) /\ IsInjective(ss) /\ WaitedFor(ch, rs, pos)
          /\ \A s : Contains(ss, s) => pos[s] = 0
          /\ new = Begins(ch, ss, pos)
      BY <1>4, <2>1, <2>2, <3>1, <3>2 DEF Begun, Begins
    <3>4. /\ new \in [Setups -> Nat]
          /\ \A s \in Setups : ~ Contains(ss, s) => new[s] = pos[s]
          /\ \A c \in Consumers : Contains(ss, c) => new[c] > 0
          /\ rs \o FirstRequests(ch, ss) \in Seq(Request)
          /\ rs # <<>> => /\ rs \o FirstRequests(ch, ss) # <<>>
                          /\ (rs \o FirstRequests(ch, ss))[1] = rs[1]
          /\ WaitedFor(ch, rs \o FirstRequests(ch, ss), new)
      BY <3>3, Starting, ZenonT(40)
    <3>. QED
      BY <2>1, <3>2, <3>4
  <2>4. /\ \A s : Contains(setups'[ch], s) <=> Contains(setups[ch], s) \/ Contains(added[ch], s)
        /\ waiting'[ch] = <<>>
    BY <1>1, <1>2, <1>5, <1>9
  <2>5. \A s \in Setups : position'[ch][s] > 0 => Contains(setups'[ch], s)
    BY <2>3, <2>4 DEF ChannelOK
  <2>6. Registered(ch)'
    <3>1. SUFFICES ASSUME NEW c \in ConsumersOf(ch)
                   PROVE  IF Contains(setups'[ch], c)
                          THEN /\ subscribed[c] = IF position'[ch][c] > 0 THEN 0 ELSE 1
                               /\ subscribed[c] > 0 => prefetch[ch] = Wrappers[ch].prefetchCount
                          ELSE subscribed[c] = 0
      BY <1>9, <2>1 DEF Registered
    <3>2. IF Contains(setups[ch], c)
          THEN /\ subscribed[c] = IF position[ch][c] > 0 THEN 0 ELSE 1
               /\ subscribed[c] > 0 => prefetch[ch] = Wrappers[ch].prefetchCount
          ELSE subscribed[c] = 0
      BY <1>9 DEF ChannelOK, Registered
    <3>3. CASE Contains(added[ch], c)
      BY <1>3, <2>2, <2>3, <2>4, <3>2, <3>3
    <3>4. CASE ~ Contains(added[ch], c)
      BY <1>3, <2>3, <2>4, <3>2, <3>4
    <3>. QED
      BY <3>3, <3>4
  <2>7. ChannelOK(ch)'
    <3>1. \/ prefetch'[ch] = Wrappers[ch].prefetchCount
          \/ rpcs'[ch] # <<>> /\ rpcs'[ch][1].op = "prefetch"
      BY <1>9, <2>1, <2>3 DEF ChannelOK
    <3>2. WaitedFor(ch, rpcs[ch], position[ch])'
      BY <2>3 DEF WaitedFor
    <3>. QED
      BY <2>1, <2>4, <2>5, <2>6, <3>1, <3>2 DEF ChannelOK
  <2>. QED
    BY <1>3, <1>6, <1>9, <2>3, <2>4, <2>7
<1>. QED
  BY <1>4, <1>7, <1>8, <1>9

LEMMA InvParts ==
  ASSUME IInv
  PROVE  /\ TypeOK /\ AddedKept /\ BaseFirst /\ BindingsAfterBase /\ ClosedIdle
         /\ EachChannel /\ DisabledSilent /\ StartWaits
         /\ \A ch \in Channels : ChannelOK(ch)
<1>1. /\ TypeOK /\ AddedKept /\ BaseFirst /\ BindingsAfterBase /\ ClosedIdle
      /\ DisabledSilent /\ StartWaits
  BY DEF IInv
<1>2. EachChannel
  BY DEF IInv, EachChannel
<1>. QED
  BY <1>1, <1>2, ChannelByChannel

\* Boot and Binding: what both do to the channels.
LEMMA Adding ==
  ASSUME IInv, NEW added,
         \A ch \in Channels : /\ added[ch] \in Seq(Setups) /\ IsInjective(added[ch])
                              /\ \A s : Contains(added[ch], s) => ~ Added(ch, s),
         AddSetups(added), UNCHANGED <<channel, prefetch, subscribed>>
  PROVE  /\ setups' \in [Channels -> Seq(Setups)] /\ waiting' \in [Channels -> Seq(Setups)]
         /\ rpcs' \in [Channels -> Seq(Request)] /\ position' \in [Channels -> [Setups -> Nat]]
         /\ \A ch \in Channels :
              /\ ChannelOK(ch)'
              /\ IsInjective(Kept(ch)')
              /\ \A s \in Setups : Contains(Kept(ch)', s) <=> Added(ch, s) \/ Contains(added[ch], s)
              /\ setups[ch] # <<>> => setups'[ch] # <<>> /\ setups'[ch][1] = setups[ch][1]
              /\ channel[ch] = "closed" => setups'[ch] = setups[ch] \o added[ch]
              /\ \A c \in ConsumersOf(ch) :
                   (channel[ch] = "open" /\ position'[ch][c] > 0) \/ Contains(waiting'[ch], c) =>
                     \/ <<ch, c>> \in awaited
                     \/ channel[ch] # "closed" /\ Contains(added[ch], c)
<1>1. /\ TypeOK /\ AddedKept /\ ClosedIdle /\ StartWaits
      /\ \A ch \in Channels : ChannelOK(ch)
  BY InvParts
<1>2. ASSUME NEW ch \in Channels
      PROVE  /\ added[ch] \in Seq(Setups) /\ IsInjective(added[ch])
             /\ \A s : Contains(added[ch], s) => ~ Contains(Kept(ch), s)
             /\ \A s \in Setups : Contains(Kept(ch), s) <=> Added(ch, s)
  <2>1. added[ch] \in Seq(Setups) /\ IsInjective(added[ch])
    OBVIOUS
  <2>2. \A s : Contains(added[ch], s) => s \in Setups
    BY <2>1, ContainsHas
  <2>. QED
    BY <1>1, <2>1, <2>2 DEF AddedKept
<1>3. ASSUME NEW ch \in Channels
      PROVE  /\ setups'[ch] \in Seq(Setups) /\ waiting'[ch] \in Seq(Setups)
             /\ channel[ch] # "opening" => setups'[ch] = setups[ch] \o added[ch]
             /\ setups[ch] # <<>> => setups'[ch] # <<>> /\ setups'[ch][1] = setups[ch][1]
             /\ IsInjective(setups'[ch] \o waiting'[ch])
             /\ \A s : Contains(setups'[ch] \o waiting'[ch], s)
                       <=> Contains(Kept(ch), s) \/ Contains(added[ch], s)
  BY <1>1, <1>2, AddedOnce
<1>4. ASSUME NEW ch \in Channels
      PROVE  /\ rpcs'[ch] \in Seq(Request) /\ position'[ch] \in [Setups -> Nat]
             /\ ChannelOK(ch)'
             /\ \A c \in Consumers :
                  (channel[ch] = "open" /\ position'[ch][c] > 0) \/ Contains(waiting'[ch], c) =>
                    \/ channel[ch] = "open" /\ position[ch][c] > 0
                    \/ Contains(waiting[ch], c)
                    \/ channel[ch] # "closed" /\ Contains(added[ch], c)
  BY <1>1, <1>2, AddedRuns
<1>5. /\ setups' \in [Channels -> Seq(Setups)] /\ waiting' \in [Channels -> Seq(Setups)]
      /\ rpcs' \in [Channels -> Seq(Request)] /\ position' \in [Channels -> [Setups -> Nat]]
  <2>1. /\ setups' = [ch \in Channels |-> setups'[ch]]
        /\ waiting' = [ch \in Channels |-> waiting'[ch]]
        /\ rpcs' = [ch \in Channels |-> rpcs'[ch]]
        /\ position' = [ch \in Channels |-> position'[ch]]
    BY DEF AddSetups
  <2>. QED
    BY <1>3, <1>4, <2>1
<1>6. ASSUME NEW ch \in Channels
      PROVE  /\ IsInjective(Kept(ch)')
             /\ \A s \in Setups : Contains(Kept(ch)', s) <=> Added(ch, s) \/ Contains(added[ch], s)
  BY <1>2, <1>3 DEF Kept
<1>7. ASSUME NEW ch \in Channels, NEW c \in ConsumersOf(ch),
             (channel[ch] = "open" /\ position'[ch][c] > 0) \/ Contains(waiting'[ch], c)
      PROVE  \/ <<ch, c>> \in awaited
             \/ channel[ch] # "closed" /\ Contains(added[ch], c)
  <2>1. c \in Consumers
    BY DEF ConsumersOf
  <2>. QED
    BY <1>1, <1>4, <1>7, <2>1 DEF StartWaits
<1>. QED
  BY <1>3, <1>4, <1>5, <1>6, <1>7

----------------------------------------------------------------------------
(* Each action preserves the invariant.                                    *)

LEMMA BootKeeps ==
  ASSUME IInv, Boot
  PROVE  IInv'
<1>. DEFINE k == stage + 1
            added == Stages[k]
<1>1. /\ TypeOK /\ AddedKept /\ BaseFirst /\ BindingsAfterBase /\ DisabledSilent
  BY InvParts
<1>2. /\ stage \in Nat /\ k \in 1..Started /\ stage' = k /\ k \in Nat /\ stage < k
      /\ bound' = bound /\ awaited = {} /\ bound \subseteq Bindings
      /\ AddSetups(added) /\ UNCHANGED <<channel, prefetch, subscribed>>
  <2>1. Started \in Nat /\ stage \in 0..Started
    BY <1>1, GroupsOf DEF TypeOK, Started
  <2>. QED
    BY <1>1, <2>1 DEF Boot, TypeOK
<1>3. ASSUME NEW ch \in Channels
      PROVE  /\ added[ch] \in Seq(Setups) /\ IsInjective(added[ch])
             /\ k < BaseStage(ch) => added[ch] = <<>>
             /\ k = BaseStage(ch) => added[ch] = <<"base">>
             /\ \A s : Contains(added[ch], s) <=>
                  \/ s = "base" /\ BaseStage(ch) = k
                  \/ /\ s \in ConsumersOf(ch)
                     /\ k - 3 \in DOMAIN Groups /\ s \in Range(Groups[k - 3])
  BY <1>2, StagesOf
<1>. HIDE DEF added
<1>4. "base" \notin Consumers \cup Bindings /\ Consumers \cap Bindings = {}
  BY SetupAssumption
<1>5. ASSUME NEW ch \in Channels, NEW s
      PROVE  /\ Contains(added[ch], s) => ~ Added(ch, s)
             /\ Added(ch, s)' <=> Added(ch, s) \/ Contains(added[ch], s)
  <2>1. ConsumersOf(ch) \subseteq Consumers
    BY DEF ConsumersOf
  <2>2. /\ DOMAIN Groups \subseteq Nat
        /\ \A m, n \in DOMAIN Groups : \A x \in Range(Groups[n]) : x \in Range(Groups[m]) => m = n
    BY GroupsOf
  <2>3. BaseStage(ch) \in Nat
    BY DEF BaseStage
  <2>4. CASE s = "base"
    BY <1>2, <1>3, <1>4, <2>1, <2>3, <2>4 DEF Added
  <2>5. CASE s \in ConsumersOf(ch)
    <3>1. s # "base" /\ s \notin bound
      BY <1>2, <1>4, <2>1, <2>5
    <3>2. /\ Contains(added[ch], s) <=> k - 3 \in DOMAIN Groups /\ s \in Range(Groups[k - 3])
          /\ Added(ch, s) <=> \E n \in DOMAIN Groups : n + 3 <= stage /\ s \in Range(Groups[n])
          /\ Added(ch, s)' <=> \E n \in DOMAIN Groups : n + 3 <= k /\ s \in Range(Groups[n])
      BY <1>2, <1>3, <2>5, <3>1 DEF Added
    <3>3. \A n \in DOMAIN Groups : /\ n + 3 <= k <=> n + 3 <= stage \/ n = k - 3
                                   /\ n = k - 3 => ~ (n + 3 <= stage)
      BY <1>2, <2>2
    <3>. QED
      BY <2>2, <3>2, <3>3
  <2>6. CASE s # "base" /\ s \notin ConsumersOf(ch)
    BY <1>2, <1>3, <2>6 DEF Added
  <2>. QED
    BY <2>4, <2>5, <2>6
<1>6. /\ setups' \in [Channels -> Seq(Setups)] /\ waiting' \in [Channels -> Seq(Setups)]
      /\ rpcs' \in [Channels -> Seq(Request)] /\ position' \in [Channels -> [Setups -> Nat]]
      /\ \A ch \in Channels :
           /\ ChannelOK(ch)'
           /\ IsInjective(Kept(ch)')
           /\ \A s \in Setups : Contains(Kept(ch)', s) <=> Added(ch, s) \/ Contains(added[ch], s)
           /\ setups[ch] # <<>> => setups'[ch] # <<>> /\ setups'[ch][1] = setups[ch][1]
           /\ channel[ch] = "closed" => setups'[ch] = setups[ch] \o added[ch]
           /\ \A c \in ConsumersOf(ch) :
                (channel[ch] = "open" /\ position'[ch][c] > 0) \/ Contains(waiting'[ch], c) =>
                  \/ <<ch, c>> \in awaited
                  \/ channel[ch] # "closed" /\ Contains(added[ch], c)
  BY <1>2, <1>3, <1>5, Adding
<1>7. TypeOK'
  <2>1. awaited' \subseteq Channels \X Setups
    BY DEF Boot
  <2>. QED
    BY <1>1, <1>2, <1>6, <2>1 DEF Boot, TypeOK
<1>8. AddedKept'
  BY <1>5, <1>6 DEF AddedKept
<1>9. BaseFirst'
  <2>1. SUFFICES ASSUME NEW ch \in Channels
                 PROVE  IF BaseStage(ch) <= k THEN setups'[ch] # <<>> /\ setups'[ch][1] = "base"
                        ELSE setups'[ch] = <<>> /\ channel[ch] = "closed"
    BY <1>2 DEF BaseFirst
  <2>2. IF BaseStage(ch) <= stage THEN setups[ch] # <<>> /\ setups[ch][1] = "base"
        ELSE setups[ch] = <<>> /\ channel[ch] = "closed"
    BY <1>1 DEF BaseFirst
  <2>3. BaseStage(ch) \in Nat
    BY DEF BaseStage
  <2>4. CASE BaseStage(ch) <= stage
    <3>1. setups'[ch] # <<>> /\ setups'[ch][1] = "base"
      <4>1. setups[ch] # <<>> /\ setups[ch][1] = "base"
        BY <2>2, <2>4
      <4>2. setups[ch] # <<>> => setups'[ch] # <<>> /\ setups'[ch][1] = setups[ch][1]
        BY <1>6
      <4>. QED
        BY <4>1, <4>2
    <3>2. BaseStage(ch) <= k
      BY <1>2, <2>3, <2>4
    <3>. QED
      BY <3>1, <3>2
  <2>5. CASE BaseStage(ch) > stage
    <3>1. setups'[ch] = <<>> \o added[ch]
      <4>1. setups[ch] = <<>> /\ channel[ch] = "closed"
        BY <1>2, <2>2, <2>3, <2>5
      <4>2. channel[ch] = "closed" => setups'[ch] = setups[ch] \o added[ch]
        BY <1>6
      <4>. QED
        BY <4>1, <4>2
    <3>2. setups'[ch] = added[ch]
      BY <1>3, <3>1, ConcatEmptySeq
    <3>3. CASE k = BaseStage(ch)
      <4>1. <<"base">> # <<>> /\ <<"base">>[1] = "base"
        BY EmptySeq
      <4>2. added[ch] = <<"base">>
        BY <1>3, <3>3
      <4>3. BaseStage(ch) <= k
        BY <1>2, <3>3
      <4>. QED
        BY <3>2, <4>1, <4>2, <4>3
    <3>4. CASE k # BaseStage(ch)
      BY <1>2, <1>3, <2>2, <2>3, <2>5, <3>2, <3>4
    <3>. QED
      BY <3>3, <3>4
  <2>. QED
    BY <1>2, <2>3, <2>4, <2>5
<1>10. BindingsAfterBase' /\ DisabledSilent'
  BY <1>1, <1>2 DEF BindingsAfterBase, DisabledSilent
<1>11. StartWaits'
  <2>1. SUFFICES ASSUME NEW ch \in Channels, NEW c \in ConsumersOf(ch),
                        (channel[ch] = "open" /\ position'[ch][c] > 0) \/ Contains(waiting'[ch], c)
                 PROVE  <<ch, c>> \in awaited'
    BY <1>2 DEF StartWaits
  <2>2. channel[ch] # "closed" /\ Contains(added[ch], c)
    BY <1>2, <1>6, <2>1
  <2>3. c \in Range(added[ch]) /\ c \in Setups
    BY <1>3, <2>2, ContainsHas
  <2>. QED
    BY <2>2, <2>3 DEF Boot, added
<1>12. EachChannel'
  BY <1>6, <1>7, ChannelByChannel
<1>. QED
  BY <1>7, <1>8, <1>9, <1>10, <1>11, <1>12 DEF IInv, EachChannel

LEMMA BindingKeeps ==
  ASSUME IInv, NEW b \in Bindings, Binding(b)
  PROVE  IInv'
<1>. DEFINE added == [Nothing EXCEPT ![Default] = <<b>>]
<1>1. /\ TypeOK /\ AddedKept /\ BaseFirst /\ BindingsAfterBase /\ DisabledSilent
  BY InvParts
<1>2. /\ stage \in Nat /\ stage >= 3 /\ stage' = stage /\ awaited' = awaited
      /\ b \notin bound /\ bound' = bound \cup {b}
      /\ AddSetups(added) /\ UNCHANGED <<channel, prefetch, subscribed>>
  BY <1>1 DEF Binding, TypeOK
<1>3. "base" \notin Consumers \cup Bindings /\ Consumers \cap Bindings = {}
  BY SetupAssumption
<1>4. ASSUME NEW ch \in Channels
      PROVE  /\ added[ch] \in Seq(Setups) /\ IsInjective(added[ch])
             /\ \A s : Contains(added[ch], s) <=> s = b /\ ch = Default
  <2>1. added[ch] = IF ch = Default THEN <<b>> ELSE <<>>
    BY WrappersMade DEF Nothing
  <2>2. b \in Setups
    BY DEF Setups
  <2>. HIDE DEF added
  <2>3. CASE ch = Default
    <3>1. /\ <<b>> \in Seq(Setups) /\ IsInjective(<<b>>)
          /\ \A s : Contains(<<b>>, s) <=> s = b
      BY <2>2, SingleList
    <3>. QED
      BY <2>1, <2>3, <3>1
  <2>4. CASE ch # Default
    BY <2>1, <2>4, EmptyList
  <2>. QED
    BY <2>3, <2>4
<1>. HIDE DEF added
<1>5. ASSUME NEW ch \in Channels, NEW s
      PROVE  /\ Contains(added[ch], s) => ~ Added(ch, s)
             /\ Added(ch, s)' <=> Added(ch, s) \/ Contains(added[ch], s)
  <2>1. ConsumersOf(ch) \subseteq Consumers
    BY DEF ConsumersOf
  <2>2. Contains(added[ch], s) <=> s = b /\ ch = Default
    BY <1>4
  <2>3. Added(ch, s)' <=> Added(ch, s) \/ (s = b /\ ch = Default)
    <3>1. s \in bound' <=> s \in bound \/ s = b
      BY <1>2
    <3>2. stage' = stage
      BY <1>2
    <3>. QED
      BY <3>1, <3>2 DEF Added
  <2>4. s = b => ~ Added(ch, s)
    BY <1>2, <1>3, <2>1 DEF Added
  <2>. QED
    BY <2>2, <2>3, <2>4
<1>6. /\ setups' \in [Channels -> Seq(Setups)] /\ waiting' \in [Channels -> Seq(Setups)]
      /\ rpcs' \in [Channels -> Seq(Request)] /\ position' \in [Channels -> [Setups -> Nat]]
      /\ \A ch \in Channels :
           /\ ChannelOK(ch)'
           /\ IsInjective(Kept(ch)')
           /\ \A s \in Setups : Contains(Kept(ch)', s) <=> Added(ch, s) \/ Contains(added[ch], s)
           /\ setups[ch] # <<>> => setups'[ch] # <<>> /\ setups'[ch][1] = setups[ch][1]
           /\ \A c \in ConsumersOf(ch) :
                (channel[ch] = "open" /\ position'[ch][c] > 0) \/ Contains(waiting'[ch], c) =>
                  \/ <<ch, c>> \in awaited
                  \/ channel[ch] # "closed" /\ Contains(added[ch], c)
  BY <1>2, <1>4, <1>5, Adding
<1>7. TypeOK'
  BY <1>1, <1>6 DEF Binding, TypeOK
<1>8. AddedKept'
  BY <1>5, <1>6 DEF AddedKept
<1>9. BaseFirst'
  <2>1. ASSUME NEW ch \in Channels
        PROVE  BaseStage(ch) <= stage
    BY <1>2 DEF BaseStage
  <2>2. \A ch \in Channels : setups'[ch] # <<>> /\ setups'[ch][1] = "base"
    BY <1>1, <1>6, <2>1 DEF BaseFirst
  <2>. QED
    BY <1>2, <2>1, <2>2 DEF BaseFirst
<1>10. BindingsAfterBase' /\ DisabledSilent'
  BY <1>1, <1>2 DEF BindingsAfterBase, DisabledSilent
<1>11. StartWaits'
  <2>1. SUFFICES ASSUME NEW ch \in Channels, NEW c \in ConsumersOf(ch),
                        (channel[ch] = "open" /\ position'[ch][c] > 0) \/ Contains(waiting'[ch], c)
                 PROVE  <<ch, c>> \in awaited
    BY <1>2 DEF StartWaits
  <2>2. c \in Consumers
    BY DEF ConsumersOf
  <2>3. ~ Contains(added[ch], c)
    BY <1>3, <1>4, <2>2
  <2>. QED
    BY <1>6, <2>1, <2>3
<1>12. EachChannel'
  BY <1>6, <1>7, ChannelByChannel
<1>. QED
  BY <1>7, <1>8, <1>9, <1>10, <1>11, <1>12 DEF IInv, EachChannel

\* Channels that are gone keep nothing but their setups.
LEMMA GoneOK ==
  ASSUME TypeOK, ChannelsGone
  PROVE  /\ connected' \in BOOLEAN /\ channel' \in [Channels -> {"closed", "opening", "open"}]
         /\ waiting' \in [Channels -> Seq(Setups)] /\ rpcs' \in [Channels -> Seq(Request)]
         /\ position' \in [Channels -> [Setups -> Nat]] /\ prefetch' \in [Channels -> Nat]
         /\ subscribed' \in [Consumers -> Nat]
         /\ \A ch \in Channels : ChannelOK(ch)' /\ channel'[ch] = "closed" /\ waiting'[ch] = <<>>
         /\ DisabledSilent' /\ StartWaits'
<1>1. /\ \A S : <<>> \in Seq(S)
      /\ \A T : AtMostOne(<<>>, T)
      /\ \A x : ~ Contains(<<>>, x)
  BY EmptyList
<1>2. /\ connected' \in BOOLEAN /\ channel' \in [Channels -> {"closed", "opening", "open"}]
      /\ waiting' \in [Channels -> Seq(Setups)] /\ rpcs' \in [Channels -> Seq(Request)]
      /\ position' \in [Channels -> [Setups -> Nat]] /\ prefetch' \in [Channels -> Nat]
      /\ subscribed' \in [Consumers -> Nat]
  BY <1>1 DEF ChannelsGone, Nothing, Idle, Unset
<1>3. ASSUME NEW ch \in Channels
      PROVE  /\ channel'[ch] = "closed" /\ waiting'[ch] = <<>> /\ rpcs'[ch] = <<>>
             /\ \A s \in Setups : position'[ch][s] = 0
  BY DEF ChannelsGone, Nothing, Idle
<1>4. \A c \in Consumers : subscribed'[c] = 0
  BY DEF ChannelsGone
<1>5. ASSUME NEW ch \in Channels
      PROVE  ChannelOK(ch)'
  <2>1. WaitedFor(ch, rpcs[ch], position[ch])'
    BY <1>1, <1>3 DEF WaitedFor
  <2>2. Registered(ch)'
    BY <1>3, <1>4 DEF Registered, ConsumersOf
  <2>. QED
    BY <1>3, <2>1, <2>2 DEF ChannelOK
<1>6. DisabledSilent' /\ StartWaits'
  BY <1>1, <1>3, <1>4 DEF DisabledSilent, StartWaits, ConsumersOf
<1>. QED
  BY <1>2, <1>3, <1>5, <1>6

LEMMA CrashKeeps ==
  ASSUME IInv, Crash, known' \subseteq Range(exchanges), faults' \in Nat
  PROVE  IInv'
<1>1. TypeOK
  BY InvParts
<1>2. /\ up' = FALSE /\ stage' = 0 /\ awaited' = {} /\ bound' = {} /\ ChannelsGone
      /\ \A ch \in Channels : setups'[ch] = <<>>
  BY DEF Crash, Nothing
<1>3. /\ \A S : <<>> \in Seq(S)
      /\ \A x : ~ Contains(<<>>, x)
      /\ IsInjective(<<>>) /\ <<>> \o <<>> = <<>>
  BY EmptyList, ConcatEmptySeq
<1>4. /\ connected' \in BOOLEAN /\ channel' \in [Channels -> {"closed", "opening", "open"}]
      /\ waiting' \in [Channels -> Seq(Setups)] /\ rpcs' \in [Channels -> Seq(Request)]
      /\ position' \in [Channels -> [Setups -> Nat]] /\ prefetch' \in [Channels -> Nat]
      /\ subscribed' \in [Consumers -> Nat]
      /\ \A ch \in Channels : ChannelOK(ch)' /\ channel'[ch] = "closed" /\ waiting'[ch] = <<>>
      /\ DisabledSilent' /\ StartWaits'
  BY <1>1, <1>2, GoneOK
<1>5. TypeOK'
  <2>1. setups' \in [Channels -> Seq(Setups)] /\ 0 \in 0..Started
    BY <1>3, GroupsOf DEF Crash, Nothing, Started
  <2>. QED
    BY <1>2, <1>4, <2>1 DEF TypeOK
<1>6. AddedKept'
  <2>1. ASSUME NEW ch \in Channels, NEW s
        PROVE  ~ Added(ch, s)'
    <3>1. DOMAIN Groups \subseteq Nat
      BY GroupsOf
    <3>. QED
      BY <1>2, <3>1 DEF Added, BaseStage
  <2>. QED
    BY <1>2, <1>3, <1>4, <2>1 DEF AddedKept, Kept
<1>7. BaseFirst' /\ BindingsAfterBase'
  BY <1>2, <1>4 DEF BaseFirst, BindingsAfterBase, BaseStage
<1>8. EachChannel'
  BY <1>4, <1>5, ChannelByChannel
<1>. QED
  BY <1>4, <1>5, <1>6, <1>7, <1>8 DEF IInv, EachChannel

LEMMA LossKeeps ==
  ASSUME IInv, ConnectionLost
  PROVE  IInv'
<1>1. /\ TypeOK /\ AddedKept /\ BaseFirst /\ BindingsAfterBase /\ ClosedIdle
  BY InvParts
<1>2. known' \subseteq Range(exchanges) /\ faults' \in Nat
  BY <1>1 DEF ConnectionLost, Disturbance, TypeOK
<1>3. CASE Crash
  BY <1>2, <1>3, CrashKeeps
<1>4. CASE /\ ChannelsGone
           /\ setups' = [ch \in Channels |-> setups[ch] \o waiting[ch]]
           /\ awaited' = {}
           /\ UNCHANGED <<up, stage, bound>>
  <2>1. /\ connected' \in BOOLEAN /\ channel' \in [Channels -> {"closed", "opening", "open"}]
        /\ waiting' \in [Channels -> Seq(Setups)] /\ rpcs' \in [Channels -> Seq(Request)]
        /\ position' \in [Channels -> [Setups -> Nat]] /\ prefetch' \in [Channels -> Nat]
        /\ subscribed' \in [Consumers -> Nat]
        /\ \A ch \in Channels : ChannelOK(ch)' /\ channel'[ch] = "closed" /\ waiting'[ch] = <<>>
        /\ DisabledSilent' /\ StartWaits'
    BY <1>1, <1>4, GoneOK
  <2>2. ASSUME NEW ch \in Channels
        PROVE  /\ setups'[ch] \in Seq(Setups) /\ Kept(ch)' = Kept(ch)
               /\ setups[ch] # <<>> => setups'[ch] # <<>> /\ setups'[ch][1] = setups[ch][1]
               /\ waiting[ch] = <<>> => setups'[ch] = setups[ch]
    <3>1. setups[ch] \in Seq(Setups) /\ waiting[ch] \in Seq(Setups)
      BY <1>1 DEF TypeOK
    <3>2. setups'[ch] = setups[ch] \o waiting[ch] /\ waiting'[ch] = <<>>
      BY <1>4, <2>1
    <3>3. PICK u : u = setups[ch] \o waiting[ch]
      OBVIOUS
    <3>4. /\ u \in Seq(Setups)
          /\ setups[ch] # <<>> => u # <<>> /\ u[1] = setups[ch][1]
      BY <3>1, <3>3, JoinedOnce
    <3>5. u \o <<>> = u /\ setups[ch] \o <<>> = setups[ch]
      BY <3>1, <3>4, ConcatEmptySeq
    <3>. QED
      BY <3>2, <3>3, <3>4, <3>5 DEF Kept
  <2>3. TypeOK'
    <3>1. setups' \in [Channels -> Seq(Setups)]
      BY <1>4, <2>2
    <3>. QED
      BY <1>1, <1>2, <1>4, <2>1, <3>1 DEF TypeOK
  <2>4. AddedKept'
    BY <1>1, <1>4, <2>2 DEF AddedKept, Added
  <2>5. BaseFirst'
    <3>1. SUFFICES ASSUME NEW ch \in Channels
                   PROVE  IF BaseStage(ch) <= stage THEN setups'[ch] # <<>> /\ setups'[ch][1] = "base"
                          ELSE setups'[ch] = <<>>
      BY <1>4, <2>1 DEF BaseFirst
    <3>2. IF BaseStage(ch) <= stage THEN setups[ch] # <<>> /\ setups[ch][1] = "base"
          ELSE setups[ch] = <<>> /\ waiting[ch] = <<>>
      BY <1>1 DEF BaseFirst, ClosedIdle
    <3>. QED
      BY <2>2, <3>2
  <2>6. BindingsAfterBase'
    BY <1>1, <1>4 DEF BindingsAfterBase
  <2>7. EachChannel'
    BY <2>1, <2>3, ChannelByChannel
  <2>. QED
    BY <2>1, <2>3, <2>4, <2>5, <2>6, <2>7 DEF IInv, EachChannel
<1>. QED
  BY <1>3, <1>4 DEF ConnectionLost

LEMMA OpenKeeps ==
  ASSUME IInv, NEW ch \in Channels, OpenChannel(ch)
  PROVE  IInv'
<1>1. /\ TypeOK /\ AddedKept /\ BaseFirst /\ BindingsAfterBase /\ DisabledSilent /\ StartWaits
      /\ \A w \in Channels : ChannelOK(w)
  BY InvParts
<1>2. /\ channel[ch] = "closed" /\ setups[ch] # <<>>
      /\ channel' = [channel EXCEPT ![ch] = "opening"]
      /\ rpcs' = [rpcs EXCEPT ![ch] = FirstRequests(ch, setups[ch])]
      /\ position' = [position EXCEPT ![ch] = Begun(ch, setups[ch])]
      /\ UNCHANGED <<up, stage, awaited, connected, setups, waiting, prefetch, subscribed,
                     bound, known, faults>>
  BY DEF OpenChannel
<1>3. /\ channel \in [Channels -> {"closed", "opening", "open"}]
      /\ rpcs \in [Channels -> Seq(Request)] /\ position \in [Channels -> [Setups -> Nat]]
  BY <1>1 DEF TypeOK
<1>4. /\ channel'[ch] = "opening" /\ rpcs'[ch] = FirstRequests(ch, setups[ch])
      /\ position'[ch] = Begins(ch, setups[ch], position[ch])
  BY <1>2, <1>3 DEF Begun, Begins
<1>5. /\ setups[ch] \in Seq(Setups) /\ IsInjective(setups[ch])
  BY <1>1, KeptOnce
<1>6. /\ rpcs[ch] = <<>> /\ \A s \in Setups : position[ch][s] = 0
  BY <1>1, <1>2 DEF ChannelOK
<1>7. /\ position'[ch] \in [Setups -> Nat]
      /\ \A s \in Setups : ~ Contains(setups[ch], s) => position'[ch][s] = 0
      /\ \A c \in Consumers : Contains(setups[ch], c) => position'[ch][c] > 0
      /\ WaitedFor(ch, rpcs'[ch], position'[ch])
  <2>1. <<>> \in Seq(Request) /\ WaitedFor(ch, <<>>, position[ch])
    BY EmptyList DEF WaitedFor
  <2>2. \A s : Contains(setups[ch], s) => position[ch][s] = 0
    BY <1>5, <1>6, ContainsHas
  <2>3. PICK pos, ss : pos = position[ch] /\ ss = setups[ch]
    OBVIOUS
  <2>4. /\ pos \in [Setups -> Nat] /\ ss \in Seq(Setups) /\ IsInjective(ss)
        /\ WaitedFor(ch, <<>>, pos) /\ \A s : Contains(ss, s) => pos[s] = 0
    BY <1>3, <1>5, <2>1, <2>2, <2>3
  <2>5. /\ Begins(ch, ss, pos) \in [Setups -> Nat]
        /\ \A s \in Setups : ~ Contains(ss, s) => Begins(ch, ss, pos)[s] = pos[s]
        /\ \A c \in Consumers : Contains(ss, c) => Begins(ch, ss, pos)[c] > 0
        /\ WaitedFor(ch, <<>> \o FirstRequests(ch, ss), Begins(ch, ss, pos))
    BY <2>1, <2>4, Starting
  <2>6. <<>> \o FirstRequests(ch, ss) = FirstRequests(ch, ss)
    <3>1. FirstRequests(ch, ss) \in Seq(Request)
      BY <2>4, FirstOnes
    <3>. QED
      BY <3>1, ConcatEmptySeq
  <2>. QED
    BY <1>4, <1>6, <2>3, <2>5, <2>6
<1>8. rpcs'[ch] \in Seq(Request) /\ rpcs'[ch] # <<>> /\ rpcs'[ch][1].op = "prefetch"
  <2>1. setups[ch][1] = "base"
    BY <1>1, <1>2 DEF BaseFirst
  <2>. QED
    BY <1>2, <1>4, <1>5, <2>1, FirstOnes
<1>9. ChannelOK(ch)'
  <2>1. Registered(ch)'
    <3>1. SUFFICES ASSUME NEW c \in ConsumersOf(ch)
                   PROVE  subscribed[c] = 0 /\ (Contains(setups[ch], c) => position'[ch][c] > 0)
      BY <1>2, <1>4 DEF Registered
    <3>2. c \in Consumers
      BY DEF ConsumersOf
    <3>. QED
      BY <1>1, <1>2, <1>7, <3>2 DEF ChannelOK, Registered
  <2>2. \A s \in Setups : position'[ch][s] > 0 => Contains(setups[ch], s)
    BY <1>7
  <2>3. WaitedFor(ch, rpcs[ch], position[ch])'
    BY <1>7 DEF WaitedFor
  <2>. QED
    BY <1>2, <1>4, <1>8, <2>1, <2>2, <2>3 DEF ChannelOK
<1>10. ASSUME NEW w \in Channels
       PROVE  ChannelOK(w)'
  <2>1. CASE w = ch
    BY <1>9, <2>1
  <2>2. CASE w # ch
    <3>1. /\ channel'[w] = channel[w] /\ setups'[w] = setups[w] /\ waiting'[w] = waiting[w]
          /\ rpcs'[w] = rpcs[w] /\ position'[w] = position[w] /\ prefetch'[w] = prefetch[w]
          /\ subscribed' = subscribed
      BY <1>2, <1>3, <2>2
    <3>. QED
      BY <1>1, <3>1, SameChannel
  <2>. QED
    BY <2>1, <2>2
<1>11. TypeOK'
  <2>1. /\ channel' \in [Channels -> {"closed", "opening", "open"}]
        /\ rpcs' \in [Channels -> Seq(Request)] /\ position' \in [Channels -> [Setups -> Nat]]
    BY <1>2, <1>3, <1>4, <1>7, <1>8
  <2>. QED
    BY <1>1, <1>2, <2>1 DEF TypeOK
<1>12. AddedKept' /\ BindingsAfterBase' /\ DisabledSilent'
  BY <1>1, <1>2 DEF AddedKept, Kept, Added, BindingsAfterBase, DisabledSilent
<1>13. BaseFirst'
  BY <1>1, <1>2, <1>3 DEF BaseFirst
<1>14. StartWaits'
  BY <1>1, <1>2, <1>3 DEF StartWaits
<1>15. EachChannel'
  BY <1>10, <1>11, ChannelByChannel
<1>. QED
  BY <1>11, <1>12, <1>13, <1>14, <1>15 DEF IInv, EachChannel

LEMMA ReadyKeeps ==
  ASSUME IInv, NEW ch \in Channels, ChannelReady(ch)
  PROVE  IInv'
<1>1. /\ TypeOK /\ AddedKept /\ BaseFirst /\ BindingsAfterBase /\ DisabledSilent /\ StartWaits
      /\ \A w \in Channels : ChannelOK(w)
  BY InvParts
<1>2. /\ channel[ch] = "opening" /\ \A s \in Setups : position[ch][s] = 0
      /\ channel' = [channel EXCEPT ![ch] = "open"]
      /\ setups' = [setups EXCEPT ![ch] = setups[ch] \o waiting[ch]]
      /\ rpcs' = [rpcs EXCEPT ![ch] = rpcs[ch] \o FirstRequests(ch, waiting[ch])]
      /\ position' = [position EXCEPT ![ch] = Begun(ch, waiting[ch])]
      /\ waiting' = [waiting EXCEPT ![ch] = <<>>]
      /\ UNCHANGED <<up, stage, awaited, connected, prefetch, subscribed, bound, known, faults>>
  BY DEF ChannelReady
<1>3. /\ channel \in [Channels -> {"closed", "opening", "open"}]
      /\ setups \in [Channels -> Seq(Setups)] /\ waiting \in [Channels -> Seq(Setups)]
      /\ rpcs \in [Channels -> Seq(Request)] /\ position \in [Channels -> [Setups -> Nat]]
  BY <1>1 DEF TypeOK
<1>4. /\ channel'[ch] = "open" /\ rpcs'[ch] = rpcs[ch] \o FirstRequests(ch, waiting[ch])
      /\ position'[ch] = Begins(ch, waiting[ch], position[ch])
      /\ setups'[ch] = setups[ch] \o waiting[ch] /\ waiting'[ch] = <<>>
  BY <1>2, <1>3 DEF Begun, Begins
<1>5. /\ setups[ch] \in Seq(Setups) /\ waiting[ch] \in Seq(Setups) /\ IsInjective(waiting[ch])
      /\ \A s : ~ (Contains(setups[ch], s) /\ Contains(waiting[ch], s))
  BY <1>1, KeptOnce
<1>6. /\ setups'[ch] \in Seq(Setups) /\ Kept(ch)' = Kept(ch)
      /\ \A s : Contains(setups'[ch], s) <=> Contains(setups[ch], s) \/ Contains(waiting[ch], s)
      /\ setups[ch] # <<>> => setups'[ch] # <<>> /\ setups'[ch][1] = setups[ch][1]
  <2>1. PICK u : u = setups[ch] \o waiting[ch]
    OBVIOUS
  <2>2. /\ u \in Seq(Setups)
        /\ \A s : Contains(u, s) <=> Contains(setups[ch], s) \/ Contains(waiting[ch], s)
        /\ setups[ch] # <<>> => u # <<>> /\ u[1] = setups[ch][1]
    BY <1>5, <2>1, JoinedOnce
  <2>3. u \o <<>> = u
    BY <2>2, ConcatEmptySeq
  <2>. QED
    BY <1>4, <2>1, <2>2, <2>3 DEF Kept
<1>7. /\ position'[ch] \in [Setups -> Nat] /\ rpcs'[ch] \in Seq(Request)
      /\ \A s \in Setups : ~ Contains(waiting[ch], s) => position'[ch][s] = 0
      /\ \A c \in Consumers : Contains(waiting[ch], c) => position'[ch][c] > 0
      /\ rpcs[ch] # <<>> => rpcs'[ch] # <<>> /\ rpcs'[ch][1] = rpcs[ch][1]
      /\ WaitedFor(ch, rpcs'[ch], position'[ch])
  <2>1. WaitedFor(ch, rpcs[ch], position[ch])
    BY <1>1 DEF ChannelOK
  <2>2. \A s : Contains(waiting[ch], s) => position[ch][s] = 0
    BY <1>2, <1>5, ContainsHas
  <2>3. PICK rs, pos, ss : rs = rpcs[ch] /\ pos = position[ch] /\ ss = waiting[ch]
    OBVIOUS
  <2>4. /\ rs \in Seq(Request) /\ pos \in [Setups -> Nat] /\ ss \in Seq(Setups) /\ IsInjective(ss)
        /\ WaitedFor(ch, rs, pos) /\ \A s : Contains(ss, s) => pos[s] = 0
    BY <1>3, <1>5, <2>1, <2>2, <2>3
  <2>5. /\ Begins(ch, ss, pos) \in [Setups -> Nat]
        /\ \A s \in Setups : ~ Contains(ss, s) => Begins(ch, ss, pos)[s] = pos[s]
        /\ \A c \in Consumers : Contains(ss, c) => Begins(ch, ss, pos)[c] > 0
        /\ rs \o FirstRequests(ch, ss) \in Seq(Request)
        /\ rs # <<>> => /\ rs \o FirstRequests(ch, ss) # <<>>
                        /\ (rs \o FirstRequests(ch, ss))[1] = rs[1]
        /\ WaitedFor(ch, rs \o FirstRequests(ch, ss), Begins(ch, ss, pos))
    BY <2>4, Starting
  <2>. QED
    BY <1>2, <1>4, <2>3, <2>5
<1>8. ChannelOK(ch)'
  <2>1. Registered(ch)'
    <3>1. SUFFICES ASSUME NEW c \in ConsumersOf(ch)
                   PROVE  IF Contains(setups'[ch], c)
                          THEN /\ subscribed[c] = IF position'[ch][c] > 0 THEN 0 ELSE 1
                               /\ subscribed[c] > 0 => prefetch[ch] = Wrappers[ch].prefetchCount
                          ELSE subscribed[c] = 0
      BY <1>2, <1>4 DEF Registered
    <3>2. c \in Consumers /\ c \in Setups
      BY DEF ConsumersOf, Setups
    <3>3. IF Contains(setups[ch], c)
          THEN subscribed[c] = 1 /\ prefetch[ch] = Wrappers[ch].prefetchCount
          ELSE subscribed[c] = 0
      BY <1>1, <1>2, <3>2 DEF ChannelOK, Registered
    <3>4. CASE Contains(waiting[ch], c)
      BY <1>5, <1>6, <1>7, <3>2, <3>3, <3>4
    <3>5. CASE ~ Contains(waiting[ch], c)
      BY <1>6, <1>7, <3>2, <3>3, <3>5
    <3>. QED
      BY <3>4, <3>5
  <2>2. \A s \in Setups : position'[ch][s] > 0 => Contains(setups'[ch], s)
    BY <1>6, <1>7
  <2>3. WaitedFor(ch, rpcs[ch], position[ch])'
    BY <1>7 DEF WaitedFor
  <2>4. \/ prefetch'[ch] = Wrappers[ch].prefetchCount
        \/ rpcs'[ch] # <<>> /\ rpcs'[ch][1].op = "prefetch"
    BY <1>1, <1>2, <1>7 DEF ChannelOK
  <2>. QED
    BY <1>4, <2>1, <2>2, <2>3, <2>4 DEF ChannelOK
<1>9. ASSUME NEW w \in Channels, w # ch
      PROVE  /\ channel'[w] = channel[w] /\ setups'[w] = setups[w] /\ waiting'[w] = waiting[w]
             /\ rpcs'[w] = rpcs[w] /\ position'[w] = position[w] /\ prefetch'[w] = prefetch[w]
             /\ subscribed' = subscribed
  BY <1>2, <1>3, <1>9
<1>10. \A w \in Channels : ChannelOK(w)'
  <2>1. \A w \in Channels : w # ch => ChannelOK(w)'
    BY <1>1, <1>9, SameChannel
  <2>. QED
    BY <1>8, <2>1
<1>11. TypeOK'
  <2>1. /\ channel' \in [Channels -> {"closed", "opening", "open"}]
        /\ setups' \in [Channels -> Seq(Setups)] /\ waiting' \in [Channels -> Seq(Setups)]
        /\ rpcs' \in [Channels -> Seq(Request)] /\ position' \in [Channels -> [Setups -> Nat]]
    BY <1>2, <1>3, <1>4, <1>6, <1>7, EmptyList
  <2>. QED
    BY <1>1, <1>2, <2>1 DEF TypeOK
<1>12. AddedKept'
  <2>1. \A w \in Channels : Kept(w)' = Kept(w)
    BY <1>6, <1>9 DEF Kept
  <2>. QED
    BY <1>1, <1>2, <2>1 DEF AddedKept, Added
<1>13. BaseFirst'
  <2>1. SUFFICES ASSUME NEW w \in Channels
                 PROVE  IF BaseStage(w) <= stage THEN setups'[w] # <<>> /\ setups'[w][1] = "base"
                        ELSE setups'[w] = <<>> /\ channel'[w] = "closed"
    BY <1>2 DEF BaseFirst
  <2>2. IF BaseStage(w) <= stage THEN setups[w] # <<>> /\ setups[w][1] = "base"
        ELSE setups[w] = <<>> /\ channel[w] = "closed"
    BY <1>1 DEF BaseFirst
  <2>3. CASE w = ch
    BY <1>2, <1>6, <2>2, <2>3
  <2>4. CASE w # ch
    BY <1>9, <2>2, <2>4
  <2>. QED
    BY <2>3, <2>4
<1>14. BindingsAfterBase' /\ DisabledSilent'
  BY <1>1, <1>2 DEF BindingsAfterBase, DisabledSilent
<1>15. StartWaits'
  <2>1. SUFFICES ASSUME NEW w \in Channels, NEW c \in ConsumersOf(w),
                        \/ channel'[w] = "open" /\ position'[w][c] > 0
                        \/ Contains(waiting'[w], c)
                 PROVE  <<w, c>> \in awaited
    BY <1>2 DEF StartWaits
  <2>2. c \in Consumers /\ c \in Setups
    BY DEF ConsumersOf, Setups
  <2>3. CASE w = ch
    <3>1. Contains(waiting[ch], c)
      BY <1>4, <1>7, <2>1, <2>2, <2>3, EmptyList
    <3>. QED
      BY <1>1, <2>3, <3>1 DEF StartWaits
  <2>4. CASE w # ch
    BY <1>1, <1>9, <2>1, <2>4 DEF StartWaits
  <2>. QED
    BY <2>3, <2>4
<1>16. EachChannel'
  BY <1>10, <1>11, ChannelByChannel
<1>. QED
  BY <1>11, <1>12, <1>13, <1>14, <1>15, <1>16 DEF IInv, EachChannel

LEMMA TailOf ==
  ASSUME NEW S, NEW rs \in Seq(S), rs # <<>>
  PROVE  /\ Tail(rs) \in Seq(S) /\ Head(rs) = rs[1] /\ Head(rs) \in S
         /\ Contains(rs, Head(rs))
         /\ \A q : Contains(Tail(rs), q) => Contains(rs, q)
         /\ \A T : AtMostOne(rs, T) => /\ AtMostOne(Tail(rs), T)
                                       /\ Head(rs) \in T => ~ Has(Tail(rs), T)
<1>1. PICK t : t = Tail(rs)
  OBVIOUS
<1>2. /\ t \in Seq(S) /\ Len(t) = Len(rs) - 1 /\ Len(rs) \in Nat /\ Len(rs) > 0
      /\ DOMAIN t = 1..Len(t) /\ DOMAIN rs = 1..Len(rs)
      /\ \A i \in 1..Len(t) : t[i] = rs[i + 1]
      /\ Head(rs) = rs[1] /\ rs[1] \in S
  <2>1. Len(rs) \in Nat /\ Len(rs) > 0 /\ DOMAIN rs = 1..Len(rs)
    BY EmptySeq, LenProperties
  <2>. QED
    BY <1>1, <2>1, HeadTailProperties, LenProperties, ElementOfSeq
<1>3. \A i \in DOMAIN t : i + 1 \in DOMAIN rs /\ rs[i + 1] = t[i] /\ i + 1 # 1 /\ i \in Nat
  BY <1>2
<1>4. 1 \in DOMAIN rs
  BY <1>2
<1>5. \A q : Contains(t, q) => Contains(rs, q)
  BY <1>2, <1>3 DEF Contains
<1>6. ASSUME NEW T, AtMostOne(rs, T)
      PROVE  AtMostOne(t, T) /\ (Head(rs) \in T => ~ Has(t, T))
  <2>1. \A i, k \in DOMAIN t : t[i] \in T /\ t[k] \in T => i = k
    <3>1. SUFFICES ASSUME NEW i \in DOMAIN t, NEW k \in DOMAIN t, t[i] \in T, t[k] \in T
                   PROVE  i = k
      OBVIOUS
    <3>2. i + 1 = k + 1
      BY <1>3, <1>6, <3>1 DEF AtMostOne
    <3>. QED
      BY <1>3, <3>2
  <2>2. ASSUME Head(rs) \in T, NEW i \in DOMAIN t, t[i] \in T
        PROVE  FALSE
    BY <1>2, <1>3, <1>4, <1>6, <2>2 DEF AtMostOne
  <2>. QED
    BY <2>1, <2>2 DEF AtMostOne, Has
<1>7. Contains(rs, Head(rs))
  BY <1>2, <1>4 DEF Contains
<1>. QED
  BY <1>1, <1>2, <1>5, <1>6, <1>7

\* A request that ends a step which is waited for.
LEMMA LastOfStep ==
  ASSUME NEW ch \in Channels, NEW s \in Setups, NEW p \in DOMAIN Program[ch][s],
         NEW q, q = Last(Program[ch][s][p])
  PROVE  /\ p \in Nat \ {0}
         /\ q.op = "prefetch" => q.arg = Wrappers[ch].prefetchCount
         /\ q.op = "consume" => s \in Consumers /\ Position(ch, s, p + 1) = 0
         /\ s \in Consumers /\ q.op # "consume" => Position(ch, s, p + 1) > 0
<1>1. /\ p \in Nat \ {0}
      /\ Len(Program[ch][s][p]) \in DOMAIN Program[ch][s][p]
      /\ \A k \in DOMAIN Program[ch][s][p] :
           LET r == Program[ch][s][p][k]
           IN /\ r.op = "prefetch" => r.arg = Wrappers[ch].prefetchCount
              /\ r.op = "consume" => s \in Consumers /\ p + 1 \notin DOMAIN Program[ch][s]
  BY StepsOf
<1>2. s \in Consumers =>
        p + 1 \in DOMAIN Program[ch][s] \/ Program[ch][s][p][Len(Program[ch][s][p])].op = "consume"
  BY StepsOf
<1>3. q = Program[ch][s][p][Len(Program[ch][s][p])]
  BY DEF Last
<1>4. /\ p + 1 \notin DOMAIN Program[ch][s] => Position(ch, s, p + 1) = 0
      /\ s \in Consumers /\ p + 1 \in DOMAIN Program[ch][s] => Position(ch, s, p + 1) > 0
  <2>1. s \in Consumers /\ p + 1 \in DOMAIN Program[ch][s] =>
          Position(ch, s, p + 1) = p + 1 /\ p + 1 > 0
    BY PositionOf
  <2>. QED
    BY <2>1 DEF Position
<1>. QED
  BY <1>1, <1>2, <1>3, <1>4

\* The requests of a step, when no other of its setup is waited for.
LEMMA NextStep ==
  ASSUME NEW ch \in Channels, NEW s \in Setups, NEW n,
         NEW t \in Seq(Request), NEW pos \in [Setups -> Nat],
         WaitedFor(ch, t, pos), ~ Has(t, Awaiting(s))
  PROVE  /\ t \o Requests(ch, s, n) \in Seq(Request)
         /\ WaitedFor(ch, t \o Requests(ch, s, n), [pos EXCEPT ![s] = Position(ch, s, n)])
<1>1. PICK R : R = Requests(ch, s, n)
  OBVIOUS
<1>2. PICK new : new = [pos EXCEPT ![s] = Position(ch, s, n)]
  OBVIOUS
<1>3. new[s] = Position(ch, s, n) /\ \A x \in Setups : x # s => new[x] = pos[x]
  BY <1>2
<1>4. /\ R \in Seq(Request)
      /\ \A r : Contains(R, r) => r.setup = s
      /\ \A r : Contains(R, r) /\ r.last =>
           n \in DOMAIN Program[ch][s] /\ Position(ch, s, n) = n /\ r = Last(Program[ch][s][n])
      /\ \A x : AtMostOne(R, Awaiting(x))
      /\ \A x : Has(R, Awaiting(x)) => x = s
  <2>1. LET Q == Requests(ch, s, n)
        IN /\ Q \in Seq(Request)
           /\ \A r : Contains(Q, r) => r.setup = s
           /\ \A r : Contains(Q, r) /\ r.last =>
                n \in DOMAIN Program[ch][s] /\ Position(ch, s, n) = n /\ r = Last(Program[ch][s][n])
           /\ \A x : AtMostOne(Q, Awaiting(x))
           /\ \A x : Has(Q, Awaiting(x)) => x = s
    BY RequestsOf
  <2>. QED
    BY <1>1, <2>1
<1>5. /\ t \o R \in Seq(Request)
      /\ \A r : Contains(t \o R, r) <=> Contains(t, r) \/ Contains(R, r)
      /\ \A T : AtMostOne(t \o R, T) <=> AtMostOne(t, T) /\ AtMostOne(R, T) /\ ~ (Has(t, T) /\ Has(R, T))
  BY <1>4, JoinedList
<1>6. ASSUME NEW r, Contains(t, r), r.last
      PROVE  /\ new[r.setup] \in DOMAIN Program[ch][r.setup]
             /\ r = Last(Program[ch][r.setup][new[r.setup]])
  <2>1. r \in Request /\ r.setup \in Setups
    <3>1. r \in Request
      BY <1>6, ContainsHas
    <3>. QED
      BY <3>1 DEF Request, Setups
  <2>2. r.setup # s
    <3>1. \A T : Has(t, T) <=> \E x \in T : Contains(t, x)
      BY ContainsHas
    <3>. QED
      BY <1>6, <2>1, <3>1 DEF Awaiting
  <2>3. new[r.setup] = pos[r.setup]
    BY <1>3, <2>1, <2>2
  <2>. QED
    BY <1>6, <2>3 DEF WaitedFor
<1>7. ASSUME NEW r, Contains(R, r), r.last
      PROVE  /\ new[r.setup] \in DOMAIN Program[ch][r.setup]
             /\ r = Last(Program[ch][r.setup][new[r.setup]])
  BY <1>3, <1>4, <1>7
<1>8. ASSUME NEW x
      PROVE  AtMostOne(t \o R, Awaiting(x))
  <2>1. AtMostOne(t, Awaiting(x))
    BY DEF WaitedFor
  <2>2. AtMostOne(R, Awaiting(x)) /\ ~ (Has(t, Awaiting(x)) /\ Has(R, Awaiting(x)))
    BY <1>4
  <2>. QED
    BY <1>5, <2>1, <2>2
<1>9. WaitedFor(ch, t \o R, new)
  BY <1>5, <1>6, <1>7, <1>8 DEF WaitedFor
<1>. QED
  BY <1>1, <1>2, <1>5, <1>9

\* The answer to a request that is waited for: the next step of the setup, or its end.
LEMMA Answered ==
  ASSUME NEW ch \in Channels, NEW rs \in Seq(Request), rs # <<>>,
         NEW pos \in [Setups -> Nat], WaitedFor(ch, rs, pos), Head(rs).last
  PROVE  LET q == Head(rs)
             s == q.setup
             n == pos[s] + 1
         IN /\ s \in Setups /\ pos[s] > 0
            /\ Tail(rs) \o Requests(ch, s, n) \in Seq(Request)
            /\ WaitedFor(ch, Tail(rs) \o Requests(ch, s, n), [pos EXCEPT ![s] = Position(ch, s, n)])
            /\ q.op = "prefetch" => q.arg = Wrappers[ch].prefetchCount
            /\ q.op = "consume" => s \in Consumers /\ Position(ch, s, n) = 0
            /\ s \in Consumers /\ q.op # "consume" => Position(ch, s, n) > 0
<1>1. PICK q : q = Head(rs)
  OBVIOUS
<1>2. PICK t : t = Tail(rs)
  OBVIOUS
<1>3. /\ t \in Seq(Request) /\ q \in Request /\ Contains(rs, q)
      /\ \A r : Contains(t, r) => Contains(rs, r)
      /\ \A T : AtMostOne(rs, T) => AtMostOne(t, T) /\ (q \in T => ~ Has(t, T))
  BY <1>1, <1>2, TailOf
<1>4. PICK s \in Setups : s = q.setup
  BY <1>3 DEF Request, Setups
<1>5. PICK p : p = pos[s]
  OBVIOUS
<1>6. p \in DOMAIN Program[ch][s] /\ q = Last(Program[ch][s][p])
  BY <1>1, <1>3, <1>4, <1>5 DEF WaitedFor
<1>7. /\ p \in Nat \ {0}
      /\ q.op = "prefetch" => q.arg = Wrappers[ch].prefetchCount
      /\ q.op = "consume" => s \in Consumers /\ Position(ch, s, p + 1) = 0
      /\ s \in Consumers /\ q.op # "consume" => Position(ch, s, p + 1) > 0
  BY <1>6, LastOfStep
<1>8. WaitedFor(ch, t, pos)
  BY <1>3 DEF WaitedFor
<1>9. ~ Has(t, Awaiting(s))
  BY <1>1, <1>3, <1>4 DEF WaitedFor, Awaiting
<1>10. PICK n : n = p + 1
  OBVIOUS
<1>11. /\ t \o Requests(ch, s, n) \in Seq(Request)
       /\ WaitedFor(ch, t \o Requests(ch, s, n), [pos EXCEPT ![s] = Position(ch, s, n)])
  BY <1>3, <1>8, <1>9, NextStep
<1>. QED
  BY <1>1, <1>2, <1>4, <1>5, <1>7, <1>10, <1>11

LEMMA RunningConsumer ==
  ASSUME IInv, NEW ch \in Channels, NEW c \in Consumers, position[ch][c] > 0
  PROVE  c \in ConsumersOf(ch) /\ Contains(setups[ch], c) /\ ~ Contains(waiting[ch], c)
<1>1. TypeOK /\ AddedKept /\ ChannelOK(ch)
  BY InvParts
<1>2. c \in Setups /\ c # "base" /\ c \notin bound
  BY <1>1, SetupAssumption DEF Setups, TypeOK
<1>3. Contains(setups[ch], c)
  BY <1>1, <1>2 DEF ChannelOK
<1>4. Contains(Kept(ch), c) /\ ~ Contains(waiting[ch], c)
  BY <1>1, <1>3, KeptOnce
<1>5. Added(ch, c)
  BY <1>1, <1>2, <1>4 DEF AddedKept
<1>. QED
  BY <1>2, <1>3, <1>4, <1>5 DEF Added

\* A reply to a request that nothing waits for.
LEMMA UnawaitedReply ==
  ASSUME IInv, NEW ch \in Channels, Reply(ch), ~ Head(rpcs[ch]).last
  PROVE  IInv'
<1>. DEFINE q == Head(rpcs[ch])
<1>1. /\ TypeOK /\ AddedKept /\ BaseFirst /\ BindingsAfterBase /\ DisabledSilent /\ StartWaits
      /\ \A w \in Channels : ChannelOK(w)
  BY InvParts
<1>2. rpcs[ch] # <<>> /\ rpcs[ch] \in Seq(Request) /\ rpcs \in [Channels -> Seq(Request)]
  BY <1>1 DEF Reply, TypeOK
<1>3. /\ q \in Request /\ q = rpcs[ch][1] /\ Tail(rpcs[ch]) \in Seq(Request)
      /\ \A r : Contains(Tail(rpcs[ch]), r) => Contains(rpcs[ch], r)
      /\ \A T : AtMostOne(rpcs[ch], T) => AtMostOne(Tail(rpcs[ch]), T)
  BY <1>2, TailOf
<1>4. q.op \in {"assertExchange", "bindQueue"} /\ q.arg \in Range(exchanges)
  BY <1>3 DEF Request
<1>5. /\ prefetch' = prefetch /\ subscribed' = subscribed /\ position' = position /\ awaited' = awaited
      /\ known' \subseteq known \cup {q.arg}
      /\ rpcs' = [rpcs EXCEPT ![ch] = Tail(rpcs[ch])]
      /\ UNCHANGED <<up, stage, connected, channel, setups, waiting, bound, faults>>
  BY <1>4 DEF Reply
<1>. HIDE DEF q
<1>6. TypeOK'
  <2>1. rpcs' \in [Channels -> Seq(Request)]
    BY <1>2, <1>3, <1>5
  <2>2. known' \subseteq Range(exchanges)
    BY <1>1, <1>4, <1>5 DEF TypeOK
  <2>. QED
    BY <1>1, <1>5, <2>1, <2>2 DEF TypeOK
<1>7. ASSUME NEW w \in Channels
      PROVE  ChannelOK(w)'
  <2>1. CASE w = ch
    <3>1. rpcs'[ch] = Tail(rpcs[ch])
      BY <1>2, <1>5
    <3>2. WaitedFor(ch, rpcs[ch], position[ch])'
      BY <1>1, <1>3, <1>5, <3>1 DEF ChannelOK, WaitedFor
    <3>3. channel[ch] # "closed" /\ prefetch[ch] = Wrappers[ch].prefetchCount
      BY <1>1, <1>2, <1>3, <1>4 DEF ChannelOK
    <3>4. Registered(ch)'
      BY <1>1, <1>5 DEF ChannelOK, Registered
    <3>. QED
      BY <1>1, <1>5, <2>1, <3>2, <3>3, <3>4 DEF ChannelOK
  <2>2. CASE w # ch
    <3>1. rpcs'[w] = rpcs[w]
      BY <1>2, <1>5, <2>2
    <3>. QED
      BY <1>1, <1>5, <3>1, SameChannel
  <2>. QED
    BY <2>1, <2>2
<1>8. AddedKept' /\ BaseFirst' /\ BindingsAfterBase' /\ DisabledSilent' /\ StartWaits'
  BY <1>1, <1>5 DEF AddedKept, Kept, Added, BaseFirst, BindingsAfterBase, DisabledSilent, StartWaits
<1>9. EachChannel'
  BY <1>6, <1>7, ChannelByChannel
<1>. QED
  BY <1>6, <1>8, <1>9 DEF IInv, EachChannel

\* The reply that its setup waits for.
LEMMA AwaitedReply ==
  ASSUME IInv, NEW ch \in Channels, Reply(ch), Head(rpcs[ch]).last
  PROVE  IInv'
<1>. DEFINE q == Head(rpcs[ch])
            s == q.setup
            n == position[ch][s] + 1
<1>1. /\ TypeOK /\ AddedKept /\ BaseFirst /\ BindingsAfterBase /\ DisabledSilent /\ StartWaits
      /\ \A w \in Channels : ChannelOK(w)
  BY InvParts
<1>2. /\ rpcs[ch] # <<>> /\ rpcs \in [Channels -> Seq(Request)]
      /\ position \in [Channels -> [Setups -> Nat]] /\ subscribed \in [Consumers -> Nat]
      /\ prefetch \in [Channels -> Nat]
  BY <1>1 DEF Reply, TypeOK
<1>3. q \in Request /\ q = rpcs[ch][1]
  BY <1>2, TailOf
<1>4. /\ q.op = "assertExchange" => q.arg \in Range(exchanges)
      /\ q.op = "prefetch" => q.arg \in Nat
  BY <1>3 DEF Request
<1>5. /\ prefetch' = IF q.op = "prefetch" THEN [prefetch EXCEPT ![ch] = q.arg] ELSE prefetch
      /\ known' = IF q.op = "assertExchange" THEN known \cup {q.arg} ELSE known
      /\ subscribed' = IF q.op = "consume" THEN [subscribed EXCEPT ![s] = @ + 1] ELSE subscribed
      /\ rpcs' = [rpcs EXCEPT ![ch] = Tail(rpcs[ch]) \o Requests(ch, s, n)]
      /\ position' = [position EXCEPT ![ch] = [position[ch] EXCEPT ![s] = Position(ch, s, n)]]
      /\ awaited' = IF position'[ch][s] = 0 THEN awaited \ {<<ch, s>>} ELSE awaited
      /\ UNCHANGED <<up, stage, connected, channel, setups, waiting, bound, faults>>
  BY DEF Reply
<1>6. /\ s \in Setups /\ position[ch][s] > 0
      /\ Tail(rpcs[ch]) \o Requests(ch, s, n) \in Seq(Request)
      /\ WaitedFor(ch, Tail(rpcs[ch]) \o Requests(ch, s, n),
                   [position[ch] EXCEPT ![s] = Position(ch, s, n)])
      /\ q.op = "prefetch" => q.arg = Wrappers[ch].prefetchCount
      /\ q.op = "consume" => s \in Consumers /\ Position(ch, s, n) = 0
      /\ s \in Consumers /\ q.op # "consume" => Position(ch, s, n) > 0
  <2>1. PICK rs, pos : rs = rpcs[ch] /\ pos = position[ch]
    OBVIOUS
  <2>2. /\ rs \in Seq(Request) /\ rs # <<>> /\ pos \in [Setups -> Nat] /\ WaitedFor(ch, rs, pos)
        /\ Head(rs).last
    BY <1>1, <1>2, <2>1 DEF ChannelOK
  <2>3. LET a == Head(rs)
            x == a.setup
            m == pos[x] + 1
        IN /\ x \in Setups /\ pos[x] > 0
           /\ Tail(rs) \o Requests(ch, x, m) \in Seq(Request)
           /\ WaitedFor(ch, Tail(rs) \o Requests(ch, x, m), [pos EXCEPT ![x] = Position(ch, x, m)])
           /\ a.op = "prefetch" => a.arg = Wrappers[ch].prefetchCount
           /\ a.op = "consume" => x \in Consumers /\ Position(ch, x, m) = 0
           /\ x \in Consumers /\ a.op # "consume" => Position(ch, x, m) > 0
    BY <2>2, Answered
  <2>. QED
    BY <2>1, <2>3
<1>. HIDE DEF q, s, n
<1>7. /\ rpcs'[ch] = Tail(rpcs[ch]) \o Requests(ch, s, n)
      /\ position'[ch] = [position[ch] EXCEPT ![s] = Position(ch, s, n)]
      /\ position'[ch][s] = Position(ch, s, n)
      /\ \A x \in Setups : x # s => position'[ch][x] = position[ch][x]
      /\ Position(ch, s, n) \in Nat
  BY <1>2, <1>5, <1>6, PositionOf
<1>8. s \in Consumers => s \in ConsumersOf(ch) /\ Contains(setups[ch], s) /\ ~ Contains(waiting[ch], s)
  BY <1>6, RunningConsumer
<1>9. /\ channel[ch] # "closed" /\ Contains(setups[ch], s)
      /\ prefetch'[ch] = Wrappers[ch].prefetchCount
  <2>1. channel[ch] # "closed" /\ Contains(setups[ch], s)
    BY <1>1, <1>2, <1>6 DEF ChannelOK
  <2>2. q.op # "prefetch" => prefetch[ch] = Wrappers[ch].prefetchCount
    BY <1>1, <1>3, <2>1 DEF ChannelOK
  <2>. QED
    BY <1>2, <1>5, <1>6, <2>1, <2>2
<1>10. \A w \in Channels : w # ch => \A c \in ConsumersOf(w) : c \notin ConsumersOf(ch)
  BY DEF ConsumersOf
<1>11. TypeOK'
  <2>1. prefetch' \in [Channels -> Nat] /\ known' \subseteq Range(exchanges)
    <3>1. known \subseteq Range(exchanges)
      BY <1>1 DEF TypeOK
    <3>2. prefetch' \in [Channels -> Nat]
      BY <1>2, <1>4, <1>5
    <3>3. known' \subseteq Range(exchanges)
      BY <1>4, <1>5, <3>1
    <3>. QED
      BY <3>2, <3>3
  <2>2. subscribed' \in [Consumers -> Nat]
    <3>1. CASE q.op = "consume"
      <4>1. s \in Consumers /\ subscribed' = [subscribed EXCEPT ![s] = subscribed[s] + 1]
        BY <1>5, <1>6, <3>1
      <4>. QED
        BY <1>2, <4>1
    <3>2. CASE q.op # "consume"
      BY <1>2, <1>5, <3>2
    <3>. QED
      BY <3>1, <3>2
  <2>3. rpcs' \in [Channels -> Seq(Request)] /\ position' \in [Channels -> [Setups -> Nat]]
    BY <1>2, <1>5, <1>6, <1>7
  <2>4. awaited' \subseteq Channels \X Setups
    BY <1>1, <1>5 DEF TypeOK
  <2>. QED
    BY <1>1, <1>5, <2>1, <2>2, <2>3, <2>4 DEF TypeOK
<1>12. ChannelOK(ch)'
  <2>1. Registered(ch)'
    <3>1. SUFFICES ASSUME NEW c \in ConsumersOf(ch)
                   PROVE  IF Contains(setups[ch], c)
                          THEN subscribed'[c] = IF position'[ch][c] > 0 THEN 0 ELSE 1
                          ELSE subscribed'[c] = 0
      BY <1>5, <1>9 DEF Registered
    <3>2. c \in Consumers /\ c \in Setups
      BY DEF ConsumersOf, Setups
    <3>3. IF Contains(setups[ch], c)
          THEN subscribed[c] = IF position[ch][c] > 0 THEN 0 ELSE 1
          ELSE subscribed[c] = 0
      BY <1>1, <1>9 DEF ChannelOK, Registered
    <3>4. CASE c = s
      <4>1. subscribed[s] = 0
        BY <1>6, <1>9, <3>3, <3>4
      <4>2. CASE q.op = "consume"
        BY <1>2, <1>5, <1>6, <1>7, <1>9, <3>2, <3>4, <4>1, <4>2
      <4>3. CASE q.op # "consume"
        BY <1>5, <1>6, <1>7, <1>9, <3>2, <3>4, <4>1, <4>3
      <4>. QED
        BY <4>2, <4>3
    <3>5. CASE c # s
      <4>1. subscribed'[c] = subscribed[c] /\ position'[ch][c] = position[ch][c]
        BY <1>2, <1>5, <1>7, <3>2, <3>5
      <4>. QED
        BY <3>3, <4>1
    <3>. QED
      BY <3>4, <3>5
  <2>2. WaitedFor(ch, rpcs[ch], position[ch])'
    BY <1>6, <1>7 DEF WaitedFor
  <2>3. \A x \in Setups : position'[ch][x] > 0 => Contains(setups[ch], x)
    BY <1>1, <1>7, <1>9 DEF ChannelOK
  <2>. QED
    BY <1>1, <1>5, <1>9, <2>1, <2>2, <2>3 DEF ChannelOK
<1>13. ASSUME NEW w \in Channels, w # ch
       PROVE  ChannelOK(w)' /\ position'[w] = position[w]
  <2>1. rpcs'[w] = rpcs[w] /\ position'[w] = position[w] /\ prefetch'[w] = prefetch[w]
    BY <1>2, <1>5, <1>13
  <2>2. ASSUME NEW c \in ConsumersOf(w)
        PROVE  subscribed'[c] = subscribed[c]
    <3>1. c \in Consumers /\ c \notin ConsumersOf(ch)
      BY <1>10, <1>13 DEF ConsumersOf
    <3>2. q.op = "consume" => c # s
      BY <1>6, <1>8, <3>1
    <3>. QED
      BY <1>2, <1>5, <3>1, <3>2
  <2>. QED
    BY <1>1, <1>5, <2>1, <2>2, SameChannel
<1>14. AddedKept' /\ BaseFirst' /\ BindingsAfterBase'
  BY <1>1, <1>5 DEF AddedKept, Kept, Added, BaseFirst, BindingsAfterBase
<1>15. DisabledSilent'
  <2>1. ASSUME NEW c \in Consumers, ~ options[c].enable
        PROVE  subscribed'[c] = 0
    <3>1. c \notin ConsumersOf(ch)
      BY <2>1 DEF ConsumersOf
    <3>2. q.op = "consume" => c # s
      BY <1>6, <1>8, <3>1
    <3>. QED
      BY <1>1, <1>2, <1>5, <2>1, <3>2 DEF DisabledSilent
  <2>. QED
    BY <2>1 DEF DisabledSilent
<1>16. StartWaits'
  <2>1. SUFFICES ASSUME NEW w \in Channels, NEW c \in ConsumersOf(w),
                        \/ channel[w] = "open" /\ position'[w][c] > 0
                        \/ Contains(waiting[w], c)
                 PROVE  <<w, c>> \in awaited'
    BY <1>5 DEF StartWaits
  <2>2. c \in Consumers /\ c \in Setups
    BY DEF ConsumersOf, Setups
  <2>3. CASE <<w, c>> = <<ch, s>>
    <3>1. position'[ch][s] > 0
      BY <1>8, <2>1, <2>2, <2>3
    <3>2. <<w, c>> \in awaited
      BY <1>1, <1>6, <2>1, <2>3, <1>8, <2>2 DEF StartWaits
    <3>. QED
      BY <1>5, <1>7, <3>1, <3>2
  <2>4. CASE <<w, c>> # <<ch, s>>
    <3>1. position'[w][c] = position[w][c]
      BY <1>7, <1>13, <2>2, <2>4
    <3>2. <<w, c>> \in awaited
      BY <1>1, <2>1, <3>1 DEF StartWaits
    <3>. QED
      BY <1>5, <2>4, <3>2
  <2>. QED
    BY <2>3, <2>4
<1>17. EachChannel'
  BY <1>11, <1>12, <1>13, ChannelByChannel
<1>. QED
  BY <1>11, <1>14, <1>15, <1>16, <1>17 DEF IInv, EachChannel

LEMMA InitOK ==
  ASSUME Init
  PROVE  IInv
<1>1. /\ \A S : <<>> \in Seq(S)
      /\ \A T : AtMostOne(<<>>, T)
      /\ \A x : ~ Contains(<<>>, x)
      /\ IsInjective(<<>>) /\ <<>> \o <<>> = <<>>
  BY EmptyList, ConcatEmptySeq
<1>2. /\ stage = 0 /\ bound = {} /\ awaited = {}
      /\ \A c \in Consumers : subscribed[c] = 0
      /\ \A ch \in Channels : /\ channel[ch] = "closed" /\ setups[ch] = <<>> /\ waiting[ch] = <<>>
                              /\ rpcs[ch] = <<>> /\ \A s \in Setups : position[ch][s] = 0
  BY DEF Init, Nothing, Idle
<1>3. TypeOK
  <2>1. 0 \in 0..Started
    BY GroupsOf DEF Started
  <2>2. Existing \subseteq Range(exchanges)
    BY SetupAssumption
  <2>. QED
    BY <1>1, <2>1, <2>2 DEF Init, TypeOK, Nothing, Idle, Unset
<1>4. AddedKept
  <2>1. ASSUME NEW ch \in Channels, NEW s
        PROVE  ~ Added(ch, s)
    <3>1. DOMAIN Groups \subseteq Nat
      BY GroupsOf
    <3>. QED
      BY <1>2, <3>1 DEF Added, BaseStage
  <2>. QED
    BY <1>1, <1>2, <2>1 DEF AddedKept, Kept
<1>5. BaseFirst /\ BindingsAfterBase
  BY <1>2 DEF BaseFirst, BindingsAfterBase, BaseStage
<1>6. DisabledSilent /\ StartWaits
  BY <1>1, <1>2 DEF DisabledSilent, StartWaits
<1>7. EachChannel
  <2>1. ASSUME NEW ch \in Channels
        PROVE  ChannelOK(ch)
    <3>1. WaitedFor(ch, rpcs[ch], position[ch])
      BY <1>1, <1>2 DEF WaitedFor
    <3>2. Registered(ch)
      BY <1>2 DEF Registered, ConsumersOf
    <3>. QED
      BY <1>2, <3>1, <3>2 DEF ChannelOK
  <2>. QED
    BY <1>3, <2>1, ChannelByChannel
<1>. QED
  BY <1>3, <1>4, <1>5, <1>6, <1>7 DEF IInv, EachChannel

\* A step that leaves the channels, what they keep and the start alone.
LEMMA OutsideKeeps ==
  ASSUME IInv, up' \in BOOLEAN, connected' \in BOOLEAN,
         UNCHANGED <<stage, awaited, channel, setups, waiting, rpcs, position, prefetch,
                     subscribed, bound, known, faults>>
  PROVE  IInv'
<1>1. /\ TypeOK /\ AddedKept /\ BaseFirst /\ BindingsAfterBase /\ DisabledSilent /\ StartWaits
      /\ \A ch \in Channels : ChannelOK(ch)
  BY InvParts
<1>2. TypeOK'
  BY <1>1 DEF TypeOK
<1>3. \A ch \in Channels : ChannelOK(ch)'
  BY <1>1, SameChannel
<1>4. AddedKept' /\ BaseFirst' /\ BindingsAfterBase' /\ DisabledSilent' /\ StartWaits'
  BY <1>1 DEF AddedKept, Kept, Added, BaseFirst, BindingsAfterBase, DisabledSilent, StartWaits
<1>5. EachChannel'
  BY <1>2, <1>3, ChannelByChannel
<1>. QED
  BY <1>2, <1>4, <1>5 DEF IInv, EachChannel

\* The invariant holds in every state: however setups, the opening of channels,
\* lost connections and restarts follow each other, a channel keeps what was added
\* to it, and runs it in the order that the properties below rely on.
THEOREM Invariance == Spec => []IInv
<1>1. Init => IInv
  BY InitOK
<1>2. IInv /\ [Next]_vars => IInv'
  <2>. SUFFICES ASSUME IInv, [Next]_vars PROVE IInv'
    OBVIOUS
  <2>1. TypeOK
    BY InvParts
  <2>2. CASE Boot
    BY <2>2, BootKeeps
  <2>3. CASE Connect
    BY <2>1, <2>3, OutsideKeeps DEF Connect, TypeOK
  <2>4. CASE ConnectionLost
    BY <2>4, LossKeeps
  <2>5. CASE Kill
    <3>1. Crash /\ known' \subseteq Range(exchanges) /\ faults' \in Nat
      BY <2>1, <2>5 DEF Kill, Disturbance, TypeOK
    <3>. QED
      BY <3>1, CrashKeeps
  <2>6. CASE Restart
    BY <2>1, <2>6, OutsideKeeps DEF Restart, TypeOK
  <2>7. ASSUME NEW b \in Bindings, Binding(b)
        PROVE  IInv'
    BY <2>7, BindingKeeps
  <2>8. ASSUME NEW ch \in Channels, OpenChannel(ch)
        PROVE  IInv'
    BY <2>8, OpenKeeps
  <2>9. ASSUME NEW ch \in Channels, ChannelReady(ch)
        PROVE  IInv'
    BY <2>9, ReadyKeeps
  <2>10. ASSUME NEW ch \in Channels, Reply(ch)
         PROVE  IInv'
    BY <2>10, UnawaitedReply, AwaitedReply
  <2>11. ASSUME NEW ch \in Channels, BindFails(ch)
         PROVE  IInv'
    <3>1. Crash /\ known' \subseteq Range(exchanges) /\ faults' \in Nat
      BY <2>1, <2>11 DEF BindFails, TypeOK
    <3>. QED
      BY <3>1, CrashKeeps
  <2>12. CASE UNCHANGED vars
    BY <2>1, <2>12, OutsideKeeps DEF vars, TypeOK
  <2>. QED
    BY <2>2, <2>3, <2>4, <2>5, <2>6, <2>7, <2>8, <2>9, <2>10, <2>11, <2>12 DEF Next
<1>. QED
  BY <1>1, <1>2, PTL DEF Spec

\* Every variable has its type in every state: a channel's requests are well
\* formed, and its counts are numbers.
THEOREM TypeCorrect == Spec => []TypeOK
<1>1. IInv => TypeOK
  BY DEF IInv
<1>. QED
  BY <1>1, Invariance, PTL

\* A consumer that is registered has a channel, with its setup.
LEMMA RegisteredOn ==
  ASSUME IInv, NEW c \in Consumers, subscribed[c] > 0
  PROVE  LET ch == SelectManagedChannel(c)
         IN /\ ch \in Channels /\ c \in ConsumersOf(ch) /\ options[c].enable
            /\ Contains(setups[ch], c) /\ subscribed[c] = 1
            /\ prefetch[ch] = Wrappers[ch].prefetchCount
<1>1. TypeOK /\ DisabledSilent /\ \A ch \in Channels : ChannelOK(ch)
  BY InvParts
<1>2. options[c].enable
  BY <1>1, OptionsOf DEF DisabledSilent
<1>3. PICK ch \in Channels : ch = SelectManagedChannel(c)
  BY <1>2, Selected
<1>4. c \in ConsumersOf(ch)
  BY <1>2, <1>3 DEF ConsumersOf
<1>5. /\ Contains(setups[ch], c) /\ subscribed[c] = 1
      /\ prefetch[ch] = Wrappers[ch].prefetchCount
  BY <1>1, <1>4 DEF ChannelOK, Registered
<1>. QED
  BY <1>2, <1>3, <1>4, <1>5

\* A consumer is registered only on a channel whose prefetch count is the one
\* configured for it: createChannel's setup is the first of every channel, waits
\* for the count, and no channel is given to a consumer of another count.
THEOREM CountsSet == Spec => []PrefetchFirst
<1>1. IInv => PrefetchFirst
  BY RegisteredOn, Selected DEF PrefetchFirst
<1>. QED
  BY <1>1, Invariance, PTL

\* An enabled consumer is registered at most once on the channel there is, a
\* disabled one never: addSetup keeps a setup once, and a channel runs it once.
THEOREM RegisteredOnce == Spec => []SubscribedOnce
<1>1. IInv => SubscribedOnce
  <2>. SUFFICES ASSUME IInv, NEW c \in Consumers
                PROVE  subscribed[c] <= IF c \in Enabled THEN 1 ELSE 0
    BY DEF SubscribedOnce
  <2>1. TypeOK /\ AddedKept
    BY InvParts
  <2>2. subscribed[c] \in Nat
    BY <2>1 DEF TypeOK
  <2>3. ASSUME subscribed[c] > 0
        PROVE  c \in Enabled /\ subscribed[c] = 1
    <3>1. PICK ch \in Channels : options[c].enable /\ Contains(setups[ch], c) /\ subscribed[c] = 1
      BY <2>3, RegisteredOn
    <3>2. c \in Setups /\ c # "base" /\ c \notin bound
      BY <2>1, SetupAssumption DEF Setups, TypeOK
    <3>3. Added(ch, c)
      BY <2>1, <3>1, <3>2, KeptOnce DEF AddedKept
    <3>4. PICK n \in DOMAIN Groups : c \in Range(Groups[n])
      BY <3>2, <3>3 DEF Added
    <3>5. c \in UNION {Range(g) : g \in Range(Groups)}
      BY <3>4 DEF Range
    <3>. QED
      BY <3>1, <3>5 DEF Enabled
  <2>. QED
    BY <2>2, <2>3
<1>. QED
  BY <1>1, Invariance, PTL

\* Once the application has started, every enabled consumer whose channel is open
\* is registered on it: nothing that was added is lost with a channel or a
\* connection, and the start ends only when its setups have run.
THEOREM ReadyRegistered == Spec => []ReadyMeansSubscribed
<1>1. IInv => ReadyMeansSubscribed
  <2>. SUFFICES ASSUME IInv, stage = Started, awaited = {},
                       NEW c \in Enabled, channel[SelectManagedChannel(c)] = "open"
                PROVE  subscribed[c] > 0
    BY DEF ReadyMeansSubscribed
  <2>1. TypeOK /\ AddedKept /\ StartWaits /\ \A ch \in Channels : ChannelOK(ch)
    BY InvParts
  <2>2. c \in Consumers /\ options[c].enable /\ c \in Setups
    BY DEF Enabled, Setups
  <2>3. PICK ch \in Channels : ch = SelectManagedChannel(c)
    BY <2>2, Selected
  <2>4. c \in ConsumersOf(ch) /\ channel[ch] = "open"
    BY <2>2, <2>3 DEF ConsumersOf
  <2>5. Added(ch, c)
    <3>1. PICK n \in DOMAIN Groups : c \in Range(Groups[n])
      BY DEF Enabled, Range
    <3>2. n + 3 <= stage
      BY GroupsOf DEF Started
    <3>. QED
      BY <2>4, <3>1, <3>2 DEF Added
  <2>6. Contains(setups[ch], c)
    <3>1. Contains(Kept(ch), c)
      BY <2>1, <2>2, <2>5 DEF AddedKept
    <3>2. waiting[ch] = <<>>
      BY <2>1, <2>4 DEF ChannelOK
    <3>. QED
      BY <2>1, <3>1, <3>2, KeptOnce, EmptyList
  <2>7. ~ (position[ch][c] > 0)
    BY <2>1, <2>4 DEF StartWaits
  <2>. QED
    BY <2>1, <2>4, <2>6, <2>7 DEF ChannelOK, Registered
<1>. QED
  BY <1>1, Invariance, PTL
=============================================================================

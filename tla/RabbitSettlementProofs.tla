----------------------- MODULE RabbitSettlementProofs -----------------------
(***************************************************************************)
(* More proofs about RabbitConsumer, for any constants: who settles each   *)
(* delivery, how much handlers work on at a time, and how often they run   *)
(* on a message again. The invariant is SettlementInv; it stands on IInv,  *)
(* which RabbitConsumerProofs proves.                                      *)
(***************************************************************************)
EXTENDS RabbitConsumerProofs, FiniteSetTheorems

----------------------------------------------------------------------------
(* Sequences of settlements. *)

\* A longer wire, by position.
LEMMA Joined ==
  ASSUME NEW w \in Seq(Frame), NEW f \in Seq(Frame)
  PROVE  /\ w \o f \in Seq(Frame)
         /\ \A i \in DOMAIN w : i \in DOMAIN (w \o f) /\ (w \o f)[i] = w[i]
         /\ \A i \in DOMAIN f :
              /\ Len(w) + i \in DOMAIN (w \o f)
              /\ (w \o f)[Len(w) + i] = f[i]
         /\ \A i \in DOMAIN (w \o f) :
              \/ i \in DOMAIN w
              \/ i > Len(w) /\ \E k \in DOMAIN f : i = Len(w) + k
<1>1. /\ w \o f \in Seq(Frame)
      /\ Len(w \o f) = Len(w) + Len(f)
      /\ \A i \in 1 .. Len(w) + Len(f) :
           (w \o f)[i] = IF i <= Len(w) THEN w[i] ELSE f[i - Len(w)]
  BY ConcatProperties
<1>2. /\ Len(w) \in Nat /\ DOMAIN w = 1..Len(w)
      /\ Len(f) \in Nat /\ DOMAIN f = 1..Len(f)
      /\ DOMAIN (w \o f) = 1..Len(w \o f)
  BY <1>1, LenProperties
<1>3. \A i \in DOMAIN f : (w \o f)[Len(w) + i] = f[i]
  <2>1. TAKE i \in DOMAIN f
  <2>2. Len(w) + i \in 1 .. Len(w) + Len(f) /\ ~ (Len(w) + i <= Len(w))
        /\ (Len(w) + i) - Len(w) = i
    BY <1>2
  <2>. QED
    BY <1>1, <2>2
<1>4. ASSUME NEW i \in DOMAIN (w \o f), i \notin DOMAIN w
      PROVE  i > Len(w) /\ \E k \in DOMAIN f : i = Len(w) + k
  <2>1. i > Len(w) /\ i - Len(w) \in DOMAIN f /\ i = Len(w) + (i - Len(w))
    BY <1>1, <1>2, <1>4
  <2>. QED
    BY <2>1
<1>. QED
  BY <1>1, <1>2, <1>3, <1>4

\* The wire without its first settlement, by position.
LEMMA Shifted ==
  ASSUME NEW w \in Seq(Frame), w # <<>>
  PROVE  /\ Tail(w) \in Seq(Frame)
         /\ Head(w) = w[1] /\ 1 \in DOMAIN w /\ DOMAIN w \subseteq Nat
         /\ \A i \in DOMAIN Tail(w) :
              i \in Nat /\ i + 1 \in DOMAIN w /\ i + 1 # 1 /\ Tail(w)[i] = w[i+1]
         /\ \A i \in DOMAIN w : i # 1 =>
              \E k \in DOMAIN Tail(w) : i = k + 1 /\ Tail(w)[k] = w[i]
<1>1. /\ Tail(w) \in Seq(Frame)
      /\ Len(Tail(w)) = Len(w) - 1
      /\ \A i \in 1 .. Len(Tail(w)) : Tail(w)[i] = w[i+1]
  BY HeadTailProperties
<1>2. /\ Len(w) \in Nat /\ Len(w) # 0 /\ DOMAIN w = 1..Len(w)
      /\ DOMAIN Tail(w) = 1..Len(Tail(w))
  BY <1>1, LenProperties, EmptySeq
<1>3. Head(w) = w[1] /\ 1 \in DOMAIN w
  BY <1>2
<1>4. \A i \in DOMAIN Tail(w) :
        i \in Nat /\ i + 1 \in DOMAIN w /\ i + 1 # 1 /\ Tail(w)[i] = w[i+1]
  BY <1>1, <1>2
<1>5. ASSUME NEW i \in DOMAIN w, i # 1
      PROVE  \E k \in DOMAIN Tail(w) : i = k + 1 /\ Tail(w)[k] = w[i]
  <2>1. i - 1 \in DOMAIN Tail(w) /\ i = (i - 1) + 1 /\ Tail(w)[i - 1] = w[i]
    BY <1>1, <1>2, <1>5
  <2>. QED
    BY <2>1
<1>. QED
  BY <1>1, <1>2, <1>3, <1>4, <1>5

\* One frame per delivery of a batch, in order.
LEMMA FramesOf ==
  ASSUME NEW b \in Seq(Delivery)
  PROVE  /\ Acks(b) \in Seq(Frame) /\ DOMAIN Acks(b) = DOMAIN b
         /\ Rejects(b) \in Seq(Frame) /\ DOMAIN Rejects(b) = DOMAIN b
         /\ \A i \in DOMAIN b : /\ Acks(b)[i].op = "ack"
                                /\ Acks(b)[i].tag = b[i].tag
                                /\ Rejects(b)[i].op = "reject"
                                /\ Rejects(b)[i].tag = b[i].tag
                                /\ b[i] \in Delivery /\ b[i].tag \in Nat
                                /\ b[i].msg \in Messages
<1>1. Len(b) \in Nat /\ DOMAIN b = 1..Len(b)
  BY LenProperties
<1>2. \A i \in 1..Len(b) : b[i] \in Delivery
  BY ElementOfSeq
<1>3. /\ Acks(b) \in Seq(Frame) /\ Len(Acks(b)) = Len(b)
      /\ \A i \in 1..Len(b) : Acks(b)[i] = [op |-> "ack", tag |-> b[i].tag]
  BY AcksOf
<1>4. /\ Rejects(b) \in Seq(Frame) /\ Len(Rejects(b)) = Len(b)
      /\ \A i \in 1..Len(b) : Rejects(b)[i] = [op |-> "reject", tag |-> b[i].tag]
  BY RejectsOf
<1>5. DOMAIN Acks(b) = 1..Len(b) /\ DOMAIN Rejects(b) = 1..Len(b)
  BY <1>3, <1>4, LenProperties
<1>. QED
  BY <1>1, <1>2, <1>3, <1>4, <1>5 DEF Delivery

----------------------------------------------------------------------------
(* The account of a message. *)

\* An account stays balanced when nothing new is owed.
LEMMA AccountKept ==
  ASSUME TypeOK, TypeOK', NEW m \in Messages, Paid(m), handled'[m] = handled[m],
         faults' = faults \/ faults' = faults + 1,
         RunAhead(m)' => RunAhead(m), CrashAhead' => CrashAhead,
         StrandingAhead' => StrandingAhead \/ faults' = faults + 1,
         Acked(m) => Acked(m)'
  PROVE  Paid(m)'
<1>1. handled[m] \in Nat /\ faults \in Nat
  BY DEF TypeOK
<1>. QED
  BY <1>1 DEF Paid, RunsOwed

\* One run more is paid for by its acknowledgement.
LEMMA AccountRun ==
  ASSUME TypeOK, NEW m \in Messages, Paid(m), handled'[m] = handled[m] + 1,
         faults' = faults, RunAhead(m)' => RunAhead(m), CrashAhead' => CrashAhead,
         StrandingAhead' => StrandingAhead, ~ Acked(m), Acked(m)'
  PROVE  Paid(m)'
<1>1. handled[m] \in Nat /\ faults \in Nat
  BY DEF TypeOK
<1>. QED
  BY <1>1 DEF Paid, RunsOwed

\* A delivery a handler still works on is not acknowledged.
LEMMA PendingUnacked ==
  ASSUME IInv, PendingHeld, NEW j \in jobs, Live(j), Unfinished(j),
         NEW m \in Messages, Holds(j, m)
  PROVE  ~ Acked(m)
<1>1. PICK i \in DOMAIN j.batch : j.batch[i].msg = m
  BY DEF Holds
<1>2. j.batch[i] \in unacked /\ ~OnWire(j.batch[i].tag)
  BY DEF PendingHeld
<1>. QED
  BY <1>1, <1>2 DEF IInv, OnePlace, Acked, OnWire

----------------------------------------------------------------------------
(* The channel goes. *)

\* Nothing is outstanding on a channel that is gone.
LEMMA NothingHeld ==
  ASSUME Requeue, \A j \in jobs' : ~ Live(j)'
  PROVE  DeliveriesHeld' /\ SettledOnce' /\ ~ StrandingAhead'
<1>1. unacked' = {} /\ wire' = <<>> /\ DOMAIN wire' = {}
  BY DEF Requeue
<1>2. UnackedAccounted' /\ AckFirst' /\ SettledOnce'
  BY <1>1 DEF UnackedAccounted, AckFirst, SettledOnce
<1>3. BatchesApart' /\ PendingHeld'
  BY DEF BatchesApart, PendingHeld
<1>4. LoadLimited'
  <2>1. \A c \in Consumers : Outstanding(c)' = {}
    BY <1>1 DEF Outstanding
  <2>2. Prefetch' \in Nat
    BY ConsumerAssumption DEF Prefetch
  <2>. QED
    BY <1>1, <2>1, <2>2, FS_EmptySet DEF LoadLimited
<1>. QED
  BY <1>2, <1>3, <1>4 DEF DeliveriesHeld, StrandingAhead

\* Handlers that were running may run in vain and their crash may lose what was
\* acknowledged: a lost connection, or a stranded channel, pays for both.
LEMMA ChannelGoneHeld ==
  ASSUME SettlementInv, TypeOK', Requeue, link' # "open",
         UNCHANGED <<channel, gone, handled, jobs>>,
         \/ faults' = faults + 1
         \/ faults' = faults /\ StrandingAhead
  PROVE  DeliveriesHeld' /\ RunsPaid'
<1>1. DeliveriesHeld' /\ ~ StrandingAhead'
  BY NothingHeld DEF Live
<1>2. ASSUME NEW m \in Messages
      PROVE  Paid(m)'
  <2>1. /\ handled[m] \in Nat /\ faults \in Nat /\ Paid(m)
        /\ handled' = handled /\ (m \in gone => Acked(m)')
    BY DEF SettlementInv, IInv, TypeOK, RunsPaid, Acked
  <2>2. CASE RunAhead(m)
    BY <1>1, <2>1, <2>2 DEF Paid, RunsOwed
  <2>3. CASE ~ RunAhead(m) /\ RunAhead(m)'
    <3>1. PICK j \in jobs : Live(j) /\ Unfinished(j) /\ Holds(j, m)
      BY <2>3 DEF RunAhead, Lost, Unfinished, Holds
    <3>2. ~ Acked(m)
      BY <3>1, PendingUnacked DEF SettlementInv, DeliveriesHeld
    <3>. QED
      BY <1>1, <2>1, <2>3, <3>2 DEF Paid, RunsOwed
  <2>4. CASE ~ RunAhead(m) /\ ~ RunAhead(m)'
    BY <1>1, <2>1, <2>4 DEF Paid, RunsOwed
  <2>. QED
    BY <2>2, <2>3, <2>4
<1>. QED
  BY <1>1, <1>2 DEF RunsPaid

\* A crash is paid for when it happens, or was when its handler lost its channel.
LEMMA CrashHeld ==
  ASSUME SettlementInv, TypeOK', Crash, gone' = gone,
         \/ faults' = faults + 1 /\ handled' = handled
         \/ /\ faults' = faults
            /\ \E j \in jobs :
                 /\ Lost(j) /\ j.batch # <<>>
                 /\ handled' = [m \in Messages |->
                                  IF m \in Seen(j) THEN handled[m] + 1 ELSE handled[m]]
  PROVE  DeliveriesHeld' /\ RunsPaid'
<1>1. Requeue /\ jobs' = {}
  BY DEF Crash
<1>2. DeliveriesHeld' /\ ~ StrandingAhead'
  BY <1>1, NothingHeld
<1>3. ASSUME NEW m \in Messages
      PROVE  Paid(m)'
  <2>1. /\ handled[m] \in Nat /\ faults \in Nat /\ Paid(m)
        /\ ~ RunAhead(m)' /\ ~ CrashAhead'
    BY <1>1 DEF SettlementInv, IInv, TypeOK, RunsPaid, RunAhead, CrashAhead
  <2>2. CASE faults' = faults + 1 /\ handled' = handled
    BY <1>2, <2>1, <2>2 DEF Paid, RunsOwed
  <2>3. ASSUME NEW j \in jobs, Lost(j), j.batch # <<>>, faults' = faults,
               handled' = [n \in Messages |->
                             IF n \in Seen(j) THEN handled[n] + 1 ELSE handled[n]]
        PROVE  Paid(m)'
    <3>1. CrashAhead
      BY <2>3 DEF CrashAhead
    <3>2. CASE m \in Seen(j)
      <4>1. RunAhead(m)
        BY <2>3, <3>2 DEF Seen, RunAhead, Holds
      <4>2. handled'[m] = handled[m] + 1
        BY <2>3, <3>2
      <4>. QED
        BY <1>2, <2>1, <2>3, <4>1, <4>2 DEF Paid, RunsOwed
    <3>3. CASE m \notin Seen(j)
      <4>1. handled'[m] = handled[m]
        BY <2>3, <3>3
      <4>. QED
        BY <1>2, <2>1, <2>3, <3>1, <4>1 DEF Paid, RunsOwed
    <3>. QED
      BY <3>2, <3>3
  <2>. QED
    BY <2>2, <2>3
<1>. QED
  BY <1>2, <1>3 DEF RunsPaid

\* Until the next channel is open, and when it opens, no job is on a channel.
LEMMA LinkHeld ==
  ASSUME SettlementInv, Restart \/ Connect
  PROVE  DeliveriesHeld' /\ RunsPaid'
<1>1. /\ UNCHANGED <<unacked, gone, wire, jobs, handled, faults>>
      /\ \A j \in jobs : ~ Live(j)
  BY DEF Restart, Connect, Live
<1>2. \A j \in jobs : ~ Live(j)'
  <2>1. CASE Restart
    BY <2>1 DEF Restart, Live
  <2>2. CASE Connect
    <3>1. \A j \in jobs : j.ch \in Nat /\ j.ch <= channel
      BY DEF SettlementInv, IInv, TypeOK, Job, JobsCurrent, Current
    <3>. QED
      BY <2>2, <3>1 DEF Connect, Live, SettlementInv, IInv, TypeOK
  <2>. QED
    BY <2>1, <2>2
<1>3. UnackedAccounted' /\ BatchesApart' /\ PendingHeld'
  BY <1>1, <1>2 DEF SettlementInv, DeliveriesHeld, UnackedAccounted, BatchesApart,
                    PendingHeld
<1>4. LoadLimited' /\ AckFirst'
  BY <1>1 DEF SettlementInv, DeliveriesHeld, LoadLimited, Outstanding, AckFirst
<1>5. \A j \in jobs : Lost(j)' <=> Lost(j)
  BY <1>1, <1>2 DEF Lost, Unfinished
<1>6. /\ CrashAhead' <=> CrashAhead
      /\ \A m \in Messages : RunAhead(m)' <=> RunAhead(m)
      /\ StrandingAhead' <=> StrandingAhead
      /\ \A m \in Messages : Acked(m)' <=> Acked(m)
  BY <1>1, <1>2, <1>5
     DEF CrashAhead, RunAhead, Holds, StrandingAhead, SettledOnce, Acked
<1>7. RunsPaid'
  BY <1>1, <1>6 DEF SettlementInv, RunsPaid, Paid, RunsOwed
<1>. QED
  BY <1>3, <1>4, <1>7 DEF DeliveriesHeld

----------------------------------------------------------------------------
(* The broker reads a settlement. *)

LEMMA BrokerSettlesHeld ==
  ASSUME SettlementInv, TypeOK', BrokerSettles
  PROVE  DeliveriesHeld' /\ RunsPaid' /\ (SettledOnce => SettledOnce')
<1>1. /\ wire \in Seq(Frame) /\ wire # <<>> /\ link = "open"
      /\ UNCHANGED <<channel, jobs, handled, faults>>
  BY DEF SettlementInv, IInv, TypeOK, BrokerSettles
<1>2. Head(wire) = wire[1] /\ 1 \in DOMAIN wire
  BY <1>1, Shifted
<1>3. CASE /\ \A d \in unacked : d.tag # Head(wire).tag
           /\ link' = "stranded" /\ Requeue /\ gone' = gone
  <2>1. ~ SettledOnce
    BY <1>2, <1>3 DEF SettledOnce
  <2>2. SettledOnce'
    BY <1>3, NothingHeld DEF Live
  <2>. QED
    BY <1>1, <1>3, <2>1, <2>2, ChannelGoneHeld DEF StrandingAhead
<1>4. ASSUME NEW d \in unacked,
             d.tag = Head(wire).tag,
             unacked' = unacked \ {d}, wire' = Tail(wire),
             \/ Head(wire).op = "ack" /\ gone' = gone \cup {d.msg}
             \/ Head(wire).op = "reject" /\ gone' = gone,
             UNCHANGED <<link, lastTag>>
      PROVE  DeliveriesHeld' /\ RunsPaid' /\ (SettledOnce => SettledOnce')
  <2>1. \A i \in DOMAIN wire' :
          i \in Nat /\ i + 1 \in DOMAIN wire /\ i + 1 # 1 /\ wire'[i] = wire[i+1]
    BY <1>1, <1>4, Shifted
  <2>2. \A i \in DOMAIN wire : i # 1 => \E k \in DOMAIN wire' : i = k + 1 /\ wire'[k] = wire[i]
    BY <1>1, <1>4, Shifted
  <2>3. \A e \in unacked : e.tag = d.tag => e = d
    BY DEF SettlementInv, IInv, TagsUnique
  <2>4. \A j \in jobs : Live(j)' <=> Live(j)
    BY <1>1, <1>4 DEF Live
  <2>5. UnackedAccounted'
    <3>1. SUFFICES ASSUME NEW e \in unacked'
                   PROVE  \/ \E i \in DOMAIN wire' : wire'[i].tag = e.tag
                          \/ \E j \in jobs : /\ Live(j)
                                             /\ j.pc \in {"gathering", "handling"}
                                             /\ \E i \in DOMAIN j.batch : j.batch[i] = e
      BY <1>1, <2>4 DEF UnackedAccounted
    <3>2. e \in unacked /\ e.tag # Head(wire).tag
      BY <1>4, <2>3
    <3>3. CASE \E i \in DOMAIN wire : wire[i].tag = e.tag
      <4>1. PICK i \in DOMAIN wire : wire[i].tag = e.tag /\ i # 1
        BY <1>2, <3>2, <3>3
      <4>. QED
        BY <2>2, <4>1
    <3>4. CASE \E j \in jobs : /\ Live(j)
                               /\ j.pc \in {"gathering", "handling"}
                               /\ \E i \in DOMAIN j.batch : j.batch[i] = e
      BY <3>4
    <3>. QED
      BY <3>2, <3>3, <3>4 DEF SettlementInv, DeliveriesHeld, UnackedAccounted
  <2>6. BatchesApart'
    BY <1>1, <2>4 DEF SettlementInv, DeliveriesHeld, BatchesApart
  <2>7. PendingHeld'
    <3>1. ASSUME NEW j \in jobs, Live(j), Unfinished(j), NEW i \in DOMAIN j.batch
          PROVE  j.batch[i] \in unacked' /\ j.batch[i].cons = j.cons /\ ~OnWire(j.batch[i].tag)'
      <4>1. j.batch[i] \in unacked /\ j.batch[i].cons = j.cons /\ ~OnWire(j.batch[i].tag)
        BY <3>1 DEF SettlementInv, DeliveriesHeld, PendingHeld
      <4>. QED
        BY <1>2, <1>4, <2>1, <4>1 DEF OnWire
    <3>. QED
      BY <1>1, <2>4, <3>1 DEF PendingHeld, Unfinished
  <2>8. LoadLimited'
    <3>1. IsFiniteSet(unacked) /\ unacked' \in SUBSET unacked
      BY <1>4 DEF SettlementInv, DeliveriesHeld, LoadLimited
    <3>2. ASSUME NEW c \in Consumers
          PROVE  Cardinality(Outstanding(c)') <= Prefetch
      <4>1. Outstanding(c) \in SUBSET unacked /\ Outstanding(c)' \in SUBSET Outstanding(c)
        BY <3>1 DEF Outstanding
      <4>2. IsFiniteSet(Outstanding(c)) /\ IsFiniteSet(Outstanding(c)')
        BY <3>1, <4>1, FS_Subset
      <4>3. Cardinality(Outstanding(c)') <= Cardinality(Outstanding(c))
        BY <4>1, <4>2, FS_Subset
      <4>4. Cardinality(Outstanding(c)') \in Nat /\ Cardinality(Outstanding(c)) \in Nat
        BY <4>2, FS_CardinalityType
      <4>5. Cardinality(Outstanding(c)) <= Prefetch /\ Prefetch \in Nat
        BY ConsumerAssumption DEF SettlementInv, DeliveriesHeld, LoadLimited, Prefetch
      <4>. QED
        BY <4>3, <4>4, <4>5
    <3>3. IsFiniteSet(unacked')
      BY <3>1, FS_Subset
    <3>. QED
      BY <3>2, <3>3 DEF LoadLimited, Prefetch
  <2>9. AckFirst'
    <3>1. SUFFICES ASSUME NEW i \in DOMAIN wire', NEW k \in DOMAIN wire', i < k,
                          wire'[i].tag = wire'[k].tag
                   PROVE  wire'[k].op = "reject"
      BY DEF AckFirst
    <3>2. i + 1 < k + 1 /\ i + 1 \in DOMAIN wire /\ k + 1 \in DOMAIN wire
          /\ wire'[i] = wire[i+1] /\ wire'[k] = wire[k+1]
      BY <2>1, <3>1
    <3>. QED
      BY <3>1, <3>2 DEF SettlementInv, DeliveriesHeld, AckFirst
  <2>10. ASSUME SettledOnce
         PROVE  SettledOnce'
    <3>1. SUFFICES ASSUME NEW i \in DOMAIN wire'
                   PROVE  /\ \E e \in unacked' : e.tag = wire'[i].tag
                          /\ \A k \in DOMAIN wire' : wire'[k].tag = wire'[i].tag => k = i
      BY DEF SettledOnce
    <3>2. \E e \in unacked' : e.tag = wire'[i].tag
      <4>1. wire[i+1].tag # wire[1].tag
        BY <1>2, <2>1, <2>10 DEF SettledOnce
      <4>2. \E e \in unacked : e.tag = wire[i+1].tag
        BY <2>1, <2>10 DEF SettledOnce
      <4>. QED
        BY <1>2, <1>4, <2>1, <4>1, <4>2
    <3>3. \A k \in DOMAIN wire' : wire'[k].tag = wire'[i].tag => k = i
      <4>1. TAKE k \in DOMAIN wire'
      <4>2. HAVE wire'[k].tag = wire'[i].tag
      <4>3. k + 1 = i + 1
        BY <2>1, <2>10, <4>2 DEF SettledOnce
      <4>. QED
        BY <2>1, <4>3
    <3>. QED
      BY <3>2, <3>3
  <2>11. RunsPaid'
    <3>1. ASSUME NEW m \in Messages, Acked(m)
          PROVE  Acked(m)'
      <4>1. CASE m \in gone
        BY <1>4, <4>1 DEF Acked
      <4>2. ASSUME NEW e \in unacked, NEW i \in DOMAIN wire,
                   e.msg = m, wire[i].op = "ack", wire[i].tag = e.tag
            PROVE  Acked(m)'
        <5>1. CASE e = d /\ Head(wire).op = "ack"
          BY <1>4, <4>2, <5>1 DEF Acked
        <5>2. CASE e = d /\ Head(wire).op = "reject"
          <6>1. i # 1 /\ 1 < i /\ wire[1].tag = wire[i].tag
            <7>1. i \in Nat /\ i # 0
              BY <1>1, LenProperties
            <7>. QED
              BY <1>2, <1>4, <4>2, <5>2, <7>1
          <6>. QED
            BY <1>2, <4>2, <6>1 DEF SettlementInv, DeliveriesHeld, AckFirst
        <5>3. CASE e # d
          <6>1. i # 1
            BY <1>2, <1>4, <2>3, <4>2, <5>3
          <6>2. PICK k \in DOMAIN wire' : wire'[k] = wire[i]
            BY <2>2, <6>1
          <6>. QED
            BY <1>4, <4>2, <5>3, <6>2 DEF Acked
        <5>. QED
          BY <1>4, <5>1, <5>2, <5>3
      <4>. QED
        BY <3>1, <4>1, <4>2 DEF Acked
    <3>2. /\ CrashAhead' => CrashAhead
          /\ \A m \in Messages : RunAhead(m)' => RunAhead(m)
          /\ StrandingAhead' => StrandingAhead
      BY <1>1, <2>4, <2>10 DEF CrashAhead, RunAhead, Holds, StrandingAhead, Lost, Unfinished
    <3>. QED
      BY <1>1, <3>1, <3>2, AccountKept DEF SettlementInv, IInv, RunsPaid
  <2>. QED
    BY <2>5, <2>6, <2>7, <2>8, <2>9, <2>10, <2>11 DEF DeliveriesHeld
<1>5. ASSUME ~ (/\ \A d \in unacked : d.tag # Head(wire).tag
                /\ link' = "stranded" /\ Requeue /\ gone' = gone)
      PROVE  DeliveriesHeld' /\ RunsPaid' /\ (SettledOnce => SettledOnce')
  <2>1. PICK d \in unacked :
          /\ d.tag = Head(wire).tag
          /\ unacked' = unacked \ {d}
          /\ wire' = Tail(wire)
          /\ \/ Head(wire).op = "ack" /\ gone' = gone \cup {d.msg}
             \/ Head(wire).op = "reject" /\ gone' = gone
          /\ UNCHANGED <<link, lastTag>>
    BY <1>5 DEF BrokerSettles
  <2>. QED
    BY <1>4, <2>1
<1>. QED
  BY <1>3, <1>5

----------------------------------------------------------------------------
(* Jobs go on without settling anything. *)

\* A job that holds on to its deliveries: Flush and Cancel.
LEMMA ReplacedHeld ==
  ASSUME DeliveriesHeld, NEW k, NEW n, k \in jobs \/ k.batch = <<>>,
         n.batch = k.batch, n.ch = k.ch, n.cons = k.cons,
         Unfinished(k), Unfinished(n), jobs' = (jobs \ {k}) \cup {n},
         UNCHANGED <<link, channel, unacked, gone, wire>>
  PROVE  /\ DeliveriesHeld'
         /\ CrashAhead' => CrashAhead
         /\ \A m \in Messages : RunAhead(m)' => RunAhead(m)
         /\ \A m \in Messages : Acked(m)' <=> Acked(m)
         /\ SettledOnce' <=> SettledOnce
<1>1. /\ Live(n)' <=> Live(k)
      /\ \A j \in jobs : Live(j)' <=> Live(j)
      /\ \A j \in jobs' : j = n \/ (j \in jobs /\ j # k)
      /\ n \in jobs' /\ \A j \in jobs : j = k \/ j \in jobs'
  BY DEF Live
<1>2. UnackedAccounted'
  BY <1>1 DEF DeliveriesHeld, UnackedAccounted, Unfinished
<1>3. BatchesApart'
  <2>1. SUFFICES ASSUME NEW x \in jobs', NEW y \in jobs', Live(x)', Live(y)',
                        NEW i \in DOMAIN x.batch, NEW l \in DOMAIN y.batch,
                        x.batch[i].tag = y.batch[l].tag
                 PROVE  x = y /\ i = l
    BY DEF BatchesApart
  <2>2. (x = n \/ y = n) => k \in jobs
    BY <1>1
  <2>. QED
    BY <1>1, <2>1, <2>2 DEF DeliveriesHeld, BatchesApart
<1>4. PendingHeld'
  <2>1. SUFFICES ASSUME NEW j \in jobs', Live(j)', Unfinished(j), NEW i \in DOMAIN j.batch
                 PROVE  /\ j.batch[i] \in unacked /\ j.batch[i].cons = j.cons
                        /\ ~OnWire(j.batch[i].tag)
    BY DEF PendingHeld, Unfinished, OnWire
  <2>2. CASE j = n
    BY <1>1, <2>1, <2>2 DEF DeliveriesHeld, PendingHeld
  <2>3. CASE j \in jobs
    BY <1>1, <2>1, <2>3 DEF DeliveriesHeld, PendingHeld
  <2>. QED
    BY <1>1, <2>2, <2>3
<1>5. LoadLimited' /\ AckFirst'
  BY DEF DeliveriesHeld, LoadLimited, Outstanding, AckFirst
<1>6. CrashAhead' => CrashAhead
  BY <1>1 DEF CrashAhead, Lost, Unfinished
<1>7. \A m \in Messages : RunAhead(m)' => RunAhead(m)
  BY <1>1 DEF RunAhead, Lost, Unfinished, Holds
<1>8. (SettledOnce' <=> SettledOnce) /\ \A m \in Messages : Acked(m)' <=> Acked(m)
  BY DEF SettledOnce, Acked
<1>. QED
  BY <1>2, <1>3, <1>4, <1>5, <1>6, <1>7, <1>8 DEF DeliveriesHeld

LEMMA FlushHeld ==
  ASSUME SettlementInv, TypeOK', NEW j \in jobs, Flush(j)
  PROVE  DeliveriesHeld' /\ RunsPaid' /\ (SettledOnce => SettledOnce')
<1>. DEFINE n == [j EXCEPT !.pc = "handling"]
<1>1. /\ j \in Job /\ j.pc = "gathering" /\ jobs' = (jobs \ {j}) \cup {n}
      /\ UNCHANGED <<link, channel, unacked, gone, wire, handled, faults>>
  BY DEF SettlementInv, IInv, TypeOK, Flush, MoveTo
<1>2. /\ n.batch = j.batch /\ n.ch = j.ch /\ n.cons = j.cons
      /\ n.cancelled = j.cancelled /\ n.pc = "handling"
  BY <1>1, JobMoved
<1>. HIDE DEF n
<1>3. Unfinished(j) /\ Unfinished(n)
  BY <1>1, <1>2 DEF Unfinished
<1>4. /\ DeliveriesHeld' /\ (CrashAhead' => CrashAhead)
      /\ \A m \in Messages : (RunAhead(m)' => RunAhead(m)) /\ (Acked(m)' <=> Acked(m))
      /\ SettledOnce' <=> SettledOnce
  BY <1>1, <1>2, <1>3, ReplacedHeld DEF SettlementInv
<1>5. StrandingAhead' => StrandingAhead
  BY <1>1, <1>2, <1>4 DEF StrandingAhead, Live
<1>. QED
  BY <1>1, <1>4, <1>5, AccountKept DEF SettlementInv, IInv, RunsPaid

\* A cancelled cargo will be settled twice: the cancellation pays for that.
LEMMA CancelHeld ==
  ASSUME SettlementInv, TypeOK', NEW c \in Consumers, Cancel(c)
  PROVE  DeliveriesHeld' /\ RunsPaid' /\ (SettledOnce => SettledOnce')
<1>1. /\ UNCHANGED <<link, channel, unacked, gone, wire, handled>>
      /\ faults' = faults + 1
  BY DEF Cancel, Disturbance
<1>2. CASE jobs' = jobs
  <2>1. DeliveriesHeld'
    BY <1>1, <1>2 DEF SettlementInv, DeliveriesHeld, UnackedAccounted, BatchesApart,
          PendingHeld, LoadLimited, AckFirst, Live, Unfinished, OnWire, Outstanding
  <2>2. /\ CrashAhead' => CrashAhead
        /\ \A m \in Messages : (RunAhead(m)' => RunAhead(m)) /\ (Acked(m)' <=> Acked(m))
        /\ SettledOnce' <=> SettledOnce
    BY <1>1, <1>2 DEF CrashAhead, RunAhead, Lost, Holds, Live, Unfinished, Acked, SettledOnce
  <2>. QED
    BY <1>1, <2>1, <2>2, AccountKept DEF SettlementInv, IInv, RunsPaid
<1>3. ASSUME NEW k \in IF Gathering(c) = {} THEN {NewCargo(c)} ELSE Gathering(c),
             jobs' = (jobs \ {k}) \cup {[k EXCEPT !.cancelled = TRUE]}
      PROVE  DeliveriesHeld' /\ RunsPaid' /\ (SettledOnce => SettledOnce')
  <2>1. /\ k \in Job /\ (k \in jobs \/ k.batch = <<>>)
        /\ k.ch = channel /\ k.pc = "gathering"
    BY CargoType DEF SettlementInv, IInv
  <2>2. PICK n : n = [k EXCEPT !.cancelled = TRUE]
    OBVIOUS
  <2>3. n.batch = k.batch /\ n.ch = k.ch /\ n.cons = k.cons /\ n.pc = "gathering"
    BY <2>1, <2>2 DEF Job
  <2>4. Unfinished(k) /\ Unfinished(n)
    BY <2>1, <2>3 DEF Unfinished
  <2>5. /\ DeliveriesHeld' /\ (CrashAhead' => CrashAhead)
        /\ \A m \in Messages : (RunAhead(m)' => RunAhead(m)) /\ (Acked(m)' <=> Acked(m))
        /\ SettledOnce' <=> SettledOnce
    BY <1>1, <1>3, <2>1, <2>2, <2>3, <2>4, ReplacedHeld DEF SettlementInv
  <2>. QED
    BY <1>1, <2>5, AccountKept DEF SettlementInv, IInv, RunsPaid
<1>. QED
  BY <1>2, <1>3 DEF Cancel

\* A job that ends has nothing outstanding.
LEMMA ConfirmsResolveHeld ==
  ASSUME SettlementInv, TypeOK', NEW j \in jobs, ConfirmsResolve(j)
  PROVE  DeliveriesHeld' /\ RunsPaid' /\ (SettledOnce => SettledOnce')
<1>1. /\ UNCHANGED <<link, channel, unacked, gone, wire, handled, faults>>
      /\ jobs' = jobs \ {j} /\ ~ Unfinished(j)
  BY DEF ConfirmsResolve, Unfinished
<1>2. UnackedAccounted'
  BY <1>1 DEF SettlementInv, DeliveriesHeld, UnackedAccounted, Unfinished, Live
<1>3. BatchesApart' /\ PendingHeld'
  BY <1>1 DEF SettlementInv, DeliveriesHeld, BatchesApart, PendingHeld, Live,
              Unfinished, OnWire
<1>4. LoadLimited' /\ AckFirst'
  BY <1>1 DEF SettlementInv, DeliveriesHeld, LoadLimited, Outstanding, AckFirst
<1>5. /\ CrashAhead' => CrashAhead
      /\ \A m \in Messages : (RunAhead(m)' => RunAhead(m)) /\ (Acked(m)' <=> Acked(m))
      /\ (SettledOnce' <=> SettledOnce) /\ (StrandingAhead' => StrandingAhead)
  BY <1>1 DEF CrashAhead, RunAhead, Lost, Holds, Live, Unfinished, Acked, SettledOnce,
              StrandingAhead
<1>. QED
  BY <1>1, <1>2, <1>3, <1>4, <1>5, AccountKept
     DEF DeliveriesHeld, SettlementInv, IInv, RunsPaid

----------------------------------------------------------------------------
(* Jobs settle. *)

\* AckFirst, of any sequence of settlements.
AckFirstIn(w) ==
  \A i, k \in DOMAIN w : i < k /\ w[i].tag = w[k].tag => w[k].op = "reject"

\* Settlements of deliveries that nothing was written about, each once.
LEMMA FreshFrames ==
  ASSUME NEW w \in Seq(Frame), NEW f \in Seq(Frame), AckFirstIn(w),
         \A i \in DOMAIN w, k \in DOMAIN f : w[i].tag # f[k].tag,
         \A i, k \in DOMAIN f : f[i].tag = f[k].tag => i = k
  PROVE  AckFirstIn(w \o f)
<1>. DEFINE u == w \o f
<1>1. /\ \A i \in DOMAIN w : i \in DOMAIN u /\ u[i] = w[i]
      /\ \A i \in DOMAIN f : u[Len(w) + i] = f[i]
      /\ \A i \in DOMAIN u : i \in DOMAIN w \/ \E k \in DOMAIN f : i = Len(w) + k
  BY Joined
<1>2. DOMAIN u \subseteq Nat /\ DOMAIN f \subseteq Nat /\ Len(w) \in Nat
  BY Joined, LenProperties
<1>3. DOMAIN w = 1..Len(w)
  BY LenProperties
<1>. HIDE DEF u
<1>4. SUFFICES ASSUME NEW i \in DOMAIN u, NEW k \in DOMAIN u, i < k, u[i].tag = u[k].tag
               PROVE  u[k].op = "reject"
  BY DEF AckFirstIn, u
<1>5. CASE i \in DOMAIN w /\ k \in DOMAIN w
  BY <1>1, <1>4, <1>5 DEF AckFirstIn
<1>6. CASE i \in DOMAIN w /\ k \notin DOMAIN w
  BY <1>1, <1>4, <1>6
<1>7. CASE i \notin DOMAIN w /\ k \in DOMAIN w
  BY <1>1, <1>2, <1>3, <1>4, <1>7
<1>8. CASE i \notin DOMAIN w /\ k \notin DOMAIN w
  BY <1>1, <1>2, <1>4, <1>8
<1>. QED
  BY <1>5, <1>6, <1>7, <1>8

\* Rejections may always come last.
LEMMA RejectsLast ==
  ASSUME NEW w \in Seq(Frame), NEW f \in Seq(Frame), AckFirstIn(w),
         \A k \in DOMAIN f : f[k].op = "reject"
  PROVE  AckFirstIn(w \o f)
<1>. DEFINE u == w \o f
<1>1. /\ \A i \in DOMAIN w : i \in DOMAIN u /\ u[i] = w[i]
      /\ \A i \in DOMAIN f : u[Len(w) + i] = f[i]
      /\ \A i \in DOMAIN u : i \in DOMAIN w \/ \E k \in DOMAIN f : i = Len(w) + k
  BY Joined
<1>2. DOMAIN u \subseteq Nat /\ DOMAIN f \subseteq Nat /\ DOMAIN w = 1..Len(w) /\ Len(w) \in Nat
  BY Joined, LenProperties
<1>. HIDE DEF u
<1>3. SUFFICES ASSUME NEW i \in DOMAIN u, NEW k \in DOMAIN u, i < k, u[i].tag = u[k].tag
               PROVE  u[k].op = "reject"
  BY DEF AckFirstIn, u
<1>4. CASE k \in DOMAIN w
  <2>1. i \in DOMAIN w
    BY <1>1, <1>2, <1>3, <1>4
  <2>. QED
    BY <1>1, <1>3, <1>4, <2>1 DEF AckFirstIn
<1>5. CASE k \notin DOMAIN w
  BY <1>1, <1>5
<1>. QED
  BY <1>4, <1>5

\* One settlement each of deliveries that wait for one leaves each with one.
LEMMA OnceEach ==
  ASSUME SettledOnce, wire \in Seq(Frame), NEW f \in Seq(Frame), wire' = wire \o f,
         unacked \subseteq unacked',
         \A i \in DOMAIN wire, k \in DOMAIN f : wire[i].tag # f[k].tag,
         \A i, k \in DOMAIN f : f[i].tag = f[k].tag => i = k,
         \A k \in DOMAIN f : \E d \in unacked' : d.tag = f[k].tag
  PROVE  SettledOnce'
<1>1. /\ \A i \in DOMAIN wire : wire'[i] = wire[i]
      /\ \A i \in DOMAIN f : wire'[Len(wire) + i] = f[i]
      /\ \A i \in DOMAIN wire' : i \in DOMAIN wire \/ \E k \in DOMAIN f : i = Len(wire) + k
  BY Joined
<1>2. SUFFICES ASSUME NEW i \in DOMAIN wire'
               PROVE  /\ \E d \in unacked' : d.tag = wire'[i].tag
                      /\ \A k \in DOMAIN wire' : wire'[k].tag = wire'[i].tag => k = i
  BY DEF SettledOnce
<1>3. CASE i \in DOMAIN wire
  BY <1>1, <1>3 DEF SettledOnce
<1>4. CASE i \notin DOMAIN wire
  BY <1>1, <1>4
<1>. QED
  BY <1>3, <1>4

\* What a job on the current channel holds before its handler has ended.
LEMMA PendingFresh ==
  ASSUME DeliveriesHeld, NEW j \in jobs, Unfinished(j), Live(j) \/ j.batch = <<>>
  PROVE  /\ \A i, k \in DOMAIN j.batch : j.batch[i].tag = j.batch[k].tag => i = k
         /\ \A i \in DOMAIN j.batch :
              /\ j.batch[i] \in unacked
              /\ \A k \in DOMAIN wire : wire[k].tag # j.batch[i].tag
<1>1. CASE Live(j)
  BY <1>1 DEF DeliveriesHeld, BatchesApart, PendingHeld, OnWire
<1>2. CASE j.batch = <<>>
  BY <1>2
<1>. QED
  BY <1>1, <1>2

\* Settling a job leaves every other job what it holds.
LEMMA SettlingHeld ==
  ASSUME DeliveriesHeld, TypeOK, NEW j \in jobs, Live(j) \/ j.batch = <<>>,
         NEW pc \in {"committing", "rejecting"}, MoveTo(j, pc),
         UNCHANGED <<link, channel, unacked, gone>>,
         NEW f \in Seq(Frame), wire' = wire \o f, AckFirstIn(wire \o f),
         \A k \in DOMAIN f : \E i \in DOMAIN j.batch : f[k].tag = j.batch[i].tag,
         Unfinished(j) => \A i \in DOMAIN j.batch : \E k \in DOMAIN f : f[k].tag = j.batch[i].tag
  PROVE  /\ DeliveriesHeld'
         /\ CrashAhead' => CrashAhead
         /\ \A m \in Messages : (RunAhead(m)' => RunAhead(m)) /\ (Acked(m) => Acked(m)')
         /\ (\E k \in jobs' : Live(k)' /\ k.cancelled) => \E k \in jobs : Live(k) /\ k.cancelled
<1>. DEFINE n == [j EXCEPT !.pc = pc]
<1>1. /\ n.batch = j.batch /\ n.ch = j.ch /\ n.cons = j.cons
      /\ n.cancelled = j.cancelled /\ n.pc = pc
  BY JobMoved DEF TypeOK
<1>2. jobs' = (jobs \ {j}) \cup {n}
  BY DEF MoveTo
<1>. HIDE DEF n
<1>3. /\ ~ Unfinished(n)
      /\ Live(n)' <=> Live(j)
      /\ \A k \in jobs : Live(k)' <=> Live(k)
      /\ \A k \in jobs' : k = n \/ (k \in jobs /\ k # j)
      /\ n \in jobs' /\ \A k \in jobs : k = j \/ k \in jobs'
  BY <1>1, <1>2 DEF Live, Unfinished
<1>4. wire \in Seq(Frame)
  BY DEF TypeOK
<1>5. /\ \A i \in DOMAIN wire : i \in DOMAIN wire' /\ wire'[i] = wire[i]
      /\ \A i \in DOMAIN f : Len(wire) + i \in DOMAIN wire' /\ wire'[Len(wire) + i] = f[i]
      /\ \A i \in DOMAIN wire' : i \in DOMAIN wire \/ \E k \in DOMAIN f : i = Len(wire) + k
  BY <1>4, Joined
<1>6. UnackedAccounted'
  <2>1. SUFFICES ASSUME NEW d \in unacked
                 PROVE  \/ \E i \in DOMAIN wire' : wire'[i].tag = d.tag
                        \/ \E k \in jobs' : /\ Live(k)' /\ Unfinished(k)
                                            /\ \E i \in DOMAIN k.batch : k.batch[i] = d
    BY DEF UnackedAccounted, Unfinished
  <2>2. CASE \E i \in DOMAIN wire : wire[i].tag = d.tag
    BY <1>5, <2>2
  <2>3. ASSUME NEW k \in jobs, Live(k), Unfinished(k), NEW i \in DOMAIN k.batch, k.batch[i] = d
        PROVE  \/ \E x \in DOMAIN wire' : wire'[x].tag = d.tag
               \/ \E x \in jobs' : /\ Live(x)' /\ Unfinished(x)
                                   /\ \E y \in DOMAIN x.batch : x.batch[y] = d
    <3>1. CASE k = j
      <4>1. PICK x \in DOMAIN f : f[x].tag = d.tag
        BY <2>3, <3>1
      <4>2. Len(wire) + x \in DOMAIN wire' /\ wire'[Len(wire) + x].tag = d.tag
        BY <1>5, <4>1
      <4>. QED
        BY <4>2
    <3>2. CASE k # j
      BY <1>3, <2>3, <3>2
    <3>. QED
      BY <3>1, <3>2
  <2>. QED
    BY <2>2, <2>3 DEF DeliveriesHeld, UnackedAccounted, Unfinished
<1>7. BatchesApart'
  <2>1. SUFFICES ASSUME NEW x \in jobs', NEW y \in jobs', Live(x)', Live(y)',
                        NEW i \in DOMAIN x.batch, NEW l \in DOMAIN y.batch,
                        x.batch[i].tag = y.batch[l].tag
                 PROVE  x = y /\ i = l
    BY DEF BatchesApart
  <2>. QED
    BY <1>1, <1>3, <2>1 DEF DeliveriesHeld, BatchesApart
<1>8. PendingHeld'
  <2>1. SUFFICES ASSUME NEW k \in jobs, k # j, Live(k), Unfinished(k), NEW i \in DOMAIN k.batch
                 PROVE  /\ k.batch[i] \in unacked /\ k.batch[i].cons = k.cons
                        /\ \A x \in DOMAIN wire' : wire'[x].tag # k.batch[i].tag
    BY <1>3 DEF PendingHeld, Unfinished, OnWire
  <2>2. /\ k.batch[i] \in unacked /\ k.batch[i].cons = k.cons
        /\ \A x \in DOMAIN wire : wire[x].tag # k.batch[i].tag
    BY <2>1 DEF DeliveriesHeld, PendingHeld, OnWire
  <2>3. \A x \in DOMAIN j.batch : j.batch[x].tag # k.batch[i].tag
    BY <2>1 DEF DeliveriesHeld, BatchesApart
  <2>. QED
    BY <1>5, <2>2, <2>3
<1>9. LoadLimited' /\ AckFirst'
  BY DEF DeliveriesHeld, LoadLimited, Outstanding, AckFirst, AckFirstIn
<1>10. CrashAhead' => CrashAhead
  BY <1>3 DEF CrashAhead, Lost, Unfinished
<1>11. ASSUME NEW m \in Messages
       PROVE  (RunAhead(m)' => RunAhead(m)) /\ (Acked(m) => Acked(m)')
  <2>1. RunAhead(m)' => RunAhead(m)
    BY <1>3 DEF RunAhead, Lost, Unfinished, Holds
  <2>2. Acked(m) => Acked(m)'
    BY <1>5 DEF Acked
  <2>. QED
    BY <2>1, <2>2
<1>12. (\E k \in jobs' : Live(k)' /\ k.cancelled) => \E k \in jobs : Live(k) /\ k.cancelled
  BY <1>1, <1>3
<1>. QED
  BY <1>6, <1>7, <1>8, <1>9, <1>10, <1>11, <1>12 DEF DeliveriesHeld

\* A handler that ran to its end: either all its messages count one run more
\* and are acknowledged, or it crashes, which a lost channel has paid for.
LEMMA HandlerResolvesHeld ==
  ASSUME SettlementInv, TypeOK', NEW j \in jobs, HandlerResolves(j)
  PROVE  DeliveriesHeld' /\ RunsPaid' /\ (SettledOnce /\ ~j.cancelled => SettledOnce')
<1>. DEFINE b == j.batch
            A == Acks(b)
            R == Rejects(b)
<1>1. /\ DeliveriesHeld /\ RunsPaid /\ IInv /\ TypeOK
      /\ Unfinished(j) /\ Commit(j) /\ gone' = gone /\ faults' = faults
      /\ handled' = [m \in Messages |-> IF m \in Seen(j) THEN handled[m] + 1 ELSE handled[m]]
      /\ b \in Seq(Delivery) /\ wire \in Seq(Frame)
  BY DEF SettlementInv, IInv, HandlerResolves, Unfinished, TypeOK, Job
<1>2. CASE ~Live(j) /\ b # <<>> /\ Crash
  <2>1. Lost(j)
    BY <1>1, <1>2 DEF Lost
  <2>2. SettledOnce'
    BY <1>2, NothingHeld DEF Crash
  <2>. QED
    BY <1>1, <1>2, <2>1, <2>2, CrashHeld
<1>3. CASE /\ Live(j) \/ b = <<>>
           /\ \/ j.cancelled /\ wire' = wire \o A \o R /\ MoveTo(j, "rejecting")
              \/ ~j.cancelled /\ wire' = wire \o A /\ MoveTo(j, "committing")
           /\ UNCHANGED <<link, channel, consumer, ready, unacked, lastTag>>
  <2>1. /\ A \in Seq(Frame) /\ DOMAIN A = DOMAIN b
        /\ R \in Seq(Frame) /\ DOMAIN R = DOMAIN b
        /\ \A i \in DOMAIN b : /\ A[i].op = "ack" /\ A[i].tag = b[i].tag
                               /\ R[i].op = "reject" /\ R[i].tag = b[i].tag
    BY <1>1, FramesOf
  <2>2. /\ \A i, k \in DOMAIN b : b[i].tag = b[k].tag => i = k
        /\ \A i \in DOMAIN b : /\ b[i] \in unacked
                               /\ \A k \in DOMAIN wire : wire[k].tag # b[i].tag
    BY <1>1, <1>3, PendingFresh
  <2>. HIDE DEF A, R, b
  <2>3. AckFirstIn(wire \o A)
    <3>1. AckFirstIn(wire)
      BY <1>1 DEF DeliveriesHeld, AckFirst, AckFirstIn
    <3>. QED
      BY <1>1, <2>1, <2>2, <3>1, FreshFrames
  <2>4. AckFirstIn((wire \o A) \o R)
    BY <1>1, <2>1, <2>3, Joined, RejectsLast
  <2>5. PICK f \in Seq(Frame) :
          /\ wire' = wire \o f /\ AckFirstIn(wire \o f)
          /\ \A k \in DOMAIN f : \E i \in DOMAIN b : f[k].tag = b[i].tag
          /\ \A i \in DOMAIN b : \E k \in DOMAIN f : f[k].op = "ack" /\ f[k].tag = b[i].tag
          /\ \E pc \in {"committing", "rejecting"} : MoveTo(j, pc)
          /\ ~j.cancelled => f = A
    <3>1. CASE wire' = wire \o A /\ MoveTo(j, "committing")
      BY <2>1, <2>3, <3>1
    <3>2. CASE j.cancelled /\ wire' = wire \o A \o R /\ MoveTo(j, "rejecting")
      <4>1. PICK g : g = A \o R
        OBVIOUS
      <4>2. /\ g \in Seq(Frame)
            /\ \A i \in DOMAIN A : i \in DOMAIN g /\ g[i] = A[i]
            /\ \A i \in DOMAIN R : g[Len(A) + i] = R[i]
            /\ \A i \in DOMAIN g : i \in DOMAIN A \/ \E k \in DOMAIN R : i = Len(A) + k
        <5>1. A \in Seq(Frame) /\ R \in Seq(Frame)
          BY <2>1
        <5>2. /\ A \o R \in Seq(Frame)
              /\ \A i \in DOMAIN A : i \in DOMAIN (A \o R) /\ (A \o R)[i] = A[i]
              /\ \A i \in DOMAIN R : (A \o R)[Len(A) + i] = R[i]
          BY <5>1, Joined
        <5>3. \A i \in DOMAIN (A \o R) : i \in DOMAIN A \/ \E k \in DOMAIN R : i = Len(A) + k
          BY <5>1, Joined
        <5>. QED
          BY <4>1, <5>2, <5>3
      <4>3. wire' = wire \o g /\ AckFirstIn(wire \o g)
        <5>1. (wire \o A) \o R = wire \o (A \o R)
          BY <1>1, <2>1, ConcatAssociative
        <5>. QED
          BY <2>4, <3>2, <4>1, <5>1
      <4>4. ASSUME NEW k \in DOMAIN g
            PROVE  \E i \in DOMAIN b : g[k].tag = b[i].tag
        <5>1. CASE k \in DOMAIN A
          <6>1. k \in DOMAIN b /\ g[k].tag = b[k].tag
            BY <2>1, <4>2, <5>1
          <6>. QED
            BY <6>1
        <5>2. CASE k \notin DOMAIN A
          <6>1. PICK i \in DOMAIN R : k = Len(A) + i
            BY <4>2, <5>2
          <6>2. g[k] = R[i]
            BY <4>2, <6>1
          <6>3. i \in DOMAIN b /\ g[k].tag = b[i].tag
            BY <2>1, <6>1, <6>2
          <6>. QED
            BY <6>3
        <5>. QED
          BY <5>1, <5>2
      <4>5. \A i \in DOMAIN b : \E k \in DOMAIN g : g[k].op = "ack" /\ g[k].tag = b[i].tag
        BY <2>1, <4>2
      <4>. QED
        BY <3>2, <4>2, <4>3, <4>4, <4>5
    <3>. QED
      BY <1>3, <3>1, <3>2
  <2>6. PICK pc \in {"committing", "rejecting"} : MoveTo(j, pc)
    BY <2>5
  <2>7. /\ DeliveriesHeld'
        /\ CrashAhead' => CrashAhead
        /\ \A m \in Messages : (RunAhead(m)' => RunAhead(m)) /\ (Acked(m) => Acked(m)')
        /\ (\E k \in jobs' : Live(k)' /\ k.cancelled) => \E k \in jobs : Live(k) /\ k.cancelled
    <3>1. \A i \in DOMAIN b : \E k \in DOMAIN f : f[k].tag = b[i].tag
      BY <2>5
    <3>. QED
      BY <1>1, <1>3, <2>5, <2>6, <3>1, SettlingHeld DEF b
  <2>8. SettledOnce /\ ~j.cancelled => SettledOnce'
    <3>1. SUFFICES ASSUME SettledOnce, ~j.cancelled PROVE SettledOnce'
      OBVIOUS
    <3>2. wire' = wire \o A /\ unacked' = unacked
      BY <1>3, <3>1
    <3>3. \A k \in DOMAIN A : \E d \in unacked' : d.tag = A[k].tag
      BY <2>1, <2>2, <3>2
    <3>4. /\ \A i \in DOMAIN wire, k \in DOMAIN A : wire[i].tag # A[k].tag
          /\ \A i, k \in DOMAIN A : A[i].tag = A[k].tag => i = k
      BY <2>1, <2>2
    <3>5. A \in Seq(Frame) /\ wire \in Seq(Frame) /\ unacked \subseteq unacked'
      BY <1>1, <2>1, <3>2
    <3>. QED
      BY <3>1, <3>2, <3>3, <3>4, <3>5, OnceEach
  <2>9. StrandingAhead' => StrandingAhead
    <3>1. CASE ~j.cancelled
      BY <2>7, <2>8, <3>1 DEF StrandingAhead
    <3>2. CASE j.cancelled /\ Live(j)
      BY <3>2 DEF StrandingAhead
    <3>3. CASE b = <<>>
      <4>1. DOMAIN f = {}
        BY <2>5, <3>3
      <4>1a. Len(f) = 0 /\ f = <<>>
        BY <4>1, LenProperties, EmptySeq
      <4>2. wire' = wire /\ unacked' = unacked
        BY <1>1, <1>3, <2>5, <4>1a, ConcatEmptySeq
      <4>3. SettledOnce' <=> SettledOnce
        BY <4>2 DEF SettledOnce
      <4>. QED
        BY <2>7, <4>3 DEF StrandingAhead
    <3>. QED
      BY <1>3, <3>1, <3>2, <3>3
  <2>10. ASSUME NEW m \in Messages
         PROVE  Paid(m)'
    <3>1. CASE m \notin Seen(j)
      <4>1. handled'[m] = handled[m]
        BY <1>1, <3>1
      <4>. QED
        BY <1>1, <2>7, <2>9, <4>1, AccountKept DEF RunsPaid
    <3>2. CASE m \in Seen(j)
      <4>1. PICK i \in DOMAIN b : b[i].msg = m
        BY <3>2 DEF Seen, b
      <4>2. Holds(j, m) /\ Live(j)
        BY <1>3, <4>1 DEF Holds, b
      <4>3. ~ Acked(m)
        BY <1>1, <4>2, PendingUnacked DEF DeliveriesHeld
      <4>4. Acked(m)'
        <5>1. PICK k \in DOMAIN f : f[k].op = "ack" /\ f[k].tag = b[i].tag
          BY <2>5
        <5>2. Len(wire) + k \in DOMAIN wire' /\ wire'[Len(wire) + k] = f[k]
          BY <1>1, <2>5, Joined
        <5>3. b[i] \in unacked'
          BY <1>3, <2>2
        <5>. QED
          BY <4>1, <5>1, <5>2, <5>3 DEF Acked
      <4>5. TypeOK /\ Paid(m) /\ handled'[m] = handled[m] + 1 /\ faults' = faults
        BY <1>1, <3>2 DEF RunsPaid
      <4>6. (RunAhead(m)' => RunAhead(m)) /\ (CrashAhead' => CrashAhead)
        BY <2>7
      <4>. QED
        BY <2>9, <4>3, <4>4, <4>5, <4>6, AccountRun
    <3>. QED
      BY <3>1, <3>2
  <2>. QED
    BY <2>7, <2>8, <2>10 DEF RunsPaid
<1>. QED
  BY <1>1, <1>2, <1>3 DEF Commit

\* A rejection is a disturbance, and pays for a second settlement and a crash.
LEMMA RejectHeld ==
  ASSUME SettlementInv, TypeOK', NEW j \in jobs, Reject(j),
         gone' = gone, handled' = handled, faults' = faults + 1
  PROVE  DeliveriesHeld' /\ RunsPaid' /\ (SettledOnce /\ Unfinished(j) => SettledOnce')
<1>. DEFINE b == j.batch
            R == Rejects(b)
<1>1. /\ DeliveriesHeld /\ RunsPaid /\ IInv /\ TypeOK
      /\ b \in Seq(Delivery) /\ wire \in Seq(Frame)
  BY DEF SettlementInv, IInv, TypeOK, Job
<1>2. CASE Crash
  BY <1>2, CrashHeld, NothingHeld DEF Crash
<1>3. CASE /\ Live(j) \/ b = <<>>
           /\ wire' = wire \o R /\ MoveTo(j, "rejecting")
           /\ UNCHANGED <<link, channel, consumer, ready, unacked, lastTag>>
  <2>1. /\ R \in Seq(Frame) /\ DOMAIN R = DOMAIN b
        /\ \A i \in DOMAIN b : R[i].op = "reject" /\ R[i].tag = b[i].tag
    BY <1>1, FramesOf
  <2>. HIDE DEF R
  <2>2. AckFirstIn(wire \o R)
    <3>1. AckFirstIn(wire)
      BY <1>1 DEF DeliveriesHeld, AckFirst, AckFirstIn
    <3>. QED
      BY <1>1, <2>1, <3>1, RejectsLast
  <2>3. /\ DeliveriesHeld'
        /\ CrashAhead' => CrashAhead
        /\ \A m \in Messages : (RunAhead(m)' => RunAhead(m)) /\ (Acked(m) => Acked(m)')
    <3>1. /\ \A k \in DOMAIN R : \E i \in DOMAIN j.batch : R[k].tag = j.batch[i].tag
          /\ \A i \in DOMAIN j.batch : \E k \in DOMAIN R : R[k].tag = j.batch[i].tag
      BY <2>1
    <3>2. /\ DeliveriesHeld /\ TypeOK /\ (Live(j) \/ j.batch = <<>>)
          /\ "rejecting" \in {"committing", "rejecting"} /\ MoveTo(j, "rejecting")
          /\ UNCHANGED <<link, channel, unacked, gone>> /\ wire' = wire \o R
      BY <1>1, <1>3
    <3>. HIDE DEF b
    <3>. QED
      BY <2>1, <2>2, <3>1, <3>2, SettlingHeld
  <2>4. ASSUME NEW m \in Messages
        PROVE  Paid(m)'
    <3>1. TypeOK /\ Paid(m) /\ handled'[m] = handled[m] /\ faults' = faults + 1
      BY <1>1 DEF RunsPaid
    <3>2. /\ (RunAhead(m)' => RunAhead(m)) /\ (CrashAhead' => CrashAhead)
          /\ Acked(m) => Acked(m)'
      BY <2>3
    <3>. QED
      BY <3>1, <3>2, AccountKept
  <2>5. ASSUME SettledOnce, Unfinished(j)
        PROVE  SettledOnce'
    <3>1. /\ \A i, k \in DOMAIN b : b[i].tag = b[k].tag => i = k
          /\ \A i \in DOMAIN b : /\ b[i] \in unacked
                                 /\ \A k \in DOMAIN wire : wire[k].tag # b[i].tag
      BY <1>1, <1>3, <2>5, PendingFresh
    <3>2. /\ \A i \in DOMAIN wire, k \in DOMAIN R : wire[i].tag # R[k].tag
          /\ \A i, k \in DOMAIN R : R[i].tag = R[k].tag => i = k
          /\ \A k \in DOMAIN R : \E d \in unacked' : d.tag = R[k].tag
      BY <1>3, <2>1, <3>1
    <3>. QED
      BY <1>1, <1>3, <2>1, <2>5, <3>2, OnceEach
  <2>. QED
    BY <2>3, <2>4, <2>5 DEF RunsPaid
<1>. QED
  BY <1>2, <1>3 DEF Reject

----------------------------------------------------------------------------
(* Deliveries. *)

\* One more delivery, within the limit of its consumer.
LEMMA DeliverLimited ==
  ASSUME LoadLimited, NEW c \in Consumers, NEW m \in Messages, Deliver(c, m)
  PROVE  LoadLimited'
<1>. DEFINE d == [tag |-> lastTag + 1, msg |-> m, cons |-> c]
<1>1. /\ IsFiniteSet(unacked) /\ unacked' = unacked \cup {d}
      /\ Cardinality(Outstanding(c)) < Prefetch /\ Prefetch \in Nat
  BY ConsumerAssumption DEF LoadLimited, Deliver, Prefetch
<1>2. IsFiniteSet(unacked') /\ d.cons = c
  BY <1>1, FS_AddElement
<1>. HIDE DEF d
<1>3. ASSUME NEW x \in Consumers
      PROVE  Cardinality(Outstanding(x)') <= Prefetch
  <2>1. IsFiniteSet(Outstanding(x)) /\ Cardinality(Outstanding(x)) \in Nat
    <3>1. Outstanding(x) \in SUBSET unacked
      BY DEF Outstanding
    <3>. QED
      BY <1>1, <3>1, FS_Subset, FS_CardinalityType
  <2>2. CASE x = c
    <3>1. Outstanding(x)' = Outstanding(x) \cup {d}
      BY <1>1, <1>2, <2>2 DEF Outstanding
    <3>2. Cardinality(Outstanding(x)') =
            IF d \in Outstanding(x) THEN Cardinality(Outstanding(x))
            ELSE Cardinality(Outstanding(x)) + 1
      BY <2>1, <3>1, FS_AddElement
    <3>3. Cardinality(Outstanding(x)') \in Nat
      BY <2>1, <3>1, FS_AddElement, FS_CardinalityType
    <3>. QED
      BY <1>1, <2>1, <2>2, <3>2, <3>3
  <2>3. CASE x # c
    <3>1. Outstanding(x)' = Outstanding(x)
      BY <1>1, <1>2, <2>3 DEF Outstanding
    <3>. QED
      BY <3>1 DEF LoadLimited
  <2>. QED
    BY <2>2, <2>3
<1>. QED
  BY <1>2, <1>3 DEF LoadLimited, Prefetch

\* The tags in use on the channel are all older than the one of a new delivery.
LEMMA NewTag ==
  ASSUME IInv
  PROVE  /\ \A e \in unacked : e.tag # lastTag + 1
         /\ \A i \in DOMAIN wire : wire[i].tag # lastTag + 1
         /\ \A j \in jobs : Live(j) => \A i \in DOMAIN j.batch : j.batch[i].tag # lastTag + 1
<1>1. /\ lastTag \in Nat /\ wire \in Seq(Frame) /\ unacked \subseteq Delivery
      /\ jobs \subseteq Job
  BY DEF IInv, TypeOK
<1>2. \A i \in DOMAIN wire : wire[i].tag \in Nat
  <2>1. TAKE i \in DOMAIN wire
  <2>2. wire[i] \in Frame
    BY <1>1, LenProperties, ElementOfSeq
  <2>. QED
    BY <2>2 DEF Frame
<1>3. \A j \in jobs : \A i \in DOMAIN j.batch : j.batch[i].tag \in Nat
  <2>1. TAKE j \in jobs
  <2>2. j.batch \in Seq(Delivery)
    BY <1>1 DEF Job
  <2>. QED
    BY <2>2, FramesOf
<1>4. \A e \in unacked : e.tag \in Nat
  BY <1>1 DEF Delivery
<1>. QED
  BY <1>1, <1>2, <1>3, <1>4 DEF IInv, TagsUnique, JobsCurrent, Current

\* What a delivery and the job it is given to change, whether the job is new or
\* a cargo that gathers.
LEMMA DeliverHeld ==
  ASSUME SettlementInv, TypeOK', NEW c \in Consumers, NEW m \in Messages, Deliver(c, m),
         UNCHANGED <<link, channel, gone, handled, faults>>,
         NEW d, d = [tag |-> lastTag + 1, msg |-> m, cons |-> c],
         NEW k, NEW n, k \in jobs \/ k.batch = <<>>, jobs' = (jobs \ {k}) \cup {n},
         k.ch = channel, k.cons = c, k \in jobs => Unfinished(k), k.batch \in Seq(Delivery),
         n.ch = channel, n.cons = c, n.cancelled = k.cancelled, n.batch = Append(k.batch, d),
         \/ wire' = wire /\ Unfinished(n)
         \/ wire' = wire \o Acks(<<d>>) /\ ~ Unfinished(n) /\ k.batch = <<>>,
         k \notin jobs => ~ k.cancelled
  PROVE  DeliveriesHeld' /\ RunsPaid' /\ (SettledOnce => SettledOnce')
<1>1. /\ DeliveriesHeld /\ RunsPaid /\ IInv /\ TypeOK
      /\ link = "open" /\ unacked' = unacked \cup {d} /\ d \in Delivery
      /\ d.tag = lastTag + 1 /\ d.cons = c /\ d.msg = m
      /\ wire \in Seq(Frame)
  BY DEF SettlementInv, IInv, Deliver, TypeOK, Delivery
<1>2. PICK f \in Seq(Frame) :
        /\ wire' = wire \o f
        /\ \A i \in DOMAIN f : f[i].op = "ack" /\ f[i].tag = d.tag
        /\ \A i, l \in DOMAIN f : i = l
        /\ \A i \in DOMAIN wire : i \in DOMAIN wire' /\ wire'[i] = wire[i]
        /\ \A i \in DOMAIN wire' : i \in DOMAIN wire \/ \E l \in DOMAIN f : wire'[i] = f[l]
        /\ Unfinished(n) => wire' = wire
        /\ ~ Unfinished(n) => \E i \in DOMAIN wire' : wire'[i].tag = d.tag
  <2>1. CASE wire' = wire /\ Unfinished(n)
    <3>1. PICK f \in Seq(Frame) : f = <<>>
      BY EmptySeq
    <3>2. wire \o f = wire
      BY <1>1, <3>1, ConcatEmptySeq
    <3>3. DOMAIN f = {}
      BY <3>1
    <3>. QED
      BY <2>1, <3>2, <3>3
  <2>2. CASE wire' = wire \o Acks(<<d>>) /\ ~ Unfinished(n)
    <3>1. <<d>> \in Seq(Delivery) /\ DOMAIN <<d>> = {1} /\ <<d>>[1] = d
      BY <1>1
    <3>2. PICK a : a = Acks(<<d>>)
      OBVIOUS
    <3>3. /\ a \in Seq(Frame) /\ DOMAIN a = {1}
          /\ a[1].op = "ack" /\ a[1].tag = d.tag
      <4>1. PICK b : b = <<d>>
        OBVIOUS
      <4>2. b \in Seq(Delivery) /\ DOMAIN b = {1} /\ b[1] = d
        BY <3>1, <4>1
      <4>3. a = Acks(b)
        BY <3>2, <4>1
      <4>. QED
        BY <4>2, <4>3, FramesOf
    <3>4. /\ wire' = wire \o a
          /\ \A i \in DOMAIN wire : i \in DOMAIN wire' /\ wire'[i] = wire[i]
          /\ Len(wire) + 1 \in DOMAIN wire' /\ wire'[Len(wire) + 1] = a[1]
          /\ \A i \in DOMAIN wire' : i \in DOMAIN wire \/ i = Len(wire) + 1
      <4>1. wire' = wire \o a
        BY <2>2, <3>2
      <4>. QED
        BY <1>1, <3>3, <4>1, Joined
    <3>5. \A i \in DOMAIN wire' : i \in DOMAIN wire \/ \E l \in DOMAIN a : wire'[i] = a[l]
      BY <3>3, <3>4
    <3>6. \E i \in DOMAIN wire' : wire'[i].tag = d.tag
      BY <3>3, <3>4
    <3>7. \A i \in DOMAIN a : a[i].op = "ack" /\ a[i].tag = d.tag
      BY <3>3
    <3>8. \A i, l \in DOMAIN a : i = l
      BY <3>3
    <3>. QED
      BY <2>2, <3>3, <3>4, <3>5, <3>6, <3>7, <3>8
  <2>. QED
    BY <2>1, <2>2
<1>3. /\ \A e \in unacked : e.tag # d.tag
      /\ \A i \in DOMAIN wire : wire[i].tag # d.tag
      /\ \A j \in jobs : Live(j) => \A i \in DOMAIN j.batch : j.batch[i].tag # d.tag
  BY <1>1, NewTag
<1>4. /\ \A i \in DOMAIN n.batch :
           \/ n.batch[i] = d /\ i = Len(k.batch) + 1
           \/ k \in jobs /\ i \in DOMAIN k.batch /\ n.batch[i] = k.batch[i]
      /\ \A i \in DOMAIN k.batch : i \in DOMAIN n.batch /\ n.batch[i] = k.batch[i]
      /\ \E i \in DOMAIN n.batch : n.batch[i] = d
  <2>1. /\ n.batch \in Seq(Delivery) /\ Len(n.batch) = Len(k.batch) + 1
        /\ \A i \in 1..Len(n.batch) :
             n.batch[i] = IF i = Len(k.batch) + 1 THEN d ELSE k.batch[i]
    BY <1>1, AppendProperties
  <2>2. /\ DOMAIN n.batch = 1..Len(n.batch) /\ DOMAIN k.batch = 1..Len(k.batch)
        /\ Len(k.batch) \in Nat
    BY <2>1, LenProperties
  <2>3. k \notin jobs => DOMAIN k.batch = {}
    OBVIOUS
  <2>4. Len(k.batch) + 1 \in DOMAIN n.batch /\ n.batch[Len(k.batch) + 1] = d
    BY <2>1, <2>2
  <2>. QED
    BY <2>1, <2>2, <2>3, <2>4
<1>5. /\ Live(n)' /\ (k \in jobs => Live(k) /\ Unfinished(k))
      /\ \A j \in jobs : Live(j)' <=> Live(j)
      /\ \A j \in jobs' : j = n \/ (j \in jobs /\ j # k)
      /\ n \in jobs' /\ \A j \in jobs : j = k \/ j \in jobs'
  BY <1>1 DEF Live
<1>6. UnackedAccounted'
  <2>1. SUFFICES ASSUME NEW e \in unacked'
                 PROVE  \/ \E i \in DOMAIN wire' : wire'[i].tag = e.tag
                        \/ \E j \in jobs' : /\ Live(j)' /\ Unfinished(j)
                                            /\ \E i \in DOMAIN j.batch : j.batch[i] = e
    BY DEF UnackedAccounted, Unfinished
  <2>2. CASE e = d
    BY <1>2, <1>4, <1>5, <2>2
  <2>3. CASE e \in unacked /\ \E i \in DOMAIN wire : wire[i].tag = e.tag
    BY <1>2, <2>3
  <2>4. ASSUME NEW j \in jobs, Live(j), Unfinished(j), NEW i \in DOMAIN j.batch, j.batch[i] = e
        PROVE  \E x \in jobs' : /\ Live(x)' /\ Unfinished(x)
                                /\ \E y \in DOMAIN x.batch : x.batch[y] = e
    <3>1. CASE j = k
      <4>1. k.batch # <<>> /\ Unfinished(n)
        BY <2>4, <3>1
      <4>. QED
        BY <1>4, <1>5, <2>4, <3>1, <4>1
    <3>2. CASE j # k
      BY <1>5, <2>4, <3>2
    <3>. QED
      BY <3>1, <3>2
  <2>. QED
    BY <1>1, <2>2, <2>3, <2>4 DEF DeliveriesHeld, UnackedAccounted, Unfinished
<1>7. BatchesApart'
  <2>1. SUFFICES ASSUME NEW x \in jobs', NEW y \in jobs', Live(x)', Live(y)',
                        NEW i \in DOMAIN x.batch, NEW l \in DOMAIN y.batch,
                        x.batch[i].tag = y.batch[l].tag
                 PROVE  x = y /\ i = l
    BY DEF BatchesApart
  <2>2. CASE x = n /\ y = n
    <3>1. CASE k \in jobs /\ i \in DOMAIN k.batch /\ l \in DOMAIN k.batch
      BY SMTT(30), <1>4, <1>5, <2>1, <2>2, <3>1, <1>1 DEF DeliveriesHeld, BatchesApart
    <3>2. CASE k \in jobs /\ i \in DOMAIN k.batch /\ n.batch[l] = d
      <4>1. n.batch[i].tag # d.tag
        BY <1>3, <1>4, <1>5, <3>2
      <4>. QED
        BY <2>1, <2>2, <3>2, <4>1
    <3>3. CASE k \in jobs /\ l \in DOMAIN k.batch /\ n.batch[i] = d
      <4>1. n.batch[l].tag # d.tag
        BY <1>3, <1>4, <1>5, <3>3
      <4>. QED
        BY <2>1, <2>2, <3>3, <4>1
    <3>4. CASE i = Len(k.batch) + 1 /\ l = Len(k.batch) + 1
      BY <2>2, <3>4
    <3>. QED
      BY <1>4, <2>1, <2>2, <3>1, <3>2, <3>3, <3>4
  <2>3. ASSUME NEW z \in jobs, z # k, Live(z), NEW r \in DOMAIN n.batch, NEW q \in DOMAIN z.batch,
               n.batch[r].tag = z.batch[q].tag
        PROVE  FALSE
    <3>1. CASE n.batch[r] = d
      BY <1>3, <2>3, <3>1
    <3>2. CASE k \in jobs /\ r \in DOMAIN k.batch /\ n.batch[r] = k.batch[r]
      BY <1>1, <1>5, <2>3, <3>2 DEF DeliveriesHeld, BatchesApart
    <3>. QED
      BY <1>4, <3>1, <3>2
  <2>4. CASE (x = n /\ y # n) \/ (x # n /\ y = n)
    BY <1>5, <2>1, <2>3, <2>4
  <2>5. CASE x # n /\ y # n
    BY <1>5, <2>1, <2>5, <1>1 DEF DeliveriesHeld, BatchesApart
  <2>. QED
    BY <2>2, <2>3, <2>4, <2>5
<1>8. PendingHeld'
  <2>1. SUFFICES ASSUME NEW j \in jobs', Live(j)', Unfinished(j), NEW i \in DOMAIN j.batch
                 PROVE  /\ j.batch[i] \in unacked' /\ j.batch[i].cons = j.cons
                        /\ \A x \in DOMAIN wire' : wire'[x].tag # j.batch[i].tag
    BY DEF PendingHeld, Unfinished, OnWire
  <2>2. CASE j # n
    <3>1. j \in jobs /\ Live(j)
      BY <1>5, <2>1, <2>2
    <3>2. /\ j.batch[i] \in unacked /\ j.batch[i].cons = j.cons
          /\ \A x \in DOMAIN wire : wire[x].tag # j.batch[i].tag
      BY <1>1, <2>1, <3>1 DEF DeliveriesHeld, PendingHeld, OnWire
    <3>3. j.batch[i].tag # d.tag
      BY <1>3, <3>1
    <3>. QED
      BY SMTT(30), <1>1, <1>2, <3>2, <3>3
  <2>3. CASE j = n /\ n.batch[i] = d
    BY <1>1, <1>2, <1>3, <2>1, <2>3
  <2>4. CASE j = n /\ k \in jobs /\ i \in DOMAIN k.batch /\ n.batch[i] = k.batch[i]
    <3>1. /\ k.batch[i] \in unacked /\ k.batch[i].cons = k.cons
          /\ \A x \in DOMAIN wire : wire[x].tag # k.batch[i].tag
      BY <1>1, <1>5, <2>4 DEF DeliveriesHeld, PendingHeld, OnWire
    <3>. QED
      BY <1>1, <1>2, <2>1, <2>4, <3>1
  <2>. QED
    BY <1>4, <2>1, <2>2, <2>3, <2>4
<1>9. LoadLimited'
  BY <1>1, DeliverLimited DEF DeliveriesHeld
<1>10. AckFirst'
  <2>1. AckFirstIn(wire)
    BY <1>1 DEF DeliveriesHeld, AckFirst, AckFirstIn
  <2>2. AckFirstIn(wire \o f)
    BY <1>1, <1>2, <1>3, <2>1, FreshFrames
  <2>. QED
    BY SMTT(30), <1>2, <2>2 DEF AckFirst, AckFirstIn
<1>11. SettledOnce => SettledOnce'
  <2>1. \A i \in DOMAIN wire, l \in DOMAIN f : wire[i].tag # f[l].tag
    BY <1>2, <1>3
  <2>2. d \in unacked' /\ unacked \subseteq unacked'
    BY <1>1
  <2>3. \A l \in DOMAIN f : \E e \in unacked' : e.tag = f[l].tag
    BY <1>2, <2>2
  <2>. QED
    BY <1>1, <1>2, <2>1, <2>2, <2>3, OnceEach
<1>12. RunsPaid'
  <2>1. CrashAhead' => CrashAhead
    <3>1. ~ Lost(n)'
      BY <1>5 DEF Lost
    <3>. QED
      BY <1>5, <3>1 DEF CrashAhead, Lost, Unfinished
  <2>2. ASSUME NEW x \in Messages
        PROVE  (RunAhead(x)' => RunAhead(x)) /\ (Acked(x) => Acked(x)')
    <3>1. RunAhead(x)' => RunAhead(x)
      <4>1. ~ Lost(n)'
        BY <1>5 DEF Lost
      <4>. QED
        BY <1>5, <4>1 DEF RunAhead, Lost, Unfinished, Holds
    <3>2. /\ \A e \in unacked : e \in unacked'
          /\ \A i \in DOMAIN wire : i \in DOMAIN wire' /\ wire'[i] = wire[i]
          /\ gone' = gone
      BY <1>1, <1>2
    <3>3. ASSUME NEW e \in unacked, NEW i \in DOMAIN wire,
                 e.msg = x, wire[i].op = "ack", wire[i].tag = e.tag
          PROVE  Acked(x)'
      <4>1. e \in unacked' /\ i \in DOMAIN wire' /\ wire'[i] = wire[i]
        BY <3>2
      <4>. QED
        BY <3>3, <4>1 DEF Acked
    <3>4. x \in gone => Acked(x)'
      BY <3>2 DEF Acked
    <3>. QED
      BY <3>1, <3>3, <3>4 DEF Acked
  <2>3. StrandingAhead' => StrandingAhead
    BY <1>5, <1>11 DEF StrandingAhead
  <2>. QED
    BY <1>1, <2>1, <2>2, <2>3, AccountKept DEF RunsPaid
<1>. QED
  BY <1>6, <1>7, <1>8, <1>9, <1>10, <1>11, <1>12 DEF DeliveriesHeld

LEMMA ReceiveMessageHeld ==
  ASSUME SettlementInv, TypeOK', NEW c \in Consumers, NEW m \in Messages,
         ReceiveMessage(c, m)
  PROVE  DeliveriesHeld' /\ RunsPaid' /\ (SettledOnce => SettledOnce')
\* A job starts with the delivery as its batch, as if it had gathered nothing.
<1>1. PICK d : d = [tag |-> lastTag + 1, msg |-> m, cons |-> c]
  OBVIOUS
<1>2. PICK k : k = [ch |-> channel, cons |-> c, batch |-> <<>>, cancelled |-> FALSE,
                    pc |-> "none"]
  OBVIOUS
<1>3. PICK pc \in {"dropping", "handling"} :
        /\ jobs' = jobs \cup {[ch |-> channel, cons |-> c, batch |-> <<d>>,
                               cancelled |-> FALSE, pc |-> pc]}
        /\ \/ wire' = wire /\ pc = "handling"
           \/ wire' = wire \o Acks(<<d>>) /\ pc = "dropping"
  BY <1>1 DEF ReceiveMessage
<1>4. PICK n : n = [ch |-> channel, cons |-> c, batch |-> <<d>>, cancelled |-> FALSE,
                    pc |-> pc]
  OBVIOUS
<1>5. k \notin jobs
  BY <1>2 DEF SettlementInv, IInv, TypeOK, Job
<1>6. jobs' = (jobs \ {k}) \cup {n}
  BY <1>3, <1>4, <1>5
<1>7. /\ k.ch = channel /\ k.cons = c /\ k.batch = <<>> /\ ~ k.cancelled
      /\ n.ch = channel /\ n.cons = c /\ n.cancelled = k.cancelled
      /\ n.batch = <<d>> /\ n.pc = pc
  BY <1>2, <1>4
<1>8. n.batch = Append(k.batch, d) /\ k.batch \in Seq(Delivery)
  BY <1>7
<1>9. \/ wire' = wire /\ Unfinished(n)
      \/ wire' = wire \o Acks(<<d>>) /\ ~ Unfinished(n) /\ k.batch = <<>>
  BY <1>3, <1>7 DEF Unfinished
<1>10. Deliver(c, m) /\ UNCHANGED <<link, channel, gone, handled, faults>>
  BY DEF ReceiveMessage
<1>. QED
  BY <1>1, <1>5, <1>6, <1>7, <1>8, <1>9, <1>10, DeliverHeld

LEMMA PushHeld ==
  ASSUME SettlementInv, TypeOK', NEW c \in Consumers, NEW m \in Messages, Push(c, m)
  PROVE  DeliveriesHeld' /\ RunsPaid' /\ (SettledOnce => SettledOnce')
<1>1. PICK d : d = [tag |-> lastTag + 1, msg |-> m, cons |-> c]
  OBVIOUS
<1>2. PICK k \in IF Gathering(c) = {} THEN {NewCargo(c)} ELSE Gathering(c) :
        jobs' = (jobs \ {k}) \cup {[k EXCEPT !.batch = Append(@, d)]}
  BY <1>1 DEF Push
<1>3. k \in Job /\ k.ch = channel /\ (k \in jobs \/ k.batch = <<>>)
  BY <1>2, CargoType DEF SettlementInv, IInv
<1>4. k.cons = c /\ k.pc = "gathering" /\ (k \notin jobs => ~ k.cancelled)
  BY <1>2 DEF Gathering, NewCargo
<1>5. PICK n : n = [k EXCEPT !.batch = Append(@, d)]
  OBVIOUS
<1>6. /\ n.ch = channel /\ n.cons = c /\ n.cancelled = k.cancelled
      /\ n.batch = Append(k.batch, d) /\ n.pc = "gathering" /\ k.batch \in Seq(Delivery)
  BY <1>3, <1>4, <1>5 DEF Job
<1>7. Unfinished(k) /\ Unfinished(n)
  BY <1>4, <1>6 DEF Unfinished
<1>8. jobs' = (jobs \ {k}) \cup {n}
  BY <1>2, <1>5
<1>9. Deliver(c, m) /\ UNCHANGED <<link, channel, gone, handled, faults, wire>>
  BY DEF Push
<1>. QED
  BY <1>1, <1>3, <1>4, <1>6, <1>7, <1>8, <1>9, DeliverHeld

----------------------------------------------------------------------------
(* Every step. *)

\* A publication refused while a job waits for its confirms.
LEMMA ConfirmsRejectHeld ==
  ASSUME SettlementInv, TypeOK', NEW j \in jobs, ConfirmsReject(j)
  PROVE  DeliveriesHeld' /\ RunsPaid'
<1>1. /\ gone' = gone /\ handled' = handled /\ faults' = faults + 1
      /\ Reject(j) \/ Crash
  BY DEF ConfirmsReject, Disturbance
<1>. QED
  BY <1>1, RejectHeld, CrashHeld

\* Where no settlement is written twice, no job is ever told of a cancellation.
LEMMA NoneCancelledStep ==
  ASSUME TypeOK, SingleSettlement, NoneCancelled, Next
  PROVE  NoneCancelled'
<1>1. \A j \in jobs : \A pc : [j EXCEPT !.pc = pc].cancelled = j.cancelled
  BY DEF TypeOK, Job
<1>2. CASE Restart \/ Connect \/ ConnectionLost \/ Kill \/ BrokerSettles
  BY <1>2 DEF Restart, Connect, ConnectionLost, Kill, Crash, BrokerSettles, NoneCancelled
<1>3. ASSUME NEW c \in Consumers, Subscribe(c) \/ Cancel(c)
      PROVE  jobs' = jobs
  BY <1>3, ConsumerAssumption DEF Subscribe, Cancel, Disturbance, SingleSettlement
<1>4. ASSUME NEW c \in Consumers, NEW m \in Messages, ReceiveMessage(c, m)
      PROVE  NoneCancelled'
  BY <1>4 DEF ReceiveMessage, NoneCancelled
<1>5. ASSUME NEW c \in Consumers, NEW m \in Messages, Push(c, m)
      PROVE  NoneCancelled'
  <2>1. PICK d : d = [tag |-> lastTag + 1, msg |-> m, cons |-> c]
    OBVIOUS
  <2>2. PICK k \in IF Gathering(c) = {} THEN {NewCargo(c)} ELSE Gathering(c) :
          jobs' = (jobs \ {k}) \cup {[k EXCEPT !.batch = Append(@, d)]}
    BY <1>5, <2>1 DEF Push
  <2>3. k \in Job /\ ~ k.cancelled
    BY <2>2, CargoType DEF Gathering, NewCargo, NoneCancelled
  <2>4. ~ [k EXCEPT !.batch = Append(@, d)].cancelled
    BY <2>3 DEF Job
  <2>. QED
    BY <2>2, <2>4 DEF NoneCancelled
<1>6. ASSUME NEW j \in jobs, \/ Flush(j) \/ HandlerResolves(j) \/ HandlerRejects(j)
                             \/ ConfirmsResolve(j) \/ ConfirmsReject(j)
      PROVE  NoneCancelled'
  <2>1. \/ jobs' = {} \/ jobs' = jobs \ {j}
        \/ \E pc : jobs' = (jobs \ {j}) \cup {[j EXCEPT !.pc = pc]}
    BY <1>6 DEF Flush, HandlerResolves, HandlerRejects, ConfirmsResolve, ConfirmsReject,
                Commit, Reject, Crash, MoveTo
  <2>. QED
    BY <1>1, <2>1 DEF NoneCancelled
<1>. QED
  BY <1>2, <1>3, <1>4, <1>5, <1>6 DEF Next, NoneCancelled

\* Every step preserves the second invariant, and SettledOnce where the channel
\* and the batches allow it.
LEMMA SettlementStep ==
  ASSUME SettlementInv, [Next]_vars
  PROVE  /\ SettlementInv'
         /\ SingleSettlement /\ NoneCancelled /\ SettledOnce => NoneCancelled' /\ SettledOnce'
<1>1. IInv' /\ TypeOK'
  BY InvStep DEF SettlementInv, IInv
<1>2. SUFFICES /\ DeliveriesHeld' /\ RunsPaid'
               /\ SingleSettlement /\ NoneCancelled /\ SettledOnce => SettledOnce'
  <2>1. ASSUME UNCHANGED vars, NoneCancelled
        PROVE  NoneCancelled'
    BY <2>1 DEF vars, NoneCancelled
  <2>. QED
    BY <1>1, <2>1, NoneCancelledStep DEF SettlementInv, IInv
<1>3. CASE Restart \/ Connect
  BY <1>3, LinkHeld DEF Restart, Connect, SettledOnce
<1>4. CASE ConnectionLost
  <2>1. /\ Requeue /\ link' # "open" /\ UNCHANGED <<channel, gone, handled, jobs>>
        /\ faults' = faults + 1
    BY <1>4 DEF ConnectionLost, Disturbance
  <2>. QED
    BY <1>1, <2>1, ChannelGoneHeld, NothingHeld DEF Live
<1>5. CASE Kill
  <2>1. Crash /\ gone' = gone /\ handled' = handled /\ faults' = faults + 1
    BY <1>5 DEF Kill, Disturbance
  <2>. QED
    BY <1>1, <2>1, CrashHeld, NothingHeld DEF Crash
<1>6. CASE BrokerSettles
  BY <1>1, <1>6, BrokerSettlesHeld
<1>7. ASSUME NEW c \in Consumers, Cancel(c)
      PROVE  DeliveriesHeld' /\ RunsPaid' /\ (SettledOnce => SettledOnce')
  BY <1>1, <1>7, CancelHeld
<1>8. ASSUME NEW c \in Consumers, NEW m \in Messages, ReceiveMessage(c, m) \/ Push(c, m)
      PROVE  DeliveriesHeld' /\ RunsPaid' /\ (SettledOnce => SettledOnce')
  BY <1>1, <1>8, ReceiveMessageHeld, PushHeld
<1>9. ASSUME NEW j \in jobs, Flush(j) \/ ConfirmsResolve(j)
      PROVE  DeliveriesHeld' /\ RunsPaid' /\ (SettledOnce => SettledOnce')
  BY <1>1, <1>9, FlushHeld, ConfirmsResolveHeld
<1>10. ASSUME NEW j \in jobs, HandlerResolves(j)
       PROVE  DeliveriesHeld' /\ RunsPaid' /\ (NoneCancelled /\ SettledOnce => SettledOnce')
  BY <1>1, <1>10, HandlerResolvesHeld DEF NoneCancelled
<1>11. ASSUME NEW j \in jobs, HandlerRejects(j)
       PROVE  DeliveriesHeld' /\ RunsPaid' /\ (SettledOnce => SettledOnce')
  BY <1>1, <1>11, RejectHeld DEF HandlerRejects, Disturbance, Unfinished
<1>12. ASSUME NEW j \in jobs, ConfirmsReject(j)
       PROVE  DeliveriesHeld' /\ RunsPaid' /\ ~ SingleSettlement
  BY <1>1, <1>12, ConfirmsRejectHeld DEF ConfirmsReject, Disturbance, SingleSettlement
<1>13. ASSUME UNCHANGED <<link, channel, unacked, gone, wire, jobs, handled, faults>>
       PROVE  DeliveriesHeld' /\ RunsPaid' /\ (SettledOnce => SettledOnce')
  <2>1. \A j \in jobs : (Live(j)' <=> Live(j)) /\ (Lost(j)' <=> Lost(j))
    BY <1>13 DEF Live, Lost, Unfinished
  <2>2. DeliveriesHeld'
    BY <1>13, <2>1 DEF SettlementInv, DeliveriesHeld, UnackedAccounted, BatchesApart,
         PendingHeld, LoadLimited, Outstanding, AckFirst, OnWire, Unfinished
  <2>3. /\ CrashAhead' <=> CrashAhead
        /\ \A m \in Messages : (RunAhead(m)' <=> RunAhead(m)) /\ (Acked(m)' <=> Acked(m))
        /\ StrandingAhead' <=> StrandingAhead
        /\ SettledOnce' <=> SettledOnce
    BY <1>13, <2>1
       DEF CrashAhead, RunAhead, Holds, StrandingAhead, SettledOnce, Acked
  <2>4. RunsPaid'
    BY <1>13, <2>3 DEF SettlementInv, RunsPaid, Paid, RunsOwed
  <2>. QED
    BY <2>2, <2>3, <2>4
<1>14. CASE UNCHANGED vars \/ \E c \in Consumers : Subscribe(c)
  BY <1>13, <1>14 DEF vars, Subscribe
<1>. QED
  BY <1>3, <1>4, <1>5, <1>6, <1>7, <1>8, <1>9, <1>10, <1>11, <1>12, <1>14 DEF Next

LEMMA SettlementInit == Init => SettlementInv /\ NoneCancelled /\ SettledOnce
<1>. SUFFICES ASSUME Init PROVE SettlementInv /\ NoneCancelled /\ SettledOnce
  OBVIOUS
<1>1. /\ unacked = {} /\ wire = <<>> /\ DOMAIN wire = {} /\ jobs = {} /\ gone = {}
      /\ handled = [m \in Messages |-> 0] /\ faults = 0
  BY DEF Init
<1>2. IInv
  BY InvInit
<1>3. LoadLimited
  <2>1. \A c \in Consumers : Outstanding(c) = {}
    BY <1>1 DEF Outstanding
  <2>2. Prefetch \in Nat
    BY ConsumerAssumption DEF Prefetch
  <2>3. IsFiniteSet({}) /\ Cardinality({}) = 0
    BY FS_EmptySet
  <2>4. IsFiniteSet(unacked)
    BY <1>1, <2>3
  <2>5. \A c \in Consumers : Cardinality(Outstanding(c)) <= Prefetch
    BY <2>1, <2>2, <2>3
  <2>. QED
    BY <2>4, <2>5 DEF LoadLimited
<1>4. DeliveriesHeld /\ SettledOnce /\ NoneCancelled
  BY <1>1, <1>3 DEF DeliveriesHeld, UnackedAccounted, BatchesApart, PendingHeld, AckFirst,
                    SettledOnce, NoneCancelled
<1>5. ASSUME NEW m \in Messages
      PROVE  Paid(m)
  <2>1. ~ RunAhead(m) /\ ~ CrashAhead /\ ~ StrandingAhead
    BY <1>1, <1>4 DEF RunAhead, CrashAhead, StrandingAhead
  <2>2. handled[m] = 0
    BY <1>1
  <2>. QED
    BY <1>1, <2>1, <2>2 DEF Paid, RunsOwed
<1>. QED
  BY <1>2, <1>4, <1>5 DEF SettlementInv, RunsPaid

\* The second inductive invariant holds in every reachable state.
THEOREM SettlementInvariance == Spec => []SettlementInv
BY SettlementInit, SettlementStep, PTL DEF Spec

\* The consumer forgets no delivery: one the broker waits for is in the batch of
\* a job that will settle it on this channel, or its settlement is under way.
THEOREM DeliveriesAccounted == Spec => []UnackedAccounted
<1>1. SettlementInv => UnackedAccounted
  BY DEF SettlementInv, DeliveriesHeld
<1>. QED
  BY <1>1, SettlementInvariance, PTL

\* Back pressure: the worker calls back before its handler has run, and still the
\* handlers of a consumer work on no more messages than its prefetch count, since
\* each of them is a delivery the broker counts.
THEOREM LoadBounded == Spec => []HandlerLoadBounded
<1>1. ASSUME SettlementInv, NEW c \in Consumers
      PROVE  Cardinality(Handling(c)) <= Prefetch
  <2>1. ASSUME NEW e \in Handling(c)
        PROVE  e \in Outstanding(c)
    <3>1. PICK j \in jobs : /\ j.cons = c /\ j.pc = "handling" /\ Live(j)
                            /\ \E i \in DOMAIN j.batch : e = j.batch[i]
      BY DEF Handling
    <3>. QED
      BY <1>1, <3>1 DEF SettlementInv, DeliveriesHeld, PendingHeld, Unfinished, Outstanding
  <2>2. IsFiniteSet(unacked) /\ Outstanding(c) \in SUBSET unacked
    BY <1>1 DEF SettlementInv, DeliveriesHeld, LoadLimited, Outstanding
  <2>3. IsFiniteSet(Outstanding(c))
    BY <2>2, FS_Subset
  <2>4. Handling(c) \in SUBSET Outstanding(c)
    BY <2>1
  <2>5. /\ Cardinality(Handling(c)) <= Cardinality(Outstanding(c))
        /\ Cardinality(Handling(c)) \in Nat /\ Cardinality(Outstanding(c)) \in Nat
    BY <2>3, <2>4, FS_Subset, FS_CardinalityType
  <2>6. Cardinality(Outstanding(c)) <= Prefetch /\ Prefetch \in Nat
    BY <1>1, ConsumerAssumption DEF SettlementInv, DeliveriesHeld, LoadLimited, Prefetch
  <2>. QED
    BY <2>5, <2>6
<1>2. SettlementInv => HandlerLoadBounded
  BY <1>1 DEF HandlerLoadBounded, Prefetch
<1>. QED
  BY <1>2, SettlementInvariance, PTL

\* A message is handled once, and up to twice more for every disturbance: a
\* handler that outlives its channel ends in a crash, which may lose the
\* settlements of others, and a settlement written twice strands the channel.
THEOREM RunsBounded == Spec => []DuplicatesBounded
<1>1. SettlementInv => DuplicatesBounded
  <2>1. SUFFICES ASSUME SettlementInv, NEW m \in Messages
                 PROVE  handled[m] <= 1 + 2 * faults
    BY DEF DuplicatesBounded
  <2>2. handled[m] \in Nat /\ faults \in Nat /\ Paid(m)
    BY <2>1 DEF SettlementInv, IInv, TypeOK, RunsPaid
  <2>3. RunsOwed(m) \in Nat
    BY DEF RunsOwed
  <2>. QED
    BY <2>2, <2>3 DEF Paid
<1>. QED
  BY <1>1, SettlementInvariance, PTL

\* Where nothing published on the channel is refused and no consumer with a cargo
\* is cancelled, every delivery is settled at most once, so that the broker never
\* closes the channel on an unknown tag.
THEOREM NothingSettledTwice ==
  ASSUME SingleSettlement
  PROVE  Spec => []SettledOnce
<1>. DEFINE J == SettlementInv /\ NoneCancelled /\ SettledOnce
<1>1. Init => J
  BY SettlementInit
<1>2. J /\ [Next]_vars => J'
  BY SettlementStep
<1>3. J => SettledOnce
  OBVIOUS
<1>. QED
  BY <1>1, <1>2, <1>3, PTL DEF Spec
=============================================================================

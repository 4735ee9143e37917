------------------------ MODULE RabbitConsumerProofs ------------------------
(***************************************************************************)
(* Proofs about RabbitConsumer, for any set of messages and consumers, any *)
(* batch size, prefetch count and number of disturbances.                  *)
(*                                                                         *)
(* One lemma per action (or per shared part of several) shows that a step  *)
(* preserves the inductive invariant IInv.                                 *)
(***************************************************************************)
EXTENDS RabbitConsumer, SequenceTheorems, TLAPS

----------------------------------------------------------------------------
(* What the helpers build. *)

\* One acknowledgement per delivery, in order, with its tag.
LEMMA AcksOf ==
  ASSUME NEW b \in Seq(Delivery)
  PROVE  /\ Acks(b) \in Seq(Frame)
         /\ Len(Acks(b)) = Len(b)
         /\ \A i \in 1..Len(b) : Acks(b)[i] = [op |-> "ack", tag |-> b[i].tag]
<1>1. Len(b) \in Nat
  BY LenProperties
<1>2. \A i \in 1..Len(b) : b[i] \in Delivery
  BY ElementOfSeq
<1>3. \A i \in 1..Len(b) : [op |-> "ack", tag |-> b[i].tag] \in Frame
  BY <1>2 DEF Delivery, Frame
<1>. QED
  BY <1>1, <1>3 DEF Acks

\* One rejection per delivery, in order, with its tag.
LEMMA RejectsOf ==
  ASSUME NEW b \in Seq(Delivery)
  PROVE  /\ Rejects(b) \in Seq(Frame)
         /\ Len(Rejects(b)) = Len(b)
         /\ \A i \in 1..Len(b) :
              Rejects(b)[i] = [op |-> "reject", tag |-> b[i].tag]
<1>1. Len(b) \in Nat
  BY LenProperties
<1>2. \A i \in 1..Len(b) : b[i] \in Delivery
  BY ElementOfSeq
<1>3. \A i \in 1..Len(b) : [op |-> "reject", tag |-> b[i].tag] \in Frame
  BY <1>2 DEF Delivery, Frame
<1>. QED
  BY <1>1, <1>3 DEF Rejects

\* A job that moves on keeps everything but its pc.
LEMMA JobMoved ==
  ASSUME NEW j \in Job,
         NEW pc \in {"gathering", "handling", "committing", "dropping",
                     "rejecting"}
  PROVE  /\ [j EXCEPT !.pc = pc] \in Job
         /\ [j EXCEPT !.pc = pc].ch = j.ch
         /\ [j EXCEPT !.pc = pc].cons = j.cons
         /\ [j EXCEPT !.pc = pc].batch = j.batch
         /\ [j EXCEPT !.pc = pc].cancelled = j.cancelled
         /\ [j EXCEPT !.pc = pc].pc = pc
BY DEF Job

\* The frames of a longer wire are those that were there and those appended.
LEMMA Appended ==
  ASSUME NEW w \in Seq(Frame), NEW f \in Seq(Frame)
  PROVE  /\ w \o f \in Seq(Frame)
         /\ \A i \in DOMAIN (w \o f) :
              \/ \E k \in DOMAIN w : (w \o f)[i] = w[k]
              \/ \E k \in DOMAIN f : (w \o f)[i] = f[k]
<1>1. /\ w \o f \in Seq(Frame)
      /\ Len(w \o f) = Len(w) + Len(f)
      /\ \A i \in 1 .. Len(w) + Len(f) :
           (w \o f)[i] = IF i <= Len(w) THEN w[i] ELSE f[i - Len(w)]
  BY ConcatProperties
<1>2. /\ Len(w) \in Nat /\ DOMAIN w = 1..Len(w)
      /\ Len(f) \in Nat /\ DOMAIN f = 1..Len(f)
      /\ DOMAIN (w \o f) = 1..Len(w \o f)
  BY <1>1, LenProperties
<1>3. ASSUME NEW i \in DOMAIN (w \o f)
      PROVE  \/ \E k \in DOMAIN w : (w \o f)[i] = w[k]
             \/ \E k \in DOMAIN f : (w \o f)[i] = f[k]
  <2>1. CASE i <= Len(w)
    <3>1. i \in DOMAIN w /\ (w \o f)[i] = w[i]
      BY <1>1, <1>2, <1>3, <2>1
    <3>. QED
      BY <3>1
  <2>2. CASE i > Len(w)
    <3>1. i - Len(w) \in DOMAIN f /\ (w \o f)[i] = f[i - Len(w)]
      BY <1>1, <1>2, <1>3, <2>2
    <3>. QED
      BY <3>1
  <2>. QED
    BY <1>1, <1>2, <2>1, <2>2
<1>. QED
  BY <1>1, <1>3

\* The frames of the tail of the wire were on the wire.
LEMMA TailFrames ==
  ASSUME NEW w \in Seq(Frame), w # <<>>
  PROVE  /\ Tail(w) \in Seq(Frame)
         /\ Head(w) = w[1] /\ 1 \in DOMAIN w
         /\ \A i \in DOMAIN Tail(w) : \E k \in DOMAIN w : Tail(w)[i] = w[k]
<1>1. /\ Tail(w) \in Seq(Frame)
      /\ Len(Tail(w)) = Len(w) - 1
      /\ \A i \in 1 .. Len(Tail(w)) : Tail(w)[i] = w[i+1]
  BY HeadTailProperties
<1>2. /\ Len(w) \in Nat /\ Len(w) # 0 /\ DOMAIN w = 1..Len(w)
      /\ DOMAIN Tail(w) = 1..Len(Tail(w))
  BY <1>1, LenProperties, EmptySeq
<1>3. Head(w) = w[1] /\ 1 \in DOMAIN w
  BY <1>2
<1>4. ASSUME NEW i \in DOMAIN Tail(w)
      PROVE  \E k \in DOMAIN w : Tail(w)[i] = w[k]
  <2>1. i + 1 \in DOMAIN w /\ Tail(w)[i] = w[i+1]
    BY <1>1, <1>2
  <2>. QED
    BY <2>1
<1>. QED
  BY <1>1, <1>3, <1>4

----------------------------------------------------------------------------
(* Types. *)

\* Every state component keeps its type when a channel is lost.
LEMMA RequeueType ==
  ASSUME TypeOK, Requeue
  PROVE  /\ ready' \subseteq Messages
         /\ unacked' \subseteq Delivery
         /\ wire' \in Seq(Frame)
         /\ lastTag' \in Nat
         /\ consumer' \in [Consumers -> {"setup", "subscribed", "cancelled"}]
<1>1. <<>> \in Seq(Frame)
  BY EmptySeq
<1>. QED
  BY <1>1 DEF TypeOK, Requeue, Delivery

LEMMA CrashType ==
  ASSUME TypeOK, Crash, gone' \subseteq Messages,
         handled' \in [Messages -> Nat], faults' \in Nat
  PROVE  TypeOK'
<1>1. Requeue /\ link' = "crashed" /\ channel' = 0 /\ jobs' = {}
  BY DEF Crash
<1>. QED
  BY <1>1, RequeueType DEF TypeOK

\* Settling a job writes frames of the right type.
LEMMA CommitType ==
  ASSUME TypeOK, NEW j \in jobs, Commit(j), gone' \subseteq Messages,
         handled' \in [Messages -> Nat], faults' \in Nat
  PROVE  TypeOK'
<1>1. CASE Crash
  BY <1>1, CrashType
<1>2. CASE ~ Crash
  <2>1. j \in Job /\ j.batch \in Seq(Delivery)
    BY DEF TypeOK, Job
  <2>2. Acks(j.batch) \in Seq(Frame) /\ Rejects(j.batch) \in Seq(Frame)
    BY <2>1, AcksOf, RejectsOf
  <2>3. wire \in Seq(Frame)
    BY DEF TypeOK
  <2>4. wire \o Acks(j.batch) \in Seq(Frame)
    BY <2>2, <2>3, Appended
  <2>5. (wire \o Acks(j.batch)) \o Rejects(j.batch) \in Seq(Frame)
    BY <2>2, <2>4, Appended
  <2>6. [j EXCEPT !.pc = "rejecting"] \in Job /\ [j EXCEPT !.pc = "committing"] \in Job
    BY <2>1, JobMoved
  <2>7. wire' \in Seq(Frame) /\ jobs' \subseteq Job
    BY <1>2, <2>4, <2>5, <2>6 DEF Commit, MoveTo, TypeOK
  <2>8. UNCHANGED <<link, channel, consumer, ready, unacked, lastTag>>
    BY <1>2 DEF Commit
  <2>. QED
    BY <2>7, <2>8 DEF TypeOK
<1>. QED
  BY <1>1, <1>2

LEMMA RejectType ==
  ASSUME TypeOK, NEW j \in jobs, Reject(j), gone' \subseteq Messages,
         handled' \in [Messages -> Nat], faults' \in Nat
  PROVE  TypeOK'
<1>1. CASE Crash
  BY <1>1, CrashType
<1>2. CASE ~ Crash
  <2>1. j \in Job /\ j.batch \in Seq(Delivery)
    BY DEF TypeOK, Job
  <2>2. wire \in Seq(Frame) /\ Rejects(j.batch) \in Seq(Frame)
    BY <2>1, RejectsOf DEF TypeOK
  <2>3. wire \o Rejects(j.batch) \in Seq(Frame)
    BY <2>2, Appended
  <2>4. [j EXCEPT !.pc = "rejecting"] \in Job
    BY <2>1, JobMoved
  <2>5. wire' \in Seq(Frame) /\ jobs' \subseteq Job
    BY <1>2, <2>3, <2>4 DEF Reject, MoveTo, TypeOK
  <2>6. UNCHANGED <<link, channel, consumer, ready, unacked, lastTag>>
    BY <1>2 DEF Reject
  <2>. QED
    BY <2>5, <2>6 DEF TypeOK
<1>. QED
  BY <1>1, <1>2

\* The cargo a delivery or a cancellation joins is a job of c on the channel.
LEMMA CargoType ==
  ASSUME TypeOK, NEW c \in Consumers,
         NEW j \in IF Gathering(c) = {} THEN {NewCargo(c)} ELSE Gathering(c)
  PROVE  /\ j \in Job
         /\ j \in jobs \/ j.batch = <<>>
         /\ j.ch = channel /\ j.pc = "gathering"
<1>1. <<>> \in Seq(Delivery)
  BY EmptySeq
<1>2. NewCargo(c) \in Job
  BY <1>1 DEF NewCargo, Job, TypeOK
<1>3. j = NewCargo(c) \/ j \in Gathering(c)
  OBVIOUS
<1>4. CASE j = NewCargo(c)
  <2>1. j.batch = <<>> /\ j.ch = channel /\ j.pc = "gathering"
    BY <1>4 DEF NewCargo
  <2>. QED
    BY <1>2, <1>4, <2>1
<1>5. CASE j \in Gathering(c)
  BY <1>5 DEF Gathering, TypeOK
<1>. QED
  BY <1>3, <1>4, <1>5

\* Every step keeps every state component in its type.
LEMMA TypeStep ==
  ASSUME TypeOK, [Next]_vars
  PROVE  TypeOK'
<1>1. CASE Restart
  BY <1>1 DEF Restart, TypeOK
<1>2. CASE Connect
  BY <1>2 DEF Connect, TypeOK
<1>3. CASE ConnectionLost
  <2>1. Requeue /\ link' = "down" /\ faults' = faults + 1
    BY <1>3 DEF ConnectionLost, Disturbance
  <2>. QED
    BY <1>3, <2>1, RequeueType DEF ConnectionLost, TypeOK
<1>4. CASE Kill
  <2>1. Crash /\ faults' \in Nat /\ gone' = gone /\ handled' = handled
    BY <1>4 DEF Kill, Disturbance, TypeOK
  <2>. QED
    BY <2>1, CrashType DEF TypeOK
<1>5. CASE BrokerSettles
  <2>1. ASSUME NEW d \in unacked,
               unacked' = unacked \ {d}, wire' = Tail(wire),
               \/ gone' = gone \cup {d.msg} /\ UNCHANGED ready
               \/ ready' = ready \cup {d.msg} /\ UNCHANGED gone,
               UNCHANGED <<link, consumer, lastTag>>
        PROVE  TypeOK'
    <3>1. Tail(wire) \in Seq(Frame)
      BY <1>5, TailFrames DEF BrokerSettles, TypeOK
    <3>2. d.msg \in Messages
      BY <2>1 DEF TypeOK, Delivery
    <3>. QED
      BY <1>5, <2>1, <3>1, <3>2 DEF BrokerSettles, TypeOK
  <2>2. CASE link' = "stranded" /\ Requeue /\ UNCHANGED gone
    BY <1>5, <2>2, RequeueType DEF BrokerSettles, TypeOK
  <2>. QED
    BY <1>5, <2>1, <2>2 DEF BrokerSettles
<1>6. ASSUME NEW c \in Consumers, Subscribe(c)
      PROVE  TypeOK'
  BY <1>6 DEF Subscribe, TypeOK
<1>7. ASSUME NEW c \in Consumers, Cancel(c)
      PROVE  TypeOK'
  <2>1. jobs' \subseteq Job
    <3>1. ASSUME NEW j \in IF Gathering(c) = {} THEN {NewCargo(c)} ELSE Gathering(c)
          PROVE  [j EXCEPT !.cancelled = TRUE] \in Job
      <4>1. j \in Job
        BY CargoType
      <4>. QED
        BY <4>1 DEF Job
    <3>. QED
      BY <1>7, <3>1 DEF Cancel, TypeOK
  <2>2. consumer' \in [Consumers -> {"setup", "subscribed", "cancelled"}]
    BY <1>7 DEF Cancel, TypeOK
  <2>. QED
    BY <1>7, <2>1, <2>2 DEF Cancel, Disturbance, TypeOK
<1>8. ASSUME NEW c \in Consumers, NEW m \in Messages, ReceiveMessage(c, m)
      PROVE  TypeOK'
  <2>. DEFINE d == [tag |-> lastTag + 1, msg |-> m, cons |-> c]
  <2>1. d \in Delivery
    BY DEF Delivery, TypeOK
  <2>2. <<d>> \in Seq(Delivery)
    BY <2>1
  <2>3. wire \o Acks(<<d>>) \in Seq(Frame)
    BY <2>2, AcksOf, Appended DEF TypeOK
  <2>4. \A pc \in {"dropping", "handling"} :
          [ch |-> channel, cons |-> c, batch |-> <<d>>, cancelled |-> FALSE,
           pc |-> pc] \in Job
    BY <2>2 DEF Job, TypeOK
  <2>5. wire' \in Seq(Frame) /\ jobs' \subseteq Job
    BY <1>8, <2>3, <2>4 DEF ReceiveMessage, TypeOK
  <2>6. ready' \subseteq Messages /\ unacked' \subseteq Delivery /\ lastTag' \in Nat
    BY <1>8, <2>1 DEF ReceiveMessage, Deliver, TypeOK
  <2>. QED
    BY <1>8, <2>5, <2>6 DEF ReceiveMessage, TypeOK
<1>9. ASSUME NEW c \in Consumers, NEW m \in Messages, Push(c, m)
      PROVE  TypeOK'
  <2>. DEFINE d == [tag |-> lastTag + 1, msg |-> m, cons |-> c]
  <2>1. d \in Delivery
    BY DEF Delivery, TypeOK
  <2>2. ASSUME NEW j \in IF Gathering(c) = {} THEN {NewCargo(c)} ELSE Gathering(c)
        PROVE  [j EXCEPT !.batch = Append(@, d)] \in Job
    <3>1. j \in Job
      BY CargoType
    <3>2. Append(j.batch, d) \in Seq(Delivery)
      BY <2>1, <3>1, AppendProperties DEF Job
    <3>. QED
      BY <3>1, <3>2 DEF Job
  <2>3. jobs' \subseteq Job
    BY <1>9, <2>2 DEF Push, TypeOK
  <2>4. ready' \subseteq Messages /\ unacked' \subseteq Delivery /\ lastTag' \in Nat
    BY <1>9, <2>1 DEF Push, Deliver, TypeOK
  <2>. QED
    BY <1>9, <2>3, <2>4 DEF Push, TypeOK
<1>10. ASSUME NEW j \in jobs, Flush(j)
       PROVE  TypeOK'
  <2>1. [j EXCEPT !.pc = "handling"] \in Job
    BY JobMoved DEF TypeOK
  <2>. QED
    BY <1>10, <2>1 DEF Flush, MoveTo, TypeOK
<1>11. ASSUME NEW j \in jobs, HandlerResolves(j)
       PROVE  TypeOK'
  <2>1. /\ Commit(j) /\ gone' = gone /\ faults' = faults
        /\ handled' \in [Messages -> Nat]
    BY <1>11 DEF HandlerResolves, TypeOK
  <2>. QED
    BY <2>1, CommitType DEF TypeOK
<1>12. ASSUME NEW j \in jobs, HandlerRejects(j)
       PROVE  TypeOK'
  <2>1. Reject(j) /\ gone' = gone /\ handled' = handled /\ faults' \in Nat
    BY <1>12 DEF HandlerRejects, Disturbance, TypeOK
  <2>. QED
    BY <2>1, RejectType DEF TypeOK
<1>13. ASSUME NEW j \in jobs, ConfirmsResolve(j)
       PROVE  TypeOK'
  BY <1>13 DEF ConfirmsResolve, TypeOK
<1>14. ASSUME NEW j \in jobs, ConfirmsReject(j)
       PROVE  TypeOK'
  <2>1. gone' = gone /\ handled' = handled /\ faults' \in Nat
    BY <1>14 DEF ConfirmsReject, Disturbance, TypeOK
  <2>2. Reject(j) \/ Crash
    BY <1>14 DEF ConfirmsReject
  <2>. QED
    BY <2>1, <2>2, RejectType, CrashType DEF TypeOK
<1>15. CASE UNCHANGED vars
  BY <1>15 DEF vars, TypeOK
<1>. QED
  BY <1>1, <1>2, <1>3, <1>4, <1>5, <1>6, <1>7, <1>8, <1>9, <1>10, <1>11,
     <1>12, <1>13, <1>14, <1>15 DEF Next

\* RabbitConsumer's state keeps its types, whatever the environment does.
THEOREM TypeCorrect == Spec => []TypeOK
<1>1. Init => TypeOK
  <2>1. <<>> \in Seq(Frame)
    BY EmptySeq
  <2>. QED
    BY <2>1 DEF Init, TypeOK, Delivery, Job
<1>. QED
  BY <1>1, TypeStep, PTL DEF Spec

----------------------------------------------------------------------------
(* The inductive invariant. *)

\* Losing the channel: nothing is outstanding and nothing is on the wire.
LEMMA RequeueSafe ==
  ASSUME IInv, Requeue, gone' = gone, handled' = handled
  PROVE  /\ TagsUnique' /\ AcksWarranted' /\ GoneOnlyIfHandled' /\ OnePlace'
         /\ unacked' = {}
<1>1. unacked' = {} /\ wire' = <<>> /\ DOMAIN wire' = {}
  BY DEF Requeue
<1>2. TagsUnique'
  BY <1>1 DEF TagsUnique
<1>3. AcksWarranted'
  BY <1>1 DEF AcksWarranted
<1>4. GoneOnlyIfHandled'
  BY DEF IInv, GoneOnlyIfHandled
<1>5. OnePlace'
  BY <1>1 DEF IInv, OnePlace, Requeue
<1>. QED
  BY <1>1, <1>2, <1>3, <1>4, <1>5

LEMMA CrashSafe ==
  ASSUME IInv, Crash, gone' = gone, TypeOK',
         \A m \in Messages : handled[m] > 0 => handled'[m] > 0
  PROVE  IInv'
<1>1. unacked' = {} /\ wire' = <<>> /\ DOMAIN wire' = {} /\ jobs' = {}
  BY DEF Crash, Requeue
<1>2. TagsUnique' /\ AcksWarranted' /\ JobsCurrent'
  BY <1>1 DEF TagsUnique, AcksWarranted, JobsCurrent
<1>3. GoneOnlyIfHandled'
  BY DEF IInv, TypeOK, GoneOnlyIfHandled
<1>4. OnePlace'
  BY <1>1 DEF IInv, OnePlace, Crash, Requeue
<1>. QED
  BY <1>2, <1>3, <1>4 DEF IInv

\* Jobs that only move on stay current.
LEMMA MoveSafe ==
  ASSUME IInv, NEW j \in jobs,
         NEW pc \in {"gathering", "handling", "committing", "dropping",
                     "rejecting"},
         MoveTo(j, pc), UNCHANGED <<link, channel, unacked, lastTag>>
  PROVE  JobsCurrent'
<1>1. j \in Job
  BY DEF IInv, TypeOK
<1>. DEFINE k == [j EXCEPT !.pc = pc]
<1>2. k.ch = j.ch /\ k.batch = j.batch
  BY <1>1, JobMoved
<1>3. \A x \in jobs' : x \in jobs \/ x = k
  BY DEF MoveTo
<1>. HIDE DEF k
<1>. QED
  BY <1>2, <1>3 DEF IInv, JobsCurrent, Current, Live

\* Frames written by a job whose channel is open concern its own deliveries.
LEMMA SettlingSafe ==
  ASSUME IInv, TypeOK', NEW j \in jobs, Live(j) \/ j.batch = <<>>,
         NEW pc \in {"gathering", "handling", "committing", "dropping",
                     "rejecting"},
         MoveTo(j, pc),
         UNCHANGED <<link, channel, ready, unacked, gone, lastTag>>,
         \A m \in Messages : handled[m] > 0 => handled'[m] > 0,
         NEW f \in Seq(Frame), wire' = wire \o f,
         \A k \in DOMAIN f : \E i \in DOMAIN j.batch :
           /\ f[k].tag = j.batch[i].tag
           /\ f[k].op = "ack" => Warranted(j.batch[i].msg)'
  PROVE  IInv'
<1>1. \A i \in DOMAIN j.batch :
        /\ j.batch[i].tag <= lastTag
        /\ \A d \in unacked : d.tag = j.batch[i].tag => d = j.batch[i]
  <2>1. CASE j.batch = <<>>
    BY <2>1
  <2>2. CASE Live(j)
    BY <2>2 DEF IInv, JobsCurrent, Current
  <2>. QED
    BY <2>1, <2>2
<1>2. \A i \in DOMAIN wire' : \/ \E k \in DOMAIN wire : wire'[i] = wire[k]
                              \/ \E k \in DOMAIN f : wire'[i] = f[k]
  <2>1. wire \in Seq(Frame)
    BY DEF IInv, TypeOK
  <2>2. \A i \in DOMAIN (wire \o f) : \/ \E k \in DOMAIN wire : (wire \o f)[i] = wire[k]
                                     \/ \E k \in DOMAIN f : (wire \o f)[i] = f[k]
    BY <2>1, Appended
  <2>. QED
    BY <2>2
<1>3. TagsUnique'
  <2>1. \A i \in DOMAIN wire' : wire'[i].tag <= lastTag
    BY <1>1, <1>2 DEF IInv, TagsUnique
  <2>. QED
    BY <2>1 DEF IInv, TagsUnique
<1>4. AcksWarranted'
  <2>1. SUFFICES ASSUME NEW i \in DOMAIN wire', wire'[i].op = "ack",
                        NEW d \in unacked, d.tag = wire'[i].tag
                 PROVE  Warranted(d.msg)'
    BY DEF AcksWarranted
  <2>2. CASE \E k \in DOMAIN wire : wire'[i] = wire[k]
    <3>1. Warranted(d.msg)
      BY <2>1, <2>2 DEF IInv, AcksWarranted
    <3>2. d.msg \in Messages
      BY DEF IInv, TypeOK, Delivery
    <3>. QED
      BY <3>1, <3>2 DEF Warranted
  <2>3. CASE \E k \in DOMAIN f : wire'[i] = f[k]
    BY <1>1, <2>1, <2>3
  <2>. QED
    BY <1>2, <2>2, <2>3
<1>5. JobsCurrent'
  BY MoveSafe
<1>6. GoneOnlyIfHandled'
  BY DEF IInv, TypeOK, GoneOnlyIfHandled
<1>7. OnePlace'
  BY DEF IInv, OnePlace
<1>. QED
  BY <1>3, <1>4, <1>5, <1>6, <1>7 DEF IInv

\* commit after a handler that ran to its end on every message it was given.
LEMMA CommitSafe ==
  ASSUME IInv, TypeOK', NEW j \in jobs, Commit(j), gone' = gone,
         handled' = [m \in Messages |->
                       IF m \in Seen(j) THEN handled[m] + 1 ELSE handled[m]]
  PROVE  IInv'
<1>1. \A m \in Messages : handled[m] > 0 => handled'[m] > 0
  BY DEF IInv, TypeOK
<1>2. CASE Crash
  BY <1>1, <1>2, CrashSafe
<1>3. CASE ~ Crash
  <2>1. j \in Job /\ j.batch \in Seq(Delivery) /\ wire \in Seq(Frame)
    BY DEF IInv, TypeOK, Job
  <2>. DEFINE A == Acks(j.batch)
              R == Rejects(j.batch)
  <2>2. /\ A \in Seq(Frame) /\ R \in Seq(Frame)
        /\ DOMAIN A = DOMAIN j.batch /\ DOMAIN R = DOMAIN j.batch
        /\ \A i \in DOMAIN j.batch : /\ A[i] = [op |-> "ack", tag |-> j.batch[i].tag]
                                     /\ R[i] = [op |-> "reject", tag |-> j.batch[i].tag]
    <3>1. DOMAIN j.batch = 1..Len(j.batch)
      BY <2>1, LenProperties
    <3>2. /\ A \in Seq(Frame) /\ Len(A) = Len(j.batch)
          /\ \A i \in 1..Len(j.batch) : A[i] = [op |-> "ack", tag |-> j.batch[i].tag]
      BY <2>1, AcksOf
    <3>3. /\ R \in Seq(Frame) /\ Len(R) = Len(j.batch)
          /\ \A i \in 1..Len(j.batch) : R[i] = [op |-> "reject", tag |-> j.batch[i].tag]
      BY <2>1, RejectsOf
    <3>4. DOMAIN A = 1..Len(A) /\ DOMAIN R = 1..Len(R)
      BY <3>2, <3>3, LenProperties
    <3>. QED
      BY <3>1, <3>2, <3>3, <3>4
  <2>3. \A i \in DOMAIN j.batch : j.batch[i] \in Delivery /\ j.batch[i].msg \in Messages
    <3>1. DOMAIN j.batch = 1..Len(j.batch)
      BY <2>1, LenProperties
    <3>2. \A i \in DOMAIN j.batch : j.batch[i] \in Delivery
      BY <2>1, <3>1, ElementOfSeq
    <3>. QED
      BY <3>2 DEF Delivery
  <2>4. \A i \in DOMAIN j.batch : Warranted(j.batch[i].msg)'
    <3>1. SUFFICES ASSUME NEW i \in DOMAIN j.batch
                   PROVE  \/ handled'[j.batch[i].msg] > 0
                          \/ j.batch[i].msg \in Droppable
      BY DEF Warranted
    <3>. DEFINE m == j.batch[i].msg
    <3>2. m \in Messages
      BY <2>3
    <3>3. CASE m \in Seen(j)
      BY <3>2, <3>3 DEF IInv, TypeOK
    <3>4. CASE m \notin Seen(j)
      <4>1. batchSize > 0 /\ Body[m] # "object"
        BY <3>2, <3>4 DEF Seen
      <4>2. Body[m] \in {"object", "falsy", "garbage"}
        BY <3>2, ConsumerAssumption DEF Bodies
      <4>. QED
        BY <3>2, <4>1, <4>2 DEF Droppable
    <3>. QED
      BY <3>3, <3>4
  <2>. HIDE DEF A, R
  <2>5. \A k \in DOMAIN A : \E i \in DOMAIN j.batch :
          /\ A[k].tag = j.batch[i].tag
          /\ A[k].op = "ack" => Warranted(j.batch[i].msg)'
    <3>1. SUFFICES ASSUME NEW k \in DOMAIN A
                   PROVE  /\ k \in DOMAIN j.batch
                          /\ A[k].tag = j.batch[k].tag
                          /\ A[k].op = "ack" => Warranted(j.batch[k].msg)'
      OBVIOUS
    <3>2. k \in DOMAIN j.batch /\ A[k] = [op |-> "ack", tag |-> j.batch[k].tag]
      BY <2>2
    <3>3. Warranted(j.batch[k].msg)'
      BY <2>4, <3>2
    <3>. QED
      BY <3>2, <3>3
  <2>6. CASE wire' = wire \o A /\ MoveTo(j, "committing")
    BY <1>1, <1>3, <2>2, <2>5, <2>6, SettlingSafe DEF Commit
  <2>7. CASE wire' = wire \o A \o R /\ MoveTo(j, "rejecting")
    <3>. DEFINE f == A \o R
    <3>1. f \in Seq(Frame) /\ wire' = wire \o f
      BY SMTT(30), <2>1, <2>2, <2>7, ConcatAssociative, Appended
    <3>2. \A k \in DOMAIN f : \/ \E i \in DOMAIN A : f[k] = A[i]
                              \/ \E i \in DOMAIN R : f[k] = R[i]
      BY <2>2, Appended
    <3>. HIDE DEF f
    <3>3. \A k \in DOMAIN f : \E i \in DOMAIN j.batch :
            /\ f[k].tag = j.batch[i].tag
            /\ f[k].op = "ack" => Warranted(j.batch[i].msg)'
      <4>1. TAKE k \in DOMAIN f
      <4>2. PICK i \in DOMAIN j.batch : f[k] = A[i] \/ f[k] = R[i]
        BY <2>2, <3>2
      <4>3. f[k].tag = j.batch[i].tag
        <5>1. /\ A[i] = [op |-> "ack", tag |-> j.batch[i].tag]
              /\ R[i] = [op |-> "reject", tag |-> j.batch[i].tag]
          BY <2>2
        <5>. QED
          BY <4>2, <5>1
      <4>4. Warranted(j.batch[i].msg)'
        BY <2>4
      <4>. QED
        BY <4>3, <4>4
    <3>. QED
      BY <1>1, <1>3, <2>7, <3>1, <3>3, SettlingSafe DEF Commit
  <2>. QED
    BY <1>3, <2>6, <2>7 DEF Commit, A, R
<1>. QED
  BY <1>2, <1>3

LEMMA RejectSafe ==
  ASSUME IInv, TypeOK', NEW j \in jobs, Reject(j), gone' = gone,
         handled' = handled
  PROVE  IInv'
<1>1. CASE Crash
  BY <1>1, CrashSafe
<1>2. CASE ~ Crash
  <2>1. j.batch \in Seq(Delivery)
    BY DEF IInv, TypeOK, Job
  <2>. DEFINE R == Rejects(j.batch)
  <2>2. /\ R \in Seq(Frame) /\ Len(R) = Len(j.batch)
        /\ \A i \in 1..Len(j.batch) : R[i] = [op |-> "reject", tag |-> j.batch[i].tag]
    BY <2>1, RejectsOf
  <2>3. DOMAIN R = 1..Len(R) /\ DOMAIN j.batch = 1..Len(j.batch)
    BY <2>1, <2>2, LenProperties
  <2>. HIDE DEF R
  <2>4. \A k \in DOMAIN R : \E i \in DOMAIN j.batch :
          /\ R[k].tag = j.batch[i].tag
          /\ R[k].op = "ack" => Warranted(j.batch[i].msg)'
    <3>1. SUFFICES ASSUME NEW k \in DOMAIN R
                   PROVE  /\ k \in DOMAIN j.batch
                          /\ R[k].tag = j.batch[k].tag
                          /\ R[k].op # "ack"
      OBVIOUS
    <3>2. k \in 1..Len(j.batch) /\ k \in DOMAIN j.batch
      BY <2>2, <2>3
    <3>3. R[k] = [op |-> "reject", tag |-> j.batch[k].tag]
      BY <2>2, <3>2
    <3>. QED
      BY <3>2, <3>3
  <2>5. /\ Live(j) \/ j.batch = <<>>
        /\ wire' = wire \o R
        /\ MoveTo(j, "rejecting")
        /\ UNCHANGED <<link, channel, ready, unacked, gone, lastTag>>
    BY <1>2 DEF Reject, R
  <2>. QED
    BY <2>2, <2>4, <2>5, SettlingSafe
<1>. QED
  BY <1>1, <1>2

\* A delivery takes a tag no frame, job or delivery of the channel has used.
LEMMA DeliverSafe ==
  ASSUME IInv, NEW c \in Consumers, NEW m \in Messages, Deliver(c, m),
         gone' = gone, handled' = handled,
         \/ wire' = wire
         \/ /\ wire' = wire \o Acks(<<[tag |-> lastTag + 1, msg |-> m, cons |-> c]>>)
            /\ m \in Droppable
  PROVE  TagsUnique' /\ AcksWarranted' /\ GoneOnlyIfHandled' /\ OnePlace'
<1>. DEFINE d == [tag |-> lastTag + 1, msg |-> m, cons |-> c]
            A == Acks(<<d>>)
<1>1. /\ lastTag \in Nat /\ wire \in Seq(Frame) /\ unacked \subseteq Delivery
      /\ lastTag' = lastTag + 1
      /\ unacked' = unacked \cup {d} /\ ready' = ready \ {m} /\ m \in ready
  BY DEF Deliver, IInv, TypeOK
<1>2. d \in Delivery /\ d.tag = lastTag + 1 /\ d.msg = m
  BY <1>1 DEF Delivery
<1>3. \A e \in unacked : e.tag \in Nat /\ e.tag <= lastTag /\ e.tag # d.tag /\ e.msg # m
  <2>1. \A e \in unacked : e.tag \in Nat /\ e.tag <= lastTag
    BY <1>1 DEF IInv, TagsUnique, Delivery
  <2>2. \A e \in unacked : e.msg # m
    BY <1>1 DEF IInv, OnePlace
  <2>. QED
    BY <1>1, <1>2, <2>1, <2>2
<1>4. /\ A \in Seq(Frame)
      /\ \A k \in DOMAIN A : A[k] = [op |-> "ack", tag |-> lastTag + 1]
  <2>1. <<d>> \in Seq(Delivery) /\ Len(<<d>>) = 1 /\ <<d>>[1] = d
    BY <1>2
  <2>2. /\ A \in Seq(Frame) /\ Len(A) = 1
        /\ \A i \in 1..1 : A[i] = [op |-> "ack", tag |-> <<d>>[i].tag]
    BY <2>1, AcksOf
  <2>3. DOMAIN A = 1..1
    BY <2>2, LenProperties
  <2>. QED
    BY <1>2, <2>1, <2>2, <2>3
<1>. HIDE DEF d, A
<1>5. \A i \in DOMAIN wire :
        /\ wire[i].tag \in Nat /\ wire[i].tag <= lastTag
        /\ wire[i].tag # d.tag
  <2>1. \A i \in DOMAIN wire : wire[i] \in Frame
    BY <1>1, LenProperties, ElementOfSeq
  <2>. QED
    BY <1>1, <1>2, <2>1 DEF IInv, TagsUnique, Frame
<1>6. \A i \in DOMAIN wire' :
        \/ \E k \in DOMAIN wire : wire'[i] = wire[k]
        \/ wire'[i] = [op |-> "ack", tag |-> lastTag + 1] /\ m \in Droppable
  <2>1. CASE wire' = wire
    BY <2>1
  <2>2. CASE wire' = wire \o A /\ m \in Droppable
    <3>1. \A i \in DOMAIN (wire \o A) :
            \/ \E k \in DOMAIN wire : (wire \o A)[i] = wire[k]
            \/ \E k \in DOMAIN A : (wire \o A)[i] = A[k]
      BY <1>1, <1>4, Appended
    <3>. QED
      BY <1>4, <2>2, <3>1
  <2>. QED
    BY <2>1, <2>2 DEF A, d
<1>7. TagsUnique'
  <2>1. \A e, g \in unacked' : e.tag = g.tag => e = g
    BY <1>1, <1>2, <1>3 DEF IInv, TagsUnique
  <2>2. \A e \in unacked' : e.tag <= lastTag'
    BY <1>1, <1>2, <1>3
  <2>3. \A i \in DOMAIN wire' : wire'[i].tag <= lastTag'
    <3>1. TAKE i \in DOMAIN wire'
    <3>2. CASE \E k \in DOMAIN wire : wire'[i] = wire[k]
      BY <1>1, <1>5, <3>2
    <3>3. CASE wire'[i] = [op |-> "ack", tag |-> lastTag + 1]
      <4>1. wire'[i].tag = lastTag + 1
        BY <3>3
      <4>. QED
        BY <1>1, <4>1
    <3>. QED
      BY <1>6, <3>2, <3>3
  <2>. QED
    BY <2>1, <2>2, <2>3 DEF TagsUnique
<1>8. AcksWarranted'
  <2>1. SUFFICES ASSUME NEW i \in DOMAIN wire', wire'[i].op = "ack",
                        NEW e \in unacked', e.tag = wire'[i].tag
                 PROVE  handled[e.msg] > 0 \/ e.msg \in Droppable
    BY DEF AcksWarranted, Warranted
  <2>2. CASE \E k \in DOMAIN wire : wire'[i] = wire[k]
    <3>1. PICK k \in DOMAIN wire : wire'[i] = wire[k]
      BY <2>2
    <3>2. e \in unacked
      BY <1>1, <1>5, <2>1, <3>1
    <3>. QED
      BY <2>1, <3>1, <3>2 DEF IInv, AcksWarranted, Warranted
  <2>3. CASE wire'[i] = [op |-> "ack", tag |-> lastTag + 1] /\ m \in Droppable
    <3>1. e.tag = d.tag
      BY <1>2, <2>1, <2>3
    <3>2. e = d
      BY <1>1, <1>3, <3>1
    <3>. QED
      BY <1>2, <2>3, <3>2
  <2>. QED
    BY <1>6, <2>2, <2>3
<1>9. GoneOnlyIfHandled'
  BY DEF IInv, GoneOnlyIfHandled
<1>10. OnePlace'
  <2>1. ready' \cap gone' = {} /\ m \notin ready' \cup gone'
    BY <1>1 DEF IInv, OnePlace
  <2>2. \A e \in unacked' : e.msg \notin ready' \cup gone'
    BY <1>1, <1>2, <2>1 DEF IInv, OnePlace
  <2>3. \A e, g \in unacked' : e.msg = g.msg => e = g
    BY <1>1, <1>2, <1>3 DEF IInv, OnePlace
  <2>. QED
    BY <2>1, <2>2, <2>3 DEF OnePlace
<1>. QED
  BY <1>7, <1>8, <1>9, <1>10

\* What other jobs hold has an older tag than the delivery that comes in.
LEMMA OlderStaysCurrent ==
  ASSUME IInv, NEW j \in jobs, NEW c \in Consumers, NEW m \in Messages,
         Deliver(c, m), UNCHANGED <<link, channel>>
  PROVE  Current(j)'
<1>. DEFINE d == [tag |-> lastTag + 1, msg |-> m, cons |-> c]
<1>1. /\ lastTag \in Nat /\ lastTag' = lastTag + 1
      /\ unacked' = unacked \cup {d} /\ d.tag = lastTag + 1
  BY DEF Deliver, IInv, TypeOK
<1>2. Current(j)
  BY DEF IInv, JobsCurrent
<1>3. \A i \in DOMAIN j.batch : j.batch[i].tag \in Nat
  <2>1. j.batch \in Seq(Delivery)
    BY DEF IInv, TypeOK, Job
  <2>2. \A i \in DOMAIN j.batch : j.batch[i] \in Delivery
    BY <2>1, LenProperties, ElementOfSeq
  <2>. QED
    BY <2>2 DEF Delivery
<1>. HIDE DEF d
<1>. QED
  BY <1>1, <1>2, <1>3 DEF Current, Live

LEMMA ReceiveMessageSafe ==
  ASSUME IInv, TypeOK', NEW c \in Consumers, NEW m \in Messages,
         ReceiveMessage(c, m)
  PROVE  IInv'
<1>. DEFINE d == [tag |-> lastTag + 1, msg |-> m, cons |-> c]
            job(pc) == [ch |-> channel, cons |-> c, batch |-> <<d>>,
                        cancelled |-> FALSE, pc |-> pc]
<1>1. /\ Deliver(c, m) /\ UNCHANGED <<link, channel, gone, handled>>
      /\ unacked' = unacked \cup {d} /\ lastTag' = lastTag + 1 /\ lastTag \in Nat
      /\ \A j \in jobs' : j \in jobs \/ j = job("dropping") \/ j = job("handling")
  BY DEF ReceiveMessage, Deliver, IInv, TypeOK
<1>2. \/ wire' = wire
      \/ wire' = wire \o Acks(<<d>>) /\ m \in Droppable
  BY DEF ReceiveMessage, Droppable
<1>3. TagsUnique' /\ AcksWarranted' /\ GoneOnlyIfHandled' /\ OnePlace'
  BY <1>1, <1>2, DeliverSafe
<1>4. ASSUME NEW j \in jobs
      PROVE  Current(j)'
  BY <1>1, <1>4, OlderStaysCurrent
<1>5. ASSUME NEW j \in jobs', j = job("dropping") \/ j = job("handling")
      PROVE  Current(j)'
  <2>1. j.ch = channel /\ j.batch = <<d>> /\ channel \in Nat
    BY <1>5 DEF IInv, TypeOK
  <2>2. DOMAIN j.batch = {1} /\ j.batch[1] = d /\ d.tag = lastTag + 1
    BY <2>1
  <2>3. \A e \in unacked : e.tag # d.tag
    BY <1>1, <2>2 DEF IInv, TypeOK, Delivery, TagsUnique
  <2>. HIDE DEF d, job
  <2>. QED
    BY <1>1, <2>1, <2>2, <2>3 DEF Current
<1>6. JobsCurrent'
  BY <1>1, <1>4, <1>5 DEF JobsCurrent
<1>. QED
  BY <1>3, <1>6 DEF IInv

LEMMA PushSafe ==
  ASSUME IInv, TypeOK', NEW c \in Consumers, NEW m \in Messages, Push(c, m)
  PROVE  IInv'
<1>. DEFINE d == [tag |-> lastTag + 1, msg |-> m, cons |-> c]
<1>1. PICK k \in IF Gathering(c) = {} THEN {NewCargo(c)} ELSE Gathering(c) :
        jobs' = (jobs \ {k}) \cup {[k EXCEPT !.batch = Append(@, d)]}
  BY DEF Push
<1>2. /\ Deliver(c, m) /\ UNCHANGED <<link, channel, gone, handled, wire>>
      /\ unacked' = unacked \cup {d} /\ lastTag' = lastTag + 1 /\ lastTag \in Nat
      /\ channel \in Nat
  BY DEF Push, Deliver, IInv, TypeOK
<1>3. TagsUnique' /\ AcksWarranted' /\ GoneOnlyIfHandled' /\ OnePlace'
  BY <1>2, DeliverSafe
<1>4. k \in Job /\ k.ch = channel /\ (k \in jobs \/ k.batch = <<>>)
  BY CargoType DEF IInv
<1>4a. PICK n : n = [k EXCEPT !.batch = Append(@, d)]
  OBVIOUS
<1>5. n.ch = channel /\ n.batch = Append(k.batch, d)
  BY <1>4, <1>4a DEF Job
<1>6. k.batch \in Seq(Delivery) /\ d \in Delivery /\ d.tag = lastTag + 1
  BY <1>2, <1>4 DEF Job, Delivery
<1>7. \A i \in DOMAIN n.batch : n.batch[i] = d
                                \/ \E l \in DOMAIN k.batch : n.batch[i] = k.batch[l]
  <2>1. /\ n.batch \in Seq(Delivery) /\ Len(n.batch) = Len(k.batch) + 1
        /\ \A i \in 1..Len(n.batch) :
             n.batch[i] = IF i = Len(k.batch) + 1 THEN d ELSE k.batch[i]
    BY <1>5, <1>6, AppendProperties
  <2>2. /\ DOMAIN n.batch = 1..Len(n.batch) /\ DOMAIN k.batch = 1..Len(k.batch)
        /\ Len(k.batch) \in Nat
    BY <1>6, <2>1, LenProperties
  <2>. QED
    BY <2>1, <2>2
<1>8. \A e \in unacked : e.tag # d.tag
  BY <1>2, <1>6 DEF IInv, TypeOK, Delivery, TagsUnique
<1>. HIDE DEF d
<1>9. ASSUME NEW j \in jobs
      PROVE  Current(j)'
  BY <1>2, <1>9, OlderStaysCurrent
<1>10. Current(n)'
  <2>1. ASSUME NEW i \in DOMAIN n.batch, link = "open"
        PROVE  /\ n.batch[i].tag <= lastTag'
               /\ \A e \in unacked' : e.tag = n.batch[i].tag => e = n.batch[i]
    <3>1. CASE n.batch[i] = d
      BY <1>2, <1>6, <1>8, <3>1
    <3>2. CASE \E l \in DOMAIN k.batch : n.batch[i] = k.batch[l]
      <4>1. k \in jobs
        BY <1>4, <3>2
      <4>. QED
        BY <1>2, <1>4, <1>9, <2>1, <3>2, <4>1 DEF Current, Live
    <3>. QED
      BY <1>7, <3>1, <3>2
  <2>. QED
    BY <1>2, <1>5, <2>1 DEF Current, Live
<1>11. JobsCurrent'
  BY <1>1, <1>4a, <1>9, <1>10 DEF JobsCurrent
<1>. QED
  BY <1>3, <1>11 DEF IInv

\* Losing the channel leaves no job current, so that none can settle any more.
LEMMA ChannelGoneSafe ==
  ASSUME IInv, TypeOK', Requeue, link' # "open",
         UNCHANGED <<channel, gone, handled, jobs>>
  PROVE  IInv'
<1>1. JobsCurrent'
  BY DEF IInv, JobsCurrent, Current, Live
<1>. QED
  BY <1>1, RequeueSafe DEF IInv

\* What the broker honours was warranted, and leaves no trace in what remains.
LEMMA BrokerSettlesSafe ==
  ASSUME IInv, TypeOK', BrokerSettles
  PROVE  IInv'
<1>1. CASE link' = "stranded" /\ Requeue /\ UNCHANGED gone
  BY <1>1, ChannelGoneSafe DEF BrokerSettles
<1>2. ASSUME NEW d \in unacked,
             d.tag = Head(wire).tag,
             unacked' = unacked \ {d}, wire' = Tail(wire),
             \/ /\ Head(wire).op = "ack"
                /\ gone' = gone \cup {d.msg} /\ ready' = ready
             \/ ready' = ready \cup {d.msg} /\ gone' = gone,
             UNCHANGED <<link, lastTag>>
      PROVE  IInv'
  <2>1. /\ Head(wire) = wire[1] /\ 1 \in DOMAIN wire
        /\ \A i \in DOMAIN wire' : \E k \in DOMAIN wire : wire'[i] = wire[k]
    BY <1>2, TailFrames DEF BrokerSettles, IInv, TypeOK
  <2>2. UNCHANGED <<channel, jobs, handled>>
    BY DEF BrokerSettles
  <2>3. TagsUnique'
    BY <1>2, <2>1 DEF IInv, TagsUnique
  <2>4. JobsCurrent'
    BY <1>2, <2>2 DEF IInv, JobsCurrent, Current, Live
  <2>5. AcksWarranted'
    BY <1>2, <2>1, <2>2 DEF IInv, AcksWarranted, Warranted
  <2>6. GoneOnlyIfHandled'
    <3>1. CASE Head(wire).op = "ack"
      <4>1. Warranted(d.msg)
        BY <1>2, <2>1, <3>1 DEF IInv, AcksWarranted
      <4>. QED
        BY <1>2, <2>2, <4>1 DEF IInv, GoneOnlyIfHandled, Warranted
    <3>2. CASE gone' = gone
      BY <2>2, <3>2 DEF IInv, GoneOnlyIfHandled
    <3>. QED
      BY <1>2, <3>1, <3>2
  <2>7. OnePlace'
    <3>1. /\ \A e \in unacked' : e \in unacked /\ e # d /\ e.msg # d.msg
          /\ d.msg \notin ready \cup gone
      BY <1>2 DEF IInv, OnePlace
    <3>. QED
      BY <1>2, <3>1 DEF IInv, OnePlace
  <2>. QED
    BY <2>3, <2>4, <2>5, <2>6, <2>7 DEF IInv
<1>3. ASSUME ~ (link' = "stranded" /\ Requeue /\ UNCHANGED gone)
      PROVE  IInv'
  <2>1. PICK d \in unacked :
          /\ d.tag = Head(wire).tag
          /\ unacked' = unacked \ {d}
          /\ wire' = Tail(wire)
          /\ \/ /\ Head(wire).op = "ack"
                /\ gone' = gone \cup {d.msg} /\ ready' = ready
             \/ ready' = ready \cup {d.msg} /\ gone' = gone
          /\ UNCHANGED <<link, lastTag>>
    BY <1>3 DEF BrokerSettles
  <2>. QED
    BY <1>2, <2>1
<1>. QED
  BY <1>1, <1>3

LEMMA InvStep ==
  ASSUME IInv, [Next]_vars
  PROVE  IInv'
<1>0. TypeOK /\ TypeOK'
  BY TypeStep DEF IInv
<1>. USE <1>0
<1>1. CASE Restart
  <2>1. JobsCurrent'
    BY <1>1 DEF Restart, IInv, JobsCurrent, Current, Live
  <2>. QED
    BY <1>1, <2>1 DEF Restart, IInv, TagsUnique, AcksWarranted, Warranted,
                      GoneOnlyIfHandled, OnePlace
<1>2. CASE Connect
  \* The new channel is younger than every job.
  <2>1. JobsCurrent'
    <3>1. \A j \in jobs : j.ch \in Nat /\ j.ch <= channel
      BY DEF IInv, TypeOK, Job, JobsCurrent, Current
    <3>. QED
      BY <1>2, <3>1 DEF Connect, TypeOK, JobsCurrent, Current, Live
  <2>. QED
    BY <1>2, <2>1 DEF Connect, IInv, TagsUnique, AcksWarranted, Warranted,
                      GoneOnlyIfHandled, OnePlace
<1>3. CASE ConnectionLost
  BY <1>3, ChannelGoneSafe DEF ConnectionLost
<1>4. CASE Kill
  BY <1>4, CrashSafe DEF Kill
<1>5. CASE BrokerSettles
  BY <1>5, BrokerSettlesSafe
<1>6. ASSUME NEW c \in Consumers, Subscribe(c)
      PROVE  IInv'
  <2>1. JobsCurrent'
    BY <1>6 DEF Subscribe, IInv, JobsCurrent, Current, Live
  <2>. QED
    BY <1>6, <2>1 DEF Subscribe, IInv, TagsUnique, AcksWarranted, Warranted,
                      GoneOnlyIfHandled, OnePlace
<1>7. ASSUME NEW c \in Consumers, Cancel(c)
      PROVE  IInv'
  <2>1. UNCHANGED <<link, channel, ready, unacked, gone, lastTag, wire, handled>>
    BY <1>7 DEF Cancel
  <2>2. JobsCurrent'
    <3>1. CASE jobs' = jobs
      BY <2>1, <3>1 DEF IInv, JobsCurrent, Current, Live
    <3>2. ASSUME NEW k \in IF Gathering(c) = {} THEN {NewCargo(c)} ELSE Gathering(c),
                 jobs' = (jobs \ {k}) \cup {[k EXCEPT !.cancelled = TRUE]}
          PROVE  JobsCurrent'
      <4>1. k \in Job /\ k.ch = channel /\ (k \in jobs \/ k.batch = <<>>)
        BY CargoType
      <4>2. PICK n : n = [k EXCEPT !.cancelled = TRUE]
        OBVIOUS
      <4>3. n.ch = k.ch /\ n.batch = k.batch
        BY <4>1, <4>2 DEF Job
      <4>4. Current(n)
        <5>1. CASE k \in jobs
          BY <4>3, <5>1 DEF IInv, JobsCurrent, Current, Live
        <5>2. CASE k.batch = <<>>
          BY <4>1, <4>3, <5>2 DEF TypeOK, Current
        <5>. QED
          BY <4>1, <5>1, <5>2
      <4>5. \A j \in jobs \cup {n} : Current(j)
        BY <4>4 DEF IInv, JobsCurrent
      <4>6. \A j \in jobs' : j \in jobs \cup {n}
        BY <3>2, <4>2
      <4>. QED
        BY <2>1, <4>5, <4>6 DEF JobsCurrent, Current, Live
    <3>. QED
      BY <1>7, <3>1, <3>2 DEF Cancel
  <2>. QED
    BY <2>1, <2>2 DEF IInv, TagsUnique, AcksWarranted, Warranted,
                      GoneOnlyIfHandled, OnePlace
<1>8. ASSUME NEW c \in Consumers, NEW m \in Messages, ReceiveMessage(c, m)
      PROVE  IInv'
  BY <1>8, ReceiveMessageSafe
<1>9. ASSUME NEW c \in Consumers, NEW m \in Messages, Push(c, m)
      PROVE  IInv'
  BY <1>9, PushSafe
<1>10. ASSUME NEW j \in jobs, Flush(j)
       PROVE  IInv'
  <2>1. JobsCurrent'
    BY <1>10, MoveSafe DEF Flush
  <2>. QED
    BY <1>10, <2>1 DEF Flush, IInv, TagsUnique, AcksWarranted, Warranted,
                       GoneOnlyIfHandled, OnePlace
<1>11. ASSUME NEW j \in jobs, HandlerResolves(j)
       PROVE  IInv'
  BY <1>11, CommitSafe DEF HandlerResolves
<1>12. ASSUME NEW j \in jobs, HandlerRejects(j)
       PROVE  IInv'
  BY <1>12, RejectSafe DEF HandlerRejects
<1>13. ASSUME NEW j \in jobs, ConfirmsResolve(j)
       PROVE  IInv'
  <2>1. JobsCurrent'
    BY <1>13 DEF ConfirmsResolve, IInv, JobsCurrent, Current, Live
  <2>. QED
    BY <1>13, <2>1 DEF ConfirmsResolve, IInv, TagsUnique, AcksWarranted,
                       Warranted, GoneOnlyIfHandled, OnePlace
<1>14. ASSUME NEW j \in jobs, ConfirmsReject(j)
       PROVE  IInv'
  <2>1. gone' = gone /\ handled' = handled /\ (Reject(j) \/ Crash)
    BY <1>14 DEF ConfirmsReject
  <2>. QED
    BY <2>1, RejectSafe, CrashSafe
<1>15. CASE UNCHANGED vars
  <2>1. JobsCurrent'
    BY <1>15 DEF vars, IInv, JobsCurrent, Current, Live
  <2>. QED
    BY <1>15, <2>1 DEF vars, IInv, TagsUnique, AcksWarranted, Warranted,
                       GoneOnlyIfHandled, OnePlace
<1>. QED
  BY <1>1, <1>2, <1>3, <1>4, <1>5, <1>6, <1>7, <1>8, <1>9, <1>10, <1>11,
     <1>12, <1>13, <1>14, <1>15 DEF Next

LEMMA InvInit == Init => IInv
<1>. SUFFICES ASSUME Init PROVE IInv
  OBVIOUS
<1>1. TypeOK
  <2>1. <<>> \in Seq(Frame)
    BY EmptySeq
  <2>. QED
    BY <2>1 DEF Init, TypeOK, Delivery, Job
<1>. QED
  BY <1>1 DEF Init, IInv, TagsUnique, JobsCurrent, AcksWarranted,
              GoneOnlyIfHandled, OnePlace

\* The inductive invariant holds in every reachable state.
THEOREM Invariance == Spec => []IInv
BY InvInit, InvStep, PTL DEF Spec

\* At least once: whatever is lost, redelivered, cancelled or refused, the
\* broker forgets a message only after a handler ran to its end on it, unless
\* it is one that no handler is to see.
THEOREM NothingForgottenUnhandled == Spec => []GoneOnlyIfHandled
<1>1. IInv => GoneOnlyIfHandled
  BY DEF IInv
<1>. QED
  BY <1>1, Invariance, PTL

----------------------------------------------------------------------------
(* Refinement: the consumer implements the abstract queue.                 *)

\* Handlers that end and messages that return are one step of the queue.
LEMMA AttemptStep ==
  ASSUME IInv, NEW S \in SUBSET Messages, NEW T \in SUBSET unacked,
         gone' = gone, ready' = ready \cup {d.msg : d \in T},
         handled' = [m \in Messages |-> IF m \in S THEN handled[m] + 1 ELSE handled[m]]
  PROVE  AtLeastOnceQueue!Next
<1>. DEFINE R == {d.msg : d \in T}
<1>1. R \in SUBSET Messages /\ R \subseteq Messages \ (ready \cup gone)
  BY DEF IInv, TypeOK, Delivery, OnePlace
<1>2. AtLeastOnceQueue!Attempt(S, R)
  BY <1>1 DEF AtLeastOnceQueue!Attempt, AtLeastOnceQueue!Held
<1>. QED
  BY <1>1, <1>2 DEF AtLeastOnceQueue!Next

\* A lost channel returns what was outstanding.
LEMMA RequeueStep ==
  ASSUME IInv, Requeue, gone' = gone, handled' = handled
  PROVE  AtLeastOnceQueue!Next
<1>1. handled' = [m \in Messages |-> IF m \in {} THEN handled[m] + 1 ELSE handled[m]]
  BY DEF IInv, TypeOK
<1>2. ready' = ready \cup {d.msg : d \in unacked}
  BY DEF Requeue
<1>3. {} \in SUBSET Messages /\ unacked \in SUBSET unacked
  OBVIOUS
<1>. QED
  BY <1>1, <1>2, <1>3, AttemptStep

LEMMA DeliverStep ==
  ASSUME IInv, NEW c \in Consumers, NEW m \in Messages, Deliver(c, m),
         gone' = gone, handled' = handled
  PROVE  AtLeastOnceQueue!Next
<1>1. AtLeastOnceQueue!Take(m)
  BY DEF Deliver, AtLeastOnceQueue!Take
<1>. QED
  BY <1>1 DEF AtLeastOnceQueue!Next

LEMMA BrokerSettlesStep ==
  ASSUME IInv, BrokerSettles
  PROVE  AtLeastOnceQueue!Next
<1>1. handled' = handled
  BY DEF BrokerSettles
<1>2. CASE Requeue /\ gone' = gone
  BY <1>1, <1>2, RequeueStep
<1>3. CASE ~ (Requeue /\ gone' = gone)
  <2>1. PICK d \in unacked :
          /\ d.tag = Head(wire).tag
          /\ \/ /\ Head(wire).op = "ack"
                /\ gone' = gone \cup {d.msg} /\ ready' = ready
             \/ ready' = ready \cup {d.msg} /\ gone' = gone
    BY <1>3 DEF BrokerSettles
  <2>2. /\ d.msg \in Messages /\ d.msg \notin ready \cup gone
    BY DEF IInv, TypeOK, Delivery, OnePlace
  <2>3. CASE Head(wire).op = "ack" /\ gone' = gone \cup {d.msg} /\ ready' = ready
    <3>1. Head(wire) = wire[1] /\ 1 \in DOMAIN wire
      BY TailFrames DEF BrokerSettles, IInv, TypeOK
    <3>2. Warranted(d.msg)
      BY <2>1, <2>3, <3>1 DEF IInv, AcksWarranted
    <3>3. AtLeastOnceQueue!Settle(d.msg)
      BY <1>1, <2>2, <2>3, <3>2
         DEF Warranted, AtLeastOnceQueue!Settle, AtLeastOnceQueue!Held
    <3>. QED
      BY <2>2, <3>3 DEF AtLeastOnceQueue!Next
  <2>4. CASE ready' = ready \cup {d.msg} /\ gone' = gone
    <3>1. handled' = [m \in Messages |-> IF m \in {} THEN handled[m] + 1 ELSE handled[m]]
      BY <1>1 DEF IInv, TypeOK
    <3>2. ready' = ready \cup {e.msg : e \in {d}}
      BY <2>4
    <3>3. {} \in SUBSET Messages /\ {d} \in SUBSET unacked
      OBVIOUS
    <3>. QED
      BY <2>4, <3>1, <3>2, <3>3, AttemptStep
  <2>. QED
    BY <2>1, <2>3, <2>4
<1>. QED
  BY <1>2, <1>3

LEMMA HandlerResolvesStep ==
  ASSUME IInv, NEW j \in jobs, HandlerResolves(j)
  PROVE  AtLeastOnceQueue!Next
<1>1. /\ gone' = gone
      /\ handled' = [m \in Messages |->
                       IF m \in Seen(j) THEN handled[m] + 1 ELSE handled[m]]
      /\ Seen(j) \in SUBSET Messages
  BY DEF HandlerResolves, Seen
<1>2. ready' = ready \cup {d.msg : d \in {}} \/ ready' = ready \cup {d.msg : d \in unacked}
  BY DEF HandlerResolves, Commit, Crash, Requeue
<1>3. CASE ready' = ready \cup {d.msg : d \in {}}
  <2>1. {} \in SUBSET unacked
    OBVIOUS
  <2>. QED
    BY <1>1, <1>3, <2>1, AttemptStep
<1>4. CASE ready' = ready \cup {d.msg : d \in unacked}
  <2>1. unacked \in SUBSET unacked
    OBVIOUS
  <2>. QED
    BY <1>1, <1>4, <2>1, AttemptStep
<1>. QED
  BY <1>2, <1>3, <1>4

\* Every step of the consumer is a step of the queue or leaves it alone.
LEMMA StepSimulation ==
  ASSUME IInv, [Next]_vars
  PROVE  [AtLeastOnceQueue!Next]_(AtLeastOnceQueue!vars)
<1>. USE DEF AtLeastOnceQueue!vars
<1>1. CASE Restart \/ Connect
  BY <1>1 DEF Restart, Connect
<1>2. CASE ConnectionLost \/ Kill
  BY <1>2, RequeueStep DEF ConnectionLost, Kill, Crash
<1>3. CASE BrokerSettles
  BY <1>3, BrokerSettlesStep
<1>4. ASSUME NEW c \in Consumers, Subscribe(c) \/ Cancel(c)
      PROVE  UNCHANGED AtLeastOnceQueue!vars
  BY <1>4 DEF Subscribe, Cancel
<1>5. ASSUME NEW c \in Consumers, NEW m \in Messages,
             ReceiveMessage(c, m) \/ Push(c, m)
      PROVE  AtLeastOnceQueue!Next
  BY <1>5, DeliverStep DEF ReceiveMessage, Push
<1>6. ASSUME NEW j \in jobs, Flush(j) \/ ConfirmsResolve(j)
      PROVE  UNCHANGED AtLeastOnceQueue!vars
  BY <1>6 DEF Flush, ConfirmsResolve
<1>7. ASSUME NEW j \in jobs, HandlerResolves(j)
      PROVE  AtLeastOnceQueue!Next
  BY <1>7, HandlerResolvesStep
<1>8. ASSUME NEW j \in jobs, HandlerRejects(j) \/ ConfirmsReject(j)
      PROVE  [AtLeastOnceQueue!Next]_(AtLeastOnceQueue!vars)
  <2>1. gone' = gone /\ handled' = handled /\ (Reject(j) \/ Crash)
    BY <1>8 DEF HandlerRejects, ConfirmsReject
  <2>2. Requeue \/ ready' = ready
    BY <2>1 DEF Reject, Crash
  <2>. QED
    BY <2>1, <2>2, RequeueStep
<1>9. CASE UNCHANGED vars
  BY <1>9 DEF vars
<1>. QED
  BY <1>1, <1>2, <1>3, <1>4, <1>5, <1>6, <1>7, <1>8, <1>9 DEF Next

\* The consumer implements the at-least-once queue.
THEOREM Refinement == Spec => ImplementsAtLeastOnce
<1>1. Init => AtLeastOnceQueue!Init
  BY DEF Init, AtLeastOnceQueue!Init
<1>. QED
  BY <1>1, Invariance, StepSimulation, PTL
     DEF Spec, ImplementsAtLeastOnce, AtLeastOnceQueue!Spec
=============================================================================

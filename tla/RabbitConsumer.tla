--------------------------- MODULE RabbitConsumer ---------------------------
(***************************************************************************)
(* The consuming side of AmqpConnection (packages/rabbitmq/src/amqp/       *)
(* connection.ts): consume, setupSubscriberChannel, receiveMessage,        *)
(* receiveMessages, commit and reject, on ONE queue and ONE channel of ONE *)
(* service process, together with what they rely on: the broker's side of  *)
(* the channel, the reconnecting channel wrapper and the Node process.     *)
(*                                                                         *)
(* A handler is an await: any number of jobs are in progress at once, and  *)
(* the channel a job was started on may be gone when its handler settles.  *)
(* Settlements (ack, reject) are written on a FIFO connection and reach    *)
(* the broker later, or never.                                             *)
(***************************************************************************)
EXTENDS Naturals, Sequences, FiniteSets

CONSTANTS
  Messages,      \* the messages published to the queue
  Body,          \* what the content of a message parses to
  Consumers,     \* the @MessageConsumer handlers subscribed to the queue
  batchSize,     \* options.batchSize; 0 when the option is absent
  prefetchCount, \* the configured prefetch count of the shared channel
  Disturbances,  \* the kinds of disturbance the environment may cause
  MaxFaults      \* a bound on how many of them it causes in a behaviour

\* "object": parses to something truthy; "falsy": parses to 0, false, null or
\* ""; "garbage": does not parse, or the message has no content.
Bodies == {"object", "falsy", "garbage"}

\* "reject": a handler throws or rejects; "loss": the connection is lost;
\* "kill": the process is killed; "cancel": the broker cancels a consumer;
\* "nack": the service publishes on the same channel and the broker refuses
\* one of those publications (the default channel does both).
Kinds == {"reject", "loss", "kill", "cancel", "nack"}

ASSUME ConsumerAssumption ==
  /\ IsFiniteSet(Messages)
  /\ Body \in [Messages -> Bodies]
  /\ batchSize \in Nat
  /\ prefetchCount \in Nat \ {0}
  /\ Disturbances \subseteq Kinds
  /\ MaxFaults \in Nat
  \* A batch channel is never the channel the service publishes on.
  /\ batchSize > 0 => "nack" \notin Disturbances

VARIABLES
  link,      \* the process and its channel
  channel,   \* number of channels opened since the process started
  consumer,  \* the state of each subscription on the current channel
  ready,     \* messages in the queue
  unacked,   \* deliveries the broker waits to see settled
  gone,      \* messages the broker has forgotten
  lastTag,   \* last delivery tag used on the current channel
  wire,      \* settlements written but not yet seen by the broker
  jobs,      \* the invocations of the consume callback in progress
  handled,   \* history: how often a handler ran to its end on a message
  faults     \* disturbances so far

vars == <<link, channel, consumer, ready, unacked, gone, lastTag, wire, jobs,
          handled, faults>>

----------------------------------------------------------------------------
(* Types. *)

Delivery == [tag : Nat, msg : Messages, cons : Consumers]

Frame == [op : {"ack", "reject"}, tag : Nat]

\* A job keeps the channel it was started on: the closure captures it. Its
\* batch is the raw messages it will settle; cancelled says that the null of
\* a consumer cancellation is the last of them.
Job == [ch : Nat, cons : Consumers, batch : Seq(Delivery), cancelled : BOOLEAN,
        pc : {"gathering", "handling", "committing", "dropping", "rejecting"}]

TypeOK ==
  /\ link \in {"crashed", "down", "stranded", "open"}
  /\ channel \in Nat
  /\ consumer \in [Consumers -> {"setup", "subscribed", "cancelled"}]
  /\ ready \subseteq Messages
  /\ unacked \subseteq Delivery
  /\ gone \subseteq Messages
  /\ lastTag \in Nat
  /\ wire \in Seq(Frame)
  /\ jobs \subseteq Job
  /\ handled \in [Messages -> Nat]
  /\ faults \in Nat

Init ==
  /\ link = "down"
  /\ channel = 0
  /\ consumer = [c \in Consumers |-> "setup"]
  /\ ready = Messages
  /\ unacked = {}
  /\ gone = {}
  /\ lastTag = 0
  /\ wire = <<>>
  /\ jobs = {}
  /\ handled = [m \in Messages |-> 0]
  /\ faults = 0

----------------------------------------------------------------------------
(* Helpers. An operator called ..Bug is a plausible mistake in the one that *)
(* follows it; no action uses it.                                          *)

\* Every channel takes the configured count.
PrefetchBug == prefetchCount

\* The prefetch count of the selected channel: a batch channel is created with
\* the batch size as its own count, the others fall back to the configuration.
Prefetch == IF batchSize > 0 THEN batchSize ELSE prefetchCount

Outstanding(c) == {d \in unacked : d.cons = c}

\* The channel is looked up when it is used, not when the job starts.
LiveBug(j) == link = "open"

\* amqplib throws on every operation of a channel that is no longer open.
Live(j) == link = "open" /\ j.ch = channel

Acks(batch) == [i \in 1..Len(batch) |-> [op |-> "ack", tag |-> batch[i].tag]]

\* channel.nack, which the broker's side of this model does not know.
RejectsBug(batch) ==
  [i \in 1..Len(batch) |-> [op |-> "nack", tag |-> batch[i].tag]]

Rejects(batch) ==
  [i \in 1..Len(batch) |-> [op |-> "reject", tag |-> batch[i].tag]]

\* The messages a handler is called with: one message whatever it parses to,
\* or those of the batch that survive the filter.
Seen(j) ==
  {m \in Messages : /\ \E i \in DOMAIN j.batch : j.batch[i].msg = m
                    /\ batchSize > 0 => Body[m] = "object"}

MoveTo(j, pc) == jobs' = (jobs \ {j}) \cup {[j EXCEPT !.pc = pc]}

Disturbance(kind) ==
  /\ kind \in Disturbances
  /\ faults < MaxFaults
  /\ faults' = faults + 1

\* What the broker does with a channel that is gone: deliveries that were not
\* settled return to the queue, settlements in flight are lost.
Requeue ==
  /\ ready' = ready \cup {d.msg : d \in unacked}
  /\ unacked' = {}
  /\ wire' = <<>>
  /\ lastTag' = 0
  /\ consumer' = [c \in Consumers |-> "setup"]

\* The process dies, killed or by an unhandled rejection: its memory is gone.
Crash ==
  /\ link' = "crashed"
  /\ channel' = 0
  /\ jobs' = {}
  /\ Requeue

----------------------------------------------------------------------------
(* Process, connection and channel. *)

Restart ==
  /\ link = "crashed"
  /\ link' = "down"
  /\ UNCHANGED <<channel, consumer, ready, unacked, gone, lastTag, wire, jobs,
                 handled, faults>>

\* The wrapper opens a channel and runs its setups again, in parallel.
Connect ==
  /\ link = "down"
  /\ link' = "open"
  /\ channel' = channel + 1
  /\ UNCHANGED <<consumer, ready, unacked, gone, lastTag, wire, jobs, handled,
                 faults>>

\* The setup added by consume: channel.consume once the queue is asserted.
Subscribe(c) ==
  /\ link = "open"
  /\ consumer[c] = "setup"
  /\ consumer' = [consumer EXCEPT ![c] = "subscribed"]
  /\ UNCHANGED <<link, channel, ready, unacked, gone, lastTag, wire, jobs,
                 handled, faults>>

\* Nothing cancels the jobs in progress: they keep a channel that is closed.
ConnectionLost ==
  /\ link \in {"open", "stranded"}
  /\ Disturbance("loss")
  /\ link' = "down"
  /\ Requeue
  /\ UNCHANGED <<channel, gone, jobs, handled>>

Kill ==
  /\ link # "crashed"
  /\ Disturbance("kill")
  /\ Crash
  /\ UNCHANGED <<gone, handled>>

----------------------------------------------------------------------------
(* Deliveries. *)

\* The broker delivers m to c under the next tag of the channel.
Deliver(c, m) ==
  /\ link = "open"
  /\ consumer[c] = "subscribed"
  /\ m \in ready
  /\ Cardinality(Outstanding(c)) < Prefetch
  /\ ready' = ready \ {m}
  /\ unacked' = unacked \cup {[tag |-> lastTag + 1, msg |-> m, cons |-> c]}
  /\ lastTag' = lastTag + 1

\* What cannot be parsed is ignored instead of acknowledged.
ReceiveGarbageBug(c, m) ==
  LET d == [tag |-> lastTag + 1, msg |-> m, cons |-> c]
  IN /\ batchSize = 0
     /\ Deliver(c, m)
     /\ jobs' = IF Body[m] = "garbage" THEN jobs
                ELSE jobs \cup {[ch |-> channel, cons |-> c, batch |-> <<d>>,
                                 cancelled |-> FALSE, pc |-> "handling"]}
     /\ UNCHANGED <<link, channel, consumer, gone, wire, handled, faults>>

\* receiveMessage's callback up to its first await. A message that cannot be
\* parsed is acknowledged at once, without a handler and outside the try.
ReceiveMessage(c, m) ==
  LET d == [tag |-> lastTag + 1, msg |-> m, cons |-> c]
      job(pc) == [ch |-> channel, cons |-> c, batch |-> <<d>>,
                  cancelled |-> FALSE, pc |-> pc]
  IN /\ batchSize = 0
     /\ Deliver(c, m)
     /\ \/ /\ Body[m] = "garbage"
           /\ wire' = wire \o Acks(<<d>>)
           /\ jobs' = jobs \cup {job("dropping")}
        \/ /\ Body[m] # "garbage"
           /\ jobs' = jobs \cup {job("handling")}
           /\ UNCHANGED wire
     /\ UNCHANGED <<link, channel, consumer, gone, handled, faults>>

\* The tasks waiting in the timed cargo of c on the current channel.
Gathering(c) ==
  {j \in jobs : /\ j.pc = "gathering"
                /\ j.ch = channel
                /\ j.cons = c
                /\ Len(j.batch) < batchSize}

NewCargo(c) == [ch |-> channel, cons |-> c, batch |-> <<>>,
                cancelled |-> FALSE, pc |-> "gathering"]

\* A push replaces the tasks that wait instead of joining them.
PushBug(c, m) ==
  LET d == [tag |-> lastTag + 1, msg |-> m, cons |-> c]
  IN /\ batchSize > 0
     /\ Deliver(c, m)
     /\ \E j \in IF Gathering(c) = {} THEN {NewCargo(c)} ELSE Gathering(c) :
          jobs' = (jobs \ {j}) \cup {[j EXCEPT !.batch = <<d>>]}
     /\ UNCHANGED <<link, channel, consumer, gone, wire, handled, faults>>

\* worker.push of a delivery: it joins the cargo being gathered, or starts one.
Push(c, m) ==
  LET d == [tag |-> lastTag + 1, msg |-> m, cons |-> c]
  IN /\ batchSize > 0
     /\ Deliver(c, m)
     /\ \E j \in IF Gathering(c) = {} THEN {NewCargo(c)} ELSE Gathering(c) :
          jobs' = (jobs \ {j}) \cup {[j EXCEPT !.batch = Append(@, d)]}
     /\ UNCHANGED <<link, channel, consumer, gone, wire, handled, faults>>

\* The cargo waits until it is full: no idle timeout.
FlushFullBug(j) ==
  /\ j.pc = "gathering"
  /\ Len(j.batch) = batchSize
  /\ MoveTo(j, "handling")
  /\ UNCHANGED <<link, channel, consumer, ready, unacked, gone, lastTag, wire,
                 handled, faults>>

\* The batch is acknowledged before its handler runs.
FlushAckBug(j) ==
  /\ j.pc = "gathering"
  /\ MoveTo(j, "handling")
  /\ wire' = IF Live(j) THEN wire \o Acks(j.batch) ELSE wire
  /\ UNCHANGED <<link, channel, consumer, ready, unacked, gone, lastTag,
                 handled, faults>>

\* The cargo is full or its idle timeout has passed: the worker is called. It
\* calls callback() before the handler, so the cargo gathers again meanwhile.
Flush(j) ==
  /\ j.pc = "gathering"
  /\ MoveTo(j, "handling")
  /\ UNCHANGED <<link, channel, consumer, ready, unacked, gone, lastTag, wire,
                 handled, faults>>

\* The broker cancels c: amqplib calls the callback with null. receiveMessage
\* ignores it; receiveMessages pushes it on the cargo like any message.
Cancel(c) ==
  /\ link = "open"
  /\ consumer[c] = "subscribed"
  /\ Disturbance("cancel")
  /\ consumer' = [consumer EXCEPT ![c] = "cancelled"]
  /\ \/ /\ batchSize = 0
        /\ UNCHANGED jobs
     \/ /\ batchSize > 0
        /\ \E j \in IF Gathering(c) = {} THEN {NewCargo(c)} ELSE Gathering(c) :
             jobs' = (jobs \ {j}) \cup {[j EXCEPT !.cancelled = TRUE]}
  /\ UNCHANGED <<link, channel, ready, unacked, gone, lastTag, wire, handled>>

----------------------------------------------------------------------------
(* Settlement. *)

\* The message is put back although its handler succeeded.
CommitRequeuesBug(j) ==
  \/ /\ ~Live(j) /\ j.batch # <<>>
     /\ Crash
  \/ /\ Live(j) \/ j.batch = <<>>
     /\ wire' = wire \o Rejects(j.batch)
     /\ MoveTo(j, "rejecting")
     /\ UNCHANGED <<link, channel, consumer, ready, unacked, lastTag>>

\* commit falls through to reject.
CommitTwiceBug(j) ==
  \/ /\ ~Live(j) /\ j.batch # <<>>
     /\ Crash
  \/ /\ Live(j) \/ j.batch = <<>>
     /\ wire' = wire \o Acks(j.batch) \o Rejects(j.batch)
     /\ MoveTo(j, "rejecting")
     /\ UNCHANGED <<link, channel, consumer, ready, unacked, lastTag>>

\* The synchronous part of commit and, when it throws, of the catch clause.
\* On a dead channel ack throws, then reject throws out of the callback: an
\* unhandled rejection. A null at the end of a batch makes ack throw after the
\* messages before it were acknowledged, and the catch rejects them again.
Commit(j) ==
  \/ /\ ~Live(j) /\ j.batch # <<>>
     /\ Crash
  \/ /\ Live(j) \/ j.batch = <<>>
     /\ IF j.cancelled
        THEN /\ wire' = wire \o Acks(j.batch) \o Rejects(j.batch)
             /\ MoveTo(j, "rejecting")
        ELSE /\ wire' = wire \o Acks(j.batch)
             /\ MoveTo(j, "committing")
     /\ UNCHANGED <<link, channel, consumer, ready, unacked, lastTag>>

\* The error is logged and the message neither acknowledged nor rejected.
RejectForgetsBug(j) ==
  /\ MoveTo(j, "rejecting")
  /\ UNCHANGED <<link, channel, consumer, ready, unacked, lastTag, wire>>

\* requeue defaults to false: the broker forgets the message.
RejectDiscardsBug(j) ==
  \/ /\ ~Live(j) /\ j.batch # <<>>
     /\ Crash
  \/ /\ Live(j) \/ j.batch = <<>>
     /\ wire' = wire \o Acks(j.batch)
     /\ MoveTo(j, "rejecting")
     /\ UNCHANGED <<link, channel, consumer, ready, unacked, lastTag>>

\* The synchronous part of reject, with requeue.
Reject(j) ==
  \/ /\ ~Live(j) /\ j.batch # <<>>
     /\ Crash
  \/ /\ Live(j) \/ j.batch = <<>>
     /\ wire' = wire \o Rejects(j.batch)
     /\ MoveTo(j, "rejecting")
     /\ UNCHANGED <<link, channel, consumer, ready, unacked, lastTag>>

\* The handler's promise resolves and commit runs.
HandlerResolves(j) ==
  /\ j.pc = "handling"
  /\ handled' = [m \in Messages |->
                   IF m \in Seen(j) THEN handled[m] + 1 ELSE handled[m]]
  /\ Commit(j)
  /\ UNCHANGED <<gone, faults>>

\* The handler throws or rejects and the catch clause runs.
HandlerRejects(j) ==
  /\ j.pc = "handling"
  /\ Disturbance("reject")
  /\ Reject(j)
  /\ UNCHANGED <<gone, handled>>

\* waitForConfirms resolves and the job ends.
ConfirmsResolve(j) ==
  /\ j.pc \in {"committing", "dropping", "rejecting"}
  /\ jobs' = jobs \ {j}
  /\ UNCHANGED <<link, channel, consumer, ready, unacked, gone, lastTag, wire,
                 handled, faults>>

\* waitForConfirms rejects because the broker refuses a publication on the same
\* channel, which is open then: in the try it leads to reject, elsewhere it
\* escapes from the callback.
ConfirmsReject(j) ==
  /\ Live(j)
  /\ Disturbance("nack")
  /\ \/ j.pc = "committing" /\ Reject(j)
     \/ j.pc \in {"dropping", "rejecting"} /\ Crash
  /\ UNCHANGED <<gone, handled>>

\* The broker reads the next settlement. A tag it does not know is a
\* PRECONDITION_FAILED that closes the channel; the connection stays up, so
\* the wrapper does not open another.
BrokerSettles ==
  /\ link = "open"
  /\ wire # <<>>
  /\ \/ \E d \in unacked :
          /\ d.tag = Head(wire).tag
          /\ unacked' = unacked \ {d}
          /\ wire' = Tail(wire)
          /\ \/ /\ Head(wire).op = "ack"
                /\ gone' = gone \cup {d.msg}
                /\ UNCHANGED ready
             \/ /\ Head(wire).op = "reject"
                /\ ready' = ready \cup {d.msg}
                /\ UNCHANGED gone
          /\ UNCHANGED <<link, consumer, lastTag>>
     \/ /\ \A d \in unacked : d.tag # Head(wire).tag
        /\ link' = "stranded"
        /\ Requeue
        /\ UNCHANGED gone
  /\ UNCHANGED <<channel, jobs, handled, faults>>

----------------------------------------------------------------------------

Next ==
  \/ Restart
  \/ Connect
  \/ ConnectionLost
  \/ Kill
  \/ BrokerSettles
  \/ \E c \in Consumers : Subscribe(c) \/ Cancel(c)
  \/ \E c \in Consumers, m \in Messages : ReceiveMessage(c, m) \/ Push(c, m)
  \/ \E j \in jobs : \/ Flush(j)
                     \/ HandlerResolves(j)
                     \/ HandlerRejects(j)
                     \/ ConfirmsResolve(j)
                     \/ ConfirmsReject(j)

Spec == Init /\ [][Next]_vars

\* The process is restarted, the wrapper reconnects, timers fire, the broker
\* delivers and settles, and a handler that is not made to reject resolves.
Fairness ==
  /\ WF_vars(Restart)
  /\ WF_vars(Connect)
  /\ WF_vars(BrokerSettles)
  /\ \A c \in Consumers : WF_vars(Subscribe(c))
  /\ WF_vars(\E c \in Consumers, m \in Messages : ReceiveMessage(c, m) \/ Push(c, m))
  /\ WF_vars(\E j \in jobs : Flush(j))
  /\ WF_vars(\E j \in jobs : HandlerResolves(j))
  /\ WF_vars(\E j \in jobs : ConfirmsResolve(j))

FairSpec == Spec /\ Fairness

----------------------------------------------------------------------------
(* Safety. *)

\* The messages that may be acknowledged without any handler having run on
\* them: what does not parse, and in a batch what parses to something falsy.
Droppable ==
  {m \in Messages : \/ Body[m] = "garbage"
                    \/ batchSize > 0 /\ Body[m] = "falsy"}

\* At least once: the broker forgets a message only after a handler ran to its
\* end on it, in spite of lost channels, redeliveries and tags used again.
GoneOnlyIfHandled == \A m \in gone : handled[m] > 0 \/ m \in Droppable

\* No delivery is forgotten by the consumer: while the broker waits for a
\* settlement, a job on the current channel will write it, or has written it.
UnackedAccounted ==
  \A d \in unacked :
    \/ \E i \in DOMAIN wire : wire[i].tag = d.tag
    \/ \E j \in jobs : /\ Live(j)
                       /\ j.pc \in {"gathering", "handling"}
                       /\ \E i \in DOMAIN j.batch : j.batch[i] = d

\* The deliveries handlers of c are working on, on the current channel.
Handling(c) ==
  UNION {{j.batch[i] : i \in DOMAIN j.batch} :
           j \in {k \in jobs : k.cons = c /\ k.pc = "handling" /\ Live(k)}}

\* Back pressure: although the worker lets the next batch in before its
\* handler has run, the handlers of a consumer never work on more than one
\* batch's worth of messages; without batches, on the prefetch count.
HandlerLoadBounded ==
  \A c \in Consumers :
    Cardinality(Handling(c)) <= IF batchSize > 0 THEN batchSize ELSE prefetchCount

\* A delivery is settled at most once: every settlement in flight names a
\* delivery the broker still waits for, and no two name the same. It fails
\* where publications are refused or a batch consumer is cancelled.
SettledOnce ==
  \A i \in DOMAIN wire :
    /\ \E d \in unacked : d.tag = wire[i].tag
    /\ \A k \in DOMAIN wire : wire[k].tag = wire[i].tag => k = i

\* Handlers run again on a message only because something went wrong, and
\* each disturbance costs a message at most two more runs.
DuplicatesBounded == \A m \in Messages : handled[m] <= 1 + 2 * faults

----------------------------------------------------------------------------
(* Why a message is never forgotten unhandled: the parts of an inductive   *)
(* invariant, which RabbitConsumerProofs proves.                           *)

Warranted(m) == handled[m] > 0 \/ m \in Droppable

\* The tags of the current channel are in use at most once, up to lastTag.
TagsUnique ==
  /\ \A d, e \in unacked : d.tag = e.tag => d = e
  /\ \A d \in unacked : d.tag <= lastTag
  /\ \A i \in DOMAIN wire : wire[i].tag <= lastTag

\* What a job on the current channel will settle is what it was given: a tag
\* of its batch still unsettled is that delivery and no later one.
Current(j) ==
  /\ j.ch <= channel
  /\ Live(j) => \A i \in DOMAIN j.batch :
       /\ j.batch[i].tag <= lastTag
       /\ \A d \in unacked : d.tag = j.batch[i].tag => d = j.batch[i]

JobsCurrent == \A j \in jobs : Current(j)

\* An acknowledgement in flight that the broker will honour is warranted.
AcksWarranted ==
  \A i \in DOMAIN wire : wire[i].op = "ack" =>
    \A d \in unacked : d.tag = wire[i].tag => Warranted(d.msg)

\* A message is in one place: in the queue, with one delivery, or forgotten.
OnePlace ==
  /\ ready \cap gone = {}
  /\ \A d \in unacked : d.msg \notin ready \cup gone
  /\ \A d, e \in unacked : d.msg = e.msg => d = e

IInv ==
  /\ TypeOK
  /\ TagsUnique
  /\ JobsCurrent
  /\ AcksWarranted
  /\ GoneOnlyIfHandled
  /\ OnePlace

----------------------------------------------------------------------------
(* Why deliveries are settled once and handled a bounded number of times:  *)
(* the parts of a second inductive invariant, which                        *)
(* RabbitSettlementProofs proves.                                          *)

\* The handler of j has not ended.
Unfinished(j) == j.pc \in {"gathering", "handling"}

OnWire(t) == \E i \in DOMAIN wire : wire[i].tag = t

\* On the current channel, no delivery is given to two jobs, or twice to one.
BatchesApart ==
  \A j, k \in jobs : Live(j) /\ Live(k) =>
    \A i \in DOMAIN j.batch, n \in DOMAIN k.batch :
      j.batch[i].tag = k.batch[n].tag => j = k /\ i = n

\* Until its handler has ended, the broker waits for every delivery of a job
\* on the current channel and nothing has been written about it.
PendingHeld ==
  \A j \in jobs : Live(j) /\ Unfinished(j) => \A i \in DOMAIN j.batch :
    /\ j.batch[i] \in unacked
    /\ j.batch[i].cons = j.cons
    /\ ~OnWire(j.batch[i].tag)

\* The broker's own limit.
LoadLimited ==
  /\ IsFiniteSet(unacked)
  /\ \A c \in Consumers : Cardinality(Outstanding(c)) <= Prefetch

\* Of two settlements of one delivery, the second is a rejection.
AckFirst ==
  \A i, k \in DOMAIN wire :
    i < k /\ wire[i].tag = wire[k].tag => wire[k].op = "reject"

\* The handlers that still run on a channel that is gone: they end in a crash.
Lost(j) == ~Live(j) /\ Unfinished(j)

Holds(j, m) == \E i \in DOMAIN j.batch : j.batch[i].msg = m

CrashAhead == \E j \in jobs : Lost(j) /\ j.batch # <<>>

RunAhead(m) == \E j \in jobs : Lost(j) /\ Holds(j, m)

\* A settlement the broker will not understand is written or will be.
StrandingAhead == ~SettledOnce \/ \E j \in jobs : Live(j) /\ j.cancelled

Acked(m) ==
  \/ m \in gone
  \/ \E d \in unacked, i \in DOMAIN wire :
       d.msg = m /\ wire[i].op = "ack" /\ wire[i].tag = d.tag

\* The account of a message: the runs it has had and the runs that what has
\* gone wrong may still cost it are paid for by the disturbances.
RunsOwed(m) ==
  (IF RunAhead(m) THEN 2 ELSE IF CrashAhead THEN 1 ELSE 0)
    + (IF StrandingAhead THEN 2 ELSE 0)

Paid(m) == handled[m] + RunsOwed(m) <= 2 * faults + (IF Acked(m) THEN 1 ELSE 0)

RunsPaid == \A m \in Messages : Paid(m)

DeliveriesHeld ==
  /\ UnackedAccounted
  /\ BatchesApart
  /\ PendingHeld
  /\ LoadLimited
  /\ AckFirst

SettlementInv == IInv /\ DeliveriesHeld /\ RunsPaid

\* No settlement is written twice: nothing is published on the channel, or all
\* of it is confirmed, and no consumer with a cargo is cancelled.
SingleSettlement ==
  /\ "nack" \notin Disturbances
  /\ batchSize = 0 \/ "cancel" \notin Disturbances

NoneCancelled == \A j \in jobs : ~j.cancelled

----------------------------------------------------------------------------
(* Refinement. *)

AtLeastOnceQueue ==
  INSTANCE AtLeastOnce WITH waiting <- ready, done <- gone, times <- handled

\* Every step of the consumer is a step of the abstract queue or hides in it.
ImplementsAtLeastOnce == AtLeastOnceQueue!Spec

\* With fair scheduling and finitely many disturbances, every message is
\* handled or dropped and then forgotten.
EventuallySettled == AtLeastOnceQueue!EventuallySettled
=============================================================================

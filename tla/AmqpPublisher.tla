--------------------------- MODULE AmqpPublisher ---------------------------
(***************************************************************************)
(* The publishing side of AmqpConnection: publish and sendToQueue          *)
(* (packages/rabbitmq/src/amqp/connection.ts), called from an HTTP handler *)
(* behind RabbitIngestorInterceptor (interceptors/rabbit-ingestor.         *)
(* interceptor.ts), over the reconnecting channel wrapper.                 *)
(*                                                                         *)
(* A request publishes several messages at once and is answered when all   *)
(* are confirmed, when one fails, or after the interceptor's timeout. The  *)
(* answer cancels nothing: the wrapper keeps what it was handed, and sends *)
(* it again on a new channel when it was not confirmed on the old one.     *)
(***************************************************************************)
EXTENDS Naturals, Sequences, FiniteSets, SequencesExt

CONSTANTS
  Requests,      \* the HTTP requests
  Payload,       \* the messages each of them publishes
  Disturbances,  \* the kinds of disturbance the environment may cause
  MaxFaults      \* a bound on how many of them it causes in a behaviour

\* "plain" can be serialised; the serializer throws on "cyclic".
Contents == {"plain", "cyclic"}

\* "loss": the connection is lost; "close": the channel is closed but not the
\* connection; "nack": the broker refuses a publication; "kill": the process
\* dies.
Kinds == {"loss", "close", "nack", "kill"}

ASSUME PublisherAssumption ==
  /\ Payload \in [Requests -> Seq(Contents)]
  /\ Disturbances \subseteq Kinds
  /\ MaxFaults \in Nat

VARIABLES
  connected,    \* the connection manager's isConnected()
  channel,      \* the default channel wrapper's channel
  phase,        \* the promise of publish, per request
  answer,       \* the answer the HTTP client got, per request
  buffer,       \* messages the wrapper has to send
  unconfirmed,  \* messages it sent and has no confirmation of
  wire,         \* messages written on the channel
  confirms,     \* confirmations on their way back
  settled,      \* what became of the wrapper's promise for each message
  stored,       \* history: how often the broker stored each message
  faults        \* disturbances so far

vars == <<connected, channel, phase, answer, buffer, unconfirmed, wire, confirms,
          settled, stored, faults>>

----------------------------------------------------------------------------

ItemsOf(r) == {<<r, i>> : i \in DOMAIN Payload[r]}

Items == UNION {ItemsOf(r) : r \in Requests}

TypeOK ==
  /\ connected \in BOOLEAN
  /\ channel \in {"closed", "opening", "open"}
  /\ phase \in [Requests -> {"idle", "waiting", "resolved", "rejected", "thrown"}]
  /\ answer \in [Requests -> {"none", "ok", "failed"}]
  /\ buffer \in Seq(Items)
  /\ unconfirmed \in Seq(Items)
  /\ wire \in Seq(Items)
  /\ confirms \subseteq [item : Items, ack : BOOLEAN]
  /\ settled \in [Items -> {"none", "confirmed", "refused"}]
  /\ stored \in [Items -> Nat]
  /\ faults \in Nat

Init ==
  /\ connected = FALSE
  /\ channel = "closed"
  /\ phase = [r \in Requests |-> "idle"]
  /\ answer = [r \in Requests |-> "none"]
  /\ buffer = <<>>
  /\ unconfirmed = <<>>
  /\ wire = <<>>
  /\ confirms = {}
  /\ settled = [it \in Items |-> "none"]
  /\ stored = [it \in Items |-> 0]
  /\ faults = 0

Disturbance(kind) ==
  /\ kind \in Disturbances
  /\ faults < MaxFaults
  /\ faults' = faults + 1

----------------------------------------------------------------------------
(* The connection and the wrapper. An operator called ..Bug is a plausible *)
(* mistake in the one that follows it; no action uses it.                  *)

Reconnect ==
  /\ ~connected
  /\ connected' = TRUE
  /\ channel' = "opening"
  /\ UNCHANGED <<phase, answer, buffer, unconfirmed, wire, confirms, settled,
                 stored, faults>>

\* What was not confirmed before is not sent again.
ChannelOpensBug ==
  /\ channel = "opening"
  /\ channel' = "open"
  /\ UNCHANGED <<connected, phase, answer, buffer, unconfirmed, wire, confirms, settled,
                 stored, faults>>

\* The setups are done. What was not confirmed before is to be sent again.
ChannelOpens ==
  /\ channel = "opening"
  /\ channel' = "open"
  /\ buffer' = buffer \o unconfirmed
  /\ unconfirmed' = <<>>
  /\ UNCHANGED <<connected, phase, answer, wire, confirms, settled, stored, faults>>

ConnectionLost ==
  /\ connected
  /\ Disturbance("loss")
  /\ connected' = FALSE
  /\ channel' = "closed"
  /\ wire' = <<>>
  /\ confirms' = {}
  /\ UNCHANGED <<phase, answer, buffer, unconfirmed, settled, stored>>

\* The wrapper waits for the next connection to open another channel; the
\* connection still reports that it is connected.
ChannelClosed ==
  /\ channel = "open"
  /\ Disturbance("close")
  /\ channel' = "closed"
  /\ wire' = <<>>
  /\ confirms' = {}
  /\ UNCHANGED <<connected, phase, answer, buffer, unconfirmed, settled, stored>>

\* The process dies: what the wrapper held is lost, and the clients see their
\* requests fail.
Crash ==
  /\ connected' = FALSE
  /\ channel' = "closed"
  /\ phase' = [r \in Requests |-> IF phase[r] = "waiting" THEN "rejected" ELSE phase[r]]
  /\ answer' = [r \in Requests |->
                  IF phase[r] = "waiting" /\ answer[r] = "none" THEN "failed" ELSE answer[r]]
  /\ buffer' = <<>>
  /\ unconfirmed' = <<>>
  /\ wire' = <<>>
  /\ confirms' = {}

Kill ==
  /\ Disturbance("kill")
  /\ Crash
  /\ UNCHANGED <<settled, stored>>

Send ==
  /\ channel = "open"
  /\ buffer # <<>>
  /\ buffer' = Tail(buffer)
  /\ unconfirmed' = Append(unconfirmed, Head(buffer))
  /\ wire' = Append(wire, Head(buffer))
  /\ UNCHANGED <<connected, channel, phase, answer, confirms, settled, stored, faults>>

\* Publications are taken to be routable: a broker would also confirm what no
\* queue is bound for, and drop it.
BrokerStores ==
  /\ wire # <<>>
  /\ wire' = Tail(wire)
  /\ stored' = [stored EXCEPT ![Head(wire)] = @ + 1]
  /\ confirms' = confirms \cup {[item |-> Head(wire), ack |-> TRUE]}
  /\ UNCHANGED <<connected, channel, phase, answer, buffer, unconfirmed, settled,
                 faults>>

BrokerRefuses ==
  /\ wire # <<>>
  /\ Disturbance("nack")
  /\ wire' = Tail(wire)
  /\ confirms' = confirms \cup {[item |-> Head(wire), ack |-> FALSE]}
  /\ UNCHANGED <<connected, channel, phase, answer, buffer, unconfirmed, settled,
                 stored>>

----------------------------------------------------------------------------
(* Requests.                                                               *)

\* The messages before the first that cannot be serialised, in order.
Handed(r) ==
  LET bad == {i \in DOMAIN Payload[r] : Payload[r][i] = "cyclic"}
      n == IF bad = {} THEN Len(Payload[r])
           ELSE (CHOOSE i \in bad : \A k \in bad : i <= k) - 1
  IN [i \in 1..n |-> <<r, i>>]

\* The interceptor answers once: after its timeout it has unsubscribed.
Answer(r, a) == answer' = [answer EXCEPT ![r] = IF @ = "none" THEN a ELSE @]

\* publish and sendToQueue up to the await. Nothing is published unless the
\* connection is up; with no messages there is nothing to wait for; a serializer
\* that throws leaves the messages before it with the wrapper, and nobody waits
\* for their promises.
Publish(r) ==
  /\ phase[r] = "idle"
  /\ \/ /\ ~connected
        /\ phase' = [phase EXCEPT ![r] = "rejected"]
        /\ Answer(r, "failed")
        /\ UNCHANGED buffer
     \/ /\ connected
        /\ Payload[r] = <<>>
        /\ phase' = [phase EXCEPT ![r] = "resolved"]
        /\ Answer(r, "ok")
        /\ UNCHANGED buffer
     \/ /\ connected
        /\ Payload[r] # <<>>
        /\ Len(Handed(r)) = Len(Payload[r])
        /\ phase' = [phase EXCEPT ![r] = "waiting"]
        /\ buffer' = buffer \o Handed(r)
        /\ UNCHANGED answer
     \/ /\ connected
        /\ Len(Handed(r)) < Len(Payload[r])
        /\ phase' = [phase EXCEPT ![r] = "thrown"]
        /\ Answer(r, "failed")
        /\ buffer' = buffer \o Handed(r)
  /\ UNCHANGED <<connected, channel, unconfirmed, wire, confirms, settled, stored,
                 faults>>

\* The first confirmation decides: Promise.race.
AllConfirmedBug(r) == \E it \in ItemsOf(r) : settled'[it] = "confirmed"

AllConfirmed(r) == \A it \in ItemsOf(r) : settled'[it] = "confirmed"

\* The wrapper looks a confirmed message up among those it sent and cuts it out.
Without(s, it) == RemoveAt(s, CHOOSE i \in DOMAIN s : s[i] = it)

\* A confirmation settles the promise of one message, and Promise.all that of
\* the request: resolved when all are confirmed, rejected by the first refusal.
Confirm(c) ==
  LET r == c.item[1]
  IN /\ phase[r] = "thrown" => c.ack
     /\ confirms' = confirms \ {c}
     /\ unconfirmed' = Without(unconfirmed, c.item)
     /\ settled' = [settled EXCEPT ![c.item] = IF c.ack THEN "confirmed" ELSE "refused"]
     /\ \/ /\ phase[r] = "waiting"
           /\ ~c.ack
           /\ phase' = [phase EXCEPT ![r] = "rejected"]
           /\ Answer(r, "failed")
        \/ /\ phase[r] = "waiting"
           /\ c.ack /\ AllConfirmed(r)
           /\ phase' = [phase EXCEPT ![r] = "resolved"]
           /\ Answer(r, "ok")
        \/ /\ phase[r] # "waiting" \/ (c.ack /\ ~AllConfirmed(r))
           /\ UNCHANGED <<phase, answer>>
     /\ UNCHANGED <<connected, channel, buffer, wire, stored, faults>>

\* A refusal that rejects a promise nobody waits for: an unhandled rejection.
OrphanRefused(c) ==
  /\ phase[c.item[1]] = "thrown"
  /\ ~c.ack
  /\ Crash
  /\ settled' = [settled EXCEPT ![c.item] = "refused"]
  /\ UNCHANGED <<stored, faults>>

\* Without the timeout operator a request waits for its promise alone.
NoTimeoutBug(r) ==
  /\ phase[r] = "resolved" /\ answer[r] = "none"
  /\ Answer(r, "ok")
  /\ UNCHANGED <<connected, channel, phase, buffer, unconfirmed, wire, confirms,
                 settled, stored, faults>>

\* The timeout's own error reaches the client.
TimeoutStatusBug(r) ==
  /\ phase[r] = "waiting" /\ answer[r] = "none"
  /\ Answer(r, "timeout")
  /\ UNCHANGED <<connected, channel, phase, buffer, unconfirmed, wire, confirms,
                 settled, stored, faults>>

\* The timeout publishes again instead of giving up.
TimeoutRetriesBug(r) ==
  /\ phase[r] = "waiting" /\ answer[r] = "none"
  /\ Answer(r, "failed")
  /\ buffer' = buffer \o Handed(r)
  /\ UNCHANGED <<connected, channel, phase, unconfirmed, wire, confirms, settled,
                 stored, faults>>

\* IDLE_TIMEOUT has passed: the client is told that sending failed.
Timeout(r) ==
  /\ phase[r] = "waiting"
  /\ answer[r] = "none"
  /\ Answer(r, "failed")
  /\ UNCHANGED <<connected, channel, phase, buffer, unconfirmed, wire, confirms,
                 settled, stored, faults>>

----------------------------------------------------------------------------

Next ==
  \/ Reconnect
  \/ ChannelOpens
  \/ ConnectionLost
  \/ ChannelClosed
  \/ Kill
  \/ Send
  \/ BrokerStores
  \/ BrokerRefuses
  \/ \E r \in Requests : Publish(r) \/ Timeout(r)
  \/ \E c \in confirms : Confirm(c) \/ OrphanRefused(c)

Spec == Init /\ [][Next]_vars

Fairness ==
  /\ WF_vars(Reconnect)
  /\ WF_vars(ChannelOpens)
  /\ WF_vars(Send)
  /\ WF_vars(BrokerStores)
  /\ WF_vars(\E c \in confirms : Confirm(c) \/ OrphanRefused(c))
  /\ \A r \in Requests : WF_vars(Timeout(r))

FairSpec == Spec /\ Fairness

----------------------------------------------------------------------------
(* Safety. *)

\* A client that is told its messages were sent can rely on it: the broker has
\* stored every one of them, whatever channels they were sent on.
OkMeansStored ==
  \A r \in Requests : answer[r] = "ok" => \A it \in ItemsOf(r) : stored[it] > 0

\* A message is stored more than once only because its confirmation was lost.
StoredBounded == \A it \in Items : stored[it] <= 1 + faults

\* What the code tells the client after a timeout or a failure: 'Failed to send
\* a message'. The message may have been stored, or be stored later.
FailedMeansNotSent ==
  \A r \in Requests : answer[r] = "failed" => \A it \in ItemsOf(r) : stored[it] = 0

----------------------------------------------------------------------------
(* Why a client can rely on its answer and a message is stored a bounded   *)
(* number of times: the parts of an inductive invariant, which             *)
(* AmqpPublisherProofs proves.                                             *)

\* Nothing is under way on a channel that is not open.
OnlyWhileOpen ==
  /\ channel # "open" => wire = <<>> /\ confirms = {}
  /\ ~connected => channel = "closed"

\* The wrapper has at most one copy of a message, to send or to see confirmed,
\* and none of a request that is not published yet.
OneCopy ==
  /\ IsInjective(buffer)
  /\ IsInjective(unconfirmed)
  /\ \A it \in Items :
       /\ Contains(buffer, it) => ~Contains(unconfirmed, it)
       /\ phase[it[1]] = "idle" => ~Contains(buffer, it) /\ ~Contains(unconfirmed, it)

\* What is under way is unconfirmed, and either written or answered, once.
UnderWay ==
  /\ IsInjective(wire)
  /\ \A it \in Items : Contains(wire, it) => Contains(unconfirmed, it)
  /\ \A c \in confirms : Contains(unconfirmed, c.item) /\ ~Contains(wire, c.item)
  /\ \A c, e \in confirms : c.item = e.item => c = e

\* The broker may store the message once more without another disturbance.
StoreAhead(it) ==
  \/ phase[it[1]] = "idle"
  \/ Contains(buffer, it)
  \/ Contains(wire, it)
  \/ channel # "open" /\ Contains(unconfirmed, it)

StorePaid(it) == stored[it] + (IF StoreAhead(it) THEN 1 ELSE 0) <= 1 + faults

StoresPaid == \A it \in Items : StorePaid(it)

\* What the wrapper is told is stored, is.
ConfirmedStored ==
  /\ \A c \in confirms : c.ack => stored[c.item] > 0
  /\ \A it \in Items : settled[it] = "confirmed" => stored[it] > 0

IInv ==
  /\ TypeOK
  /\ OnlyWhileOpen
  /\ OneCopy
  /\ UnderWay
  /\ StoresPaid
  /\ ConfirmedStored
  /\ OkMeansStored

----------------------------------------------------------------------------
(* Liveness. *)

\* Every request is answered, even when the channel never comes back.
EveryRequestAnswered ==
  \A r \in Requests : phase[r] = "waiting" ~> answer[r] # "none"

\* Once a channel stays, the wrapper gets rid of all it holds: also of what was
\* under way when earlier channels went, and of what nobody waits for any more
\* because the client was told that it failed.
WrapperDrains ==
  <>[](channel = "open") => []<>(buffer = <<>> /\ unconfirmed = <<>>)
=============================================================================

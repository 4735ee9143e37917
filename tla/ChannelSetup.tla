---------------------------- MODULE ChannelSetup ----------------------------
(***************************************************************************)
(* How the channels of AmqpConnection (packages/rabbitmq/src/amqp/         *)
(* connection.ts) come to have their prefetch count, exchanges, queues,    *)
(* bindings and consumers: init and createChannel, then the consume calls  *)
(* of AmqpModule.onApplicationBootstrap (amqp.module.ts), all through      *)
(* addSetup of the channel wrapper.                                        *)
(*                                                                         *)
(* The connection comes up whenever it does. A setup added to an open      *)
(* channel runs at once and its caller waits for it; one added before is   *)
(* kept, the caller goes on, and all setups of a channel run together when *)
(* it opens, their requests interleaved on the channel in FIFO order.      *)
(***************************************************************************)
EXTENDS Naturals, Sequences, FiniteSets, SequencesExt

CONSTANTS
  Consumers,      \* the consumers of the application: decorated methods
  Bindings,       \* the calls of binding() that the service makes
  options,        \* the options of each of them
  Groups,         \* the consumers of each provider, in bootstrap order
  exchanges,      \* config.exchanges, in configuration order
  prefetchCount,  \* config.prefetchCount
  channels,       \* the entries of config.channels, in configuration order
  consumer,       \* the consumers with an entry in config.consumer, in order
  Existing,       \* the exchanges the broker has at first
  Disturbances,   \* subset of {"loss", "kill"}
  MaxFaults       \* a bound on how many of them happen in a behaviour

\* channel: queueOptions.channel, if any; batchSize: 0 when there is none;
\* exchange: the exchange bound to, if any, which the broker may not have;
\* createQueue: createQueueIfNotExists; enable: the enable flag. The broker is
\* taken to have the queues of those who do not create theirs.
Options == [queue : STRING, channel : STRING \cup {"none"}, batchSize : Nat,
            exchange : Range(exchanges) \cup {"none"}, createQueue : BOOLEAN, enable : BOOLEAN]

\* The keys of _managedChannels: the name of a configured channel, or the
\* queue and batch size that getChannelName makes a name of.
Named(name) == <<name, 0>>
GetChannelName(c) == <<options[c].queue, options[c].batchSize>>

ASSUME SetupAssumption ==
  /\ "base" \notin Consumers \cup Bindings /\ Consumers \cap Bindings = {}
  /\ \A c \in Consumers \cup Bindings : options[c] \in Options
  /\ Groups \in Seq(Seq(Consumers))
  /\ \* A method belongs to one provider, and is found once.
     \A m, n \in DOMAIN Groups : \A i \in DOMAIN Groups[m], k \in DOMAIN Groups[n] :
       Groups[m][i] = Groups[n][k] => m = n /\ i = k
  /\ exchanges \in Seq(Range(exchanges))
  /\ prefetchCount \in Nat \ {0}
  /\ channels \in Seq([name : STRING, prefetchCount : Nat])
  /\ \A i, j \in DOMAIN channels : channels[i].name = channels[j].name => i = j
  /\ consumer \in Seq(Consumers)
  /\ \* An enabled consumer of batches has a channel: it, or one like it, has an entry.
     \A c \in Consumers : options[c].enable /\ options[c].batchSize > 0 =>
       \E d \in Range(consumer) : GetChannelName(d) = GetChannelName(c)
  /\ Existing \subseteq Range(exchanges)
  /\ Disturbances \subseteq {"loss", "kill"}
  /\ MaxFaults \in Nat

Wrapper(name, count) == [name |-> name, prefetchCount |-> count]

\* The members of T in s, in order.
Only(s, T) == FlattenSeq([i \in 1..Len(s) |-> IF s[i] \in T THEN <<s[i]>> ELSE <<>>])

\* The wrappers made by createChannel and createBatchConsumingChannel, in order:
\* the default one, one for each configured channel, one for each entry of
\* config.consumer with a batch size. Two of the last may have the same name.
Wrappers ==
  LET batches == Only(consumer, {c \in Consumers : options[c].batchSize > 0})
  IN <<Wrapper(Named("AmqpConnection"), prefetchCount)>>
     \o [i \in DOMAIN channels |->
           Wrapper(Named(channels[i].name), IF channels[i].prefetchCount = 0 THEN prefetchCount
                                            ELSE channels[i].prefetchCount)]
     \o [i \in DOMAIN batches |-> Wrapper(GetChannelName(batches[i]), options[batches[i]].batchSize)]

Channels == DOMAIN Wrappers

Default == 1

\* What _managedChannels has under this name: the last wrapper that was given it.
ManagedChannels(name) == Max({w \in Channels : Wrappers[w].name = name})

\* selectManagedChannel.
SelectManagedChannel(c) ==
  IF options[c].batchSize > 0 THEN ManagedChannels(GetChannelName(c))
  ELSE IF \E w \in Channels : Wrappers[w].name = Named(options[c].channel)
       THEN ManagedChannels(Named(options[c].channel))
       ELSE Default

\* The consumers that register on a channel.
ConsumersOf(ch) == {c \in Consumers : options[c].enable /\ SelectManagedChannel(c) = ch}

\* "base" is the setup of createChannel, the others are those of consume and binding.
Setups == {"base"} \cup Consumers \cup Bindings

VARIABLES
  up,          \* whether the process runs
  stage,       \* how far init and bootstrap are
  awaited,     \* the addSetup calls they wait for
  connected,   \* whether the connection is up
  channel,     \* the state of each wrapper's channel
  setups,      \* the setups each wrapper keeps, in order
  waiting,     \* the addSetup calls that wait for an opening channel
  rpcs,        \* requests on each channel, the first is with the broker
  position,    \* the step each setup is at, 0 when it does not run
  prefetch,    \* the prefetch count of each channel, 0 until it is set
  subscribed,  \* number of subscriptions of each consumer
  bound,       \* the calls of binding() made
  known,       \* the exchanges the broker has
  faults       \* disturbances so far

vars == <<up, stage, awaited, connected, channel, setups, waiting, rpcs, position,
          prefetch, subscribed, bound, known, faults>>

----------------------------------------------------------------------------
(* The requests of a setup, in steps. The requests of a step are made      *)
(* together; the last of them is awaited, unless it is a binding, and the  *)
(* setup goes on when it is answered. An operator called ..Bug is a        *)
(* plausible mistake in the one that follows it; no action uses it.        *)

Declare == [i \in 1..Len(exchanges) |-> <<[op |-> "assertExchange", arg |-> exchanges[i]]>>]

Qos(ch) == <<[op |-> "prefetch", arg |-> Wrappers[ch].prefetchCount]>>

\* setupChannel asserts the exchanges first.
SetupChannelBug(ch) == IF ch = Default THEN Append(Declare, Qos(ch)) ELSE <<Qos(ch)>>

\* setupChannel: the prefetch count, then on the default channel the exchanges.
SetupChannel(ch) == IF ch = Default THEN <<Qos(ch)>> \o Declare ELSE <<Qos(ch)>>

AssertQueue(c) ==
  IF options[c].createQueue THEN <<<<[op |-> "assertQueue", arg |-> "none"]>>>> ELSE <<>>

Bind(c) == <<[op |-> "bindQueue", arg |-> options[c].exchange]>>

Consume == <<[op |-> "consume", arg |-> "none"]>>

\* setupQueue binds even when the options name no exchange.
SetupSubscriberBug(c) == Append(AssertQueue(c), Bind(c) \o Consume)

\* setupQueue and setupSubscriberChannel: the binding is not awaited, so the
\* consumer is registered in the same step.
SetupSubscriber(c) ==
  Append(AssertQueue(c), IF options[c].exchange = "none" THEN Consume ELSE Bind(c) \o Consume)

\* binding: setupQueue alone.
SetupBinding(b) ==
  IF options[b].exchange = "none" THEN AssertQueue(b) ELSE Append(AssertQueue(b), Bind(b))

Awaited(step) == step[Len(step)].op # "bindQueue"

\* The steps of a setup: their requests, last being the one that is awaited.
Program ==
  [ch \in Channels |-> [s \in Setups |->
     LET steps == IF s = "base" THEN SetupChannel(ch)
                  ELSE IF s \in Bindings THEN SetupBinding(s) ELSE SetupSubscriber(s)
     IN [i \in DOMAIN steps |-> [k \in DOMAIN steps[i] |->
           [setup |-> s, op |-> steps[i][k].op, arg |-> steps[i][k].arg,
            last |-> k = Len(steps[i]) /\ Awaited(steps[i])]]]]]

\* The requests of step i of setup s, if it has that many.
Requests(ch, s, i) == IF i \in DOMAIN Program[ch][s] THEN Program[ch][s][i] ELSE <<>>

\* The position of setup s once it has made the requests of step i.
Position(ch, s, i) ==
  IF i \in DOMAIN Program[ch][s] /\ Awaited(Program[ch][s][i]) THEN i ELSE 0

\* The first requests of several setups, in order.
FirstRequests(ch, ss) == FlattenSeq([i \in 1..Len(ss) |-> Requests(ch, ss[i], 1)])

\* Where all setups are after those in ss have started.
Begun(ch, ss) ==
  [s \in Setups |-> IF s \in Range(ss) THEN Position(ch, s, 1) ELSE position[ch][s]]

----------------------------------------------------------------------------

Request ==
  [setup : Setups, op : {"assertExchange", "bindQueue"}, arg : Range(exchanges), last : BOOLEAN]
  \cup
  [setup : Setups, op : {"assertQueue", "consume"}, arg : {"none"}, last : {TRUE}]
  \cup
  [setup : {"base"}, op : {"prefetch"}, arg : Nat \ {0}, last : {TRUE}]

\* The last stage: three are those of createChannel, then comes one for each provider.
Started == Len(Groups) + 3

TypeOK ==
  /\ up \in BOOLEAN
  /\ stage \in 0..Started
  /\ awaited \subseteq Channels \X Setups
  /\ connected \in BOOLEAN
  /\ channel \in [Channels -> {"closed", "opening", "open"}]
  /\ setups \in [Channels -> Seq(Setups)]
  /\ waiting \in [Channels -> Seq(Setups)]
  /\ rpcs \in [Channels -> Seq(Request)]
  /\ position \in [Channels -> [Setups -> Nat]]
  /\ prefetch \in [Channels -> Nat]
  /\ subscribed \in [Consumers -> Nat]
  /\ bound \subseteq Bindings
  /\ known \subseteq Range(exchanges)
  /\ faults \in Nat

Nothing == [ch \in Channels |-> <<>>]

Unset == [ch \in Channels |-> 0]

Idle == [ch \in Channels |-> [s \in Setups |-> 0]]

Init ==
  /\ up = TRUE
  /\ stage = 0
  /\ awaited = {}
  /\ connected = FALSE
  /\ channel = [ch \in Channels |-> "closed"]
  /\ setups = Nothing
  /\ waiting = Nothing
  /\ rpcs = Nothing
  /\ position = Idle
  /\ prefetch = Unset
  /\ subscribed = [c \in Consumers |-> 0]
  /\ bound = {}
  /\ known = Existing
  /\ faults = 0

Disturbance(kind) ==
  /\ kind \in Disturbances
  /\ faults < MaxFaults
  /\ faults' = faults + 1

\* What a lost connection takes with it.
ChannelsGone ==
  /\ connected' = FALSE
  /\ channel' = [ch \in Channels |-> "closed"]
  /\ rpcs' = Nothing
  /\ position' = Idle
  /\ prefetch' = Unset
  /\ subscribed' = [c \in Consumers |-> 0]
  /\ waiting' = Nothing

\* The process dies; exchanges and queues are durable.
Crash ==
  /\ up' = FALSE
  /\ stage' = 0
  /\ awaited' = {}
  /\ setups' = Nothing
  /\ bound' = {}
  /\ ChannelsGone

----------------------------------------------------------------------------
(* The application starts.                                                 *)

\* The setups that the calls of a stage add to each channel: createChannel's to
\* the default one, the configured ones and those of batches, then provider after
\* provider those of the enabled consumers.
Stages ==
  LET Bases(new) == [ch \in Channels |-> IF ch \in new THEN <<"base">> ELSE <<>>]
      named == 2..(Len(channels) + 1)
  IN <<Bases({Default}), Bases(named), Bases(Channels \ ({Default} \cup named))>>
     \o [n \in DOMAIN Groups |-> [ch \in Channels |-> Only(Groups[n], ConsumersOf(ch))]]

\* consume registers on a channel that is open, and keeps no setup.
AddSetupsBug(added) ==
  /\ setups' = [ch \in Channels |->
                  IF channel[ch] = "closed" THEN setups[ch] \o added[ch] ELSE setups[ch]]
  /\ waiting' = [ch \in Channels |->
                   IF channel[ch] = "opening" THEN waiting[ch] \o added[ch]
                   ELSE waiting[ch]]
  /\ rpcs' = [ch \in Channels |->
                IF channel[ch] = "open" THEN rpcs[ch] \o FirstRequests(ch, added[ch])
                ELSE rpcs[ch]]
  /\ position' = [ch \in Channels |->
                    IF channel[ch] = "open" THEN Begun(ch, added[ch]) ELSE position[ch]]

\* addSetup: kept and run on an open channel, delayed on one that is opening,
\* only kept, without a wait, on a closed one.
AddSetups(added) ==
  /\ setups' = [ch \in Channels |->
                  IF channel[ch] = "opening" THEN setups[ch] ELSE setups[ch] \o added[ch]]
  /\ waiting' = [ch \in Channels |->
                   IF channel[ch] = "opening" THEN waiting[ch] \o added[ch]
                   ELSE waiting[ch]]
  /\ rpcs' = [ch \in Channels |->
                IF channel[ch] = "open" THEN rpcs[ch] \o FirstRequests(ch, added[ch])
                ELSE rpcs[ch]]
  /\ position' = [ch \in Channels |->
                    IF channel[ch] = "open" THEN Begun(ch, added[ch]) ELSE position[ch]]

\* init, createChannel and onApplicationBootstrap, from one await to the next.
Boot ==
  /\ up
  /\ awaited = {}
  /\ stage < Started
  /\ stage' = stage + 1
  /\ AddSetups(Stages[stage + 1])
  /\ awaited' = {call \in Channels \X Setups : /\ channel[call[1]] # "closed"
                                           /\ call[2] \in Range(Stages[stage + 1][call[1]])}
  /\ UNCHANGED <<up, connected, channel, prefetch, subscribed, bound, known, faults>>

\* The service calls binding, from when init is done; who waits for it is not said.
Binding(b) ==
  /\ up
  /\ stage > 3 \/ (stage = 3 /\ awaited = {})
  /\ b \notin bound
  /\ bound' = bound \cup {b}
  /\ AddSetups([Nothing EXCEPT ![Default] = <<b>>])
  /\ UNCHANGED <<up, stage, awaited, connected, channel, prefetch, subscribed, known, faults>>

----------------------------------------------------------------------------
(* Connections and channels.                                               *)

Connect ==
  /\ up
  /\ stage > 0
  /\ ~connected
  /\ connected' = TRUE
  /\ UNCHANGED <<up, stage, awaited, channel, setups, waiting, rpcs, position,
                 prefetch, subscribed, bound, known, faults>>

\* A wrapper opens its channel and starts all its setups.
OpenChannel(ch) ==
  /\ connected
  /\ channel[ch] = "closed"
  /\ setups[ch] # <<>>
  /\ channel' = [channel EXCEPT ![ch] = "opening"]
  /\ rpcs' = [rpcs EXCEPT ![ch] = FirstRequests(ch, setups[ch])]
  /\ position' = [position EXCEPT ![ch] = Begun(ch, setups[ch])]
  /\ UNCHANGED <<up, stage, awaited, connected, setups, waiting, prefetch, subscribed,
                 bound, known, faults>>

\* The setups that had run already run once more with those that waited.
ChannelReadyBug(ch) ==
  /\ channel[ch] = "opening"
  /\ \A s \in Setups : position[ch][s] = 0
  /\ channel' = [channel EXCEPT ![ch] = "open"]
  /\ setups' = [setups EXCEPT ![ch] = @ \o waiting[ch]]
  /\ rpcs' = [rpcs EXCEPT ![ch] = @ \o FirstRequests(ch, setups'[ch])]
  /\ position' = [position EXCEPT ![ch] = Begun(ch, setups'[ch])]
  /\ waiting' = [waiting EXCEPT ![ch] = <<>>]
  /\ UNCHANGED <<up, stage, awaited, connected, prefetch, subscribed, bound, known, faults>>

\* All setups are done, but for the bindings they asked for, and the addSetup
\* calls that waited run theirs.
ChannelReady(ch) ==
  /\ channel[ch] = "opening"
  /\ \A s \in Setups : position[ch][s] = 0
  /\ channel' = [channel EXCEPT ![ch] = "open"]
  /\ setups' = [setups EXCEPT ![ch] = @ \o waiting[ch]]
  /\ rpcs' = [rpcs EXCEPT ![ch] = @ \o FirstRequests(ch, waiting[ch])]
  /\ position' = [position EXCEPT ![ch] = Begun(ch, waiting[ch])]
  /\ waiting' = [waiting EXCEPT ![ch] = <<>>]
  /\ UNCHANGED <<up, stage, awaited, connected, prefetch, subscribed, bound, known, faults>>

\* The broker answers the first request of ch; the setup goes on after the
\* last of its step.
Reply(ch) ==
  LET q == Head(rpcs[ch])
      s == q.setup
      next == position[ch][s] + 1
  IN /\ rpcs[ch] # <<>>
     /\ q.op = "bindQueue" => q.arg \in known
     /\ prefetch' = IF q.op = "prefetch" THEN [prefetch EXCEPT ![ch] = q.arg] ELSE prefetch
     /\ known' = IF q.op = "assertExchange" THEN known \cup {q.arg} ELSE known
     /\ subscribed' = IF q.op = "consume" THEN [subscribed EXCEPT ![s] = @ + 1] ELSE subscribed
     /\ \/ /\ ~q.last
           /\ rpcs' = [rpcs EXCEPT ![ch] = Tail(@)]
           /\ UNCHANGED <<position, awaited>>
        \/ /\ q.last
           /\ rpcs' = [rpcs EXCEPT ![ch] = Tail(@) \o Requests(ch, s, next)]
           /\ position' = [position EXCEPT ![ch][s] = Position(ch, s, next)]
           /\ awaited' = IF position'[ch][s] = 0 THEN awaited \ {<<ch, s>>} ELSE awaited
     /\ UNCHANGED <<up, stage, connected, channel, setups, waiting, bound, faults>>

\* NOT_FOUND closes the channel and rejects the promise of the binding, which
\* nothing awaits: an unhandled rejection.
BindFails(ch) ==
  /\ rpcs[ch] # <<>>
  /\ Head(rpcs[ch]).op = "bindQueue"
  /\ Head(rpcs[ch]).arg \notin known
  /\ Crash
  /\ UNCHANGED <<known, faults>>

\* A request that nobody is prepared to see fail: a binding, or one of a setup of
\* those in ss whose addSetup call is waited for.
Fatal(ss) ==
  \E ch \in Channels :
    \/ \E i \in DOMAIN rpcs[ch] : rpcs[ch][i].op = "bindQueue"
    \/ channel[ch] = "open" /\ \E s \in ss : position[ch][s] > 0

\* addSetup calls that wait for an opening channel are forgotten with it.
ConnectionLostBug ==
  /\ connected
  /\ Disturbance("loss")
  /\ \/ /\ Fatal(Setups)
        /\ Crash
     \/ /\ ~Fatal(Setups \ Bindings)
        /\ ChannelsGone
        /\ awaited' = {}
        /\ UNCHANGED <<up, stage, setups, bound>>
  /\ UNCHANGED known

\* A lost connection rejects the requests in progress. addSetup calls that
\* waited for an opening channel find none, and keep their setup. The start of
\* the application fails with its call, the caller of binding may catch it.
ConnectionLost ==
  /\ connected
  /\ Disturbance("loss")
  /\ \/ /\ Fatal(Setups)
        /\ Crash
     \/ /\ ~Fatal(Setups \ Bindings)
        /\ ChannelsGone
        /\ setups' = [ch \in Channels |-> setups[ch] \o waiting[ch]]
        /\ awaited' = {}
        /\ UNCHANGED <<up, stage, bound>>
  /\ UNCHANGED known

Kill ==
  /\ up
  /\ Disturbance("kill")
  /\ Crash
  /\ UNCHANGED known

Restart ==
  /\ ~up
  /\ up' = TRUE
  /\ UNCHANGED <<stage, awaited, connected, channel, setups, waiting, rpcs, position,
                 prefetch, subscribed, bound, known, faults>>

----------------------------------------------------------------------------

Next ==
  \/ Boot
  \/ Connect
  \/ ConnectionLost
  \/ Kill
  \/ Restart
  \/ \E b \in Bindings : Binding(b)
  \/ \E ch \in Channels : OpenChannel(ch) \/ ChannelReady(ch) \/ Reply(ch) \/ BindFails(ch)

Spec == Init /\ [][Next]_vars

\* The application starts, the manager reconnects, the broker answers.
Fairness ==
  /\ WF_vars(Boot)
  /\ WF_vars(Connect)
  /\ WF_vars(Restart)
  /\ \A ch \in Channels : /\ WF_vars(OpenChannel(ch))
                          /\ WF_vars(ChannelReady(ch))
                          /\ WF_vars(Reply(ch))
                          /\ WF_vars(BindFails(ch))

FairSpec == Spec /\ Fairness

----------------------------------------------------------------------------
(* Properties.                                                             *)

\* The count that the configuration has for a consumer: its batch size, since
\* it is handed batches of that many, else that of the channel it names.
PrefetchOf(c) ==
  LET named == {i \in DOMAIN channels : channels[i].name = options[c].channel}
  IN IF options[c].batchSize > 0 THEN options[c].batchSize
     ELSE IF \E i \in named : channels[i].prefetchCount > 0
          THEN channels[CHOOSE i \in named : TRUE].prefetchCount
          ELSE prefetchCount

\* The broker never delivers to a consumer without a limit or with another's: in
\* whatever order setups run, and whatever channels share a name, the count set
\* on its channel before it is registered is its own.
PrefetchFirst ==
  \A c \in Consumers : subscribed[c] > 0 => prefetch[SelectManagedChannel(c)] = PrefetchOf(c)

Enabled == {c \in Consumers : options[c].enable /\ c \in UNION {Range(g) : g \in Range(Groups)}}

\* However addSetup and the opening of a channel race, and however often the
\* connection comes back, an enabled consumer is registered at most once on the
\* channel there is, and a disabled one never.
SubscribedOnce == \A c \in Consumers : subscribed[c] <= IF c \in Enabled THEN 1 ELSE 0

\* Once the application has started and the channel of a consumer is ready, the
\* consumer is registered on it, on the first channel and on every later one.
ReadyMeansSubscribed ==
  stage = Started /\ awaited = {} =>
    \A c \in Enabled : channel[SelectManagedChannel(c)] = "open" => subscribed[c] > 0

----------------------------------------------------------------------------
(* Why the safety properties hold: an inductive invariant, which           *)
(* ChannelSetupProofs proves.                                              *)

\* The stage that adds the setup of createChannel to ch.
BaseStage(ch) == IF ch = Default THEN 1 ELSE IF ch <= Len(channels) + 1 THEN 2 ELSE 3

\* The setups that ch keeps, or will once it is open.
Kept(ch) == setups[ch] \o waiting[ch]

\* A setup that was added to ch since the process started.
Added(ch, s) ==
  \/ s = "base" /\ BaseStage(ch) <= stage
  \/ s \in bound /\ ch = Default
  \/ s \in ConsumersOf(ch) /\ \E n \in DOMAIN Groups : n + 3 <= stage /\ s \in Range(Groups[n])

\* What was added is kept, once, and nothing else is.
AddedKept ==
  \A ch \in Channels : /\ IsInjective(Kept(ch))
                        /\ \A s \in Setups : Contains(Kept(ch), s) <=> Added(ch, s)

\* createChannel's setup is the first, and no channel opens without it.
BaseFirst ==
  \A ch \in Channels :
    IF BaseStage(ch) <= stage THEN setups[ch] # <<>> /\ setups[ch][1] = "base"
    ELSE setups[ch] = <<>> /\ channel[ch] = "closed"

BindingsAfterBase == bound # {} => stage >= 3

\* Nothing is left of a channel that is closed, and only one that is opening
\* makes addSetup calls wait.
ClosedIdle ==
  \A ch \in Channels :
    /\ channel[ch] # "opening" => waiting[ch] = <<>>
    /\ channel[ch] = "closed" => rpcs[ch] = <<>> /\ \A s \in Setups : position[ch][s] = 0

\* A setup that runs is one its channel keeps.
RunningKept ==
  \A ch \in Channels, s \in Setups : position[ch][s] > 0 => Contains(setups[ch], s)

\* A request that a setup waits for is the last of the step it is at.
LastAwaited ==
  \A ch \in Channels : \A i \in DOMAIN rpcs[ch] :
    LET q == rpcs[ch][i]
        p == position[ch][q.setup]
    IN q.last => /\ p \in DOMAIN Program[ch][q.setup]
                 /\ q = Last(Program[ch][q.setup][p])
                 /\ \A k \in DOMAIN rpcs[ch] : rpcs[ch][k].last /\ rpcs[ch][k].setup = q.setup => k = i

\* The count of a channel is set before anything else happens on it.
PrefetchAhead ==
  \A ch \in Channels : channel[ch] # "closed" =>
    \/ prefetch[ch] = Wrappers[ch].prefetchCount
    \/ rpcs[ch] # <<>> /\ rpcs[ch][1].op = "prefetch"

\* A consumer whose channel keeps its setup is registered, or its setup runs.
RegisteredOrRunning ==
  \A ch \in Channels : \A c \in ConsumersOf(ch) :
    IF channel[ch] # "closed" /\ Contains(setups[ch], c)
    THEN /\ subscribed[c] = IF position[ch][c] > 0 THEN 0 ELSE 1
         /\ subscribed[c] > 0 => prefetch[ch] = Wrappers[ch].prefetchCount
    ELSE subscribed[c] = 0

DisabledSilent == \A c \in Consumers : ~options[c].enable => subscribed[c] = 0

\* The start of the application waits for the setups that run on its behalf.
StartWaits ==
  \A ch \in Channels : \A c \in ConsumersOf(ch) :
    \/ channel[ch] = "open" /\ position[ch][c] > 0
    \/ Contains(waiting[ch], c)
    => <<ch, c>> \in awaited

IInv ==
  /\ TypeOK
  /\ AddedKept
  /\ BaseFirst
  /\ BindingsAfterBase
  /\ ClosedIdle
  /\ RunningKept
  /\ LastAwaited
  /\ PrefetchAhead
  /\ RegisteredOrRunning
  /\ DisabledSilent
  /\ StartWaits

----------------------------------------------------------------------------
(* Liveness.                                                               *)

\* Every consumer is registered again after the last disturbance, for good,
\* provided the exchanges that consumers bind to come to exist.
EventuallySubscribed ==
  <>({options[c].exchange : c \in Enabled} \ {"none"} \subseteq known) =>
    \A c \in Enabled : <>[](subscribed[c] > 0)

\* "Optionally create exchanges when not exists": the configured exchanges
\* exist in the end.
ExchangesCreated == <>(Range(exchanges) \subseteq known)
=============================================================================

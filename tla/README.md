# karhdo-core in TLA+

A verification project for karhdo-core, a monorepo of NestJS packages: RabbitMQ
consumers and publishers, caching, configuration, SQL access, logging and the
application's start. It models the parts with real concurrency, checks them with
TLC on small instances, and proves the core results with TLAPS for every size.

Paths of the form `connection.ts` are short for
`src/packages/rabbitmq/src/amqp/connection.ts`.

## 1. Inventory

| Component | State it keeps | Operations | Hard behaviour |
|---|---|---|---|
| AMQP consumer (`connection.ts` 307-424) | per channel: deliveries waiting for settlement; per consumer: handlers in progress, the batching worker's cargo | `consume`, `receiveMessage`, `receiveMessages`, `commit`, `reject` | handlers that outlive their channel, lost acknowledgements, overlapping batches, cancellation, settling twice |
| AMQP publisher (`connection.ts` 199-246, `rabbit-ingestor.interceptor.ts`) | messages handed to the channel wrapper and not confirmed | `publish`, `sendToQueue`, `intercept` | confirmation racing the timeout, part of a request refused, sending again after a reconnect |
| Channel setup and bootstrap (`connection.ts` 69-197, 248-319, 412-424; `amqp.module.ts`) | channels by name, setups kept by each wrapper | `init`, `createChannel`, `setupChannel`, `setupQueue`, `binding`, `onApplicationBootstrap` | setups that run in parallel on a new channel, a connection lost in the middle of the start |
| Cache manager (`packages/cache-manager`) | the cache; maps of pending gets and calls | `Cacheable`, `cacheableHandle`, `CacheInterceptor.intercept` | gets and calls joined after they are over, a stale result written after an update |
| Configuration (`packages/configure`, nested-object decorators of `packages/core`) | the configuration provided | `forRoot`, `forRootAsync`: load, fill in, validate, override | loaders combined with promises, overrides after validation, parts nothing validates |
| Database module (`packages/database/src/database.module.ts`) | per connection its attempts and pools; the connection of each entity | connect with retries, `registerEntities` | the number of attempts, pools left over, connections that share an entity |
| SQL repository (`sql.repository.ts`, `sql.service.ts`) | none, the table is the state | `find*`, `update*`, `delete*`, `create*`, `upsert` | several statements that are not one transaction |
| Application (`app.module.ts`) | how far the start is | `bootstrap`, `listen` | providers that start at once, handlers before the port is open, failure half way |
| Registry, core utilities, HTTP client, logger, common, skeleton service | none to speak of | pure helpers and wiring | see section 7 |

How they interact. `AppModule.bootstrap` loads the configuration and creates the
Nest application; `AmqpModule` creates one `AmqpConnection` and waits for its
`init`; `onApplicationBootstrap` asks the registry for the decorated methods and
calls `consume` for each. From then on the broker calls back: a delivery starts a
handler, which is an `await`, so any number of them are in progress, interleaved
with the service's publications, with timers, and with the connection going away
and coming back under `amqp-connection-manager`. The default channel is shared by
all consumers without a batch size and by all publications.

What makes each component correct:

- consumer: the broker forgets a message only after a handler ran to its end on
  it; every delivery is settled, once; no more messages in handlers than the
  prefetch count allows; every message is settled in the end;
- publisher: an `ok` answer means stored; every request is answered; a message is
  stored twice only after a disturbance, and none stays with the wrapper for ever;
- setup: each enabled consumer is registered exactly once on the current channel,
  with its own prefetch count set first, again after every reconnect;
- cache: nothing older than what was around when a read began, staleness ends with the
  ttl, failures are not remembered, one shared call at a time but where the code does
  not keep to that (section 6);
- configuration: nothing that was loaded is lost, and what the program gets
  satisfies the schema save for what the environment says;
- database: the configured number of attempts, no pool that is not accounted for;
- repository: an answer without an error means that the work is done, and an update
  answers with rows it wrote;
- application: nothing is handled before all it needs is there, and a start ends.

`PROJECT.json` lists every hazard at its line, with the properties that watch it.

## 2. Modules

| Module | What it is |
|---|---|
| `AtLeastOnce` | abstract: what a consumer of a queue promises |
| `RabbitConsumer` | one queue, one channel, one service process: consumer, broker's side of the channel, process |
| `RabbitConsumerProofs` | proofs about `RabbitConsumer`: types, nothing forgotten unhandled, refinement |
| `RabbitSettlementProofs` | proofs about `RabbitConsumer`: what is delivered is settled, once, and handled a bounded number of times |
| `AmqpPublisher` | requests that publish, behind the ingestor interceptor |
| `AmqpPublisherProofs` | proofs about it |
| `CachedReads` | concurrent reads of one key through the cache, by readers with gets and calls of their own |
| `CachedReadsProofs` | proofs about it |
| `CoalescedReads` | concurrent callers of `cacheableHandle`, who share gets and calls: promises and microtasks |
| `CoalescedReadsProofs` | proofs about it |
| `ChannelSetup` | the channel wrappers and their setups, from the start of the application on |
| `ChannelSetupProofs` | proofs about it |
| `EnvironmentSchema` | the configuration classes, and how each part of the configuration is treated |
| `ConfigModule` | `forRootAsync`, from the loaders to the providers |
| `DatabaseModule` | the connections of all imports of the module, their attempts and entities |
| `SqlRepository` | calls of a repository, statement by statement |
| `Application` | the start of a service and the calls it then handles: composes the three above |
| `ApplicationProofs` | proofs about the start: `ConfigModule`, `DatabaseModule` and `Application` |
| `RepositoryProofs` | proofs about the calls: `SqlRepository` in `Application`, and the invariant of the whole |
| `ConfigFiles` | configuration files and environments of the instances |
| `MC...` | instances for TLC |

In every module an operator `XBug` stands before `X` and is a plausible mistake in
it. No action uses it: it is the mutant that shows that some property would notice.

### RabbitConsumer

State. `link` is the process and its channel (`crashed`, `down`, `stranded`: the
channel is closed and the connection is not, `open`); `channel` numbers the
channels since the process started; `consumer` is each subscription. `ready`,
`unacked`, `gone` and `lastTag` are the broker's: messages in the queue, deliveries
that wait for a settlement, messages it has forgotten, the last delivery tag.
`wire` is the FIFO of settlements written and not yet read. `jobs` are the
invocations of the consume callback that have not returned, each with the channel
its closure captured, its raw messages and the await it is at. `handled` is a
history variable.

| Action | Code |
|---|---|
| `Connect`, `Subscribe`, `Restart` | a new channel is opened, the kept setups register the consumers (138-191, 307-319) |
| `Deliver` | the broker delivers within the prefetch count |
| `ReceiveMessage` | callback of 359-377: handler, or `commit` at once for what does not parse |
| `Push`, `Flush` | the worker's cargo (329-353), flushed by size or by the idle timer, callback first |
| `Cancel` | the `null` message of a cancelled consumer |
| `HandlerResolves` / `HandlerRejects` | the await of 342 or 366 ends; `commit` or the catch's `reject` writes its settlements |
| `ConfirmsResolve` / `ConfirmsReject` | the `waitForConfirms` of 389 and 408 |
| `BrokerSettles` | the broker reads the next settlement; an unknown tag closes the channel |
| `ConnectionLost`, `Kill` | disturbances |

Two operators carry the failure paths. `Commit(j)` throws when the job's channel
is closed (or at the `null` of a cancelled batch, after the acknowledgements before
it were written), and continues with `Reject(j)`, which is the catch clause.
`Reject(j)` on a closed channel throws out of the callback: an unhandled rejection
that ends the process (`Crash`), as Node 15 and later do by default and
`package.json` requires Node 18.

### AmqpPublisher

A request hands the wrapper its messages one by one (`Handed`), stops where the
serializer throws, and waits for all promises. `Send`, `ChannelOpens`,
`ConnectionLost` and `ChannelClosed` are the wrapper's: messages not confirmed when
a connection goes are sent again on the next channel. `Answer` is the interceptor:
first answer wins, and the subscription is dropped without withdrawing anything. A request
without messages is answered at once, as `Promise.all` of nothing is.

### ChannelSetup

`Wrappers` are the channel wrappers in the order in which `createChannel` makes them:
the default one, those of `config.channels`, one for each entry of `config.consumer`
with a batch size. Names are what `getChannelName` tells apart, a queue and a batch
size; of two wrappers with a name, `_managedChannels` has the last, and the first stays
open and unused. `SelectManagedChannel` follows `selectManagedChannel`, which falls back
on the default channel for a name there is no channel for.

Each wrapper keeps the setups added to it. A setup is a sequence of steps (`Program`);
the requests of a step go out together and the setup goes on when the last is answered
(`Requests`, `Reply`); `rpcs` is the channel's FIFO of requests, in which the setups
that started together interleave. `Boot` is one await of `init`, `createChannel`,
`createBatchConsumingChannel` or `onApplicationBootstrap`, whose calls are in `Stages`;
`Binding` is a call of `binding()`, which a service may make any time after `init`;
`AddSetups` has the three cases of `addSetup` (channel closed, opening, open). Because
`setupQueue` does not wait for `bindQueue`, the binding and the registration are in one
step, a setup that only binds is done at once, and a failed binding (`BindFails`) ends
the process.

### CachedReads

Readers of one key in one process, one read after the other; `Way` says by which
code each of them reads: `@Cacheable`, `CacheInterceptor` or what `EmployeeController`
does by hand. Each issues gets and calls of its own. A read is `Start` (the get),
`GetHits` or `GetMisses`, `CallReads` (the method reads the source), `CallReturns`,
`SetLands`; each can fail. `version` is the source, which anyone may update; the store
takes gets and sets in any order, as Redis does from several processes. `start` and
`floor` are history variables of the properties.

### CoalescedReads

`cacheableHandle` keeps the promise of the get and that of the call in progress in two
maps, where other callers find them. What they get depends on when a promise is read,
settles, is resumed from and is deleted, so each of these is a step:

| Action | Code (`cache.helpers.ts`) |
|---|---|
| `Start` | 49-57: joins the get in the map or issues one |
| `StoreReads`, `GetReturns`, `GetFails` | the store executes the get; its reply settles the promise |
| `Fetched` | 55-64: `finally` deletes whatever get the map has; the promise of `fetchCachedValue` settles |
| `Hits`, `Fails`, `Misses` | 68-82: `cacheableHandle` resumes; a miss joins the call in the map or issues one |
| `CallReads`, `CallReturns`, `CallFails` | the method reads the source; its promise settles |
| `Stores`, `Throws` | 80-88: `finally` deletes whatever call the map has (`ForgetCall`); the result is set |
| `SetLands`, `SetFails` | 88-90 |

`awaits` names the promise a reader waits for: by its issuer while it is pending, by its
outcome once it has settled. A settled promise stays in its map until the first who
waits for it resumes; whoever joins it then has a microtask at once. `queue` is the FIFO
of microtasks. Those who wait for one promise are queued together when it settles
(`Settle`), in an order left open; between two microtasks anything else may happen, for
other microtasks may start a read. `late` remembers that somebody has joined a call that
was over, and is forgotten when nobody waits for calls any more; `floor`, `since` and
`before` say what a read may count from.

### EnvironmentSchema and ConfigModule

A configuration maps places, sections and entries of maps, to their fields, and a field
to the kind of JavaScript value it is and where it comes from. `EnvironmentSchema` has
the decorators of every field, and for every part whether it exists whatever the file
says, becomes an instance of its class (only then do the defaults of the class apply)
and is validated: three things that the decorators of `EnvironmentConfig` switch one by
one. `database` is converted and not validated, `channels` and `consumer` are validated
as copies with defaults and provided without, `cache.redis` is neither.

| Action | Code |
|---|---|
| `LoaderResolves`, `LoaderFails` | the promises of `options.load`, which have all been started (`getConfigureAppAsync`, `fileLoader`) |
| `GetDynamicModule` | `Loaded`, `Sections`, `PlainToClass`, `Errors`, `Overridden`: `getConfigureAppAsync`, `getDefaultConfigureApp`, `validateWithValidator` and the loop of `getDynamicModule`, in one step as nothing in it waits |

### DatabaseModule

One record of state per import of the module: `CreateConnection` is the first attempt,
`Authenticated` and `AttemptFails` are the ends of its await, `Retry` is the end of the
delay, `GivesUp` the comparison in `scan`. Each attempt makes a Sequelize with a pool,
and none is closed. The connections are independent but for `boundTo`: `addModels`
ties a model to one Sequelize, so an entity given with two connections is read from the
one that came up last.

### SqlRepository

Statements are atomic and calls are not. A call is its first statement (`UpdateRows`,
`Delete`, `FindToDelete`, `Create`, `UpsertAll`, `Read`) and those that follow
(`FindUpdated`, `DestroyFound`, `UpsertOne`); any of them may fail. Calls meet in the table
only, so one caller is followed and all others, in whatever process, are `OtherWrites`:
any row may become any other between two of its statements. `touched` is a history
variable with the rows that others wrote during the call: what the call answers is
stated about the rest. The statements of an upsert whose call has been rejected are
`loose`, and may be executed during a later call.

### Application

`stage` is where `bootstrap` is: configuring, creating (the providers), bootstrapping
(the hooks of `listen`), listening, or failed. The three modules are instances, and
what one needs of another is a substitution: the database section of the configuration
says which connections have options, and the stage says when handlers run, which is
from the hooks on, as `onApplicationBootstrap` registers consumers before the port is
open. `Fail` ends the process with the calls in progress.
`ApplicationAssumption` is what the three assume of their constants.

## 3. Runs

| Run | Instance | Shows |
|---|---|---|
| `consumer_single` | 3 messages, one of them garbage, prefetch 2; one rejection, loss or kill | safety and `EventuallySettled` |
| `consumer_shared` | 2 consumers on one channel, 2 messages; two of rejection, loss, cancellation, refused publication | nothing is lost even where a tag is settled twice; refinement |
| `consumer_batch` | batch of 2; two of rejection, loss, kill, cancellation | the same for batches |
| `consumer_batch_live` | batch of 2, one message of each kind; one rejection, loss or kill | handler load, single settlement, liveness of batches |
| `publisher` | three requests, one with a message that cannot be serialised and one without messages; three disturbances | `ok` means stored, every request is answered, bounded duplicates, nothing stays with the wrapper |
| `publisher_failed` | one request, no disturbance | violation: 'Failed to send a message' and the message is stored |
| `channel_setup` | six consumers (plain; naming a channel that is missing; disabled; on a configured channel; two of batches with one name), a binding, two exchanges of which one is missing; two losses or kills | registration exactly once, its own prefetch count first, in the end always |
| `cached_reads` | a reader each by `@Cacheable`, `CacheInterceptor` and the controller; one update, from a falsy version; one failure | how stale an answer may be; the cache is fresh in the end |
| `coalesced_reads` | three callers of `cacheableHandle`, two updates, the first to null, one failure, an entry or none at first | how stale an answer may be, whose failure a caller may get, one call at a time unless one that is over was joined |
| `application` | two connections that share an entity, with 2 and 0 attempts; six files (good, two invalid, without an entry, without the section, empty); two rows, two values, three filters | the configuration conforms, attempts are counted, nothing is handled too early, calls do what they answer, a start ends |
| `loaders_merged` | an array of two loaders | violation: what they loaded is lost |
| `exchanges_created` | one consumer bound to the second exchange of a fresh broker | violation: the second exchange is never created |

Bounds. The interesting behaviours need two deliveries whose fates differ, one of
them outliving its channel, and a tag used again on the next channel: two messages
and two channels, which one loss gives. A third message is there where it adds a
kind of body. Two disturbances are needed where the second hits the recovery from
the first (a loss while a redelivered message is handled). `MaxFaults` bounds
disturbances in every module; `channel`, `lastTag`, `handled` and the length of
`wire` are bounded by it, so no other bound is needed. The publisher needs three:
refused, lost and closed in one behaviour. In `channel_setup`, two of them
hit the start and the reconnect or restart after it; a kill leaves nothing but the
exchanges, so what follows one is a start with one disturbance less.
In `application` a row that matches the filter and one that does not, each with two
values, are enough for an update to leave its own filter and for others to undo it;
the table is empty at first and `OtherWrites` makes it any table. `MaxLoose` bounds the
statements that rejected upserts leave behind; `retryAttempts` of 2 has a retry
and an end, and 0 is the boundary.
The cache needs a reader that is late with the old version, one that stores the new
one and one that reads; each starts over as often as it likes. In `coalesced_reads` three
callers are enough for one to join a call that is over, delete the next one's from the
map, and see the third start another. Its callers are symmetric: they are told apart by
no constant, no safety property and no choice of the model (`Oldest` chooses a number).

`CHECK_DEADLOCK FALSE` is in the cfgs of the RabbitMQ modules because those systems do
stop: all messages settled, all requests answered, all consumers registered and no
disturbance left. So does a service whose start has failed, and `ConfigModule` alone.
`CachedReads` and `CoalescedReads` never stop, and are checked for deadlock.

## 4. Fairness

- `Restart`: a supervisor restarts the service; `Connect`, `ChannelOpens`:
  `amqp-connection-manager` retries for ever, and the broker is up again some time.
- `BrokerSettles`, `Deliver`, `Reply`: the broker goes on reading and delivering.
- `HandlerResolves` and the like: a handler whose promise does not reject resolves.
  The code sets no timeout on handlers, so this is an assumption about services.
- `Flush`, `Timeout`: timers fire.
- `GetHits`, `GetMisses`, `CallReads`, `CallReturns`, `SetLands` of `CachedReads`: the store
  answers and the method returns.
- `Expire`: every set has a ttl (10 s where the code names one, 5 s by default in
  `cache.schema.ts`), and hits do not prolong it. Nobody is assumed to read.
- The actions of the start in `Application`: reading a file, an attempt to connect, a
  delay and a hook end, well or badly. Handlers are not assumed to do anything.
- None for disturbances: they may happen `MaxFaults` times, and then stop. A handler
  that always rejects is outside the liveness properties, and its message is
  redelivered for ever. Neither are there liveness properties with cancellation or
  refused publications: the code registers a cancelled consumer again, and reopens a
  channel closed by the broker, only with the next connection.

## 5. Proofs

Everything is proved for every value of the constants that the named assumptions of
the modules allow: any messages, consumers, requests, readers, connections, keys,
counts and numbers of disturbances. Each inductive invariant was checked by TLC, as an
invariant of the runs of its module, before it was proved. The invariants are in the
modules they are about, after the properties.

| Invariant the runs check | Theorem | Beyond the module's assumption |
|---|---|---|
| `RabbitConsumer`: `TypeOK`, `GoneOnlyIfHandled` | `TypeCorrect`, `NothingForgottenUnhandled` | |
| `UnackedAccounted`, `HandlerLoadBounded`, `DuplicatesBounded` | `DeliveriesAccounted`, `LoadBounded`, `RunsBounded` | |
| `SettledOnce` | `NothingSettledTwice` | `SingleSettlement` |
| `ImplementsAtLeastOnce` (refinement) | `Refinement` | |
| `AmqpPublisher`: `TypeOK`, `OkMeansStored`, `StoredBounded` | `TypeCorrect`, `OkReliable`, `CopiesBounded` | |
| `ChannelSetup`: `TypeOK`, `PrefetchFirst` | `TypeCorrect`, `CountsSet` | |
| `SubscribedOnce`, `ReadyMeansSubscribed` | `RegisteredOnce`, `ReadyRegistered` | |
| `CachedReads`: `TypeOK`, `NeverOlder` | `TypeCorrect`, `StalenessBounded`; also `MissesFresh`, of `MissIsFresh`, which no run lists | |
| `CoalescedReads`: `TypeOK`, `NeverOlder`, `MissIsFresh` | `TypeCorrect`, `StalenessBounded`, `MissesFresh` | |
| `FailuresForgotten`, `OneCallInFlight` | `FailuresNotKept`, `SingleFlight` | |
| `Application`: `TypeOK`, `ServesReady` | `TypeCorrect`, `ReadyToServe` | |
| `ConformsUnlessOverridden`, `AttemptsCounted` | `Conforms`, `AttemptsBounded` | |
| `LoadedKept` | `OneLoadKept` | one loader, not an array |
| `UpdateAnswers`, `OkMeansDone` | `UpdatesAnswer`, `CallsDone` | |

The two hypotheses are what the code needs. With an array of loaders `LoadedKept` is
false, and the run `loaders_merged` shows it. `SingleSettlement` says that no publication
on the channel is refused and no consumer with a cargo is cancelled: with either the
code settles a tag twice (section 6), which is why `consumer_shared` and
`consumer_batch` do not check `SettledOnce`, and the two runs that do satisfy it.

**The consumer, what is forgotten.**
`GoneOnlyIfHandled` is not inductive. The broker forgets a message when it reads an
acknowledgement whose tag is in `unacked`; so every acknowledgement on the wire has
to be warranted (`AcksWarranted`): if its tag names an unsettled delivery, a handler
ran on that delivery's message or the message may be dropped. Acknowledgements are
written from a job's batch, so a tag of a job on the current channel has to name the
delivery the job was given and no later one (`JobsCurrent`), which holds because tags
are not reused within a channel (`TagsUnique`), while a job of an older channel can
write nothing, as its `ack` throws. This is where the hazard of tags that start again
at 1 is closed: not by any check in this code, but by its closures' keeping the
channel. `OnePlace` says a message is in the queue, delivered once, or forgotten; the
refinement needs it. The refinement maps `waiting`, `done`, `times` to `ready`, `gone`,
`handled`. Every step is `Take`, `Settle`, an `Attempt` or a stutter (`StepSimulation`);
requeueing after a crash or a loss is an `Attempt` with no handled message.

**The consumer, what is settled.** `SettlementInv` adds who answers for each delivery:
the batches of the jobs on a channel are disjoint (`BatchesApart`), until its handler
has ended the broker waits for all of a job's deliveries and nothing is written about
them (`PendingHeld`), of two settlements of one delivery the second is a rejection
(`AckFirst`), and no consumer has more deliveries than its prefetch count (`LoadLimited`).
`HandlerLoadBounded` follows by cardinality:
what handlers work on is a subset of what the broker counts. `DuplicatesBounded` needs
an account: `RunsPaid` says that the runs of a message, with the run that is ahead of it
and those a crash or a stranding that has become inevitable will cost, are paid for by
disturbances. A crash needs no disturbance of its own, it may follow one long after.

**The publisher.** `OkMeansStored` needs `ConfirmedStored`, which needs that what is under
way on a channel is what the wrapper waits for, once (`UnderWay`, `OneCopy`,
`OnlyWhileOpen`): otherwise a confirmation could be taken for another message's.
`StoresPaid` is an account as above: a copy is written again only by a new channel, and
`StoreAhead` says of which messages one more copy may be stored for nothing.

**The channels.** `PrefetchFirst` rests on the order of requests: the setup that sets
the count is the first one a channel keeps (`BaseFirst`), so while the count is not set
its request is the first on the channel (`PrefetchAhead`), and the broker answers in
order. That the count is the consumer's own is the lemma `Selected`, about the wrapper
that `consume` selects, the last of those with a name. For `SubscribedOnce`
each setup has to be kept once, whether it runs yet or waits for the channel to open
(`AddedKept`), and a running setup must wait for one request only, the last of its step
(`LastAwaited`); otherwise the reply to another request would let it go on early, and
register the consumer twice. `RegisteredOrRunning` relates the two, and `StartWaits` gives
`ReadyMeansSubscribed`: as long as a setup runs on its behalf, the start waits for it.
Setups and requests are lists that the model filters and flattens. The lemmas on lists
(`Has`, `AtMostOne`, `Flattening`, `OnlyList`) say what such a list has and whether it has
it once; the induction in them is by a least counterexample, as no theorem with an
operator for a parameter can be used. The proof found an error that no run had shown:
`ChannelReady` dropped the `bindQueue` requests that nobody awaits from the channel when
it became ready. The model keeps them now, as `amqplib` does.

**The cache.** `NeverOlder` is about what is in anyone's hands: `FloorBelow` says that no
version that can still reach a reader is below its floor, and `FreshInHand` what a reader
of `CachedReads` holds of its own call.

A caller of `cacheableHandle` may join promises that are over, so the rest is about
order. `Scheduled` says that the microtasks are those of the readers whose promise has
settled, one each; `Pending`, that the maps have only promises somebody waits for. A get
in the map may have been executed, so the floor of a reader counts what was read for those
who share that get. `MissIsFresh` and `FailuresForgotten` need more: a reader must not
join a call that was over before it began. `SettledCall` says why it cannot: while such a
call is in the map, one who waits for it is in the queue in front of every reader that
began after (`Behind`), and takes the call out as it resumes. The lemmas on queues say
that this stays so as microtasks are run and added (`FollowAhead`, `TailAhead`).
`OneCallInFlight` needs that those who share a call are next to each other in the queue,
and in front once the first has resumed (`CallShared`): then nobody can start a call whose
entry the others would delete. One who joins a call that is over is not next to them,
which is why the property is conditional on `late`.

**The application.** `StagesFollow` says what each stage has, `AttemptsLeft` makes
`AttemptsCounted` inductive, `EntitiesBound` makes `ServesReady` follow. `Converted` and
`Overriding` are the lemmas about the conversion: what is in a configuration comes from
the file, a default or the environment. `CallInv` is what holds between two statements of
a call: `UpdatedRows` that rows which match the filter and nobody else wrote are rows the
call wrote, `UpsertedItems` that each item is written or to be written. Every part of it
speaks of rows outside `touched` only, so that `OtherWrites` and the statements that
rejected calls left behind keep it (`OthersWrite`), whatever they write.

Only model-checked: liveness (`EventuallySettled`, `EveryRequestAnswered`,
`EventuallySubscribed`, `WrapperDrains`, `EventuallyFresh`, `StartDecides`), which TLAPS
does not reach.

## 6. What the checks found

- A request answered 503 'Failed to send a message' after the timeout may be, or
  become, stored (`publisher_failed`).
- On a broker without the exchanges, a consumer that binds to the second exchange
  makes the service die at every start before the exchange is declared
  (`exchanges_created`).
- With an array of loaders, `forRootAsync` provides a configuration of defaults only,
  without an error; `forRoot` merges them (`loaders_merged`).

Met while modelling, and visible in the models, without a document that says
otherwise:

- `pendingMethodCallMap.delete(key)` deletes whatever call the map has. A caller of
  `cacheableHandle` whose get has returned, and that is about to look into the map when a
  call settles, joins that call although it is over; its own delete comes after theirs and
  may remove a newer call, during which the method is run once more. Two calls at a time are
  reachable in `CoalescedReads`, and `OneCallInFlight` excludes what follows such a join;
- a caller that joins a get in progress may be given an entry that had expired or been
  replaced before it began, when the store had executed that get already;
- a handler that settles after its channel is gone ends the process; a publication
  refused on the default channel makes `commit` settle a tag twice, and closes the
  channel for all consumers; so does a cancelled batch consumer, by the `null` in its
  batch; neither is recovered from before the next reconnect;
- values from the environment are strings that nothing converts or validates:
  `CACHE_ENABLE=false` is truthy, a prefetch count is no number;
- `database` and `cache.redis` are not validated at all, and entries of `channels` and
  `consumer` are validated with defaults they are then provided without;
- an attempt to connect that failed leaves its pool; an entity of two connections
  belongs to the one that was up last;
- `update` and `updateOne` read with the filter they updated by: with a filter on the
  column they change, none of the rows they wrote is returned;
- with `query.raw`, which the module sets, `deleteOne` and `deleteById` of the service
  reject whenever there is a row to delete;
- an upsert that is rejected goes on, and an upsert of a destroyed row stays destroyed.

## 7. Not modelled

- Logger, HTTP client, registry, health check, common: no state and no interleaving; the
  first formats and prints, the others hand on what they are given. The skeleton service
  is an example of use; its `EmployeeController` is one of the readers of `CachedReads`.
- The internals of amqplib, amqp-connection-manager, async-timed-cargo, class-transformer,
  class-validator, Sequelize, the broker and the databases: modelled from how this code uses
  them, and external in the map.
- Message contents, cache keys and rows are reduced to what the code tells apart.
- Of the configuration: `forRoot`, which is `forRootAsync` with a merge that works; a custom
  `validate` or `validationSchema`; sections that are `null` and empty maps; fields of
  `AxiosConfig` that are passed on; how errors are worded.
- Consumers with an exchange and no routing key, and consumers of batches that no channel
  was made for: the assumption of `ChannelSetup` excludes them, as they fail at the first
  start.
- Taken for granted: publications are routable (a broker confirms what it drops as
  unroutable too, so `ok` would not mean stored); queues that consumers do not create
  exist; a channel error closes its channel and never the connection (`stranded` in
  `RabbitConsumer`); `create` and `createMany` are called without `ignoreDuplicates` and
  `updateOnDuplicate`, with which a key that is taken would not fail them.
- The AMQP connection in `Application`: it never keeps a start from going on by being
  down, and what it does is `ChannelSetup`. A consumer's handler is what may call the
  repository; its message is `RabbitConsumer`.

## 8. Plan

Every safety invariant that a run checks is a theorem. What could follow:

1. The action of a channel error that a consumer did not cause (line 405 of
   `connection.ts`), which closes a channel until the next connection, as part of
   `ChannelSetup`, and what `PrefetchFirst` and `SubscribedOnce` say of it.
2. The safety half of the liveness properties: that a state in which no action with
   fairness is possible is one in which all messages are settled, all requests answered,
   all consumers registered.
3. `SettledOnce` with refused publications, for the messages that they are not about.
4. That every caller of `cacheableHandle` is answered. What would keep one waiting is
   already ruled out for safety: `Scheduled` and `Pending` say that each caller either
   waits for a promise that somebody has issued and that is still pending, or has its
   turn in the queue.

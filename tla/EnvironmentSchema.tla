-------------------------- MODULE EnvironmentSchema --------------------------
(***************************************************************************)
(* The configuration classes of packages/configure/src/schemas: the        *)
(* decorators of every field, and how EnvironmentConfig has each part of   *)
(* the configuration converted (class-transformer) and validated           *)
(* (class-validator).                                                      *)
(***************************************************************************)

\* kind: what the validators ask for, "any" if only @IsOptional is there;
\* optional: @IsOptional; default: an initializer of the class.
Field(kind, optional, default) == [kind |-> kind, optional |-> optional, default |-> default]

AppConfig ==
  [port |-> Field("number", FALSE, TRUE), api_key |-> Field("string", TRUE, TRUE)]

CacheConfig ==
  [ttl |-> Field("number", TRUE, TRUE), max |-> Field("number", TRUE, TRUE),
   enable |-> Field("boolean", TRUE, TRUE)]

RedisConfig ==
  [host |-> Field("string", TRUE, TRUE), port |-> Field("number", TRUE, TRUE),
   db |-> Field("string", TRUE, TRUE), username |-> Field("string", TRUE, TRUE),
   password |-> Field("string", TRUE, TRUE)]

AxiosConfig ==
  [baseURL |-> Field("string", FALSE, TRUE), url |-> Field("string", TRUE, FALSE),
   method |-> Field("string", TRUE, FALSE)]

\* AppEnvironment and the names of dialects are strings.
Database ==
  [NODE_ENV |-> Field("string", TRUE, FALSE), type |-> Field("string", TRUE, TRUE),
   host |-> Field("string", FALSE, TRUE), port |-> Field("number", FALSE, TRUE),
   username |-> Field("string", FALSE, TRUE), password |-> Field("string", FALSE, TRUE),
   database |-> Field("string", FALSE, TRUE), logging |-> Field("boolean", TRUE, TRUE),
   synchronize |-> Field("boolean", TRUE, TRUE), autoLoadModels |-> Field("boolean", TRUE, TRUE)]

RabbitMQChannelConfig ==
  [prefetchCount |-> Field("number", TRUE, TRUE), isDefault |-> Field("boolean", TRUE, TRUE)]

RabbitMQExchangeConfig ==
  [name |-> Field("string", FALSE, TRUE), type |-> Field("string", FALSE, TRUE),
   options |-> Field("any", TRUE, FALSE)]

MessageConsumerConfig ==
  [name |-> Field("string", FALSE, TRUE), queue |-> Field("string", TRUE, FALSE),
   exchange |-> Field("string", TRUE, FALSE), routingKey |-> Field("string", TRUE, FALSE),
   routingKeys |-> Field("array", TRUE, FALSE), queueOptions |-> Field("any", TRUE, FALSE),
   createQueueIfNotExists |-> Field("boolean", FALSE, TRUE),
   enable |-> Field("boolean", TRUE, FALSE), batchSize |-> Field("number", TRUE, FALSE),
   idleTimeout |-> Field("number", TRUE, TRUE)]

RabbitMQConfig ==
  [hostname |-> Field("string", FALSE, TRUE), port |-> Field("number", FALSE, TRUE),
   username |-> Field("string", FALSE, TRUE), password |-> Field("string", FALSE, TRUE),
   name |-> Field("string", FALSE, TRUE), prefetchCount |-> Field("number", FALSE, TRUE),
   defaultExchangeType |-> Field("string", FALSE, TRUE)]

----------------------------------------------------------------------------
(* The parts of a configuration. exposed: @Expose makes it exist whatever  *)
(* the file says; typed: it becomes an instance of its class, so that the  *)
(* defaults of the class apply; checked: its fields are validated. Parts   *)
(* of a map (http, database, channels, exchanges, consumer) are one per    *)
(* entry, and channels, exchanges, consumer and redis are inside others.   *)

Part(class, exposed, typed, checked) ==
  [class |-> class, exposed |-> exposed, typed |-> typed, checked |-> checked]

\* @Type and @ValidateNested.
Section(class) == Part(class, TRUE, TRUE, TRUE)

\* @NestedObjectTransform and @NestedObjectValidator: the transform converts
\* what is there, the validator a copy of it.
TransformedEntry(class) == Part(class, FALSE, TRUE, TRUE)

\* @NestedObjectTransform only.
UncheckedEntry(class) == Part(class, FALSE, TRUE, FALSE)

\* @NestedObjectValidator only: valid with the defaults, and left without them.
UntypedEntry(class) == Part(class, FALSE, FALSE, TRUE)

\* @IsOptional only.
Unmanaged(class) == Part(class, FALSE, FALSE, FALSE)

EnvironmentConfig ==
  [app |-> Section(AppConfig),
   cache |-> Section(CacheConfig),
   redis |-> Unmanaged(RedisConfig),
   http |-> TransformedEntry(AxiosConfig),
   rabbitmq |-> Section(RabbitMQConfig),
   channels |-> UntypedEntry(RabbitMQChannelConfig),
   exchanges |-> TransformedEntry(RabbitMQExchangeConfig),
   consumer |-> UntypedEntry(MessageConsumerConfig),
   database |-> UncheckedEntry(Database)]

\* The sections whose value is an instance of a class of its own.
Instances == {"app", "cache", "rabbitmq", "http", "database"}
=============================================================================

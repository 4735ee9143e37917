-------------------------- MODULE ApplicationProofs --------------------------
(***************************************************************************)
(* Proofs about the start of a service, for any loaders, environments,     *)
(* connections, entities and numbers of attempts.                          *)
(***************************************************************************)
EXTENDS Application, SequenceTheorems, TLAPS

----------------------------------------------------------------------------
(* The connections. *)

LEMMA DatabaseTypeStep ==
  ASSUME Database!DatabaseTypeOK, Database!DatabaseNext
  PROVE  Database!DatabaseTypeOK'
<1>. USE DEF Database!DatabaseTypeOK
<1>1. PICK c \in Connections : \/ Database!CreateConnection(c) \/ Database!Authenticated(c)
                               \/ Database!AttemptFails(c) \/ Database!Retry(c)
  BY DEF Database!DatabaseNext
<1>2. CASE Database!CreateConnection(c)
  BY <1>2 DEF Database!CreateConnection, Database!Attempt
<1>3. CASE Database!Authenticated(c)
  BY <1>3 DEF Database!Authenticated
<1>4. CASE Database!AttemptFails(c)
  BY <1>4 DEF Database!AttemptFails
<1>5. CASE Database!Retry(c)
  BY <1>5 DEF Database!Retry, Database!Attempt
<1>. QED
  BY <1>1, <1>2, <1>3, <1>4, <1>5

\* Every attempt is counted, whichever way it ends.
LEMMA AttemptsStep ==
  ASSUME Database!DatabaseTypeOK, Database!DatabaseNext,
         AttemptsCounted, Database!AttemptsLeft
  PROVE  AttemptsCounted' /\ Database!AttemptsLeft'
<1>. USE DEF Database!DatabaseTypeOK
<1>1. PICK c \in Connections : \/ Database!CreateConnection(c) \/ Database!Authenticated(c)
                               \/ Database!AttemptFails(c) \/ Database!Retry(c)
  BY DEF Database!DatabaseNext
<1>2. /\ retryAttempts[c] \in Nat
      /\ Database!AttemptsAllowed(c) = IF retryAttempts[c] = 0 THEN 1 ELSE retryAttempts[c]
      /\ pools[c] \in Nat /\ errorCount[c] \in Nat
  BY ApplicationAssumption DEF Database!DatabaseAssumption, Database!AttemptsAllowed
<1>3. /\ pools[c] <= Database!AttemptsAllowed(c)
      /\ connection[c] = "delayed" => pools[c] = errorCount[c] /\ errorCount[c] < retryAttempts[c]
      /\ connection[c] = "connecting" =>
           /\ pools[c] = errorCount[c] + 1
           /\ errorCount[c] = 0 \/ errorCount[c] < retryAttempts[c]
      /\ connection[c] = "none" => pools[c] = 0 /\ errorCount[c] = 0
  BY DEF AttemptsCounted, Database!AttemptsCounted, Database!AttemptsLeft
<1>4. \A x \in Connections : x # c =>
        UNCHANGED <<connection[x], errorCount[x], pools[x]>>
  BY <1>1 DEF Database!CreateConnection, Database!Authenticated, Database!AttemptFails,
              Database!Retry, Database!Attempt
<1>5. SUFFICES
        /\ pools'[c] <= Database!AttemptsAllowed(c)
        /\ connection'[c] = "delayed" => pools'[c] = errorCount'[c] /\ errorCount'[c] < retryAttempts[c]
        /\ connection'[c] \in {"connecting", "connected"} => pools'[c] = errorCount'[c] + 1
        /\ connection'[c] = "connecting" => errorCount'[c] = 0 \/ errorCount'[c] < retryAttempts[c]
        /\ connection'[c] = "failed" => pools'[c] \in {0, Database!AttemptsAllowed(c)}
        /\ connection'[c] # "none"
  BY <1>4 DEF AttemptsCounted, Database!AttemptsCounted, Database!AttemptsLeft,
              Database!AttemptsAllowed
<1>6. CASE Database!CreateConnection(c)
  BY <1>2, <1>3, <1>6 DEF Database!CreateConnection, Database!Attempt
<1>7. CASE Database!Authenticated(c)
  BY <1>2, <1>3, <1>7 DEF Database!Authenticated
<1>8. CASE Database!AttemptFails(c)
  BY <1>2, <1>3, <1>8 DEF Database!AttemptFails, Database!GivesUp
<1>9. CASE Database!Retry(c)
  BY <1>2, <1>3, <1>9 DEF Database!Retry, Database!Attempt
<1>. QED
  BY <1>1, <1>6, <1>7, <1>8, <1>9

LEMMA EntitiesStep ==
  ASSUME Database!DatabaseTypeOK, Database!DatabaseNext, Database!EntitiesBound
  PROVE  Database!EntitiesBound'
<1>. USE DEF Database!DatabaseTypeOK
<1>1. PICK c \in Connections : \/ Database!CreateConnection(c) \/ Database!Authenticated(c)
                               \/ Database!AttemptFails(c) \/ Database!Retry(c)
  BY DEF Database!DatabaseNext
<1>2. CASE Database!Authenticated(c)
  <2>1. None \notin Connections
    BY ApplicationAssumption DEF Database!DatabaseAssumption
  <2>2. \A x \in Connections : connection'[x] = "connected" => x = c \/ connection[x] = "connected"
    BY <1>2 DEF Database!Authenticated
  <2>3. \A e \in Database!Entities : boundTo'[e] = IF e \in entities[c] THEN c ELSE boundTo[e]
    BY <1>2 DEF Database!Authenticated
  <2>. QED
    BY <2>1, <2>2, <2>3 DEF Database!EntitiesBound
<1>3. CASE ~ Database!Authenticated(c)
  <2>1. boundTo' = boundTo
    BY <1>1, <1>3 DEF Database!CreateConnection, Database!AttemptFails, Database!Retry,
                      Database!Attempt
  <2>2. \A x \in Connections : connection'[x] = "connected" => connection[x] = "connected"
    BY <1>1, <1>3 DEF Database!CreateConnection, Database!AttemptFails, Database!Retry,
                      Database!Attempt
  <2>. QED
    BY <2>1, <2>2 DEF Database!EntitiesBound
<1>. QED
  BY <1>2, <1>3

----------------------------------------------------------------------------
(* The configuration. *)

\* A field with an initializer has one of the kinds a value can have.
LEMMA DefaultKinds ==
  \A p : p \in DOMAIN Config!EnvironmentConfig =>
    \A f \in DOMAIN Config!EnvironmentConfig[p].class :
      Config!EnvironmentConfig[p].class[f].default =>
        Config!EnvironmentConfig[p].class[f].kind \in Config!Kinds
<1>. DEFINE Good(class) ==
              \A f \in DOMAIN class : class[f].default => class[f].kind \in Config!Kinds
<1>1. Good(Config!AppConfig) /\ Good(Config!CacheConfig) /\ Good(Config!RedisConfig)
  BY DEF Config!AppConfig, Config!CacheConfig, Config!RedisConfig, Config!Field, Config!Kinds
<1>2. Good(Config!AxiosConfig) /\ Good(Config!RabbitMQConfig)
  BY DEF Config!AxiosConfig, Config!RabbitMQConfig, Config!Field, Config!Kinds
<1>3. Good(Config!RabbitMQChannelConfig) /\ Good(Config!RabbitMQExchangeConfig)
  BY DEF Config!RabbitMQChannelConfig, Config!RabbitMQExchangeConfig, Config!Field, Config!Kinds
<1>4. Good(Config!MessageConsumerConfig)
  BY DEF Config!MessageConsumerConfig, Config!Field, Config!Kinds
<1>5. Good(Config!Database)
  BY DEF Config!Database, Config!Field, Config!Kinds
<1>. HIDE DEF Good
<1>6. \A p : p \in DOMAIN Config!EnvironmentConfig => Good(Config!EnvironmentConfig[p].class)
  BY <1>1, <1>2, <1>3, <1>4, <1>5
     DEF Config!EnvironmentConfig, Config!Section, Config!TransformedEntry,
         Config!UncheckedEntry, Config!UntypedEntry, Config!Unmanaged, Config!Part
<1>. QED
  BY <1>6 DEF Good

\* A service with one loader converts what it returns.
LEMMA OneLoader ==
  ASSUME NEW s \in Loads, ~ loadIsArray
  PROVE  DOMAIN s = {1} /\ Len(s) = 1
<1>1. s \in Seq({s[i] : i \in DOMAIN s}) /\ Len(s) = 1
  BY ApplicationAssumption DEF Config!ConfigAssumption
<1>. QED
  BY <1>1, LenProperties

LEMMA LoadedIsLoad ==
  ASSUME Config!ConfigTypeOK
  PROVE  Config!IsLoad(Config!Loaded)
<1>1. CASE loadIsArray
  BY <1>1 DEF Config!Loaded, Config!NoConfig, Config!IsLoad
<1>2. CASE ~ loadIsArray
  <2>1. loads \in Loads
    BY DEF Config!ConfigTypeOK
  <2>2. 1 \in DOMAIN loads
    BY <1>2, <2>1, OneLoader
  <2>3. Config!IsLoad(loads[1])
    BY <2>1, <2>2, ApplicationAssumption DEF Config!ConfigAssumption
  <2>. QED
    BY <1>2, <2>3 DEF Config!Loaded
<1>. QED
  BY <1>1, <1>2

\* What the conversion of a load has, and where it comes from.
LEMMA Converted ==
  ASSUME NEW load, Config!IsLoad(load), NEW v, v = Config!PlainToClass(load)
  PROVE  /\ \A p \in DOMAIN v : Config!IsPlace(p)
         /\ \A p \in DOMAIN v : \A f \in DOMAIN v[p] :
              f \in Config!Fields(p) /\ v[p][f] \in Config!Value
         /\ \A p \in DOMAIN load :
              /\ p \in DOMAIN v
              /\ \A f \in DOMAIN load[p] :
                   f \in DOMAIN v[p] /\ v[p][f] = [kind |-> load[p][f], from |-> "file"]
<1>1. /\ DOMAIN v = Config!Sections(load)
      /\ \A p \in Config!Sections(load) :
           v[p] = [f \in Config!FromFile(load, p) \cup Config!Defaults(p) |->
                     IF f \in Config!FromFile(load, p)
                     THEN [kind |-> load[p][f], from |-> "file"]
                     ELSE [kind |-> Config!PartOf(p).class[f].kind, from |-> "default"]]
  BY DEF Config!PlainToClass
<1>2. \A p \in DOMAIN v : Config!IsPlace(p)
  <2>1. ASSUME NEW s \in DOMAIN Config!EnvironmentConfig
        PROVE  Config!IsPlace(<<s>>)
    BY DEF Config!IsPlace
  <2>2. \A p \in DOMAIN load : Config!IsPlace(p)
    BY DEF Config!IsLoad
  <2>. QED
    BY <1>1, <2>1, <2>2 DEF Config!Sections
<1>3. ASSUME NEW p \in DOMAIN v, NEW f \in DOMAIN v[p]
      PROVE  f \in Config!Fields(p) /\ v[p][f] \in Config!Value
  <2>1. f \in Config!FromFile(load, p) \cup Config!Defaults(p)
    BY <1>1, <1>3
  <2>2. CASE f \in Config!FromFile(load, p)
    <3>1. f \in Config!Fields(p) /\ load[p][f] \in Config!Kinds
      BY <2>2 DEF Config!FromFile, Config!IsLoad
    <3>2. v[p][f] = [kind |-> load[p][f], from |-> "file"]
      BY <1>1, <1>3, <2>2
    <3>. QED
      BY <3>1, <3>2 DEF Config!Value
  <2>3. CASE f \notin Config!FromFile(load, p)
    <3>1. f \in Config!Fields(p) /\ Config!PartOf(p).class[f].default
      BY <2>1, <2>3 DEF Config!Defaults
    <3>2. p[1] \in DOMAIN Config!EnvironmentConfig /\ f \in DOMAIN Config!PartOf(p).class
      BY <1>2, <3>1 DEF Config!IsPlace, Config!Fields
    <3>3. Config!PartOf(p).class[f].kind \in Config!Kinds
      BY <3>1, <3>2, DefaultKinds DEF Config!PartOf
    <3>4. v[p] = [g \in Config!FromFile(load, p) \cup Config!Defaults(p) |->
                   IF g \in Config!FromFile(load, p)
                   THEN [kind |-> load[p][g], from |-> "file"]
                   ELSE [kind |-> Config!PartOf(p).class[g].kind, from |-> "default"]]
      BY <1>1, <1>3
    <3>5. v[p][f] = [kind |-> Config!PartOf(p).class[f].kind, from |-> "default"]
      BY <2>1, <2>3, <3>4
    <3>. QED
      BY <3>1, <3>3, <3>5 DEF Config!Value
  <2>. QED
    BY <2>2, <2>3
<1>4. ASSUME NEW p \in DOMAIN load
      PROVE  /\ p \in DOMAIN v
             /\ \A f \in DOMAIN load[p] :
                  f \in DOMAIN v[p] /\ v[p][f] = [kind |-> load[p][f], from |-> "file"]
  <2>1. p \in DOMAIN v
    BY <1>1 DEF Config!Sections
  <2>2. Config!FromFile(load, p) = DOMAIN load[p]
    BY DEF Config!FromFile
  <2>3. v[p] = [f \in Config!FromFile(load, p) \cup Config!Defaults(p) |->
                 IF f \in Config!FromFile(load, p)
                 THEN [kind |-> load[p][f], from |-> "file"]
                 ELSE [kind |-> Config!PartOf(p).class[f].kind, from |-> "default"]]
    BY <1>1, <2>1
  <2>4. ASSUME NEW f \in DOMAIN load[p]
        PROVE  f \in DOMAIN v[p] /\ v[p][f] = [kind |-> load[p][f], from |-> "file"]
    BY <2>2, <2>3
  <2>. QED
    BY <2>1, <2>4
<1>. QED
  BY <1>2, <1>3, <1>4

\* What the environment changes of a configuration.
LEMMA Overriding ==
  ASSUME NEW c, NEW o, o = Config!Overridden(c)
  PROVE  /\ DOMAIN o = DOMAIN c
         /\ \A p \in DOMAIN c :
              /\ DOMAIN o[p] = DOMAIN c[p]
              /\ \A f \in DOMAIN c[p] :
                   o[p][f] \in {c[p][f], [kind |-> "string", from |-> "env"]}
BY DEF Config!Overridden

LEMMA ConfigTypeStep ==
  ASSUME Config!ConfigTypeOK, Config!ConfigNext
  PROVE  Config!ConfigTypeOK'
<1>1. ASSUME NEW i \in DOMAIN loads, Config!LoaderResolves(i) \/ Config!LoaderFails(i)
      PROVE  Config!ConfigTypeOK'
  BY <1>1 DEF Config!ConfigTypeOK, Config!LoaderResolves, Config!LoaderFails
<1>2. CASE Config!GetDynamicModule
  <2>1. PICK v : v = Config!PlainToClass(Config!Loaded)
    OBVIOUS
  <2>2. /\ \A p \in DOMAIN v : Config!IsPlace(p)
        /\ \A p \in DOMAIN v : \A f \in DOMAIN v[p] :
             f \in Config!Fields(p) /\ v[p][f] \in Config!Value
    BY <2>1, LoadedIsLoad, Converted
  <2>3. /\ UNCHANGED <<loads, env, pending>> /\ outcome' \in {"provided", "failed"}
        /\ config' = config \/ config' = Config!Overridden(v)
    BY <1>2, <2>1 DEF Config!GetDynamicModule
  <2>4. [kind |-> "string", from |-> "env"] \in Config!Value
    BY DEF Config!Value, Config!Kinds
  <2>5. CASE config' = Config!Overridden(v)
    <3>1. /\ DOMAIN config' = DOMAIN v
          /\ \A p \in DOMAIN v :
               /\ DOMAIN config'[p] = DOMAIN v[p]
               /\ \A f \in DOMAIN v[p] :
                    config'[p][f] \in {v[p][f], [kind |-> "string", from |-> "env"]}
      BY <2>5, Overriding
    <3>. QED
      BY <2>2, <2>3, <2>4, <3>1 DEF Config!ConfigTypeOK
  <2>6. CASE config' = config
    BY <2>3, <2>6 DEF Config!ConfigTypeOK
  <2>. QED
    BY <2>3, <2>5, <2>6
<1>. QED
  BY <1>1, <1>2 DEF Config!ConfigNext

\* The environment overrides after validation, and only changes what it sets.
LEMMA ConformsStep ==
  ASSUME Config!ConfigTypeOK, Config!ConfigNext, ConformsUnlessOverridden
  PROVE  ConformsUnlessOverridden'
<1>1. ASSUME NEW i \in DOMAIN loads, Config!LoaderResolves(i) \/ Config!LoaderFails(i)
      PROVE  outcome' # "provided"
  BY <1>1 DEF Config!LoaderResolves, Config!LoaderFails
<1>2. CASE Config!GetDynamicModule /\ outcome' = "provided"
  <2>1. PICK v : v = Config!PlainToClass(Config!Loaded)
    OBVIOUS
  <2>2. Config!Errors(v) = {} /\ config' = Config!Overridden(v)
    BY <1>2, <2>1 DEF Config!GetDynamicModule
  <2>3. /\ DOMAIN config' = DOMAIN v
        /\ \A p \in DOMAIN v :
             /\ DOMAIN config'[p] = DOMAIN v[p]
             /\ \A f \in DOMAIN v[p] :
                  config'[p][f] \in {v[p][f], [kind |-> "string", from |-> "env"]}
    BY <2>2, Overriding
  <2>4. ASSUME NEW p \in DOMAIN v, Config!PartOf(p).checked, NEW f \in Config!Fields(p)
        PROVE  \/ Config!Accepts(config', p, f)
               \/ f \in DOMAIN config'[p] /\ config'[p][f].from = "env"
    <3>1. Config!Accepts(v, p, f)
      BY <2>2, <2>4 DEF Config!Errors
    <3>2. CASE f \in DOMAIN v[p] /\ config'[p][f] # v[p][f]
      <4>1. config'[p][f] = [kind |-> "string", from |-> "env"]
        BY <2>3, <3>2
      <4>. QED
        BY <2>3, <3>2, <4>1
    <3>3. CASE ~ (f \in DOMAIN v[p] /\ config'[p][f] # v[p][f])
      BY <2>3, <3>1, <3>3 DEF Config!Accepts
    <3>. QED
      BY <3>2, <3>3
  <2>. QED
    BY <2>3, <2>4 DEF ConformsUnlessOverridden, Config!ConformsUnlessOverridden
<1>. QED
  BY <1>1, <1>2 DEF Config!ConfigNext, ConformsUnlessOverridden,
                    Config!ConformsUnlessOverridden

\* With one loader nothing of what it returns is lost.
LEMMA LoadedStep ==
  ASSUME Config!ConfigTypeOK, Config!ConfigNext, LoadedKept, ~ loadIsArray
  PROVE  LoadedKept'
<1>1. ASSUME NEW i \in DOMAIN loads, Config!LoaderResolves(i) \/ Config!LoaderFails(i)
      PROVE  outcome' # "provided"
  BY <1>1 DEF Config!LoaderResolves, Config!LoaderFails
<1>2. CASE Config!GetDynamicModule /\ outcome' = "provided"
  <2>1. PICK v : v = Config!PlainToClass(Config!Loaded)
    OBVIOUS
  <2>2. config' = Config!Overridden(v) /\ loads' = loads /\ loads \in Loads
    BY <1>2, <2>1 DEF Config!GetDynamicModule, Config!ConfigTypeOK
  <2>3. DOMAIN loads = {1} /\ Config!Loaded = loads[1]
    BY <2>2, OneLoader DEF Config!Loaded
  <2>4. \A p \in DOMAIN loads[1] :
          /\ p \in DOMAIN v
          /\ \A f \in DOMAIN loads[1][p] :
               f \in DOMAIN v[p] /\ v[p][f] = [kind |-> loads[1][p][f], from |-> "file"]
    BY <2>1, <2>3, LoadedIsLoad, Converted
  <2>5. /\ DOMAIN config' = DOMAIN v
        /\ \A p \in DOMAIN v :
             /\ DOMAIN config'[p] = DOMAIN v[p]
             /\ \A f \in DOMAIN v[p] :
                  config'[p][f] \in {v[p][f], [kind |-> "string", from |-> "env"]}
    BY <2>2, Overriding
  <2>6. ASSUME NEW p \in DOMAIN loads[1]
        PROVE  /\ p \in DOMAIN config'
               /\ \A f \in DOMAIN loads[1][p] :
                    /\ f \in DOMAIN config'[p]
                    /\ config'[p][f] \in {[kind |-> loads[1][p][f], from |-> "file"],
                                          [kind |-> "string", from |-> "env"]}
    BY <2>4, <2>5
  <2>. QED
    BY <2>2, <2>3, <2>6 DEF LoadedKept, Config!LoadedKept
<1>. QED
  BY <1>1, <1>2 DEF Config!ConfigNext, LoadedKept, Config!LoadedKept

----------------------------------------------------------------------------
(* The start. *)

\* What the start keeps, apart from the repository, which it does not read.
StartIInv ==
  /\ stage \in {"configuring", "creating", "bootstrapping", "listening", "failed"}
  /\ Config!ConfigTypeOK
  /\ Database!DatabaseTypeOK
  /\ StartInv

\* The parts of the start that only read the configuration, or the connections.
LEMMA ConfigKept ==
  ASSUME UNCHANGED configVars
  PROVE  /\ Config!ConfigTypeOK => Config!ConfigTypeOK'
         /\ ConformsUnlessOverridden => ConformsUnlessOverridden'
         /\ LoadedKept => LoadedKept'
<1>1. Config!ConfigTypeOK => Config!ConfigTypeOK'
  BY DEF configVars, Config!ConfigTypeOK
<1>2. ConformsUnlessOverridden => ConformsUnlessOverridden'
  BY DEF configVars, ConformsUnlessOverridden, Config!ConformsUnlessOverridden, Config!Accepts
<1>3. LoadedKept => LoadedKept'
  BY DEF configVars, LoadedKept, Config!LoadedKept
<1>. QED
  BY <1>1, <1>2, <1>3

LEMMA DatabaseKept ==
  ASSUME UNCHANGED databaseVars
  PROVE  /\ Database!DatabaseTypeOK => Database!DatabaseTypeOK'
         /\ AttemptsCounted => AttemptsCounted'
         /\ Database!AttemptsLeft => Database!AttemptsLeft'
         /\ Database!EntitiesBound => Database!EntitiesBound'
BY DEF databaseVars, Database!DatabaseTypeOK, AttemptsCounted, Database!AttemptsCounted,
       Database!AttemptsLeft, Database!EntitiesBound

\* A statement of a handler needs a call, and a call needs a service that serves.
LEMMA HandleServes ==
  ASSUME StagesFollow, Handle
  PROVE  stage \in {"bootstrapping", "listening"}
<1>1. CASE call # Repository!NoCall
  BY <1>1 DEF StagesFollow
<1>2. CASE call = Repository!NoCall
  <2>1. call.at = "idle"
    BY <1>2 DEF Repository!NoCall
  <2>2. \/ \E state : Repository!Begin(state)
        \/ call.at \in {"updated", "found", "upserting", "ok", "error"}
    BY DEF Handle, Repository!UpdateRows, Repository!Delete, Repository!FindToDelete,
           Repository!Create, Repository!UpsertAll, Repository!Read,
           Repository!FirstStatementFails, Repository!FindUpdated, Repository!DestroyFound,
           Repository!UpsertOne, Repository!StatementFails, Repository!Return,
           Repository!Started
  <2>. QED
    BY <2>1, <2>2 DEF Repository!Begin
<1>. QED
  BY <1>1, <1>2

LEMMA StartInitial == Init => StartIInv
<1>. SUFFICES ASSUME Init PROVE StartIInv
  OBVIOUS
<1>1. Config!ConfigTypeOK
  BY DEF Init, Config!ConfigInit, Config!ConfigTypeOK, Config!NoConfig
<1>2. Database!DatabaseTypeOK
  BY DEF Init, Database!DatabaseInit, Database!DatabaseTypeOK
<1>3. StagesFollow
  BY DEF Init, StagesFollow, Repository!RepositoryInit
<1>4. ConformsUnlessOverridden
  BY DEF Init, Config!ConfigInit, ConformsUnlessOverridden, Config!ConformsUnlessOverridden
<1>5. AttemptsCounted /\ Database!AttemptsLeft
  <2>1. ASSUME NEW c \in Connections
        PROVE  /\ connection[c] = "none" /\ pools[c] = 0 /\ errorCount[c] = 0
               /\ Database!AttemptsAllowed(c) \in Nat
    BY ApplicationAssumption DEF Init, Database!DatabaseInit, Database!DatabaseAssumption,
                                 Database!AttemptsAllowed
  <2>. QED
    BY <2>1 DEF AttemptsCounted, Database!AttemptsCounted, Database!AttemptsLeft
<1>6. Database!EntitiesBound
  BY DEF Init, Database!DatabaseInit, Database!EntitiesBound
<1>. QED
  BY <1>1, <1>2, <1>3, <1>4, <1>5, <1>6 DEF Init, StartIInv, StartInv

LEMMA StartStep ==
  ASSUME StartIInv, [Next]_vars
  PROVE  StartIInv'
<1>. USE DEF StartIInv, StartInv
<1>1. CASE Configure
  <2>1. stage = "configuring" /\ Config!ConfigNext /\ UNCHANGED <<stage, databaseVars, repositoryVars>>
    BY <1>1 DEF Configure
  <2>2. Config!ConfigTypeOK' /\ ConformsUnlessOverridden'
    BY <2>1, ConfigTypeStep, ConformsStep
  <2>3. StagesFollow'
    BY <2>1 DEF StagesFollow, repositoryVars
  <2>. QED
    BY <2>1, <2>2, <2>3, DatabaseKept
<1>2. CASE Connect
  <2>1. /\ stage = "creating" /\ Database!DatabaseNext
        /\ UNCHANGED <<stage, configVars, repositoryVars>>
    BY <1>2 DEF Connect
  <2>2. /\ Database!DatabaseTypeOK' /\ AttemptsCounted' /\ Database!AttemptsLeft'
        /\ Database!EntitiesBound'
    BY <2>1, DatabaseTypeStep, AttemptsStep, EntitiesStep
  <2>3. StagesFollow'
    BY <2>1 DEF StagesFollow, repositoryVars, configVars
  <2>. QED
    BY <2>1, <2>2, <2>3, ConfigKept
<1>3. CASE \/ Instantiate \/ Created \/ Listen \/ Fail \/ Handle \/ Meanwhile \/ UNCHANGED vars
  <2>1. UNCHANGED <<configVars, databaseVars>>
    BY <1>3 DEF Instantiate, Created, Listen, Fail, Handle, Meanwhile, vars
  <2>2. StagesFollow' /\ stage' \in {"configuring", "creating", "bootstrapping", "listening", "failed"}
    <3>1. CASE Instantiate
      BY <3>1 DEF Instantiate, StagesFollow, configVars, repositoryVars
    <3>2. CASE Created
      BY <3>2 DEF Created, StagesFollow, configVars, databaseVars, repositoryVars
    <3>3. CASE Listen
      BY <3>3 DEF Listen, StagesFollow, configVars, databaseVars, repositoryVars
    <3>4. CASE Fail
      BY <3>4 DEF Fail, StagesFollow
    <3>5. CASE Handle
      <4>1. stage \in {"bootstrapping", "listening"} /\ stage' = stage
        BY <3>5, HandleServes DEF Handle
      <4>. QED
        BY <2>1, <4>1 DEF StagesFollow, configVars, databaseVars
    <3>6. CASE Meanwhile
      <4>1. stage \in {"bootstrapping", "listening"} /\ stage' = stage
        BY <3>6 DEF Meanwhile
      <4>. QED
        BY <2>1, <4>1 DEF StagesFollow, configVars, databaseVars
    <3>7. CASE UNCHANGED vars
      BY <3>7 DEF vars, StagesFollow, configVars, databaseVars, repositoryVars
    <3>. QED
      BY <1>3, <3>1, <3>2, <3>3, <3>4, <3>5, <3>6, <3>7
  <2>. QED
    BY <2>1, <2>2, ConfigKept, DatabaseKept
<1>. QED
  BY <1>1, <1>2, <1>3 DEF Next

\* What the start keeps is kept, whatever handlers do.
THEOREM StartInvariance == Spec => []StartInv
<1>1. StartIInv => StartInv
  BY DEF StartIInv
<1>2. StartIInv /\ [Next]_vars => StartIInv'
  BY StartStep
<1>. QED
  BY StartInitial, <1>1, <1>2, PTL DEF Spec

----------------------------------------------------------------------------
(* The properties. *)

\* Of the attempts at a connection none is made beyond retryAttempts, and when
\* it gives up all of them have been made (createProviders).
THEOREM AttemptsBounded == Spec => []AttemptsCounted
<1>1. StartInv => AttemptsCounted
  BY DEF StartInv
<1>. QED
  BY StartInvariance, <1>1, PTL

\* What the application is given conforms to the decorators, save for what the
\* environment replaced (getDynamicModule).
THEOREM Conforms == Spec => []ConformsUnlessOverridden
<1>1. StartInv => ConformsUnlessOverridden
  BY DEF StartInv
<1>. QED
  BY StartInvariance, <1>1, PTL

\* A handler only runs in a service that is configured, connected, and whose
\* entities are bound (bootstrap).
THEOREM ReadyToServe == Spec => []ServesReady
<1>1. StartIInv => ServesReady
  <2>. SUFFICES ASSUME StartIInv, call # Repository!NoCall
                PROVE  /\ outcome = "provided"
                       /\ \A c \in Connections : connection[c] = "connected"
                       /\ \A e \in Database!Entities :
                            boundTo[e] # None /\ e \in entities[boundTo[e]]
    BY DEF ServesReady
  <2>1. outcome = "provided" /\ \A c \in Connections : connection[c] = "connected"
    BY DEF StartIInv, StartInv, StagesFollow
  <2>2. \A e \in Database!Entities : \E c \in Connections : e \in entities[c]
    BY DEF Database!Entities
  <2>. QED
    BY <2>1, <2>2 DEF StartIInv, StartInv, Database!EntitiesBound
<1>2. StartIInv /\ [Next]_vars => StartIInv'
  BY StartStep
<1>. QED
  BY StartInitial, <1>1, <1>2, PTL DEF Spec

\* A service with one loader is given all that it returned, save for what the
\* environment replaced (getConfigureAppAsync, getDynamicModule).
THEOREM OneLoadKept ==
  ASSUME ~ loadIsArray
  PROVE  Spec => []LoadedKept
<1>1. Init => LoadedKept
  BY DEF Init, Config!ConfigInit, LoadedKept, Config!LoadedKept
<1>2. ASSUME StartIInv, LoadedKept, [Next]_vars
      PROVE  LoadedKept'
  <2>1. CASE Configure
    BY <1>2, <2>1, LoadedStep DEF Configure, StartIInv
  <2>2. CASE UNCHANGED configVars
    BY <1>2, <2>2, ConfigKept
  <2>. QED
    BY <1>2, <2>1, <2>2 DEF Next, vars, Instantiate, Connect, Created, Listen, Fail, Handle,
                            Meanwhile
<1>3. StartIInv /\ [Next]_vars => StartIInv'
  BY StartStep
<1>. QED
  BY StartInitial, <1>1, <1>2, <1>3, PTL DEF Spec
=============================================================================

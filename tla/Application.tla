----------------------------- MODULE Application -----------------------------
(***************************************************************************)
(* The start of a service, AppModule.bootstrap (packages/app/src/          *)
(* app.module.ts), with the parts of it that decide whether it comes up:   *)
(* ConfigModule provides the configuration, NestFactory.create has every   *)
(* DatabaseModule connect, all at once, then listen runs the hooks of the  *)
(* modules, in which consumers are registered, and opens the HTTP port.    *)
(* From the hooks on handlers call repositories (SqlRepository). Whatever  *)
(* fails before the port is open ends the process.                         *)
(*                                                                         *)
(* The AMQP connection is awaited too, but never keeps a service from      *)
(* starting by being down: that part is the module ChannelSetup.           *)
(***************************************************************************)
EXTENDS Naturals, Sequences, FiniteSets

CONSTANTS
  Loads, loadIsArray, Envs,                      \* of ConfigModule
  Connections, entities, retryAttempts,          \* of DatabaseModule
  Ids, Values, Filters, MaxLoose,                \* of SqlRepository
  paranoid, rawRows,
  None

VARIABLES
  stage,  \* how far bootstrap is
  loads, env, pending, outcome, config,
  connection, errorCount, pools, boundTo,
  rows, call, loose, touched

Config == INSTANCE ConfigModule

configVars == <<loads, env, pending, outcome, config>>

\* get(databaseConfig, connectionName): the entries of the database section.
Database ==
  INSTANCE DatabaseModule WITH
    configured <- {c \in Connections : <<"database", c>> \in DOMAIN config}

databaseVars == <<connection, errorCount, pools, boundTo>>

\* Handlers run from the hooks on: consumers first, then requests.
Repository == INSTANCE SqlRepository WITH serving <- stage \in {"bootstrapping", "listening"}

repositoryVars == <<rows, call, loose, touched>>

ASSUME ApplicationAssumption ==
  /\ Config!ConfigAssumption
  /\ Database!DatabaseAssumption
  /\ Repository!RepositoryAssumption

vars == <<stage, configVars, databaseVars, repositoryVars>>

TypeOK ==
  /\ stage \in {"configuring", "creating", "bootstrapping", "listening", "failed"}
  /\ Config!ConfigTypeOK
  /\ Database!DatabaseTypeOK
  /\ Repository!RepositoryTypeOK

Init ==
  /\ stage = "configuring"
  /\ Config!ConfigInit
  /\ Database!DatabaseInit
  /\ Repository!RepositoryInit

----------------------------------------------------------------------------
(* An operator called ..Bug is a plausible mistake in the one that follows *)
(* it; no action uses it.                                                  *)

\* ConfigModule.forRootAsync, which buildImportModule calls.
Configure ==
  /\ stage = "configuring"
  /\ Config!ConfigNext
  /\ UNCHANGED <<stage, databaseVars, repositoryVars>>

\* The container resolves the providers: one of those that DatabaseModule
\* injects is missing when the configuration has no database section.
Instantiate ==
  /\ stage = "configuring"
  /\ outcome = "provided"
  /\ stage' = IF Connections = {} \/ "database" \in Config!Provided THEN "creating" ELSE "failed"
  /\ UNCHANGED <<configVars, databaseVars, repositoryVars>>

Connect ==
  /\ stage = "creating"
  /\ Database!DatabaseNext
  /\ UNCHANGED <<stage, configVars, repositoryVars>>

\* NestFactory.create returns after every provider there is, and
\* createApplicationInstance sets up the rest of it; listen runs the hooks.
Created ==
  /\ stage = "creating"
  /\ \A c \in Connections : connection[c] = "connected"
  /\ stage' = "bootstrapping"
  /\ UNCHANGED <<configVars, databaseVars, repositoryVars>>

\* The hooks are done and the port is open.
Listen ==
  /\ stage = "bootstrapping"
  /\ stage' = "listening"
  /\ UNCHANGED <<configVars, databaseVars, repositoryVars>>

\* The rejection of a connection does not reach NestFactory.create.
FailBug ==
  /\ \/ stage = "configuring" /\ outcome = "failed"
     \/ stage = "bootstrapping"
  /\ stage' = "failed"
  /\ call' = Repository!NoCall
  /\ touched' = {}
  /\ loose' = {}
  /\ UNCHANGED <<configVars, databaseVars, rows>>

\* A provider, a hook or the port fails, and the process ends, with the calls
\* of handlers that a message has already started.
Fail ==
  /\ \/ stage = "configuring" /\ outcome = "failed"
     \/ stage = "creating" /\ \E c \in Connections : connection[c] = "failed"
     \/ stage = "bootstrapping"
  /\ stage' = "failed"
  /\ call' = Repository!NoCall
  /\ touched' = {}
  /\ loose' = {}
  /\ UNCHANGED <<configVars, databaseVars, rows>>

\* The statements of the repository.
Handle ==
  /\ \/ \E where \in Filters :
          \/ \E op \in {"update", "updateOne"}, d \in Values : Repository!UpdateRows(op, where, d)
          \/ Repository!Delete(where)
          \/ \E raw \in BOOLEAN : Repository!FindToDelete(where, raw)
     \/ \E ids \in SUBSET Ids \ {{}}, d \in Values :
          Repository!Create(ids, d) \/ Repository!UpsertAll(ids, d)
     \/ Repository!Read
     \/ Repository!FirstStatementFails
     \/ Repository!FindUpdated
     \/ Repository!DestroyFound
     \/ \E i \in Ids : Repository!UpsertOne(i)
     \/ Repository!StatementFails
     \/ Repository!Return
  /\ UNCHANGED <<stage, configVars, databaseVars>>

\* What goes on in the table behind the back of the call.
Meanwhile ==
  /\ stage \in {"bootstrapping", "listening"}
  /\ \/ \E s \in loose : Repository!LooseStatement(s)
     \/ \E i \in Ids, row \in Repository!Row \cup {None} : Repository!OtherWrites(i, row)
  /\ UNCHANGED <<stage, configVars, databaseVars>>

Next ==
  \/ Configure
  \/ Instantiate
  \/ Connect
  \/ Created
  \/ Listen
  \/ Fail
  \/ Handle
  \/ Meanwhile

Spec == Init /\ [][Next]_vars

\* Loading a file, an attempt and a delay come to an end one way or the other,
\* and so does every step of the start.
Fairness ==
  /\ WF_vars(Configure)
  /\ WF_vars(Instantiate)
  /\ WF_vars(Connect)
  /\ WF_vars(Created)
  /\ WF_vars(Listen)
  /\ WF_vars(Fail)

FairSpec == Spec /\ Fairness

----------------------------------------------------------------------------
(* Properties.                                                             *)

LoadedKept == Config!LoadedKept

ConformsUnlessOverridden == Config!ConformsUnlessOverridden

AttemptsCounted == Database!AttemptsCounted

UpdateAnswers == Repository!UpdateAnswers

OkMeansDone == Repository!OkMeansDone

\* No handler reaches a repository before the configuration is provided, every
\* connection has authenticated, and every entity given to a DatabaseModule has
\* been added to one of the connections it was given with.
ServesReady ==
  call # Repository!NoCall =>
    /\ outcome = "provided"
    /\ \A c \in Connections : connection[c] = "connected"
    /\ \A e \in Database!Entities : boundTo[e] # None /\ e \in entities[boundTo[e]]

\* A start comes to an end: the service listens, or the process ends and can be
\* started anew. It does not retry a connection for ever.
StartDecides == <>(stage \in {"listening", "failed"})

----------------------------------------------------------------------------
(* Why the service is ready when it serves: an inductive invariant, which  *)
(* ApplicationProofs proves.                                               *)

\* Each stage of the start has what the stages before it have made.
StagesFollow ==
  /\ stage \in {"creating", "bootstrapping", "listening"} => outcome = "provided"
  /\ stage \in {"bootstrapping", "listening"} => \A c \in Connections : connection[c] = "connected"
  /\ call # Repository!NoCall => stage \in {"bootstrapping", "listening"}

StartInv ==
  /\ StagesFollow
  /\ ConformsUnlessOverridden
  /\ AttemptsCounted
  /\ Database!AttemptsLeft
  /\ Database!EntitiesBound

IInv ==
  /\ TypeOK
  /\ IsFiniteSet(loose)
  /\ StartInv
  /\ Repository!CallInv
=============================================================================

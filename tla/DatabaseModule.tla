--------------------------- MODULE DatabaseModule ---------------------------
(***************************************************************************)
(* The providers of DatabaseModule.forRootAsync (packages/database/src/    *)
(* database.module.ts), one import of the module for each connection: the  *)
(* connection is attempted until it authenticates or the attempts are      *)
(* used up, then the entities are registered with it.                      *)
(*                                                                         *)
(* An attempt makes a Sequelize with a pool of its own, and may fail for   *)
(* any reason: the server is not there, the credentials are wrong, or the  *)
(* section, which nothing validates, names no dialect.                     *)
(***************************************************************************)
EXTENDS Naturals, FiniteSets

CONSTANTS
  Connections,    \* the names of the connections
  entities,       \* the entities given with each of them
  retryAttempts,  \* the option, RETRY_ATTEMPT unless given
  None            \* no connection

Entities == UNION {entities[c] : c \in Connections}

\* Of the constants; assumed by the module that gives them.
DatabaseAssumption ==
  /\ IsFiniteSet(Connections)
  /\ None \notin Connections
  /\ retryAttempts \in [Connections -> Nat]

VARIABLES
  configured,  \* input: the connections the database section has an entry for
  connection,  \* how far each connection is
  errorCount,  \* failed attempts
  pools,       \* the Sequelizes made, none of which is ever closed
  boundTo      \* the connection whose Sequelize each entity has been added to

databaseVars == <<connection, errorCount, pools, boundTo>>

DatabaseTypeOK ==
  /\ connection \in [Connections -> {"none", "connecting", "delayed", "connected", "failed"}]
  /\ errorCount \in [Connections -> Nat]
  /\ pools \in [Connections -> Nat]
  /\ boundTo \in [Entities -> Connections \cup {None}]

DatabaseInit ==
  /\ connection = [c \in Connections |-> "none"]
  /\ errorCount = [c \in Connections |-> 0]
  /\ pools = [c \in Connections |-> 0]
  /\ boundTo = [e \in Entities |-> None]

----------------------------------------------------------------------------
(* An operator called ..Bug is a plausible mistake in the one that follows *)
(* it; no action uses it.                                                  *)

\* The factory does not wait for authenticate.
AttemptBug(c) ==
  /\ connection' = [connection EXCEPT ![c] = "connected"]
  /\ pools' = [pools EXCEPT ![c] = @ + 1]
  /\ UNCHANGED <<errorCount, boundTo>>

\* createSQLConnection, up to its await.
Attempt(c) ==
  /\ connection' = [connection EXCEPT ![c] = "connecting"]
  /\ pools' = [pools EXCEPT ![c] = @ + 1]
  /\ UNCHANGED <<errorCount, boundTo>>

\* The factories of the options and of the connection. Without an entry,
\* getConnectionString reads a field of undefined, before there is a retry.
CreateConnection(c) ==
  /\ connection[c] = "none"
  /\ \/ /\ c \in configured
        /\ Attempt(c)
     \/ /\ c \notin configured
        /\ connection' = [connection EXCEPT ![c] = "failed"]
        /\ UNCHANGED <<errorCount, pools, boundTo>>

\* authenticate succeeds; the factories of registerEntities are next.
Authenticated(c) ==
  /\ connection[c] = "connecting"
  /\ connection' = [connection EXCEPT ![c] = "connected"]
  /\ boundTo' = [e \in Entities |-> IF e \in entities[c] THEN c ELSE boundTo[e]]
  /\ UNCHANGED <<errorCount, pools>>

\* The comparison is with the attempts before this one.
GivesUpBug(c) == errorCount[c] >= retryAttempts[c]

GivesUp(c) == errorCount[c] + 1 >= retryAttempts[c]

\* retryWhen: scan counts the error, or throws it when the attempts are used up.
AttemptFails(c) ==
  /\ connection[c] = "connecting"
  /\ \/ /\ GivesUp(c)
        /\ connection' = [connection EXCEPT ![c] = "failed"]
        /\ UNCHANGED errorCount
     \/ /\ ~GivesUp(c)
        /\ connection' = [connection EXCEPT ![c] = "delayed"]
        /\ errorCount' = [errorCount EXCEPT ![c] = @ + 1]
  /\ UNCHANGED <<pools, boundTo>>

\* delay(retryDelay) is over: defer makes the next attempt.
Retry(c) ==
  /\ connection[c] = "delayed"
  /\ Attempt(c)

DatabaseNext ==
  \E c \in Connections :
    CreateConnection(c) \/ Authenticated(c) \/ AttemptFails(c) \/ Retry(c)

----------------------------------------------------------------------------
(* Properties.                                                             *)

AttemptsAllowed(c) == IF retryAttempts[c] = 0 THEN 1 ELSE retryAttempts[c]

\* The pools a connection holds are the attempts it made, one in use and one
\* left open for each failure, and never more than retryAttempts says: as many
\* when it gives up, with the first attempt among them (createProviders).
AttemptsCounted ==
  \A c \in Connections :
    /\ pools[c] <= AttemptsAllowed(c)
    /\ connection[c] = "delayed" => pools[c] = errorCount[c]
    /\ connection[c] \in {"connecting", "connected"} => pools[c] = errorCount[c] + 1
    /\ connection[c] = "failed" => pools[c] \in {0, AttemptsAllowed(c)}

----------------------------------------------------------------------------
(* Why: the parts of the inductive invariant that ApplicationProofs proves. *)

\* An attempt is only made again while there are attempts left.
AttemptsLeft ==
  \A c \in Connections :
    /\ connection[c] = "none" => pools[c] = 0 /\ errorCount[c] = 0
    /\ connection[c] = "delayed" => errorCount[c] < retryAttempts[c]
    /\ connection[c] = "connecting" => errorCount[c] = 0 \/ errorCount[c] < retryAttempts[c]

\* An entity is only ever added to a connection it was given with, and is to one
\* as soon as any of those has authenticated.
EntitiesBound ==
  \A e \in Entities :
    /\ boundTo[e] # None => e \in entities[boundTo[e]]
    /\ \A c \in Connections : connection[c] = "connected" /\ e \in entities[c] => boundTo[e] # None
=============================================================================

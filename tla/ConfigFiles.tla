----------------------------- MODULE ConfigFiles -----------------------------
(***************************************************************************)
(* Configuration files and environments for the instances.                 *)
(***************************************************************************)
EXTENDS TLC

\* A file with an entry for each of the two connections, one of which has a
\* value of the wrong kind that nothing checks, and with two consumers; RedisConfig
\* has a number where the class says string.
File ==
  <<"app">> :> [port |-> "number"]
  @@ <<"cache">> :> [max |-> "number"]
  @@ <<"redis">> :> [host |-> "string", db |-> "number"]
  @@ <<"database">> :> [f \in {} |-> "null"]
  @@ <<"database", "main">> :> [host |-> "string", port |-> "number"]
  @@ <<"database", "audit">> :> [host |-> "string", port |-> "string"]
  @@ <<"consumer", "one">> :> [queue |-> "string", enable |-> "boolean"]
  @@ <<"consumer", "two">> :> [queue |-> "string", batchSize |-> "number"]

Without(load, places) == [p \in DOMAIN load \ places |-> load[p]]

\* The file; one with errors; one without an entry, or without the section; an
\* empty one.
FileLoads ==
  {<<File>>,
   <<[File EXCEPT ![<<"app">>] = [port |-> "null"]]>>,
   <<[File EXCEPT ![<<"consumer", "two">>] = [queue |-> "number"]]>>,
   <<Without(File, {<<"database", "audit">>})>>,
   <<Without(File, {p \in DOMAIN File : p[1] = "database"})>>,
   <<[p \in {} |-> [f \in {} |-> "null"]]>>}

\* The cache is disabled and a database is elsewhere; and a variable for a field
\* that the configuration does not have.
Environments ==
  {{<<<<"cache">>, "enable">>, <<<<"database", "main">>, "host">>, <<<<"redis">>, "port">>}}

\* Two loaders, one for the database section.
TwoLoads == {<<Without(File, {p \in DOMAIN File : p[1] = "database"}),
               [p \in {q \in DOMAIN File : q[1] = "database"} |-> File[p]]>>}
=============================================================================

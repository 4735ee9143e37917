---------------------------- MODULE MCApplication ----------------------------
(***************************************************************************)
(* Instances of Application for TLC.                                       *)
(***************************************************************************)
EXTENDS Application, ConfigFiles

\* The second connection has the entity of the first one, and another.
SharedEntities == ("main" :> {"User"}) @@ ("audit" :> {"User", "Log"})

Attempts == ("main" :> 2) @@ ("audit" :> 0)

\* One row, all rows, and the rows with a value.
SomeFilters ==
  {[by |-> "id", ids |-> {1}], [by |-> "id", ids |-> {1, 2}], [by |-> "value", value |-> "a"]}
=============================================================================

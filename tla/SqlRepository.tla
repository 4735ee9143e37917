---------------------------- MODULE SqlRepository ----------------------------
(***************************************************************************)
(* A call of SQLRepository (packages/database/src/repositories/            *)
(* sql.repository.ts) or of the SQLService that passes it on, made of one  *)
(* or more statements with no transaction around them.                     *)
(*                                                                         *)
(* Calls meet in the table only. One caller, who makes one call after the  *)
(* other, is followed; what all others do, in this process or in another,  *)
(* is OtherWrites between any two of its statements.                       *)
(***************************************************************************)
EXTENDS Naturals, FiniteSets

CONSTANTS
  Ids,       \* primary keys
  Values,    \* what a row holds
  Filters,   \* the filters that callers use
  MaxLoose,  \* a bound on the statements that rejected calls leave behind
  paranoid,  \* whether a destroyed row stays, with a deleted_at (as SQLModel has it)
  rawRows,   \* query.raw of the connection: rows are found as plain objects
  None       \* no row, no value

\* A condition on the key or on the value.
Filter == [by : {"id"}, ids : SUBSET Ids] \cup [by : {"value"}, value : Values]

\* Of the constants; assumed by the module that gives them.
RepositoryAssumption ==
  /\ IsFiniteSet(Ids)
  /\ Filters \subseteq Filter
  /\ None \notin Values \cup [value : Values, deleted : BOOLEAN]
  /\ MaxLoose \in Nat
  /\ paranoid \in BOOLEAN
  /\ rawRows \in BOOLEAN

VARIABLES
  serving,   \* input: whether the application handles requests or messages
  rows,      \* the table
  call,      \* the call in progress, or answered
  loose,     \* statements of rejected upserts that are still to be executed
  touched    \* history: rows that others wrote since the call's first statement

repositoryVars == <<rows, call, loose, touched>>

Row == [value : Values, deleted : BOOLEAN]

Statement == [id : Ids, value : Values]

\* at: between two statements "updated", "found" or "upserting", or answered.
\* hit: the rows its statements wrote, todo: those it has statements in progress
\* for, got: the rows it found to return.
Call ==
  [op : {"read", "update", "updateOne", "delete", "deleteOne", "create", "upsert"},
   where : Filter, data : Values \cup {None},
   at : {"updated", "found", "upserting", "ok"},
   hit : SUBSET Ids, todo : SUBSET Ids, got : SUBSET Ids]

NoCall == [at |-> "idle"]

Rejected == [at |-> "error"]

RepositoryTypeOK ==
  /\ rows \in [Ids -> Row \cup {None}]
  /\ call \in Call \cup {NoCall, Rejected}
  /\ loose \subseteq Statement /\ Cardinality(loose) <= MaxLoose
  /\ touched \subseteq Ids

RepositoryInit ==
  /\ rows = [i \in Ids |-> None]
  /\ call = NoCall
  /\ loose = {}
  /\ touched = {}

----------------------------------------------------------------------------
(* Statements, which the database executes atomically.                     *)

ById(ids) == [by |-> "id", ids |-> ids]

Visible(i) == rows[i] # None /\ ~rows[i].deleted

\* The rows a statement with this filter selects.
Matching(where) ==
  {i \in Ids : Visible(i) /\ IF where.by = "id" THEN i \in where.ids
                             ELSE rows[i].value = where.value}

\* LIMIT 1: one of the rows, if there is any.
OneOf(ids) == {got \in SUBSET ids : Cardinality(got) = IF ids = {} THEN 0 ELSE 1}

Update(ids, d) == [i \in Ids |-> IF i \in ids THEN [rows[i] EXCEPT !.value = d] ELSE rows[i]]

Destroy(ids) ==
  [i \in Ids |-> IF i \notin ids \/ rows[i] = None THEN rows[i]
                 ELSE IF paranoid THEN [rows[i] EXCEPT !.deleted = TRUE] ELSE None]

Insert(ids, d) ==
  [i \in Ids |-> IF i \in ids THEN [value |-> d, deleted |-> FALSE] ELSE rows[i]]

\* ON CONFLICT DO UPDATE: the value, whatever deleted_at is.
Upsert(i, d) == IF rows[i] = None THEN Insert({i}, d) ELSE Update({i}, d)

\* The first statement of a call.
Begin(state) ==
  /\ serving
  /\ call = NoCall
  /\ call' = state
  /\ touched' = {}

Started(op, where, d, at, hit, todo, got) ==
  Begin([op |-> op, where |-> where, data |-> d, at |-> at, hit |-> hit,
         todo |-> todo, got |-> got])

----------------------------------------------------------------------------
(* The operations. An operator called ..Bug is a plausible mistake in the  *)
(* one that follows it; no action uses it.                                 *)

\* find, findByIds, findOne and findById; what they return is left out.
Read ==
  /\ Started("read", ById({}), None, "ok", {}, {}, {})
  /\ UNCHANGED <<rows, loose>>

\* update and updateOne, which updates every row of the filter too; updateById.
UpdateRows(op, where, d) ==
  /\ op \in {"update", "updateOne"}
  /\ Started(op, where, d, "updated", Matching(where), {}, {})
  /\ rows' = Update(Matching(where), d)
  /\ UNCHANGED loose

\* The rows are read again without the filter of the call.
FindUpdatedBug ==
  /\ call.at = "updated"
  /\ \E got \in IF call.op = "update" THEN {Matching(ById(Ids))} ELSE OneOf(Matching(ById(Ids))) :
       call' = [call EXCEPT !.at = "ok", !.got = got]
  /\ UNCHANGED <<rows, loose, touched>>

\* What they return is found afterwards, with the same filter.
FindUpdated ==
  /\ call.at = "updated"
  /\ \E got \in IF call.op = "update" THEN {Matching(call.where)} ELSE OneOf(Matching(call.where)) :
       call' = [call EXCEPT !.at = "ok", !.got = got]
  /\ UNCHANGED <<rows, loose, touched>>

Delete(where) ==
  /\ Started("delete", where, None, "ok", Matching(where), {}, {})
  /\ rows' = Destroy(Matching(where))
  /\ UNCHANGED loose

\* deleteOne and deleteById. A row that is a plain object has no destroy to
\* call: raw is the option of the connection unless a caller of the repository,
\* the service passes nothing on, says otherwise.
FindToDelete(where, raw) ==
  /\ raw \in {rawRows, FALSE}
  /\ \/ /\ raw /\ Matching(where) # {}
        /\ Begin(Rejected)
     \/ \E got \in OneOf(Matching(where)) :
          /\ ~raw \/ got = {}
          /\ Started("deleteOne", where, None, IF got = {} THEN "ok" ELSE "found", {}, {}, got)
  /\ UNCHANGED <<rows, loose>>

\* row.destroy() by primary key, whatever has become of the row.
DestroyFound ==
  /\ call.at = "found"
  /\ rows' = Destroy(call.got)
  /\ call' = [call EXCEPT !.at = "ok", !.hit = call.got]
  /\ UNCHANGED <<loose, touched>>

\* create and createMany: one INSERT. A key that is taken fails it, be it the
\* key of a destroyed row: the options are taken to be without ignoreDuplicates
\* and updateOnDuplicate.
Create(ids, d) ==
  /\ \/ /\ \A i \in ids : rows[i] = None
        /\ Started("create", ById(ids), d, "ok", ids, {}, {})
        /\ rows' = Insert(ids, d)
     \/ /\ \E i \in ids : rows[i] # None
        /\ Begin(Rejected)
        /\ UNCHANGED rows
  /\ UNCHANGED loose

\* upsert: a statement for each item, all at once.
UpsertAll(ids, d) ==
  /\ Started("upsert", ById(ids), d, "upserting", {}, ids, {})
  /\ UNCHANGED <<rows, loose>>

\* Promise.race instead of Promise.all.
UpsertOneBug(i) ==
  /\ call.at = "upserting"
  /\ i \in call.todo
  /\ rows' = Upsert(i, call.data)
  /\ call' = [call EXCEPT !.at = "ok", !.hit = {i}, !.todo = {}]
  /\ loose' = loose \cup {[id |-> j, value |-> call.data] : j \in call.todo \ {i}}
  /\ UNCHANGED touched

\* One of them is executed; the last one answers the call.
UpsertOne(i) ==
  /\ call.at = "upserting"
  /\ i \in call.todo
  /\ rows' = Upsert(i, call.data)
  /\ call' = [call EXCEPT !.at = IF call.todo = {i} THEN "ok" ELSE @,
                          !.hit = @ \cup {i}, !.todo = @ \ {i}]
  /\ UNCHANGED <<loose, touched>>

\* A later statement fails: the call is rejected with what it has done so far.
\* The other statements of an upsert have been sent and go on.
StatementFails ==
  /\ call.at \in {"updated", "found", "upserting"}
  /\ \E failed \in IF call.todo = {} THEN {{}} ELSE {{i} : i \in call.todo} :
       loose' = loose \cup {[id |-> j, value |-> call.data] : j \in call.todo \ failed}
  /\ Cardinality(loose') <= MaxLoose
  /\ call' = Rejected
  /\ UNCHANGED <<rows, touched>>

\* The first statement of a call fails: nothing has happened.
FirstStatementFails ==
  /\ Begin(Rejected)
  /\ UNCHANGED <<rows, loose>>

\* A statement nobody waits for any more is executed, or fails.
LooseStatement(s) ==
  /\ s \in loose
  /\ loose' = loose \ {s}
  /\ \/ /\ rows' = Upsert(s.id, s.value)
        /\ touched' = IF call = NoCall THEN {} ELSE touched \cup {s.id}
     \/ UNCHANGED <<rows, touched>>
  /\ UNCHANGED call

OtherWrites(i, row) ==
  /\ rows[i] # row
  /\ rows' = [rows EXCEPT ![i] = row]
  /\ touched' = IF call = NoCall THEN {} ELSE touched \cup {i}
  /\ UNCHANGED <<call, loose>>

\* The caller goes on.
Return ==
  /\ call.at \in {"ok", "error"}
  /\ call' = NoCall
  /\ touched' = {}
  /\ UNCHANGED <<rows, loose>>

----------------------------------------------------------------------------
(* Properties.                                                             *)

\* Between the UPDATE and the SELECT of an update anything may happen, and the
\* SELECT asks for the old filter. Still, a row that update or updateOne
\* returns is one they wrote and holds the new data, unless others wrote it
\* since; and with a filter on the key every row they wrote, or one of them,
\* is returned (update, updateOne).
UpdateAnswers ==
  (call.at = "ok" /\ call.op \in {"update", "updateOne"}) =>
    /\ \A i \in call.got \ touched : i \in call.hit /\ rows[i].value = call.data
    /\ (call.op = "update" /\ call.where.by = "id") => call.hit \ touched \subseteq call.got
    /\ (call.op = "updateOne" /\ call.where.by = "id") =>
         call.hit \ touched = {} \/ call.got # {}

\* A call that is answered without an error has done what it was asked, as far
\* as others have not undone it: deleted rows are not found, created ones are,
\* and each item of an upsert is there with its value, if need be in a row that
\* stays destroyed (delete, deleteOne, create, createMany, upsert).
OkMeansDone ==
  call.at = "ok" =>
    /\ call.op = "delete" => Matching(call.where) \subseteq touched
    /\ call.op = "deleteOne" => \A i \in call.got \ touched : ~Visible(i)
    /\ call.op = "create" => \A i \in call.where.ids \ touched : Visible(i) /\ rows[i].value = call.data
    /\ call.op = "upsert" => \A i \in call.where.ids \ touched : rows[i] # None /\ rows[i].value = call.data

----------------------------------------------------------------------------
(* Why: what holds between the statements of a call, the parts of the      *)
(* inductive invariant that RepositoryProofs proves.                       *)

\* After its UPDATE, what the call wrote is as it wrote it, and what the filter
\* selects now it wrote, save for the rows of others.
UpdatedRows ==
  call.at = "updated" =>
    /\ call.op \in {"update", "updateOne"} /\ call.todo = {}
    /\ Matching(call.where) \ touched \subseteq call.hit
    /\ \A i \in call.hit \ touched :
         /\ Visible(i) /\ rows[i].value = call.data
         /\ call.where.by = "id" => i \in call.where.ids

FoundRow == call.at = "found" => call.op = "deleteOne" /\ call.todo = {}

\* An insertion has no filter, only keys.
KeysGiven ==
  (call.at \in {"upserting", "ok"} /\ call.op \in {"create", "upsert"}) => call.where.by = "id"

\* Each item of an upsert is written or to be written.
UpsertedItems ==
  call.at = "upserting" =>
    /\ call.op = "upsert" /\ call.data \in Values
    /\ call.where.ids = call.hit \cup call.todo
    /\ \A i \in call.hit \ touched : rows[i] # None /\ rows[i].value = call.data

CallInv ==
  /\ UpdatedRows
  /\ FoundRow
  /\ KeysGiven
  /\ UpsertedItems
  /\ UpdateAnswers
  /\ OkMeansDone
=============================================================================
